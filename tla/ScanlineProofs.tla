--------------------------- MODULE ScanlineProofs ---------------------------
(***************************************************************************)
(* The lines last as long as a turn of the timer and every pixel is at its *)
(* place, for all lengths of the pulses and the porch and all numbers of   *)
(* columns that the timer leaves time for.                                 *)
(***************************************************************************)
EXTENDS ScanlineClock, TLAPS

(* The clocks of a line at which its parts begin.                           *)
PORCH  == 12 * SYNC_SHORT + 3                  \* the sync pulse is over
SELECT == PORCH + 3 * H_BACK + 5               \* and the back porch
BITMAP == SELECT + 59                          \* the first byte of a bitmap
TEXT   == SELECT + 4                           \* the first turn of the text loop

(* A byte of a bitmap or the glyph of a column; none where there is none.   *)
Pixels(n) == [kind |-> "pixels", col |-> n]
Tile(n)   == [kind |-> "tile", col |-> n]
Glyph(n)  == IF 0 <= n /\ n < NCOLS THEN [kind |-> "glyph", col |-> n] ELSE Blank
Lit(byte, bit) == IF byte = Blank THEN Dark ELSE [byte |-> byte, bit |-> bit]

(* Clocks into a turn of a loop, and the bit on show, before each step.     *)
BitmapAt  == <<0, 2, 3, 4, 5, 12, 13, 20, 21, 28, 29, 36, 37, 44, 45, 52, 53, 60, 61, 63>>
BitmapBit == <<0, 0, 0, 0, 7, 7, 6, 6, 5, 5, 4, 4, 3, 3, 2, 2, 1, 1, 0, 0>>
TextAt  == <<0, 1, 3, 4, 11, 12, 19, 20, 27, 28, 35, 36, 43, 44, 51, 52, 53, 59, 60, 64>>
TextBit == <<7, 7, 7, 6, 6, 5, 5, 4, 4, 3, 3, 2, 2, 1, 1, 0, 0, 0, 7, 7>>

(* The column a turn is about, whose number is counted up within the turn.  *)
BitmapColumn == IF step >= 18 THEN col - 1 ELSE col
TextColumn   == IF step >= 2 THEN col - 1 ELSE col

(* In the middle of a byte of a bitmap: the byte is fetched, latched, shown *)
(* bit by bit; until then the last bit of its left neighbour is on show.    *)
BitmapAtStep(n, s) ==
    /\ gap = BITMAP + 63 * n + BitmapAt[s]
    /\ s >= 3 => acc = Pixels(n)
    /\ s >= 4 => exch = Pixels(n)
    /\ out = (IF s >= 5 THEN [byte |-> Pixels(n), bit |-> BitmapBit[s]]
              ELSE IF n = 0 THEN Dark ELSE [byte |-> Pixels(n - 1), bit |-> 0])

(* In the middle of a turn of the text loop: the glyph of the column before *)
(* is shifted out while that of this one is looked up.                      *)
TextAtStep(n, s) ==
    /\ gap = TEXT + 64 * n + TextAt[s]
    /\ s >= 2 => acc = IF s <= 6 THEN Tile(n) ELSE Glyph(n)
    /\ exch = Glyph(IF s <= 16 THEN n - 1 ELSE n)
    /\ out = Lit(Glyph(IF s <= 18 THEN n - 1 ELSE n), TextBit[s])

-----------------------------------------------------------------------------
(* Before the first sync pulse nothing is known of the phase.               *)
FirstInv == gap < 0 => pc \in {"poll", "sync", "asleep"} /\ region = "front"

(* The timer is four clocks short of a turn when a pulse begins; from then  *)
(* on clock and gap go together, and the poll is in time for the last tick. *)
PhaseInv ==
    /\ pc = "asleep" => gap < 0
    /\ pc = "sync" => clock = 8 /\ (gap >= 0 => gap = PERIOD - 4)
    /\ gap >= 0 /\ pc # "sync" => clock = gap + 12
    /\ pc = "poll" => gap <= PERIOD - 26

(* Where in a line each part of it begins.                                  *)
PlaceInv ==
    /\ pc = "low" => gap = 0
    /\ pc = "porch" => region = "active" /\ gap = PORCH
    /\ pc = "select" => region = "active" /\ gap = SELECT
    /\ pc = "lineEnd" =>
         IF region = "active" THEN gap + 40 <= PERIOD ELSE gap = 12 * Pulse + 3

(* What the column loops have done so far.                                  *)
LoopInv ==
    /\ pc \notin {"bitmap", "text"} => out = Dark
    /\ pc = "bitmap" => /\ region = "active" /\ 1 <= step /\ step <= 20
                        /\ 0 <= BitmapColumn /\ BitmapColumn < NCOLS
                        /\ BitmapAtStep(BitmapColumn, step)
    /\ pc = "text" => /\ region = "active" /\ 1 <= step /\ step <= 20
                      /\ 0 <= TextColumn /\ TextColumn <= NCOLS
                      /\ TextAtStep(TextColumn, step)

LineInv == TypeOK /\ FirstInv /\ PhaseInv /\ PlaceInv /\ LoopInv /\ SteadyLines

-----------------------------------------------------------------------------
(* The instructions of the two loops, one after the other.                  *)
LEMMA BitmapCode ==
    /\ Len(BitmapByte) = 19
    /\ BitmapByte[1] = Do("wait", 2) /\ BitmapByte[2] = Do("fetch", 1)
    /\ BitmapByte[3] = Do("latch", 1) /\ BitmapByte[4] = Show(7)
    /\ BitmapByte[5] = Do("wait", 7) /\ BitmapByte[6] = Show(6)
    /\ BitmapByte[7] = Do("wait", 7) /\ BitmapByte[8] = Show(5)
    /\ BitmapByte[9] = Do("wait", 7) /\ BitmapByte[10] = Show(4)
    /\ BitmapByte[11] = Do("wait", 7) /\ BitmapByte[12] = Show(3)
    /\ BitmapByte[13] = Do("wait", 7) /\ BitmapByte[14] = Show(2)
    /\ BitmapByte[15] = Do("wait", 7) /\ BitmapByte[16] = Show(1)
    /\ BitmapByte[17] = Do("advance", 7) /\ BitmapByte[18] = Show(0)
    /\ BitmapByte[19] = Do("wait", 2)
BY DEF BitmapByte, Shift

LEMMA TextCode ==
    /\ Len(TextGlyph) = 19
    /\ TextGlyph[1] = Do("fetch", 1) /\ TextGlyph[2] = Do("wait", 2)
    /\ TextGlyph[3] = Show(6) /\ TextGlyph[4] = Do("wait", 7)
    /\ TextGlyph[5] = Show(5) /\ TextGlyph[6] = Do("lookup", 7)
    /\ TextGlyph[7] = Show(4) /\ TextGlyph[8] = Do("wait", 7)
    /\ TextGlyph[9] = Show(3) /\ TextGlyph[10] = Do("wait", 7)
    /\ TextGlyph[11] = Show(2) /\ TextGlyph[12] = Do("wait", 7)
    /\ TextGlyph[13] = Show(1) /\ TextGlyph[14] = Do("wait", 7)
    /\ TextGlyph[15] = Show(0) /\ TextGlyph[16] = Do("latch", 1)
    /\ TextGlyph[17] = Do("wait", 6) /\ TextGlyph[18] = Show(7)
    /\ TextGlyph[19] = Do("wait", 4)
BY DEF TextGlyph, Shift

(* What an instruction of bitmap_out_byte does at its place.                *)
LEMMA BitmapTable ==
    ASSUME NEW s \in Int, 1 <= s, s <= 19
    PROVE  LET i == BitmapByte[s]
           IN  /\ i.clocks \in Nat /\ BitmapAt[s + 1] = BitmapAt[s] + i.clocks
               /\ BitmapAt[s] \in Nat /\ BitmapAt[s + 1] <= 63
               /\ BitmapBit[s + 1] \in 0 .. 7
               /\ i.op = "wait" => s \notin {2, 3, 4, 17} /\ BitmapBit[s + 1] = BitmapBit[s]
               /\ i.op = "fetch" => s = 2 /\ i.clocks = 1
               /\ i.op = "latch" => s = 3 /\ i.clocks = 1
               /\ i.op = "advance" => s = 17 /\ i.clocks = 7 /\ BitmapBit[18] = BitmapBit[17]
               /\ i.op = "show" => /\ s >= 4 /\ s # 17 /\ i.clocks = 1
                                   /\ i.bit = BitmapBit[s + 1]
                                   /\ BitmapAt[s] = 4 + 8 * (7 - i.bit)
                                   /\ IF s = 4 THEN i.bit = 7 ELSE s > 4 /\ i.bit = BitmapBit[s] - 1
               /\ i.op # "lookup"
BY BitmapCode DEF BitmapAt, BitmapBit, Do, Show

LEMMA TextTable ==
    ASSUME NEW s \in Int, 1 <= s, s <= 19
    PROVE  LET i == TextGlyph[s]
           IN  /\ i.clocks \in Nat /\ TextAt[s + 1] = TextAt[s] + i.clocks
               /\ TextAt[s] \in Nat /\ TextAt[s + 1] <= 64
               /\ TextBit[s + 1] \in 0 .. 7
               /\ i.op = "wait" => s \notin {1, 6, 16, 18} /\ TextBit[s + 1] = TextBit[s]
               /\ i.op = "fetch" => s = 1 /\ i.clocks = 1 /\ TextBit[2] = TextBit[1]
               /\ i.op = "lookup" => s = 6 /\ i.clocks = 7 /\ TextBit[7] = TextBit[6]
               /\ i.op = "latch" => s = 16 /\ i.clocks = 1 /\ TextBit[17] = TextBit[16]
               /\ i.op = "show" => /\ s >= 3 /\ s \notin {6, 16} /\ i.clocks = 1
                                   /\ i.bit = TextBit[s + 1]
                                   /\ IF s = 18
                                        THEN i.bit = 7 /\ TextBit[s] = 0 /\ TextAt[s] = 59
                                        ELSE /\ s < 16 /\ i.bit = TextBit[s] - 1
                                             /\ TextAt[s] = 3 + 8 * (6 - i.bit)
               /\ i.op # "advance"
BY TextCode DEF TextAt, TextBit, Do, Show

-----------------------------------------------------------------------------
(* The tests of the phase fit two values of TMR0_INIT, the code's being 65. *)
LEMMA Turn ==
    /\ \/ TMR0_INIT = 65 /\ PERIOD = 3056
       \/ TMR0_INIT = 193 /\ PERIOD = 1008
    /\ FREQ_DIV = 16
<1>1. TMR0_INIT \in Nat /\ TMR0_INIT < 255 /\ TMR0_INIT % 128 = 65
  BY ClockAssumption, TimingAssumption
<1>2. TMR0_INIT = 65 \/ TMR0_INIT = 193
  BY ONLY <1>1
<1> QED BY <1>2 DEF PERIOD, FREQ_DIV

(* The parts of a line fit into it.                                         *)
LEMMA Places ==
    /\ SYNC_SHORT \in Nat /\ SYNC_LONG \in Nat /\ H_BACK \in Nat
    /\ NCOLS \in Nat /\ NCOLS >= 1
    /\ PERIOD \in Nat /\ PERIOD >= 1008
    /\ PORCH \in Nat /\ PORCH = 12 * SYNC_SHORT + 3
    /\ SELECT \in Nat /\ SELECT = PORCH + 3 * H_BACK + 5
    /\ BITMAP = SELECT + 59 /\ BITMAP + 63 * NCOLS + 48 <= PERIOD
    /\ TEXT = SELECT + 4 /\ TEXT + 64 * NCOLS + 110 <= PERIOD
    /\ 12 * SYNC_LONG + 37 <= PERIOD /\ 12 * SYNC_SHORT + 39 <= PERIOD
    /\ ORIGIN = BITMAP + 4 /\ ORIGIN = TEXT + 59
BY ClockAssumption, TimingAssumption, Turn
   DEF PORCH, SELECT, BITMAP, TEXT, ORIGIN

(* The timer shows 255 in the last sixteen clocks of its turn.              *)
LEMMA LastTick ==
    ASSUME NEW t \in Int, -TMR0_INIT * FREQ_DIV <= t, t < PERIOD + 16
    PROVE  /\ Count(t) = 255 <=> PERIOD - 16 <= t /\ t < PERIOD
           /\ PERIOD <= t => Count(t) = TMR0_INIT
<1>1. CASE TMR0_INIT = 65 /\ PERIOD = 3056
  BY <1>1, Turn DEF Count
<1>2. CASE TMR0_INIT = 193 /\ PERIOD = 1008
  BY <1>2, Turn DEF Count
<1> QED BY <1>1, <1>2, Turn

(* Each test the sum of the four reads can pass makes up for the clocks by  *)
(* which the poll was late, and a poll at most two clocks late passes one.  *)
LEMMA Phase ==
    ASSUME NEW t \in Int, t = clock, -TMR0_INIT * FREQ_DIV <= t, t < PERIOD, Count(t) = 255
    PROVE  /\ \A k \in 1 .. 3 : ReloadSum = Tests[k] => t + 17 + k + 4 = PERIOD + 8
           /\ t + 14 <= PERIOD => \E k \in 1 .. 3 : ReloadSum = Tests[k]
<1> DEFINE C(n) == IF t + n < PERIOD THEN 255 ELSE TMR0_INIT
<1>1. PERIOD - 16 <= t
  BY LastTick, Turn
<1>2. ASSUME NEW n \in 13 .. 16 PROVE Count(t + n) = C(n)
  BY <1>1, LastTick, Turn
<1>3. ReloadSum = (C(13) + C(14) + C(15) + C(16)) % 128
  BY <1>2 DEF ReloadSum
<1>4. Tests[1] = 66 /\ Tests[2] = 0 /\ Tests[3] = 62
  BY DEF Tests
<1>5. t \in Int /\ t < PERIOD
  OBVIOUS
<1> DEFINE R == ReloadSum
           T(k) == Tests[k]
<1> HIDE DEF R, T
<1>6. T(1) = 66 /\ T(2) = 0 /\ T(3) = 62 /\ R = (C(13) + C(14) + C(15) + C(16)) % 128
  BY <1>3, <1>4 DEF R, T
<1>7. R = IF t = PERIOD - 16 THEN 62 ELSE IF t = PERIOD - 15 THEN 0
          ELSE IF t = PERIOD - 14 THEN 66 ELSE 4
  <2>1. CASE TMR0_INIT = 65 /\ PERIOD = 3056
    BY ONLY <1>1, <1>5, <1>6, <2>1
  <2>2. CASE TMR0_INIT = 193 /\ PERIOD = 1008
    BY ONLY <1>1, <1>5, <1>6, <2>2
  <2> QED BY <2>1, <2>2, Turn
<1>8. \A k \in 1 .. 3 : R = T(k) => t + 17 + k + 4 = PERIOD + 8
  BY <1>1, <1>5, <1>6, <1>7, Turn
<1>9. t + 14 <= PERIOD => \E k \in 1 .. 3 : R = T(k)
  BY <1>1, <1>5, <1>6, <1>7, Turn
<1> QED BY <1>8, <1>9 DEF R, T

(* The types, with ranges as inequalities.                                  *)
TypedLine ==
    /\ clock \in Int /\ -TMR0_INIT * FREQ_DIV <= clock /\ clock < PERIOD
    /\ pc \in {"poll", "asleep", "sync", "low", "porch", "select", "bitmap",
                "text", "lineEnd"}
    /\ region \in {"front", "vsync", "back", "active"}
    /\ step \in Int /\ 0 <= step /\ step <= 30
    /\ col \in Int /\ 0 <= col /\ col <= NCOLS + 1
    /\ acc \in Bytes /\ exch \in Bytes /\ out \in [byte : Bytes, bit : 0 .. 7]
    /\ gap \in Int /\ -1 <= gap /\ gap < PERIOD
    /\ line \in Nat

LEMMA TypeIs == (TypeOK <=> TypedLine) /\ (TypeOK' <=> TypedLine')
<1>1. TypeOK <=> TypedLine
  BY Turn, Places DEF TypeOK, TypedLine
<1>2. TypeOK' <=> TypedLine'
  BY <1>1, PTL
<1> QED BY <1>1, <1>2

LEMMA BlankType == Blank \in Bytes /\ Dark \in [byte : Bytes, bit : 0 .. 7]
BY Places DEF Blank, Dark, Bytes

-----------------------------------------------------------------------------
(* The poll and the alignment.                                              *)
LEMMA PollAgainKeeps == LineInv /\ PollAgain => LineInv'
<1> SUFFICES ASSUME LineInv, PollAgain PROVE LineInv'
    OBVIOUS
<1>1. TypedLine /\ FirstInv /\ PhaseInv /\ LoopInv /\ SteadyLines
  BY TypeIs DEF LineInv
<1>2. pc = "poll" /\ clock < PERIOD - 16
  BY <1>1, LastTick, Places DEF PollAgain, TypedLine
<1>3. clock' = clock + 3 /\ gap' = (IF gap < 0 THEN gap ELSE gap + 3)
  BY <1>1, <1>2, Places DEF PollAgain, Spend, Tick, TypedLine
<1>4. UNCHANGED <<pc, region, step, col, acc, exch, out, line>>
  BY DEF PollAgain, drawVars
<1>5. TypedLine'
  BY <1>1, <1>2, <1>3, <1>4, Places, Turn DEF TypedLine, PhaseInv
<1>6. FirstInv' /\ PhaseInv' /\ PlaceInv'
  BY <1>1, <1>2, <1>3, <1>4, Places DEF FirstInv, PhaseInv, PlaceInv, TypedLine
<1>7. LoopInv' /\ SteadyLines'
  BY <1>1, <1>2, <1>4 DEF LoopInv, SteadyLines
<1> QED BY <1>5, <1>6, <1>7, TypeIs DEF LineInv

LEMMA AlignKeeps == LineInv /\ Align => LineInv'
<1> SUFFICES ASSUME LineInv, Align PROVE LineInv'
    OBVIOUS
<1>1. TypedLine /\ FirstInv /\ PhaseInv /\ LoopInv /\ SteadyLines
  BY TypeIs DEF LineInv
<1>2. /\ pc = "poll" /\ pc' = "sync"
      /\ UNCHANGED <<region, step, col, acc, exch, out, line>>
  BY DEF Align, drawVars
<1>3. PICK k \in 1 .. 3 : ReloadSum = Tests[k] /\ Spend(17 + k + 4)
  BY DEF Align
<1>4. clock + 17 + k + 4 = PERIOD + 8
  BY <1>1, <1>3, Phase, Places DEF Align, TypedLine
<1>5. clock' = 8 /\ gap' = (IF gap < 0 THEN gap ELSE gap + 17 + k + 4)
  BY <1>1, <1>3, <1>4, Places DEF Spend, Tick, TypedLine
<1>6. gap >= 0 => gap' = PERIOD - 4
  BY <1>1, <1>2, <1>4, <1>5, Places DEF PhaseInv, TypedLine
<1>7. TypedLine'
  BY <1>1, <1>2, <1>5, <1>6, Places, Turn DEF TypedLine
<1>8. FirstInv' /\ PhaseInv' /\ PlaceInv'
  BY <1>1, <1>2, <1>5, <1>6, Places DEF FirstInv, PhaseInv, PlaceInv, TypedLine
<1>9. LoopInv' /\ SteadyLines'
  BY <1>1, <1>2 DEF LoopInv, SteadyLines
<1> QED BY <1>7, <1>8, <1>9, TypeIs DEF LineInv

(* A phase the tests do not know is met only before the first pulse.        *)
LEMMA TimerFailKeeps == LineInv /\ TimerFail => LineInv'
<1> SUFFICES ASSUME LineInv, TimerFail PROVE LineInv'
    OBVIOUS
<1>1. TypedLine /\ FirstInv /\ PhaseInv /\ LoopInv /\ SteadyLines
  BY TypeIs DEF LineInv
<1>2. /\ pc = "poll" /\ pc' = "asleep" /\ Spend(21)
      /\ UNCHANGED <<region, step, col, acc, exch, out, line>>
  BY DEF TimerFail, drawVars
<1>3. ~(clock + 14 <= PERIOD)
  BY <1>1, Phase, Places DEF TimerFail, TypedLine
<1>4. gap < 0
  BY <1>1, <1>2, <1>3, Places DEF PhaseInv, TypedLine
<1>5. gap' = gap /\ clock' = clock + 21 - PERIOD
  BY <1>1, <1>2, <1>3, <1>4, Places DEF Spend, Tick, TypedLine
<1>6. TypedLine'
  BY <1>1, <1>2, <1>3, <1>5, Places, Turn DEF TypedLine
<1>7. FirstInv' /\ PhaseInv' /\ PlaceInv'
  BY <1>1, <1>2, <1>4, <1>5, Places DEF FirstInv, PhaseInv, PlaceInv, TypedLine
<1>8. LoopInv' /\ SteadyLines'
  BY <1>1, <1>2 DEF LoopInv, SteadyLines
<1> QED BY <1>6, <1>7, <1>8, TypeIs DEF LineInv

-----------------------------------------------------------------------------
(* The sync pulse, the porch and the prologues.                             *)
LEMMA SyncFallsKeeps == LineInv /\ SyncFalls => LineInv'
<1> SUFFICES ASSUME LineInv, SyncFalls PROVE LineInv'
    OBVIOUS
<1>1. TypedLine /\ FirstInv /\ PhaseInv /\ LoopInv /\ SteadyLines
  BY TypeIs DEF LineInv
<1>2. /\ pc = "sync" /\ pc' = "low" /\ Tick(4) /\ gap' = 0
      /\ line' = IF gap < 0 THEN 0 ELSE gap + 4
      /\ UNCHANGED <<region, step, col, acc, exch, out>>
  BY DEF SyncFalls, drawVars
<1>3. clock' = 12 /\ line' \in {0, PERIOD}
  BY <1>1, <1>2, Places DEF Tick, PhaseInv, TypedLine
<1>4. TypedLine'
  BY <1>1, <1>2, <1>3, Places, Turn DEF TypedLine
<1>5. FirstInv' /\ PhaseInv' /\ PlaceInv'
  BY <1>2, <1>3 DEF FirstInv, PhaseInv, PlaceInv
<1>6. LoopInv' /\ SteadyLines'
  <2>1. PERIOD' = PERIOD
    BY DEF PERIOD, FREQ_DIV
  <2> QED BY <1>1, <1>2, <1>3, <2>1 DEF LoopInv, SteadyLines
<1> QED BY <1>4, <1>5, <1>6, TypeIs DEF LineInv

(* Within a line the two counts go on together.                             *)
LEMMA InLine ==
    ASSUME TypedLine, PhaseInv, gap >= 0, pc # "sync", NEW n \in Nat, Spend(n),
           gap + n + 12 < PERIOD
    PROVE  gap' = gap + n /\ clock' = gap' + 12
BY Places DEF Spend, Tick, PhaseInv, TypedLine

LEMMA SyncRisesKeeps == LineInv /\ SyncRises => LineInv'
<1> SUFFICES ASSUME LineInv, SyncRises PROVE LineInv'
    OBVIOUS
<1>1. TypedLine /\ FirstInv /\ PhaseInv /\ PlaceInv /\ LoopInv /\ SteadyLines
  BY TypeIs DEF LineInv
<1>2. /\ pc = "low" /\ pc' = IF region = "active" THEN "porch" ELSE "lineEnd"
      /\ Spend(12 * Pulse + 3)
      /\ UNCHANGED <<region, step, col, acc, exch, out, line>>
  BY DEF SyncRises, drawVars
<1>3. /\ Pulse \in Nat /\ 12 * Pulse + 37 <= PERIOD /\ Pulse' = Pulse
      /\ region = "active" => Pulse = SYNC_SHORT
  BY <1>2, Places DEF Pulse
<1>4. gap' = 12 * Pulse + 3 /\ clock' = gap' + 12
  BY <1>1, <1>2, <1>3, InLine, Places DEF PlaceInv
<1>5. TypedLine'
  BY <1>1, <1>2, <1>3, <1>4, Places, Turn DEF TypedLine
<1>6. FirstInv' /\ PhaseInv' /\ PlaceInv'
  BY <1>2, <1>3, <1>4, Places DEF FirstInv, PhaseInv, PlaceInv
<1>7. LoopInv' /\ SteadyLines'
  BY <1>1, <1>2 DEF LoopInv, SteadyLines
<1> QED BY <1>5, <1>6, <1>7, TypeIs DEF LineInv

LEMMA BackPorchKeeps == LineInv /\ HorizontalBackPorch => LineInv'
<1> SUFFICES ASSUME LineInv, HorizontalBackPorch PROVE LineInv'
    OBVIOUS
<1>1. TypedLine /\ PhaseInv /\ PlaceInv /\ LoopInv /\ SteadyLines
  BY TypeIs DEF LineInv
<1>2. /\ pc = "porch" /\ pc' = "select" /\ Spend(2 + 3 * H_BACK - 1 + 4)
      /\ UNCHANGED <<region, step, col, acc, exch, out, line>>
  BY DEF HorizontalBackPorch, drawVars
<1>3. region = "active" /\ gap = PORCH
  BY <1>1, <1>2 DEF PlaceInv
<1>4. gap' = SELECT /\ clock' = gap' + 12
  BY <1>1, <1>2, <1>3, InLine, Places
<1>5. TypedLine'
  BY <1>1, <1>2, <1>4, Places, Turn DEF TypedLine
<1>6. FirstInv' /\ PhaseInv' /\ PlaceInv'
  BY <1>2, <1>3, <1>4, Places DEF FirstInv, PhaseInv, PlaceInv, SELECT, PORCH
<1>7. LoopInv' /\ SteadyLines'
  BY <1>1, <1>2 DEF LoopInv, SteadyLines
<1> QED BY <1>5, <1>6, <1>7, TypeIs DEF LineInv

(* What a column is about in a line that is drawn.                          *)
LEMMA ByteTypes ==
    /\ \A n \in Int : 0 <= n /\ n < NCOLS => Pixels(n) \in Bytes /\ Pixels(n) # Blank
    /\ \A n \in Int : 0 <= n /\ n <= NCOLS => Tile(n) \in Bytes /\ Tile(n).col = n
    /\ \A n \in Int : Glyph(n) \in Bytes
    /\ \A n \in Int, b \in 0 .. 7 : Lit(Glyph(n), b) \in [byte : Bytes, bit : 0 .. 7]
<1>1. \A n \in Int : 0 <= n /\ n < NCOLS => Pixels(n) \in Bytes /\ Pixels(n) # Blank
  BY Places DEF Pixels, Bytes, Blank
<1>2. \A n \in Int : 0 <= n /\ n <= NCOLS => Tile(n) \in Bytes /\ Tile(n).col = n
  BY Places DEF Tile, Bytes
<1>3. \A n \in Int : Glyph(n) \in Bytes
  BY Places DEF Glyph, Bytes, Blank
<1>4. \A n \in Int, b \in 0 .. 7 : Lit(Glyph(n), b) \in [byte : Bytes, bit : 0 .. 7]
  BY <1>3, BlankType DEF Lit
<1> QED BY <1>1, <1>2, <1>3, <1>4

LEMMA SelectBitmapKeeps == LineInv /\ SelectBitmap => LineInv'
<1> SUFFICES ASSUME LineInv, SelectBitmap PROVE LineInv'
    OBVIOUS
<1>1. TypedLine /\ PhaseInv /\ PlaceInv /\ LoopInv /\ SteadyLines
  BY TypeIs DEF LineInv
<1>2. /\ pc = "select" /\ pc' = "bitmap" /\ Spend(59) /\ step' = 1 /\ col' = 0
      /\ UNCHANGED <<region, acc, exch, out, line>>
  BY DEF SelectBitmap
<1>3. region = "active" /\ gap = SELECT /\ out = Dark
  BY <1>1, <1>2 DEF PlaceInv, LoopInv
<1>4. gap' = BITMAP /\ clock' = gap' + 12
  BY <1>1, <1>2, <1>3, InLine, Places
<1>5. TypedLine'
  BY <1>1, <1>2, <1>4, Places, Turn DEF TypedLine
<1>6. FirstInv' /\ PhaseInv' /\ PlaceInv'
  BY <1>2, <1>4, Places DEF FirstInv, PhaseInv, PlaceInv
<1>7. LoopInv'
  <2>1. BitmapColumn' = 0
    BY <1>2 DEF BitmapColumn
  <2>2. BitmapAtStep(0, 1)'
    BY <1>2, <1>3, <1>4, Places DEF BitmapAtStep, BitmapAt, BITMAP
  <2> QED BY <1>2, <1>3, <2>1, <2>2, Places DEF LoopInv
<1>8. SteadyLines'
  BY <1>1, <1>2 DEF SteadyLines
<1> QED BY <1>5, <1>6, <1>7, <1>8, TypeIs DEF LineInv

LEMMA SelectTextKeeps == LineInv /\ SelectText => LineInv'
<1> SUFFICES ASSUME LineInv, SelectText PROVE LineInv'
    OBVIOUS
<1>1. TypedLine /\ PhaseInv /\ PlaceInv /\ LoopInv /\ SteadyLines
  BY TypeIs DEF LineInv
<1>2. /\ pc = "select" /\ pc' = "text" /\ Spend(4) /\ step' = 1 /\ col' = 0
      /\ exch' = Blank /\ UNCHANGED <<region, acc, out, line>>
  BY DEF SelectText
<1>3. region = "active" /\ gap = SELECT /\ out = Dark
  BY <1>1, <1>2 DEF PlaceInv, LoopInv
<1>4. gap' = TEXT /\ clock' = gap' + 12
  BY <1>1, <1>2, <1>3, InLine, Places
<1>5. TypedLine'
  BY <1>1, <1>2, <1>4, Places, Turn, BlankType DEF TypedLine
<1>6. FirstInv' /\ PhaseInv' /\ PlaceInv'
  BY <1>2, <1>4, Places DEF FirstInv, PhaseInv, PlaceInv
<1>7. LoopInv'
  <2>1. TextColumn' = 0
    BY <1>2 DEF TextColumn
  <2>2. Glyph(0 - 1) = Blank
    BY DEF Glyph
  <2>3. TextAtStep(0, 1)'
    BY <1>2, <1>3, <1>4, <2>2, Places DEF TextAtStep, TextAt, TextBit, TEXT, Lit
  <2> QED BY <1>2, <1>3, <2>1, <2>3, Places DEF LoopInv
<1>8. SteadyLines'
  BY <1>1, <1>2 DEF SteadyLines
<1> QED BY <1>5, <1>6, <1>7, <1>8, TypeIs DEF LineInv

-----------------------------------------------------------------------------
(* The end of a line.                                                       *)
LEMMA EndBitmapKeeps == LineInv /\ EndBitmap => LineInv'
<1> SUFFICES ASSUME LineInv, EndBitmap PROVE LineInv'
    OBVIOUS
<1>1. TypedLine /\ PhaseInv /\ PlaceInv /\ LoopInv /\ SteadyLines
  BY TypeIs DEF LineInv
<1>2. /\ pc = "bitmap" /\ pc' = "lineEnd" /\ step > 19 /\ col = NCOLS
      /\ Spend(8) /\ out' = Dark
      /\ UNCHANGED <<region, step, col, acc, exch, line>>
  <2>1. pc = "bitmap" /\ Loop = BitmapByte
    BY DEF EndBitmap, Loop
  <2> QED BY <2>1, BitmapCode DEF EndBitmap
<1>3. /\ region = "active" /\ step = 20 /\ BitmapColumn = NCOLS - 1
      /\ BitmapAtStep(NCOLS - 1, 20)
  BY <1>1, <1>2, Places DEF LoopInv, BitmapColumn, TypedLine
<1>4. gap = BITMAP + 63 * NCOLS
  BY <1>3, Places DEF BitmapAtStep, BitmapAt
<1>5. gap' = gap + 8 /\ clock' = gap' + 12
  BY <1>1, <1>2, <1>4, InLine, Places
<1>6. TypedLine'
  BY <1>1, <1>2, <1>4, <1>5, Places, Turn, BlankType DEF TypedLine
<1>7. FirstInv' /\ PhaseInv' /\ PlaceInv'
  BY <1>2, <1>3, <1>4, <1>5, Places DEF FirstInv, PhaseInv, PlaceInv
<1>8. LoopInv' /\ SteadyLines'
  BY <1>1, <1>2 DEF LoopInv, SteadyLines
<1> QED BY <1>6, <1>7, <1>8, TypeIs DEF LineInv

(* The trailing space has left the output dark.                             *)
LEMMA EndTextKeeps == LineInv /\ EndText => LineInv'
<1> SUFFICES ASSUME LineInv, EndText PROVE LineInv'
    OBVIOUS
<1>1. TypedLine /\ PhaseInv /\ PlaceInv /\ LoopInv /\ SteadyLines
  BY TypeIs DEF LineInv
<1>2. /\ pc = "text" /\ pc' = "lineEnd" /\ step > 19 /\ col = NCOLS + 1 /\ Spend(6)
      /\ UNCHANGED <<region, step, col, acc, exch, out, line>>
  <2>1. pc = "text" /\ Loop = TextGlyph
    BY DEF EndText, Loop
  <2> QED BY <2>1, TextCode DEF EndText, drawVars
<1>3. region = "active" /\ step = 20 /\ TextColumn = NCOLS /\ TextAtStep(NCOLS, 20)
  BY <1>1, <1>2, Places DEF LoopInv, TextColumn, TypedLine
<1>4. gap = TEXT + 64 * NCOLS + 64 /\ out = Dark
  BY <1>3, Places DEF TextAtStep, TextAt, Glyph, Lit
<1>5. gap' = gap + 6 /\ clock' = gap' + 12
  BY <1>1, <1>2, <1>4, InLine, Places
<1>6. TypedLine'
  BY <1>1, <1>2, <1>4, <1>5, Places, Turn DEF TypedLine
<1>7. FirstInv' /\ PhaseInv' /\ PlaceInv'
  BY <1>2, <1>3, <1>4, <1>5, Places DEF FirstInv, PhaseInv, PlaceInv
<1>8. LoopInv' /\ SteadyLines'
  BY <1>1, <1>2, <1>4 DEF LoopInv, SteadyLines
<1> QED BY <1>6, <1>7, <1>8, TypeIs DEF LineInv

(* Back at the poll, the calls and the bookkeeping of the line included.    *)
LEMMA ProceedKeeps ==
    ASSUME LineInv, NEW from, NEW to \in {"front", "vsync", "back", "active"},
           NEW n \in Nat, n <= 10, from # "active" => n <= 6, from = "vsync" => n <= 4,
           Proceed(from, to, n)
    PROVE  LineInv'
<1>1. TypedLine /\ FirstInv /\ PhaseInv /\ PlaceInv /\ LoopInv /\ SteadyLines
  BY TypeIs DEF LineInv
<1>2. /\ pc = "lineEnd" /\ pc' = "poll" /\ region = from /\ region' = to /\ Spend(n + 4)
      /\ UNCHANGED <<step, col, acc, exch, out, line>>
  BY DEF Proceed, drawVars
<1>3. gap >= 0 /\ gap + n + 4 + 26 <= PERIOD
  BY <1>1, <1>2, Places DEF FirstInv, PlaceInv, Pulse, TypedLine
<1>4. gap' = gap + n + 4 /\ clock' = gap' + 12
  <2>1. n + 4 \in Nat /\ gap + (n + 4) + 12 < PERIOD /\ pc # "sync"
    BY <1>1, <1>2, <1>3, Places DEF TypedLine
  <2>2. gap' = gap + (n + 4) /\ clock' = gap' + 12
    BY <1>1, <1>2, <1>3, <2>1, InLine
  <2> QED BY <1>1, <2>2 DEF TypedLine
<1>5. TypedLine'
  BY <1>1, <1>2, <1>3, <1>4, Places, Turn DEF TypedLine
<1>6. FirstInv' /\ PhaseInv' /\ PlaceInv'
  BY <1>1, <1>2, <1>3, <1>4, Places DEF FirstInv, PhaseInv, PlaceInv, TypedLine
<1>7. LoopInv' /\ SteadyLines'
  BY <1>1, <1>2 DEF LoopInv, SteadyLines
<1> QED BY <1>5, <1>6, <1>7, TypeIs DEF LineInv

-----------------------------------------------------------------------------
(* The column loops.  A step of one is one of its instructions.             *)
LoopStep == Wait \/ Fetch \/ Advance \/ Lookup \/ Latch \/ ShowPixel

LEMMA Fixed == UNCHANGED <<BITMAP, TEXT, BitmapAt, BitmapBit, TextAt, TextBit, Blank, Dark>>
BY DEF BITMAP, TEXT, SELECT, PORCH, BitmapAt, BitmapBit, TextAt, TextBit, Blank, Dark

(* What remains to be shown of a step of a loop.                            *)
LEMMA InLoop ==
    ASSUME TypedLine, SteadyLines, pc \in {"bitmap", "text"}, region = "active",
           pc' = pc, region' = region, line' = line,
           NEW s \in 1 .. 20, step' = s,
           NEW c \in 0 .. NCOLS + 1, col' = c,
           NEW g \in Nat, g + 12 < PERIOD, gap' = g, clock' = g + 12,
           acc' \in Bytes, exch' \in Bytes, out' \in [byte : Bytes, bit : 0 .. 7]
    PROVE  TypedLine' /\ FirstInv' /\ PhaseInv' /\ PlaceInv' /\ SteadyLines'
<1>1. UNCHANGED <<Bytes, PERIOD, FREQ_DIV>>
  BY DEF Bytes, PERIOD, FREQ_DIV
<1>2. TypedLine'
  <2>1. clock' \in Int /\ -TMR0_INIT * FREQ_DIV <= clock' /\ clock' < PERIOD
    BY Places, Turn
  <2>2. gap' \in Int /\ -1 <= gap' /\ gap' < PERIOD
    BY Places
  <2>3. line' \in Nat
    BY DEF TypedLine
  <2>4. step' \in Int /\ 0 <= step' /\ step' <= 30
    OBVIOUS
  <2>5. col' \in Int /\ 0 <= col' /\ col' <= NCOLS + 1
    BY Places
  <2> QED BY <1>1, <2>1, <2>2, <2>3, <2>4, <2>5 DEF TypedLine
<1>3. FirstInv'
  BY DEF FirstInv
<1>4. PhaseInv'
  BY DEF PhaseInv
<1>5. PlaceInv'
  BY DEF PlaceInv
<1>6. SteadyLines'
  BY <1>1 DEF SteadyLines
<1> QED BY <1>2, <1>3, <1>4, <1>5, <1>6

LEMMA BitmapKeeps == LineInv /\ pc = "bitmap" /\ LoopStep => LineInv'
<1> SUFFICES ASSUME LineInv, pc = "bitmap", LoopStep PROVE LineInv'
    OBVIOUS
<1> DEFINE i == BitmapByte[step]
<1>1. TypedLine /\ PhaseInv /\ LoopInv /\ SteadyLines
  BY TypeIs DEF LineInv
<1>2. Loop = BitmapByte /\ Len(BitmapByte) = 19
  BY BitmapCode DEF Loop
<1>3. /\ step' = step + 1 /\ UNCHANGED <<pc, region, line>> /\ step <= 19
      /\ i.op \in {"wait", "fetch", "advance", "lookup", "latch", "show"}
  BY <1>2 DEF LoopStep, Wait, Fetch, Advance, Lookup, Latch, ShowPixel, At, StepOn
<1>4. PICK s \in 1 .. 19 : s = step
  BY <1>1, <1>3 DEF LoopInv, TypedLine
<1>5. PICK n \in Int : n = BitmapColumn /\ 0 <= n /\ n < NCOLS /\ BitmapAtStep(n, s)
  BY <1>1, <1>4 DEF LoopInv, BitmapColumn, TypedLine
<1>6. /\ i.clocks \in Nat /\ BitmapAt[s + 1] = BitmapAt[s] + i.clocks
      /\ BitmapAt[s] \in Nat /\ BitmapAt[s + 1] <= 63 /\ BitmapBit[s + 1] \in 0 .. 7
      /\ i.op # "lookup"
  BY <1>4, BitmapTable
<1>7. Spend(i.clocks)
  BY <1>2, <1>3, <1>4, BitmapTable
     DEF LoopStep, Wait, Fetch, Advance, Lookup, Latch, ShowPixel, At
<1>8. gap = BITMAP + 63 * n + BitmapAt[s] /\ gap \in Nat
  BY <1>5, <1>6, Places DEF BitmapAtStep
<1>9. LET g == BITMAP + 63 * n + BitmapAt[s + 1]
      IN  g \in Nat /\ g + 12 < PERIOD /\ gap' = g /\ clock' = g + 12
  <2>1. gap + i.clocks + 12 < PERIOD
    BY <1>5, <1>6, <1>8, Places
  <2>2. gap' = gap + i.clocks /\ clock' = gap' + 12
    BY <1>1, <1>6, <1>7, <1>8, <2>1, InLine
  <2> QED BY <1>5, <1>6, <1>8, <2>1, <2>2, Places
<1> HIDE DEF i
<1> DEFINE Col(t) == IF t >= 18 THEN n + 1 ELSE n
           Goal == /\ col' = Col(s + 1)
                   /\ acc' \in Bytes /\ exch' \in Bytes
                   /\ s + 1 >= 3 => acc' = Pixels(n)
                   /\ s + 1 >= 4 => exch' = Pixels(n)
                   /\ out' = (IF s + 1 >= 5
                                THEN [byte |-> Pixels(n), bit |-> BitmapBit[s + 1]]
                              ELSE IF n = 0 THEN Dark
                              ELSE [byte |-> Pixels(n - 1), bit |-> 0])
<1>10. /\ col \in Int /\ acc \in Bytes /\ exch \in Bytes /\ col = Col(s)
       /\ s >= 3 => acc = Pixels(n)
       /\ s >= 4 => exch = Pixels(n)
       /\ out = (IF s >= 5 THEN [byte |-> Pixels(n), bit |-> BitmapBit[s]]
                 ELSE IF n = 0 THEN Dark ELSE [byte |-> Pixels(n - 1), bit |-> 0])
  BY <1>1, <1>4, <1>5 DEF BitmapAtStep, BitmapColumn, TypedLine
<1>11. Goal
  <2>1. CASE Wait
    <3>1. s \notin {2, 3, 4, 17} /\ BitmapBit[s + 1] = BitmapBit[s]
      BY <1>2, <1>4, <2>1, BitmapTable DEF Wait, At
    <3>2. UNCHANGED <<col, acc, exch, out>>
      BY <2>1 DEF Wait
    <3> QED BY <1>4, <1>10, <3>1, <3>2 DEF Goal
  <2>2. CASE Fetch
    <3>1. s = 2 /\ acc' = Pixels(col) /\ UNCHANGED <<col, exch, out>>
      BY <1>2, <1>4, <2>2, BitmapTable DEF Fetch, At, Pixels
    <3> QED BY <1>5, <1>10, <3>1, ByteTypes DEF Goal
  <2>3. CASE Latch
    <3>1. s = 3 /\ exch' = acc /\ UNCHANGED <<col, acc, out>>
      BY <1>2, <1>4, <2>3, BitmapTable DEF Latch, At
    <3> QED BY <1>5, <1>10, <3>1, ByteTypes DEF Goal
  <2>4. CASE Advance
    <3>1. s = 17 /\ BitmapBit[18] = BitmapBit[17] /\ col' = col + 1 /\ UNCHANGED <<acc, exch, out>>
      BY <1>2, <1>4, <2>4, BitmapTable DEF Advance, At
    <3> QED BY <1>5, <1>10, <3>1 DEF Goal
  <2>5. CASE ShowPixel
    <3>1. s >= 4 /\ s # 17 /\ i.bit = BitmapBit[s + 1]
      BY <1>2, <1>4, <2>5, BitmapTable DEF ShowPixel, At, i
    <3>2. exch # Blank /\ exch = Pixels(n)
      BY <1>5, <1>10, <3>1, ByteTypes
    <3>3. out' = [byte |-> Pixels(n), bit |-> BitmapBit[s + 1]] /\ UNCHANGED <<col, acc, exch>>
      BY <1>2, <1>4, <2>5, <3>1, <3>2 DEF ShowPixel, i
    <3> QED BY <1>4, <1>10, <3>1, <3>3 DEF Goal
  <2>6. CASE Lookup
    BY <1>2, <1>4, <1>6, <2>6 DEF Lookup, At, i
  <2> QED BY <2>1, <2>2, <2>3, <2>4, <2>5, <2>6 DEF LoopStep
<1>12. out' \in [byte : Bytes, bit : 0 .. 7]
  <2>1. Pixels(n) \in Bytes /\ (n # 0 => Pixels(n - 1) \in Bytes)
    BY <1>5, ByteTypes, Places
  <2>2. CASE s + 1 >= 5
    BY <1>6, <1>11, <2>1, <2>2
  <2>3. CASE s + 1 < 5 /\ n = 0
    BY <1>11, <2>3, BlankType
  <2>4. CASE s + 1 < 5 /\ n # 0
    BY <1>11, <2>1, <2>4
  <2> QED BY <2>2, <2>3, <2>4
<1>13. Col(s + 1) \in 0 .. NCOLS + 1 /\ s + 1 \in 1 .. 20
  BY <1>4, <1>5, Places
<1>14. region = "active"
  BY <1>1 DEF LoopInv
<1>15. TypedLine' /\ FirstInv' /\ PhaseInv' /\ PlaceInv' /\ SteadyLines'
  <2> DEFINE g == BITMAP + 63 * n + BitmapAt[s + 1]
  <2>1. g \in Nat /\ g + 12 < PERIOD /\ gap' = g /\ clock' = g + 12
    BY <1>9
  <2> HIDE DEF g, Col
  <2>2. step' = s + 1 /\ pc' = pc /\ region' = region /\ line' = line
    BY <1>3, <1>4
  <2>3. col' = Col(s + 1) /\ acc' \in Bytes /\ exch' \in Bytes
    BY <1>11
  <2> QED BY <1>1, <1>12, <1>13, <1>14, <2>1, <2>2, <2>3, InLoop
<1>16. LoopInv'
  <2>1. BitmapColumn' = n
    BY <1>3, <1>4, <1>11 DEF BitmapColumn
  <2>2. BitmapAtStep(n, s + 1)'
    BY <1>9, <1>11, Fixed DEF BitmapAtStep, Pixels
  <2>3. BitmapAtStep(BitmapColumn, step)'
    BY <1>3, <1>4, <2>1, <2>2
  <2> QED BY <1>3, <1>4, <1>5, <1>14, <2>1, <2>3 DEF LoopInv
<1> QED BY <1>15, <1>16, TypeIs DEF LineInv

LEMMA TextKeeps == LineInv /\ pc = "text" /\ LoopStep => LineInv'
<1> SUFFICES ASSUME LineInv, pc = "text", LoopStep PROVE LineInv'
    OBVIOUS
<1> DEFINE i == TextGlyph[step]
<1>1. TypedLine /\ PhaseInv /\ LoopInv /\ SteadyLines
  BY TypeIs DEF LineInv
<1>2. Loop = TextGlyph /\ Len(TextGlyph) = 19
  BY TextCode DEF Loop
<1>3. /\ step' = step + 1 /\ UNCHANGED <<pc, region, line>> /\ step <= 19
      /\ i.op \in {"wait", "fetch", "advance", "lookup", "latch", "show"}
  BY <1>2 DEF LoopStep, Wait, Fetch, Advance, Lookup, Latch, ShowPixel, At, StepOn
<1>4. PICK s \in 1 .. 19 : s = step
  BY <1>1, <1>3 DEF LoopInv, TypedLine
<1>5. PICK n \in Int : n = TextColumn /\ 0 <= n /\ n <= NCOLS /\ TextAtStep(n, s)
  BY <1>1, <1>4 DEF LoopInv, TextColumn, TypedLine
<1>6. /\ i.clocks \in Nat /\ TextAt[s + 1] = TextAt[s] + i.clocks
      /\ TextAt[s] \in Nat /\ TextAt[s + 1] <= 64 /\ TextBit[s + 1] \in 0 .. 7
      /\ i.op # "advance"
  BY <1>4, TextTable
<1>7. Spend(i.clocks)
  BY <1>2, <1>3, <1>4, TextTable
     DEF LoopStep, Wait, Fetch, Advance, Lookup, Latch, ShowPixel, At
<1>8. gap = TEXT + 64 * n + TextAt[s] /\ gap \in Nat
  BY <1>5, <1>6, Places DEF TextAtStep
<1>9. LET g == TEXT + 64 * n + TextAt[s + 1]
      IN  g \in Nat /\ g + 12 < PERIOD /\ gap' = g /\ clock' = g + 12
  <2>1. gap + i.clocks + 12 < PERIOD
    BY <1>5, <1>6, <1>8, Places
  <2>2. gap' = gap + i.clocks /\ clock' = gap' + 12
    BY <1>1, <1>6, <1>7, <1>8, <2>1, InLine
  <2> QED BY <1>5, <1>6, <1>8, <2>1, <2>2, Places
<1> HIDE DEF i
<1> DEFINE Col(t) == IF t >= 2 THEN n + 1 ELSE n
           Goal == /\ col' = Col(s + 1) /\ acc' \in Bytes
                   /\ s + 1 >= 2 => acc' = IF s + 1 <= 6 THEN Tile(n) ELSE Glyph(n)
                   /\ exch' = Glyph(IF s + 1 <= 16 THEN n - 1 ELSE n)
                   /\ out' = Lit(Glyph(IF s + 1 <= 18 THEN n - 1 ELSE n), TextBit[s + 1])
<1>10. /\ col \in Int /\ acc \in Bytes /\ col = Col(s)
       /\ s >= 2 => acc = IF s <= 6 THEN Tile(n) ELSE Glyph(n)
       /\ exch = Glyph(IF s <= 16 THEN n - 1 ELSE n)
       /\ out = Lit(Glyph(IF s <= 18 THEN n - 1 ELSE n), TextBit[s])
  BY <1>1, <1>4, <1>5 DEF TextAtStep, TextColumn, TypedLine
<1>11. Goal
  <2>1. CASE Wait
    <3>1. s \notin {1, 6, 16, 18} /\ TextBit[s + 1] = TextBit[s]
      BY <1>2, <1>4, <2>1, TextTable DEF Wait, At
    <3>2. UNCHANGED <<col, acc, exch, out>>
      BY <2>1 DEF Wait
    <3> QED BY <1>4, <1>10, <3>1, <3>2 DEF Goal
  <2>2. CASE Fetch
    <3>1. /\ s = 1 /\ TextBit[2] = TextBit[1]
          /\ acc' = Tile(col) /\ col' = col + 1 /\ UNCHANGED <<exch, out>>
      BY <1>2, <1>4, <2>2, TextTable DEF Fetch, At, Tile
    <3>2. Tile(n) \in Bytes
      BY <1>5, ByteTypes
    <3> QED BY <1>5, <1>10, <3>1, <3>2 DEF Goal
  <2>3. CASE Lookup
    <3>1. /\ s = 6 /\ TextBit[7] = TextBit[6] /\ UNCHANGED <<col, exch, out>>
          /\ acc' = IF acc.col = NCOLS THEN Blank ELSE [acc EXCEPT !.kind = "glyph"]
      BY <1>2, <1>4, <2>3, TextTable DEF Lookup, At
    <3>2. acc = Tile(n) /\ Glyph(n) \in Bytes
      BY <1>5, <1>10, <3>1, ByteTypes
    <3>3. acc' = Glyph(n)
      BY <1>5, <3>1, <3>2, Places DEF Tile, Glyph
    <3> QED BY <1>5, <1>10, <3>1, <3>2, <3>3 DEF Goal
  <2>4. CASE Latch
    <3>1. /\ s = 16 /\ TextBit[17] = TextBit[16] /\ exch' = acc
          /\ UNCHANGED <<col, acc, out>>
      BY <1>2, <1>4, <2>4, TextTable DEF Latch, At
    <3> QED BY <1>5, <1>10, <3>1 DEF Goal
  <2>5. CASE ShowPixel
    <3>1. s >= 3 /\ s \notin {6, 16} /\ i.bit = TextBit[s + 1] /\ (s < 16 \/ s = 18)
      BY <1>2, <1>4, <2>5, TextTable DEF ShowPixel, At, i
    <3>2. out' = Lit(exch, TextBit[s + 1]) /\ UNCHANGED <<col, acc, exch>>
      BY <1>2, <1>4, <2>5, <3>1 DEF ShowPixel, i, Lit
    <3> QED BY <1>4, <1>5, <1>10, <3>1, <3>2 DEF Goal
  <2>6. CASE Advance
    BY <1>2, <1>4, <1>6, <2>6 DEF Advance, At, i
  <2> QED BY <2>1, <2>2, <2>3, <2>4, <2>5, <2>6 DEF LoopStep
<1>12. exch' \in Bytes /\ out' \in [byte : Bytes, bit : 0 .. 7]
  BY <1>4, <1>5, <1>6, <1>11, ByteTypes
<1>13. Col(s + 1) \in 0 .. NCOLS + 1 /\ s + 1 \in 1 .. 20
  BY <1>4, <1>5, Places
<1>14. region = "active"
  BY <1>1 DEF LoopInv
<1>15. TypedLine' /\ FirstInv' /\ PhaseInv' /\ PlaceInv' /\ SteadyLines'
  <2> DEFINE g == TEXT + 64 * n + TextAt[s + 1]
  <2>1. g \in Nat /\ g + 12 < PERIOD /\ gap' = g /\ clock' = g + 12
    BY <1>9
  <2> HIDE DEF g, Col
  <2>2. step' = s + 1 /\ pc' = pc /\ region' = region /\ line' = line
    BY <1>3, <1>4
  <2>3. col' = Col(s + 1) /\ acc' \in Bytes
    BY <1>11
  <2> QED BY <1>1, <1>12, <1>13, <1>14, <2>1, <2>2, <2>3, InLoop
<1>16. LoopInv'
  <2>1. TextColumn' = n
    BY <1>3, <1>4, <1>11 DEF TextColumn
  <2>2. TextAtStep(n, s + 1)'
    BY <1>9, <1>11, Fixed DEF TextAtStep, Tile, Glyph, Lit
  <2>3. TextAtStep(TextColumn, step)'
    BY <1>3, <1>4, <2>1, <2>2
  <2> QED BY <1>3, <1>4, <1>5, <1>14, <2>1, <2>3 DEF LoopInv
<1> QED BY <1>15, <1>16, TypeIs DEF LineInv

(* The state at the end of a column is that at the start of the next.       *)
LEMMA NextColumnKeeps == LineInv /\ NextColumn => LineInv'
<1> SUFFICES ASSUME LineInv, NextColumn PROVE LineInv'
    OBVIOUS
<1>1. TypedLine /\ FirstInv /\ PhaseInv /\ PlaceInv /\ LoopInv /\ SteadyLines
  BY TypeIs DEF LineInv
<1>2. /\ pc \in {"bitmap", "text"} /\ step > Len(Loop) /\ step' = 1
      /\ col < (IF pc = "bitmap" THEN NCOLS ELSE NCOLS + 1)
      /\ UNCHANGED <<clock, gap, pc, region, col, acc, exch, out, line>>
  BY DEF NextColumn
<1>3. Len(Loop) = 19
  BY BitmapCode, TextCode DEF Loop
<1>4. step = 20 /\ region = "active"
  BY <1>1, <1>2, <1>3 DEF LoopInv, TypedLine
<1>5. PICK n \in Int : n = col - 1
  BY <1>1 DEF TypedLine
<1>6. col = n + 1 /\ n >= 0 /\ n + 1 <= NCOLS
  BY <1>1, <1>2, <1>4, <1>5, Places DEF LoopInv, BitmapColumn, TextColumn, TypedLine
<1>7. TypedLine'
  BY <1>1, <1>2, Places, Turn DEF TypedLine
<1>8. FirstInv' /\ PhaseInv' /\ PlaceInv' /\ SteadyLines'
  BY <1>1, <1>2 DEF FirstInv, PhaseInv, PlaceInv, SteadyLines
<1>9. CASE pc = "bitmap"
  <2>1. BitmapAtStep(n, 20)
    BY <1>1, <1>4, <1>5, <1>9 DEF LoopInv, BitmapColumn
  <2>2. /\ gap = BITMAP + 63 * n + 63
        /\ out = [byte |-> Pixels(n), bit |-> 0]
    BY <2>1 DEF BitmapAtStep, BitmapAt, BitmapBit
  <2>3. /\ gap' = BITMAP + 63 * (n + 1) + 0
        /\ out' = [byte |-> Pixels((n + 1) - 1), bit |-> 0] /\ n + 1 # 0
    BY <1>2, <1>6, <2>2, Places
  <2>4. BitmapAtStep(n + 1, 1)'
    BY <2>3, Fixed DEF BitmapAtStep, BitmapAt, Pixels
  <2>5. BitmapColumn' = n + 1 /\ n + 1 < NCOLS
    BY <1>2, <1>6, <1>9, Places DEF BitmapColumn
  <2>6. LoopInv'
    BY <1>2, <1>4, <1>6, <1>9, <2>4, <2>5 DEF LoopInv
  <2> QED BY <1>7, <1>8, <2>6, TypeIs DEF LineInv
<1>10. CASE pc = "text"
  <2>1. TextAtStep(n, 20)
    BY <1>1, <1>4, <1>5, <1>10 DEF LoopInv, TextColumn
  <2>2. /\ gap = TEXT + 64 * n + 64 /\ exch = Glyph(n) /\ out = Lit(Glyph(n), 7)
    BY <2>1 DEF TextAtStep, TextAt, TextBit
  <2>3. /\ gap' = TEXT + 64 * (n + 1) + 0 /\ exch' = Glyph((n + 1) - 1)
        /\ out' = Lit(Glyph((n + 1) - 1), 7)
    BY <1>2, <1>6, <2>2, Places
  <2>4. TextAtStep(n + 1, 1)'
    BY <2>3, Fixed DEF TextAtStep, TextAt, TextBit, Glyph, Lit
  <2>5. TextColumn' = n + 1
    BY <1>2, <1>6 DEF TextColumn
  <2>6. LoopInv'
    BY <1>2, <1>4, <1>6, <1>10, <2>4, <2>5 DEF LoopInv
  <2> QED BY <1>7, <1>8, <2>6, TypeIs DEF LineInv
<1> QED BY <1>2, <1>9, <1>10

-----------------------------------------------------------------------------
(* The invariant.                                                           *)
LEMMA LineInit == Init => LineInv
<1> SUFFICES ASSUME Init PROVE LineInv
    OBVIOUS
<1>1. /\ pc = "poll" /\ region = "front" /\ gap = -1 /\ line = 0 /\ out = Dark
      /\ step = 0 /\ col = 0 /\ acc = Blank /\ exch = Blank
      /\ clock \in Int /\ -TMR0_INIT * FREQ_DIV <= clock /\ clock < PERIOD
  BY Turn, Places DEF Init
<1>2. TypedLine
  BY <1>1, BlankType, Places, Turn DEF TypedLine
<1>3. FirstInv /\ PhaseInv /\ PlaceInv /\ LoopInv /\ SteadyLines
  BY <1>1, Places DEF FirstInv, PhaseInv, PlaceInv, LoopInv, SteadyLines
<1> QED BY <1>2, <1>3, TypeIs DEF LineInv

LEMMA LineStep == LineInv /\ [Next]_vars => LineInv'
<1> SUFFICES ASSUME LineInv, [Next]_vars PROVE LineInv'
    OBVIOUS
<1> DEFINE Regions == {"front", "vsync", "back", "active"}
<1>1. CASE PollAgain \/ Align \/ TimerFail
  BY <1>1, PollAgainKeeps, AlignKeeps, TimerFailKeeps
<1>2. CASE SyncFalls \/ SyncRises \/ HorizontalBackPorch
  BY <1>2, SyncFallsKeeps, SyncRisesKeeps, BackPorchKeeps
<1>3. CASE SelectBitmap \/ SelectText
  BY <1>3, SelectBitmapKeeps, SelectTextKeeps
<1>4. CASE LoopStep
  <2>1. pc \in {"bitmap", "text"}
    BY <1>4 DEF LoopStep, Wait, Fetch, Advance, Lookup, Latch, ShowPixel, At
  <2> QED BY <1>4, <2>1, BitmapKeeps, TextKeeps
<1>5. CASE EndBitmap \/ EndText \/ NextColumn
  BY <1>5, EndBitmapKeeps, EndTextKeeps, NextColumnKeeps
<1>6. CASE SameRegion
  <2>1. PICK r \in {"front", "vsync", "back"} : Proceed(r, r, 3) \/ Proceed("active", "active", 10)
    BY <1>6 DEF SameRegion
  <2>2. CASE Proceed(r, r, 3)
    <3>1. r \in Regions /\ 3 \in Nat /\ 3 <= 10 /\ 3 <= 6 /\ 3 <= 4
      OBVIOUS
    <3> QED BY <2>2, <3>1, ProceedKeeps
  <2>3. CASE Proceed("active", "active", 10)
    <3>1. "active" \in Regions /\ 10 \in Nat /\ 10 <= 10 /\ "active" # "vsync"
      OBVIOUS
    <3> QED BY <2>3, <3>1, ProceedKeeps
  <2> QED BY <2>1, <2>2, <2>3
<1>7. CASE NextRegion
  <2>1. CASE Proceed("front", "vsync", 4) \/ Proceed("vsync", "back", 4)
    <3>1. "vsync" \in Regions /\ "back" \in Regions /\ 4 \in Nat /\ 4 <= 10 /\ 4 <= 6 /\ 4 <= 4
      OBVIOUS
    <3> QED BY <2>1, <3>1, ProceedKeeps
  <2>2. CASE Proceed("back", "active", 6)
    <3>1. "active" \in Regions /\ "back" # "vsync" /\ 6 \in Nat /\ 6 <= 10 /\ 6 <= 6
      OBVIOUS
    <3> QED BY <2>2, <3>1, ProceedKeeps
  <2>3. CASE Proceed("active", "front", 10)
    <3>1. "front" \in Regions /\ "active" # "vsync" /\ 10 \in Nat /\ 10 <= 10
      OBVIOUS
    <3> QED BY <2>3, <3>1, ProceedKeeps
  <2> QED BY <1>7, <2>1, <2>2, <2>3 DEF NextRegion
<1>8. CASE UNCHANGED vars
  <2>1. UNCHANGED <<clock, pc, region, step, col, acc, exch, out, gap, line>>
    BY <1>8 DEF vars
  <2>2. TypedLine /\ FirstInv /\ PhaseInv /\ PlaceInv /\ LoopInv /\ SteadyLines
    BY TypeIs DEF LineInv
  <2>3. TypedLine' /\ FirstInv' /\ PhaseInv' /\ PlaceInv' /\ SteadyLines'
    BY <2>1, <2>2 DEF TypedLine, FirstInv, PhaseInv, PlaceInv, SteadyLines, Pulse
  <2>4. LoopInv'
    BY <2>1, <2>2
       DEF LoopInv, BitmapColumn, TextColumn, BitmapAtStep, TextAtStep
  <2> QED BY <2>3, <2>4, TypeIs DEF LineInv
<1> QED BY <1>1, <1>2, <1>3, <1>4, <1>5, <1>6, <1>7, <1>8 DEF Next, LoopStep

-----------------------------------------------------------------------------
(* Every variable keeps its type: a line ends before the timer's turn does, *)
(* and neither loop runs past its last column (timer_ntsc.asm, asm:121-370).*)
THEOREM ScanlineTyped == Spec => []TypeOK
<1>1. LineInv => TypeOK
  BY DEF LineInv
<1> QED BY <1>1, LineInit, LineStep, PTL DEF Spec

(* Once the first line has begun the phase correction always knows the      *)
(* phase it meets (timer_ntsc.asm:39-46).                                   *)
THEOREM PhaseKnown == Spec => []NeverAsleep
<1>1. LineInv => NeverAsleep
  BY TypeIs DEF LineInv, PhaseInv, NeverAsleep, TypedLine
<1> QED BY <1>1, LineInit, LineStep, PTL DEF Spec

(* Every line lasts one turn of the timer, to the clock.                    *)
THEOREM LinesSteady == Spec => []SteadyLines
<1>1. LineInv => SteadyLines
  BY DEF LineInv
<1> QED BY <1>1, LineInit, LineStep, PTL DEF Spec

(* Outside the column loops the output is dark.                             *)
THEOREM BlankingDark == Spec => []DarkBlanking
<1>1. LineInv => DarkBlanking
  BY DEF LineInv, LoopInv, DarkBlanking
<1> QED BY <1>1, LineInit, LineStep, PTL DEF Spec

-----------------------------------------------------------------------------
(* A pixel of a bitmap: when it is shown, and after which.                  *)
LEMMA BitmapShown ==
    ASSUME LineInv, ShowPixel, pc = "bitmap"
    PROVE  \E n \in 0 .. NCOLS - 1, b \in 0 .. 7 :
             /\ gap = BITMAP + 63 * n + 4 + 8 * (7 - b)
             /\ out' = [byte |-> Pixels(n), bit |-> b]
             /\ out = (IF b < 7 THEN [byte |-> Pixels(n), bit |-> b + 1]
                       ELSE IF n = 0 THEN Dark ELSE [byte |-> Pixels(n - 1), bit |-> 0])
<1>1. TypedLine /\ LoopInv
  BY TypeIs DEF LineInv
<1>2. Loop = BitmapByte /\ Len(BitmapByte) = 19
  BY BitmapCode DEF Loop
<1>3. PICK s \in 1 .. 19 : s = step
  BY <1>1, <1>2 DEF ShowPixel, At, LoopInv, TypedLine
<1>4. PICK n \in Int : n = BitmapColumn /\ 0 <= n /\ n < NCOLS /\ BitmapAtStep(n, s)
  BY <1>1, <1>3 DEF LoopInv, BitmapColumn, TypedLine
<1>5. PICK b \in 0 .. 7 :
        /\ b = BitmapByte[s].bit /\ s >= 4 /\ BitmapAt[s] = 4 + 8 * (7 - b)
        /\ IF s = 4 THEN b = 7 ELSE s > 4 /\ b = BitmapBit[s] - 1
  <2>1. BitmapByte[s].op = "show"
    BY <1>2, <1>3 DEF ShowPixel, At
  <2>2. /\ BitmapByte[s].bit = BitmapBit[s + 1] /\ BitmapBit[s + 1] \in 0 .. 7
        /\ s >= 4 /\ BitmapAt[s] = 4 + 8 * (7 - BitmapByte[s].bit)
        /\ IF s = 4 THEN BitmapByte[s].bit = 7
           ELSE s > 4 /\ BitmapByte[s].bit = BitmapBit[s] - 1
    BY <1>3, <2>1, BitmapTable
  <2> QED BY <2>2
<1>6. exch = Pixels(n) /\ exch # Blank
  BY <1>4, <1>5, ByteTypes, Places DEF BitmapAtStep
<1>7. out' = [byte |-> Pixels(n), bit |-> b]
  BY <1>2, <1>3, <1>5, <1>6 DEF ShowPixel
<1>8. gap = BITMAP + 63 * n + (4 + 8 * (7 - b))
  BY <1>4, <1>5 DEF BitmapAtStep
<1>9. gap = BITMAP + 63 * n + 4 + 8 * (7 - b)
  BY <1>8, Places
<1>10. CASE s = 4
  <2>1. out = IF n = 0 THEN Dark ELSE [byte |-> Pixels(n - 1), bit |-> 0]
    BY <1>4, <1>10 DEF BitmapAtStep
  <2>2. n \in 0 .. NCOLS - 1 /\ ~(b < 7)
    BY <1>4, <1>5, <1>10, Places
  <2> QED BY <1>7, <1>9, <2>1, <2>2
<1>11. CASE s # 4
  <2>1. BitmapBit[s] \in 0 .. 7
    BY <1>3 DEF BitmapBit
  <2>2. BitmapBit[s] = b + 1 /\ b < 7
    BY <1>5, <1>11, <2>1
  <2>3. out = [byte |-> Pixels(n), bit |-> b + 1]
    BY <1>3, <1>4, <1>5, <1>11, <2>2 DEF BitmapAtStep
  <2>4. n \in 0 .. NCOLS - 1
    BY <1>4, Places
  <2> QED BY <1>7, <1>9, <2>2, <2>3, <2>4
<1> QED BY <1>10, <1>11

(* A pixel of a row of characters.                                          *)
LEMMA TextShown ==
    ASSUME LineInv, ShowPixel, pc = "text"
    PROVE  \/ \E n \in 0 .. NCOLS :
                /\ gap = TEXT + 64 * n + 59
                /\ out' = Lit(Glyph(n), 7) /\ out = Lit(Glyph(n - 1), 0)
           \/ \E n \in 0 .. NCOLS, b \in 0 .. 6 :
                /\ gap = TEXT + 64 * n + 3 + 8 * (6 - b)
                /\ out' = Lit(Glyph(n - 1), b) /\ out = Lit(Glyph(n - 1), b + 1)
<1>1. TypedLine /\ LoopInv
  BY TypeIs DEF LineInv
<1>2. Loop = TextGlyph /\ Len(TextGlyph) = 19
  BY TextCode DEF Loop
<1>3. PICK s \in 1 .. 19 : s = step
  BY <1>1, <1>2 DEF ShowPixel, At, LoopInv, TypedLine
<1>4. PICK n \in Int : n = TextColumn /\ 0 <= n /\ n <= NCOLS /\ TextAtStep(n, s)
  BY <1>1, <1>3 DEF LoopInv, TextColumn, TypedLine
<1>5. PICK b \in 0 .. 7 :
        /\ b = TextGlyph[s].bit /\ s >= 3
        /\ IF s = 18 THEN b = 7 /\ TextBit[s] = 0 /\ TextAt[s] = 59
           ELSE s < 16 /\ b = TextBit[s] - 1 /\ TextAt[s] = 3 + 8 * (6 - b)
  <2>1. TextGlyph[s].op = "show"
    BY <1>2, <1>3 DEF ShowPixel, At
  <2>2. /\ TextGlyph[s].bit = TextBit[s + 1] /\ TextBit[s + 1] \in 0 .. 7 /\ s >= 3
        /\ IF s = 18 THEN TextGlyph[s].bit = 7 /\ TextBit[s] = 0 /\ TextAt[s] = 59
           ELSE /\ s < 16 /\ TextGlyph[s].bit = TextBit[s] - 1
                /\ TextAt[s] = 3 + 8 * (6 - TextGlyph[s].bit)
    BY <1>3, <2>1, TextTable
  <2> QED BY <2>2
<1>6. out' = Lit(exch, b)
  BY <1>2, <1>3, <1>5 DEF ShowPixel, Lit
<1>7. CASE s = 18
  <2>1. gap = TEXT + 64 * n + 59 /\ exch = Glyph(n) /\ out = Lit(Glyph(n - 1), 0)
    BY <1>4, <1>5, <1>7 DEF TextAtStep
  <2> QED BY <1>4, <1>5, <1>6, <1>7, <2>1, Places
<1>8. CASE s # 18
  <2>1. TextBit[s] \in 0 .. 7
    BY <1>3 DEF TextBit
  <2>2. TextBit[s] = b + 1 /\ b \in 0 .. 6 /\ s < 16
    BY <1>5, <1>8, <2>1
  <2>3. gap = TEXT + 64 * n + (3 + 8 * (6 - b))
    BY <1>4, <1>5, <1>8 DEF TextAtStep
  <2>4. gap = TEXT + 64 * n + 3 + 8 * (6 - b)
    BY <2>3, Places
  <2>5. exch = Glyph(n - 1) /\ out = Lit(Glyph(n - 1), b + 1)
    BY <1>3, <1>4, <2>2 DEF TextAtStep
  <2> QED BY <1>4, <1>6, <2>2, <2>4, <2>5, Places
<1> QED BY <1>7, <1>8

(* Nothing else changes the output but the end of a bitmap.                 *)
LEMMA OutChanges ==
    ASSUME [Next]_vars, out' # out PROVE ShowPixel \/ EndBitmap
<1>1. ~UNCHANGED vars
  BY DEF vars
<1>2. ~(PollAgain \/ Align \/ TimerFail \/ SyncFalls \/ SyncRises \/ HorizontalBackPorch)
  BY DEF PollAgain, Align, TimerFail, SyncFalls, SyncRises, HorizontalBackPorch, drawVars
<1>3. ~(SelectBitmap \/ SelectText \/ Wait \/ Fetch \/ Advance \/ Lookup \/ Latch)
  BY DEF SelectBitmap, SelectText, Wait, Fetch, Advance, Lookup, Latch
<1>4. ~(EndText \/ NextColumn)
  BY DEF EndText, NextColumn, drawVars
<1>5. ~(SameRegion \/ NextRegion)
  BY DEF SameRegion, NextRegion, Proceed, drawVars
<1> QED BY <1>1, <1>2, <1>3, <1>4, <1>5 DEF Next

(* The parts of what is shown.                                              *)
LEMMA LitParts ==
    /\ \A n \in Int, b \in Int :
         LET p == [byte |-> Pixels(n), bit |-> b]
         IN  p.byte.kind = "pixels" /\ p.byte.col = n /\ p.bit = b /\ p # Dark
    /\ \A n \in Int, b \in Int : 0 <= n /\ n < NCOLS =>
         LET p == Lit(Glyph(n), b)
         IN  p.byte.kind = "glyph" /\ p.byte.col = n /\ p.bit = b /\ p # Dark
    /\ \A n \in Int, b \in Int : ~(0 <= n /\ n < NCOLS) => Lit(Glyph(n), b) = Dark
<1>1. \A n \in Int : Pixels(n).kind = "pixels" /\ Pixels(n).col = n /\ Pixels(n) # Blank
  BY DEF Pixels, Blank
<1>2. ASSUME NEW n \in Int, 0 <= n, n < NCOLS
      PROVE  Glyph(n).kind = "glyph" /\ Glyph(n).col = n /\ Glyph(n) # Blank
  BY <1>2, Places DEF Glyph, Blank
<1>3. ASSUME NEW n \in Int, NEW b \in Int, 0 <= n, n < NCOLS
      PROVE  Lit(Glyph(n), b) = [byte |-> Glyph(n), bit |-> b]
  BY <1>2, <1>3 DEF Lit
<1>4. ASSUME NEW n \in Int, NEW b \in Int, ~(0 <= n /\ n < NCOLS)
      PROVE  Lit(Glyph(n), b) = Dark
  BY <1>4, Places DEF Glyph, Lit
<1> QED BY <1>1, <1>2, <1>3, <1>4 DEF Dark

(* Every pixel is shown at its clock of the line, in both modes (asm:175).  *)
THEOREM PixelsOnGrid == Spec => PixelGrid
<1> DEFINE Place(p) == ORIGIN + 8 * (8 * p.byte.col + 7 - p.bit)
                              - (IF p.byte.kind = "pixels" THEN p.byte.col ELSE 0)
           OnGrid == out' # out /\ out' # Dark => gap = Place(out')
<1>1. LineInv /\ [Next]_vars => OnGrid
  <2> SUFFICES ASSUME LineInv, [Next]_vars, out' # out, out' # Dark
               PROVE  gap = Place(out')
      OBVIOUS
  <2>1. CASE ShowPixel /\ pc = "bitmap"
    <3>1. PICK n \in 0 .. NCOLS - 1, b \in 0 .. 7 :
            /\ gap = BITMAP + 63 * n + 4 + 8 * (7 - b)
            /\ out' = [byte |-> Pixels(n), bit |-> b]
      BY <2>1, BitmapShown
    <3>2. Place(out') = ORIGIN + 8 * (8 * n + 7 - b) - n
      <4>1. out'.byte.kind = "pixels" /\ out'.byte.col = n /\ out'.bit = b
        BY <3>1, LitParts, Places
      <4> QED BY <4>1, Places
    <3> QED BY <3>1, <3>2, Places
  <2>2. CASE ShowPixel /\ pc = "text"
    <3>1. CASE \E n \in 0 .. NCOLS : gap = TEXT + 64 * n + 59 /\ out' = Lit(Glyph(n), 7)
      <4>1. PICK n \in 0 .. NCOLS : gap = TEXT + 64 * n + 59 /\ out' = Lit(Glyph(n), 7)
        BY <3>1
      <4>2. 0 <= n /\ n < NCOLS
        BY <4>1, LitParts, Places
      <4>3. Place(out') = ORIGIN + 8 * (8 * n + 7 - 7)
        BY <4>1, <4>2, LitParts, Places
      <4> QED BY <4>1, <4>3, Places
    <3>2. CASE \E n \in 0 .. NCOLS, b \in 0 .. 6 :
                 gap = TEXT + 64 * n + 3 + 8 * (6 - b) /\ out' = Lit(Glyph(n - 1), b)
      <4>1. PICK n \in 0 .. NCOLS, b \in 0 .. 6 :
                   gap = TEXT + 64 * n + 3 + 8 * (6 - b) /\ out' = Lit(Glyph(n - 1), b)
        BY <3>2
      <4>2. 0 <= n - 1 /\ n - 1 < NCOLS /\ n - 1 \in Int
        BY <4>1, LitParts, Places
      <4>3. Place(out') = ORIGIN + 8 * (8 * (n - 1) + 7 - b)
        BY <4>1, <4>2, LitParts, Places
      <4> QED BY <4>1, <4>3, Places
    <3> QED BY <2>2, <3>1, <3>2, TextShown
  <2>3. CASE EndBitmap
    BY <2>3 DEF EndBitmap
  <2>4. ShowPixel => pc \in {"bitmap", "text"}
    BY DEF ShowPixel, At
  <2> QED BY <2>1, <2>2, <2>3, <2>4, OutChanges
<1>2. LineInv /\ [Next]_vars => [OnGrid]_vars
  BY <1>1
<1> QED BY <1>2, LineInit, LineStep, PTL DEF Spec, PixelGrid

(* A line shows each pixel of one kind of byte once, from left to right.    *)
THEOREM PixelsInOrder == Spec => PixelOrder
<1> DEFINE First == /\ out = Dark /\ out'.byte.col = 0 /\ out'.bit = 7
                    /\ out'.byte.kind \in {"pixels", "glyph"}
           Last == out' = Dark /\ out.byte.col = NCOLS - 1 /\ out.bit = 0
           After == /\ out'.byte.kind = out.byte.kind
                    /\ 8 * out'.byte.col - out'.bit = 8 * out.byte.col - out.bit + 1
           InOrder == out' # out => First \/ Last \/ After
<1>1. LineInv /\ [Next]_vars => InOrder
  <2> SUFFICES ASSUME LineInv, [Next]_vars, out' # out PROVE First \/ Last \/ After
      OBVIOUS
  <2>1. CASE ShowPixel /\ pc = "bitmap"
    <3>1. PICK n \in 0 .. NCOLS - 1, b \in 0 .. 7 :
            /\ out' = [byte |-> Pixels(n), bit |-> b]
            /\ out = (IF b < 7 THEN [byte |-> Pixels(n), bit |-> b + 1]
                      ELSE IF n = 0 THEN Dark ELSE [byte |-> Pixels(n - 1), bit |-> 0])
      BY <2>1, BitmapShown
    <3>2. out'.byte.kind = "pixels" /\ out'.byte.col = n /\ out'.bit = b
      BY <3>1, LitParts, Places
    <3>3. CASE b < 7
      <4>1. out.byte.kind = "pixels" /\ out.byte.col = n /\ out.bit = b + 1
        BY <3>1, <3>3, LitParts, Places
      <4> QED BY <3>2, <4>1, Places
    <3>4. CASE b = 7 /\ n = 0
      BY <3>1, <3>2, <3>4
    <3>5. CASE b = 7 /\ n # 0
      <4>1. out.byte.kind = "pixels" /\ out.byte.col = n - 1 /\ out.bit = 0
        BY <3>1, <3>5, LitParts, Places
      <4> QED BY <3>2, <3>5, <4>1, Places
    <3> QED BY <3>3, <3>4, <3>5
  <2>2. CASE ShowPixel /\ pc = "text"
    <3>1. CASE \E n \in 0 .. NCOLS : out' = Lit(Glyph(n), 7) /\ out = Lit(Glyph(n - 1), 0)
      <4>1. PICK n \in 0 .. NCOLS : out' = Lit(Glyph(n), 7) /\ out = Lit(Glyph(n - 1), 0)
        BY <3>1
      <4>2. CASE n = 0
        <5>1. out = Dark /\ out'.byte.col = 0 /\ out'.bit = 7 /\ out'.byte.kind = "glyph"
          BY <4>1, <4>2, LitParts, Places
        <5> QED BY <5>1
      <4>3. CASE n = NCOLS
        <5>1. out' = Dark /\ out.byte.col = NCOLS - 1 /\ out.bit = 0
          BY <4>1, <4>3, LitParts, Places
        <5> QED BY <5>1
      <4>4. CASE n # 0 /\ n # NCOLS
        <5>1. out'.byte.kind = "glyph" /\ out'.byte.col = n /\ out'.bit = 7
          BY <4>1, <4>4, LitParts, Places
        <5>2. out.byte.kind = "glyph" /\ out.byte.col = n - 1 /\ out.bit = 0
          BY <4>1, <4>4, LitParts, Places
        <5> QED BY <5>1, <5>2, Places
      <4> QED BY <4>2, <4>3, <4>4
    <3>2. CASE \E n \in 0 .. NCOLS, b \in 0 .. 6 :
                 out' = Lit(Glyph(n - 1), b) /\ out = Lit(Glyph(n - 1), b + 1)
      <4>1. PICK n \in 0 .. NCOLS, b \in 0 .. 6 :
                   out' = Lit(Glyph(n - 1), b) /\ out = Lit(Glyph(n - 1), b + 1)
        BY <3>2
      <4>2. n # 0
        BY <4>1, LitParts, Places
      <4>3. out'.byte.kind = "glyph" /\ out'.byte.col = n - 1 /\ out'.bit = b
        BY <4>1, <4>2, LitParts, Places
      <4>4. out.byte.kind = "glyph" /\ out.byte.col = n - 1 /\ out.bit = b + 1
        BY <4>1, <4>2, LitParts, Places
      <4> QED BY <4>3, <4>4, Places
    <3> QED BY <2>2, <3>1, <3>2, TextShown
  <2>3. CASE EndBitmap
    <3>1. TypedLine /\ LoopInv
      BY TypeIs DEF LineInv
    <3>2. pc = "bitmap" /\ step > 19 /\ col = NCOLS /\ out' = Dark
      <4>1. pc = "bitmap" /\ Loop = BitmapByte
        BY <2>3 DEF EndBitmap, Loop
      <4> QED BY <2>3, <4>1, BitmapCode DEF EndBitmap
    <3>3. step = 20 /\ BitmapAtStep(NCOLS - 1, 20)
      BY <3>1, <3>2, Places DEF LoopInv, BitmapColumn, TypedLine
    <3>4. out = [byte |-> Pixels(NCOLS - 1), bit |-> 0]
      BY <3>3 DEF BitmapAtStep, BitmapBit
    <3> QED BY <3>2, <3>4, LitParts, Places
  <2>4. ShowPixel => pc \in {"bitmap", "text"}
    BY DEF ShowPixel, At
  <2> QED BY <2>1, <2>2, <2>3, <2>4, OutChanges
<1>2. LineInv /\ [Next]_vars => [InOrder]_vars
  BY <1>1
<1> QED BY <1>2, LineInit, LineStep, PTL DEF Spec, PixelOrder
=============================================================================
