---------------------------- MODULE ScanlineClock ----------------------------
(***************************************************************************)
(* The video program clock by clock: timer_ntsc.asm, the sync pulses and   *)
(* the cycle-counted column loops of cvbs_text_32x24.pioc.asm.             *)
(*                                                                         *)
(* An action is one instruction or a straight run of them and spends the   *)
(* clocks the program's comments give: 2 for call, ret, jmp and a skip     *)
(* taken, 3 for rdcode, 1 for the rest.  How many lines each region has is *)
(* left open here (PiocVideo counts them), and so is what a line shows.    *)
(***************************************************************************)
EXTENDS Integers, Sequences

CONSTANTS TMR0_INIT, SYNC_SHORT, SYNC_LONG, H_BACK, NCOLS

ASSUME ClockAssumption ==
    /\ TMR0_INIT \in 0 .. 254
    /\ SYNC_SHORT \in 1 .. 255 /\ SYNC_LONG \in 1 .. 255 /\ H_BACK \in 1 .. 255
    /\ NCOLS \in 1 .. 32

VARIABLES
    clock,   \* clocks since the timer was loaded with TMR0_INIT
    pc,      \* the next piece of the program
    region,  \* "front", "vsync", "back" or "active"
    step,    \* position in the column loop
    col,     \* next data byte of the line
    acc,     \* the accumulator: a tile, a byte of pixels or a row of a glyph
    exch,    \* SFR_DATA_EXCH: the byte that is being shifted out
    out,     \* OUT0: which bit of which byte
    gap,     \* clocks since the last sync pulse began, -1 before the first
    line     \* clocks between the last two pulses, 0 if there were not two

vars == <<clock, pc, region, step, col, acc, exch, out, gap, line>>
drawVars == <<step, col, acc, exch, out>>

FREQ_DIV == 16                              \* SB_TMR0_FREQ_DIV16
PERIOD == (256 - TMR0_INIT) * FREQ_DIV      \* one turn of the timer

(* What the constants of a video norm must be fit for: the three tests of   *)
(* the phase are made for TMR0_INIT, and the longest lines, those of vsync  *)
(* and of text, are back at the poll before the timer's last tick.          *)
ASSUME TimingAssumption ==
    /\ TMR0_INIT % 128 = 65
    /\ 12 * SYNC_LONG + 37 <= PERIOD
    /\ 12 * SYNC_SHORT + 3 * H_BACK + 64 * NCOLS + 122 <= PERIOD

(* SFR_TMR0_COUNT t clocks after a load; the first turn may start anywhere. *)
Count(t) == TMR0_INIT + (IF t < 0 THEN t ELSE t % PERIOD) \div FREQ_DIV

Blank == [kind |-> "blank", col |-> 0]
Dark  == [byte |-> Blank, bit |-> 0]

(* n clocks go by.                                                          *)
Tick(n)  == clock' = IF clock + n < PERIOD THEN clock + n ELSE clock + n - PERIOD
Spend(n) == Tick(n) /\ gap' = IF gap < 0 THEN gap ELSE gap + n

(* What the timer holds when it is enabled is not documented.               *)
Init ==
    /\ clock \in -TMR0_INIT * FREQ_DIV .. PERIOD - 1
    /\ pc = "poll" /\ region = "front" /\ step = 0 /\ col = 0
    /\ acc = Blank /\ exch = Blank /\ out = Dark
    /\ gap = -1 /\ line = 0

-----------------------------------------------------------------------------
(* timer_ntsc_sync                                                          *)

(* Mutant: the loop polls every 19 clocks.                                  *)
PollAgainSlow ==
    /\ pc = "poll" /\ Count(clock) # 255
    /\ Spend(19)
    /\ UNCHANGED <<pc, region, drawVars, line>>

PollAgain ==         \* incsz, jmp
    /\ pc = "poll" /\ Count(clock) # 255
    /\ Spend(3)
    /\ UNCHANGED <<pc, region, drawVars, line>>

(* The first 255 was read at most three clocks after it appeared.  Four     *)
(* reads around the reload tell how many; the tests that follow are passed  *)
(* in an order that makes up for the difference.                            *)
ReloadSum ==
    (Count(clock + 13) + Count(clock + 14) + Count(clock + 15) + Count(clock + 16)) % 128

(* Mutant: one constant is off by one.                                      *)
TestsOffByOne == <<66, 0, 61>>

Tests == <<66, 0, 62>>     \* 0x42, 0x00, 0x3e

(* Mutant: the tests are made in another order.                             *)
AlignSwapped ==
    /\ pc = "poll" /\ Count(clock) = 255
    /\ \E k \in 1 .. 3 : ReloadSum = Tests[4 - k] /\ Spend(17 + k + 4)
    /\ pc' = "sync"
    /\ UNCHANGED <<region, drawVars, line>>

Align ==             \* nops, adds, andl, cmpz k, ret
    /\ pc = "poll" /\ Count(clock) = 255
    /\ \E k \in 1 .. 3 : ReloadSum = Tests[k] /\ Spend(17 + k + 4)
    /\ pc' = "sync"
    /\ UNCHANGED <<region, drawVars, line>>

TimerFail ==
    /\ pc = "poll" /\ Count(clock) = 255
    /\ \A k \in 1 .. 3 : ReloadSum # Tests[k]
    /\ Spend(21)
    /\ pc' = "asleep"
    /\ UNCHANGED <<region, drawVars, line>>

-----------------------------------------------------------------------------
(* gen_sync and the horizontal back porch                                   *)

SyncFalls ==         \* movl, call or jmp gen_sync, mova, bc
    /\ pc = "sync" /\ pc' = "low"
    /\ Tick(4) /\ gap' = 0
    /\ line' = IF gap < 0 THEN 0 ELSE gap + 4
    /\ UNCHANGED <<region, drawVars>>

Pulse == IF region = "vsync" THEN SYNC_LONG ELSE SYNC_SHORT

(* The loop takes 12 clocks a turn, then bs and ret.                        *)
SyncRises ==
    /\ pc = "low"
    /\ pc' = (IF region = "active" THEN "porch" ELSE "lineEnd")
    /\ Spend(12 * Pulse + 3)
    /\ UNCHANGED <<region, drawVars, line>>

(* Mutant: the delay loop of the back porch runs through zero.              *)
BackPorchWraps ==
    /\ pc = "porch" /\ pc' = "select"
    /\ Spend(2 + 3 * (H_BACK + 256) - 1 + 4)
    /\ UNCHANGED <<region, drawVars, line>>

(* The delay loop, the sample of MW_SR and the latch of the command.        *)
HorizontalBackPorch ==
    /\ pc = "porch" /\ pc' = "select"
    /\ Spend(2 + 3 * H_BACK - 1 + 4)
    /\ UNCHANGED <<region, drawVars, line>>

SelectBitmap ==      \* btss, five and six times eight clocks of delay, pointer
    /\ pc = "select" /\ pc' = "bitmap"
    /\ Spend(2 + 5 + 6 * 8 + 4)
    /\ step' = 1 /\ col' = 0
    /\ UNCHANGED <<region, acc, exch, out, line>>

SelectText ==        \* btss, jmp, clr SFR_DATA_EXCH
    /\ pc = "select" /\ pc' = "text"
    /\ Spend(1 + 2 + 1)
    /\ step' = 1 /\ col' = 0 /\ exch' = Blank
    /\ UNCHANGED <<region, acc, out, line>>

-----------------------------------------------------------------------------
(* The column loops                                                         *)

Do(op, n) == [op |-> op, bit |-> 0, clocks |-> n]
Show(b)   == [op |-> "show", bit |-> b, clocks |-> 1]
Shift(b)  == <<Show(b), Do("wait", 7)>>

(* Mutant: the byte is loaded two clocks late, as its comments count.       *)
BitmapByteLong ==
    <<Do("wait", 3), Do("fetch", 1), Do("latch", 1)>>
    \o Shift(7) \o Shift(6) \o Shift(5) \o Shift(4) \o Shift(3) \o Shift(2)
    \o <<Show(1), Do("advance", 7), Show(0), Do("wait", 2)>>

(* call bitmap_out_byte, to its ret                                         *)
BitmapByte ==
    <<Do("wait", 2), Do("fetch", 1), Do("latch", 1)>>
    \o Shift(7) \o Shift(6) \o Shift(5) \o Shift(4) \o Shift(3) \o Shift(2)
    \o <<Show(1), Do("advance", 7), Show(0), Do("wait", 2)>>

(* Mutant: the next glyph is latched before pixel 0 is out.                 *)
TextGlyphEarly ==
    <<Do("fetch", 1), Do("wait", 2), Show(6), Do("wait", 7), Show(5), Do("lookup", 7)>>
    \o Shift(4) \o Shift(3) \o Shift(2) \o Shift(1)
    \o <<Do("latch", 1), Show(0), Do("wait", 6), Show(7), Do("wait", 4)>>

(* mov, call text_glyph_loop, to the ret of DELAY_4: seven pixels of one    *)
(* glyph while the next is looked up, and the first pixel of that one.      *)
TextGlyph ==
    <<Do("fetch", 1), Do("wait", 2), Show(6), Do("wait", 7), Show(5), Do("lookup", 7)>>
    \o Shift(4) \o Shift(3) \o Shift(2) \o Shift(1)
    \o <<Show(0), Do("latch", 1), Do("wait", 6), Show(7), Do("wait", 4)>>

Loop == IF pc = "bitmap" THEN BitmapByte ELSE TextGlyph
At(op) == pc \in {"bitmap", "text"} /\ step <= Len(Loop) /\ Loop[step].op = op
StepOn == step' = step + 1 /\ UNCHANGED <<pc, region, line>>

Wait ==
    /\ At("wait") /\ Spend(Loop[step].clocks) /\ StepOn
    /\ UNCHANGED <<col, acc, exch, out>>

(* The byte under the pointer; text names its registers one by one and ends *)
(* with a space.                                                            *)
Fetch ==
    /\ At("fetch") /\ Spend(1) /\ StepOn
    /\ acc' = [kind |-> IF pc = "bitmap" THEN "pixels" ELSE "tile", col |-> col]
    /\ col' = (IF pc = "text" THEN col + 1 ELSE col)
    /\ UNCHANGED <<exch, out>>

Advance ==           \* inc SFR_INDIR_ADDR
    /\ At("advance") /\ Spend(7) /\ StepOn
    /\ col' = col + 1
    /\ UNCHANGED <<acc, exch, out>>

(* Mutant: the font has a glyph for the space.                              *)
LookupSpace ==
    /\ At("lookup") /\ Spend(7) /\ StepOn
    /\ acc' = [acc EXCEPT !.kind = "glyph"]
    /\ UNCHANGED <<col, exch, out>>

(* rdcode: the row of the tile's glyph; the glyph of the space is empty.    *)
Lookup ==
    /\ At("lookup") /\ Spend(7) /\ StepOn
    /\ acc' = (IF acc.col = NCOLS THEN Blank ELSE [acc EXCEPT !.kind = "glyph"])
    /\ UNCHANGED <<col, exch, out>>

Latch ==             \* mova SFR_DATA_EXCH
    /\ At("latch") /\ Spend(1) /\ StepOn
    /\ exch' = acc
    /\ UNCHANGED <<col, acc, out>>

ShowPixel ==         \* bp2f BO_PORT_OUT0
    /\ At("show") /\ Spend(1) /\ StepOn
    /\ out' = (IF exch = Blank THEN Dark ELSE [byte |-> exch, bit |-> Loop[step].bit])
    /\ UNCHANGED <<col, acc, exch>>

EndBitmap ==         \* DELAY_4, bc OUT0, bs GP_BIT_X, ret
    /\ pc = "bitmap" /\ step > Len(Loop) /\ col = NCOLS
    /\ Spend(4 + 1 + 1 + 2)
    /\ out' = Dark /\ pc' = "lineEnd"
    /\ UNCHANGED <<region, step, col, acc, exch, line>>

EndText ==           \* inc LINE_COUNTER, the interrupt tests, ret
    /\ pc = "text" /\ step > Len(Loop) /\ col = NCOLS + 1
    /\ Spend(1 + 3 + 2)
    /\ pc' = "lineEnd"
    /\ UNCHANGED <<region, drawVars, line>>

NextColumn ==
    /\ pc \in {"bitmap", "text"} /\ step > Len(Loop)
    /\ col < (IF pc = "bitmap" THEN NCOLS ELSE NCOLS + 1)
    /\ step' = 1
    /\ UNCHANGED <<clock, gap, pc, region, col, acc, exch, out, line>>

-----------------------------------------------------------------------------
(* From the end of a line to the poll of the next, two calls included       *)

Proceed(from, to, clocks) ==
    /\ pc = "lineEnd" /\ region = from
    /\ pc' = "poll" /\ region' = to
    /\ Spend(clocks + 4)
    /\ UNCHANGED <<drawVars, line>>

SameRegion ==        \* decsz, jmp; or the bookkeeping of active_scanline_loop
    \/ \E r \in {"front", "vsync", "back"} : Proceed(r, r, 3)
    \/ Proceed("active", "active", 10)

NextRegion ==
    \/ Proceed("front", "vsync", 4)
    \/ Proceed("vsync", "back", 4)
    \/ Proceed("back", "active", 6)
    \/ Proceed("active", "front", 10)

Next ==
    \/ PollAgain \/ Align \/ TimerFail
    \/ SyncFalls \/ SyncRises \/ HorizontalBackPorch
    \/ SelectBitmap \/ SelectText
    \/ Wait \/ Fetch \/ Advance \/ Lookup \/ Latch \/ ShowPixel
    \/ EndBitmap \/ EndText \/ NextColumn
    \/ SameRegion \/ NextRegion

Spec == Init /\ [][Next]_vars /\ WF_vars(Next)

-----------------------------------------------------------------------------
(* Every variable has its type.                                             *)
Bytes == [kind : {"blank", "pixels", "tile", "glyph"}, col : 0 .. NCOLS]

TypeOK ==
    /\ clock \in -TMR0_INIT * FREQ_DIV .. PERIOD - 1
    /\ pc \in {"poll", "asleep", "sync", "low", "porch", "select", "bitmap",
                "text", "lineEnd"}
    /\ region \in {"front", "vsync", "back", "active"}
    /\ step \in 0 .. 30 /\ col \in 0 .. NCOLS + 1
    /\ acc \in Bytes /\ exch \in Bytes /\ out \in [byte : Bytes, bit : 0 .. 7]
    /\ gap \in -1 .. PERIOD - 1 /\ line \in Nat

(* Where in the line the picture begins, counted from the sync pulse.       *)
ORIGIN == 12 * SYNC_SHORT + 3 * H_BACK + 71

(* Once the picture runs, the phase correction (timer_ntsc.asm:39-46) never *)
(* meets a phase it does not know: every path through a line comes back to  *)
(* the poll before the last tick of the timer and after the one before.     *)
NeverAsleep == gap >= 0 => pc # "asleep"

(* Lines last the same to the clock whatever they show, wherever the poll   *)
(* met the timer and whichever path led to it ("lockstep with timer").      *)
SteadyLines == line \in {0, PERIOD}

(* Every pixel comes up at its place: eight clocks after its left neighbour *)
(* and, in both modes, the first one ORIGIN clocks into the line (asm:175); *)
(* only that each byte of a bitmap is one clock short (asm:249).            *)
PixelGrid ==
    [][out' # out /\ out' # Dark =>
         gap = ORIGIN + 8 * (8 * out'.byte.col + 7 - out'.bit)
                      - (IF out'.byte.kind = "pixels" THEN out'.byte.col ELSE 0)]_vars

(* A line shows bytes of one kind, glyphs and not tile numbers, every pixel *)
(* once and from left to right, and is dark before and after.               *)
PixelOrder ==
    [][out' # out =>
         \/ out = Dark /\ out'.byte.col = 0 /\ out'.bit = 7
              /\ out'.byte.kind \in {"pixels", "glyph"}
         \/ out' = Dark /\ out.byte.col = NCOLS - 1 /\ out.bit = 0
         \/ out'.byte.kind = out.byte.kind
              /\ 8 * out'.byte.col - out'.bit = 8 * out.byte.col - out.bit + 1]_vars

(* No light outside the picture, least of all under a sync pulse: text      *)
(* has no instruction that blanks the output, only a trailing space.        *)
DarkBlanking == pc \notin {"bitmap", "text"} => out = Dark

(* A line that has begun is followed by another: the poll cannot miss the   *)
(* last tick of the timer.                                                  *)
LinesGoOn == gap >= 0 ~> pc = "low"

(* asm:175: "Both modes output on T0==T8 clock cycle"; each bp2f of         *)
(* bitmap_out_byte is commented T0, eight clocks apart, and asm:250 counts  *)
(* the way back to the caller for the next byte.                            *)
OutputOnT0 == [][out' # out /\ out' # Dark => (gap - ORIGIN) % 8 = 0]_vars
=============================================================================
