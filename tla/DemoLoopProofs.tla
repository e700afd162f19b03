--------------------------- MODULE DemoLoopProofs ---------------------------
(***************************************************************************)
(* DemoLoop for every length of a mode, size of the frame buffer, page and *)
(* stroke: the safety properties of main's loop.  They rest on time: in a  *)
(* turn of the loop, or with the wait before it, the mode changes at most  *)
(* once, and `frame` tells how long ago that was.                          *)
(***************************************************************************)
EXTENDS DemoLoop, FiniteSetTheorems, TLAPS

Drawing == pc \in {"draw", "write"}

(* Where main is: it draws only for modes it has tested for.                *)
Place ==
    /\ Drawing => seen \in DrawnModes
    /\ pc = "spin" => seen = ass /\ done = BYTES
    /\ pc = "write" /\ seen = ass => at = done
    /\ pc = "write" => done < (IF seen = ass THEN BYTES ELSE STROKE)
    /\ Drawing /\ seen # ass => done <= STROKE

(* A mode other than the one main has read is a mode that began in this     *)
(* turn; the wipe is over before the first mode is.                         *)
InTime ==
    /\ pc = "wipe" => demoMode = scrollingText /\ frame = lag
    /\ (Drawing \/ pc \in {"test", "spin"}) /\ seen # demoMode => frame < lag

(* The tests still to come, and those after a test that failed.             *)
Ahead(n) == {Drawn[i] : i \in n .. 4}

(* Until a mode is drawn for it is young, and main is on its way to it.     *)
OnItsWay ==
    demoMode \in DrawnModes /\ ~drew =>
        \/ frame < lag
        \/ /\ pc = "test" /\ frame < lag + LAG
           /\ seen = demoMode /\ demoMode \in Ahead(try)

DrawnFor == (Drawing \/ pc = "spin") /\ seen = demoMode => drew

(* The picture of `ass` is begun once, early, and finished within its mode. *)
AssOnce ==
    /\ demoMode = ass /\ drew => (Drawing \/ pc = "spin") /\ seen = ass
    /\ pc = "test" /\ seen = ass => demoMode = ass
    /\ Drawing /\ seen = ass => demoMode = ass /\ frame < lag + LAG
    /\ (Drawing \/ pc = "spin") /\ seen = ass /\ demoMode = ass =>
         \A b \in Bytes : b < done => vram[b] = {ass}

(* Old pixels are those of a turn in which the mode changed, or were left   *)
(* by such a turn; a turn within a mode adds none.                          *)
FewOld ==
    /\ OldPixels
    /\ pc = "wipe" => OldBytes = {}
    /\ pc = "test" /\ seen # demoMode => OldBytes = {}
    /\ Drawing /\ seen # demoMode => Cardinality(OldBytes) <= done
    /\ pc = "write" /\ seen = demoMode /\ seen # ass => reg = vram[at]

(* A second turn in a frame is one that vsync let through for that frame.   *)
Turns ==
    /\ begun <= 2
    /\ begun = 2 => vsyncWas = Counter /\ pc # "take"
    /\ begun = 1 /\ pc = "take" => vsyncSaw = Counter

Timing == TypeOK /\ Place /\ InTime /\ OnItsWay /\ DrawnFor
Inv == Timing /\ AssOnce /\ FewOld /\ Turns /\ TextPageTrue
-----------------------------------------------------------------------------
(* frame counts up and wraps.                                               *)
LEMMA NextFrame ==
    ASSUME NEW n \in Nat, n > 1, NEW f \in 0 .. n - 1
    PROVE  (f + 1) % n = IF f + 1 = n THEN 0 ELSE f + 1
<1>1. CASE f + 1 = n
  <2>1. n % n = 0
    OBVIOUS
  <2> QED BY <1>1, <2>1
<1>2. CASE f + 1 # n
  <2>1. f + 1 \in 0 .. n - 1
    BY <1>2
  <2> QED BY <1>2, <2>1
<1> QED BY <1>1, <1>2

(* The modes by name.                                                       *)
LEMMA Modes ==
    /\ \A m \in DemoModes : NextMode(m) \in DemoModes /\ NextMode(m) # m
    /\ DrawnModes \subseteq DemoModes /\ DrawnModes \cap TextModes = {}
    /\ ass \in DrawnModes /\ scrollingText \in TextModes
    /\ scrollingText \in DemoModes
BY DEF DemoModes, NextMode, DrawnModes, TextModes, scrollingText, staticText, chess,
       bouncyDot, bouncyDvd, ass, randomLines, end

(* The modes main tests for.                                                *)
LEMMA DrawnAt == \A i \in 1 .. 4 : Drawn[i] \in DrawnModes
BY DEF Drawn, DrawnModes

(* A test that fails leaves the tests after it.                             *)
LEMMA TestsAhead ==
    /\ \A m \in DrawnModes : m \in Ahead(1)
    /\ \A n \in 1 .. 4 : \A m \in Ahead(n) : m # Drawn[n] => n < 4 /\ m \in Ahead(n + 1)
<1>1. \A m \in DrawnModes : m \in Ahead(1)
  BY DEF DrawnModes, Ahead, Drawn
<1>2. ASSUME NEW n \in 1 .. 4, NEW m \in Ahead(n), m # Drawn[n]
      PROVE  n < 4 /\ m \in Ahead(n + 1)
  <2>1. PICK i \in n .. 4 : m = Drawn[i]
    BY DEF Ahead
  <2>2. i \in n + 1 .. 4
    BY <1>2, <2>1
  <2> QED BY <2>1, <2>2 DEF Ahead
<1> QED BY <1>1, <1>2

(* What a vertical blanking does to the clock of the modes.                 *)
LEMMA BlankingTime ==
    ASSUME TypeOK, Vblank
    PROVE  /\ lag \in Nat /\ lag < LAG /\ lag' = lag + 1
           /\ frame \in Nat /\ frame' \in 0 .. FRAMES_PER_MODE - 1
           /\ \/ frame' = frame + 1 /\ demoMode' = demoMode /\ drew' = drew
                /\ frame # FRAMES_PER_MODE - 1 /\ vram' = Typed(demoMode, vram)
              \/ frame' = 0 /\ demoMode' = NextMode(demoMode) /\ drew' = FALSE
                /\ frame = FRAMES_PER_MODE - 1
                /\ vram' = Typed(demoMode', [b \in Bytes |-> {}])
<1>1. frame \in 0 .. FRAMES_PER_MODE - 1 /\ lag \in Nat /\ drew \in BOOLEAN
      /\ FRAMES_PER_MODE \in Nat /\ FRAMES_PER_MODE > 1
  BY DemoAssumption DEF TypeOK
<1>2. (frame + 1) % FRAMES_PER_MODE = IF frame + 1 = FRAMES_PER_MODE THEN 0 ELSE frame + 1
  BY <1>1, NextFrame
<1>3. CASE frame + 1 = FRAMES_PER_MODE
  <2>1. (frame + 1) % FRAMES_PER_MODE = 0 /\ frame = FRAMES_PER_MODE - 1
    BY <1>1, <1>2, <1>3
  <2>2. /\ frame' = 0 /\ demoMode' = NextMode(demoMode) /\ drew' = FALSE
        /\ vram' = Typed(demoMode', [b \in Bytes |-> {}])
    BY <1>1, <2>1 DEF Vblank, Cleared
  <2> QED BY <1>1, <2>1, <2>2 DEF Vblank
<1>4. CASE frame + 1 # FRAMES_PER_MODE
  <2>1. (frame + 1) % FRAMES_PER_MODE # 0
    BY <1>1, <1>2, <1>4
  <2> QED BY <1>1, <1>2, <1>4, <2>1 DEF Vblank, Cleared
<1> QED BY <1>3, <1>4

(* Types.                                                                   *)
LEMMA TypeInit == Init => TypeOK
<1> SUFFICES ASSUME Init PROVE TypeOK
  OBVIOUS
<1>1. 0 \in 0 .. FRAMES_PER_MODE - 1 /\ 0 \in Bytes /\ 0 \in 0 .. LAG
  BY DemoAssumption DEF Bytes
<1>2. Counter \in Counters
  BY <1>1, Modes DEF Init, Counter, Counters
<1>3. vram \in [Bytes -> SUBSET DemoModes] /\ reg \in SUBSET DemoModes
  BY DEF Init
<1>4. demoMode \in DemoModes /\ seen \in DemoModes
  BY Modes DEF Init
<1>5. vsyncWas \in Counters /\ vsyncSaw \in Counters
  BY <1>2 DEF Init
<1>6. frame \in 0 .. FRAMES_PER_MODE - 1 /\ at \in Bytes /\ lag \in 0 .. LAG
  BY <1>1 DEF Init
<1>7. pc = "wipe" /\ try \in 1 .. 4 /\ done \in Nat /\ begun \in Nat
  BY DEF Init
<1>8. drew \in BOOLEAN
  BY DEF Init
<1> QED BY <1>3, <1>4, <1>5, <1>6, <1>7, <1>8 DEF TypeOK

LEMMA TypeStep == TypeOK /\ [Next]_vars => TypeOK'
<1> SUFFICES ASSUME TypeOK, [Next]_vars PROVE TypeOK'
  OBVIOUS
<1> USE DemoAssumption, Modes DEF TypeOK, mainVars
<1>1. CASE Vblank
  <2>1. demoMode' \in DemoModes /\ frame' \in 0 .. FRAMES_PER_MODE - 1
        /\ lag' \in 0 .. LAG /\ drew' \in BOOLEAN
    <3>1. drew' \in BOOLEAN
      BY <1>1, BlankingTime
    <3>2. demoMode' \in DemoModes
      BY <1>1, BlankingTime
    <3>3. lag' \in 0 .. LAG
      <4>1. lag \in Nat /\ lag < LAG /\ lag' = lag + 1 /\ LAG \in Nat
        BY <1>1, BlankingTime
      <4> QED BY <4>1
    <3>4. frame' \in 0 .. FRAMES_PER_MODE - 1
      BY <1>1, BlankingTime
    <3> QED BY <3>1, <3>2, <3>3, <3>4
  <2>2. vram' \in [Bytes -> SUBSET DemoModes]
    <3>1. \A m \in DemoModes : \A v \in [Bytes -> SUBSET DemoModes] :
            Typed(m, v) \in [Bytes -> SUBSET DemoModes]
      BY DEF Typed
    <3>2. [b \in Bytes |-> {}] \in [Bytes -> SUBSET DemoModes]
      OBVIOUS
    <3>3. vram' = Typed(demoMode', vram) \/ vram' = Typed(demoMode', [b \in Bytes |-> {}])
      BY <1>1, BlankingTime
    <3> QED BY <2>1, <3>1, <3>2, <3>3
  <2> QED BY <1>1, <2>1, <2>2 DEF Vblank
<1>2. CASE Wipe
  BY <1>2 DEF Wipe, Counter, Counters, Bytes
<1>3. CASE WaitFrame
  BY <1>3 DEF WaitFrame, Counter, Counters, Bytes
<1>4. CASE TakeFrame
  BY <1>4 DEF TakeFrame, Counter, Counters, Bytes
<1>5. CASE TestMode
  BY <1>5 DEF TestMode
<1>6. CASE ReadByte
  BY <1>6 DEF ReadByte, Bytes
<1>7. CASE WriteByte
  BY <1>7 DEF WriteByte, Bytes
<1>8. CASE EndDrawing
  BY <1>8 DEF EndDrawing
<1>9. CASE Spin
  BY <1>9 DEF Spin
<1>10. CASE PrintAndDelay
  BY <1>10 DEF PrintAndDelay
<1>11. CASE UNCHANGED vars
  BY <1>11 DEF vars
<1> QED BY <1>1, <1>2, <1>3, <1>4, <1>5, <1>6, <1>7, <1>8, <1>9, <1>10, <1>11 DEF Next, Main

(* Where main is.                                                           *)
LEMMA PlaceStep == TypeOK /\ Place /\ [Next]_vars => Place'
<1> SUFFICES ASSUME TypeOK, Place, [Next]_vars PROVE Place'
  OBVIOUS
<1> USE DemoAssumption, Modes, DrawnAt DEF TypeOK, mainVars, Drawing, Place
<1>1. CASE Vblank
  BY <1>1 DEF Vblank
<1>2. CASE Wipe
  BY <1>2 DEF Wipe
<1>3. CASE WaitFrame
  BY <1>3 DEF WaitFrame
<1>4. CASE TakeFrame
  BY <1>4 DEF TakeFrame
<1>5. CASE TestMode
  BY <1>5 DEF TestMode
<1>6. CASE ReadByte
  BY <1>6 DEF ReadByte
<1>7. CASE WriteByte
  BY <1>7 DEF WriteByte
<1>8. CASE EndDrawing
  BY <1>8 DEF EndDrawing
<1>9. CASE Spin
  BY <1>9 DEF Spin
<1>10. CASE PrintAndDelay
  BY <1>10 DEF PrintAndDelay
<1>11. CASE UNCHANGED vars
  BY <1>11 DEF vars
<1> QED BY <1>1, <1>2, <1>3, <1>4, <1>5, <1>6, <1>7, <1>8, <1>9, <1>10, <1>11 DEF Next, Main

(* The mode main has read is the mode on show, or that one is young.        *)
LEMMA InTimeStep == TypeOK /\ Place /\ InTime /\ [Next]_vars => InTime'
<1> SUFFICES ASSUME TypeOK, Place, InTime, [Next]_vars PROVE InTime'
  OBVIOUS
<1> USE DemoAssumption, Modes, DrawnAt DEF TypeOK, mainVars, Drawing, Place, InTime
<1>1. CASE Vblank
  BY <1>1, BlankingTime DEF Vblank
<1>2. CASE Wipe
  BY <1>2 DEF Wipe
<1>3. CASE WaitFrame
  BY <1>3 DEF WaitFrame
<1>4. CASE TakeFrame
  BY <1>4 DEF TakeFrame
<1>5. CASE TestMode
  BY <1>5 DEF TestMode
<1>6. CASE ReadByte
  BY <1>6 DEF ReadByte
<1>7. CASE WriteByte
  BY <1>7 DEF WriteByte
<1>8. CASE EndDrawing
  BY <1>8 DEF EndDrawing
<1>9. CASE Spin
  BY <1>9 DEF Spin
<1>10. CASE PrintAndDelay
  BY <1>10 DEF PrintAndDelay
<1>11. CASE UNCHANGED vars
  BY <1>11 DEF vars
<1> QED BY <1>1, <1>2, <1>3, <1>4, <1>5, <1>6, <1>7, <1>8, <1>9, <1>10, <1>11 DEF Next, Main

(* Main gets to the mode.                                                   *)
LEMMA OnItsWayStep == TypeOK /\ Place /\ InTime /\ DrawnFor /\ OnItsWay /\ [Next]_vars => OnItsWay'
<1> SUFFICES ASSUME TypeOK, Place, InTime, DrawnFor, OnItsWay, [Next]_vars PROVE OnItsWay'
  OBVIOUS
<1> USE DemoAssumption, Modes, DrawnAt DEF TypeOK, mainVars, Drawing, Place, InTime, DrawnFor, OnItsWay
<1>1. CASE Vblank
  BY <1>1, BlankingTime DEF Vblank
<1>2. CASE Wipe
  BY <1>2 DEF Wipe
<1>3. CASE WaitFrame
  BY <1>3 DEF WaitFrame
<1>4. CASE TakeFrame
  BY <1>4, TestsAhead DEF TakeFrame
<1>5. CASE TestMode
  <2> SUFFICES ASSUME demoMode \in DrawnModes, ~drew', ~(frame < lag)
               PROVE  pc' = "test" /\ frame < lag + LAG /\ seen' = demoMode
                      /\ demoMode \in Ahead(try')
    BY <1>5 DEF TestMode
  <2>1. ~drew
    BY <1>5 DEF TestMode
  <2>2. /\ pc = "test" /\ frame < lag + LAG
        /\ seen = demoMode /\ demoMode \in Ahead(try)
    BY <2>1
  <2>3. seen' = demoMode
    BY <1>5, <2>2 DEF TestMode
  <2>4. seen' # Drawn[try]
    BY <1>5, <2>3 DEF TestMode
  <2>5. try < 4 /\ demoMode \in Ahead(try + 1)
    BY <2>2, <2>3, <2>4, TestsAhead
  <2> QED BY <1>5, <2>2, <2>3, <2>4, <2>5 DEF TestMode
<1>6. CASE ReadByte
  BY <1>6 DEF ReadByte
<1>7. CASE WriteByte
  BY <1>7 DEF WriteByte
<1>8. CASE EndDrawing
  BY <1>8 DEF EndDrawing
<1>9. CASE Spin
  BY <1>9 DEF Spin
<1>10. CASE PrintAndDelay
  BY <1>10 DEF PrintAndDelay
<1>11. CASE UNCHANGED vars
  BY <1>11 DEF vars
<1> QED BY <1>1, <1>2, <1>3, <1>4, <1>5, <1>6, <1>7, <1>8, <1>9, <1>10, <1>11 DEF Next, Main

(* A branch entered for the mode on show counts as drawn.                   *)
LEMMA DrawnForStep == TypeOK /\ Place /\ InTime /\ DrawnFor /\ [Next]_vars => DrawnFor'
<1> SUFFICES ASSUME TypeOK, Place, InTime, DrawnFor, [Next]_vars PROVE DrawnFor'
  OBVIOUS
<1> USE DemoAssumption, Modes, DrawnAt DEF TypeOK, mainVars, Drawing, Place, InTime, DrawnFor
<1>1. CASE Vblank
  BY <1>1, BlankingTime DEF Vblank
<1>2. CASE Wipe
  BY <1>2 DEF Wipe
<1>3. CASE WaitFrame
  BY <1>3 DEF WaitFrame
<1>4. CASE TakeFrame
  BY <1>4 DEF TakeFrame
<1>5. CASE TestMode
  BY <1>5 DEF TestMode
<1>6. CASE ReadByte
  BY <1>6 DEF ReadByte
<1>7. CASE WriteByte
  BY <1>7 DEF WriteByte
<1>8. CASE EndDrawing
  BY <1>8 DEF EndDrawing
<1>9. CASE Spin
  BY <1>9 DEF Spin
<1>10. CASE PrintAndDelay
  BY <1>10 DEF PrintAndDelay
<1>11. CASE UNCHANGED vars
  BY <1>11 DEF vars
<1> QED BY <1>1, <1>2, <1>3, <1>4, <1>5, <1>6, <1>7, <1>8, <1>9, <1>10, <1>11 DEF Next, Main

(* Turns within a frame.                                                    *)
LEMMA TurnsStep == TypeOK /\ Turns /\ [Next]_vars => Turns'
<1> SUFFICES ASSUME TypeOK, Turns, [Next]_vars PROVE Turns'
  OBVIOUS
<1> USE DemoAssumption DEF TypeOK, mainVars, Turns
<1>1. CASE Vblank
  BY <1>1 DEF Vblank
<1>2. CASE Wipe
  BY <1>2 DEF Wipe, Counter
<1>3. CASE WaitFrame
  BY <1>3 DEF WaitFrame, Counter
<1>4. CASE TakeFrame
  BY <1>4 DEF TakeFrame, Counter
<1>5. CASE TestMode
  BY <1>5 DEF TestMode, Counter
<1>6. CASE ReadByte
  BY <1>6 DEF ReadByte, Counter
<1>7. CASE WriteByte
  BY <1>7 DEF WriteByte, Counter
<1>8. CASE EndDrawing
  BY <1>8 DEF EndDrawing, Counter
<1>9. CASE Spin
  BY <1>9 DEF Spin, Counter
<1>10. CASE PrintAndDelay
  BY <1>10 DEF PrintAndDelay, Counter
<1>11. CASE UNCHANGED vars
  BY <1>11 DEF vars, Counter
<1> QED BY <1>1, <1>2, <1>3, <1>4, <1>5, <1>6, <1>7, <1>8, <1>9, <1>10, <1>11 DEF Next, Main

(* The page of the text modes.                                              *)
LEMMA TextPageStep == TypeOK /\ Place /\ InTime /\ TextPageTrue /\ [Next]_vars => TextPageTrue'
<1> SUFFICES ASSUME TypeOK, Place, InTime, TextPageTrue, [Next]_vars PROVE TextPageTrue'
  OBVIOUS
<1> USE DemoAssumption, Modes, DrawnAt DEF TypeOK, mainVars, Drawing, Place, InTime, TextPageTrue
<1>1. CASE Vblank
  <2>1. PICK v : vram' = Typed(demoMode', v)
    BY <1>1, BlankingTime
  <2>2. \A b \in 0 .. PAGE - 1 : b \in Bytes /\ b < PAGE
    BY DEF Bytes
  <2> QED BY <2>1, <2>2 DEF Typed
<1>2. CASE Wipe
  BY <1>2 DEF Wipe
<1>3. CASE WaitFrame
  BY <1>3 DEF WaitFrame
<1>4. CASE TakeFrame
  BY <1>4 DEF TakeFrame
<1>5. CASE TestMode
  BY <1>5 DEF TestMode
<1>6. CASE ReadByte
  BY <1>6 DEF ReadByte
<1>7. CASE WriteByte
  BY <1>7 DEF WriteByte
<1>8. CASE EndDrawing
  BY <1>8 DEF EndDrawing
<1>9. CASE Spin
  BY <1>9 DEF Spin
<1>10. CASE PrintAndDelay
  BY <1>10 DEF PrintAndDelay
<1>11. CASE UNCHANGED vars
  BY <1>11 DEF vars
<1> QED BY <1>1, <1>2, <1>3, <1>4, <1>5, <1>6, <1>7, <1>8, <1>9, <1>10, <1>11 DEF Next, Main

(* The picture of `ass`, byte after byte.                                   *)
LEMMA AssOnceStep == TypeOK /\ Place /\ InTime /\ OnItsWay /\ DrawnFor /\ AssOnce /\ [Next]_vars => AssOnce'
<1> SUFFICES ASSUME TypeOK, Place, InTime, OnItsWay, DrawnFor, AssOnce, [Next]_vars PROVE AssOnce'
  OBVIOUS
<1> USE DemoAssumption, Modes, DrawnAt DEF TypeOK, mainVars, Drawing, Place, InTime, OnItsWay, DrawnFor, AssOnce
<1>1. CASE Vblank
  <2>1. CASE demoMode' = demoMode /\ drew' = drew /\ frame' = frame + 1
    <3>1. demoMode = ass => vram' = vram
      <4>1. vram' = Typed(demoMode, vram)
        BY <1>1, <2>1, BlankingTime
      <4> QED BY <4>1 DEF Typed
    <3> QED BY <1>1, <2>1, <3>1, BlankingTime DEF Vblank
  <2>2. CASE demoMode' # demoMode
    <3>1. /\ frame = FRAMES_PER_MODE - 1 /\ lag < LAG /\ lag \in Nat
          /\ frame' = 0 /\ drew' = FALSE /\ lag' = lag + 1
      BY <1>1, <2>2, BlankingTime
    <3>2. pc' = pc /\ seen' = seen
      BY <1>1 DEF Vblank
    <3>3. ~(frame < lag) /\ ~(frame < lag + LAG)
      BY <3>1
    <3>4. demoMode = ass => drew
      BY <3>3
    <3>5. ~(Drawing /\ seen = ass)
      BY <3>3
    <3>6. ~(pc = "test" /\ seen = ass)
      BY <3>4
    <3>7. pc = "spin" => demoMode = ass
      BY <3>3
    <3> QED BY <2>2, <3>1, <3>2, <3>5, <3>6, <3>7
  <2> QED BY <1>1, <2>1, <2>2, BlankingTime
<1>2. CASE Wipe
  BY <1>2 DEF Wipe
<1>3. CASE WaitFrame
  BY <1>3 DEF WaitFrame
<1>4. CASE TakeFrame
  BY <1>4 DEF TakeFrame
<1>5. CASE TestMode
  <2>1. pc = "test" /\ demoMode' = demoMode /\ lag' = lag /\ frame' = frame
        /\ (drew' <=> drew \/ (pc' = "draw" /\ seen' = demoMode))
        /\ seen' \in {seen, demoMode}
        /\ pc' \in {"draw", "print", "test"} /\ (pc' = "draw" => done' = 0)
    BY <1>5 DEF TestMode
  <2>2. demoMode = ass => ~drew
    BY <2>1
  <2>3. demoMode = ass => frame < lag \/ frame < lag + LAG
    BY <2>2
  <2>4. seen' = ass => demoMode = ass
    BY <2>1
  <2>5. \A b \in Bytes : ~(b < 0)
    BY DEF Bytes
  <2> QED BY <2>1, <2>2, <2>3, <2>4, <2>5
<1>6. CASE ReadByte
  BY <1>6 DEF ReadByte
<1>7. CASE WriteByte
  <2>1. pc = "write" /\ pc' = "draw" /\ done' = done + 1
        /\ vram' = [vram EXCEPT ![at] = (IF seen = ass THEN {} ELSE reg) \cup {seen}]
        /\ UNCHANGED <<demoMode, frame, seen, lag, drew>>
    BY <1>7 DEF WriteByte
  <2>2. ASSUME seen = ass, demoMode = ass, NEW b \in Bytes, b < done + 1
        PROVE  vram'[b] = {ass}
    <3>1. CASE b = at
      BY <2>1, <2>2, <3>1
    <3>2. CASE b # at
      <4>1. b < done
        BY <2>1, <2>2, <3>2 DEF Bytes
      <4> QED BY <2>1, <2>2, <3>2, <4>1
    <3> QED BY <3>1, <3>2
  <2> QED BY <2>1, <2>2
<1>8. CASE EndDrawing
  BY <1>8 DEF EndDrawing
<1>9. CASE Spin
  BY <1>9 DEF Spin
<1>10. CASE PrintAndDelay
  BY <1>10 DEF PrintAndDelay
<1>11. CASE UNCHANGED vars
  BY <1>11 DEF vars
<1> QED BY <1>1, <1>2, <1>3, <1>4, <1>5, <1>6, <1>7, <1>8, <1>9, <1>10, <1>11 DEF Next, Main

-----------------------------------------------------------------------------
(* The old bytes are among finitely many.                                   *)
LEMMA OldFinite ==
    /\ IsFiniteSet(OldBytes) /\ Cardinality(OldBytes) \in Nat
    /\ IsFiniteSet(OldBytes') /\ Cardinality(OldBytes') \in Nat
<1>1. IsFiniteSet(Bytes)
  BY DemoAssumption, FS_Interval DEF Bytes
<1>2. OldBytes \subseteq Bytes /\ OldBytes' \subseteq Bytes
  BY DEF OldBytes, Bytes
<1> QED BY <1>1, <1>2, FS_Subset, FS_CardinalityType

(* No byte gets old pixels, or only one does.                               *)
LEMMA OldShrinks == OldBytes' \subseteq OldBytes => Cardinality(OldBytes') <= Cardinality(OldBytes)
BY OldFinite, FS_Subset

(* Or one more does.                                                        *)
LEMMA OldGrows ==
    ASSUME NEW b, OldBytes' \subseteq OldBytes \cup {b}
    PROVE  Cardinality(OldBytes') <= Cardinality(OldBytes) + 1
<1>1. IsFiniteSet(OldBytes \cup {b})
      /\ Cardinality(OldBytes \cup {b}) \in Nat
      /\ Cardinality(OldBytes \cup {b}) <= Cardinality(OldBytes) + 1
  <2>1. IsFiniteSet(OldBytes \cup {b})
        /\ Cardinality(OldBytes \cup {b}) =
             IF b \in OldBytes THEN Cardinality(OldBytes) ELSE Cardinality(OldBytes) + 1
    BY OldFinite, FS_AddElement
  <2> QED BY <2>1, OldFinite
<1>2. Cardinality(OldBytes') <= Cardinality(OldBytes \cup {b})
  BY <1>1, FS_Subset
<1> QED BY <1>1, <1>2, OldFinite

(* The handler on a vertical blanking leaves no old pixels in a new mode,   *)
(* and makes none in the mode on show.                                      *)
LEMMA OldAtBlanking ==
    ASSUME TypeOK, Vblank
    PROVE  /\ OldBytes' \subseteq OldBytes \/ OldBytes' = {}
           /\ demoMode' # demoMode => OldBytes' = {}
<1>1. ASSUME NEW v, vram' = Typed(demoMode', v), \A b \in Bytes : v[b] = {}
      PROVE  OldBytes' = {}
  <2>1. \A b \in Bytes : vram'[b] \subseteq {demoMode'}
    BY <1>1 DEF Typed
  <2> QED BY <2>1 DEF OldBytes, Bytes
<1>2. CASE vram' = Typed(demoMode, vram) /\ demoMode' = demoMode
  <2>1. \A b \in Bytes : vram[b] \subseteq {demoMode} => vram'[b] \subseteq {demoMode}
    BY <1>2 DEF Typed
  <2> QED BY <1>2, <2>1 DEF OldBytes, Bytes
<1>3. CASE vram' = Typed(demoMode', [b \in Bytes |-> {}])
  BY <1>1, <1>3
<1> QED BY <1>2, <1>3, BlankingTime

(* Old pixels.                                                              *)
LEMMA FewOldStep == TypeOK /\ Place /\ InTime /\ OnItsWay /\ DrawnFor /\ AssOnce /\ FewOld /\ [Next]_vars => FewOld'
<1> SUFFICES ASSUME TypeOK, Place, InTime, OnItsWay, DrawnFor, AssOnce, FewOld, [Next]_vars PROVE FewOld'
  OBVIOUS
<1> USE DemoAssumption, Modes, DrawnAt DEF TypeOK, mainVars, Drawing, Place, InTime, OnItsWay, DrawnFor, AssOnce, FewOld, OldPixels
<1>1. CASE Vblank
  <2>1. /\ OldBytes' \subseteq OldBytes \/ OldBytes' = {}
        /\ demoMode' # demoMode => OldBytes' = {}
    BY <1>1, OldAtBlanking
  <2>2. Cardinality(OldBytes') <= Cardinality(OldBytes)
        /\ (OldBytes' = {} => Cardinality(OldBytes') = 0)
    BY <2>1, OldShrinks, OldFinite, FS_EmptySet
  <2>3. ASSUME pc = "write", seen = demoMode'
        PROVE  demoMode' = demoMode /\ (reg = vram[at] => reg = vram'[at])
    <3>1. demoMode' = demoMode
      <4>1. ASSUME demoMode' # demoMode PROVE FALSE
        <5>1. frame = FRAMES_PER_MODE - 1 /\ lag \in Nat /\ lag < LAG
          BY <1>1, <4>1, BlankingTime
        <5>2. frame < lag
          BY <2>3, <4>1
        <5> QED BY <5>1, <5>2
      <4> QED BY <4>1
    <3>2. vram' = Typed(demoMode, vram) /\ demoMode \notin TextModes
      BY <1>1, <2>3, <3>1, BlankingTime
    <3> QED BY <3>1, <3>2 DEF Typed
  <2>4. UNCHANGED mainVars
    BY <1>1 DEF Vblank
  <2> QED BY <2>1, <2>2, <2>3, <2>4, OldFinite DEF mainVars
<1>2. CASE Wipe
  <2>1. OldBytes' = {}
    <3>1. \A b \in Bytes : vram[b] \subseteq {demoMode}
      BY <1>2 DEF Wipe, OldBytes, Bytes
    <3>2. \A b \in Bytes : vram'[b] \subseteq {demoMode}
      BY <1>2, <3>1 DEF Wipe
    <3> QED BY <1>2, <3>2 DEF Wipe, OldBytes, Bytes
  <2>2. Cardinality(OldBytes') <= STROKE
    BY <2>1, FS_EmptySet
  <2> QED BY <1>2, <2>1, <2>2 DEF Wipe
<1>3. CASE WaitFrame
  <2>1. OldBytes' = OldBytes
    BY <1>3 DEF WaitFrame, OldBytes, Bytes
  <2> QED BY <1>3, <2>1, OldFinite DEF WaitFrame
<1>4. CASE TakeFrame
  <2>1. OldBytes' = OldBytes
    BY <1>4 DEF TakeFrame, OldBytes, Bytes
  <2> QED BY <1>4, <2>1, OldFinite DEF TakeFrame
<1>5. CASE TestMode
  <2>1. OldBytes' = OldBytes
    BY <1>5 DEF TestMode, OldBytes, Bytes
  <2>2. pc = "test" /\ demoMode' = demoMode /\ seen' \in {seen, demoMode}
        /\ pc' \in {"draw", "print", "test"} /\ (pc' = "draw" => done' = 0)
    BY <1>5 DEF TestMode
  <2>3. seen' # demoMode => OldBytes = {} /\ Cardinality(OldBytes) = 0
    BY <2>2, FS_EmptySet
  <2> QED BY <2>1, <2>2, <2>3, OldFinite
<1>6. CASE ReadByte
  <2>1. OldBytes' = OldBytes
    BY <1>6 DEF ReadByte, OldBytes, Bytes
  <2> QED BY <1>6, <2>1, OldFinite DEF ReadByte
<1>7. CASE WriteByte
  <2>1. pc = "write" /\ pc' = "draw" /\ done' = done + 1
        /\ vram' = [vram EXCEPT ![at] = (IF seen = ass THEN {} ELSE reg) \cup {seen}]
        /\ UNCHANGED <<demoMode, seen>>
    BY <1>7 DEF WriteByte
  <2>2. \A b \in Bytes : b # at => vram'[b] = vram[b]
    BY <2>1
  <2>3. CASE seen = demoMode
    <3>1. vram'[at] \subseteq vram[at] \cup {demoMode}
      BY <2>1, <2>3
    <3>2. OldBytes' \subseteq OldBytes
      BY <2>1, <2>2, <3>1 DEF OldBytes, Bytes
    <3> QED BY <2>1, <2>3, <3>2, OldShrinks, OldFinite
  <2>4. CASE seen # demoMode
    <3>1. OldBytes' \subseteq OldBytes \cup {at}
      BY <2>1, <2>2 DEF OldBytes, Bytes
    <3>2. Cardinality(OldBytes') <= done'
      BY <2>1, <2>4, <3>1, OldGrows, OldFinite
    <3>3. done' <= STROKE
      BY <2>1, <2>4
    <3> QED BY <2>1, <2>4, <3>2, <3>3, OldFinite
  <2> QED BY <2>3, <2>4
<1>8. CASE EndDrawing
  <2>1. OldBytes' = OldBytes
    BY <1>8 DEF EndDrawing, OldBytes, Bytes
  <2> QED BY <1>8, <2>1, OldFinite DEF EndDrawing
<1>9. CASE Spin
  <2>1. OldBytes' = OldBytes
    BY <1>9 DEF Spin, OldBytes, Bytes
  <2> QED BY <1>9, <2>1, OldFinite DEF Spin
<1>10. CASE PrintAndDelay
  <2>1. OldBytes' = OldBytes
    BY <1>10 DEF PrintAndDelay, OldBytes, Bytes
  <2> QED BY <1>10, <2>1, OldFinite DEF PrintAndDelay
<1>11. CASE UNCHANGED vars
  BY <1>11 DEF vars, OldBytes, Bytes
<1> QED BY <1>1, <1>2, <1>3, <1>4, <1>5, <1>6, <1>7, <1>8, <1>9, <1>10, <1>11 DEF Next, Main

-----------------------------------------------------------------------------
(* The invariant, from its parts.                                           *)
LEMMA InvInit == Init => Inv
<1> SUFFICES ASSUME Init PROVE Inv
  OBVIOUS
<1> USE DEF Init
<1>1. TypeOK
  BY TypeInit
<1>2. Place /\ InTime /\ OnItsWay /\ DrawnFor /\ AssOnce /\ Turns
  BY Modes DEF Place, InTime, OnItsWay, DrawnFor, AssOnce, Turns, Drawing
<1>3. TextPageTrue
  BY DemoAssumption DEF TextPageTrue
<1>4. FewOld
  <2>1. OldBytes = {}
    BY DEF OldBytes, Bytes
  <2> QED BY <2>1, FS_EmptySet, DemoAssumption DEF FewOld, OldPixels, Drawing
<1> QED BY <1>1, <1>2, <1>3, <1>4 DEF Inv, Timing

LEMMA InvStep == Inv /\ [Next]_vars => Inv'
BY TypeStep, PlaceStep, InTimeStep, OnItsWayStep, DrawnForStep, AssOnceStep, FewOldStep,
   TurnsStep, TextPageStep DEF Inv, Timing

(* The invariant holds throughout: main keeps up with the modes (cvbs_main.cpp:242-407). *)
THEOREM Invariance == Spec => []Inv
BY InvInit, InvStep, PTL DEF Spec

(* Every variable keeps its type, for every size of the frame buffer and    *)
(* length of a mode (cvbs_main.cpp:282-430).                                *)
THEOREM DemoTyped == Spec => []TypeOK
<1>1. Inv => TypeOK
  BY DEF Inv, Timing
<1> QED BY <1>1, Invariance, PTL

(* The handler's memset at a mode change leaves at most the bytes that one  *)
(* interrupted turn of main's loop draws.                                   *)
THEOREM OldPixelsFew == Spec => []OldPixels
<1>1. Inv => OldPixels
  BY DEF Inv, FewOld
<1> QED BY <1>1, Invariance, PTL

(* The text page is right from the frame after LAG on.                      *)
THEOREM TextPageRight == Spec => []TextPageTrue
<1>1. Inv => TextPageTrue
  BY DEF Inv
<1> QED BY <1>1, Invariance, PTL

(* All of the picture of `ass` is there when main waits behind it.          *)
THEOREM PictureComplete == Spec => []PictureWhole
<1>1. Inv => PictureWhole
  BY DEF Inv, Timing, TypeOK, Place, AssOnce, PictureWhole, Bytes
<1> QED BY <1>1, Invariance, PTL

(* vsync holds main to the frame rate.                                      *)
THEOREM VsyncPaces == Spec => []Paced
<1>1. Inv => Paced
  BY DEF Inv, Turns, Paced
<1> QED BY <1>1, Invariance, PTL

(* Main has begun to draw for each of its modes before the mode ends.       *)
THEOREM NoModeMissed == Spec => EveryModeGetsItsTurn
<1>1. Inv /\ [Next]_vars => [demoMode' # demoMode /\ demoMode \in DrawnModes => drew]_vars
  <2> SUFFICES ASSUME Inv, Next, demoMode' # demoMode, demoMode \in DrawnModes
               PROVE  drew
    OBVIOUS
  <2>1. TypeOK /\ OnItsWay
    BY DEF Inv, Timing
  <2>2. CASE Vblank
    <3>1. frame = FRAMES_PER_MODE - 1 /\ lag \in Nat /\ lag < LAG
      BY <2>1, <2>2, BlankingTime
    <3>2. ~(frame < lag) /\ ~(frame < lag + LAG)
      BY <3>1, DemoAssumption
    <3> QED BY <2>1, <3>2 DEF OnItsWay
  <2>3. CASE Main
    BY <2>3 DEF Main, Wipe, WaitFrame, TakeFrame, TestMode, ReadByte, WriteByte,
                EndDrawing, Spin, PrintAndDelay
  <2> QED BY <2>2, <2>3 DEF Next
<1> QED BY <1>1, Invariance, PTL DEF Spec, EveryModeGetsItsTurn
=============================================================================
