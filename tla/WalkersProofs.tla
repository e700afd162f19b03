---------------------------- MODULE WalkersProofs ----------------------------
(***************************************************************************)
(* The demos that move, for every frame buffer, denominator and stroke of  *)
(* the dot, and every size of the logo.                                    *)
(***************************************************************************)
EXTENDS Walkers, TLAPS

(* Every new slope is a proper fraction of DEN, and none is level.          *)
LEMMA SlopeRange == \A n \in Slopes : n \in Int /\ n > 0 /\ n < DEN
BY DotAssumption DEF Slopes

(* One turn of the loop keeps an axis inside its borders and its            *)
(* accumulator small, moves at most one step, and only the way of the slope.*)
LEMMA WalkStays ==
    ASSUME NEW last \in Nat \ {0}, NEW a \in Axis(last), a.num # 0,
           NEW b \in Walk(a, last)
    PROVE  /\ b \in Axis(last) /\ b.num # 0
           /\ HoldsCourse(a, b, last)
<1> DEFINE s == [a EXCEPT !.acc = @ + a.num]
<1>1. /\ a = [pos |-> a.pos, num |-> a.num, den |-> a.den, acc |-> a.acc]
      /\ a.pos \in 0 .. last /\ a.num \in Int /\ a.den \in {1, DEN} /\ a.acc \in Int
      /\ a.num \in -a.den .. a.den /\ a.acc \in -a.den .. a.den
  BY DEF Axis
<1>2. /\ s.pos = a.pos /\ s.num = a.num /\ s.den = a.den /\ s.acc = a.acc + a.num
      /\ s = [pos |-> a.pos, num |-> a.num, den |-> a.den, acc |-> a.acc + a.num]
  BY <1>1
<1> HIDE DEF s
<1>3. PICK m \in Forward(s, last) : b \in Backward(m)
  BY DEF Walk, s
<1>4. CASE s.acc > s.den
  <2>0. ~(s.acc <= s.den)
    BY <1>1, <1>2, <1>4, DotAssumption
  <2>1. CASE s.pos = last
    <3>1. PICK n \in Slopes : m = [s EXCEPT !.acc = 0, !.den = DEN, !.num = -n]
      BY <1>3, <2>0, <2>1 DEF Forward
    <3>2. m = [pos |-> last, num |-> -n, den |-> DEN, acc |-> 0]
      BY <3>1, <1>2, <2>1
    <3>3. m.acc >= -m.den
      BY <3>2, DotAssumption
    <3>4. b = m
      BY <3>3, <1>3 DEF Backward
    <3> QED BY <1>1, <1>2, <1>4, <2>1, <3>2, <3>4, SlopeRange, DotAssumption
            DEF Axis, HoldsCourse
  <2>2. CASE s.pos # last
    <3>1. m = [s EXCEPT !.acc = @ - s.den, !.pos = @ + 1]
      BY <1>3, <2>0, <2>2 DEF Forward
    <3>2. m = [pos |-> a.pos + 1, num |-> a.num, den |-> a.den, acc |-> s.acc - a.den]
      BY <3>1, <1>2
    <3>3. m.acc >= -m.den
      BY <3>2, <1>1, <1>2, <1>4, DotAssumption
    <3>4. b = m
      BY <3>3, <1>3 DEF Backward
    <3> QED BY <1>1, <1>2, <1>4, <2>2, <3>2, <3>4, DotAssumption DEF Axis, HoldsCourse
  <2> QED BY <2>1, <2>2
<1>5. CASE ~(s.acc > s.den)
  <2>4. s.acc <= s.den
    BY <1>1, <1>2, <1>5, DotAssumption
  <2>0. m = s
    BY <1>3, <2>4 DEF Forward
  <2>1. CASE s.acc >= -s.den
    <3>1. b = s
      BY <2>0, <2>1, <1>3 DEF Backward
    <3> QED BY <1>1, <1>2, <1>5, <2>1, <3>1, DotAssumption DEF Axis, HoldsCourse
  <2>2. CASE ~(s.acc >= -s.den) /\ s.pos = 0
    <3>1. PICK n \in Slopes : b = [s EXCEPT !.acc = 0, !.den = DEN, !.num = n]
      BY <2>0, <2>2, <1>3 DEF Backward
    <3>2. b = [pos |-> 0, num |-> n, den |-> DEN, acc |-> 0]
      BY <3>1, <1>2, <2>2
    <3> QED BY <1>1, <1>2, <2>2, <3>2, SlopeRange, DotAssumption DEF Axis, HoldsCourse
  <2>3. CASE ~(s.acc >= -s.den) /\ s.pos # 0
    <3>1. b = [s EXCEPT !.acc = @ + s.den, !.pos = @ - 1]
      BY <2>0, <2>3, <1>3 DEF Backward
    <3>2. b = [pos |-> a.pos - 1, num |-> a.num, den |-> a.den, acc |-> s.acc + a.den]
      BY <3>1, <1>2
    <3>3. a.num < 0 /\ a.acc + a.num + a.den \in -a.den .. a.den
      BY <1>1, <1>2, <2>3, DotAssumption
    <3>4. a.pos - 1 \in 0 .. last
      BY <1>1, <1>2, <2>3
    <3>5. b \in Axis(last)
      BY <1>1, <1>2, <3>2, <3>3, <3>4 DEF Axis
    <3> QED BY <1>1, <1>2, <3>2, <3>3, <3>5 DEF HoldsCourse
  <2> QED BY <2>1, <2>2, <2>3
<1> QED BY <1>4, <1>5

(* No slope is ever level.                                                  *)
DotInv == InVram /\ x.num # 0 /\ y.num # 0

LEMMA StartInv == Init => DotInv
<1>1. \A last \in Nat : Start \in Axis(last) /\ Start.num # 0
  BY DEF Start, Axis
<1>2. 0 \in 0 .. STROKE + 1
  BY DotAssumption
<1>3. Init => moved = 0 /\ drawing \in BOOLEAN /\ x = Start /\ y = Start
  BY DEF Init
<1>4. XMAX \in Nat /\ YMAX \in Nat
  BY DotAssumption
<1> QED BY <1>1, <1>2, <1>3, <1>4 DEF DotInv, InVram

LEMMA AxisMoves ==
    ASSUME NEW last, NEW a \in Axis(last), NEW b \in Axis(last), HoldsCourse(a, b, last)
    PROVE  Distance(a.pos, b.pos) \in 0 .. 1
BY DEF Axis, HoldsCourse, Distance

LEMMA DotKept ==
    DotInv /\ [Next]_vars =>
      /\ DotInv'
      /\ [HoldsCourse(x, x', XMAX) /\ HoldsCourse(y, y', YMAX)]_vars
<1> SUFFICES ASSUME DotInv, [Next]_vars
             PROVE  DotInv' /\ [HoldsCourse(x, x', XMAX) /\ HoldsCourse(y, y', YMAX)]_vars
    OBVIOUS
<1>1. CASE DrawDot
  <2>1. /\ x' \in Axis(XMAX) /\ x'.num # 0 /\ HoldsCourse(x, x', XMAX)
        /\ y' \in Axis(YMAX) /\ y'.num # 0 /\ HoldsCourse(y, y', YMAX)
    BY <1>1, WalkStays, DotAssumption DEF DrawDot, DotInv, InVram
  <2>2. moved' \in 0 .. STROKE + 1
    <3>1. Distance(x.pos, x'.pos) \in 0 .. 1 /\ Distance(y.pos, y'.pos) \in 0 .. 1
      BY <2>1, AxisMoves DEF DotInv, InVram
    <3> QED BY <1>1, <3>1, DotAssumption DEF DrawDot, DotInv, InVram
  <2> QED BY <1>1, <2>1, <2>2 DEF DrawDot, DotInv, InVram
<1>2. CASE BeginStroke \/ EndStroke \/ UNCHANGED vars
  <2>1. x' = x /\ y' = y
    BY <1>2 DEF BeginStroke, EndStroke, vars
  <2>2. HoldsCourse(x, x', XMAX) /\ HoldsCourse(y, y', YMAX)
    BY <2>1 DEF HoldsCourse, DotInv, InVram, Axis
  <2>3. moved' \in {0, moved}
    BY <1>2 DEF BeginStroke, EndStroke, vars
  <2>4. moved' \in 0 .. STROKE + 1
    BY <2>3, DotAssumption DEF DotInv, InVram
  <2>5. drawing' \in BOOLEAN
    BY <1>2, Zenon DEF BeginStroke, EndStroke, vars, DotInv, InVram
  <2> QED BY <2>1, <2>2, <2>4, <2>5 DEF DotInv, InVram
<1> QED BY <1>1, <1>2 DEF Next

(* The dot never leaves the frame buffer: every coordinate setpixel gets is *)
(* one of it.                                                               *)
THEOREM DotInFrameBuffer == Spec => []InVram
<1>1. DotInv => InVram BY DEF DotInv
<1> QED BY <1>1, StartInv, DotKept, PTL DEF Spec

(* The dot keeps its course between the borders.                            *)
THEOREM DotOnCourse == Spec => StraightLine
<1>1. DotInv /\ [Next]_vars =>
        DotInv' /\ [HoldsCourse(x, x', XMAX) /\ HoldsCourse(y, y', YMAX)]_vars
  BY DotKept
<1> QED BY <1>1, StartInv, PTL DEF Spec, StraightLine

-----------------------------------------------------------------------------

(* An axis of a logo whose course ends at `last`.                           *)
Course(last) == [pos : 0 .. last, up : BOOLEAN]

DvdInv == dvd \in [x : Course(DvdXMax), y : Course(DvdYMax)]

(* The logo has room to move.                                               *)
LEMMA CourseEnds == DvdXMax \in Nat /\ DvdYMax \in Nat
BY DotAssumption, DvdAssumption DEF DvdXMax, DvdYMax

(* An axis stays on its course.                                             *)
LEMMA BounceStays ==
    ASSUME NEW last \in Nat, NEW a \in Course(last)
    PROVE  Bounce(a, last) \in Course(last)
<1>1. a.pos \in 0 .. last /\ a = [pos |-> a.pos, up |-> a.up] /\ a.up \in BOOLEAN
  BY Zenon DEF Course
<1>2. CASE a.up /\ a.pos = last
  <2>1. Bounce(a, last) = [a EXCEPT !.up = FALSE]
    BY <1>2 DEF Bounce
  <2> QED BY <2>1, Zenon DEF Course
<1>3. CASE a.up /\ a.pos # last
  <2>1. Bounce(a, last) = [a EXCEPT !.pos = a.pos + 1]
    BY <1>3 DEF Bounce
  <2>2. a.pos + 1 \in 0 .. last
    BY <1>1, <1>3
  <2> QED BY <2>1, <2>2, Zenon DEF Course
<1>4. CASE ~a.up /\ a.pos = 0
  <2>1. Bounce(a, last) = [a EXCEPT !.up = TRUE]
    BY <1>4 DEF Bounce
  <2> QED BY <2>1, Zenon DEF Course
<1>5. CASE ~a.up /\ a.pos # 0
  <2>1. Bounce(a, last) = [a EXCEPT !.pos = a.pos - 1]
    BY <1>5 DEF Bounce
  <2>2. a.pos - 1 \in 0 .. last
    BY <1>1, <1>5
  <2> QED BY <2>1, <2>2, Zenon DEF Course
<1> QED BY <1>2, <1>3, <1>4, <1>5

(* Neither demo disturbs the other.                                         *)
LEMMA WalkersKept ==
    DvdInv /\ DotInv /\ [WalkersNext]_walkerVars => DvdInv' /\ DotInv' /\ [Next]_vars
<1> SUFFICES ASSUME DvdInv, DotInv, [WalkersNext]_walkerVars
             PROVE  DvdInv' /\ DotInv' /\ [Next]_vars
    OBVIOUS
<1>1. [Next]_vars
  BY DEF WalkersNext, DotStep, DvdFrame, walkerVars
<1>2. DotInv'
  BY <1>1, DotKept
<1>3. DvdInv'
  <2>1. CASE DvdFrame
    <3>1. dvd.x \in Course(DvdXMax) /\ dvd.y \in Course(DvdYMax)
      BY Zenon DEF DvdInv
    <3>2. /\ Bounce(dvd.x, DvdXMax) \in Course(DvdXMax)
          /\ Bounce(dvd.y, DvdYMax) \in Course(DvdYMax)
      BY <3>1, CourseEnds, BounceStays
    <3>3. dvd' = [x |-> Bounce(dvd.x, DvdXMax), y |-> Bounce(dvd.y, DvdYMax)]
      BY <2>1 DEF DvdFrame
    <3>4. dvd' \in [x : Course(DvdXMax), y : Course(DvdYMax)]
      BY <3>2, <3>3, Zenon
    <3> QED BY <3>4, Zenon DEF DvdInv, Course, DvdXMax, DvdYMax
  <2>2. CASE UNCHANGED dvd
    BY <2>2 DEF DvdInv, Course
  <2> QED BY <2>1, <2>2 DEF WalkersNext, DotStep, walkerVars
<1> QED BY <1>1, <1>2, <1>3

(* Both begin on their courses.                                             *)
LEMMA WalkersStart == WalkersInit => DvdInv /\ DotInv
<1> SUFFICES ASSUME WalkersInit PROVE DvdInv /\ DotInv
    OBVIOUS
<1>1. DotInv
  BY StartInv DEF WalkersInit
<1>2. 0 \in 0 .. DvdXMax /\ 0 \in 0 .. DvdYMax
  BY CourseEnds
<1>3. [pos |-> 0, up |-> TRUE] \in Course(DvdXMax) /\ [pos |-> 0, up |-> TRUE] \in Course(DvdYMax)
  BY <1>2, Zenon DEF Course
<1> QED BY <1>1, <1>3, Zenon DEF WalkersInit, DvdInv

(* The invariants and the dot's steps, throughout.                          *)
LEMMA WalkersInvariant == WalkersSpec => [](DvdInv /\ DotInv) /\ [][Next]_vars
BY WalkersStart, WalkersKept, PTL DEF WalkersSpec

(* bouncyDvd draws its whole logo inside the frame buffer, wherever main    *)
(* leaves it and comes back to it (cvbs_main.cpp:361-389).                  *)
THEOREM LogoStaysInFrame == WalkersSpec => []LogoInFrame
<1>1. DvdInv => LogoInFrame
  <2> SUFFICES ASSUME DvdInv PROVE LogoInFrame
      OBVIOUS
  <2>1. dvd.x.pos \in 0 .. DvdXMax /\ dvd.y.pos \in 0 .. DvdYMax
    BY Zenon DEF DvdInv, Course
  <2> QED BY <2>1, DotAssumption, DvdAssumption DEF LogoInFrame, DvdXMax, DvdYMax
<1> QED BY <1>1, WalkersInvariant, PTL

(* Nor does the dot leave it when the two demos take turns.                 *)
THEOREM BothInFrameBuffer == WalkersSpec => []InVram
<1>1. DotInv => InVram
  BY DEF DotInv
<1> QED BY <1>1, WalkersInvariant, PTL
=============================================================================
