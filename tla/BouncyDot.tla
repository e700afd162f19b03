------------------------------ MODULE BouncyDot ------------------------------
(***************************************************************************)
(* The bouncyDot demo of main in cvbs_main.cpp: a dot that walks over the  *)
(* frame buffer along a straight line, drawn with an accumulator per axis, *)
(* and leaves each border at a random slope.  One action is one turn of    *)
(* the inner loop; main comes back to it once per frame.                   *)
(***************************************************************************)
EXTENDS Integers

CONSTANTS XMAX, YMAX,   \* the last column and row, 255 and 191 in the code
          DEN,          \* what makeden returns, 0x00100000 in the code
          STROKE        \* moves per frame, 17 in the code

ASSUME DotAssumption ==
    /\ XMAX \in Nat \ {0} /\ YMAX \in Nat \ {0}
    /\ DEN \in Nat /\ DEN >= 8
    /\ STROKE \in Nat \ {0}

VARIABLES
    drawing,    \* main is in the inner loop
    moved,      \* moves made in this frame
    x, y        \* one axis each: position, and slope num/den with accumulator

vars == <<drawing, moved, x, y>>

(* Mutant: slopes from zero on.                                             *)
SlopesFromZero == 0 .. (DEN * 14) \div 16 - 1

(* makenum: my_random(den*2/16, den*14/16), its upper end excluded.         *)
Slopes == (DEN * 2) \div 16 .. (DEN * 14) \div 16 - 1

Start == [pos |-> 0, num |-> 1, den |-> 1, acc |-> 0]

Init == drawing = FALSE /\ moved = 0 /\ x = Start /\ y = Start

(* Mutant: the border test looks one column too far.                        *)
ForwardPast(a, last) ==
    IF a.acc <= a.den THEN {a}
    ELSE IF a.pos = last + 1
           THEN {[a EXCEPT !.acc = 0, !.den = DEN, !.num = -n] : n \in Slopes}
    ELSE {[a EXCEPT !.acc = @ - a.den, !.pos = @ + 1]}

(* The first if of an axis: at the far border turn round, else move on.     *)
Forward(a, last) ==
    IF a.acc <= a.den THEN {a}
    ELSE IF a.pos = last
           THEN {[a EXCEPT !.acc = 0, !.den = DEN, !.num = -n] : n \in Slopes}
    ELSE {[a EXCEPT !.acc = @ - a.den, !.pos = @ + 1]}

(* Mutants: the accumulator is not put back when the dot turns round; the   *)
(* new slope has the old sign.                                              *)
BackwardKeepsAcc(a) ==
    IF a.acc >= -a.den THEN {a}
    ELSE IF a.pos = 0 THEN {[a EXCEPT !.den = DEN, !.num = n] : n \in Slopes}
    ELSE {[a EXCEPT !.acc = @ + a.den, !.pos = @ - 1]}
BackwardSameSign(a) ==
    IF a.acc >= -a.den THEN {a}
    ELSE IF a.pos = 0
           THEN {[a EXCEPT !.acc = 0, !.den = DEN, !.num = -n] : n \in Slopes}
    ELSE {[a EXCEPT !.acc = @ + a.den, !.pos = @ - 1]}

(* The second if, with what the first one left.                             *)
Backward(a) ==
    IF a.acc >= -a.den THEN {a}
    ELSE IF a.pos = 0
           THEN {[a EXCEPT !.acc = 0, !.den = DEN, !.num = n] : n \in Slopes}
    ELSE {[a EXCEPT !.acc = @ + a.den, !.pos = @ - 1]}

Walk(a, last) == UNION {Backward(b) : b \in Forward([a EXCEPT !.acc = @ + a.num], last)}

BeginStroke ==       \* vsync has returned and demoMode is bouncyDot
    /\ ~drawing /\ drawing' = TRUE
    /\ moved' = 0
    /\ UNCHANGED <<x, y>>

Distance(p, q) == IF p < q THEN q - p ELSE p - q

(* Both axes walk, then setpixel(x, y).                                     *)
DrawDot ==
    /\ drawing /\ moved < STROKE
    /\ x' \in Walk(x, XMAX) /\ y' \in Walk(y, YMAX)
    /\ moved' = moved + Distance(x.pos, x'.pos) + Distance(y.pos, y'.pos)
    /\ UNCHANGED drawing

EndStroke ==
    /\ drawing /\ moved >= STROKE
    /\ drawing' = FALSE
    /\ UNCHANGED <<moved, x, y>>

Next == BeginStroke \/ DrawDot \/ EndStroke

(* Interrupts only delay main, and frames keep coming.                      *)
Spec == Init /\ [][Next]_vars /\ WF_vars(Next)

-----------------------------------------------------------------------------
(* Every variable has its type: in particular setpixel is only ever called  *)
(* for a pixel of the frame buffer, although the unsigned coordinates are   *)
(* compared with the border for equality only (cvbs_main.cpp:305-357), and  *)
(* an accumulator leaves a turn of the loop between -den and den, so that   *)
(* one addition cannot make it move twice.                                  *)
Axis(last) == {a \in [pos : 0 .. last, num : Int, den : {1, DEN}, acc : Int] :
                 /\ a.num \in -a.den .. a.den
                 /\ a.acc \in -a.den .. a.den}
InVram ==
    /\ drawing \in BOOLEAN /\ moved \in 0 .. STROKE + 1
    /\ x \in Axis(XMAX) /\ y \in Axis(YMAX)

(* The dot never steps back: an axis moves the way its slope points until   *)
(* it meets a border, and turns round at no other place.                    *)
HoldsCourse(a, b, last) ==
    /\ b.pos > a.pos => a.num > 0 /\ b.pos = a.pos + 1
    /\ b.pos < a.pos => a.num < 0 /\ b.pos = a.pos - 1
    /\ b.num # a.num => IF b.num < 0 THEN a.num > 0 /\ b.pos = last
                                     ELSE a.num < 0 /\ b.pos = 0
StraightLine == [][HoldsCourse(x, x', XMAX) /\ HoldsCourse(y, y', YMAX)]_vars

(* Main always gets out of the inner loop, and the dot always comes back to *)
(* each border.                                                             *)
StrokeEnds == drawing ~> ~drawing
MeetsBorders ==
    /\ []<>(x.pos = 0) /\ []<>(x.pos = XMAX)
    /\ []<>(y.pos = 0) /\ []<>(y.pos = YMAX)
=============================================================================
