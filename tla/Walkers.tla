------------------------------- MODULE Walkers -------------------------------
(***************************************************************************)
(* The two demos of cvbs_main.cpp that move: the dot of BouncyDot and the  *)
(* logo of bouncyDvd, which goes one pixel per frame along the diagonals.  *)
(* Main runs either of them in a frame.                                    *)
(***************************************************************************)
EXTENDS BouncyDot

CONSTANTS DVD_WIDTH, DVD_HEIGHT   \* of dvd.xbm

ASSUME DvdAssumption == DVD_WIDTH \in 1 .. XMAX - 1 /\ DVD_HEIGHT \in 1 .. YMAX - 1

VARIABLE dvd    \* an axis each: position, and whether it goes up

walkerVars == <<vars, dvd>>

DvdXMax == XMAX - DVD_WIDTH     \* 255 - dvd_width
DvdYMax == YMAX - DVD_HEIGHT    \* 191 - dvd_height

WalkersInit ==
    /\ Init
    /\ dvd = [x |-> [pos |-> 0, up |-> TRUE], y |-> [pos |-> 0, up |-> TRUE]]

(* Mutants: it turns when it has already passed the border; it does not     *)
(* turn at the near one.                                                    *)
BouncePast(a, last) ==
    IF a.up THEN (IF a.pos = last + 1 THEN [a EXCEPT !.up = FALSE] ELSE [a EXCEPT !.pos = @ + 1])
    ELSE IF a.pos = 0 THEN [a EXCEPT !.up = TRUE] ELSE [a EXCEPT !.pos = @ - 1]
BounceOnce(a, last) ==
    IF a.up THEN (IF a.pos = last THEN [a EXCEPT !.up = FALSE] ELSE [a EXCEPT !.pos = @ + 1])
    ELSE IF a.pos = 0 THEN a ELSE [a EXCEPT !.pos = @ - 1]

(* At a border the logo stands still for a frame and turns.                 *)
Bounce(a, last) ==
    IF a.up THEN (IF a.pos = last THEN [a EXCEPT !.up = FALSE] ELSE [a EXCEPT !.pos = @ + 1])
    ELSE IF a.pos = 0 THEN [a EXCEPT !.up = TRUE] ELSE [a EXCEPT !.pos = @ - 1]

DvdFrame ==
    /\ ~drawing
    /\ dvd' = [x |-> Bounce(dvd.x, DvdXMax), y |-> Bounce(dvd.y, DvdYMax)]
    /\ UNCHANGED vars

DotStep == Next /\ UNCHANGED dvd

WalkersNext == DotStep \/ DvdFrame

(* Each of the two modes comes back (EveryDemoDrawn of DemoLoop).           *)
WalkersSpec ==
    /\ WalkersInit /\ [][WalkersNext]_walkerVars
    /\ WF_walkerVars(DotStep) /\ SF_walkerVars(DvdFrame)

-----------------------------------------------------------------------------
(* The whole logo is inside the frame, clear of its last column and row.    *)
LogoInFrame ==
    /\ dvd.x.pos >= 0 /\ dvd.x.pos + DVD_WIDTH <= XMAX
    /\ dvd.y.pos >= 0 /\ dvd.y.pos + DVD_HEIGHT <= YMAX

(* The logo touches each border of its course again and again.              *)
LogoMeetsBorders ==
    /\ []<>(dvd.x.pos = 0) /\ []<>(dvd.x.pos = DvdXMax)
    /\ []<>(dvd.y.pos = 0) /\ []<>(dvd.y.pos = DvdYMax)
=============================================================================
