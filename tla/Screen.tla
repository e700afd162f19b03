-------------------------------- MODULE Screen --------------------------------
(***************************************************************************)
(* What the program promises a viewer: an endless sequence of frames, each *)
(* of BLANK_LINES dark scanlines and V_ACTIVE picture lines; every column  *)
(* of every line is shown, in raster order, and is that of one demo mode,  *)
(* which changes only where the screen is dark.                            *)
(***************************************************************************)
EXTENDS Picture

CONSTANTS BLANK_LINES, V_ACTIVE, NCOLS, WORD_COLS

VARIABLES mode, scan, col, beam

screenVars == <<mode, scan, col, beam>>

Init == mode = scrollingText /\ scan = 0 /\ col = 0 /\ beam = Dark

BlankLine ==
    /\ scan < BLANK_LINES /\ scan' = scan + 1
    /\ UNCHANGED <<mode, col, beam>>

ChangeMode ==
    /\ scan <= BLANK_LINES /\ beam = Dark
    /\ mode' = NextMode(mode)
    /\ UNCHANGED <<scan, col, beam>>

ShowColumn ==
    /\ scan \in BLANK_LINES .. BLANK_LINES + V_ACTIVE - 1 /\ col < NCOLS
    /\ beam' = Lit(mode, scan - BLANK_LINES, col, col \div WORD_COLS)
    /\ col' = col + 1
    /\ UNCHANGED <<mode, scan>>

EndLine ==
    /\ col = NCOLS /\ col' = 0
    /\ scan' = scan + 1 /\ beam' = Dark
    /\ UNCHANGED mode

NewFrame ==
    /\ scan = BLANK_LINES + V_ACTIVE /\ scan' = 0
    /\ UNCHANGED <<mode, col, beam>>

Next == BlankLine \/ ChangeMode \/ ShowColumn \/ EndLine \/ NewFrame

Spec == Init /\ [][Next]_screenVars
=============================================================================
