--------------------------------- MODULE Cvbs ---------------------------------
(***************************************************************************)
(* The video program and the interrupt handler running together on the     *)
(* shared register file.                                                   *)
(*                                                                         *)
(* The two processors do not wait for each other: the PIOC draws line      *)
(* after line whether or not the host has answered.  What the code relies  *)
(* on is time, and the model names the two instants at which it matters:   *)
(* the start of the active region (asm:91, after 70 dark lines) and the    *)
(* end of each horizontal back porch (asm:166, some 14 us after the        *)
(* request).  A host that has answered by then has met the deadline.  With *)
(* MAY_BE_LATE = FALSE every deadline is met; with TRUE none need be.      *)
(*                                                                         *)
(* The program on main touches the mailbox in one place: the diagnostics   *)
(* it prints in the modes it has nothing to draw for read CTRL_RD          *)
(* (cvbs_main.cpp:413), which acknowledges whatever the PIOC last wrote    *)
(* there.  Its loop is kept here to what decides when that happens: one    *)
(* turn per counted blanking, and the tests of demoMode.  MAIN_PRINTS says *)
(* whether main runs at all.                                               *)
(***************************************************************************)
EXTENDS PiocVideo, HostIrq

CONSTANTS MAY_BE_LATE, MAIN_PRINTS

ASSUME LateAssumption == MAY_BE_LATE \in BOOLEAN
ASSUME PrintsAssumption == MAIN_PRINTS \in BOOLEAN

VARIABLES
    mpc,        \* where main is in its loop
    counted,    \* frame_counter # vsync_was
    clean       \* history: nothing missed since this frame went active

mainVars == <<mpc, counted>>
vars == <<sfrVars, piocVars, hostVars, mainVars, clean>>

Init ==
    /\ SfrInit /\ PiocInit /\ HostInit
    /\ mpc = "vsync" /\ counted = FALSE
    /\ clean = FALSE

Deadline == pc \in {"startRd", "testMw"}

PiocStep ==
    /\ PiocNext
    /\ Deadline /\ intReq => MAY_BE_LATE
    /\ clean' = CASE pc = "startRd" -> ~intReq
                  [] pc = "testMw"  -> clean /\ ~intReq
                  [] OTHER          -> clean
    /\ UNCHANGED <<hostVars, mainVars>>

(* The handler's ++frame_counter, which ends the wait in vsync.             *)
HostStep ==
    /\ HostNext
    /\ counted' = (counted \/ (hpc = "readRd" /\ ctrlRd = 255))
    /\ UNCHANGED <<piocVars, mpc, clean>>

(* vsync(): while (vsync_was == frame_counter); vsync_was = frame_counter.  *)
(* Main runs when the handler does not.                                     *)
Vsync ==
    /\ MAIN_PRINTS /\ hpc = "idle"
    /\ mpc = "vsync" /\ counted
    /\ mpc' = "test" /\ counted' = FALSE
    /\ UNCHANGED <<sfrVars, piocVars, hostVars, clean>>

(* The tests of demoMode: a mode main draws for ends the turn (continue;    *)
(* its drawing, in DemoLoop, leaves the registers alone) and main waits,    *)
(* any other goes on to the printf.  The four tests are in the order of the *)
(* modes, so that all of them fail only if one of them read an undrawn mode.*)
TestModes ==
    /\ hpc = "idle" /\ mpc = "test"
    /\ mpc' = (IF demoMode \in TextModes \cup {chess} THEN "print" ELSE "vsync")
    /\ UNCHANGED <<sfrVars, piocVars, hostVars, counted, clean>>

(* The number in CTRL_RD belongs to a request made or about to be made.     *)
Announced ==
    intReq \/ pc \in {"startWr", "startInt"} \/ (pc = "pend" /\ bitX)

(* printf("... RD[%02X] ...", ..., PIOC->D8_CTRL_RD, ...)                   *)
PrintStatus ==
    /\ hpc = "idle" /\ mpc = "print"
    /\ mpc' = "vsync"
    /\ HostReadsCtrlRd
    /\ clean' = (clean /\ ~(swMr /\ Announced))
    /\ UNCHANGED <<intReq, mwSr, ctrlRd, ctrlWr, data, piocVars, hostVars, counted>>

MainStep == Vsync \/ TestModes \/ PrintStatus

Next == PiocStep \/ HostStep \/ MainStep

Spec == Init /\ [][Next]_vars

(* The PIOC is clocked for ever and never blocks; the interrupt is enabled  *)
(* for good and the handler has no wait in it.                              *)
FairSpec == Spec /\ WF_vars(PiocStep) /\ WF_vars(HostStep)

(* Nothing is promised of the host: it may stop in the middle of a handler. *)
PiocFairSpec == Spec /\ WF_vars(PiocStep)

-----------------------------------------------------------------------------
(* Every variable has its type.                                             *)
TypeOK == SfrTypeOK /\ PiocTypeOK /\ HostTypeOK
          /\ mpc \in {"vsync", "test", "print"} /\ counted \in BOOLEAN /\ clean \in BOOLEAN

(* What the screen should show where the beam is.                           *)
Wanted(b) == Lit(demoMode, b.line, b.col, b.col \div WORD_COLS)

(* From any state the program can be in, whatever was lost, late or stale   *)
(* before: once a frame goes active with its requests answered in time,     *)
(* every column shown until a deadline is missed, or main reads a line      *)
(* number that the handler has not, is the right one.                       *)
(* (asm:91-118 with cvbs_main.cpp:178-239)                                  *)
CleanFrame == clean /\ beam # Dark => beam = Wanted(beam)

(* When the host acknowledges in time, the acknowledgement (cvbs_main.cpp:  *)
(* 238) does not cancel a newer request: the last line number the PIOC      *)
(* published has been read.                                                 *)
AckIsCurrent == clean /\ hpc = "ack" => ~swMr

(* The number the host is told is the raster line about to be drawn         *)
(* (asm:91, 105-111), and a frame that ends has exactly the lines of an     *)
(* NTSC field, whatever the host does.                                      *)
LineNumberTrue ==
    /\ pc \in {"startWr", "startInt", "testMw", "readCmd", "testMode",
               "bitmap", "text", "pend"} => ctrlRd = scan - BLANK_LINES
    /\ pc = "screen" => scan \in {0, BLANK_LINES + V_ACTIVE}

(* A host that meets its deadlines has seen the vertical blanking of every  *)
(* frame when the picture starts, so frame_counter counts frames            *)
(* (cvbs_main.cpp:183-184).                                                 *)
VblankSeen == pc \in {"startWr", "startInt"} => scanline = 255

(* A command the host writes in time is acknowledged by the instruction     *)
(* that takes its glyph row (asm:167) or replaced at the start of a frame   *)
(* (asm:94), never by the reads of CTRL_WR that only test a bit of it       *)
(* (asm:170, 327): "If master changed command, update line counter".        *)
CommandTaken == [][mwSr /\ ~mwSr' => pc \in {"readCmd", "startWr"}]_vars

(* The whole demo goes round: every mode keeps coming back on the screen.   *)
EveryModeShown == \A m \in DemoModes : []<>(demoMode = m /\ beam # Dark)

(* The PIOC never waits for the host (README: "This does not stop PIOC      *)
(* rendering"): frames go on even if the host stops for ever.               *)
FramesGoOn == []<>(pc = "screen")

(* A prompt host and the PIOC together implement the abstract screen.       *)
S == INSTANCE Screen WITH mode <- demoMode
ScreenSpec == S!Spec
=============================================================================
