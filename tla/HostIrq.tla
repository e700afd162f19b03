------------------------------- MODULE HostIrq -------------------------------
(***************************************************************************)
(* PIOC_IRQHandler of cvbs_main.cpp: one action per access the handler     *)
(* makes to a PIOC register, together with the host-private work between   *)
(* that access and the next one.  The content of vram is abstracted to the *)
(* address a word was read from.                                           *)
(***************************************************************************)
EXTENDS PiocSfr

CONSTANT FRAMES_PER_MODE    \* frames between two demo modes (256 in the code)

ASSUME HostAssumption == FRAMES_PER_MODE \in Nat \ {0}

VARIABLES
    hpc,        \* the next step of the handler; "off" until NVIC_EnableIRQ
    scanline,   \* the local variable of the handler
    word,       \* next data word to write
    demoMode,
    frame       \* frame_counter % FRAMES_PER_MODE

hostVars == <<hpc, scanline, word, demoMode, frame>>

(* What the handler puts into data word w: a word of the text row scanline/8*)
(* of vram, of the chess pattern (every word the same), or of the line      *)
(* `scanline` of vram.                                                      *)
Fetch(w) ==
    IF demoMode \in TextModes
      THEN [src |-> "text", at |-> scanline \div 8, word |-> w]
    ELSE IF demoMode = chess
      THEN [src |-> "chess", at |-> (scanline \div 4) % 2, word |-> 0]
    ELSE [src |-> "bitmap", at |-> scanline, word |-> w]

(* Mutant: the chess board is announced as text.                            *)
CommandChessAsText == IF demoMode \in TextModes \cup {chess} THEN 0 ELSE 128

Command == IF demoMode \in TextModes THEN 0 ELSE 128

(* main starts the PIOC before it enables the interrupt.                    *)
HostInit ==
    /\ hpc = "off" /\ scanline = 0 /\ word = 0
    /\ demoMode = scrollingText /\ frame = 0

-----------------------------------------------------------------------------
EnableIrq ==
    /\ hpc = "off" /\ hpc' = "idle"
    /\ UNCHANGED <<sfrVars, scanline, word, demoMode, frame>>

(* Mutant: the SW_MR test is inverted.                                      *)
EnterIrqInverted ==
    /\ hpc = "idle" /\ intReq
    /\ hpc' = (IF swMr THEN "ack" ELSE "readRd")
    /\ UNCHANGED <<sfrVars, scanline, word, demoMode, frame>>

(* The interrupt is taken; if (SYS_CFG & RB_DATA_SW_MR).                    *)
EnterIrq ==
    /\ hpc = "idle" /\ intReq
    /\ hpc' = (IF swMr THEN "readRd" ELSE "ack")
    /\ UNCHANGED <<sfrVars, scanline, word, demoMode, frame>>

(* scanline = CTRL_RD, then the frame and mode bookkeeping and the choice   *)
(* of the branch: text fetches one row of vram in eight lines.              *)
ReadScanline ==
    LET vblank == ctrlRd = 255
        mode   == IF vblank /\ (frame + 1) % FRAMES_PER_MODE = 0
                    THEN NextMode(demoMode) ELSE demoMode
    IN
    /\ hpc = "readRd"
    /\ HostReadsCtrlRd
    /\ scanline' = ctrlRd
    /\ demoMode' = mode
    /\ frame' = IF vblank THEN (frame + 1) % FRAMES_PER_MODE ELSE frame
    /\ word' = 0
    /\ hpc' = (IF mode \in TextModes /\ ctrlRd % 8 # 0 THEN "ack" ELSE "words")
    /\ UNCHANGED <<intReq, mwSr, ctrlRd, ctrlWr, data>>

WriteWord ==
    /\ hpc = "words"
    /\ HostWritesData(word, Fetch(word))
    /\ word' = word + 1
    /\ hpc' = (IF word + 1 = NWORDS THEN "cmd" ELSE "words")
    /\ UNCHANGED <<intReq, swMr, mwSr, ctrlRd, ctrlWr, scanline, demoMode, frame>>

WriteCommand ==
    /\ hpc = "cmd" /\ hpc' = "ack"
    /\ HostWritesCtrlWr(Command)
    /\ UNCHANGED <<intReq, swMr, ctrlRd, data, scanline, word, demoMode, frame>>

Acknowledge ==       \* dummy write clear IRQ
    /\ hpc = "ack" /\ hpc' = "idle"
    /\ HostWritesCtrlRd
    /\ UNCHANGED <<swMr, mwSr, ctrlRd, ctrlWr, data, scanline, word, demoMode, frame>>

HostNext ==
    EnableIrq \/ EnterIrq \/ ReadScanline \/ WriteWord \/ WriteCommand \/ Acknowledge

HostTypeOK ==
    /\ hpc \in {"off", "idle", "readRd", "words", "cmd", "ack"}
    /\ scanline \in Byte /\ word \in 0 .. NWORDS
    /\ demoMode \in DemoModes /\ frame \in 0 .. FRAMES_PER_MODE - 1
=============================================================================
