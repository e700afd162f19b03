------------------------------ MODULE PiocVideo ------------------------------
(***************************************************************************)
(* The video program of the PIOC core, cvbs_text_32x24.pioc.asm.           *)
(*                                                                         *)
(* One action per access to a register shared with the host, together with *)
(* the private computation that goes with it; a blank scanline is one      *)
(* step.  Clock-accurate timing is not in this module.                     *)
(***************************************************************************)
EXTENDS PiocSfr

CONSTANTS V_FRONT, V_SYNC, V_BACK, V_ACTIVE

ASSUME VideoAssumption ==
    /\ V_FRONT \in 1 .. 255 /\ V_SYNC \in 1 .. 255 /\ V_BACK \in 1 .. 255
    /\ V_ACTIVE \in 1 .. 255

VARIABLES
    pc,           \* the next step of the program
    lineCounter,  \* LINE_COUNTER (SFR_INDIR_ADDR2): porch count or glyph row
    bitX,         \* STATUS.GP_BIT_X: request an interrupt after this line
    col,          \* next byte column of the line being drawn
    beam,         \* what OUT0 shows
    scan          \* scanlines completed since the frame began: the raster

piocVars == <<pc, lineCounter, bitX, col, beam, scan>>

BLANK_LINES == V_FRONT + V_SYNC + V_BACK

(* GP_BIT_X keeps its value across the reset that starts the program.       *)
PiocInit ==
    /\ pc = "screen" /\ lineCounter = 0 /\ bitX \in BOOLEAN
    /\ col = 0 /\ beam = Dark /\ scan = 0

-----------------------------------------------------------------------------
(* Vertical blanking                                                        *)

(* Mutant: vblank is signalled with the number of lines instead of 0xFF.    *)
SignalVblankAsLine ==
    /\ pc = "screen" /\ pc' = "vblankInt"
    /\ PiocWritesCtrlRd(V_ACTIVE)
    /\ scan' = 0
    /\ UNCHANGED <<intReq, mwSr, ctrlWr, data, lineCounter, bitX, col, beam>>

SignalVblank ==      \* movl 0xFF; mova SFR_CTRL_RD
    /\ pc = "screen" /\ pc' = "vblankInt"
    /\ PiocWritesCtrlRd(255)
    /\ scan' = 0
    /\ UNCHANGED <<intReq, mwSr, ctrlWr, data, lineCounter, bitX, col, beam>>

RequestVblank ==
    /\ pc = "vblankInt" /\ pc' = "front"
    /\ PiocRequestsInt
    /\ lineCounter' = V_FRONT
    /\ UNCHANGED <<swMr, mwSr, ctrlRd, ctrlWr, data, bitX, col, beam, scan>>

(* One turn of a porch loop: a scanline without picture, then decsz.        *)
PorchLine(here, there, load) ==
    LET n == (lineCounter - 1) % 256 IN
    /\ pc = here
    /\ scan' = scan + 1
    /\ \/ n # 0 /\ lineCounter' = n /\ UNCHANGED pc
       \/ n = 0 /\ lineCounter' = load /\ pc' = there
    /\ UNCHANGED <<sfrVars, bitX, col, beam>>

(* Mutant: the back porch is one line short.                                *)
VerticalSyncShort == PorchLine("vsync", "back", V_BACK - 1)

FrontPorch == PorchLine("front", "vsync", V_SYNC)
VerticalSync == PorchLine("vsync", "back", V_BACK)
BackPorch == PorchLine("back", "startRd", 0)

-----------------------------------------------------------------------------
(* Start of the active region                                               *)

(* Mutant: the line number is published after its increment.                *)
StartActiveAtOne ==
    /\ pc = "startRd" /\ pc' = "startWr"
    /\ PiocWritesCtrlRd(1)
    /\ UNCHANGED <<intReq, mwSr, ctrlWr, data, lineCounter, bitX, col, beam, scan>>

StartActive ==       \* clr SFR_CTRL_RD
    /\ pc = "startRd" /\ pc' = "startWr"
    /\ PiocWritesCtrlRd(0)
    /\ UNCHANGED <<intReq, mwSr, ctrlWr, data, lineCounter, bitX, col, beam, scan>>

ClearCommand ==      \* clr SFR_CTRL_WR
    /\ pc = "startWr" /\ pc' = "startInt"
    /\ PiocWritesCtrlWr
    /\ UNCHANGED <<intReq, swMr, ctrlRd, data, lineCounter, bitX, col, beam, scan>>

(* Mutant: the first active line does not interrupt.                        *)
RequestFirstLineSilent ==
    /\ pc = "startInt" /\ pc' = "testMw"
    /\ lineCounter' = 0
    /\ UNCHANGED <<sfrVars, bitX, col, beam, scan>>

RequestFirstLine ==
    /\ pc = "startInt" /\ pc' = "testMw"
    /\ PiocRequestsInt
    /\ lineCounter' = 0
    /\ UNCHANGED <<swMr, mwSr, ctrlRd, ctrlWr, data, bitX, col, beam, scan>>

-----------------------------------------------------------------------------
(* active_scanline                                                          *)

(* Mutants: the command is not looked for; the PIOC waits for one.          *)
TestCommandSkips ==
    /\ pc = "testMw" /\ pc' = "testMode"
    /\ UNCHANGED <<sfrVars, lineCounter, bitX, col, beam, scan>>

TestCommandWaits ==
    /\ pc = "testMw" /\ mwSr /\ pc' = "readCmd"
    /\ UNCHANGED <<sfrVars, lineCounter, bitX, col, beam, scan>>

(* Sync pulse and back porch, then btsc SFR_SYS_CFG, SB_DATA_MW_SR.         *)
TestCommand ==
    /\ pc = "testMw" /\ pc' = (IF mwSr THEN "readCmd" ELSE "testMode")
    /\ UNCHANGED <<sfrVars, lineCounter, bitX, col, beam, scan>>

(* Mutant: a command always starts at the first line of the glyphs.         *)
LatchCommandNoRow ==
    /\ pc = "readCmd" /\ pc' = "testMode"
    /\ PiocReadsCtrlWr
    /\ lineCounter' = 0
    /\ UNCHANGED <<intReq, swMr, ctrlRd, ctrlWr, data, bitX, col, beam, scan>>

LatchCommand ==      \* mov SFR_CTRL_WR, A; mova LINE_COUNTER
    /\ pc = "readCmd" /\ pc' = "testMode"
    /\ PiocReadsCtrlWr
    /\ lineCounter' = ctrlWr
    /\ UNCHANGED <<intReq, swMr, ctrlRd, ctrlWr, data, bitX, col, beam, scan>>

SelectMode ==        \* btss SFR_CTRL_WR, 7
    /\ pc = "testMode" /\ pc' = (IF Bit7(ctrlWr) THEN "bitmap" ELSE "text")
    /\ PiocReadsCtrlWr
    /\ UNCHANGED <<intReq, swMr, ctrlRd, ctrlWr, data, lineCounter, bitX, col, beam, scan>>

(* One byte column.  Text looks the byte up in the font at the row that     *)
(* bits 2..0 of LINE_COUNTER name (text_glyph_loop).                        *)
ShowColumn(row) ==
    /\ col < NCOLS /\ col' = col + 1
    /\ beam' = [kind |-> pc, line |-> scan - BLANK_LINES, col |-> col,
                cell |-> data[col \div WORD_COLS], row |-> row]
    /\ UNCHANGED <<sfrVars, pc, lineCounter, bitX, scan>>

BitmapColumn == pc = "bitmap" /\ ShowColumn(0)
TextColumn == pc = "text" /\ ShowColumn(lineCounter % 8)

EndColumns ==
    /\ col = NCOLS /\ col' = 0
    /\ beam' = Dark
    /\ scan' = scan + 1
    /\ pc' = "lineEnd"

EndBitmap ==
    /\ pc = "bitmap" /\ EndColumns
    /\ bitX' = TRUE
    /\ UNCHANGED <<sfrVars, lineCounter>>

(* Mutant: a finished row of glyphs does not pend.                          *)
EndTextNoPend ==
    /\ pc = "text" /\ EndColumns
    /\ lineCounter' = (lineCounter + 1) % 256
    /\ bitX' = (bitX \/ Bit3(ctrlWr)) /\ PiocReadsCtrlWr
    /\ UNCHANGED <<intReq, swMr, ctrlRd, ctrlWr, data>>

(* Mutant: CTRL_WR is not asked for an interrupt per line.                  *)
EndTextGlyphOnly ==
    LET row == (lineCounter + 1) % 256 IN
    /\ pc = "text" /\ EndColumns
    /\ lineCounter' = row
    /\ bitX' = (bitX \/ Bit3(row))
    /\ UNCHANGED sfrVars

(* inc LINE_COUNTER; bit 3 of it, or else bit 3 of CTRL_WR, pends.  The     *)
(* second test is a read of CTRL_WR, made only when the first one fails.    *)
EndText ==
    LET row == (lineCounter + 1) % 256 IN
    /\ pc = "text" /\ EndColumns
    /\ lineCounter' = row
    /\ \/ Bit3(row) /\ bitX' = TRUE /\ UNCHANGED mwSr
       \/ ~Bit3(row) /\ bitX' = (bitX \/ Bit3(ctrlWr)) /\ PiocReadsCtrlWr
    /\ UNCHANGED <<intReq, swMr, ctrlRd, ctrlWr, data>>

-----------------------------------------------------------------------------
(* Between two lines                                                        *)

LeaveFrame ==        \* jmp screen: GP_BIT_X is left as it is
    /\ pc = "lineEnd" /\ (ctrlRd + 1) % 256 = V_ACTIVE
    /\ pc' = "screen"
    /\ UNCHANGED <<sfrVars, lineCounter, bitX, col, beam, scan>>

NextLine ==
    /\ pc = "lineEnd" /\ (ctrlRd + 1) % 256 # V_ACTIVE
    /\ pc' = "pend"
    /\ PiocWritesCtrlRd((ctrlRd + 1) % 256)
    /\ UNCHANGED <<intReq, mwSr, ctrlWr, data, lineCounter, bitX, col, beam, scan>>

(* Mutant: GP_BIT_X is not cleared.                                         *)
PendInterruptSticky ==
    /\ pc = "pend" /\ pc' = "testMw"
    /\ \/ bitX /\ PiocRequestsInt
       \/ ~bitX /\ UNCHANGED intReq
    /\ UNCHANGED <<swMr, mwSr, ctrlRd, ctrlWr, data, lineCounter, bitX, col, beam, scan>>

PendInterrupt ==
    /\ pc = "pend" /\ pc' = "testMw"
    /\ \/ bitX /\ PiocRequestsInt
       \/ ~bitX /\ UNCHANGED intReq
    /\ bitX' = FALSE
    /\ UNCHANGED <<swMr, mwSr, ctrlRd, ctrlWr, data, lineCounter, col, beam, scan>>

PiocNext ==
    \/ SignalVblank \/ RequestVblank \/ FrontPorch \/ VerticalSync \/ BackPorch
    \/ StartActive \/ ClearCommand \/ RequestFirstLine
    \/ TestCommand \/ LatchCommand \/ SelectMode
    \/ BitmapColumn \/ TextColumn \/ EndBitmap \/ EndText
    \/ LeaveFrame \/ NextLine \/ PendInterrupt

PiocPc == {"screen", "vblankInt", "front", "vsync", "back", "startRd", "startWr",
           "startInt", "testMw", "readCmd", "testMode", "bitmap", "text",
           "lineEnd", "pend"}

PiocTypeOK ==
    /\ pc \in PiocPc /\ lineCounter \in Byte /\ bitX \in BOOLEAN
    /\ col \in 0 .. NCOLS /\ beam \in Beam /\ scan \in Nat

-----------------------------------------------------------------------------
Y == scan - BLANK_LINES          \* the picture line the raster is at

Drawing == pc \in {"bitmap", "text"}

(* Where the raster is at each step of the program.                         *)
RasterInv ==
    /\ pc = "screen"    => scan \in {0, BLANK_LINES + V_ACTIVE} /\ ctrlRd # 255
    /\ pc = "vblankInt" => scan = 0
    /\ pc = "front" => lineCounter \in 1 .. V_FRONT /\ scan = V_FRONT - lineCounter
    /\ pc = "vsync" => lineCounter \in 1 .. V_SYNC
                       /\ scan = V_FRONT + V_SYNC - lineCounter
    /\ pc = "back"  => lineCounter \in 1 .. V_BACK
                       /\ scan = BLANK_LINES - lineCounter
    /\ pc = "startRd" => scan = BLANK_LINES
    /\ pc \in {"startWr", "startInt"} => Y = 0 /\ ctrlRd = 0
    /\ pc \in {"testMw", "readCmd", "testMode", "bitmap", "text", "pend"} =>
           Y \in 0 .. V_ACTIVE - 1 /\ ctrlRd = Y
    /\ pc = "pend" => Y > 0
    /\ pc = "lineEnd" => Y \in 1 .. V_ACTIVE /\ ctrlRd = Y - 1
    /\ ~Drawing => col = 0 /\ beam = Dark
=============================================================================
