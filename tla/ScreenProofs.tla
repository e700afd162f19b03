---------------------------- MODULE ScreenProofs ----------------------------
(***************************************************************************)
(* With a host that meets its deadlines, the two processors implement the  *)
(* abstract screen: frame layout, raster order and picture.                *)
(***************************************************************************)
EXTENDS CvbsProofs

(* The picture the screen promises is the picture of the demo modes.        *)
LEMMA SamePicture ==
    /\ S!Dark = Dark /\ S!scrollingText = scrollingText
    /\ \A m : S!NextMode(m) = NextMode(m)
    /\ \A m, y, c, w : S!Lit(m, y, c, w) = Lit(m, y, c, w)
<1>1. S!Dark = Dark
  BY DEF S!Dark, S!NoCell, Dark, NoCell
<1>2. S!scrollingText = scrollingText /\ S!chess = chess /\ S!TextModes = TextModes
  BY DEF S!scrollingText, scrollingText, S!TextModes, TextModes, S!staticText, staticText,
         S!chess, chess
<1>3. \A m : S!NextMode(m) = NextMode(m)
  BY <1>2 DEF S!NextMode, NextMode, S!end, end
<1>4. \A m, y, c, w : S!Lit(m, y, c, w) = Lit(m, y, c, w)
  BY <1>2 DEF S!Lit, Lit
<1> QED BY <1>1, <1>2, <1>3, <1>4

LEMMA PromptStep == PromptInv /\ [Next]_vars => PromptInv'
<1> SUFFICES ASSUME PromptInv, [Next]_vars, ~MAY_BE_LATE, ~MAIN_PRINTS
             PROVE  PromptInv'
    BY DEF PromptInv
<1>1. CASE PiocStep
  <2>1. Deadline => ~intReq
    BY <1>1 DEF PiocStep
  <2>2. CASE pc = "startRd"
    BY <1>1, <2>1, <2>2 DEF PiocStep, Deadline, PromptInv, mainVars
  <2>3. CASE pc # "startRd"
    <3>1. (pc = "testMw" /\ clean /\ ~intReq) \/ (pc # "testMw" /\ clean) => clean'
      BY <1>1, <2>3, Zenon DEF PiocStep
    <3>2. pc \in {"screen", "vblankInt", "front", "vsync", "back"} =>
             pc' \in {"vblankInt", "front", "vsync", "back", "startRd"}
      BY <1>1 DEF PiocStep, PiocNext, SignalVblank, RequestVblank,
           FrontPorch, VerticalSync, BackPorch, PorchLine, StartActive, ClearCommand,
           RequestFirstLine, TestCommand, LatchCommand, SelectMode, BitmapColumn,
           TextColumn, ShowColumn, EndBitmap, EndText, EndColumns, LeaveFrame, NextLine,
           PendInterrupt
    <3>3. pc' \in {"startWr", "startInt", "testMw", "readCmd", "testMode", "bitmap",
                   "text", "lineEnd", "pend"} =>
             pc \in {"startWr", "startInt", "testMw", "readCmd", "testMode", "bitmap",
                     "text", "lineEnd", "pend"}
      BY <1>1, <2>3, <3>2
         DEF PiocStep, PiocNext, SignalVblank, RequestVblank,
           FrontPorch, VerticalSync, BackPorch, PorchLine, StartActive, ClearCommand,
           RequestFirstLine, TestCommand, LatchCommand, SelectMode, BitmapColumn,
           TextColumn, ShowColumn, EndBitmap, EndText, EndColumns, LeaveFrame, NextLine,
           PendInterrupt
    <3>4. UNCHANGED mpc
      BY <1>1 DEF PiocStep, mainVars
    <3> QED BY <2>1, <3>1, <3>3, <3>4 DEF PromptInv, Deadline
  <2> QED BY <2>2, <2>3
<1>2. CASE HostStep BY <1>2 DEF HostStep, piocVars, PromptInv
<1>3. CASE UNCHANGED vars BY <1>3 DEF vars, piocVars, mainVars, PromptInv
<1>4. CASE MainStep BY <1>4 DEF MainStep, Vsync, TestModes, PrintStatus, PromptInv
<1> QED BY <1>1, <1>2, <1>3, <1>4 DEF Next

(* Each step of the PIOC program is a step of the screen or is not visible. *)
LEMMA ScreenPioc ==
    IInv /\ PromptInv /\ ~MAY_BE_LATE /\ ~MAIN_PRINTS /\ PiocStep /\ CleanFrame'
      => [S!Next]_(S!screenVars)
<1> SUFFICES ASSUME IInv, PromptInv, ~MAY_BE_LATE, ~MAIN_PRINTS, PiocStep, CleanFrame'
             PROVE  S!Next \/ UNCHANGED <<demoMode, scan, col, beam>>
    BY DEF S!screenVars
<1>1. /\ scan \in Nat /\ col \in 0 .. NCOLS /\ UNCHANGED demoMode /\ RasterInv
      /\ NCOLS \in Nat \ {0} /\ BLANK_LINES \in Nat /\ V_ACTIVE \in 1 .. 255
  <2>1. scan \in Nat /\ col \in 0 .. NCOLS /\ RasterInv
    BY DEF IInv, TypeOK, PiocTypeOK
  <2>2. UNCHANGED demoMode
    BY DEF PiocStep, hostVars
  <2>3. BLANK_LINES \in Nat /\ V_ACTIVE \in 1 .. 255
    BY VideoAssumption DEF VideoAssumption, BLANK_LINES
  <2> QED BY <2>1, <2>2, <2>3, ColumnCount
<1>2. CASE SignalVblank
  <2>1. /\ pc = "screen" /\ scan' = 0 /\ UNCHANGED <<col, beam>>
        /\ scan \in {0, BLANK_LINES + V_ACTIVE}
    BY <1>1, <1>2 DEF SignalVblank, RasterInv
  <2> QED BY <1>1, <2>1 DEF S!Next, S!NewFrame
<1>3. CASE FrontPorch \/ VerticalSync \/ BackPorch
  <2>1. pc \in {"front", "vsync", "back"} /\ scan' = scan + 1 /\ UNCHANGED <<col, beam>>
    BY <1>3 DEF FrontPorch, VerticalSync, BackPorch, PorchLine
  <2>2. scan < BLANK_LINES
    <3>1. V_FRONT \in 1 .. 255 /\ V_SYNC \in 1 .. 255 /\ V_BACK \in 1 .. 255
      BY VideoAssumption DEF VideoAssumption
    <3>2. \/ lineCounter \in 1 .. V_FRONT /\ scan = V_FRONT - lineCounter
          \/ lineCounter \in 1 .. V_SYNC /\ scan = V_FRONT + V_SYNC - lineCounter
          \/ lineCounter \in 1 .. V_BACK /\ scan = BLANK_LINES - lineCounter
      BY <1>1, <2>1 DEF RasterInv
    <3> QED BY ONLY <3>1, <3>2 DEF BLANK_LINES
  <2> QED BY <1>1, <2>1, <2>2 DEF S!Next, S!BlankLine
<1>4. CASE BitmapColumn \/ TextColumn
  <2>1. /\ Drawing /\ col < NCOLS /\ col' = col + 1 /\ UNCHANGED <<scan, clean>>
        /\ beam'.kind = pc /\ beam'.line = scan - BLANK_LINES /\ beam'.col = col
    BY <1>4 DEF BitmapColumn, TextColumn, ShowColumn, PiocStep, Drawing
  <2>2. beam' # Dark
    BY <2>1 DEF Drawing, Dark
  <2>3. beam' = Wanted(beam)'
    BY <2>1, <2>2 DEF CleanFrame, PromptInv, Drawing
  <2>4. beam' = Lit(demoMode, scan - BLANK_LINES, col, col \div WORD_COLS)
    BY <1>1, <2>1, <2>3 DEF Wanted
  <2>5. scan \in BLANK_LINES .. BLANK_LINES + V_ACTIVE - 1
    BY <1>1, <2>1 DEF RasterInv, Drawing, Y
  <2> QED BY <1>1, <2>1, <2>4, <2>5, SamePicture DEF S!Next, S!ShowColumn
<1>5. CASE EndBitmap \/ EndText
  <2>1. col = NCOLS /\ col' = 0 /\ scan' = scan + 1 /\ beam' = Dark
    BY <1>5 DEF EndBitmap, EndText, EndColumns
  <2> QED BY <1>1, <2>1, SamePicture DEF S!Next, S!EndLine
<1>6. CASE ~(\/ SignalVblank \/ FrontPorch \/ VerticalSync \/ BackPorch \/ BitmapColumn
             \/ TextColumn \/ EndBitmap \/ EndText)
  BY <1>1, <1>6
     DEF PiocStep, PiocNext, RequestVblank, StartActive, ClearCommand, RequestFirstLine,
         TestCommand, LatchCommand, SelectMode, LeaveFrame, NextLine, PendInterrupt
<1> QED BY <1>2, <1>3, <1>4, <1>5, <1>6

(* Of the host only the change of mode is visible, and it falls in the      *)
(* vertical blanking.                                                       *)
LEMMA ScreenHost == IInv /\ HostStep => [S!Next]_(S!screenVars)
<1> SUFFICES ASSUME IInv, HostStep
             PROVE  S!Next \/ UNCHANGED <<demoMode, scan, col, beam>>
    BY DEF S!screenVars
<1>1. UNCHANGED <<scan, col, beam>>
  BY DEF HostStep, piocVars
<1>2. UNCHANGED demoMode \/ (demoMode' = NextMode(demoMode) /\ ctrlRd = 255)
  BY DEF HostStep, HostNext, EnableIrq, EnterIrq, ReadScanline, WriteWord, WriteCommand,
         Acknowledge
<1>3. ASSUME ctrlRd = 255 PROVE scan <= BLANK_LINES /\ beam = Dark
  <2>1. pc \in PiocPc /\ RasterInv /\ V_ACTIVE \in 1 .. 255 /\ scan \in Nat
    BY VideoAssumption DEF IInv, TypeOK, PiocTypeOK, VideoAssumption
  <2>2. pc \in {"vblankInt", "front", "vsync", "back", "startRd"}
    BY <1>3, <2>1, VideoAssumption DEF PiocPc, RasterInv, Y, VideoAssumption
  <2>3. beam = Dark
    BY <2>1, <2>2 DEF RasterInv, Drawing
  <2>4. V_FRONT \in 1 .. 255 /\ V_SYNC \in 1 .. 255 /\ V_BACK \in 1 .. 255
    BY VideoAssumption DEF VideoAssumption
  <2>5. scan <= BLANK_LINES
    BY <2>1, <2>2, <2>4 DEF RasterInv, BLANK_LINES
  <2> QED BY <2>3, <2>5
<1> QED BY <1>1, <1>2, <1>3, SamePicture DEF S!Next, S!ChangeMode

(* Every scanline, column and picture byte comes out in the order and with  *)
(* the content the abstract screen prescribes, for every frame layout and   *)
(* number of data words, if no deadline is missed and main reads no status. *)
THEOREM ScreenImplemented ==
    ASSUME ~MAY_BE_LATE, ~MAIN_PRINTS PROVE Spec => ScreenSpec
<1>1. Init => IInv /\ PromptInv
  BY TypeInit, RasterInit, ServiceInit, AckFollows
     DEF IInv, TypeInv, Init, PiocInit, PromptInv
<1>2. Init => S!Init
  BY SamePicture DEF Init, PiocInit, HostInit, S!Init
<1>3. PromptInv /\ [Next]_vars => PromptInv'
  BY PromptStep
<1>4. IInv /\ IInv' /\ PromptInv /\ [Next]_vars => [S!Next]_(S!screenVars)
  <2> SUFFICES ASSUME IInv, IInv', PromptInv, [Next]_vars
               PROVE  [S!Next]_(S!screenVars)
      OBVIOUS
  <2>1. CASE PiocStep BY <2>1, ScreenPioc DEF IInv
  <2>2. CASE HostStep BY <2>2, ScreenHost
  <2>3. CASE MainStep \/ UNCHANGED vars
    BY <2>3 DEF MainStep, Vsync, TestModes, PrintStatus, vars, piocVars, hostVars, S!screenVars
  <2> QED BY <2>1, <2>2, <2>3 DEF Next
<1> QED BY <1>1, <1>2, <1>3, <1>4, InvStep, PTL DEF Spec, ScreenSpec, S!Spec

-----------------------------------------------------------------------------
(* What the host has seen of the vertical blanking: the request for it, or  *)
(* its number.                                                              *)
BlankingRead ==
    /\ pc \in {"screen", "vblankInt"} => ~intReq
    /\ pc = "vblankInt" => swMr /\ ctrlRd = 255
    /\ pc \in {"front", "vsync", "back", "startRd"} =>
         /\ ctrlRd = 255
         /\ IF intReq /\ hpc \in {"off", "idle", "readRd"} THEN swMr ELSE scanline = 255
    /\ pc \in {"startWr", "startInt"} => ~intReq /\ scanline = 255

LEMMA BlankingStep ==
    ASSUME ~MAY_BE_LATE, ~MAIN_PRINTS, TypeInv, ServiceInv, PromptInv, BlankingRead, [Next]_vars
    PROVE  BlankingRead'
<1>1. pc \in PiocPc /\ hpc \in {"off", "idle", "readRd", "words", "cmd", "ack"}
  BY DEF TypeInv, TypeOK, PiocTypeOK, HostTypeOK
<1>2. ~intReq => hpc \in {"off", "idle"}
  BY Waiting
<1>3. CASE PiocStep
  <2>1. UNCHANGED <<hpc, scanline>>
    BY <1>3 DEF PiocStep, hostVars
  <2>2. Deadline => ~intReq
    BY <1>3 DEF PiocStep
  <2>3. CASE LeaveFrame
    <3>1. pc = "lineEnd" /\ pc' = "screen" /\ UNCHANGED intReq
      BY <2>3 DEF LeaveFrame, sfrVars
    <3>2. ~intReq
      BY <3>1 DEF PromptInv, ServiceInv, Drawn
    <3> QED BY <3>1, <3>2 DEF BlankingRead
  <2>4. CASE SignalVblank
    BY <2>4 DEF SignalVblank, PiocWritesCtrlRd, BlankingRead
  <2>5. CASE RequestVblank
    BY <2>1, <2>5, <1>2 DEF RequestVblank, PiocRequestsInt, BlankingRead
  <2>6. CASE FrontPorch \/ VerticalSync \/ BackPorch
    BY <2>1, <2>6 DEF FrontPorch, VerticalSync, BackPorch, PorchLine, sfrVars, BlankingRead
  <2>7. CASE StartActive
    BY <2>1, <2>2, <2>7, <1>2 DEF StartActive, PiocWritesCtrlRd, BlankingRead, Deadline
  <2>8. CASE ClearCommand
    BY <2>1, <2>8 DEF ClearCommand, BlankingRead
  <2>9. CASE ~(LeaveFrame \/ SignalVblank \/ RequestVblank \/ FrontPorch \/ VerticalSync
               \/ BackPorch \/ StartActive \/ ClearCommand)
    <3>1. pc' \in {"testMw", "readCmd", "testMode", "bitmap", "text", "lineEnd", "pend"}
      BY <1>3, <2>9 DEF PiocStep, PiocNext, RequestFirstLine, TestCommand, LatchCommand,
           SelectMode, BitmapColumn, TextColumn, ShowColumn, EndBitmap, EndText, EndColumns,
           NextLine, PendInterrupt
    <3> QED BY <3>1 DEF BlankingRead
  <2> QED BY <2>3, <2>4, <2>5, <2>6, <2>7, <2>8, <2>9
<1>4. CASE HostStep
  <2>1. UNCHANGED <<pc, ctrlRd>>
    BY <1>4 DEF HostStep, piocVars, HostNext, EnableIrq, EnterIrq, ReadScanline, WriteWord,
         WriteCommand, Acknowledge, sfrVars
  <2>2. CASE EnableIrq
    BY <2>1, <2>2 DEF EnableIrq, sfrVars, BlankingRead
  <2>3. CASE EnterIrq
    BY <2>1, <2>3 DEF EnterIrq, sfrVars, BlankingRead
  <2>4. CASE ReadScanline
    BY <2>1, <2>4, <1>2 DEF ReadScanline, BlankingRead
  <2>5. CASE WriteWord \/ WriteCommand
    BY <2>1, <2>5, <1>2 DEF WriteWord, WriteCommand, BlankingRead
  <2>6. CASE Acknowledge
    BY <2>1, <2>6, <1>2 DEF Acknowledge, HostWritesCtrlRd, BlankingRead
  <2> QED BY <1>4, <2>2, <2>3, <2>4, <2>5, <2>6 DEF HostStep, HostNext
<1>5. CASE MainStep
  BY <1>5 DEF MainStep, Vsync, TestModes, PrintStatus, PromptInv
<1>6. CASE UNCHANGED vars
  BY <1>6 DEF vars, sfrVars, piocVars, hostVars, BlankingRead
<1> QED BY <1>3, <1>4, <1>5, <1>6 DEF Next

(* A host that meets its deadlines counts every frame: it has read number   *)
(* 255 before each picture (asm:62-99, cvbs_main.cpp:181-184).              *)
THEOREM EveryFrameCounted ==
    ASSUME ~MAY_BE_LATE, ~MAIN_PRINTS PROVE Spec => []VblankSeen
<1>1. Init => PromptInv /\ BlankingRead
  BY DEF Init, SfrInit, PiocInit, PromptInv, BlankingRead
<1>2. IInv /\ PromptInv /\ BlankingRead /\ [Next]_vars => PromptInv' /\ BlankingRead'
  BY PromptStep, BlankingStep DEF IInv, TypeInv
<1>3. BlankingRead => VblankSeen
  BY DEF BlankingRead, VblankSeen
<1> QED BY <1>1, <1>2, <1>3, Invariant, PTL DEF Spec

-----------------------------------------------------------------------------
(* Between the latch of a command and the end of its line there is none     *)
(* that has not been taken.                                                 *)
Taken == pc \in {"testMode", "text"} => ~mwSr

LEMMA TakenStep ==
    ASSUME ~MAY_BE_LATE, ~MAIN_PRINTS, TypeInv, ServiceInv, PromptInv, Taken, [Next]_vars
    PROVE  Taken' /\ (mwSr /\ ~mwSr' => pc \in {"readCmd", "startWr"})
<1>1. pc \in {"testMode", "text"} => hpc \in {"off", "idle"}
  BY Waiting DEF PromptInv, ServiceInv, Drawing
<1>2. CASE PiocStep
  <2>1. CASE TestCommand
    BY <2>1 DEF TestCommand, sfrVars, Taken
  <2>2. CASE LatchCommand
    BY <2>2 DEF LatchCommand, PiocReadsCtrlWr, Taken
  <2>3. CASE SelectMode \/ TextColumn
    BY <2>3 DEF SelectMode, TextColumn, ShowColumn, sfrVars, PiocReadsCtrlWr, Taken
  <2>4. CASE ClearCommand
    BY <2>4 DEF ClearCommand, Taken
  <2>5. CASE EndText
    BY <2>5 DEF EndText, EndColumns, Taken
  <2>6. CASE ~(TestCommand \/ LatchCommand \/ SelectMode \/ TextColumn \/ ClearCommand \/ EndText)
    <3>1. pc' \notin {"testMode", "text"} /\ UNCHANGED mwSr
      BY <1>2, <2>6 DEF PiocStep, PiocNext, SignalVblank, RequestVblank, FrontPorch,
           VerticalSync, BackPorch, PorchLine, StartActive, RequestFirstLine, BitmapColumn,
           ShowColumn, EndBitmap, EndColumns, LeaveFrame, NextLine, PendInterrupt, sfrVars
    <3> QED BY <3>1 DEF Taken
  <2> QED BY <2>1, <2>2, <2>3, <2>4, <2>5, <2>6
<1>3. CASE HostStep
  <2>1. UNCHANGED pc
    BY <1>3 DEF HostStep, piocVars
  <2>2. CASE WriteCommand
    BY <1>1, <2>1, <2>2 DEF WriteCommand, HostWritesCtrlWr, Taken
  <2>3. CASE ~WriteCommand
    <3>1. UNCHANGED mwSr
      BY <1>3, <2>3 DEF HostStep, HostNext, EnableIrq, EnterIrq, ReadScanline, WriteWord,
           Acknowledge, sfrVars
    <3> QED BY <2>1, <3>1 DEF Taken
  <2> QED BY <2>2, <2>3
<1>4. CASE MainStep
  BY <1>4 DEF MainStep, Vsync, TestModes, PrintStatus, PromptInv
<1>5. CASE UNCHANGED vars
  BY <1>5 DEF vars, sfrVars, piocVars, Taken
<1> QED BY <1>2, <1>3, <1>4, <1>5 DEF Next

(* With a host that meets its deadlines no command is acknowledged without  *)
(* its glyph row being taken (asm:166-171, 327).                            *)
THEOREM NoCommandLost ==
    ASSUME ~MAY_BE_LATE, ~MAIN_PRINTS PROVE Spec => CommandTaken
<1>1. Init => PromptInv /\ Taken
  BY DEF Init, PiocInit, PromptInv, Taken
<1>2. IInv /\ PromptInv /\ Taken /\ [Next]_vars =>
        /\ PromptInv' /\ Taken'
        /\ [mwSr /\ ~mwSr' => pc \in {"readCmd", "startWr"}]_vars
  BY PromptStep, TakenStep DEF IInv, TypeInv
<1> QED BY <1>1, <1>2, Invariant, PTL DEF Spec, CommandTaken
=============================================================================
