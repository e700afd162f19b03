------------------------------ MODULE CvbsProofs ------------------------------
(***************************************************************************)
(* Proofs about Cvbs for every frame layout, number of data words, number  *)
(* of frames per mode and every behaviour of the host.                     *)
(***************************************************************************)
EXTENDS CvbsInv, PiocProofs

USE SfrAssumption
    DEF SfrAssumption, Byte, Words, DemoModes, TextModes, end, scrollingText,
        staticText, chess, BLANK_LINES

-----------------------------------------------------------------------------
(* Every variable keeps its type and a handler runs only on a pending       *)
(* request: this needs no fact about the order of the two processors.       *)
TypeInv == TypeOK /\ HandlerInv

LEMMA TypeInit == Init => TypeInv
<1> SUFFICES ASSUME Init PROVE TypeInv
    OBVIOUS
<1>1. mpc = "vsync" /\ counted \in BOOLEAN /\ clean \in BOOLEAN
  BY Zenon DEF Init
<1>2. SfrTypeOK /\ PiocTypeOK
  BY PiocStarts DEF Init, PiocInv
<1>3. HostTypeOK
  BY HostAssumption DEF Init, HostInit, HostTypeOK, HostAssumption
<1>4. HandlerInv
  BY DEF Init, HostInit, HandlerInv, InHandler
<1> QED BY <1>1, <1>2, <1>3, <1>4 DEF TypeInv, TypeOK

LEMMA TypePioc == TypeInv /\ PiocStep => TypeInv'
<1> SUFFICES ASSUME TypeInv, PiocStep PROVE TypeInv'
    OBVIOUS
<1>1. PiocNext /\ UNCHANGED <<hostVars, mainVars>> /\ clean' \in BOOLEAN
  BY DEF PiocStep, TypeInv, TypeOK
<1>2. SfrTypeOK' /\ PiocTypeOK'
  BY <1>1, PiocTyped DEF TypeInv, TypeOK, PiocInv
<1> QED BY <1>1, <1>2, RequestStands DEF TypeInv, TypeOK, HandlerInv, InHandler, HostTypeOK, hostVars,
                                        mainVars

LEMMA TypeHost == TypeInv /\ HostStep => TypeInv'
<1> SUFFICES ASSUME TypeInv, HostStep PROVE TypeInv'
    OBVIOUS
<1> USE DEF TypeInv, TypeOK, HandlerInv, InHandler, SfrTypeOK, PiocTypeOK,
            HostTypeOK, PiocPc, sfrVars, piocVars
<1>0. HostNext /\ UNCHANGED <<piocVars, mpc, clean>> /\ counted' \in BOOLEAN
  BY Zenon DEF HostStep
<1> USE <1>0
<1>1. CASE EnableIrq BY <1>1 DEF EnableIrq
<1>2. CASE EnterIrq BY <1>2 DEF EnterIrq
<1>3. CASE ReadScanline
  <2>0. frame + 1 \in Int /\ FRAMES_PER_MODE \in Nat \ {0}
    BY HostAssumption DEF HostAssumption
  <2>1. (frame + 1) % FRAMES_PER_MODE \in 0 .. FRAMES_PER_MODE - 1
    BY ONLY <2>0, Remainder
  <2>2. NextMode(demoMode) \in DemoModes
    BY DEF NextMode
  <2>3. frame' \in 0 .. FRAMES_PER_MODE - 1 /\ demoMode' \in DemoModes
    BY <1>3, <2>1, <2>2 DEF ReadScanline
  <2>4. /\ hpc = "readRd" /\ hpc' \in {"ack", "words"} /\ word' = 0
        /\ scanline' \in Byte /\ swMr' = FALSE
        /\ UNCHANGED <<intReq, mwSr, ctrlRd, ctrlWr, data, piocVars, mpc, clean>>
    BY <1>3 DEF ReadScanline, HostReadsCtrlRd
  <2>5. hpc' = "words" => word' < NWORDS
    BY <2>4
  <2>6. word' \in 0 .. NWORDS
    BY <2>4
  <2>60. swMr' \in BOOLEAN
    BY ONLY <2>4, Zenon
  <2>7. SfrTypeOK' /\ PiocTypeOK'
    BY <2>4, <2>60
  <2>8. HostTypeOK' /\ HandlerInv' /\ mpc' = mpc /\ clean' \in BOOLEAN
    BY <2>3, <2>4, <2>5, <2>6
  <2> QED BY <2>7, <2>8
<1>4. CASE WriteWord
  <2>1. Fetch(word) \in Cell
    BY <1>4 DEF Fetch, Cell, WriteWord
  <2>2. data' \in [Words -> Cell]
    BY <1>4, <2>1 DEF WriteWord, HostWritesData
  <2>3. /\ hpc = "words" /\ hpc' \in {"cmd", "words"} /\ word' \in 0 .. NWORDS
        /\ hpc' = "words" => word' < NWORDS
    BY <1>4 DEF WriteWord
  <2>4. UNCHANGED <<intReq, swMr, mwSr, ctrlRd, ctrlWr, scanline, demoMode, frame,
                    piocVars, mpc, clean>>
    BY <1>4 DEF WriteWord
  <2> QED BY <2>2, <2>3, <2>4
<1>5. CASE WriteCommand BY <1>5 DEF WriteCommand, HostWritesCtrlWr, Command
<1>6. CASE Acknowledge
  <2>1. /\ hpc' = "idle" /\ intReq' = FALSE
        /\ UNCHANGED <<swMr, mwSr, ctrlRd, ctrlWr, data, scanline, word, demoMode, frame,
                       piocVars, mpc, clean>>
    BY <1>6 DEF Acknowledge, HostWritesCtrlRd
  <2>2. SfrTypeOK' /\ PiocTypeOK'
    <3>1. UNCHANGED <<swMr, mwSr, ctrlRd, ctrlWr, data>> /\ intReq' = FALSE
      BY <2>1
    <3>2. SfrTypeOK'
      BY <3>1, Zenon
    <3> QED BY <2>1, <3>2
  <2>3. HostTypeOK' /\ HandlerInv'
    BY <2>1
  <2>4. mpc' \in {"vsync", "test", "print"} /\ clean' \in BOOLEAN
    BY <2>1, Zenon
  <2> QED BY <1>0, <2>2, <2>3, <2>4
<1> QED BY <1>1, <1>2, <1>3, <1>4, <1>5, <1>6 DEF HostNext

LEMMA TypeMain == TypeInv /\ MainStep => TypeInv'
<1> SUFFICES ASSUME TypeInv, MainStep PROVE TypeInv'
    OBVIOUS
<1>1. /\ UNCHANGED <<intReq, mwSr, ctrlRd, ctrlWr, data, piocVars, hostVars>>
      /\ swMr' \in {swMr, FALSE} /\ mpc' \in {"vsync", "test", "print"}
      /\ counted' \in {counted, FALSE}
      /\ clean' \in {clean, FALSE}
  <2>1. CASE Vsync \/ TestModes BY <2>1 DEF Vsync, TestModes, sfrVars
  <2>2. CASE PrintStatus
    <3>1. clean' = clean \/ clean' = FALSE
      BY <2>2, Zenon DEF PrintStatus, TypeInv, TypeOK
    <3> QED BY <2>2, <3>1 DEF PrintStatus, HostReadsCtrlRd
  <2> QED BY <2>1, <2>2 DEF MainStep
<1>2. /\ intReq' \in BOOLEAN /\ swMr' \in BOOLEAN /\ mwSr' \in BOOLEAN
      /\ counted' \in BOOLEAN /\ clean' \in BOOLEAN
  BY <1>1, Zenon DEF TypeInv, TypeOK, SfrTypeOK
<1> QED BY <1>1, <1>2 DEF TypeInv, TypeOK, HandlerInv, InHandler, SfrTypeOK, PiocTypeOK,
                          HostTypeOK, piocVars, hostVars

LEMMA TypeStep == TypeInv /\ [Next]_vars => TypeInv'
<1>1. TypeInv /\ UNCHANGED vars => TypeInv'
  BY DEF TypeInv, TypeOK, HandlerInv, InHandler, SfrTypeOK, PiocTypeOK, HostTypeOK,
         vars, sfrVars, piocVars, hostVars, mainVars
<1> QED BY <1>1, TypePioc, TypeHost, TypeMain DEF Next

(* Type correctness: in particular CTRL_RD, CTRL_WR and LINE_COUNTER stay   *)
(* bytes and the handler indexes no data register that does not exist.      *)
THEOREM TypeCorrect == Spec => []TypeOK
<1>1. TypeInv => TypeOK
  BY DEF TypeInv
<1> QED BY <1>1, TypeInit, TypeStep, PTL DEF Spec

-----------------------------------------------------------------------------
(* The raster: the program counter, the line counter and CTRL_RD agree on   *)
(* the scanline being drawn.                                                *)

LEMMA RasterInit == Init => RasterInv
BY PiocStarts DEF Init

LEMMA RasterPioc == TypeInv /\ RasterInv /\ PiocStep => RasterInv'
BY PiocRaster DEF TypeInv, TypeOK, PiocInv, PiocStep

LEMMA RasterHost == RasterInv /\ HostStep => RasterInv'
<1>1. HostStep => UNCHANGED <<piocVars, ctrlRd>>
  BY DEF HostStep, HostNext, EnableIrq, EnterIrq, ReadScanline, WriteWord,
         WriteCommand, Acknowledge, sfrVars
<1>2. RasterInv /\ UNCHANGED <<piocVars, ctrlRd>> => RasterInv'
  BY DEF RasterInv, Drawing, Y, piocVars
<1> QED BY <1>1, <1>2

LEMMA RasterStep == TypeInv /\ RasterInv /\ [Next]_vars => RasterInv'
<1>1. MainStep \/ UNCHANGED vars => UNCHANGED <<piocVars, ctrlRd>>
  BY DEF MainStep, Vsync, TestModes, PrintStatus, vars, sfrVars
<1>2. RasterInv /\ UNCHANGED <<piocVars, ctrlRd>> => RasterInv'
  BY DEF RasterInv, Drawing, Y, piocVars
<1> QED BY <1>1, <1>2, RasterPioc, RasterHost DEF Next

(* The host is told the raster line that is about to be drawn, and a frame  *)
(* has BLANK_LINES + V_ACTIVE scanlines, whatever the host does.            *)
THEOREM LineNumber == Spec => []LineNumberTrue
<1>1. RasterInv => LineNumberTrue
  <2> SUFFICES ASSUME RasterInv PROVE LineNumberTrue
      OBVIOUS
  <2> QED BY DEF RasterInv, LineNumberTrue, Y
<1> QED BY <1>1, TypeInit, TypeStep, RasterInit, RasterStep, PTL DEF Spec

-----------------------------------------------------------------------------
(* Facts about the picture.                                                 *)

LEMMA LitColumn ==
    ASSUME NEW m \in DemoModes, NEW y \in Nat, NEW c \in Nat, NEW w \in Nat
    PROVE  Lit(m, y, c, w) =
             [kind |-> IF m \in TextModes THEN "text" ELSE "bitmap",
              line |-> y, col |-> c,
              row |-> IF m \in TextModes THEN y % 8 ELSE 0,
              cell |-> Lit(m, y, 0, w).cell]
<1>1. CASE m \in TextModes BY <1>1 DEF Lit
<1>2. CASE m = chess BY <1>2 DEF Lit
<1>3. CASE m \notin TextModes /\ m # chess BY <1>3 DEF Lit
<1> QED BY <1>1, <1>2, <1>3

(* The eight lines of a row of characters need the same data words.         *)
LEMMA SameRow ==
    ASSUME NEW m \in TextModes, NEW y \in Nat, NEW w \in Nat, y % 8 # 7
    PROVE  Lit(m, y + 1, 0, w).cell = Lit(m, y, 0, w).cell
<1>1. (y + 1) \div 8 = y \div 8
  OBVIOUS
<1> QED BY <1>1 DEF Lit

LEMMA RowStep ==
    ASSUME NEW y \in Nat
    PROVE  /\ y % 8 \in 0 .. 7
           /\ y % 8 = 7 => (y + 1) % 8 = 0
           /\ y % 8 # 7 => (y + 1) % 8 = (y % 8) + 1
OBVIOUS

(* The handler fetches what the picture has on the line it was told.        *)
LEMMA FetchIsLit ==
    ASSUME demoMode \in DemoModes, NEW w \in Nat
    PROVE  Fetch(w) = Lit(demoMode, scanline, 0, w).cell
<1>1. CASE demoMode \in TextModes BY <1>1 DEF Lit, Fetch
<1>2. CASE demoMode = chess BY <1>2 DEF Lit, Fetch
<1>3. CASE demoMode \notin TextModes /\ demoMode # chess BY <1>3 DEF Lit, Fetch
<1> QED BY <1>1, <1>2, <1>3

LEMMA CommandBits == ~Bit7(0) /\ Bit7(128)
BY DEF Bit7

LEMMA RowBit == \A n \in 0 .. 7 : (n + 1) % 256 = n + 1 /\ (n = 7 => Bit3(n + 1))
BY DEF Bit3

-----------------------------------------------------------------------------
(* The service of a line: IInv is inductive.                                *)

LEMMA ServiceInit == Init => ServiceInv /\ CleanFrame
BY DEF Init, ServiceInv, CleanFrame

(* Outside the handler the host is waiting.                                 *)
LEMMA Waiting == TypeInv /\ ~intReq => hpc \in {"off", "idle"}
BY DEF TypeInv, TypeOK, HostTypeOK, HandlerInv, InHandler

(* The type of the raster position in the active region.                    *)
LEMMA Raster ==
    TypeInv /\ RasterInv =>
      /\ scan \in Nat /\ BLANK_LINES \in Nat /\ Y \in Int
      /\ pc \in {"testMw", "readCmd", "testMode", "bitmap", "text", "pend"} =>
             Y \in Nat /\ ctrlRd = Y /\ Y <= 254
      /\ pc \in {"lineEnd", "pend"} => Y - 1 \in Nat
<1> SUFFICES ASSUME TypeInv, RasterInv PROVE
      /\ scan \in Nat /\ BLANK_LINES \in Nat /\ Y \in Int
      /\ pc \in {"testMw", "readCmd", "testMode", "bitmap", "text", "pend"} =>
             Y \in Nat /\ ctrlRd = Y /\ Y <= 254
      /\ pc \in {"lineEnd", "pend"} => Y - 1 \in Nat
    OBVIOUS
<1>1. scan \in Nat /\ V_ACTIVE \in 1 .. 255 /\ BLANK_LINES \in Nat /\ Y \in Int
  BY VideoAssumption DEF TypeInv, TypeOK, PiocTypeOK, VideoAssumption, Y
<1> QED BY <1>1 DEF RasterInv

LEMMA CommandStays == UNCHANGED <<ctrlWr, demoMode>> => (CommandSet' <=> CommandSet)
BY DEF CommandSet, Text

LEMMA ServicePioc == TypeInv /\ RasterInv /\ ServiceInv /\ PiocStep => ServiceInv'
<1> SUFFICES ASSUME TypeInv, RasterInv, ServiceInv, PiocStep, clean' PROVE ServiceInv'
    BY DEF ServiceInv
<1>1. UNCHANGED hostVars
  BY DEF PiocStep
<1>2. UNCHANGED <<hpc, scanline, word, demoMode>> /\ (Text' <=> Text)
  BY <1>1 DEF hostVars, Text
<1>3. CASE pc' \in {"front", "vsync", "back", "startRd"} /\ pc # "vblankInt"
  <2>1. UNCHANGED swMr /\ clean /\ pc \in {"front", "vsync", "back"}
    BY <1>3 DEF PiocStep, PiocNext, SignalVblank, RequestVblank, FrontPorch, VerticalSync,
         BackPorch, PorchLine, StartActive, ClearCommand, RequestFirstLine, TestCommand,
         LatchCommand, SelectMode, BitmapColumn, TextColumn, ShowColumn, EndBitmap,
         EndText, EndColumns, LeaveFrame, NextLine, PendInterrupt, sfrVars
  <2> QED BY <1>2, <1>3, <2>1 DEF ServiceInv, Drawing
<1>4. CASE SignalVblank
  <2>1. pc = "screen" /\ pc' = "vblankInt" /\ clean /\ UNCHANGED intReq
    BY <1>4 DEF SignalVblank, PiocStep
  <2> QED BY <2>1 DEF ServiceInv, Drawing
<1>5. CASE RequestVblank
  <2>1. pc = "vblankInt" /\ pc' = "front" /\ clean
    BY <1>5 DEF RequestVblank, PiocStep
  <2>2. hpc' \in {"off", "idle"}
    BY <1>2, <2>1, Waiting DEF ServiceInv
  <2> QED BY <2>1, <2>2 DEF ServiceInv, Drawing
<1>6. CASE FrontPorch BY <1>3, <1>6 DEF FrontPorch, PorchLine
<1>7. CASE VerticalSync BY <1>3, <1>7 DEF VerticalSync, PorchLine
<1>8. CASE BackPorch BY <1>3, <1>8 DEF BackPorch, PorchLine
<1>9. CASE LeaveFrame
  <2>1. pc = "lineEnd" /\ pc' = "screen" /\ clean /\ UNCHANGED intReq
    BY <1>9 DEF LeaveFrame, PiocStep, sfrVars
  <2> QED BY <2>1 DEF ServiceInv, Drawing, Drawn
<1>10. CASE StartActive
  <2>1. pc = "startRd" /\ pc' = "startWr" /\ swMr' /\ intReq' = intReq
    BY <1>10 DEF StartActive, PiocWritesCtrlRd
  <2>2. ~intReq
    BY <2>1 DEF PiocStep
  <2> QED BY <2>1, <2>2 DEF ServiceInv, Drawing
<1>11. CASE ClearCommand
  <2>1. /\ pc = "startWr" /\ pc' = "startInt" /\ clean
        /\ UNCHANGED <<swMr, intReq>>
    BY <1>11 DEF ClearCommand, PiocStep
  <2> QED BY <2>1 DEF ServiceInv, Drawing
<1>12. CASE RequestFirstLine
  <2>1. /\ pc = "startInt" /\ pc' = "testMw" /\ clean
        /\ intReq' /\ UNCHANGED <<swMr, scan>>
    BY <1>12 DEF RequestFirstLine, PiocStep, PiocRequestsInt
  <2>2. swMr /\ ~intReq /\ Y = 0
    BY <2>1 DEF ServiceInv, RasterInv
  <2>3. Y' % 8 = 0
    BY <2>1, <2>2 DEF Y
  <2>4. Answerable'
    BY <2>1, <2>2, <2>3 DEF Answerable
  <2>5. hpc' \in {"off", "idle"}
    BY <1>2, <2>2, Waiting
  <2>6. Serving'
    BY <2>1, <2>4, <2>5 DEF Serving
  <2> QED BY <2>1, <2>6 DEF ServiceInv, Drawing
<1>13. CASE TestCommand
  <2>1. /\ pc = "testMw" /\ UNCHANGED <<sfrVars, lineCounter, scan>>
        /\ pc' = IF mwSr THEN "readCmd" ELSE "testMode"
    BY <1>13 DEF TestCommand
  <2>2. clean /\ ~intReq
    BY <2>1 DEF PiocStep
  <2>3. Ready
    BY <2>1, <2>2, Waiting DEF ServiceInv, Serving
  <2>4. Y' = Y /\ ~intReq' /\ lineCounter' = lineCounter
    BY <2>1, <2>2 DEF Y, sfrVars
  <2>5. Filled(Y, NWORDS)' /\ CommandSet'
    BY <1>2, <2>1, <2>3, <2>4, CommandStays DEF Ready, Filled, sfrVars
  <2>6. CASE mwSr
    <3>1. Text' => Y' % 8 = 0
      BY <1>2, <2>3, <2>4, <2>6 DEF Ready, RowSet
    <3> QED BY <2>1, <2>4, <2>5, <2>6, <3>1 DEF ServiceInv, Drawing
  <2>7. CASE ~mwSr
    <3>1. Text' => lineCounter' = Y' % 8
      BY <1>2, <2>3, <2>4, <2>7 DEF Ready, RowSet
    <3> QED BY <2>1, <2>4, <2>5, <2>7, <3>1 DEF ServiceInv, Drawing
  <2> QED BY <2>6, <2>7
<1>14. CASE LatchCommand
  <2>1. /\ pc = "readCmd" /\ pc' = "testMode" /\ clean /\ lineCounter' = ctrlWr
        /\ UNCHANGED <<intReq, ctrlWr, data, scan>>
    BY <1>14 DEF LatchCommand, PiocStep
  <2>2. ~intReq /\ Filled(Y, NWORDS) /\ CommandSet /\ (Text => Y % 8 = 0)
    BY <2>1 DEF ServiceInv
  <2>3. Filled(Y, NWORDS)' /\ CommandSet' /\ Y' = Y
    BY <1>2, <2>1, <2>2, CommandStays DEF Filled, Y
  <2>4. Text' => lineCounter' = Y' % 8
    BY <1>2, <2>1, <2>2, <2>3 DEF CommandSet
  <2> QED BY <2>1, <2>2, <2>3, <2>4 DEF ServiceInv, Drawing
<1>15. CASE SelectMode
  <2>1. /\ pc = "testMode" /\ clean /\ ~mwSr'
        /\ pc' = IF Bit7(ctrlWr) THEN "bitmap" ELSE "text"
        /\ UNCHANGED <<intReq, ctrlWr, data, lineCounter, scan>>
    BY <1>15 DEF SelectMode, PiocStep, PiocReadsCtrlWr
  <2>2. ~intReq /\ Filled(Y, NWORDS) /\ CommandSet /\ (Text => lineCounter = Y % 8)
    BY <2>1 DEF ServiceInv
  <2>3. Filled(Y, NWORDS)' /\ CommandSet' /\ Y' = Y
    BY <1>2, <2>1, <2>2, CommandStays DEF Filled, Y
  <2>4. Text' <=> pc' = "text"
    BY <1>2, <2>1, <2>2, CommandBits DEF CommandSet
  <2> QED BY <1>2, <2>1, <2>2, <2>3, <2>4 DEF ServiceInv, Drawing
<1>16. CASE BitmapColumn \/ TextColumn
  <2>1. /\ Drawing /\ clean
        /\ UNCHANGED <<sfrVars, pc, lineCounter, scan>>
    BY <1>16 DEF BitmapColumn, TextColumn, ShowColumn, Drawing, PiocStep
  <2>2. /\ ~intReq /\ Filled(Y, NWORDS) /\ CommandSet
        /\ (Text => lineCounter = Y % 8 /\ ~mwSr) /\ (Text <=> pc = "text")
    BY <2>1 DEF ServiceInv
  <2>3. Filled(Y, NWORDS)' /\ CommandSet' /\ Y' = Y
    BY <1>2, <2>1, <2>2, CommandStays DEF Filled, Y, sfrVars
  <2> QED BY <1>2, <2>1, <2>2, <2>3 DEF ServiceInv, Drawing, sfrVars
<1>17. CASE EndBitmap
  <2>1. /\ pc = "bitmap" /\ pc' = "lineEnd" /\ clean /\ bitX' /\ scan' = scan + 1
        /\ UNCHANGED sfrVars
    BY <1>17 DEF EndBitmap, EndColumns, PiocStep
  <2>2. ~intReq /\ Filled(Y, NWORDS) /\ CommandSet /\ ~Text
    BY <2>1 DEF ServiceInv, Drawing
  <2>3. (Y - 1)' = Y
    BY <2>1, Raster DEF Y
  <2>4. Filled(Y - 1, NWORDS)' /\ CommandSet'
    BY <1>2, <2>1, <2>2, <2>3, CommandStays DEF Filled, sfrVars
  <2>5. Drawn(Y - 1)'
    BY <1>2, <2>1, <2>2, <2>4 DEF Drawn, sfrVars
  <2> QED BY <2>1, <2>5 DEF ServiceInv, Drawing
<1>18. CASE EndText
  <2>1. /\ pc = "text" /\ pc' = "lineEnd" /\ clean /\ scan' = scan + 1
        /\ lineCounter' = (lineCounter + 1) % 256
        /\ UNCHANGED <<intReq, ctrlWr, data>>
    BY <1>18 DEF EndText, EndColumns, PiocStep
  <2>2. /\ ~intReq /\ Filled(Y, NWORDS) /\ CommandSet
        /\ Text /\ lineCounter = Y % 8 /\ ~mwSr
    BY <2>1 DEF ServiceInv, Drawing
  <2>3. (Y - 1)' = Y /\ Y \in Nat
    BY <2>1, Raster DEF Y
  <2>4. Filled(Y - 1, NWORDS)' /\ CommandSet'
    BY <1>2, <2>1, <2>2, <2>3, CommandStays DEF Filled
  <2>5. Y % 8 \in 0 .. 7
    BY <2>3, RowStep
  <2>6. lineCounter' = (Y % 8) + 1 /\ (Y % 8 = 7 => Bit3((lineCounter + 1) % 256))
    BY <2>1, <2>2, <2>5, RowBit
  <2>7. ~mwSr' /\ (Y % 8 = 7 => bitX')
    BY <1>18, <2>2, <2>6 DEF EndText, PiocReadsCtrlWr
  <2>8. Drawn(Y - 1)'
    BY <1>2, <2>1, <2>2, <2>3, <2>4, <2>6, <2>7 DEF Drawn
  <2> QED BY <2>1, <2>8 DEF ServiceInv, Drawing
<1>19. CASE NextLine
  <2>1. /\ pc = "lineEnd" /\ pc' = "pend" /\ clean /\ swMr'
        /\ UNCHANGED <<intReq, mwSr, ctrlWr, data, lineCounter, bitX, scan>>
    BY <1>19 DEF NextLine, PiocStep, PiocWritesCtrlRd
  <2>2. Drawn(Y - 1)
    BY <2>1 DEF ServiceInv
  <2>3. Filled(Y - 1, NWORDS)' /\ CommandSet' /\ Y' = Y
    BY <1>2, <2>1, <2>2, CommandStays DEF Filled, Y, Drawn
  <2>4. Drawn(Y - 1)'
    BY <1>2, <2>1, <2>2, <2>3 DEF Drawn
  <2> QED BY <2>1, <2>4 DEF ServiceInv, Drawing
<1>20. CASE PendInterrupt
  <2>1. /\ pc = "pend" /\ pc' = "testMw" /\ clean
        /\ UNCHANGED <<swMr, mwSr, ctrlWr, data, lineCounter, scan>>
    BY <1>20 DEF PendInterrupt, PiocStep
  <2>2. Drawn(Y - 1) /\ (bitX => swMr) /\ Y' = Y /\ Y \in Int /\ Y - 1 \in Nat
    BY <2>1, Raster DEF ServiceInv, Y
  <2>3. hpc' \in {"off", "idle"}
    BY <1>2, <2>2, Waiting DEF Drawn
  <2>4. CommandSet'
    BY <2>1, <1>2, <2>2, CommandStays DEF Drawn
  <2>5. ASSUME Text, (Y - 1) % 8 # 7 PROVE Ready'
    <3>1. Filled(Y, NWORDS)
      <4>1. \A w \in 0 .. NWORDS - 1 :
              Lit(demoMode, (Y - 1) + 1, 0, w).cell = Lit(demoMode, Y - 1, 0, w).cell
        <5> TAKE w \in 0 .. NWORDS - 1
        <5>1. w \in Nat /\ demoMode \in TextModes
          BY <2>5 DEF Text
        <5> QED BY ONLY <2>2, <2>5, <5>1, SameRow
      <4>2. (Y - 1) + 1 = Y
        BY <2>2
      <4> QED BY <2>2, <4>1, <4>2 DEF Filled, Drawn
    <3>2. Filled(Y, NWORDS)'
      BY <1>2, <2>1, <2>2, <3>1 DEF Filled
    <3>3. Y % 8 = ((Y - 1) % 8) + 1
      <4>1. (Y - 1) + 1 = Y
        BY <2>2
      <4> QED BY <2>2, <2>5, <4>1, RowStep
    <3>4. ~mwSr /\ lineCounter = Y % 8
      BY <2>2, <2>5, <3>3 DEF Drawn
    <3>5. RowSet'
      BY <2>1, <2>2, <3>4 DEF RowSet
    <3> QED BY <2>4, <3>2, <3>5 DEF Ready
  <2>6. ASSUME Text, (Y - 1) % 8 = 7 PROVE Y % 8 = 0 /\ bitX
    <3>1. (Y - 1) + 1 = Y
      BY <2>2
    <3> QED BY <2>2, <2>6, <3>1, RowStep DEF Drawn
  <2>7. CASE bitX
    <3>1. intReq'
      BY <1>20, <2>7 DEF PendInterrupt, PiocRequestsInt
    <3>2. Answerable'
      <4>1. swMr'
        BY <2>1, <2>2, <2>7
      <4>2. Text => (Y % 8 # 0 => Ready')
        BY <2>5, <2>6
      <4> QED BY <1>2, <2>2, <4>1, <4>2 DEF Answerable
    <3>3. Serving'
      BY <2>3, <3>1, <3>2 DEF Serving
    <3> QED BY <2>1, <3>3 DEF ServiceInv, Drawing
  <2>8. CASE ~bitX
    <3>1. ~intReq'
      BY <1>20, <2>2, <2>8 DEF PendInterrupt, Drawn
    <3>2. Ready'
      BY <2>2, <2>5, <2>6, <2>8 DEF Drawn
    <3>3. Serving'
      BY <2>3, <3>1, <3>2 DEF Serving
    <3> QED BY <2>1, <3>3 DEF ServiceInv, Drawing
  <2> QED BY <2>7, <2>8
<1> QED
  BY <1>4, <1>5, <1>6, <1>7, <1>8, <1>9, <1>10, <1>11, <1>12, <1>13, <1>14, <1>15,
     <1>16, <1>17, <1>18, <1>19, <1>20 DEF PiocStep, PiocNext

LEMMA ServiceHost == TypeInv /\ RasterInv /\ ServiceInv /\ HostStep => ServiceInv'
<1> SUFFICES ASSUME TypeInv, RasterInv, ServiceInv, HostStep, clean' PROVE ServiceInv'
    BY DEF ServiceInv
<1>1. clean /\ UNCHANGED piocVars
  BY DEF HostStep
<1>2. UNCHANGED <<pc, lineCounter, bitX, scan>> /\ Y' = Y
  BY <1>1 DEF piocVars, Y
<1>3. CASE pc \in {"front", "vsync", "back", "startRd"}
  <2>1. hpc' \in {"words", "cmd", "ack"} => ~swMr'
    BY <1>1, <1>3 DEF ServiceInv, HostStep, HostNext, EnableIrq, EnterIrq, ReadScanline,
         WriteWord, WriteCommand, Acknowledge, HostReadsCtrlRd, sfrVars
  <2> QED BY <1>2, <1>3, <2>1 DEF ServiceInv, Drawing
<1>4. CASE pc \in {"screen", "vblankInt", "startWr", "startInt", "readCmd", "testMode",
                   "bitmap", "text", "lineEnd", "pend"}
  <2>1. ~intReq
    BY <1>1, <1>4 DEF ServiceInv, Drawing, Drawn
  <2>2. hpc \in {"off", "idle"}
    BY <2>1, Waiting
  <2>3. EnableIrq
    BY <2>1, <2>2 DEF HostStep, HostNext, EnterIrq, ReadScanline, WriteWord,
                      WriteCommand, Acknowledge
  <2>4. UNCHANGED <<sfrVars, demoMode>>
    BY <2>3 DEF EnableIrq
  <2> QED BY <1>1, <1>2, <1>4, <2>4
          DEF ServiceInv, Drawing, Drawn, Filled, CommandSet, Text, sfrVars
<1>5. CASE pc = "testMw"
  <2>1. Serving /\ Y \in Nat /\ ctrlRd = Y /\ Y <= 254
    BY <1>1, <1>5, Raster DEF ServiceInv
  <2>2. demoMode \in DemoModes /\ word \in 0 .. NWORDS /\ (InHandler => intReq)
        /\ (hpc = "words" => word < NWORDS) /\ data \in [Words -> Cell]
    BY DEF TypeInv, TypeOK, HostTypeOK, HandlerInv, SfrTypeOK
  <2>3. SUFFICES Serving'
    BY <1>2, <1>5 DEF ServiceInv, Drawing
  <2>4. CASE EnableIrq
    <3>1. hpc = "off" /\ hpc' = "idle" /\ UNCHANGED <<sfrVars, demoMode>>
      BY <2>4 DEF EnableIrq
    <3>2. (Ready' <=> Ready) /\ (Answerable' <=> Answerable)
      BY <1>2, <3>1 DEF Ready, Answerable, Filled, CommandSet, RowSet, Text, sfrVars
    <3> QED BY <2>1, <3>1, <3>2 DEF Serving, sfrVars
  <2>5. CASE EnterIrq
    <3>1. /\ hpc = "idle" /\ intReq /\ UNCHANGED <<sfrVars, demoMode>>
          /\ hpc' = IF swMr THEN "readRd" ELSE "ack"
      BY <2>5 DEF EnterIrq
    <3>2. Answerable /\ swMr
      BY <2>1, <3>1 DEF Serving, Answerable
    <3>3. Answerable'
      BY <1>2, <3>1, <3>2 DEF Ready, Answerable, Filled, CommandSet, RowSet, Text, sfrVars
    <3> QED BY <3>1, <3>2, <3>3 DEF Serving
  <2>6. CASE ReadScanline
    <3>1. /\ hpc = "readRd" /\ ~swMr' /\ scanline' = Y /\ word' = 0
          /\ demoMode' = demoMode /\ UNCHANGED <<intReq, mwSr, ctrlRd, ctrlWr, data>>
          /\ hpc' = IF Text /\ Y % 8 # 0 THEN "ack" ELSE "words"
      BY <2>1, <2>6 DEF ReadScanline, HostReadsCtrlRd, Text
    <3>2. Answerable
      BY <2>1, <3>1 DEF Serving
    <3>3. CASE Text /\ Y % 8 # 0
      <4>1. Ready
        BY <3>2, <3>3 DEF Answerable
      <4>2. Ready'
        BY <1>2, <3>1, <4>1 DEF Ready, Filled, CommandSet, RowSet, Text
      <4> QED BY <3>1, <3>3, <4>2 DEF Serving
    <3>4. CASE ~(Text /\ Y % 8 # 0)
      <4>1. Filled(Y, word)'
        BY <3>1 DEF Filled
      <4>2. (Text => Y % 8 = 0)'
        BY <1>2, <3>1, <3>4 DEF Text
      <4> QED BY <1>2, <3>1, <3>4, <4>1, <4>2 DEF Serving
    <3> QED BY <3>3, <3>4
  <2>7. CASE WriteWord
    <3>1. /\ hpc = "words" /\ word' = word + 1
          /\ data' = [data EXCEPT ![word] = Fetch(word)]
          /\ UNCHANGED <<swMr, scanline, demoMode>>
          /\ hpc' = IF word + 1 = NWORDS THEN "cmd" ELSE "words"
      BY <2>7 DEF WriteWord, HostWritesData
    <3>2. ~swMr /\ scanline = Y /\ (Text => Y % 8 = 0) /\ Filled(Y, word)
      BY <2>1, <3>1 DEF Serving
    <3>3. Fetch(word) = Lit(demoMode, Y, 0, word).cell
      BY <2>2, <3>2, FetchIsLit
    <3>4. \A w \in 0 .. word : data'[w] = Lit(demoMode, Y, 0, w).cell
      <4> TAKE w \in 0 .. word
      <4>1. CASE w = word BY <2>2, <3>1, <3>3, <4>1
      <4>2. CASE w # word
        <5>1. w \in 0 .. word - 1
          BY <2>2, <4>2
        <5> QED BY <2>2, <3>1, <3>2, <4>2, <5>1 DEF Filled
      <4> QED BY <4>1, <4>2
    <3>5. Filled(Y, word)' /\ (word + 1 = NWORDS => Filled(Y, NWORDS)')
      BY <1>2, <2>2, <3>1, <3>4 DEF Filled
    <3>6. (Text => Y % 8 = 0)' /\ ~swMr' /\ scanline' = Y'
      BY <1>2, <3>1, <3>2 DEF Text
    <3> QED BY <3>1, <3>5, <3>6 DEF Serving
  <2>8. CASE WriteCommand
    <3>1. /\ hpc = "cmd" /\ hpc' = "ack" /\ ctrlWr' = Command /\ mwSr'
          /\ UNCHANGED <<swMr, data, demoMode>>
      BY <2>8 DEF WriteCommand, HostWritesCtrlWr
    <3>2. ~swMr /\ (Text => Y % 8 = 0) /\ Filled(Y, NWORDS)
      BY <2>1, <3>1 DEF Serving
    <3>3. CommandSet'
      BY <3>1 DEF CommandSet, Command, Text
    <3>4. Filled(Y, NWORDS)' /\ RowSet'
      BY <1>2, <3>1, <3>2 DEF Filled, RowSet, Text
    <3> QED BY <3>1, <3>2, <3>3, <3>4 DEF Serving, Ready
  <2>9. CASE Acknowledge
    <3>1. /\ hpc = "ack" /\ hpc' = "idle" /\ ~intReq'
          /\ UNCHANGED <<mwSr, ctrlWr, data, demoMode>>
      BY <2>9 DEF Acknowledge, HostWritesCtrlRd
    <3>2. Ready
      BY <2>1, <3>1 DEF Serving
    <3>3. Ready'
      BY <1>2, <3>1, <3>2 DEF Ready, Filled, CommandSet, RowSet, Text
    <3> QED BY <3>1, <3>3 DEF Serving
  <2> QED BY <2>4, <2>5, <2>6, <2>7, <2>8, <2>9 DEF HostStep, HostNext
<1> QED
  BY <1>3, <1>4, <1>5 DEF TypeInv, TypeOK, PiocTypeOK, PiocPc

(* Main takes a line number from under the handler only where clean says    *)
(* so; elsewhere SW_MR is not looked at any more.                           *)
LEMMA ServiceMain == TypeInv /\ RasterInv /\ ServiceInv /\ MainStep => ServiceInv'
<1> SUFFICES ASSUME TypeInv, RasterInv, ServiceInv, MainStep, clean' PROVE ServiceInv'
    BY DEF ServiceInv
<1>1. /\ clean /\ hpc = "idle"
      /\ UNCHANGED <<intReq, mwSr, ctrlRd, ctrlWr, data, piocVars, hostVars>>
  BY DEF MainStep, Vsync, TestModes, PrintStatus, sfrVars
<1>2. Announced => (swMr' <=> swMr)
  BY DEF MainStep, Vsync, TestModes, PrintStatus, sfrVars, HostReadsCtrlRd
<1>3. UNCHANGED <<hpc, pc, lineCounter, bitX, scan, scanline, word, demoMode>> /\ Y' = Y
  BY <1>1 DEF piocVars, hostVars, Y
<1>4. (Ready' <=> Ready) /\ (Drawn(Y - 1)' <=> Drawn(Y - 1))
  BY <1>1, <1>3 DEF Ready, Drawn, Filled, CommandSet, RowSet, Text
<1>5. Serving => Serving'
  <2>1. CASE intReq BY <1>1, <1>2, <1>3, <1>4, <2>1
                    DEF Serving, Answerable, Announced, Text
  <2>2. CASE ~intReq BY <1>1, <1>3, <1>4, <2>2 DEF Serving
  <2> QED BY <2>1, <2>2
<1> QED BY <1>1, <1>2, <1>3, <1>4, <1>5
        DEF ServiceInv, Announced, Drawing, Filled, CommandSet, Text

-----------------------------------------------------------------------------
LEMMA BeamPioc ==
    TypeInv /\ RasterInv /\ ServiceInv /\ CleanFrame /\ PiocStep => CleanFrame'
<1> SUFFICES ASSUME TypeInv, RasterInv, ServiceInv, CleanFrame, PiocStep, clean'
             PROVE  beam' = Dark \/ beam' = Wanted(beam)'
    BY DEF CleanFrame
<1>1. CASE BitmapColumn \/ TextColumn
  <2>1. /\ Drawing /\ clean /\ col < NCOLS /\ UNCHANGED <<demoMode, data>>
        /\ beam' = [kind |-> pc, line |-> Y, col |-> col,
                    cell |-> data[col \div WORD_COLS],
                    row |-> IF pc = "text" THEN lineCounter % 8 ELSE 0]
    BY <1>1 DEF BitmapColumn, TextColumn, ShowColumn, Drawing, PiocStep, Y, hostVars,
                sfrVars
  <2>2. Filled(Y, NWORDS) /\ (Text => lineCounter = Y % 8) /\ (Text <=> pc = "text")
    BY <2>1 DEF ServiceInv
  <2>3. Y \in Nat /\ demoMode \in DemoModes /\ col \in 0 .. NCOLS - 1
    BY <2>1, Raster, ColumnCount DEF TypeInv, TypeOK, HostTypeOK, PiocTypeOK, Drawing
  <2>4. col \div WORD_COLS \in 0 .. NWORDS - 1
    BY <2>3, ColumnWord
  <2>5. data[col \div WORD_COLS] = Lit(demoMode, Y, 0, col \div WORD_COLS).cell
    BY <2>2, <2>4 DEF Filled
  <2>6. Text => lineCounter % 8 = Y % 8
    BY <2>2, <2>3
  <2>7. pc = (IF demoMode \in TextModes THEN "text" ELSE "bitmap")
    BY <2>1, <2>2 DEF Drawing, Text
  <2> DEFINE w == col \div WORD_COLS
  <2>8. w \in Nat /\ col \in Nat
    BY <2>3, <2>4
  <2>9. Lit(demoMode, Y, col, w) =
          [kind |-> pc, line |-> Y, col |-> col, cell |-> data[w],
           row |-> IF demoMode \in TextModes THEN Y % 8 ELSE 0]
    <3> HIDE DEF w
    <3>1. Lit(demoMode, Y, col, w) =
            [kind |-> IF demoMode \in TextModes THEN "text" ELSE "bitmap",
             line |-> Y, col |-> col,
             row |-> IF demoMode \in TextModes THEN Y % 8 ELSE 0,
             cell |-> Lit(demoMode, Y, 0, w).cell]
      BY ONLY <2>3, <2>8, LitColumn
    <3> QED BY <2>5, <2>7, <3>1 DEF w
  <2>10. (IF pc = "text" THEN lineCounter % 8 ELSE 0) =
         (IF demoMode \in TextModes THEN Y % 8 ELSE 0)
    BY <2>2, <2>6 DEF Text
  <2>11. beam' = Lit(demoMode, Y, col, w)
    BY <2>1, <2>9, <2>10
  <2>12. beam'.line = Y /\ beam'.col = col
    BY <2>1
  <2> QED BY <2>1, <2>11, <2>12 DEF Wanted
<1>2. CASE ~(BitmapColumn \/ TextColumn)
  <2>1. beam' = Dark \/ (beam' = beam /\ ~Drawing)
    BY <1>2 DEF PiocStep, PiocNext, SignalVblank, RequestVblank, FrontPorch, VerticalSync,
         BackPorch, PorchLine, StartActive, ClearCommand, RequestFirstLine, TestCommand,
         LatchCommand, SelectMode, EndBitmap, EndText, EndColumns, LeaveFrame, NextLine,
         PendInterrupt, Drawing
  <2> QED BY <2>1 DEF RasterInv
<1> QED BY <1>1, <1>2

LEMMA BeamHost ==
    TypeInv /\ RasterInv /\ ServiceInv /\ CleanFrame /\ HostStep => CleanFrame'
<1> SUFFICES ASSUME TypeInv, RasterInv, ServiceInv, CleanFrame, HostStep, clean'
             PROVE  beam' = Dark \/ beam' = Wanted(beam)'
    BY DEF CleanFrame
<1>1. clean /\ UNCHANGED beam
  BY DEF HostStep, piocVars
<1>2. CASE ~Drawing BY <1>1, <1>2 DEF RasterInv
<1>3. CASE Drawing
  <2>1. ~intReq
    BY <1>1, <1>3 DEF ServiceInv
  <2>2. hpc \in {"off", "idle"}
    BY <2>1, Waiting
  <2>3. UNCHANGED demoMode
    BY <2>1, <2>2 DEF HostStep, HostNext, EnableIrq, EnterIrq, ReadScanline, WriteWord,
                      WriteCommand, Acknowledge
  <2> QED BY <1>1, <2>3 DEF CleanFrame, Wanted
<1> QED BY <1>2, <1>3

LEMMA BeamMain == CleanFrame /\ MainStep => CleanFrame'
BY DEF MainStep, Vsync, TestModes, PrintStatus, sfrVars, piocVars, hostVars, CleanFrame, Wanted

LEMMA AckFollows == TypeInv /\ ServiceInv => AckIsCurrent
<1> SUFFICES ASSUME TypeInv, ServiceInv, clean, hpc = "ack" PROVE ~swMr
    BY DEF AckIsCurrent
<1>1. intReq /\ pc \in PiocPc
  BY DEF TypeInv, TypeOK, PiocTypeOK, HandlerInv, InHandler
<1>2. pc \in {"front", "vsync", "back", "startRd", "testMw"}
  BY <1>1 DEF ServiceInv, Drawing, Drawn, PiocPc
<1> QED BY <1>2 DEF ServiceInv, Serving

LEMMA InvStep == IInv /\ [Next]_vars => IInv'
<1> SUFFICES ASSUME IInv, [Next]_vars PROVE IInv'
    OBVIOUS
<1>1. TypeInv /\ RasterInv /\ ServiceInv /\ CleanFrame
  BY DEF IInv, TypeInv
<1>2. TypeInv' /\ RasterInv'
  BY <1>1, TypeStep, RasterStep
<1>3. ServiceInv' /\ CleanFrame'
  <2>1. CASE Next
    BY <1>1, <2>1, ServicePioc, ServiceHost, ServiceMain, BeamPioc, BeamHost, BeamMain
       DEF Next
  <2>2. CASE UNCHANGED vars
    BY <1>1, <2>2 DEF vars, sfrVars, piocVars, hostVars, ServiceInv, CleanFrame, Wanted,
         Serving, Answerable, Ready, RowSet, CommandSet, Filled, Drawn, Drawing, Text, Y
  <2> QED BY <2>1, <2>2
<1>4. AckIsCurrent'
  BY <1>2, <1>3, AckFollows, PTL
<1> QED BY <1>2, <1>3, <1>4 DEF IInv, TypeInv

(* What the two processors owe each other holds at every step, whatever the *)
(* host does (asm:49-118 with cvbs_main.cpp:178-239).                       *)
THEOREM Invariant == Spec => []IInv
<1>1. Init => IInv
  BY TypeInit, RasterInit, ServiceInit, AckFollows DEF IInv, TypeInv
<1> QED BY <1>1, InvStep, PTL DEF Spec

(* Whatever happened before, a frame that goes active with its requests     *)
(* answered in time shows the right picture up to the first missed          *)
(* deadline: the protocol repairs itself at the next frame, for every       *)
(* layout, number of words and behaviour of the host.                       *)
THEOREM CleanFrameCorrect == Spec => []CleanFrame
<1>1. IInv => CleanFrame
  BY DEF IInv
<1> QED BY <1>1, Invariant, PTL

(* A host that meets its deadlines never withdraws a request it has not     *)
(* read.                                                                    *)
THEOREM AckCurrent == Spec => []AckIsCurrent
<1>1. IInv => AckIsCurrent
  BY DEF IInv
<1> QED BY <1>1, Invariant, PTL
=============================================================================
