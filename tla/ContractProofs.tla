---------------------------- MODULE ContractProofs ----------------------------
(***************************************************************************)
(* The interface of the video program, for every set of commands a host    *)
(* may use, every frame layout and number of data words: what a host that  *)
(* answers in time orders is what is drawn, and it is asked where it must  *)
(* be and nowhere else.                                                    *)
(***************************************************************************)
EXTENDS Contract, PiocProofs

USE SfrAssumption DEF SfrAssumption, Byte, Words, BLANK_LINES

-----------------------------------------------------------------------------
(* The data words hold what the host has last ordered.                      *)
Given == \A w \in Words : data[w] = [src |-> "bitmap", at |-> order.line, word |-> w]

(* Line y can be drawn from the last order.                                 *)
Ready(y) ==
    /\ order.line <= y /\ Covers(order, y)
    /\ ctrlWr = order.cmd /\ Given
    /\ IF mwSr THEN order.line = y
       ELSE ~Bit7(order.cmd) => lineCounter = order.cmd + y - order.line

(* Has the host to be asked before line y?                                  *)
Due(y) == Bit3(order.cmd) \/ ~Covers(order, y)

HostInv ==
    /\ hpc \in {"idle", "decide", "words", "cmd", "ack"}
    /\ hpc # "idle" => intReq
    /\ scanline \in Byte /\ word \in 0 .. NWORDS /\ (hpc = "words" => word < NWORDS)
    /\ hpc = "decide" => word = 0
    /\ order \in [cmd : Byte, line : Byte]

(* The host is being asked for line Y, and answers.                         *)
Serving ==
    /\ hpc # "idle" => scanline = Y
    /\ (hpc = "idle" /\ ~intReq) => Ready(Y) /\ (Bit3(order.cmd) => scanline = Y)
    /\ (hpc = "idle" /\ intReq) \/ (hpc = "decide") =>
         (Y > 0 => order.line < Y /\ (Covers(order, Y) => Ready(Y)))
    /\ hpc = "words" => \A w \in 0 .. word - 1 :
                          data[w] = [src |-> "bitmap", at |-> Y, word |-> w]
    /\ hpc = "cmd"   => \A w \in Words : data[w] = [src |-> "bitmap", at |-> Y, word |-> w]
    /\ hpc = "ack"   => Ready(Y)

(* Line Y is being drawn from the last order.                               *)
Drawn ==
    /\ ~intReq /\ Ready(Y)
    /\ pc = "readCmd" => mwSr
    /\ pc # "readCmd" => ~mwSr
    /\ Drawing => (pc = "bitmap" <=> Bit7(order.cmd))
    /\ Y > 0 => ~bitX

(* Line Y - 1 has been drawn from it, and the request that is due pends.    *)
Finished ==
    /\ ~intReq /\ ~mwSr /\ order.line < Y /\ Covers(order, Y - 1)
    /\ ctrlWr = order.cmd /\ Given
    /\ ~Bit7(order.cmd) => lineCounter = order.cmd + Y - order.line
    /\ Due(Y) => bitX
    /\ bitX /\ Y > 1 => Due(Y)

ServiceInv ==
    /\ pc \in {"screen", "vblankInt", "startWr", "startInt"} => ~intReq
    /\ pc = "testMw" => Serving /\ (Y > 0 => ~bitX)
    /\ pc \in {"readCmd", "testMode", "bitmap", "text"} => Drawn
    /\ pc \in {"lineEnd", "pend"} => Finished

Answered == PiocInv /\ RasterInv /\ HostInv /\ ServiceInv /\ RendersOrder

-----------------------------------------------------------------------------
(* A row of characters begun at any glyph line of any command: its count    *)
(* in LINE_COUNTER does not overflow, and bit 3 of it or of the command     *)
(* tells when to ask the host.                                              *)
LEMMA RowCount ==
    ASSUME NEW c \in 0 .. 255, ~Bit7(c), NEW k \in Nat, (c % 8) + k \in 0 .. 7
    PROVE  /\ (c + k) % 8 = (c % 8) + k
           /\ (c + k + 1) % 256 = c + k + 1
           /\ Bit3(c + k + 1) \/ Bit3(c) <=> Bit3(c) \/ (c % 8) + k + 1 = 8
<1>1. c \in 0 .. 127
  BY DEF Bit7
<1> DEFINE a == c \div 8
           b == c % 8
<1>2. a \in 0 .. 15 /\ b \in 0 .. 7 /\ c = 8 * a + b
  BY <1>1
<1> HIDE DEF a
<1>3. b \in 0 .. 7 /\ k \in 0 .. 7 /\ b + k \in 0 .. 7
  BY <1>2
<1> HIDE DEF b
<1>4. (c + k) % 8 = b + k
  BY <1>2, <1>3
<1>5. (c + k + 1) % 256 = c + k + 1
  BY <1>2, <1>3
<1>6. Bit3(c) <=> a % 2 = 1
  <2>1. c \div 8 = a
    BY <1>2
  <2> QED BY <2>1 DEF Bit3
<1>7. CASE b + k + 1 = 8
  <2>1. (c + k + 1) \div 8 = a + 1
    BY <1>2, <1>7
  <2>2. Bit3(c + k + 1) <=> (a + 1) % 2 = 1
    BY <2>1 DEF Bit3
  <2>3. (a + 1) % 2 = 1 \/ a % 2 = 1
    BY <1>2
  <2> QED BY <1>4, <1>5, <1>6, <1>7, <2>2, <2>3 DEF b
<1>8. CASE b + k + 1 # 8
  <2>1. (c + k + 1) \div 8 = a
    BY <1>2, <1>3, <1>8
  <2>2. Bit3(c + k + 1) <=> a % 2 = 1
    BY <2>1 DEF Bit3
  <2> QED BY <1>4, <1>5, <1>6, <1>8, <2>2 DEF b
<1> QED BY <1>7, <1>8

(* An order for a text line, in numbers.                                    *)
LEMMA OrderedRow ==
    ASSUME HostInv, NEW y \in Nat, order.line <= y, Covers(order, y), ~Bit7(order.cmd)
    PROVE  /\ order.cmd \in 0 .. 255 /\ order.line \in Nat /\ y - order.line \in Nat
           /\ (order.cmd % 8) + (y - order.line) \in 0 .. 7
           /\ Row(order) = order.cmd % 8 /\ Row(order) \in 0 .. 7
<1>1. order.cmd \in 0 .. 255 /\ order.line \in 0 .. 255
  BY DEF HostInv
<1>2. Row(order) + y - order.line \in 0 .. 7
  BY DEF Covers
<1>3. order.cmd % 8 \in 0 .. 7
  BY <1>1
<1> QED BY <1>1, <1>2, <1>3 DEF Row

-----------------------------------------------------------------------------
LEMMA AnsweredStarts == Init => Answered
<1> SUFFICES ASSUME Init PROVE Answered
    OBVIOUS
<1>1. PiocInv /\ RasterInv
  BY PiocStarts DEF Init
<1>2. HostInv
  BY DEF Init, HostInit, HostInv
<1>3. ServiceInv
  BY DEF Init, SfrInit, PiocInit, ServiceInv
<1>4. RendersOrder
  BY DEF Init, PiocInit, RendersOrder
<1> QED BY <1>1, <1>2, <1>3, <1>4 DEF Answered

(* The host acts only while a request pends, so never while a line is drawn.*)
LEMMA HostWaits ==
    ASSUME Answered, HostNext
    PROVE  /\ intReq /\ beam = Dark
           /\ pc \in {"front", "vsync", "back", "startRd", "testMw"}
<1>1. intReq
  BY DEF Answered, HostInv, HostNext, ReadRequest, Decide, WriteWord, WriteCommand, Acknowledge
<1>2. pc \in {"front", "vsync", "back", "startRd", "testMw"}
  BY <1>1 DEF Answered, ServiceInv, Drawn, Finished, PiocInv, PiocTypeOK, PiocPc
<1>3. beam = Dark
  BY <1>2 DEF Answered, RasterInv, Drawing
<1> QED BY <1>1, <1>2, <1>3

(* What the host writes has the types of the registers.                     *)
LEMMA HostTyped ==
    ASSUME Answered, HostNext, UNCHANGED piocVars
    PROVE  PiocInv' /\ RasterInv' /\ HostInv'
<1> USE DEF Answered, PiocInv, SfrTypeOK
<1>1. ctrlRd' = ctrlRd
  BY DEF HostNext, ReadRequest, Decide, WriteWord, WriteCommand, Acknowledge, sfrVars
<1>2. RasterInv'
  BY <1>1, HostWaits DEF RasterInv, Drawing, Y, piocVars
<1>3. PiocTypeOK'
  BY DEF PiocTypeOK, piocVars
<1>4. SfrTypeOK' /\ HostInv'
  <2>1. CASE ReadRequest
    <3>1. 0 \in 0 .. NWORDS /\ ctrlRd \in Byte
      OBVIOUS
    <3>2. HostInv'
      BY <2>1, <3>1 DEF ReadRequest, HostInv
    <3> QED BY <2>1, <3>2 DEF ReadRequest, HostReadsCtrlRd
  <2>2. CASE Decide
    BY <2>2 DEF Decide, sfrVars, HostInv
  <2>3. CASE WriteWord
    <3>1. [src |-> "bitmap", at |-> scanline, word |-> word] \in Cell
      BY DEF HostInv, Cell
    <3>2. data' \in [Words -> Cell]
      BY <2>3, <3>1 DEF WriteWord, HostWritesData
    <3>3. SfrTypeOK'
      BY <2>3, <3>2 DEF WriteWord
    <3>4. word' = word + 1 /\ word + 1 \in 0 .. NWORDS
      BY <2>3 DEF WriteWord, HostInv
    <3>5. HostInv'
      BY <2>3, <3>4 DEF WriteWord, HostInv
    <3> QED BY <3>3, <3>5
  <2>4. CASE WriteCommand
    BY <2>4, CommandAssumption DEF WriteCommand, HostWritesCtrlWr, HostInv, CommandAssumption
  <2>5. CASE Acknowledge
    BY <2>5 DEF Acknowledge, HostWritesCtrlRd, HostInv
  <2> QED BY <2>1, <2>2, <2>3, <2>4, <2>5 DEF HostNext
<1> QED BY <1>2, <1>3, <1>4

(* A new order covers the line it is given for.                             *)
LEMMA NewOrder ==
    ASSUME NEW c \in Byte, NEW y \in Nat
    PROVE  Covers([cmd |-> c, line |-> y], y)
<1>1. c % 8 \in 0 .. 7
  OBVIOUS
<1> QED BY <1>1 DEF Covers, Row

(* The host's handler, while the PIOC is about to look for a command.       *)
LEMMA HostServes ==
    ASSUME Answered, HostNext, UNCHANGED piocVars
    PROVE  ServiceInv' /\ RendersOrder'
<1>1. beam' = Dark /\ pc' = pc /\ UNCHANGED <<scan, bitX, lineCounter>> /\ Y' = Y
  BY HostWaits DEF piocVars, Y
<1>2. pc \in {"front", "vsync", "back", "startRd", "testMw"}
  BY HostWaits
<1>3. SUFFICES ASSUME pc = "testMw" PROVE Serving'
  BY <1>1, <1>2 DEF ServiceInv, RendersOrder, Answered
<1>4. HostInv /\ Serving /\ intReq /\ Y \in 0 .. V_ACTIVE - 1 /\ ctrlRd = Y
  BY <1>3, HostWaits DEF Answered, ServiceInv, RasterInv
<1>5. Y \in Nat /\ Y \in Byte /\ Y # 255
  BY <1>4, VideoAssumption DEF VideoAssumption
<1> HIDE DEF Y
<1>6. CASE ReadRequest
  BY <1>1, <1>4, <1>6
     DEF ReadRequest, Serving, Ready, Given, piocVars
<1>7. CASE Decide
  <2>1. scanline = Y /\ scanline' = Y /\ word = 0 /\ word' = 0 /\ intReq'
    BY <1>4, <1>7 DEF Decide, Serving, HostInv, sfrVars
  <2>2. CASE hpc' = "words"
    BY <1>1, <2>1, <2>2 DEF Serving
  <2>3. CASE hpc' = "ack"
    <3>1. Y > 0 /\ Covers(order, Y) /\ Ready(Y)
      BY <1>4, <1>5, <1>7, <2>1, <2>3 DEF Decide, Serving
    <3>2. Ready(Y)'
      BY <1>1, <1>7, <3>1 DEF Decide, Ready, Given, sfrVars
    <3> QED BY <1>1, <2>1, <2>3, <3>2 DEF Serving
  <2> QED BY <1>7, <2>2, <2>3 DEF Decide
<1>8. CASE WriteWord
  <2>1. /\ scanline = Y /\ scanline' = Y /\ word < NWORDS /\ word' = word + 1 /\ word \in Nat
        /\ data' = [data EXCEPT ![word] = [src |-> "bitmap", at |-> Y, word |-> word]]
        /\ data \in [Words -> Cell] /\ intReq'
    BY <1>4, <1>8 DEF WriteWord, Serving, HostInv, HostWritesData, Answered, PiocInv, SfrTypeOK
  <2>2. \A w \in 0 .. word - 1 : data[w] = [src |-> "bitmap", at |-> Y, word |-> w]
    BY <1>4, <1>8 DEF WriteWord, Serving
  <2>3. \A w \in 0 .. word : data'[w] = [src |-> "bitmap", at |-> Y, word |-> w]
    BY <2>1, <2>2
  <2>4. hpc' = "words" \/ (hpc' = "cmd" /\ word = NWORDS - 1)
    <3>1. hpc' = (IF word + 1 = NWORDS THEN "cmd" ELSE "words")
      BY <1>8 DEF WriteWord
    <3>2. word + 1 = NWORDS => word = NWORDS - 1
      BY <2>1
    <3> QED BY <3>1, <3>2
  <2> QED BY <1>1, <2>1, <2>3, <2>4 DEF Serving
<1>9. CASE WriteCommand
  <2>1. PICK c \in COMMANDS : HostWritesCtrlWr(c) /\ order' = [cmd |-> c, line |-> scanline]
    BY <1>9 DEF WriteCommand
  <2>2. /\ scanline = Y /\ scanline' = Y /\ data' = data /\ hpc' = "ack" /\ intReq'
        /\ \A w \in Words : data[w] = [src |-> "bitmap", at |-> Y, word |-> w]
    BY <1>4, <1>9 DEF WriteCommand, Serving
  <2>3. Covers(order', Y)
    BY <1>5, <2>1, <2>2, NewOrder, CommandAssumption DEF CommandAssumption
  <2>4. Ready(Y)'
    BY <1>1, <1>5, <2>1, <2>2, <2>3 DEF Ready, Given, HostWritesCtrlWr
  <2> QED BY <1>1, <2>2, <2>4 DEF Serving
<1>10. CASE Acknowledge
  <2>1. scanline = Y /\ scanline' = Y /\ Ready(Y)
    BY <1>4, <1>10 DEF Acknowledge, Serving
  <2>2. Ready(Y)'
    BY <1>1, <1>10, <2>1 DEF Acknowledge, Ready, Given
  <2> QED BY <1>1, <1>10, <2>1, <2>2 DEF Acknowledge, HostWritesCtrlRd, Serving
<1> QED BY <1>6, <1>7, <1>8, <1>9, <1>10 DEF HostNext
-----------------------------------------------------------------------------
(* The program, with the host's answer in time.                             *)

(* One column of a line shows what was ordered for it.                      *)
LEMMA ColumnOrdered ==
    ASSUME Answered, BitmapColumn \/ TextColumn, UNCHANGED hostVars
    PROVE  ServiceInv' /\ RendersOrder'
<1>1. PICK row \in 0 .. 7 :
         /\ pc = "bitmap" \/ (pc = "text" /\ row = lineCounter % 8)
         /\ ShowColumn(row)
  <2>1. lineCounter % 8 \in 0 .. 7 /\ 0 \in 0 .. 7
    BY DEF Answered, PiocInv, PiocTypeOK
  <2>2. CASE BitmapColumn BY <2>1, <2>2 DEF BitmapColumn
  <2>3. CASE TextColumn BY <2>1, <2>3 DEF TextColumn
  <2> QED BY <2>2, <2>3
<1>2. /\ Drawn /\ HostInv /\ Y \in Nat /\ pc \in {"bitmap", "text"}
      /\ (pc = "bitmap" <=> Bit7(order.cmd))
  BY <1>1, VideoAssumption DEF Answered, ServiceInv, RasterInv, Drawing, Drawn, VideoAssumption
<1>3. /\ pc' = pc /\ Y' = Y
      /\ UNCHANGED <<intReq, ctrlWr, data, lineCounter, mwSr, bitX>>
  BY <1>1 DEF ShowColumn, sfrVars, Y
<1>4. Drawn'
  <2> HIDE DEF Y
  <2>1. Ready(Y)'
    BY <1>2, <1>3 DEF Drawn, Ready, Given, hostVars
  <2> QED BY <1>2, <1>3, <2>1 DEF Drawn, Drawing, hostVars
<1>5. ServiceInv'
  BY <1>2, <1>3, <1>4 DEF ServiceInv
<1>6. /\ beam' = [kind |-> pc, line |-> Y, col |-> col,
                  cell |-> data[col \div WORD_COLS], row |-> row]
      /\ col \in 0 .. NCOLS - 1
  BY <1>1, ColumnCount DEF ShowColumn, Y, Answered, PiocInv, PiocTypeOK
<1> HIDE DEF Y
<1>7. data[col \div WORD_COLS] = [src |-> "bitmap", at |-> order.line, word |-> col \div WORD_COLS]
  BY <1>2, <1>6, ColumnWord DEF Drawn, Ready, Given
<1>8. /\ Covers(order, Y) /\ ~mwSr /\ order.line <= Y
      /\ ~Bit7(order.cmd) => lineCounter = order.cmd + Y - order.line
  BY <1>2 DEF Drawn, Ready
<1>9. ASSUME ~Bit7(order.cmd) PROVE row = Row(order) + Y - order.line
  <2>1. row = (order.cmd + Y - order.line) % 8
    BY <1>1, <1>2, <1>8, <1>9
  <2>2. /\ order.cmd \in 0 .. 255 /\ order.line \in Nat /\ Y - order.line \in Nat
        /\ (order.cmd % 8) + (Y - order.line) \in 0 .. 7
        /\ Row(order) = order.cmd % 8
    BY <1>2, <1>8, <1>9, OrderedRow
  <2>3. (order.cmd + (Y - order.line)) % 8 = (order.cmd % 8) + (Y - order.line)
    BY <1>9, <2>2, RowCount
  <2>4. order.cmd + Y - order.line = order.cmd + (Y - order.line)
    BY <1>2, <2>2
  <2>5. (order.cmd % 8) + (Y - order.line) = (order.cmd % 8) + Y - order.line
    BY <1>2, <2>2
  <2> QED BY <2>1, <2>2, <2>3, <2>4, <2>5
<1>10. RendersOrder'
  BY <1>1, <1>2, <1>6, <1>7, <1>8, <1>9 DEF RendersOrder, hostVars
<1> QED BY <1>5, <1>10

(* The end of a line: what is due is pended, and nothing else.              *)
LEMMA LineOrdered ==
    ASSUME Answered, EndBitmap \/ EndText, UNCHANGED hostVars
    PROVE  ServiceInv' /\ RendersOrder'
<1>1. pc \in {"bitmap", "text"} /\ EndColumns
  BY DEF EndBitmap, EndText
<1>2. /\ Drawn /\ HostInv /\ Y \in Nat
      /\ (pc = "bitmap" <=> Bit7(order.cmd))
  BY <1>1, VideoAssumption DEF Answered, ServiceInv, RasterInv, Drawing, Drawn, VideoAssumption
<1>3. pc' = "lineEnd" /\ beam' = Dark /\ Y' = Y + 1
  BY <1>1, VideoAssumption
     DEF EndColumns, Y, Answered, PiocInv, PiocTypeOK, VideoAssumption
<1>4. ~intReq' /\ ~mwSr' /\ UNCHANGED <<ctrlWr, data, order>> /\ bitX \in BOOLEAN
  BY <1>1, <1>2 DEF Drawn, EndBitmap, EndText, sfrVars, hostVars, PiocReadsCtrlWr,
     Answered, PiocInv, PiocTypeOK
<1> HIDE DEF Y
<1>5. /\ Covers(order, Y) /\ ~mwSr /\ order.line <= Y /\ ctrlWr = order.cmd /\ Given
      /\ ~Bit7(order.cmd) => lineCounter = order.cmd + Y - order.line
      /\ Y > 0 => ~bitX
  BY <1>1, <1>2 DEF Drawn, Ready
<1>6. order.line < Y' /\ Covers(order, Y' - 1) /\ order.line \in Nat
  BY <1>2, <1>3, <1>5 DEF HostInv
<1>7. Given'
  BY <1>4, <1>5 DEF Given
<1>8. CASE EndBitmap
  <2>1. bitX' = TRUE /\ Bit7(order.cmd)
    BY <1>2, <1>8 DEF EndBitmap
  <2>2. ~Covers(order, Y')
    BY <1>6, <2>1 DEF Covers
  <2>3. Finished'
    BY <1>3, <1>4, <1>5, <1>6, <1>7, <2>1, <2>2 DEF Finished, Due
  <2> QED BY <1>3, <2>3 DEF ServiceInv, RendersOrder
<1>9. CASE EndText
  <2>0. ~Bit7(order.cmd)
    BY <1>2, <1>9 DEF EndText
  <2> DEFINE k == Y - order.line
  <2>1. /\ order.cmd \in 0 .. 255 /\ k \in Nat
        /\ (order.cmd % 8) + k \in 0 .. 7
        /\ Row(order) = order.cmd % 8 /\ Row(order) \in 0 .. 7
    BY <1>2, <1>5, <2>0, OrderedRow
  <2>2. lineCounter = order.cmd + k
    BY <1>2, <1>5, <1>6, <2>0, <2>1
  <2> HIDE DEF k
  <2>3. /\ (order.cmd + k + 1) % 256 = order.cmd + k + 1
        /\ Bit3(order.cmd + k + 1) \/ Bit3(order.cmd)
              <=> Bit3(order.cmd) \/ (order.cmd % 8) + k + 1 = 8
    BY <2>0, <2>1, RowCount
  <2>4. /\ lineCounter' = order.cmd + k + 1
        /\ bitX' <=> bitX \/ Bit3(order.cmd + k + 1) \/ Bit3(order.cmd)
    <3>1. lineCounter' = order.cmd + k + 1
      BY <1>9, <2>2, <2>3 DEF EndText
    <3>2. \/ Bit3(order.cmd + k + 1) /\ bitX' = TRUE
          \/ ~Bit3(order.cmd + k + 1) /\ bitX' = (bitX \/ Bit3(ctrlWr))
      BY <1>9, <2>2, <2>3 DEF EndText
    <3> QED BY <1>4, <1>5, <3>1, <3>2
  <2>5. Covers(order, Y') <=> (order.cmd % 8) + k + 1 # 8
    <3>1. Row(order) + Y' - order.line = (order.cmd % 8) + k + 1
      BY <1>2, <1>3, <1>6, <2>1 DEF k
    <3>2. (order.cmd % 8) + k + 1 \in 0 .. 7 <=> (order.cmd % 8) + k + 1 # 8
      BY <2>1
    <3> QED BY <2>0, <3>1, <3>2 DEF Covers
  <2>6. Due(Y)' <=> Bit3(order.cmd + k + 1) \/ Bit3(order.cmd)
    BY <1>4, <2>3, <2>5 DEF Due
  <2>7. lineCounter' = order.cmd + Y' - order.line
    <3>1. lineCounter' = order.cmd + k + 1 /\ Y' = Y + 1 /\ k = Y - order.line
      BY <1>3, <2>4 DEF k
    <3>2. order.cmd \in Nat /\ order.line \in Nat /\ Y \in Nat
      BY <1>2, <1>6, <2>1
    <3> QED BY ONLY <3>1, <3>2
  <2>8. Y' > 1 => ~bitX
    BY <1>2, <1>3, <1>5
  <2>9. Finished'
    BY <1>3, <1>4, <1>5, <1>6, <1>7, <2>4, <2>6, <2>7, <2>8 DEF Finished
  <2> QED BY <1>3, <2>9 DEF ServiceInv, RendersOrder
<1> QED BY <1>8, <1>9
(* The other steps within a picture line, and into it.                      *)
LEMMA StepOrdered ==
    ASSUME Answered, InTime, PiocNext, UNCHANGED hostVars
    PROVE  ServiceInv' /\ RendersOrder'
<1>1. CASE BitmapColumn \/ TextColumn BY <1>1, ColumnOrdered
<1>2. CASE EndBitmap \/ EndText BY <1>2, LineOrdered
<1> SUFFICES ASSUME ~(BitmapColumn \/ TextColumn), ~(EndBitmap \/ EndText)
             PROVE  ServiceInv' /\ RendersOrder'
    BY <1>1, <1>2
<1>3. beam' = beam /\ order' = order
  BY DEF PiocNext, SignalVblank, RequestVblank, FrontPorch, VerticalSync, BackPorch, PorchLine,
         StartActive, ClearCommand, RequestFirstLine, TestCommand, LatchCommand, SelectMode,
         LeaveFrame, NextLine, PendInterrupt, hostVars
<1>4. RendersOrder'
  BY <1>3 DEF RendersOrder, Answered
<1>5. SUFFICES ServiceInv'
  BY <1>4
<1>6. /\ ServiceInv /\ HostInv /\ RasterInv /\ UNCHANGED <<hpc, scanline, word, order>>
      /\ bitX \in BOOLEAN /\ intReq \in BOOLEAN /\ mwSr \in BOOLEAN
  BY DEF Answered, PiocInv, PiocTypeOK, SfrTypeOK, hostVars
<1>7. CASE SignalVblank
  BY <1>6, <1>7 DEF ServiceInv, SignalVblank
<1>8. CASE RequestVblank
  BY <1>8 DEF ServiceInv, RequestVblank
<1>9. CASE FrontPorch \/ VerticalSync \/ BackPorch
  BY <1>9 DEF ServiceInv, FrontPorch, VerticalSync, BackPorch, PorchLine
<1>10. CASE StartActive
  BY <1>10 DEF ServiceInv, StartActive, InTime
<1>11. CASE ClearCommand
  BY <1>6, <1>11 DEF ServiceInv, ClearCommand
<1>12. CASE RequestFirstLine
  <2>1. hpc = "idle" /\ hpc' = "idle" /\ intReq' /\ pc' = "testMw" /\ Y = 0 /\ Y' = Y
    BY <1>6, <1>12
       DEF ServiceInv, HostInv, RequestFirstLine, PiocRequestsInt, RasterInv, Y
  <2> HIDE DEF Y
  <2> QED BY <2>1 DEF ServiceInv, Serving
<1>13. ASSUME pc \in {"testMw", "readCmd", "testMode", "pend", "lineEnd"} PROVE Y \in Nat
  BY <1>6, <1>13, VideoAssumption DEF RasterInv, VideoAssumption
<1>14. CASE TestCommand
  <2>1. /\ pc = "testMw" /\ pc' = (IF mwSr THEN "readCmd" ELSE "testMode")
        /\ Y' = Y /\ UNCHANGED <<intReq, mwSr, ctrlWr, data, lineCounter, bitX>>
    BY <1>14 DEF TestCommand, sfrVars, Y
  <2>2. ~intReq /\ hpc = "idle" /\ Serving /\ (Y > 0 => ~bitX)
    BY <1>6, <2>1 DEF InTime, HostInv, ServiceInv
  <2>3. Y \in Nat
    BY <1>13, <2>1
  <2> HIDE DEF Y
  <2>4. Ready(Y)
    BY <2>2 DEF Serving
  <2>5. Ready(Y)'
    BY <1>6, <2>1, <2>4 DEF Ready, Given
  <2>6. Drawn'
    BY <2>1, <2>2, <2>5 DEF Drawn, Drawing
  <2> QED BY <2>1, <2>6 DEF ServiceInv
<1>15. CASE LatchCommand
  <2>1. /\ pc = "readCmd" /\ pc' = "testMode" /\ Y' = Y /\ lineCounter' = ctrlWr /\ ~mwSr'
        /\ UNCHANGED <<intReq, ctrlWr, data, bitX>>
    BY <1>15 DEF LatchCommand, PiocReadsCtrlWr, Y
  <2>2. Drawn /\ Y \in Nat
    BY <1>6, <1>13, <2>1 DEF ServiceInv
  <2> HIDE DEF Y
  <2>3. Ready(Y) /\ mwSr /\ order.line = Y
    BY <2>1, <2>2 DEF Drawn, Ready
  <2>4. lineCounter' = order.cmd + Y - order.line
    <3>1. order.cmd \in Nat
      BY <1>6 DEF HostInv
    <3> QED BY <2>1, <2>2, <2>3, <3>1 DEF Ready
  <2>5. Ready(Y)'
    BY <1>6, <2>1, <2>3, <2>4 DEF Ready, Given
  <2>6. Drawn'
    BY <2>1, <2>2, <2>5 DEF Drawn, Drawing
  <2> QED BY <2>1, <2>6 DEF ServiceInv
<1>16. CASE SelectMode
  <2>1. /\ pc = "testMode" /\ pc' = (IF Bit7(ctrlWr) THEN "bitmap" ELSE "text")
        /\ Y' = Y /\ ~mwSr'
        /\ UNCHANGED <<intReq, ctrlWr, data, lineCounter, bitX>>
    BY <1>16 DEF SelectMode, PiocReadsCtrlWr, Y
  <2>2. Drawn
    BY <1>6, <2>1 DEF ServiceInv
  <2> HIDE DEF Y
  <2>3. Ready(Y) /\ ~mwSr /\ ctrlWr = order.cmd
    BY <2>1, <2>2 DEF Drawn, Ready
  <2>4. Ready(Y)'
    BY <1>6, <2>1, <2>3 DEF Ready, Given
  <2>5. Drawn'
    BY <1>6, <2>1, <2>2, <2>3, <2>4 DEF Drawn, Drawing
  <2> QED BY <2>1, <2>5 DEF ServiceInv
<1>17. CASE LeaveFrame
  BY <1>6, <1>17 DEF ServiceInv, LeaveFrame, Finished, sfrVars
<1>18. CASE NextLine
  <2>1. /\ pc = "lineEnd" /\ pc' = "pend" /\ Y' = Y
        /\ UNCHANGED <<intReq, mwSr, ctrlWr, data, lineCounter, bitX>>
    BY <1>18 DEF NextLine, Y
  <2>2. Finished
    BY <1>6, <2>1 DEF ServiceInv
  <2> HIDE DEF Y
  <2>3. Finished'
    BY <1>6, <2>1, <2>2 DEF Finished, Given, Due
  <2> QED BY <2>1, <2>3 DEF ServiceInv
<1>19. CASE PendInterrupt
  <2>1. /\ pc = "pend" /\ pc' = "testMw" /\ Y' = Y /\ ~bitX'
        /\ \/ bitX /\ intReq'
           \/ ~bitX /\ intReq' = intReq
        /\ UNCHANGED <<mwSr, ctrlWr, data, lineCounter>>
    BY <1>6, <1>19 DEF PendInterrupt, PiocRequestsInt, Y
  <2>2. Finished /\ Y \in Nat
    BY <1>6, <1>13, <2>1 DEF ServiceInv
  <2>3. hpc = "idle"
    BY <1>6, <2>2 DEF HostInv, Finished
  <2> HIDE DEF Y
  <2>4. Covers(order, Y) => Ready(Y)
    BY <1>6, <2>2 DEF Finished, Ready, HostInv
  <2>5. Ready(Y) => Ready(Y)'
    BY <1>6, <2>1 DEF Ready, Given
  <2>6. order.line < Y
    BY <2>2 DEF Finished
  <2>7. ~bitX => Covers(order, Y) /\ ~Bit3(order.cmd)
    BY <2>2 DEF Finished, Due
  <2>8. Serving'
    BY <1>6, <2>1, <2>3, <2>4, <2>5, <2>6, <2>7, <2>2 DEF Serving, Finished
  <2> QED BY <2>1, <2>8 DEF ServiceInv
<1> QED
  BY <1>7, <1>8, <1>9, <1>10, <1>11, <1>12, <1>14, <1>15, <1>16, <1>17, <1>18, <1>19
     DEF PiocNext

LEMMA AnsweredStep == Answered /\ [Next]_vars => Answered'
<1> SUFFICES ASSUME Answered, [Next]_vars PROVE Answered'
    OBVIOUS
<1>1. CASE InTime /\ PiocNext /\ UNCHANGED hostVars
  <2>1. PiocInv' /\ RasterInv'
    BY <1>1, PiocTyped, PiocRaster DEF Answered
  <2>2. HostInv'
    BY <1>1, RequestStands DEF HostInv, Answered, hostVars
  <2>3. ServiceInv' /\ RendersOrder'
    BY <1>1, StepOrdered
  <2> QED BY <2>1, <2>2, <2>3 DEF Answered
<1>2. CASE HostNext /\ UNCHANGED piocVars
  BY <1>2, HostTyped, HostServes DEF Answered
<1>3. CASE UNCHANGED vars
  <2>1. UNCHANGED <<sfrVars, piocVars, hostVars>>
    BY <1>3 DEF vars
  <2>2. PiocInv' /\ RasterInv'
    BY <2>1 DEF Answered, PiocInv, SfrTypeOK, PiocTypeOK, RasterInv, Drawing, Y, sfrVars, piocVars
  <2>3. HostInv' /\ RendersOrder'
    BY <2>1 DEF Answered, HostInv, RendersOrder, sfrVars, piocVars, hostVars
  <2>4. Y' = Y
    BY <2>1 DEF Y, piocVars
  <2> HIDE DEF Y
  <2>5. ServiceInv'
    BY <2>1, <2>4 DEF Answered, ServiceInv, Serving, Drawn, Drawing, Finished, Ready, Given, Due,
       sfrVars, piocVars, hostVars
  <2> QED BY <2>2, <2>3, <2>5 DEF Answered
<1> QED BY <1>1, <1>2, <1>3 DEF Next

-----------------------------------------------------------------------------
(* The orders of any host that answers in time are rendered as given, each  *)
(* byte column from the word and glyph row it was ordered from              *)
(* (scanline_bitmap, scanline_text, pend_interrupt).                        *)
THEOREM OrdersRendered == Spec => []RendersOrder
<1>1. Answered => RendersOrder
  BY DEF Answered
<1> QED BY AnsweredStarts, AnsweredStep, <1>1, PTL DEF Spec

(* The host is asked only when the next line needs it or when it wanted to  *)
(* be (asm: the two bit-3 tests that end scanline_text).                    *)
THEOREM AsksOnlyWhenDue == Spec => []PendsWhenDue
<1>1. Answered => PendsWhenDue
  BY DEF Answered, ServiceInv, Finished, Due, PendsWhenDue
<1> QED BY AnsweredStarts, AnsweredStep, <1>1, PTL DEF Spec

(* With bit 3 of the command set no line goes by unasked.                   *)
THEOREM Bit3AsksEveryLine == Spec => []EveryLineOnBit3
<1>1. Answered => EveryLineOnBit3
  BY DEF Answered, ServiceInv, Serving, HostInv, EveryLineOnBit3, HearsOfEveryLine
<1> QED BY AnsweredStarts, AnsweredStep, <1>1, PTL DEF Spec
=============================================================================
