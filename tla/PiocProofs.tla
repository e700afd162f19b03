------------------------------ MODULE PiocProofs ------------------------------
(***************************************************************************)
(* What the video program keeps by itself, whatever program the host runs: *)
(* types, and where the raster is.                                         *)
(***************************************************************************)
EXTENDS PiocVideo, TLAPS

USE SfrAssumption
    DEF SfrAssumption, Byte, Words, BLANK_LINES

-----------------------------------------------------------------------------
LEMMA ColumnCount == NCOLS \in Nat \ {0}
<1>1. \A m, n \in Nat \ {0} : m * n \in Nat \ {0}
  OBVIOUS
<1> QED BY <1>1 DEF NCOLS

LEMMA Remainder == \A n \in Int, d \in Nat \ {0} : n % d \in 0 .. d - 1
OBVIOUS

(* A column belongs to one of the data words.                               *)
LEMMA ColumnWord == \A c \in 0 .. NCOLS - 1 : c \div WORD_COLS \in Words
<1> TAKE c \in 0 .. NCOLS - 1
<1> DEFINE q == c \div WORD_COLS
<1>1. c \in Nat /\ c < NWORDS * WORD_COLS
  BY ColumnCount DEF NCOLS
<1>2. q \in Nat /\ q * WORD_COLS <= c
  BY <1>1
<1>3. ASSUME q >= NWORDS PROVE FALSE
  <2>1. \A i, j, k \in Nat : i <= j => i * k <= j * k
    OBVIOUS
  <2>2. NWORDS * WORD_COLS <= q * WORD_COLS
    BY <1>2, <1>3, <2>1
  <2> HIDE DEF q
  <2> QED BY <1>1, <1>2, <2>2
<1> HIDE DEF q
<1>4. q \in 0 .. NWORDS - 1
  BY <1>2, <1>3
<1> QED BY <1>4 DEF q

PiocInv == SfrTypeOK /\ PiocTypeOK

(* The registers and the program at reset.                                  *)
LEMMA PiocStarts == SfrInit /\ PiocInit => PiocInv /\ RasterInv
<1> SUFFICES ASSUME SfrInit, PiocInit PROVE PiocInv /\ RasterInv
    OBVIOUS
<1>1. NoCell \in Cell /\ Dark \in Beam
  BY DEF NoCell, Cell, Dark, Beam
<1>2. intReq \in BOOLEAN /\ swMr \in BOOLEAN /\ mwSr \in BOOLEAN
  BY Zenon DEF SfrInit
<1>3. SfrTypeOK
  BY <1>1, <1>2 DEF SfrInit, SfrTypeOK
<1>4. PiocTypeOK
  BY <1>1, ColumnCount DEF PiocInit, PiocTypeOK, PiocPc
<1>5. RasterInv
  BY DEF SfrInit, PiocInit, RasterInv, Drawing, Y
<1> QED BY <1>3, <1>4, <1>5 DEF PiocInv

(* A turn of a porch loop.                                                  *)
LEMMA TypePorch ==
    ASSUME PiocInv, NEW here, NEW there \in PiocPc, NEW load \in Byte,
           PorchLine(here, there, load)
    PROVE  PiocInv'
<1> USE DEF PiocInv, SfrTypeOK, PiocTypeOK, sfrVars
<1>1. (lineCounter - 1) % 256 \in 0 .. 255
  BY Remainder
<1>2. lineCounter' \in Byte
  BY <1>1 DEF PorchLine
<1>3. pc' \in PiocPc
  BY DEF PorchLine
<1>4. scan' \in Nat
  BY DEF PorchLine
<1>5. UNCHANGED <<sfrVars, bitX, col, beam>>
  BY DEF PorchLine
<1> QED BY <1>2, <1>3, <1>4, <1>5

(* Every step of the program keeps the types.                               *)
LEMMA PiocTyped == PiocInv /\ PiocNext => PiocInv'
<1> SUFFICES ASSUME PiocInv, PiocNext PROVE PiocInv'
    OBVIOUS
<1> USE DEF PiocInv, SfrTypeOK, PiocTypeOK, PiocPc, sfrVars
<1>2. CASE SignalVblank BY <1>2 DEF SignalVblank, PiocWritesCtrlRd
<1>3. CASE RequestVblank
  BY <1>3, VideoAssumption DEF RequestVblank, PiocRequestsInt, VideoAssumption
<1>5. CASE FrontPorch \/ VerticalSync \/ BackPorch
  <2>1. V_SYNC \in Byte /\ V_BACK \in Byte /\ 0 \in Byte
    BY VideoAssumption DEF VideoAssumption
  <2>2. "vsync" \in PiocPc /\ "back" \in PiocPc /\ "startRd" \in PiocPc
    OBVIOUS
  <2> HIDE DEF PiocInv, PiocPc, Byte
  <2>3. CASE FrontPorch BY <2>1, <2>2, <2>3, TypePorch DEF FrontPorch
  <2>4. CASE VerticalSync BY <2>1, <2>2, <2>4, TypePorch DEF VerticalSync
  <2>5. CASE BackPorch BY <2>1, <2>2, <2>5, TypePorch DEF BackPorch
  <2> QED BY <1>5, <2>3, <2>4, <2>5
<1>6. CASE StartActive BY <1>6 DEF StartActive, PiocWritesCtrlRd
<1>7. CASE ClearCommand BY <1>7 DEF ClearCommand, PiocWritesCtrlWr
<1>8. CASE RequestFirstLine BY <1>8 DEF RequestFirstLine, PiocRequestsInt
<1>9. CASE TestCommand BY <1>9 DEF TestCommand
<1>10. CASE LatchCommand BY <1>10 DEF LatchCommand, PiocReadsCtrlWr
<1>11. CASE SelectMode BY <1>11 DEF SelectMode, PiocReadsCtrlWr
<1>12. CASE BitmapColumn \/ TextColumn
  <2>1. PICK row \in 0 .. 7 : pc \in {"bitmap", "text"} /\ ShowColumn(row)
    BY <1>12 DEF BitmapColumn, TextColumn
  <2>2. col \in 0 .. NCOLS - 1
    BY <2>1, ColumnCount DEF ShowColumn
  <2>20. col \div WORD_COLS \in Words
    BY <2>2, ColumnWord
  <2>3. data[col \div WORD_COLS] \in Cell
    BY <2>20
  <2>4. beam' \in Beam
    BY <2>1, <2>3, VideoAssumption DEF ShowColumn, Beam, VideoAssumption
  <2>5. /\ col' \in 0 .. NCOLS
        /\ UNCHANGED <<sfrVars, pc, lineCounter, bitX, scan>>
    BY <2>1, <2>2, ColumnCount DEF ShowColumn
  <2> QED BY <2>4, <2>5
<1>13. CASE EndBitmap
  <2>1. pc' \in PiocPc /\ col' \in 0 .. NCOLS /\ scan' \in Nat
    BY <1>13, ColumnCount DEF EndBitmap, EndColumns
  <2>2. beam' \in Beam
    BY <1>13 DEF EndBitmap, EndColumns, Dark, Beam, NoCell, Cell
  <2>3. bitX' = TRUE /\ UNCHANGED <<sfrVars, lineCounter>>
    BY <1>13 DEF EndBitmap
  <2> QED BY <2>1, <2>2, <2>3
<1>14. CASE EndText
  <2>1. (lineCounter + 1) % 256 \in 0 .. 255
    BY Remainder
  <2>2. lineCounter' \in Byte
    BY <1>14, <2>1 DEF EndText
  <2>3. bitX' \in BOOLEAN /\ mwSr' \in BOOLEAN
    BY <1>14 DEF EndText, PiocReadsCtrlWr
  <2>4. pc' \in PiocPc /\ col' \in 0 .. NCOLS /\ scan' \in Nat
    BY <1>14, ColumnCount DEF EndText, EndColumns
  <2>5. beam' \in Beam
    BY <1>14 DEF EndText, EndColumns, Dark, Beam, NoCell, Cell
  <2>6. UNCHANGED <<intReq, swMr, ctrlRd, ctrlWr, data>>
    BY <1>14 DEF EndText
  <2> QED BY <2>2, <2>3, <2>4, <2>5, <2>6
<1>15. CASE LeaveFrame BY <1>15 DEF LeaveFrame
<1>16. CASE NextLine BY <1>16 DEF NextLine, PiocWritesCtrlRd
<1>17. CASE PendInterrupt BY <1>17 DEF PendInterrupt, PiocRequestsInt
<1> QED
  BY <1>2, <1>3, <1>5, <1>6, <1>7, <1>8, <1>9, <1>10, <1>11, <1>12, <1>13, <1>14,
     <1>15, <1>16, <1>17 DEF PiocNext

(* The program never withdraws a request.                                   *)
LEMMA RequestStands == PiocNext /\ intReq => intReq'
BY DEF PiocNext, SignalVblank, RequestVblank, FrontPorch, VerticalSync, BackPorch, PorchLine,
       StartActive, ClearCommand, RequestFirstLine, TestCommand, LatchCommand, SelectMode,
       BitmapColumn, TextColumn, ShowColumn, EndBitmap, EndText, EndColumns, LeaveFrame,
       NextLine, PendInterrupt, sfrVars, PiocRequestsInt

(* The program counter, the line counter and CTRL_RD agree on the scanline  *)
(* being drawn.                                                             *)
LEMMA PiocRaster == PiocInv /\ RasterInv /\ PiocNext => RasterInv'
<1> SUFFICES ASSUME PiocInv, RasterInv, PiocNext PROVE RasterInv'
    OBVIOUS
<1>1. /\ lineCounter \in 0 .. 255 /\ scan \in Nat /\ ctrlRd \in 0 .. 255
      /\ pc \in PiocPc /\ col \in Nat
      /\ V_FRONT \in 1 .. 255 /\ V_SYNC \in 1 .. 255 /\ V_BACK \in 1 .. 255
      /\ V_ACTIVE \in 1 .. 255
  BY VideoAssumption, ColumnCount
     DEF PiocInv, SfrTypeOK, PiocTypeOK, VideoAssumption
<1> USE DEF RasterInv, Drawing, Y, sfrVars, PiocPc
<1>2. CASE SignalVblank BY <1>1, <1>2 DEF SignalVblank, PiocWritesCtrlRd
<1>3. CASE RequestVblank BY <1>1, <1>3 DEF RequestVblank
<1>40. ASSUME pc \in {"front", "vsync", "back"}
       PROVE  (lineCounter - 1) % 256 = lineCounter - 1
  <2>1. lineCounter \in 1 .. 255
    BY <1>1, <1>40
  <2> QED BY ONLY <2>1
<1>4. CASE FrontPorch
  <2>1. /\ pc = "front" /\ scan' = scan + 1 /\ UNCHANGED <<sfrVars, col, beam>>
        /\ \/ lineCounter # 1 /\ lineCounter' = lineCounter - 1 /\ pc' = "front"
           \/ lineCounter = 1 /\ lineCounter' = V_SYNC /\ pc' = "vsync"
    BY <1>1, <1>4, <1>40 DEF FrontPorch, PorchLine
  <2> QED BY <1>1, <2>1
<1>5. CASE VerticalSync
  <2>1. /\ pc = "vsync" /\ scan' = scan + 1 /\ UNCHANGED <<sfrVars, col, beam>>
        /\ \/ lineCounter # 1 /\ lineCounter' = lineCounter - 1 /\ pc' = "vsync"
           \/ lineCounter = 1 /\ lineCounter' = V_BACK /\ pc' = "back"
    BY <1>1, <1>5, <1>40 DEF VerticalSync, PorchLine
  <2> QED BY <1>1, <2>1
<1>6. CASE BackPorch
  <2>1. /\ pc = "back" /\ scan' = scan + 1 /\ UNCHANGED <<sfrVars, col, beam>>
        /\ \/ lineCounter # 1 /\ lineCounter' = lineCounter - 1 /\ pc' = "back"
           \/ lineCounter = 1 /\ lineCounter' = 0 /\ pc' = "startRd"
    BY <1>1, <1>6, <1>40 DEF BackPorch, PorchLine
  <2> QED BY <1>1, <2>1
<1>7. CASE StartActive BY <1>1, <1>7 DEF StartActive, PiocWritesCtrlRd
<1>8. CASE ClearCommand BY <1>1, <1>8 DEF ClearCommand
<1>9. CASE RequestFirstLine BY <1>1, <1>9 DEF RequestFirstLine
<1>10. CASE TestCommand BY <1>1, <1>10 DEF TestCommand
<1>11. CASE LatchCommand BY <1>1, <1>11 DEF LatchCommand
<1>12. CASE SelectMode BY <1>1, <1>12 DEF SelectMode
<1>13. CASE BitmapColumn \/ TextColumn
  BY <1>1, <1>13 DEF BitmapColumn, TextColumn, ShowColumn
<1>14. CASE EndBitmap BY <1>1, <1>14 DEF EndBitmap, EndColumns
<1>15. CASE EndText BY <1>1, <1>15 DEF EndText, EndColumns
<1>160. ASSUME pc = "lineEnd" PROVE (ctrlRd + 1) % 256 = Y /\ Y \in 1 .. V_ACTIVE
  <2>1. Y \in 1 .. V_ACTIVE /\ ctrlRd + 1 = Y
    BY <1>1, <1>160
  <2> HIDE DEF Y, RasterInv
  <2> QED BY <2>1, <1>1
<1>16. CASE LeaveFrame
  <2>1. Y = V_ACTIVE /\ pc = "lineEnd" /\ col = 0 /\ beam = Dark
    BY <1>16, <1>160 DEF LeaveFrame
  <2> QED BY <1>1, <1>16, <2>1 DEF LeaveFrame
<1>17. CASE NextLine
  <2>1. Y \in 1 .. V_ACTIVE - 1 /\ ctrlRd' = Y /\ pc = "lineEnd" /\ col = 0 /\ beam = Dark
    BY <1>1, <1>17, <1>160 DEF NextLine, PiocWritesCtrlRd
  <2> QED BY <1>1, <1>17, <2>1 DEF NextLine
<1>18. CASE PendInterrupt BY <1>1, <1>18 DEF PendInterrupt
<1> QED
  BY <1>2, <1>3, <1>4, <1>5, <1>6, <1>7, <1>8, <1>9, <1>10, <1>11, <1>12, <1>13,
     <1>14, <1>15, <1>16, <1>17, <1>18 DEF PiocNext
=============================================================================
