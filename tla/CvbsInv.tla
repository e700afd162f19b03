------------------------------- MODULE CvbsInv -------------------------------
(***************************************************************************)
(* The inductive invariant behind CleanFrame: what the two processors owe  *)
(* each other at every step of a picture line.                             *)
(***************************************************************************)
EXTENDS Cvbs

InHandler == hpc \in {"readRd", "words", "cmd", "ack"}

(* A handler runs only on a pending request, which it alone withdraws.      *)
HandlerInv ==
    /\ InHandler => intReq
    /\ hpc = "words" => word < NWORDS

Text == demoMode \in TextModes

(* The first n data words hold line y of the picture.                       *)
Filled(y, n) == \A w \in 0 .. n - 1 : data[w] = Lit(demoMode, y, 0, w).cell

CommandSet == ctrlWr = (IF Text THEN 0 ELSE 128)

(* The glyph row the line will use once TestCommand has looked at MW_SR.    *)
RowSet == Text => IF mwSr THEN Y % 8 = 0 ELSE lineCounter = Y % 8

Ready == Filled(Y, NWORDS) /\ CommandSet /\ RowSet

(* Only a text line inside a row of characters may be asked for without     *)
(* anything being needed: the handler will find nothing to do.              *)
Answerable == swMr /\ (Text /\ Y % 8 # 0 => Ready)

(* What holds while the host still has time to answer for line Y.           *)
Serving ==
    /\ hpc \in {"off", "idle"} => IF intReq THEN Answerable ELSE Ready
    /\ hpc = "readRd" => Answerable
    /\ hpc \in {"words", "cmd"} => ~swMr /\ scanline = Y /\ (Text => Y % 8 = 0)
    /\ hpc = "words" => Filled(Y, word)
    /\ hpc = "cmd"   => Filled(Y, NWORDS)
    /\ hpc = "ack"   => ~swMr /\ Ready

(* What line y leaves behind for the next one.                              *)
Drawn(y) ==
    /\ ~intReq /\ Filled(y, NWORDS) /\ CommandSet
    /\ IF Text THEN ~mwSr /\ lineCounter = (y % 8) + 1 /\ (y % 8 = 7 => bitX)
               ELSE bitX

ServiceInv ==
    clean =>
      /\ pc \in {"screen", "vblankInt"} => ~intReq
      /\ pc \in {"front", "vsync", "back", "startRd"} =>
             (hpc \in {"words", "cmd", "ack"} => ~swMr)
      /\ pc \in {"startWr", "startInt"} => ~intReq /\ swMr
      /\ pc = "testMw"   => Serving
      /\ pc = "readCmd"  => ~intReq /\ Filled(Y, NWORDS) /\ CommandSet
                            /\ (Text => Y % 8 = 0)
      /\ pc = "testMode" => ~intReq /\ Filled(Y, NWORDS) /\ CommandSet
                            /\ (Text => lineCounter = Y % 8)
      /\ Drawing => ~intReq /\ Filled(Y, NWORDS) /\ CommandSet
                    /\ (Text => lineCounter = Y % 8 /\ ~mwSr)
                    /\ (Text <=> pc = "text")
      /\ pc = "lineEnd"  => Drawn(Y - 1)
      /\ pc = "pend"     => Drawn(Y - 1) /\ (bitX => swMr)

(* With a prompt host and a silent main the active region is clean          *)
(* throughout.                                                              *)
PromptInv ==
    ~MAY_BE_LATE /\ ~MAIN_PRINTS =>
      /\ mpc = "vsync"
      /\ pc \in {"startWr", "startInt", "testMw", "readCmd", "testMode", "bitmap",
                 "text", "lineEnd", "pend"} => clean

IInv == TypeOK /\ HandlerInv /\ RasterInv /\ ServiceInv /\ CleanFrame /\ AckIsCurrent
=============================================================================
