------------------------------ MODULE Contract ------------------------------
(***************************************************************************)
(* The PIOC program with any host program, not only that of cvbs_main.cpp: *)
(* one that answers in time and puts on the screen whatever mixture of     *)
(* bitmap lines and rows of characters it likes, a row from any of its     *)
(* glyph lines on.  The host is external: it does what the interface       *)
(* described in README.md allows it to do.                                 *)
(***************************************************************************)
EXTENDS PiocVideo

CONSTANT COMMANDS    \* the values the host may write to SFR_CTRL_WR

ASSUME CommandAssumption == COMMANDS \subseteq Byte

VARIABLES
    hpc,        \* the next step of the host's handler
    scanline,   \* the line number of the last request it has read
    word,       \* next data word to write
    order       \* the last command given for a line, and that line

hostVars == <<hpc, scanline, word, order>>
vars == <<sfrVars, piocVars, hostVars>>

Row(o) == o.cmd % 8

(* An order for bitmap is good for one line; one for text up to and with    *)
(* the last glyph line of its row.                                          *)
Covers(o, y) == IF Bit7(o.cmd) THEN y = o.line ELSE Row(o) + y - o.line \in 0 .. 7

HostInit ==
    /\ hpc = "idle" /\ scanline = 255 /\ word = 0
    /\ order = [cmd |-> 128, line |-> 255]

ReadRequest ==
    /\ hpc = "idle" /\ intReq
    /\ hpc' = "decide"
    /\ HostReadsCtrlRd
    /\ scanline' = ctrlRd
    /\ word' = 0
    /\ UNCHANGED <<intReq, mwSr, ctrlRd, ctrlWr, data, order>>

(* The first line needs an order, and so does every line that the last one  *)
(* does not cover; at any other request the host may give one.              *)
Decide ==
    /\ hpc = "decide"
    /\ \/ hpc' = "words"
       \/ hpc' = "ack" /\ (scanline = 255 \/ (scanline # 0 /\ Covers(order, scanline)))
    /\ UNCHANGED <<sfrVars, scanline, word, order>>

WriteWord ==
    /\ hpc = "words"
    /\ HostWritesData(word, [src |-> "bitmap", at |-> scanline, word |-> word])
    /\ word' = word + 1
    /\ hpc' = (IF word + 1 = NWORDS THEN "cmd" ELSE "words")
    /\ UNCHANGED <<intReq, swMr, mwSr, ctrlRd, ctrlWr, scanline, order>>

WriteCommand ==
    /\ hpc = "cmd" /\ hpc' = "ack"
    /\ \E c \in COMMANDS :
         HostWritesCtrlWr(c) /\ order' = [cmd |-> c, line |-> scanline]
    /\ UNCHANGED <<intReq, swMr, ctrlRd, data, scanline, word>>

Acknowledge ==
    /\ hpc = "ack" /\ hpc' = "idle"
    /\ HostWritesCtrlRd
    /\ UNCHANGED <<swMr, mwSr, ctrlRd, ctrlWr, data, scanline, word, order>>

HostNext == ReadRequest \/ Decide \/ WriteWord \/ WriteCommand \/ Acknowledge

Init == SfrInit /\ PiocInit /\ HostInit

(* The host has answered by the start of the active region and by the end   *)
(* of each horizontal back porch.                                           *)
InTime == pc \in {"startRd", "testMw"} => ~intReq

Next == \/ InTime /\ PiocNext /\ UNCHANGED hostVars
        \/ HostNext /\ UNCHANGED piocVars

Spec == Init /\ [][Next]_vars

-----------------------------------------------------------------------------
(* Whatever is asked for is what is drawn: each column shows the data of    *)
(* the last order, as that order says, in the row it has advanced to; and   *)
(* no line is ever drawn that the last order does not cover, so a request   *)
(* was made wherever one was needed (README: "PIOC code will render the 8   *)
(* scanlines, and interrupt as soon as it is ready for the next line").     *)
RendersOrder ==
    beam # Dark =>
      /\ Covers(order, beam.line)
      /\ beam.cell = [src |-> "bitmap", at |-> order.line, word |-> beam.col \div WORD_COLS]
      /\ IF Bit7(order.cmd) THEN beam.kind = "bitmap"
         ELSE beam.kind = "text" /\ beam.row = Row(order) + beam.line - order.line

(* The host is not disturbed while a row of characters is being drawn,      *)
(* unless it asked to be (bit 3, asm:327); the line after the first is an   *)
(* exception, which run claim_text_requests is about.                       *)
PendsWhenDue ==
    pc = "pend" /\ bitX /\ Y > 1 => Bit3(order.cmd) \/ ~Covers(order, Y)

(* A host that sets bit 3 hears of every line: when the command is looked   *)
(* for, the request for this very line has been read.                       *)
HearsOfEveryLine(asked(_)) ==
    pc = "testMw" /\ ~intReq /\ asked(order.cmd) => scanline = Y

EveryLineOnBit3 == HearsOfEveryLine(Bit3)

(* README: "If SFR_CTRL_WR bit 6 is set, then interrupt is requested a the  *)
(* end of each scanline (not after full glyph is drawn)."                   *)
Bit6(byte) == (byte \div 64) % 2 = 1
EveryLineOnBit6 == HearsOfEveryLine(Bit6)
=============================================================================
