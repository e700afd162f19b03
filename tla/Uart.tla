-------------------------------- MODULE Uart --------------------------------
(***************************************************************************)
(* _write and putchar of cvbs_main.cpp on the transmitter of USART4.  The  *)
(* transmit register is empty (TXE) some time after a byte was put into    *)
(* it, or never again: putchar counts its looks at TXE and gives up.       *)
(***************************************************************************)
EXTENDS Integers, Sequences

CONSTANT RETRIES    \* 10000 in the code

ASSUME UartAssumption == RETRIES \in Nat

CR == "CR"
LF == "LF"

VARIABLES
    txe,        \* STATR & USART_STATR_TXE
    line,       \* bytes the transmitter has been given in this _write
    buf,        \* characters _write has left
    upc,        \* "idle" outside _write, "next", or the byte putchar waits to send
    retries,    \* the local variable of putchar
    results     \* history: what putchar has returned for each character

uartVars == <<txe, line, buf, upc, retries, results>>

UartInit ==
    /\ txe = TRUE /\ line = <<>> /\ buf = <<>>
    /\ upc = "idle" /\ retries = 0 /\ results = <<>>

(* printf calls _write with the text made out.                              *)
BeginWrite(text) ==
    /\ upc = "idle" /\ upc' = "next"
    /\ buf' = text
    /\ UNCHANGED <<txe, line, retries, results>>

CallPutchar ==
    /\ upc = "next" /\ buf # <<>>
    /\ retries' = RETRIES
    /\ upc' = IF Head(buf) = LF THEN "cr" ELSE "char"
    /\ UNCHANGED <<txe, line, buf, results>>

Return(value) ==
    /\ upc' = "next" /\ buf' = Tail(buf)
    /\ results' = Append(results, <<Head(buf), value>>)

(* A write to the data register: a byte still in it is lost.                *)
Transmitted(byte) ==
    IF txe THEN Append(line, byte) ELSE [line EXCEPT ![Len(line)] = byte]

(* Mutants: the count starts again and again; the byte is sent anyway.      *)
PollEndless ==
    /\ upc \in {"cr", "char"} /\ ~txe
    /\ UNCHANGED uartVars
PollSendsAnyway ==
    /\ upc \in {"cr", "char"} /\ ~txe
    /\ IF retries = 0
         THEN /\ line' = IF line = <<>> THEN <<Head(buf)>> ELSE Transmitted(Head(buf))
              /\ Return(0) /\ UNCHANGED retries
         ELSE retries' = retries - 1 /\ UNCHANGED <<buf, upc, results, line>>
    /\ UNCHANGED txe

(* while (!(STATR & TXE)) if (!retries--) return 1;                         *)
Poll ==
    /\ upc \in {"cr", "char"} /\ ~txe
    /\ IF retries = 0
         THEN Return(1) /\ UNCHANGED retries
         ELSE retries' = retries - 1 /\ UNCHANGED <<buf, upc, results>>
    /\ UNCHANGED <<txe, line>>

SendCR ==       \* USART4->DATAR = '\r';
    /\ upc = "cr" /\ txe
    /\ line' = Transmitted(CR) /\ txe' = FALSE
    /\ upc' = "char"
    /\ UNCHANGED <<buf, retries, results>>

SendChar ==     \* USART4->DATAR = c; return 0;
    /\ upc = "char" /\ txe
    /\ line' = Transmitted(Head(buf)) /\ txe' = FALSE
    /\ Return(0)
    /\ UNCHANGED retries

EndWrite ==
    /\ upc = "next" /\ buf = <<>>
    /\ upc' = "idle"
    /\ line' = <<>> /\ results' = <<>> /\ retries' = 0
    /\ UNCHANGED <<txe, buf>>

UartStep == CallPutchar \/ Poll \/ SendCR \/ SendChar \/ EndWrite

(* The hardware takes the byte over and shifts it out.                      *)
TxEmpty ==
    /\ ~txe /\ txe' = TRUE
    /\ UNCHANGED <<line, buf, upc, retries, results>>

UartTypeOK ==
    /\ txe \in BOOLEAN
    /\ upc \in {"idle", "next", "cr", "char"}
    /\ retries \in 0 .. RETRIES

(* What the line may carry of a character after putchar has returned as it  *)
(* has: returning 0 all of it, a newline as CR and LF; returning 1 nothing, *)
(* or the CR of a newline alone.                                            *)
Carries(r) ==
    IF r[2] = 0 THEN {IF r[1] = LF THEN <<CR, LF>> ELSE <<r[1]>>}
    ELSE {<<>>} \cup (IF r[1] = LF THEN {<<CR>>} ELSE {})

(* The bytes l are in pieces what the results r say, one after the other:   *)
(* the piece of r[i] ends at cut[i].                                        *)
Says(r, l) ==
    \E cut \in [0 .. Len(r) -> 0 .. Len(l)] :
        /\ cut[0] = 0 /\ cut[Len(r)] = Len(l)
        /\ \A i \in 1 .. Len(r) :
             /\ cut[i - 1] <= cut[i]
             /\ SubSeq(l, cut[i - 1] + 1, cut[i]) \in Carries(r[i])

(* putchar tells the truth (cvbs_main.cpp:138-147): between two characters, *)
(* the line carries what its return values say, in order, whatever the      *)
(* transmitter did meanwhile, and no byte was put on top of another.        *)
PutcharTruthful == upc \in {"idle", "next"} => Says(results, line)
=============================================================================
