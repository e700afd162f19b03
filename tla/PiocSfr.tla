------------------------------- MODULE PiocSfr -------------------------------
(***************************************************************************)
(* The register file through which the PIOC core and the RISC-V host talk. *)
(* It is hardware, not code of the repository: it is modelled from the way *)
(* cvbs_main.cpp and cvbs_text_32x24.pioc.asm use it and from the register *)
(* comments of the vendored PIOC_SFR.h.                                    *)
(*                                                                         *)
(*   SFR_CTRL_RD   written by the PIOC (sets SW_MR), read by the host      *)
(*                 (clears SW_MR); a host write changes no data and clears *)
(*                 INT_REQ                                                 *)
(*   SFR_CTRL_WR   written by the host (sets MW_SR), read by the PIOC      *)
(*                 (clears MW_SR); the PIOC cannot change its value        *)
(*   SFR_DATA_REG  32 bytes, written by the host as NWORDS 32-bit words    *)
(***************************************************************************)
EXTENDS Picture

CONSTANTS
    NWORDS,     \* number of 32-bit data words (8 in the hardware)
    WORD_COLS   \* byte columns in one word (4 in the hardware)

ASSUME SfrAssumption == NWORDS \in Nat \ {0} /\ WORD_COLS \in Nat \ {0}

VARIABLES
    intReq,     \* SYS_CFG.INT_REQ
    swMr,       \* SYS_CFG.DATA_SW_MR: CTRL_RD written and not read yet
    mwSr,       \* SYS_CFG.DATA_MW_SR: CTRL_WR written and not read yet
    ctrlRd,     \* SFR_CTRL_RD
    ctrlWr,     \* SFR_CTRL_WR
    data        \* SFR_DATA_REG0..31, one cell per 32-bit word

sfrVars == <<intReq, swMr, mwSr, ctrlRd, ctrlWr, data>>

Byte == 0 .. 255
Bit3(byte) == (byte \div 8) % 2 = 1
Bit7(byte) == (byte \div 128) % 2 = 1
Words == 0 .. NWORDS - 1
NCOLS == NWORDS * WORD_COLS

(* Every register reads zero after the reset in pioc_load.                  *)
SfrInit ==
    /\ intReq = FALSE /\ swMr = FALSE /\ mwSr = FALSE
    /\ ctrlRd = 0 /\ ctrlWr = 0
    /\ data = [w \in Words |-> NoCell]

-----------------------------------------------------------------------------
(* Accesses by the PIOC program.                                            *)

PiocWritesCtrlRd(v) == ctrlRd' = v /\ swMr' = TRUE
PiocReadsCtrlWr     == mwSr' = FALSE
PiocRequestsInt     == intReq' = TRUE

(* A PIOC write to CTRL_WR leaves the value alone; whether the access       *)
(* counts as the read that acknowledges MW_SR is not documented.            *)
PiocWritesCtrlWr == ctrlWr' = ctrlWr /\ mwSr' \in {mwSr, FALSE}

(* Accesses by the host.                                                    *)
HostReadsCtrlRd     == swMr' = FALSE
HostWritesCtrlRd    == intReq' = FALSE
HostWritesCtrlWr(v) == ctrlWr' = v /\ mwSr' = TRUE
HostWritesData(w, cell) == data' = [data EXCEPT ![w] = cell]

SfrTypeOK ==
    /\ intReq \in BOOLEAN /\ swMr \in BOOLEAN /\ mwSr \in BOOLEAN
    /\ ctrlRd \in Byte /\ ctrlWr \in Byte
    /\ data \in [Words -> Cell]
=============================================================================
