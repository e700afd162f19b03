----------------------------- MODULE CvbsClaims -----------------------------
(***************************************************************************)
(* What comments and documentation of the repository say of the program    *)
(* and the program does not do.                                            *)
(***************************************************************************)
EXTENDS Cvbs

(* cvbs_main.cpp:208 of the text command 0x00: "Display text from line 0,   *)
(* do not interrupt until 8th scanline."  Requests in a text frame are made *)
(* where a row of characters ends.  Only the second text mode is looked at, *)
(* so that the value GP_BIT_X has at reset plays no part.                   *)
TextRequests ==
    pc = "pend" /\ bitX /\ demoMode = staticText => ctrlRd % 8 = 0

(* README: "full-bitmap takes 256*192/8 = 6144 bytes for framebuffer": the  *)
(* lines of vram the handler reads (cvbs_main.cpp:226-234) are lines of it. *)
VramInBounds ==
    hpc = "words" /\ demoMode \notin TextModes \cup {chess} => scanline < V_ACTIVE

(* README: "On interrupt, PIOC code sets SFR_CTRL_RD to the scanline it is  *)
(* about to render.  Host must fill PIOC SFR_DATA_R0 to R31 with 32 bytes   *)
(* of image data": a handler about to acknowledge a request has read the    *)
(* line number that came with it.                                           *)
RequestAnswered == hpc = "ack" => scanline = ctrlRd
=============================================================================
