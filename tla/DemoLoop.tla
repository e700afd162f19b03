------------------------------ MODULE DemoLoop ------------------------------
(***************************************************************************)
(* The loop of main in cvbs_main.cpp (282-430) and the interrupt handler,  *)
(* on one processor and on the same frame buffer.  The handler interrupts  *)
(* main anywhere and changes demoMode, frame_counter and vram under it;    *)
(* main never interrupts the handler, so the handler's run on a vertical   *)
(* blanking is one action.  Its other runs change nothing main uses.       *)
(*                                                                         *)
(* A byte of vram is abstracted to the set of modes whose pixels are in it.*)
(* What the program takes for granted is time: main looks at frame_counter *)
(* again before LAG + 1 vertical blankings have passed.  (Its longest turn *)
(* is the one with Delay_Ms(250), some 16 frames; a mode lasts 256.)       *)
(***************************************************************************)
EXTENDS Picture, FiniteSets

CONSTANTS FRAMES_PER_MODE,   \* 256 in the code
          LAG,               \* most blankings in one turn of the loop
          BYTES,             \* sizeof(vram), 6144
          PAGE,              \* bytes of vram the text modes use, 768
          STROKE             \* most bytes a turn draws, the full picture apart

ASSUME DemoAssumption ==
    /\ FRAMES_PER_MODE \in Nat /\ LAG \in Nat \ {0}
    /\ 2 * LAG < FRAMES_PER_MODE
    /\ BYTES \in Nat \ {0} /\ PAGE \in 1 .. BYTES /\ STROKE \in Nat \ {0}

VARIABLES
    demoMode, frame,     \* frame is frame_counter % FRAMES_PER_MODE
    vram,
    pc,                  \* where main is
    vsyncWas, vsyncSaw,  \* vsync_was; frame_counter as the test in vsync read it
    seen, try,           \* demoMode as main last read it; the test it has come to
    done, at, reg,       \* bytes done; the byte being changed, as it was read
    lag,                 \* blankings since main last looked
    begun, drew          \* history: turns begun in this frame; the mode was drawn

mainVars == <<pc, vsyncWas, vsyncSaw, seen, try, done, at, reg>>
vars == <<demoMode, frame, vram, mainVars, lag, begun, drew>>

Bytes == 0 .. BYTES - 1

(* frame_counter, modulo a whole round of the modes.                        *)
Counter == <<demoMode, frame>>
Counters == DemoModes \X (0 .. FRAMES_PER_MODE - 1)

(* The modes main draws for, in the order of its tests.                     *)
Drawn == <<bouncyDot, bouncyDvd, ass, randomLines>>
DrawnModes == {bouncyDot, bouncyDvd, ass, randomLines}

(* After NVIC_EnableIRQ and before the memset of vram.                      *)
Init ==
    /\ demoMode = scrollingText /\ frame = 0
    /\ vram = [b \in Bytes |-> {}]
    /\ pc = "wipe" /\ done = 0 /\ at = 0 /\ reg = {}
    /\ vsyncWas = Counter /\ vsyncSaw = Counter /\ seen = scrollingText /\ try = 1
    /\ lag = 0 /\ begun = 0 /\ drew = FALSE

-----------------------------------------------------------------------------
(* Mutants: every blanking clears; only the text page is cleared.           *)
ClearedAlways(turn) == [b \in Bytes |-> {}]
ClearedPage(turn) == [b \in Bytes |-> IF turn /\ b < PAGE THEN {} ELSE vram[b]]

(* if (++frame_counter % 256 == 0) memset(vram.u8, 0, sizeof(vram));        *)
Cleared(turn) == IF turn THEN [b \in Bytes |-> {}] ELSE vram

(* Mutant: the page is filled when the mode changes only.                   *)
TypedOnce(mode, v) ==
    [b \in Bytes |-> IF mode \in TextModes /\ frame + 1 = FRAMES_PER_MODE /\ b < PAGE
                       THEN {mode} ELSE v[b]]

(* The text modes fill their page on every vertical blanking.               *)
Typed(mode, v) ==
    [b \in Bytes |-> IF mode \in TextModes /\ b < PAGE THEN {mode} ELSE v[b]]

(* PIOC_IRQHandler, scanline 0xFF.                                          *)
Vblank ==
    LET turn == (frame + 1) % FRAMES_PER_MODE = 0
        mode == IF turn THEN NextMode(demoMode) ELSE demoMode
    IN  /\ lag < LAG /\ lag' = lag + 1
        /\ frame' = (frame + 1) % FRAMES_PER_MODE
        /\ demoMode' = mode
        /\ vram' = Typed(mode, Cleared(turn))
        /\ begun' = 0
        /\ drew' = (drew /\ ~turn)
        /\ UNCHANGED mainVars

-----------------------------------------------------------------------------
(* memset(&vram, 0, sizeof(vram)), and u8g2_ClearBuffer in init_u8g2 once   *)
(* more, a byte at a time.                                                  *)
Wipe ==
    /\ pc = "wipe"
    /\ vram' = [vram EXCEPT ![done % BYTES] = {}]
    /\ IF done + 1 = 2 * BYTES
         THEN pc' = "vsync" /\ done' = 0
         ELSE pc' = pc /\ done' = done + 1
    /\ UNCHANGED <<demoMode, frame, vsyncWas, vsyncSaw, seen, try, at, reg, lag, begun, drew>>

(* vsync: while (vsync_was == frame_counter) ...                            *)
WaitFrame ==
    /\ pc = "vsync" /\ Counter # vsyncWas
    /\ vsyncSaw' = Counter
    /\ pc' = "take"
    /\ UNCHANGED <<demoMode, frame, vram, vsyncWas, seen, try, done, at, reg, lag, begun, drew>>

(* Mutant: vsync_was is not updated.                                        *)
TakeFrameNot ==
    /\ pc = "take" /\ pc' = "test" /\ try' = 1
    /\ seen' = demoMode
    /\ lag' = 0 /\ begun' = begun + 1
    /\ UNCHANGED <<demoMode, frame, vram, vsyncWas, vsyncSaw, done, at, reg, drew>>

(* vsync_was = frame_counter; neither is volatile, so this may or may not   *)
(* be another read of it.                                                   *)
TakeFrame ==
    /\ pc = "take" /\ pc' = "test" /\ try' = 1
    /\ vsyncWas' \in {vsyncSaw, Counter}
    /\ seen' = demoMode
    /\ lag' = 0 /\ begun' = begun + 1
    /\ UNCHANGED <<demoMode, frame, vram, vsyncSaw, done, at, reg, drew>>

(* if (demoMode == ...), four times; each may read it again or use what     *)
(* the last one read.                                                       *)
TestMode ==
    /\ pc = "test"
    /\ seen' \in {seen, demoMode}
    /\ IF seen' = Drawn[try] THEN pc' = "draw" /\ done' = 0 /\ try' = try
       ELSE IF try = 4       THEN pc' = "print" /\ UNCHANGED <<done, try>>
       ELSE try' = try + 1 /\ UNCHANGED <<pc, done>>
    /\ drew' = (drew \/ (pc' = "draw" /\ seen' = demoMode))
    /\ UNCHANGED <<demoMode, frame, vram, vsyncWas, vsyncSaw, at, reg, lag, begun>>

(* What setpixel and the drawing library do to a byte: read it, change some *)
(* of its pixels, write it.  The picture of `ass` goes through all of them. *)
ReadByte ==
    /\ pc = "draw"
    /\ IF seen = ass THEN done < BYTES /\ at' = done ELSE done < STROKE /\ at' \in Bytes
    /\ reg' = vram[at']
    /\ pc' = "write"
    /\ UNCHANGED <<demoMode, frame, vram, vsyncWas, vsyncSaw, seen, try, done, lag, begun, drew>>

WriteByte ==
    /\ pc = "write" /\ pc' = "draw"
    /\ vram' = [vram EXCEPT ![at] = (IF seen = ass THEN {} ELSE reg) \cup {seen}]
    /\ done' = done + 1
    /\ UNCHANGED <<demoMode, frame, vsyncWas, vsyncSaw, seen, try, at, reg, lag, begun, drew>>

(* The end of a branch: continue, except that `ass` is drawn only once.     *)
EndDrawing ==
    /\ pc = "draw"
    /\ IF seen = ass THEN done = BYTES /\ pc' = "spin" ELSE done > 0 /\ pc' = "vsync"
    /\ UNCHANGED <<demoMode, frame, vram, vsyncWas, vsyncSaw, seen, try, done, at, reg, lag, begun, drew>>

(* Mutants: without the barrier the first answer is kept for ever; the loop *)
(* waits for the text modes.                                                *)
SpinForever ==
    /\ pc = "spin" /\ pc' = (IF seen = ass THEN "spin" ELSE "vsync")
    /\ lag' = IF pc' = "spin" THEN 0 ELSE lag
    /\ UNCHANGED <<demoMode, frame, vram, vsyncWas, vsyncSaw, seen, try, done, at, reg, begun, drew>>
SpinToText ==
    /\ pc = "spin" /\ pc' = (IF demoMode \in TextModes THEN "vsync" ELSE "spin")
    /\ lag' = IF pc' = "spin" THEN 0 ELSE lag
    /\ UNCHANGED <<demoMode, frame, vram, vsyncWas, vsyncSaw, seen, try, done, at, reg, begun, drew>>

(* while (demoMode == ass) asm volatile("" ::: "memory");                   *)
Spin ==
    /\ pc = "spin" /\ pc' = (IF demoMode = ass THEN "spin" ELSE "vsync")
    /\ lag' = IF pc' = "spin" THEN 0 ELSE lag
    /\ UNCHANGED <<demoMode, frame, vram, vsyncWas, vsyncSaw, seen, try, done, at, reg, begun, drew>>

(* The diagnostics and Delay_Ms(250) of the modes main has nothing to draw  *)
(* for.                                                                     *)
PrintAndDelay ==
    /\ pc = "print" /\ pc' = "vsync"
    /\ UNCHANGED <<demoMode, frame, vram, vsyncWas, vsyncSaw, seen, try, done, at, reg, lag, begun, drew>>

Main == Wipe \/ WaitFrame \/ TakeFrame \/ TestMode \/ ReadByte \/ WriteByte
        \/ EndDrawing \/ Spin \/ PrintAndDelay

Next == Vblank \/ Main

Spec == Init /\ [][Next]_vars

(* Frames go on (FramesGoOn of Cvbs) and main is only ever interrupted.     *)
FairSpec == Spec /\ WF_vars(Vblank) /\ WF_vars(Main)

-----------------------------------------------------------------------------
TypeOK ==
    /\ demoMode \in DemoModes /\ frame \in 0 .. FRAMES_PER_MODE - 1
    /\ vram \in [Bytes -> SUBSET DemoModes]
    /\ pc \in {"wipe", "vsync", "take", "test", "draw", "write", "spin", "print"}
    /\ vsyncWas \in Counters /\ vsyncSaw \in Counters
    /\ seen \in DemoModes /\ try \in 1 .. 4
    /\ done \in Nat /\ at \in Bytes /\ reg \in SUBSET DemoModes
    /\ lag \in 0 .. LAG /\ begun \in Nat /\ drew \in BOOLEAN

(* Pixels that are not of the mode on show: the handler has cleared vram    *)
(* (cvbs_main.cpp:185), so there are some only if main was interrupted in   *)
(* the middle of a turn, and in no more bytes than that one turn draws.     *)
OldBytes == {b \in Bytes : ~(vram[b] \subseteq {demoMode})}
OldPixels == Cardinality(OldBytes) <= STROKE

(* The text modes and main share the first bytes of vram (282, 198, 26):    *)
(* main spoils the page at most in the first LAG frames of a mode, or of    *)
(* the program, and from the frame after them on it is right.               *)
TextPageTrue ==
    demoMode \in TextModes /\ frame > LAG =>
        \A b \in 0 .. PAGE - 1 : vram[b] = {demoMode}

(* The picture of `ass` is drawn once, in front of a wait that lasts to the *)
(* end of the mode (394-396): all of it has to be there by then.            *)
PictureWhole == pc = "spin" /\ demoMode = ass => \A b \in Bytes : vram[b] = {ass}

(* No mode that main draws for ends before main has begun to draw for it,   *)
(* although main may be late for its beginning and may have read demoMode   *)
(* when it was another (292, 361, 391, 402).                                *)
EveryModeGetsItsTurn ==
    [][demoMode' # demoMode /\ demoMode \in DrawnModes => drew]_vars

(* vsync holds main to the frame rate (241-246): a turn begun late may be   *)
(* followed by one in the same frame, but never by two.                     *)
Paced == begun <= 2

(* Main never hangs, in vsync or in the wait of `ass`: each of the modes    *)
(* it draws for is drawn again and again while it is on show.               *)
EveryDemoDrawn ==
    \A m \in DrawnModes : []<>(pc = "draw" /\ seen = m /\ demoMode = m)
=============================================================================
