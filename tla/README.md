# A verification of ch32x035_cvbs_pioc

The program generates a composite video signal on a CH32X035. A RISC-V core (the
*host*) and a small coprocessor (the *PIOC*) share a register file: the PIOC times
every sync pulse and every pixel in software, and asks the host for the data of the
next picture line by an interrupt. Nothing makes one wait for the other, so what is
on the screen depends on the order and the instants of their accesses. This
directory models that, and the rest of the program around it, in TLA+, checks it with
TLC and proves all of its safety with TLAPS.

File names below are relative to `src/`; `asm` is `cvbs_text_32x24.pioc.asm`, `cpp`
is `cvbs_main.cpp`, `timer` is `timer_ntsc.asm`, `makefont` is `fonts/makefont_zx81_ascii.py`.

## The system

| component | source | state | operations | interacts with |
|---|---|---|---|---|
| video program | asm | program counter, LINE_COUNTER, GP_BIT_X, CTRL_RD | vertical blanking, one active line, mode selection, pending an interrupt | mailbox (both ways), scanline clock |
| interrupt handler | cpp:155-239 | frame_counter, demoMode, vram (text modes) | PIOC_IRQHandler, operator++ | mailbox, vram with main |
| mailbox | hardware | INT_REQ, SW_MR, MW_SR, CTRL_RD, CTRL_WR, 32 data bytes | reads and writes with side effects on the flags | both processors |
| scanline clock | timer | TMR0, phase of the poll | timer_ntsc_setup, timer_ntsc_sync, fail loop | every line of the video program |
| pixel clock | asm:121-370 | OUT0, OUT1, SFR_DATA_EXCH, A | gen_sync, back porch, bitmap_out_byte, text_glyph_loop | scanline clock, data registers |
| interface for other hosts | README.md:5-16 | - | commands: mode, glyph line, interrupt per line | video program |
| demo loop | cpp:241-430 | vsync_was, vram, static positions | vsync, setpixel, one branch per demo, diagnostics | handler (demoMode, frame_counter, vram), mailbox |
| bouncing walkers | cpp:292-386 | position and accumulator per axis | one turn of a loop | vram |
| glyph lookup, font | asm:336-346, makefont | code RAM | write a glyph row, rdcode | start-up, pixel clock |
| generator, memory test | cpp:34-84, 250-256 | seed, code RAM | memtest_seed_next, memfill, memcheck, my_random | start-up, demos |
| start-up | cpp:102-117, 258-290 | SYS_CFG, code RAM | clock, pins, messages, memory test, pioc_load, interrupt enable | all |
| UART console | cpp:119-153 | transmit register, retries | putchar, _write | main |
| drawing library binding | u8g2_256x192.h | tile buffer pointer | setup tables | vram |

What is hard here: two processors interleave on registers whose flags change by
reading; a request, its line number and its acknowledgement are three accesses; a
command must be there at one instant of the line; flags survive from one frame to
the next; the picture depends on instruction counts done by hand; main and the handler
share demoMode, frame_counter and vram, none of them volatile or guarded, and main
changes bytes of vram by reading, modifying and writing them back.

What makes each part correct: the video program keeps to the raster and never
waits; the handler answers the line it is asked for and acknowledges nothing else;
together they show the picture of one mode in each frame; lines last the same to the
clock and pixels are where they belong; the interface draws what it is told to;
demos stay in the frame buffer and finish; what an interrupted turn of main leaves in the
frame buffer is little and main misses no mode; the console gives up instead of hanging;
the memory test finds a stuck line; the PIOC starts with a whole image, and finds in it
the glyph it looks for.

## Modules

`Picture` holds the demo modes and what each puts on the screen; `PiocSfr` the
mailbox. `PiocVideo` and `HostIrq` extend it with the two programs, `Cvbs` composes
them. `Screen` is the abstract specification.

```
Picture <- PiocSfr <- PiocVideo --+-- Cvbs <- CvbsInv <- CvbsProofs <- ScreenProofs
                   <- HostIrq  ---+    |  \-- CvbsClaims
        <- Screen  <--- INSTANCE ------+
        <- DemoLoop <- DemoLoopProofs
PiocVideo <- PiocProofs <- CvbsProofs, ContractProofs
PiocVideo <- Contract <- ContractProofs
Generator, Uart <- StartUp <- StartUpProofs      ScanlineClock <- ScanlineProofs
BouncyDot <- Walkers <- WalkersProofs
```

**PiocSfr.** External: hardware, modelled from its use and from the register
comments of `doc/PIOC/SW/PIOC_SFR.h`. A PIOC write to CTRL_RD sets SW_MR, a host read
clears it, a host write of it clears INT_REQ; a host write to CTRL_WR sets MW_SR, any
PIOC read clears it. Whether a PIOC write to CTRL_WR (asm:94) clears MW_SR is not
documented, so both outcomes are possible.

**PiocVideo.** One action per access to a register the host shares, with the
private work around it: `SignalVblank`, `RequestVblank` (asm:62-68); the three porch
loops, a dark scanline per step; `StartActive`, `ClearCommand`, `RequestFirstLine`
(asm:90-99); `TestCommand`, `LatchCommand`, `SelectMode` (asm:152-171: three accesses
that the host can come between); `BitmapColumn` and `TextColumn`, a byte column per
step; `EndBitmap`, `EndText`; `LeaveFrame`, `NextLine`, `PendInterrupt` (asm:101-118).
`scan` counts scanlines and `beam` says what OUT0 shows; both are history. A data
word is a *cell* that names its origin (text row, chess square, frame-buffer line),
not its bits.

**HostIrq.** One action per register access of the handler: `EnterIrq` (test of
SW_MR), `ReadScanline` (with the frame count, mode change and choice of branch),
`WriteWord` eight times, `WriteCommand`, `Acknowledge`. `EnableIrq` is the instant of
NVIC_EnableIRQ, after the PIOC has started.

**Cvbs.** The composition. The code relies on time in two places, and the model
names them: the host must have answered the vertical blanking when the active region
starts (asm:91, 70 lines later), and a line's request by the end of the horizontal
back porch (asm:166, some 14 us later). `MAY_BE_LATE = FALSE` lets the PIOC pass these
points only with no request outstanding; with `TRUE` it always passes. `clean` is
history: no deadline has been missed since this frame went active. `MAIN_PRINTS` adds
main's loop, `MainStep`, as far as it decides when main touches the mailbox, which is in
one place, the diagnostic read of CTRL_RD (cpp:413): `Vsync` holds main until a blanking
has been counted since it last passed (`counted` is `frame_counter # vsync_was`, set by
the handler's step that increments frame_counter), `TestModes` goes on to the printf in
the modes main draws nothing for and ends the turn in the others, `PrintStatus` reads the
register. So main prints at most once for each counted blanking. It may be slow at any of
these steps, or come to vsync late (the dump of the boot area, Delay_Ms(250)), and then
it passes vsync at any point of a frame. What else a turn does is in DemoLoop.

**Screen.** What a viewer is promised: frames of BLANK_LINES dark lines and V_ACTIVE
picture lines in raster order, each column that of one demo mode, the mode changing
only while the screen is dark.

**Contract.** The same PIOC program with any host that keeps to the interface: it
answers in time, fills the data words and gives any command of a set for any line it
is asked for, at the least where the last order no longer covers the line. The host
is external; `order` is history.

**ScanlineClock.** The program clock by clock. An action is an instruction or a
straight run of them, with the clocks of the program's own comments. `clock` is the
phase against TMR0; Init allows every value the timer can hold when it is enabled.
The column loops are lists of instructions. How many lines a region has and what a
line shows is left open, since PiocVideo has it.

**DemoLoop.** Main's loop (cpp:282-430) and the handler on one processor: the handler may
come between any two steps of main and runs to its end, so its run on a vertical blanking
is the one action `Vblank` (count, clear at a mode change, fill the page of a text mode).
The steps of main are the accesses to what they share: a byte of the two wipes, the two
reads of frame_counter in vsync, the four tests of demoMode, and for each byte that is
drawn a read and a write. demoMode and frame_counter are not volatile, so where the
compiler may keep a value the model chooses: each test of demoMode uses the last value
read or a new one, `vsync_was` is given the value compared or a new one. The wait behind
`ass` has a barrier and reads again. A byte of the frame buffer is the set of modes whose
pixels are in it. Turns are bounded by time only: a blanking may come at most LAG times
before main looks again.

**BouncyDot, Walkers.** The walker of bouncyDot: an axis is position, slope and
accumulator; `Forward` and `Backward` are its two ifs, in order, the second with what the
first left; a slope is any value my_random can return for the bounds given. `Walkers` adds
the logo of bouncyDvd, which is turned round by a comparison for equality, as another
thing main may do in a frame.

**Generator.** `memtest_seed_next` on 32-bit words, as pairs of halves since TLC's own
integers are too narrow for the sum, and the scaling of my_random.

**Uart.** `putchar` as the loop it is: a look at TXE per step, the retry count it shares
between the two waits, the CR it puts before a newline. The transmitter is external: it
may become empty at any time, or never again.

**StartUp.** Main from its first message to the enabling of the interrupt, in order:
messages through `Uart`, the memory test on a code RAM one line of whose address or data
bus may be stuck, pioc_load a byte at a time. `Image` is what the generator and the
assembler make of the program and the font: `FontWord(i)` is the i-th DW. `GlyphRow` is
the address arithmetic of text_glyph_loop, on the memory as it was loaded.

## Runs

| run | specification | what it shows |
|---|---|---|
| `cvbs_ntsc` | FairSpec, prompt host, silent main | with the geometry of the code (19+3+48+192 lines, 8 words of 4 columns): `CleanFrame`, `LineNumberTrue`, `VblankSeen`, `CommandTaken`, the refinement `ScreenSpec`, and `EveryModeShown` |
| `cvbs_late` | PiocFairSpec, a host that may be late at every line or stop, main printing | `CleanFrame` and `AckIsCurrent` hold all the same, their inductive invariant `IInv` holds, and `FramesGoOn` |
| `contract` | any prompt host of the interface | `RendersOrder`, `PendsWhenDue`, `EveryLineOnBit3` |
| `scanline_clock` | weak fairness | `NeverAsleep`, `SteadyLines`, `PixelGrid`, `PixelOrder`, `DarkBlanking`, `LinesGoOn` |
| `demo_loop` | FairSpec | main's loop under the handler: `OldPixels`, `TextPageTrue`, `PictureWhole`, `Paced`, `EveryModeGetsItsTurn`, `EveryDemoDrawn` |
| `start_up` | weak fairness of main, none of the transmitter | `PutcharTruthful`, `FaultFound`, `CodeWhole`, `GlyphShown`, `PictureStarts` |
| `walkers` | weak fairness, strong of the logo's frames | `InVram`, `LogoInFrame`, `StraightLine`, `StrokeEnds`, `MeetsBorders`, `LogoMeetsBorders` |
| `claim_*` | see Findings | one statement of a comment or of README.md each, violated |

The properties, in short:

- `CleanFrame`: whatever was lost, late or stale before, once a frame goes active
  with its requests answered every column shown is the right one, until a deadline is
  missed or main reads a number the handler has not. This is the self-repair the
  program depends on: nothing in it detects an error.
- `AckIsCurrent`: in such a frame the acknowledging dummy write (cpp:238) cancels no
  request that has not been read.
- `LineNumberTrue`: CTRL_RD is the raster line about to be drawn; a frame has exactly
  its lines. `VblankSeen`: a prompt host has seen 0xFF before every picture.
- `CommandTaken`: MW_SR is cleared by the instruction that takes the glyph row, not by
  the reads that only test a bit.
  These three properties (`AckIsCurrent`, `VblankSeen`, `CommandTaken`) speak of a host
  that is in time; what a late one loses is bounded by `CleanFrame` alone, which has the
  next frame that starts with its requests answered right again.
- `FramesGoOn`, `EveryModeShown`: liveness of frames without a host, and of the demo
  with one.
- `RendersOrder`: any mixture of bitmap lines and rows of characters, entered at any
  glyph line, is drawn as ordered, and no line is drawn that the last order does not
  cover; `PendsWhenDue`: the host is interrupted only there, or where bit 3 asks;
  `EveryLineOnBit3`: and then it hears of every line.
- `NeverAsleep`: after the first line the phase correction never meets a sum it does
  not know; `SteadyLines`: every line lasts 3056 clocks whatever path led through it;
  `PixelGrid`: every pixel comes at its clock in the line; `PixelOrder`: each once,
  from left to right, glyphs and not tile numbers; `DarkBlanking`: text lines end
  dark by their trailing space alone; `LinesGoOn`: the poll never misses the tick.
- `OldPixels`: the handler clears the frame buffer while main may hold a byte of it, or be
  drawing for the mode before; what is left of other modes is never more than one turn of
  the loop draws. `TextPageTrue`: and after LAG frames nothing of it is on a page of text.
  `PictureWhole`: the picture of `ass`, drawn once, has all its bytes when main starts to
  wait behind it.
- `Paced`: main begins at most two turns in a frame, the second only after a late first
  one. `EveryModeGetsItsTurn`: no mode that main draws for ends before it has begun to.
  `EveryDemoDrawn`: and main never hangs.
- `PutcharTruthful`: between two characters the line carries just what the return values
  of putchar say, in order, no byte on top of another. `FaultFound`: memtest passes good
  memory and finds any stuck line. `CodeWhole`: the PIOC never runs on the pattern of the
  test or half an image. `GlyphShown`: the byte looked up for a tile and a line counter is
  the row of that glyph, also when the counter has gone beyond 7. `PictureStarts`: neither
  a broken memory nor a dead transmitter stops it.
- `InVram`, `StraightLine`, `StrokeEnds`, `MeetsBorders`: the dot. `LogoInFrame`,
  `LogoMeetsBorders`: the logo, which would run through all of memory past a border.

### Bounds, and why they are enough

`cvbs_ntsc` has the real frame; only FRAMES_PER_MODE is 2 in place of 256 (the count
is modulo it and nothing else depends on it). `cvbs_late` has three blanking lines and
ten active ones: a row of characters, its roll-over and the line after it, which is
the period of everything the two processors agree on; a word of two columns is
enough for a word to be replaced between two columns. `contract` has 18 lines, two
rows and a bit, and every glyph line to start from in the first four and the last,
bitmap, interrupt per line, and a bit that is ignored. `scanline_clock` has no bound
but 32 columns, the real number: clocks wrap with the timer. `walkers` takes a
4 by 3 frame, slopes of 1/8 to 6/8, two moves per stroke and a logo of 2 by 1 in place of
256 by 192, 2^20 and 17. The theorems remove these bounds, also the number of columns
and the lengths of the pulses of `scanline_clock`.

`demo_loop` has all seven modes, 6 frames each in place of 256, LAG = 2, and 4 bytes, of
which the text modes use 2 and a turn draws at most 2: an old pixel may be inside or
outside the page, be read before or after the clearing, and a turn may last over a mode
change and beyond. What LAG assumes is real: the longest turn of the code is the one with
its prints and Delay_Ms(250), some 16 frames, while a mode lasts 256, and the theorems
hold whenever `2 * LAG < FRAMES_PER_MODE`. A dead transmitter, which costs each character
10000 looks, would stretch that turn and void the assumption. FRAMES_PER_MODE also
bounds the counter: frame_counter is kept modulo a whole round of the modes, which no
comparison of the code can tell from the real one within LAG frames.

`start_up` has 32 tiles in place of 256, so 512 bytes of code RAM with every address line
they have, all 16 faults of the data lines, and 2 retries in place of 10000. Which faults
the pattern finds depends on the numbers; that it finds those of the real 4096 bytes, of
whose three upper address lines this run knows nothing, is proved (`MemtestFindsFaults`).

Deadlock is checked except for `scanline_clock` (and `claim_pixel_clock`): the core
really sleeps for ever if the first line after reset meets an unknown phase, see below;
and for `start_up`, which ends where DemoLoop goes on.

### Fairness

The PIOC has its own clock and no instruction that blocks: WF of its step. The
handler contains no wait and its interrupt stays enabled: WF of its step in
`FairSpec`; `PiocFairSpec` drops it, so that the host may stop inside the handler.
Main has one thread and is only ever interrupted: WF of its step in
DemoLoop, StartUp and the walkers. WF of `Vblank` in DemoLoop is what `FramesGoOn` says of
the PIOC and EveryModeShown of the handler. The two walkers take turns as the modes do:
`EveryDemoDrawn` says that the logo's branch is drawn again and again, which is SF of its
frame. The transmitter has no fairness, and main's prints in Cvbs have none.

## Proofs

`PiocProofs` has what the video program keeps whatever program the host runs: types
(`PiocTyped`) and `RasterInv`, where the raster is at each program counter
(`PiocRaster`). Two theories build on it.

`CvbsProofs`, for every geometry, word and column count, FRAMES_PER_MODE, and both
values of MAY_BE_LATE and MAIN_PRINTS:

- `TypeCorrect`: `Spec => []TypeOK`, from `TypeInv`, which adds that a handler runs
  only on a pending request and that its word index is below NWORDS.
- `LineNumber`: `Spec => []LineNumberTrue`, from `RasterInv`. It needs nothing of the
  host: no host action changes CTRL_RD or the PIOC's variables.
- `Invariant`, `CleanFrameCorrect` and `AckCurrent`: `IInv` and what it implies.
  CleanFrame is not inductive: that the column about to be shown is right depends on the
  data words, the command, the glyph row and GP_BIT_X, which were settled earlier in the
  line by another processor. `ServiceInv` is the contract between them at each program
  counter: `Drawn(y)` is what a line leaves behind, `Serving` what holds at each step of
  the handler while it still has time, `Ready` what the deadline guarantees. In a row of
  characters no request is made; then the words already there are those of the next line
  (`SameRow`) and LINE_COUNTER is one further (`RowStep`, `RowBit`). A request without a
  need (line 1, see Findings) is harmless because its handler fetches nothing
  (`Answerable`).

`ScreenProofs`, when no deadline is missed and main is silent: `ScreenImplemented`,
`Spec => ScreenSpec`. `PromptInv` makes `clean` true throughout the active region, so that
each column step is a `ShowColumn` of the screen by CleanFrame, each line a
`BlankLine` or an `EndLine`, and the mode changes only on number 255, which RasterInv
puts in the blanking. All other steps stutter. `EveryFrameCounted` (`[]VblankSeen`) needs
to know the number a handler has read while it runs in the blanking (`BlankingRead`), and
`NoCommandLost` (`CommandTaken`) that MW_SR is set only in front of the test (`Taken`).

`ContractProofs`: `OrdersRendered`, `AsksOnlyWhenDue` and `Bit3AsksEveryLine`, for every
set of commands and geometry. The invariant `Answered` is ServiceInv once more, with an
arbitrary host: `Ready(y)` says the last order covers line y and the words, the
command and the line counter are those of it; `Finished` that a line drawn
leaves GP_BIT_X set if the next line needs an order or bit 3 asks (`Due`), and from the
second line on only then. The arithmetic is `RowCount`: however a row was entered, bit 3
of LINE_COUNTER, whose upper bits are the command's, changes when the row ends, so that
one of the program's two tests sees it.

`DemoLoopProofs`: `DemoTyped`, `OldPixelsFew`, `TextPageRight`, `PictureComplete`,
`VsyncPaces`, `NoModeMissed`, for every frame buffer, stroke and mode length with
`2 * LAG < FRAMES_PER_MODE`. None is inductive. The argument is one of time: when a mode
begins, main looks at frame_counter again within LAG frames and comes to the test of the
mode within LAG more (`InTime`, `OnItsWay`), before the mode can end; until it does, its
writes are those of the one turn that was under way (`FewOld`, by counting the bytes it
has changed since); and the picture of `ass` is begun once, early in its mode, and its
finished bytes stay (`AssOnce`).

`StartUpProofs`, for every font size and retry count: `StartTyped`, `WholeImage`,
`RightGlyph`; the first rests on `NeverZero`, that the shift register never reaches zero
from a word that is not, and `ScaledRange` is the bound of my_random.

- `PutcharTellsTheTruth`: `ConsoleInv` says what is on the line while a byte waits. After
  the CR of a newline the results are one byte behind, and either way to return makes up
  for it: 0 by the line feed, 1 because the CR alone is what a failed newline may leave.
  `SaysMore` appends one more piece to the line.
- `MemtestFindsFaults`: `TestInv` says that memfill and memcheck have drawn the same
  numbers `f`, which exist because the run draws them, and that memcheck has got as far as
  what it reads matches. So a good verdict is a statement about every byte, and what is
  left is a fact of the sequence: for every line that may be stuck there is a byte, or a
  pair of addresses that become one, in which it shows (`DataLines`, `AddressLines`).
  The first 32 numbers show every data line and the lower address lines. For the upper
  ones two bytes 32 to 2048 numbers apart are compared in their lowest bit, `b`. Each bit
  of the register takes 29 steps to the bottom (`NextBits`, `BottomRecurs`), so
  `b[i+32] = b[i+31] + b[i+2] + b[i]` modulo 2; where that holds at a distance it holds at
  twice the distance, since the rest cancels (`Doubled`); and `OddRows`, `EvenRows` follow
  32 bits of it through each doubling.

`ScanlineProofs`, clock by clock, for every number of columns, porch and pulse length that
`TimingAssumption` admits: `ScanlineTyped`, `PhaseKnown`, `LinesSteady`, `BlankingDark`,
`PixelsOnGrid`, `PixelsInOrder`. The invariant `LineInv` ties the phase of the timer to the
clocks since the last pulse, from the first pulse on (`PhaseInv`, `PlaceInv`): at every
program counter the one is determined by the other, and `Phase` shows that each test of
the correction makes up for a poll that came that much later. For the column loops
`LoopInv` says which byte is in which register before each instruction; the lists of
instructions are read once, into `BitmapTable` and `TextTable`, and `BitmapShown` and
`TextShown` follow from them: what is on the output at an instruction, and in which clock
of the line.

`WalkersProofs`: `DotInFrameBuffer` (inductive because the accumulator is within one
denominator when a turn begins and a slope is below one), `DotOnCourse`, and with the logo
`BothInFrameBuffer` and `LogoStaysInFrame`, for every frame size, logo smaller than it,
denominator of at least 8 and stroke length.

Only model-checked: liveness (`FramesGoOn`, `EveryModeShown`, `LinesGoOn`, `StrokeEnds`,
`MeetsBorders`, `LogoMeetsBorders`, `EveryDemoDrawn`, `PictureStarts`), which the prover
does not reach. Every invariant and every action property that a passing run checks is
also a theorem.

The assumptions are those named in the modules: vertical counts are non-zero bytes,
there is a data word and a column, FRAMES_PER_MODE is positive, the two switches are
Boolean, commands are bytes, DEN >= 8, the logo is smaller than the frame, the font
has two tiles, and DemoLoop's `2 * LAG < FRAMES_PER_MODE`. ScanlineClock's
`TimingAssumption` asks that the longest way through a line, and the long pulse, end before
the next one is due, and that TMR0_INIT is 65 modulo 128: the tests of the phase correction
compare sums of the timer's readings with particular bits, so that another reload value
(the code has 65) would need other tests.

## Findings

1. *Stale interrupt flag* (`claim_text_requests`, asm:107). The last line of a frame
   sets GP_BIT_X and the jump to `screen` leaves it set, so every frame requests an
   interrupt after its line 0. In text mode the handler does nothing for it.
2. *Frame buffer overrun on reading* (`claim_vram_bounds`, cpp:226). At vertical
   blanking the bitmap branch copies line 255 of 192. What it reads is never shown.
3. *A bitmap byte is one clock short* (`claim_pixel_clock`, asm:249). Byte to byte takes
   63 clocks, so pixel 0 of a byte is seven clocks wide and the right edge is 31 clocks
   early compared with text.
4. *Interrupt per line is bit 3* (`claim_bit6`, asm:327), README.md:11 says bit 6.
5. *Diagnostics acknowledge line numbers* (`claim_status_read`, cpp:413). In the modes main
   does not draw for, its printf reads CTRL_RD; a read between the PIOC's write and the
   handler's test loses the request. The run's trace has main come to vsync after the
   first blanking has been counted, pass it while line 0 is being requested, and take the
   number 0. It can cost a line, or a vertical blanking and with it
   a mode change; the next frame is right again (`cvbs_late`).

Not runs, but noticed: the comment of cpp:235 is that of the text branch; `timer:13` says
3050 clocks, 191 turns of 16 are 3056; `cpp:186` compares with `end` after operator++ has
already wrapped, so it is never true; memtest fills with the seed it is given but checks
with the default one (cpp:76), which the model does not show because main calls it only
with the default, and main ignores its result (cpp:277); `_write` ignores what
putchar returns. `clr SFR_CTRL_WR` (asm:94) writes a register the PIOC can only read, so it
selects no default; the test of bit 7 (asm:170) acknowledges a command that comes after the
test of MW_SR, whose glyph row is then not loaded: both matter only to a late handler.
If TMR0 does not start from a value that the first polls happen to suit, the core may
sleep at power-up: TMR0's value after reset is not documented, and `NeverAsleep` therefore
begins with the first sync pulse.

## Not modelled

Nearly all files of the tree are the vendor's SDK and examples under `doc/`, which the
program does not link or calls only to set up registers. The repository's own code is three
PIOC programs, their timer, one C++ file, a header and three font scripts, some thousand
lines; the models cover that code, which is a very small share of all the lines in the tree.

Of the program itself there is left out: the set-up of clocks, pins and USART registers
(written once, no state that is read again); the text printf makes and the dump of the boot
area; what pixels a glyph, a dot or a line of the drawing library consists of; the u8g2
library, a submodule that is not in the tree, and `u8g2_256x192.h`, its tables;
`dvd.xbm` and `ass.xbm`, not in the tree either (the size of the first is a constant of
Walkers). The memset that pads the image in pioc_load has nothing to pad, since the font
ends with the RAM. The 32 turns of the generator in my_random are left out: DemoLoop and
BouncyDot let it return any number of its range. `blink.pioc.asm` and
`xcgh_incrementer.pioc.asm` are single loops that main does not load; `makefont_zx81.py`
and `makefont_ascii.py` write fonts the video program does not include. Voltages and
analogue timing are outside the model.

## Plan

Done, in this order: Picture, PiocSfr, PiocVideo, HostIrq, Cvbs, Screen; CvbsInv and its
proofs; the refinement; ScanlineClock; Contract; BouncyDot and its proofs; DemoLoop,
Generator, Uart, StartUp, Walkers; their proofs and those of Contract.

Left, should the code grow in these directions: a second fault model for StartUp (two
stuck lines at once); the termination of the walkers' course for every size, as a measure
that each step lowers, since the liveness itself is beyond the prover.
