------------------------------- MODULE StartUp -------------------------------
(***************************************************************************)
(* main of cvbs_main.cpp up to the enabling of the interrupt: the messages *)
(* on the UART, the memory test of the code RAM, pioc_load; and the font   *)
(* in the code image, from its generator (makefont_zx81_ascii.py) to the   *)
(* program that reads it (text_glyph_loop).                                *)
(*                                                                         *)
(* The code RAM may be broken: `fault` is a line of its address or data    *)
(* bus that is stuck, or "none".                                           *)
(***************************************************************************)
EXTENDS Generator, Uart

CONSTANT TILES      \* characters in the font, 256 in the code

ASSUME StartAssumption == TILES \in Nat \ {0, 1}

LEN == 16 * TILES           \* bytes of the code RAM, 4096
Addresses == 0 .. LEN - 1
FONT == 4 * TILES           \* org 0x400, in words

VARIABLES
    pc, at,     \* the next thing main does; the byte a loop has come to
    seed,       \* seed of memfill or memcheck
    sram, fault,
    good,       \* what memtest returns; TRUE before
    sysCfg      \* PIOC->D8_SYS_CFG: "off", "reset", "io", "run"

memVars == <<at, seed, sram, fault, good, sysCfg>>
vars == <<uartVars, pc, memVars>>

-----------------------------------------------------------------------------
(* A byte of the font: a line of a character's picture, or its negative.    *)
GlyphLine(tile, row) ==
    <<"font", tile % (TILES \div 2), row, tile >= TILES \div 2>>

(* Mutant: the halves of a word are swapped.                                *)
FontWordSwapped(i) ==
    [hi |-> GlyphLine(i % TILES, 2 * (i \div TILES)),
     lo |-> GlyphLine(i % TILES, 2 * (i \div TILES) + 1)]

(* DW number i of the font: two rows of one character.                      *)
FontWord(i) ==
    [hi |-> GlyphLine(i % TILES, 2 * (i \div TILES) + 1),
     lo |-> GlyphLine(i % TILES, 2 * (i \div TILES))]

(* The image: program words, then the font, low byte first.                 *)
Image ==
    [p \in Addresses |->
       IF p \div 2 < FONT THEN <<"op", p>>
       ELSE IF p % 2 = 0 THEN FontWord(p \div 2 - FONT).lo
       ELSE FontWord(p \div 2 - FONT).hi]

-----------------------------------------------------------------------------
(* One line of a bus is stuck: two addresses are one cell, or a bit of      *)
(* every byte reads the same.                                               *)
Faults == {<<"none">>} \cup {<<"address", k>> : k \in {n \in 0 .. 11 : 2^n < LEN}}
                       \cup {<<"data", k, v>> : k \in 0 .. 7, v \in 0 .. 1}

Bit(v, k) == (v \div 2^k) % 2

CellAt(p) == IF fault[1] = "address" THEN p - Bit(p, fault[2]) * 2^fault[2] ELSE p

Stored(byte) ==
    IF fault[1] # "data" THEN byte
    ELSE IF byte[1] = "test"
      THEN <<"test", byte[2] + (fault[3] - Bit(byte[2], fault[2])) * 2^fault[2]>>
    ELSE <<"bad">>

Write(p, byte) == sram' = [sram EXCEPT ![CellAt(p)] = Stored(byte)]
Read(p) == sram[CellAt(p)]

Ones == [hi |-> 65535, lo |-> 65535]      \* the default of the parameter seed

(* Mutant: a constant pattern.                                              *)
PatternConstant(s) == <<"test", 85>>

(* uint8_t(seed)                                                            *)
Pattern(s) == <<"test", s.lo % 256>>

(* rdcode: the word at A:SFR_INDIR_ADDR.                                    *)
Rdcode(word) == [lo |-> Read(2 * word), hi |-> Read(2 * word + 1)]

(* Mutant: the line counter is not rotated.                                 *)
GlyphRowUnrotated(tile, counter) ==
    LET w == Rdcode((4 + (counter % 4)) * TILES + tile)
    IN  IF counter % 2 = 1 THEN w.hi ELSE w.lo

(* What text_glyph_loop makes of a tile and LINE_COUNTER.                   *)
GlyphRow(tile, counter) ==
    LET w == Rdcode((4 + ((counter \div 2) % 4)) * TILES + tile)
    IN  IF counter % 2 = 1 THEN w.hi ELSE w.lo

-----------------------------------------------------------------------------
Init ==
    /\ UartInit
    /\ pc = "hello" /\ at = 0 /\ seed = Ones
    /\ sram = [p \in Addresses |-> <<"junk">>]
    /\ fault \in Faults
    /\ good = TRUE /\ sysCfg = "off"

(* The text a printf makes: only its newlines matter to putchar.            *)
Prints == [hello |-> <<LF, "H", LF>>, header |-> <<"m", LF>>, filling |-> <<"f", LF>>,
           checking |-> <<"c", LF>>, verdict |-> IF good THEN <<"S", LF>> ELSE <<"F", LF>>]
After == [hello |-> "header", header |-> "filling", filling |-> "fill",
          checking |-> "check", verdict |-> "stop"]

Printf ==
    /\ pc \in DOMAIN Prints
    /\ BeginWrite(Prints[pc])
    /\ pc' = After[pc]
    /\ IF pc \in {"filling", "checking"} THEN at' = 0 /\ seed' = Ones ELSE UNCHANGED <<at, seed>>
    /\ UNCHANGED <<sram, fault, good, sysCfg>>

(* memfill, a byte per step.                                                *)
Memfill ==
    /\ pc = "fill" /\ upc = "idle"
    /\ IF at = LEN THEN pc' = "checking" /\ UNCHANGED <<at, seed, sram>>
       ELSE /\ seed' = SeedNext(seed)
            /\ Write(at, Pattern(seed'))
            /\ at' = at + 1 /\ pc' = pc
    /\ UNCHANGED <<uartVars, fault, good, sysCfg>>

(* memcheck up to the first byte that differs.                              *)
Memcheck ==
    /\ pc = "check" /\ upc = "idle"
    /\ IF at = LEN THEN pc' = "verdict" /\ UNCHANGED <<at, seed, good>>
       ELSE /\ seed' = SeedNext(seed)
            /\ IF Read(at) # Pattern(seed')
                 THEN good' = FALSE /\ pc' = "verdict" /\ at' = at
                 ELSE at' = at + 1 /\ UNCHANGED <<good, pc>>
    /\ UNCHANGED <<uartVars, sram, fault, sysCfg>>

(* pioc_load: RB_MST_RESET, three times over to buy time, then 0.           *)
StopPioc ==
    /\ pc = "stop" /\ upc = "idle"
    /\ IF sysCfg # "reset" THEN sysCfg' = "reset" /\ pc' = pc
       ELSE sysCfg' = "off" /\ pc' = "load"
    /\ at' = 0
    /\ UNCHANGED <<uartVars, seed, sram, fault, good>>

(* Mutant: the last byte of the image is not copied.                        *)
LoadCodeShort ==
    /\ pc = "load"
    /\ Write(at, Image[at])
    /\ at' = at + 1
    /\ pc' = IF at + 2 = LEN THEN "start" ELSE "load"
    /\ UNCHANGED <<uartVars, seed, fault, good, sysCfg>>

(* memcpy(PIOC_SRAM.u8, data, len): the font fills the RAM to its end, so   *)
(* there is nothing left for the memset that pads.                          *)
LoadCode ==
    /\ pc = "load"
    /\ Write(at, Image[at])
    /\ at' = at + 1
    /\ pc' = IF at + 1 = LEN THEN "start" ELSE "load"
    /\ UNCHANGED <<uartVars, seed, fault, good, sysCfg>>

(* RB_MST_IO_EN, then with RB_MST_CLK_GATE: the PIOC runs.                  *)
StartPioc ==
    /\ pc = "start"
    /\ IF sysCfg = "off" THEN sysCfg' = "io" /\ pc' = pc
       ELSE sysCfg' = "run" /\ pc' = "irq"
    /\ UNCHANGED <<uartVars, at, seed, sram, fault, good>>

Boot == Printf \/ Memfill \/ Memcheck \/ StopPioc \/ LoadCode \/ StartPioc
        \/ (UartStep /\ UNCHANGED <<pc, memVars>>)

Next == Boot \/ (TxEmpty /\ UNCHANGED <<pc, memVars>>)

(* Nothing is promised of the transmitter.                                  *)
Spec == Init /\ [][Next]_vars /\ WF_vars(Boot)
-----------------------------------------------------------------------------
TypeOK ==
    /\ UartTypeOK
    /\ pc \in DOMAIN Prints \cup {"fill", "check", "stop", "load", "start", "irq"}
    /\ at \in 0 .. LEN /\ seed \in Word /\ seed # Zero
    /\ sysCfg \in {"off", "reset", "io", "run"}

(* The memory test (cvbs_main.cpp:67-84) passes good memory and finds any   *)
(* stuck line of the address or the data bus.                               *)
FaultFound == pc \in {"verdict", "stop"} => (good <=> fault = <<"none">>)

(* The PIOC never executes a word of the memory test or of a half-loaded    *)
(* image (102-117).                                                         *)
CodeWhole ==
    sysCfg = "run" /\ fault = <<"none">> => \A p \in Addresses : Read(p) = Image[p]

(* The address the generator puts a row of a glyph at is the one the video  *)
(* program makes of the tile number and its line counter, whose higher bits *)
(* count on (asm:336-346, makefont_zx81_ascii.py:44-56).                    *)
GlyphShown ==
    sysCfg = "run" /\ fault = <<"none">> =>
        \A tile \in 0 .. TILES - 1, counter \in 0 .. 15 :
            GlyphRow(tile, counter) = GlyphLine(tile, counter % 8)

(* Neither a broken memory nor a transmitter that never gets empty keeps    *)
(* the program from starting the picture.                                   *)
PictureStarts == <>(sysCfg = "run")
=============================================================================
