------------------------------ MODULE Generator ------------------------------
(***************************************************************************)
(* memtest_seed_next of cvbs_main.cpp, the shift register that both the    *)
(* memory test and my_random draw their numbers from.  A 32-bit word is    *)
(* the pair of its halves.                                                 *)
(***************************************************************************)
EXTENDS Integers

HALF == 65536
Half == 0 .. HALF - 1
Word == [hi : Half, lo : Half]
Zero == [hi |-> 0, lo |-> 0]

Flip(h, bit) == IF (h \div bit) % 2 = 1 THEN h - bit ELSE h + bit

(* seed / 2                                                                 *)
Shifted(s) == [hi |-> s.hi \div 2, lo |-> s.lo \div 2 + (32768 * (s.hi % 2))]

(* Mutant: nothing is fed back.                                             *)
SeedNextShift(s) == Shifted(s)

(* (seed / 2) ^ (seed % 2 * poly), poly being bits 31, 29 and 0.            *)
SeedNext(s) ==
    LET h == Shifted(s)
    IN  IF s.lo % 2 = 0 THEN h
        ELSE [hi |-> Flip(Flip(h.hi, 32768), 8192), lo |-> Flip(h.lo, 1)]

(* my_random(min, max): the 32-bit number r scaled in 64 bits.              *)
Scaled(r, min, max) == ((r * (max - min)) \div (HALF * HALF)) + min
=============================================================================
