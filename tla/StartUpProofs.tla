---------------------------- MODULE StartUpProofs ----------------------------
(***************************************************************************)
(* The start of the program for every size of the font and of the code RAM *)
(* and every number of retries: the PIOC starts with the whole image in    *)
(* front of it, and finds in it the glyphs the generator has put there.    *)
(***************************************************************************)
EXTENDS StartUp, SequenceTheorems, TLAPS

-----------------------------------------------------------------------------
(* The generator of pseudo random numbers.                                  *)

(* Ranges as inequalities, in which the arithmetic below is done.           *)
LEMMA HalfIs == \A h : h \in Half <=> h \in Nat /\ h < 65536
<1>1. HALF \in Nat
  BY DEF HALF
<1>2. \A h : h \in Half <=> h \in Nat /\ h < HALF
  BY <1>1 DEF Half
<1> QED BY <1>2 DEF HALF

(* Words as pairs of numbers.                                               *)
LEMMA WordIs ==
    /\ \A s \in Word : /\ s = [hi |-> s.hi, lo |-> s.lo]
                       /\ s.hi \in Nat /\ s.hi < 65536 /\ s.lo \in Nat /\ s.lo < 65536
    /\ \A a, b \in Nat : a < 65536 /\ b < 65536 => [hi |-> a, lo |-> b] \in Word
BY HalfIs DEF Word

(* Division by two takes the bottom bit off.                                *)
LEMMA TwoHalves == \A n \in Nat : n = 2 * (n \div 2) + (n % 2)
OBVIOUS

(* The bottom bit and the rest of a half word.                              *)
LEMMA Halves ==
    ASSUME NEW h \in Nat, h < 65536
    PROVE  /\ h \div 2 \in Nat /\ h \div 2 < 32768
           /\ h % 2 = 0 \/ h % 2 = 1
           /\ h = 2 * (h \div 2) + (h % 2)
<1>1. h = 2 * (h \div 2) + (h % 2)
  BY TwoHalves
<1>2. \A n \in Nat : n \div 2 \in Nat /\ (n % 2 = 0 \/ n % 2 = 1)
  OBVIOUS
<1>3. h \div 2 < 32768
  OBVIOUS
<1> QED BY <1>1, <1>2, <1>3

(* What the three bits of poly do: bit 31 of a shifted word is clear.       *)
LEMMA FlipLow ==
    ASSUME NEW h \in Nat, h < 65536
    PROVE  Flip(h, 1) \in Nat /\ Flip(h, 1) < 65536
<1>1. CASE h % 2 = 1
  <2>1. (h \div 1) % 2 = 1
    BY <1>1
  <2> QED BY <2>1, <1>1 DEF Flip
<1>2. CASE h % 2 # 1
  <2>1. (h \div 1) % 2 # 1
    BY <1>2
  <2>2. h # 65535
    BY <1>2
  <2> QED BY <2>1, <2>2 DEF Flip
<1> QED BY <1>1, <1>2

(* Bits 31 and 29.                                                         *)
LEMMA FlipTop ==
    ASSUME NEW h \in Nat, h < 32768
    PROVE  Flip(h, 32768) = h + 32768
<1>1. h \div 32768 = 0
  OBVIOUS
<1>2. (h \div 32768) % 2 # 1
  BY <1>1
<1> QED BY <1>2 DEF Flip

(* Bit 29 alone: whatever it was, bit 31 stays.                             *)
LEMMA FlipMiddle ==
    ASSUME NEW h \in Nat, 32768 <= h, h < 65536
    PROVE  Flip(h, 8192) \in Nat /\ 0 < Flip(h, 8192) /\ Flip(h, 8192) < 65536
<1> DEFINE q == h \div 8192
<1>1. q \in Nat /\ q < 8 /\ h < 8192 * q + 8192
  OBVIOUS
<1>2. CASE q % 2 = 1
  BY <1>2 DEF Flip
<1>3. CASE q % 2 # 1
  <2>1. q # 7
    BY <1>3
  <2>2. h < 57344
    BY <1>1, <2>1
  <2> QED BY <1>3, <2>2 DEF Flip
<1> QED BY <1>2, <1>3

(* seed / 2 is a word, and is zero for no even word but zero.               *)
LEMMA ShiftedType ==
    ASSUME NEW s \in Word
    PROVE  /\ Shifted(s).hi \in Nat /\ Shifted(s).hi < 32768
           /\ Shifted(s).lo \in Nat /\ Shifted(s).lo < 65536
           /\ Shifted(s) = [hi |-> Shifted(s).hi, lo |-> Shifted(s).lo]
           /\ s.lo % 2 = 0 /\ s # Zero => Shifted(s) # Zero
<1> DEFINE a == s.hi
           b == s.lo
<1>1. /\ a \in Nat /\ a < 65536 /\ b \in Nat /\ b < 65536
      /\ s = [hi |-> a, lo |-> b]
  BY WordIs
<1>2. /\ Shifted(s).hi = a \div 2
      /\ Shifted(s).lo = b \div 2 + (32768 * (a % 2))
      /\ Shifted(s) = [hi |-> Shifted(s).hi, lo |-> Shifted(s).lo]
  BY DEF Shifted
<1>3. /\ a \div 2 \in Nat /\ a \div 2 < 32768 /\ (a % 2 = 0 \/ a % 2 = 1) /\ a = 2 * (a \div 2) + (a % 2)
      /\ b \div 2 \in Nat /\ b \div 2 < 32768 /\ (b % 2 = 0 \/ b % 2 = 1) /\ b = 2 * (b \div 2) + (b % 2)
  BY <1>1, Halves
<1> HIDE DEF a, b
<1>4. b \div 2 + (32768 * (a % 2)) \in Nat /\ b \div 2 + (32768 * (a % 2)) < 65536
  BY <1>3
<1>5. ASSUME b % 2 = 0, Shifted(s) = Zero PROVE s = Zero
  <2>1. a \div 2 = 0 /\ b \div 2 + (32768 * (a % 2)) = 0
    BY <1>2, <1>5 DEF Zero
  <2>2. a % 2 = 0 /\ b \div 2 = 0
    BY <1>3, <2>1
  <2>3. a = 2 * 0 + 0 /\ b = 2 * 0 + 0
    <3>1. a = 2 * (a \div 2) + (a % 2) /\ b = 2 * (b \div 2) + (b % 2)
      BY <1>3
    <3>2. a \div 2 = 0 /\ a % 2 = 0 /\ b \div 2 = 0 /\ b % 2 = 0
      BY <1>5, <2>1, <2>2
    <3> QED BY <3>1, <3>2
  <2>4. a = 0 /\ b = 0
    BY <2>3
  <2> QED BY <1>1, <2>4 DEF Zero
<1>6. s.lo % 2 = b % 2
  BY DEF b
<1> QED BY <1>2, <1>3, <1>4, <1>5, <1>6

(* From a seed that is not zero memtest_seed_next never comes to zero,      *)
(* where it would stay (cvbs_main.cpp:33-36).                               *)
THEOREM NeverZero ==
    ASSUME NEW s \in Word, s # Zero
    PROVE  SeedNext(s) \in Word /\ SeedNext(s) # Zero
<1> DEFINE h == Shifted(s)
<1>1. /\ h.hi \in Nat /\ h.hi < 32768 /\ h.lo \in Nat /\ h.lo < 65536
      /\ h = [hi |-> h.hi, lo |-> h.lo]
      /\ s.lo % 2 = 0 => h # Zero
  BY ShiftedType
<1>2. CASE s.lo % 2 = 0
  <2>1. SeedNext(s) = h
    BY <1>2 DEF SeedNext
  <2>2. h.hi < 65536
    BY <1>1
  <2> QED BY <1>1, <1>2, <2>1, <2>2, WordIs
<1>3. CASE s.lo % 2 # 0
  <2> DEFINE top == Flip(Flip(h.hi, 32768), 8192)
             bottom == Flip(h.lo, 1)
  <2>1. SeedNext(s) = [hi |-> top, lo |-> bottom]
    BY <1>3 DEF SeedNext
  <2>2. Flip(h.hi, 32768) = h.hi + 32768
    BY <1>1, FlipTop
  <2>3. h.hi + 32768 \in Nat /\ 32768 <= h.hi + 32768 /\ h.hi + 32768 < 65536
    BY <1>1
  <2>4. top \in Nat /\ 0 < top /\ top < 65536
    BY <2>2, <2>3, FlipMiddle
  <2>5. bottom \in Nat /\ bottom < 65536
    BY <1>1, FlipLow
  <2> HIDE DEF top, bottom
  <2>6. SeedNext(s) \in Word
    BY <2>1, <2>4, <2>5, WordIs
  <2> QED BY <2>1, <2>4, <2>6 DEF Zero
<1> QED BY <1>2, <1>3

(* The arithmetic of the next theorem, for any number of words.             *)
LEMMA ScaledBy ==
    ASSUME NEW w \in Nat \ {0}, NEW r \in 0 .. w - 1,
           NEW min \in Nat, NEW max \in Nat, min < max
    PROVE  ((r * (max - min)) \div w) + min \in min .. max - 1
<1> DEFINE d == max - min
           q == (r * d) \div w
<1>1. d \in Nat /\ d >= 1 /\ r \in Nat /\ r < w /\ w \in Nat /\ w > 0
  OBVIOUS
<1> HIDE DEF d
<1>2. r * d \in Nat /\ r * d < w * d
  BY <1>1
<1>3. q \in Int /\ q * w <= r * d
  BY <1>1, <1>2
<1>4. q >= 0
  BY <1>1, <1>2
<1>5. q < d
  BY <1>1, <1>2, <1>3
<1> QED BY <1>3, <1>4, <1>5, <1>1 DEF d

(* The number of words.                                                     *)
LEMMA WordsCount == HALF * HALF \in Nat \ {0}
<1>1. HALF \in Nat /\ HALF >= 1
  BY DEF HALF
<1> QED BY <1>1


(* my_random(min, max) returns a number of min .. max - 1 for every number  *)
(* the register can hold (cvbs_main.cpp:254-256): the slopes of BouncyDot.  *)
THEOREM ScaledRange ==
    ASSUME NEW r \in 0 .. HALF * HALF - 1, NEW min \in Nat, NEW max \in Nat, min < max
    PROVE  Scaled(r, min, max) \in min .. max - 1
<1> DEFINE w == HALF * HALF
<1>1. w \in Nat \ {0}
  BY WordsCount
<1>2. r \in 0 .. w - 1
  OBVIOUS
<1> HIDE DEF w
<1>3. ((r * (max - min)) \div w) + min \in min .. max - 1
  BY <1>1, <1>2, ScaledBy
<1> QED BY <1>3 DEF Scaled, w

-----------------------------------------------------------------------------
(* The bits of the generator.                                               *)
Xor(a, b)   == IF a = b THEN 0 ELSE 1
BitOf(h, w) == (h \div w) % 2
Weights == {1, 2, 4, 8, 16, 32, 64, 128, 256, 512, 1024, 2048, 4096, 8192, 16384, 32768}

(* An exclusive or with one bit changes that bit.                           *)
LEMMA FlipBits ==
    ASSUME NEW h \in Nat, h < 65536, NEW w \in Weights
    PROVE  /\ BitOf(Flip(h, 1), w) = IF w = 1 THEN 1 - BitOf(h, w) ELSE BitOf(h, w)
           /\ BitOf(Flip(h, 8192), w) = IF w = 8192 THEN 1 - BitOf(h, w) ELSE BitOf(h, w)
           /\ BitOf(Flip(h, 32768), w) = IF w = 32768 THEN 1 - BitOf(h, w) ELSE BitOf(h, w)
<1>1. BitOf(Flip(h, 1), w) = IF w = 1 THEN 1 - BitOf(h, w) ELSE BitOf(h, w)
  BY SMTT(60) DEF Weights, BitOf, Flip
<1>2. BitOf(Flip(h, 8192), w) = IF w = 8192 THEN 1 - BitOf(h, w) ELSE BitOf(h, w)
  BY SMTT(60) DEF Weights, BitOf, Flip
<1>3. BitOf(Flip(h, 32768), w) = IF w = 32768 THEN 1 - BitOf(h, w) ELSE BitOf(h, w)
  BY SMTT(60) DEF Weights, BitOf, Flip
<1> QED BY <1>1, <1>2, <1>3

(* A shift moves every bit down, and one of the upper half into the lower.  *)
LEMMA ShiftBits ==
    ASSUME NEW h \in Nat, h < 65536, NEW a \in {0, 1}
    PROVE  /\ \A w \in Weights \ {32768} :
                /\ BitOf(h \div 2, w) = BitOf(h, 2 * w)
                /\ BitOf(h \div 2 + (32768 * a), w) = BitOf(h, 2 * w)
           /\ BitOf(h \div 2, 32768) = 0 /\ BitOf(h \div 2 + (32768 * a), 32768) = a
<1>1. \A w \in Weights \ {32768} : BitOf(h \div 2, w) = BitOf(h, 2 * w)
  BY SMTT(60) DEF Weights, BitOf
<1>2. \A w \in Weights \ {32768} : BitOf(h \div 2 + (32768 * a), w) = BitOf(h, 2 * w)
  BY SMTT(60) DEF Weights, BitOf
<1>3. BitOf(h \div 2, 32768) = 0 /\ BitOf(h \div 2 + (32768 * a), 32768) = a
  BY DEF BitOf
<1> QED BY <1>1, <1>2, <1>3

(* memtest_seed_next bit by bit: all move down, and the lowest goes back    *)
(* into bits 31, 29 and 0.                                                  *)
LEMMA NextBits ==
    ASSUME NEW s \in Word, NEW n, n = SeedNext(s)
    PROVE  /\ BitOf(n.lo, 1) = Xor(BitOf(s.lo, 2), BitOf(s.lo, 1))
           /\ \A w \in Weights \ {1, 32768} : BitOf(n.lo, w) = BitOf(s.lo, 2 * w)
           /\ BitOf(n.lo, 32768) = BitOf(s.hi, 1)
           /\ \A w \in Weights \ {8192, 16384, 32768} : BitOf(n.hi, w) = BitOf(s.hi, 2 * w)
           /\ BitOf(n.hi, 8192) = Xor(BitOf(s.hi, 16384), BitOf(s.lo, 1))
           /\ BitOf(n.hi, 16384) = BitOf(s.hi, 32768)
           /\ BitOf(n.hi, 32768) = BitOf(s.lo, 1)
<1> DEFINE a == s.hi
           b == s.lo
           c == BitOf(a, 1)
           hi == a \div 2
           lo == b \div 2 + (32768 * c)
<1>1. a \in Nat /\ a < 65536 /\ b \in Nat /\ b < 65536
  BY WordIs
<1>2. c = a % 2 /\ c \in {0, 1}
  BY <1>1 DEF BitOf
<1>3. BitOf(b, 1) = b % 2 /\ BitOf(b, 1) \in {0, 1} /\ BitOf(b, 2) \in {0, 1} /\ BitOf(a, 16384) \in {0, 1}
  BY <1>1 DEF BitOf
<1>4. Shifted(s) = [hi |-> hi, lo |-> lo]
  BY <1>2 DEF Shifted
<1>5. hi \in Nat /\ hi < 32768 /\ lo \in Nat /\ lo < 65536
  BY <1>1, <1>2
<1>6. /\ \A w \in Weights \ {32768} : BitOf(hi, w) = BitOf(a, 2 * w) /\ BitOf(lo, w) = BitOf(b, 2 * w)
      /\ BitOf(hi, 32768) = 0 /\ BitOf(lo, 32768) = c
  BY <1>1, <1>2, ShiftBits
<1> HIDE DEF a, b, c, hi, lo
<1>7. CASE b % 2 = 0
  <2>1. n = [hi |-> hi, lo |-> lo]
    BY <1>4, <1>7 DEF SeedNext, b
  <2>2. n.hi = hi /\ n.lo = lo /\ BitOf(b, 1) = 0
    BY <1>3, <1>7, <2>1
  <2>3. BitOf(hi, 8192) = BitOf(a, 16384) /\ BitOf(hi, 16384) = BitOf(a, 32768) /\ BitOf(lo, 1) = BitOf(b, 2)
    BY <1>6 DEF Weights
  <2> QED BY <1>3, <1>6, <2>2, <2>3 DEF Xor, a, b, c
<1>8. CASE b % 2 = 1
  <2> DEFINE top == Flip(hi, 32768)
  <2>1. n = [hi |-> Flip(top, 8192), lo |-> Flip(lo, 1)]
    BY <1>4, <1>8 DEF SeedNext, b
  <2>2. n.hi = Flip(top, 8192) /\ n.lo = Flip(lo, 1) /\ BitOf(b, 1) = 1
    BY <1>3, <1>8, <2>1
  <2>3. top \in Nat /\ top < 65536
    BY <1>5, FlipTop
  <2>4. \A w \in Weights : BitOf(top, w) = IF w = 32768 THEN 1 - BitOf(hi, w) ELSE BitOf(hi, w)
    BY <1>5, FlipBits
  <2> HIDE DEF top
  <2>5. \A w \in Weights :
          /\ BitOf(n.hi, w) = IF w = 8192 THEN 1 - BitOf(top, w) ELSE BitOf(top, w)
          /\ BitOf(n.lo, w) = IF w = 1 THEN 1 - BitOf(lo, w) ELSE BitOf(lo, w)
    BY <1>5, <2>2, <2>3, FlipBits
  <2>6. BitOf(hi, 8192) = BitOf(a, 16384) /\ BitOf(hi, 16384) = BitOf(a, 32768) /\ BitOf(lo, 1) = BitOf(b, 2)
    BY <1>6 DEF Weights
  <2>7. BitOf(n.lo, 1) = Xor(BitOf(b, 2), BitOf(b, 1))
    BY <1>3, <2>2, <2>5, <2>6 DEF Weights, Xor
  <2>8. BitOf(n.hi, 8192) = Xor(BitOf(a, 16384), BitOf(b, 1))
    BY <1>3, <2>2, <2>4, <2>5, <2>6 DEF Weights, Xor
  <2>9. /\ BitOf(n.lo, 32768) = c /\ BitOf(n.hi, 16384) = BitOf(a, 32768)
        /\ BitOf(n.hi, 32768) = BitOf(b, 1)
    BY <1>6, <2>2, <2>4, <2>5, <2>6 DEF Weights
  <2>10. \A w \in Weights \ {1, 32768} : BitOf(n.lo, w) = BitOf(b, 2 * w)
    BY <1>6, <2>5
  <2>11. \A w \in Weights \ {8192, 16384, 32768} : BitOf(n.hi, w) = BitOf(a, 2 * w)
    BY <1>6, <2>4, <2>5
  <2> QED BY <2>7, <2>8, <2>9, <2>10, <2>11 DEF a, b, c
<1> QED BY <1>1, <1>7, <1>8

(* The first n of the numbers memfill and memcheck draw are f[1] .. f[n].   *)
Seeds(f, n) ==
    /\ f \in [Nat -> Word] /\ f[0] = Ones
    /\ \A i \in 0 .. n - 1 : f[i + 1] = SeedNext(f[i])

(* The lowest bits b[0] .. b[n] obey the recurrence of the generator at a   *)
(* distance of m.                                                           *)
Recurs(b, n, m) ==
    \A i \in 0 .. n - (32 * m) :
        b[i + 32 * m] = Xor(Xor(b[i + 31 * m], b[i + 2 * m]), b[i])

Lowest(f) == [i \in Nat |-> BitOf(f[i].lo, 1)]

(* A bit takes 29 steps from where it is fed in to the bottom.              *)
LEMMA BottomRecurs ==
    ASSUME NEW n \in Nat, NEW f, Seeds(f, n)
    PROVE  Recurs(Lowest(f), n, 1)
<1> SUFFICES ASSUME NEW i \in 0 .. n - 32
             PROVE  BitOf(f[i + 32].lo, 1)
                      = Xor(Xor(BitOf(f[i + 31].lo, 1), BitOf(f[i + 2].lo, 1)), BitOf(f[i].lo, 1))
    BY DEF Recurs, Lowest
<1>1. i \in Nat /\ i + 32 <= n
  OBVIOUS
<1> DEFINE At(k) == f[i + k]
           Lo(k, w) == BitOf(At(k).lo, w)
           Hi(k, w) == BitOf(At(k).hi, w)
<1>2. \A k \in 0 .. 31 : At(k) \in Word /\ At(k + 1) = SeedNext(At(k))
  <2> SUFFICES ASSUME NEW k \in 0 .. 31 PROVE f[i + k] \in Word /\ f[i + (k + 1)] = SeedNext(f[i + k])
      OBVIOUS
  <2>1. i + k \in 0 .. n - 1 /\ i + (k + 1) = (i + k) + 1
    BY <1>1
  <2> QED BY <2>1 DEF Seeds
<1> HIDE DEF At
<1>3. \A k \in 0 .. 31 :
        /\ Lo(k + 1, 1) = Xor(Lo(k, 2), Lo(k, 1))
        /\ \A w \in Weights \ {1, 32768} : Lo(k + 1, w) = Lo(k, 2 * w)
        /\ Lo(k + 1, 32768) = Hi(k, 1)
        /\ \A w \in Weights \ {8192, 16384, 32768} : Hi(k + 1, w) = Hi(k, 2 * w)
        /\ Hi(k + 1, 8192) = Xor(Hi(k, 16384), Lo(k, 1))
        /\ Hi(k + 1, 16384) = Hi(k, 32768)
        /\ Hi(k + 1, 32768) = Lo(k, 1)
  BY <1>2, NextBits
<1>4. \A k \in 0 .. 31 : Lo(k, 1) \in {0, 1}
  BY <1>2, WordIs DEF BitOf
<1> HIDE DEF Lo, Hi
<1>5. Hi(2, 16384) = Lo(0, 1)
  <2>1. Hi(1, 32768) = Lo(0, 1)
    BY <1>3
  <2>2. Hi(2, 16384) = Hi(1, 32768)
    BY <1>3
  <2> QED BY <2>1, <2>2
<1>6. Hi(3, 8192) = Xor(Lo(0, 1), Lo(2, 1))
  BY <1>3, <1>5
<1>7. /\ Hi(4, 4096) = Hi(3, 8192) /\ Hi(5, 2048) = Hi(4, 4096) /\ Hi(6, 1024) = Hi(5, 2048)
      /\ Hi(7, 512) = Hi(6, 1024) /\ Hi(8, 256) = Hi(7, 512) /\ Hi(9, 128) = Hi(8, 256)
      /\ Hi(10, 64) = Hi(9, 128) /\ Hi(11, 32) = Hi(10, 64) /\ Hi(12, 16) = Hi(11, 32)
      /\ Hi(13, 8) = Hi(12, 16) /\ Hi(14, 4) = Hi(13, 8) /\ Hi(15, 2) = Hi(14, 4)
      /\ Hi(16, 1) = Hi(15, 2)
  BY <1>3 DEF Weights
<1>8. /\ Lo(17, 32768) = Hi(16, 1) /\ Lo(18, 16384) = Lo(17, 32768) /\ Lo(19, 8192) = Lo(18, 16384)
      /\ Lo(20, 4096) = Lo(19, 8192) /\ Lo(21, 2048) = Lo(20, 4096) /\ Lo(22, 1024) = Lo(21, 2048)
      /\ Lo(23, 512) = Lo(22, 1024) /\ Lo(24, 256) = Lo(23, 512) /\ Lo(25, 128) = Lo(24, 256)
      /\ Lo(26, 64) = Lo(25, 128) /\ Lo(27, 32) = Lo(26, 64) /\ Lo(28, 16) = Lo(27, 32)
      /\ Lo(29, 8) = Lo(28, 16) /\ Lo(30, 4) = Lo(29, 8) /\ Lo(31, 2) = Lo(30, 4)
  BY <1>3 DEF Weights
<1>9. Lo(32, 1) = Xor(Lo(31, 2), Lo(31, 1))
  BY <1>3
<1>10. Lo(31, 2) = Xor(Lo(0, 1), Lo(2, 1))
  BY <1>6, <1>7, <1>8
<1>11. Lo(32, 1) = Xor(Xor(Lo(31, 1), Lo(2, 1)), Lo(0, 1))
  BY <1>4, <1>9, <1>10 DEF Xor
<1> QED BY <1>11 DEF Lo, At

(* A seed by its halves.                                                    *)
Seed(hi, lo) == [hi |-> hi, lo |-> lo]

(* The first numbers of the memory test: the lowest bit alternates, and the *)
(* others of the byte do not change before the 23rd.                        *)
LEMMA FirstSeeds ==
    ASSUME NEW n \in Nat, n >= 32, NEW f, Seeds(f, n)
    PROVE  /\ f[0] = Seed(65535, 65535) /\ f[1] = Seed(57343, 65534) /\ f[2] = Seed(28671, 65535)
           /\ f[3] = Seed(38911, 65534) /\ f[4] = Seed(19455, 65535) /\ f[5] = Seed(34303, 65534)
           /\ f[6] = Seed(17151, 65535) /\ f[7] = Seed(33151, 65534) /\ f[8] = Seed(16575, 65535)
           /\ f[9] = Seed(32863, 65534) /\ f[10] = Seed(16431, 65535) /\ f[11] = Seed(32791, 65534)
           /\ f[12] = Seed(16395, 65535) /\ f[13] = Seed(32773, 65534) /\ f[14] = Seed(16386, 65535)
           /\ f[15] = Seed(32769, 32766) /\ f[16] = Seed(16384, 49151) /\ f[17] = Seed(32768, 24574)
           /\ f[18] = Seed(16384, 12287) /\ f[19] = Seed(32768, 6142) /\ f[20] = Seed(16384, 3071)
           /\ f[21] = Seed(32768, 1534) /\ f[22] = Seed(16384, 767) /\ f[23] = Seed(32768, 382)
           /\ f[24] = Seed(16384, 191) /\ f[25] = Seed(32768, 94) /\ f[26] = Seed(16384, 47)
           /\ f[27] = Seed(32768, 22) /\ f[28] = Seed(16384, 11) /\ f[29] = Seed(32768, 4)
           /\ f[30] = Seed(16384, 2) /\ f[31] = Seed(8192, 1) /\ f[32] = Seed(45056, 1)
<1>1. \A i \in 0 .. 31 : f[i + 1] = SeedNext(f[i])
  BY DEF Seeds
<1>2. f[0] = Seed(65535, 65535)
  BY DEF Seeds, Ones, Seed
<1>3. f[1] = Seed(57343, 65534) /\ f[2] = Seed(28671, 65535) /\ f[3] = Seed(38911, 65534)
  <2>1. f[1] = SeedNext(f[0]) /\ f[2] = SeedNext(f[1]) /\ f[3] = SeedNext(f[2])
    BY <1>1
  <2>2. /\ SeedNext(Seed(65535, 65535)) = Seed(57343, 65534)
        /\ SeedNext(Seed(57343, 65534)) = Seed(28671, 65535)
        /\ SeedNext(Seed(28671, 65535)) = Seed(38911, 65534)
    BY DEF SeedNext, Shifted, Flip, Seed
  <2> QED BY <1>2, <2>1, <2>2
<1>4. f[4] = Seed(19455, 65535) /\ f[5] = Seed(34303, 65534) /\ f[6] = Seed(17151, 65535)
  <2>1. f[4] = SeedNext(f[3]) /\ f[5] = SeedNext(f[4]) /\ f[6] = SeedNext(f[5])
    BY <1>1
  <2>2. /\ SeedNext(Seed(38911, 65534)) = Seed(19455, 65535)
        /\ SeedNext(Seed(19455, 65535)) = Seed(34303, 65534)
        /\ SeedNext(Seed(34303, 65534)) = Seed(17151, 65535)
    BY DEF SeedNext, Shifted, Flip, Seed
  <2> QED BY <1>3, <2>1, <2>2
<1>5. f[7] = Seed(33151, 65534) /\ f[8] = Seed(16575, 65535) /\ f[9] = Seed(32863, 65534)
  <2>1. f[7] = SeedNext(f[6]) /\ f[8] = SeedNext(f[7]) /\ f[9] = SeedNext(f[8])
    BY <1>1
  <2>2. /\ SeedNext(Seed(17151, 65535)) = Seed(33151, 65534)
        /\ SeedNext(Seed(33151, 65534)) = Seed(16575, 65535)
        /\ SeedNext(Seed(16575, 65535)) = Seed(32863, 65534)
    BY DEF SeedNext, Shifted, Flip, Seed
  <2> QED BY <1>4, <2>1, <2>2
<1>6. f[10] = Seed(16431, 65535) /\ f[11] = Seed(32791, 65534) /\ f[12] = Seed(16395, 65535)
  <2>1. f[10] = SeedNext(f[9]) /\ f[11] = SeedNext(f[10]) /\ f[12] = SeedNext(f[11])
    BY <1>1
  <2>2. /\ SeedNext(Seed(32863, 65534)) = Seed(16431, 65535)
        /\ SeedNext(Seed(16431, 65535)) = Seed(32791, 65534)
        /\ SeedNext(Seed(32791, 65534)) = Seed(16395, 65535)
    BY DEF SeedNext, Shifted, Flip, Seed
  <2> QED BY <1>5, <2>1, <2>2
<1>7. f[13] = Seed(32773, 65534) /\ f[14] = Seed(16386, 65535) /\ f[15] = Seed(32769, 32766)
  <2>1. f[13] = SeedNext(f[12]) /\ f[14] = SeedNext(f[13]) /\ f[15] = SeedNext(f[14])
    BY <1>1
  <2>2. /\ SeedNext(Seed(16395, 65535)) = Seed(32773, 65534)
        /\ SeedNext(Seed(32773, 65534)) = Seed(16386, 65535)
        /\ SeedNext(Seed(16386, 65535)) = Seed(32769, 32766)
    BY DEF SeedNext, Shifted, Flip, Seed
  <2> QED BY <1>6, <2>1, <2>2
<1>8. f[16] = Seed(16384, 49151) /\ f[17] = Seed(32768, 24574) /\ f[18] = Seed(16384, 12287)
  <2>1. f[16] = SeedNext(f[15]) /\ f[17] = SeedNext(f[16]) /\ f[18] = SeedNext(f[17])
    BY <1>1
  <2>2. /\ SeedNext(Seed(32769, 32766)) = Seed(16384, 49151)
        /\ SeedNext(Seed(16384, 49151)) = Seed(32768, 24574)
        /\ SeedNext(Seed(32768, 24574)) = Seed(16384, 12287)
    BY DEF SeedNext, Shifted, Flip, Seed
  <2> QED BY <1>7, <2>1, <2>2
<1>9. f[19] = Seed(32768, 6142) /\ f[20] = Seed(16384, 3071) /\ f[21] = Seed(32768, 1534)
  <2>1. f[19] = SeedNext(f[18]) /\ f[20] = SeedNext(f[19]) /\ f[21] = SeedNext(f[20])
    BY <1>1
  <2>2. /\ SeedNext(Seed(16384, 12287)) = Seed(32768, 6142)
        /\ SeedNext(Seed(32768, 6142)) = Seed(16384, 3071)
        /\ SeedNext(Seed(16384, 3071)) = Seed(32768, 1534)
    BY DEF SeedNext, Shifted, Flip, Seed
  <2> QED BY <1>8, <2>1, <2>2
<1>10. f[22] = Seed(16384, 767) /\ f[23] = Seed(32768, 382) /\ f[24] = Seed(16384, 191)
  <2>1. f[22] = SeedNext(f[21]) /\ f[23] = SeedNext(f[22]) /\ f[24] = SeedNext(f[23])
    BY <1>1
  <2>2. /\ SeedNext(Seed(32768, 1534)) = Seed(16384, 767)
        /\ SeedNext(Seed(16384, 767)) = Seed(32768, 382)
        /\ SeedNext(Seed(32768, 382)) = Seed(16384, 191)
    BY DEF SeedNext, Shifted, Flip, Seed
  <2> QED BY <1>9, <2>1, <2>2
<1>11. f[25] = Seed(32768, 94) /\ f[26] = Seed(16384, 47) /\ f[27] = Seed(32768, 22)
  <2>1. f[25] = SeedNext(f[24]) /\ f[26] = SeedNext(f[25]) /\ f[27] = SeedNext(f[26])
    BY <1>1
  <2>2. /\ SeedNext(Seed(16384, 191)) = Seed(32768, 94)
        /\ SeedNext(Seed(32768, 94)) = Seed(16384, 47)
        /\ SeedNext(Seed(16384, 47)) = Seed(32768, 22)
    BY DEF SeedNext, Shifted, Flip, Seed
  <2> QED BY <1>10, <2>1, <2>2
<1>12. f[28] = Seed(16384, 11) /\ f[29] = Seed(32768, 4) /\ f[30] = Seed(16384, 2)
  <2>1. f[28] = SeedNext(f[27]) /\ f[29] = SeedNext(f[28]) /\ f[30] = SeedNext(f[29])
    BY <1>1
  <2>2. /\ SeedNext(Seed(32768, 22)) = Seed(16384, 11)
        /\ SeedNext(Seed(16384, 11)) = Seed(32768, 4)
        /\ SeedNext(Seed(32768, 4)) = Seed(16384, 2)
    BY DEF SeedNext, Shifted, Flip, Seed
  <2> QED BY <1>11, <2>1, <2>2
<1>13. f[31] = Seed(8192, 1) /\ f[32] = Seed(45056, 1)
  <2>1. f[31] = SeedNext(f[30]) /\ f[32] = SeedNext(f[31])
    BY <1>1
  <2>2. /\ SeedNext(Seed(16384, 2)) = Seed(8192, 1)
        /\ SeedNext(Seed(8192, 1)) = Seed(45056, 1)
    BY DEF SeedNext, Shifted, Flip, Seed
  <2> QED BY <1>12, <2>1, <2>2
<1> QED BY <1>2, <1>3, <1>4, <1>5, <1>6, <1>7, <1>8, <1>9, <1>10, <1>11, <1>12, <1>13

(* What holds at a distance of m holds at twice the distance: what the four *)
(* instances have in common cancels.                                        *)
LEMMA Doubled ==
    ASSUME NEW n \in Nat, NEW m \in Nat, NEW b \in [Nat -> {0, 1}], Recurs(b, n, m)
    PROVE  Recurs(b, n, 2 * m)
<1> SUFFICES ASSUME NEW i \in 0 .. n - (32 * (2 * m))
             PROVE  b[i + 32 * (2 * m)] = Xor(Xor(b[i + 31 * (2 * m)], b[i + 2 * (2 * m)]), b[i])
    BY DEF Recurs
<1> DEFINE At(k) == b[i + k * m]
<1>1. i \in Nat /\ i + 64 * m <= n
  OBVIOUS
<1>2. \A k \in 0 .. 64 : At(k) \in {0, 1}
  BY <1>1
<1>3. ASSUME NEW k \in {0, 2, 31, 32}
      PROVE  At(k + 32) = Xor(Xor(At(k + 31), At(k + 2)), At(k))
  <2> DEFINE j == i + k * m
  <2>1. j \in 0 .. n - (32 * m)
    BY <1>1
  <2>2. /\ i + (k + 32) * m = j + 32 * m /\ i + (k + 31) * m = j + 31 * m
        /\ i + (k + 2) * m = j + 2 * m
    BY <1>1
  <2> QED BY <2>1, <2>2 DEF Recurs
<1>4. /\ b[i + 32 * (2 * m)] = At(64) /\ b[i + 31 * (2 * m)] = At(62)
      /\ b[i + 2 * (2 * m)] = At(4) /\ b[i] = At(0)
  BY <1>1
<1> HIDE DEF At
<1>5. /\ At(64) = Xor(Xor(At(63), At(34)), At(32))
      /\ At(63) = Xor(Xor(At(62), At(33)), At(31))
      /\ At(34) = Xor(Xor(At(33), At(4)), At(2))
      /\ At(32) = Xor(Xor(At(31), At(2)), At(0))
  BY <1>3
<1>6. /\ At(0) \in {0, 1} /\ At(2) \in {0, 1} /\ At(4) \in {0, 1}
      /\ At(31) \in {0, 1} /\ At(33) \in {0, 1} /\ At(62) \in {0, 1}
  BY <1>2
<1>7. At(64) = Xor(Xor(At(62), At(4)), At(0))
  BY <1>5, <1>6 DEF Xor
<1> QED BY <1>4, <1>7

(* Every m-th of the bits from o on; its first 32 make out the rest.        *)
Row(b, o, m)  == [i \in 0 .. 62 |-> b[o + m * i]]
Fed(a)        == \A i \in 0 .. 30 : a[i + 32] = Xor(Xor(a[i + 31], a[i + 2]), a[i])
Begins(a, t)  == \A i \in 1 .. 32 : a[i - 1] = t[i]
Evens(c, a)   == \A i \in 0 .. 31 : c[i] = a[2 * i]

LEMMA RowFed ==
    ASSUME NEW n \in Nat, NEW m \in Nat, NEW o \in Nat, NEW b \in [Nat -> {0, 1}],
           Recurs(b, n, m), o + 62 * m <= n
    PROVE  Fed(Row(b, o, m)) /\ Evens(Row(b, o, 2 * m), Row(b, o, m))
<1>1. ASSUME NEW i \in 0 .. 30
      PROVE  b[o + m * (i + 32)] = Xor(Xor(b[o + m * (i + 31)], b[o + m * (i + 2)]), b[o + m * i])
  <2> DEFINE j == o + m * i
  <2>1. m * i \in Nat /\ m * i + 32 * m <= 62 * m
    <3>1. i \in Nat /\ i + 32 <= 62
      OBVIOUS
    <3>2. (i + 32) * m <= 62 * m
      BY <3>1
    <3> QED BY <3>1, <3>2
  <2>2. j \in 0 .. n - (32 * m)
    BY <2>1
  <2>3. /\ o + m * (i + 32) = j + 32 * m /\ o + m * (i + 31) = j + 31 * m
        /\ o + m * (i + 2) = j + 2 * m
    OBVIOUS
  <2> QED BY <2>2, <2>3 DEF Recurs
<1>2. Fed(Row(b, o, m))
  BY <1>1 DEF Fed, Row
<1>3. Evens(Row(b, o, 2 * m), Row(b, o, m))
  <2> SUFFICES ASSUME NEW i \in 0 .. 31 PROVE b[o + (2 * m) * i] = b[o + m * (2 * i)]
      BY DEF Evens, Row
  <2>1. (2 * m) * i = m * (2 * i)
    OBVIOUS
  <2> QED BY <2>1
<1> QED BY <1>2, <1>3

(* The bits from the first on: at distances of 1, 2, 4, 8, 16 and 32.        *)
Odd1 == <<0, 1, 0, 1, 0, 1, 0, 1, 0, 1, 0, 1, 0, 1, 0, 1,
          0, 1, 0, 1, 0, 1, 0, 1, 0, 1, 0, 1, 0, 0, 1, 1>>
Odd2 == <<0, 0, 0, 0, 0, 0, 0, 0, 0, 0, 0, 0, 0, 0, 0, 1,
          1, 1, 1, 1, 1, 1, 1, 1, 1, 1, 1, 1, 1, 1, 1, 0>>
Odd4 == <<0, 0, 0, 0, 0, 0, 0, 0, 1, 1, 1, 1, 1, 1, 1, 1,
          0, 0, 0, 0, 0, 0, 0, 0, 0, 0, 0, 0, 0, 0, 0, 0>>
Odd8 == <<0, 0, 0, 0, 1, 1, 1, 1, 0, 0, 0, 0, 0, 0, 0, 0,
          0, 0, 0, 1, 0, 0, 0, 1, 0, 0, 0, 0, 0, 0, 0, 0>>
Odd16 == <<0, 0, 1, 1, 0, 0, 0, 0, 0, 0, 0, 0, 0, 0, 0, 0,
           0, 1, 0, 1, 0, 0, 0, 0, 0, 1, 0, 1, 0, 0, 0, 0>>
Odd32 == <<0, 1, 0, 0, 0, 0, 0, 0, 0, 0, 0, 0, 0, 0, 0, 0,
           1, 1, 0, 0, 0, 0, 0, 0, 1, 1, 0, 0, 1, 1, 0, 1>>

LEMMA OddRows ==
    ASSUME NEW a, NEW c, Fed(a), Evens(c, a)
    PROVE  /\ Begins(a, Odd1) => Begins(c, Odd2)
           /\ Begins(a, Odd2) => Begins(c, Odd4)
           /\ Begins(a, Odd4) => Begins(c, Odd8)
           /\ Begins(a, Odd8) => Begins(c, Odd16)
           /\ Begins(a, Odd16) => Begins(c, Odd32)
<1>1. ASSUME Begins(a, Odd1) PROVE Begins(c, Odd2)
  BY <1>1, SMTT(60) DEF Fed, Evens, Begins, Xor, Odd1, Odd2
<1>2. ASSUME Begins(a, Odd2) PROVE Begins(c, Odd4)
  BY <1>2, SMTT(60) DEF Fed, Evens, Begins, Xor, Odd2, Odd4
<1>3. ASSUME Begins(a, Odd4) PROVE Begins(c, Odd8)
  BY <1>3, SMTT(60) DEF Fed, Evens, Begins, Xor, Odd4, Odd8
<1>4. ASSUME Begins(a, Odd8) PROVE Begins(c, Odd16)
  BY <1>4, SMTT(60) DEF Fed, Evens, Begins, Xor, Odd8, Odd16
<1>5. ASSUME Begins(a, Odd16) PROVE Begins(c, Odd32)
  BY <1>5, SMTT(60) DEF Fed, Evens, Begins, Xor, Odd16, Odd32
<1> QED BY <1>1, <1>2, <1>3, <1>4, <1>5

(* The bits from the second on, up to a distance of 64.                      *)
Even1 == <<1, 0, 1, 0, 1, 0, 1, 0, 1, 0, 1, 0, 1, 0, 1, 0,
           1, 0, 1, 0, 1, 0, 1, 0, 1, 0, 1, 0, 0, 1, 1, 1>>
Even2 == <<1, 1, 1, 1, 1, 1, 1, 1, 1, 1, 1, 1, 1, 1, 0, 1,
           1, 1, 1, 1, 1, 1, 1, 1, 1, 1, 1, 1, 1, 0, 0, 0>>
Even4 == <<1, 1, 1, 1, 1, 1, 1, 0, 1, 1, 1, 1, 1, 1, 1, 0,
           0, 0, 0, 0, 0, 0, 1, 0, 0, 0, 0, 0, 0, 0, 0, 0>>
Even8 == <<1, 1, 1, 1, 1, 1, 1, 1, 0, 0, 0, 1, 0, 0, 0, 0,
           0, 0, 0, 1, 0, 0, 0, 0, 0, 0, 1, 0, 0, 0, 0, 0>>
Even16 == <<1, 1, 1, 1, 0, 0, 0, 0, 0, 0, 0, 0, 0, 1, 0, 0,
            0, 0, 0, 1, 0, 1, 0, 0, 0, 1, 0, 0, 1, 0, 0, 0>>
Even32 == <<1, 1, 0, 0, 0, 0, 0, 0, 0, 0, 0, 0, 0, 0, 1, 0,
            0, 1, 0, 0, 0, 0, 1, 0, 0, 1, 1, 0, 1, 1, 0, 0>>
Even64 == <<1, 0, 0, 0, 0, 0, 0, 1, 0, 0, 0, 1, 0, 1, 1, 0,
            1, 0, 0, 0, 0, 0, 1, 0, 1, 0, 1, 0, 0, 1, 1, 1>>

LEMMA EvenRows ==
    ASSUME NEW a, NEW c, Fed(a), Evens(c, a)
    PROVE  /\ Begins(a, Even1) => Begins(c, Even2)
           /\ Begins(a, Even2) => Begins(c, Even4)
           /\ Begins(a, Even4) => Begins(c, Even8)
           /\ Begins(a, Even8) => Begins(c, Even16)
           /\ Begins(a, Even16) => Begins(c, Even32)
           /\ Begins(a, Even32) => Begins(c, Even64)
<1>1. ASSUME Begins(a, Even1) PROVE Begins(c, Even2)
  BY <1>1, SMTT(60) DEF Fed, Evens, Begins, Xor, Even1, Even2
<1>2. ASSUME Begins(a, Even2) PROVE Begins(c, Even4)
  BY <1>2, SMTT(60) DEF Fed, Evens, Begins, Xor, Even2, Even4
<1>3. ASSUME Begins(a, Even4) PROVE Begins(c, Even8)
  BY <1>3, SMTT(60) DEF Fed, Evens, Begins, Xor, Even4, Even8
<1>4. ASSUME Begins(a, Even8) PROVE Begins(c, Even16)
  BY <1>4, SMTT(60) DEF Fed, Evens, Begins, Xor, Even8, Even16
<1>5. ASSUME Begins(a, Even16) PROVE Begins(c, Even32)
  BY <1>5, SMTT(60) DEF Fed, Evens, Begins, Xor, Even16, Even32
<1>6. ASSUME Begins(a, Even32) PROVE Begins(c, Even64)
  BY <1>6, SMTT(60) DEF Fed, Evens, Begins, Xor, Even32, Even64
<1> QED BY <1>1, <1>2, <1>3, <1>4, <1>5, <1>6

(* The lowest bits of the first seeds.                                      *)
LEMMA FirstBits ==
    ASSUME NEW n \in Nat, n >= 33, NEW f, Seeds(f, n), NEW b, b = Lowest(f)
    PROVE  /\ b \in [Nat -> {0, 1}]
           /\ Begins(Row(b, 1, 1), Odd1) /\ Begins(Row(b, 2, 1), Even1)
<1>1. \A i \in Nat : f[i].lo \in Nat
  BY WordIs DEF Seeds
<1>2. \A h \in Nat : BitOf(h, 1) = h % 2 /\ h % 2 \in {0, 1}
  BY DEF BitOf
<1>3. \A i \in Nat : b[i] = f[i].lo % 2
  BY <1>1, <1>2 DEF Lowest
<1>4. b \in [Nat -> {0, 1}]
  BY <1>1, <1>2 DEF Lowest
<1>5. /\ f[0].lo = 65535 /\ f[1].lo = 65534 /\ f[2].lo = 65535 /\ f[3].lo = 65534
      /\ f[4].lo = 65535 /\ f[5].lo = 65534 /\ f[6].lo = 65535 /\ f[7].lo = 65534
      /\ f[8].lo = 65535 /\ f[9].lo = 65534 /\ f[10].lo = 65535 /\ f[11].lo = 65534
      /\ f[12].lo = 65535 /\ f[13].lo = 65534 /\ f[14].lo = 65535 /\ f[15].lo = 32766
      /\ f[16].lo = 49151 /\ f[17].lo = 24574 /\ f[18].lo = 12287 /\ f[19].lo = 6142
      /\ f[20].lo = 3071 /\ f[21].lo = 1534 /\ f[22].lo = 767 /\ f[23].lo = 382
      /\ f[24].lo = 191 /\ f[25].lo = 94 /\ f[26].lo = 47 /\ f[27].lo = 22
      /\ f[28].lo = 11 /\ f[29].lo = 4 /\ f[30].lo = 2 /\ f[31].lo = 1
      /\ f[32].lo = 1
  BY FirstSeeds DEF Seed
<1>6. /\ b[0] = 1 /\ b[1] = 0 /\ b[2] = 1 /\ b[3] = 0 /\ b[4] = 1 /\ b[5] = 0
      /\ b[6] = 1 /\ b[7] = 0 /\ b[8] = 1 /\ b[9] = 0 /\ b[10] = 1 /\ b[11] = 0
      /\ b[12] = 1 /\ b[13] = 0 /\ b[14] = 1 /\ b[15] = 0 /\ b[16] = 1 /\ b[17] = 0
      /\ b[18] = 1 /\ b[19] = 0 /\ b[20] = 1 /\ b[21] = 0 /\ b[22] = 1 /\ b[23] = 0
      /\ b[24] = 1 /\ b[25] = 0 /\ b[26] = 1 /\ b[27] = 0 /\ b[28] = 1 /\ b[29] = 0
      /\ b[30] = 0 /\ b[31] = 1 /\ b[32] = 1
  BY <1>3, <1>5
<1>7. b[33] = 1
  <2>1. Recurs(b, n, 1) /\ 1 \in 0 .. n - (32 * 1)
    BY BottomRecurs
  <2>2. b[1 + 32 * 1] = Xor(Xor(b[1 + 31 * 1], b[1 + 2 * 1]), b[1])
    BY <2>1 DEF Recurs
  <2> QED BY <1>6, <2>2 DEF Xor
<1>8. Begins(Row(b, 1, 1), Odd1)
  <2>1. \A i \in 0 .. 31 : Row(b, 1, 1)[i] = b[i + 1]
    BY DEF Row
  <2> QED BY <1>6, <2>1 DEF Begins, Odd1
<1>9. Begins(Row(b, 2, 1), Even1)
  <2>1. \A i \in 0 .. 31 : Row(b, 2, 1)[i] = b[i + 2]
    BY DEF Row
  <2> QED BY <1>6, <1>7, <2>1 DEF Begins, Even1
<1> QED BY <1>4, <1>8, <1>9

(* Far from the start the lowest bit differs from the first or the second,  *)
(* at the distance of any of the upper address lines.                       *)
LEMMA FarBits ==
    ASSUME NEW n \in Nat, n >= 33, NEW f, Seeds(f, n), NEW b, b = Lowest(f)
    PROVE  /\ \A w \in {32, 512, 1024} : w + 2 <= n => b[w + 1] # b[1]
           /\ \A w \in {64, 128, 256, 2048} : w + 2 <= n => b[w + 2] # b[2]
<1>1. b \in [Nat -> {0, 1}] /\ Begins(Row(b, 1, 1), Odd1) /\ Begins(Row(b, 2, 1), Even1)
  BY FirstBits
<1>2. /\ Recurs(b, n, 1) /\ Recurs(b, n, 2) /\ Recurs(b, n, 4) /\ Recurs(b, n, 8)
      /\ Recurs(b, n, 16) /\ Recurs(b, n, 32) /\ Recurs(b, n, 64)
  <2>1. Recurs(b, n, 1)
    BY BottomRecurs
  <2>2. \A m \in Nat : Recurs(b, n, m) => Recurs(b, n, 2 * m)
    BY <1>1, Doubled
  <2> QED BY <2>1, <2>2
<1>3. ASSUME NEW m \in Nat, NEW o \in Nat, Recurs(b, n, m), o + 32 * m <= n
      PROVE  b[o + 32 * m] = Xor(Xor(Row(b, o, m)[31], Row(b, o, m)[2]), Row(b, o, m)[0])
  <2>1. o \in 0 .. n - (32 * m)
    BY <1>3
  <2>2. b[o + 32 * m] = Xor(Xor(b[o + 31 * m], b[o + 2 * m]), b[o])
    BY <1>3, <2>1 DEF Recurs
  <2>3. m * 31 = 31 * m /\ m * 2 = 2 * m
    OBVIOUS
  <2>4. m * 0 = 0 /\ o + 0 = o
    OBVIOUS
  <2> QED BY <2>2, <2>3, <2>4 DEF Row
<1>4. ASSUME NEW m \in Nat, NEW o \in Nat, Recurs(b, n, m), o + 62 * m <= n
      PROVE  Fed(Row(b, o, m)) /\ Evens(Row(b, o, 2 * m), Row(b, o, m))
  BY <1>1, <1>4, RowFed
<1>5. /\ 63 <= n => Begins(Row(b, 1, 2), Odd2)
      /\ 125 <= n => Begins(Row(b, 1, 4), Odd4)
      /\ 249 <= n => Begins(Row(b, 1, 8), Odd8)
      /\ 497 <= n => Begins(Row(b, 1, 16), Odd16)
      /\ 993 <= n => Begins(Row(b, 1, 32), Odd32)
  <2>1. 63 <= n => Begins(Row(b, 1, 2), Odd2)
    BY <1>1, <1>2, <1>4, OddRows
  <2>2. 125 <= n => Begins(Row(b, 1, 4), Odd4)
    BY <1>2, <1>4, <2>1, OddRows
  <2>3. 249 <= n => Begins(Row(b, 1, 8), Odd8)
    BY <1>2, <1>4, <2>2, OddRows
  <2>4. 497 <= n => Begins(Row(b, 1, 16), Odd16)
    BY <1>2, <1>4, <2>3, OddRows
  <2>5. 993 <= n => Begins(Row(b, 1, 32), Odd32)
    BY <1>2, <1>4, <2>4, OddRows
  <2> QED BY <2>1, <2>2, <2>3, <2>4, <2>5
<1>6. /\ 64 <= n => Begins(Row(b, 2, 2), Even2)
      /\ 126 <= n => Begins(Row(b, 2, 4), Even4)
      /\ 250 <= n => Begins(Row(b, 2, 8), Even8)
      /\ 498 <= n => Begins(Row(b, 2, 16), Even16)
      /\ 994 <= n => Begins(Row(b, 2, 32), Even32)
      /\ 1986 <= n => Begins(Row(b, 2, 64), Even64)
  <2>1. 64 <= n => Begins(Row(b, 2, 2), Even2)
    BY <1>1, <1>2, <1>4, EvenRows
  <2>2. 126 <= n => Begins(Row(b, 2, 4), Even4)
    BY <1>2, <1>4, <2>1, EvenRows
  <2>3. 250 <= n => Begins(Row(b, 2, 8), Even8)
    BY <1>2, <1>4, <2>2, EvenRows
  <2>4. 498 <= n => Begins(Row(b, 2, 16), Even16)
    BY <1>2, <1>4, <2>3, EvenRows
  <2>5. 994 <= n => Begins(Row(b, 2, 32), Even32)
    BY <1>2, <1>4, <2>4, EvenRows
  <2>6. 1986 <= n => Begins(Row(b, 2, 64), Even64)
    BY <1>2, <1>4, <2>5, EvenRows
  <2> QED BY <2>1, <2>2, <2>3, <2>4, <2>5, <2>6
<1>7. /\ Row(b, 1, 1)[0] = b[1] /\ Row(b, 2, 1)[0] = b[2]
  BY DEF Row
<1>8. b[1] = 0 /\ b[2] = 1
  BY <1>1, <1>7 DEF Begins, Odd1, Even1
<1>9. ASSUME NEW w \in {32, 512, 1024}, w + 2 <= n PROVE b[w + 1] # b[1]
  <2>1. CASE w = 32
    <3>1. b[1 + 32 * 1] = Xor(Xor(Row(b, 1, 1)[31], Row(b, 1, 1)[2]), Row(b, 1, 1)[0])
      BY <1>2, <1>3, <1>9, <2>1
    <3>2. Row(b, 1, 1)[31] = 1 /\ Row(b, 1, 1)[2] = 0 /\ Row(b, 1, 1)[0] = 0
      BY <1>1, <1>9, <2>1 DEF Begins, Odd1
    <3> QED BY <1>8, <2>1, <3>1, <3>2 DEF Xor
  <2>2. CASE w = 512
    <3>1. b[1 + 32 * 16] = Xor(Xor(Row(b, 1, 16)[31], Row(b, 1, 16)[2]), Row(b, 1, 16)[0])
      BY <1>2, <1>3, <1>9, <2>2
    <3>2. Row(b, 1, 16)[31] = 0 /\ Row(b, 1, 16)[2] = 1 /\ Row(b, 1, 16)[0] = 0
      BY <1>5, <1>9, <2>2 DEF Begins, Odd16
    <3> QED BY <1>8, <2>2, <3>1, <3>2 DEF Xor
  <2>3. CASE w = 1024
    <3>1. b[1 + 32 * 32] = Xor(Xor(Row(b, 1, 32)[31], Row(b, 1, 32)[2]), Row(b, 1, 32)[0])
      BY <1>2, <1>3, <1>9, <2>3
    <3>2. Row(b, 1, 32)[31] = 1 /\ Row(b, 1, 32)[2] = 0 /\ Row(b, 1, 32)[0] = 0
      BY <1>5, <1>9, <2>3 DEF Begins, Odd32
    <3> QED BY <1>8, <2>3, <3>1, <3>2 DEF Xor
  <2> QED BY <1>9, <2>1, <2>2, <2>3
<1>10. ASSUME NEW w \in {64, 128, 256, 2048}, w + 2 <= n PROVE b[w + 2] # b[2]
  <2>1. CASE w = 64
    <3>1. b[2 + 32 * 2] = Xor(Xor(Row(b, 2, 2)[31], Row(b, 2, 2)[2]), Row(b, 2, 2)[0])
      BY <1>2, <1>3, <1>10, <2>1
    <3>2. Row(b, 2, 2)[31] = 0 /\ Row(b, 2, 2)[2] = 1 /\ Row(b, 2, 2)[0] = 1
      BY <1>6, <1>10, <2>1 DEF Begins, Even2
    <3> QED BY <1>8, <2>1, <3>1, <3>2 DEF Xor
  <2>2. CASE w = 128
    <3>1. b[2 + 32 * 4] = Xor(Xor(Row(b, 2, 4)[31], Row(b, 2, 4)[2]), Row(b, 2, 4)[0])
      BY <1>2, <1>3, <1>10, <2>2
    <3>2. Row(b, 2, 4)[31] = 0 /\ Row(b, 2, 4)[2] = 1 /\ Row(b, 2, 4)[0] = 1
      BY <1>6, <1>10, <2>2 DEF Begins, Even4
    <3> QED BY <1>8, <2>2, <3>1, <3>2 DEF Xor
  <2>3. CASE w = 256
    <3>1. b[2 + 32 * 8] = Xor(Xor(Row(b, 2, 8)[31], Row(b, 2, 8)[2]), Row(b, 2, 8)[0])
      BY <1>2, <1>3, <1>10, <2>3
    <3>2. Row(b, 2, 8)[31] = 0 /\ Row(b, 2, 8)[2] = 1 /\ Row(b, 2, 8)[0] = 1
      BY <1>6, <1>10, <2>3 DEF Begins, Even8
    <3> QED BY <1>8, <2>3, <3>1, <3>2 DEF Xor
  <2>4. CASE w = 2048
    <3>1. b[2 + 32 * 64] = Xor(Xor(Row(b, 2, 64)[31], Row(b, 2, 64)[2]), Row(b, 2, 64)[0])
      BY <1>2, <1>3, <1>10, <2>4
    <3>2. Row(b, 2, 64)[31] = 1 /\ Row(b, 2, 64)[2] = 0 /\ Row(b, 2, 64)[0] = 1
      BY <1>6, <1>10, <2>4 DEF Begins, Even64
    <3> QED BY <1>8, <2>4, <3>1, <3>2 DEF Xor
  <2> QED BY <1>10, <2>1, <2>2, <2>3, <2>4
<1> QED BY <1>9, <1>10

-----------------------------------------------------------------------------
(* The start of the program.                                                *)

USE StartAssumption DEF StartAssumption

(* A RAM without fault holds the image up to the byte the loop has come to, *)
(* and all of it when the loop is done; the clock comes on after that.      *)
Loaded(n) == fault = <<"none">> => \A p \in Addresses : p < n => sram[p] = Image[p]

LoadInv ==
    /\ DOMAIN sram = Addresses
    /\ pc = "load" => at < LEN /\ Loaded(at)
    /\ pc \in {"start", "irq"} => Loaded(LEN)
    /\ sysCfg = "run" => pc = "irq"

StartInv == TypeOK /\ LoadInv

-----------------------------------------------------------------------------
(* The messages in their order.                                             *)
LEMMA Messages ==
    /\ DOMAIN Prints = {"hello", "header", "filling", "checking", "verdict"}
    /\ After["hello"] = "header" /\ After["header"] = "filling" /\ After["filling"] = "fill"
    /\ After["checking"] = "check" /\ After["verdict"] = "stop"
BY DEF Prints, After

(* The size of the RAM.                                                     *)
LEMMA Size == LEN \in Nat /\ LEN > 0 /\ Addresses = 0 .. LEN - 1
BY DEF LEN, Addresses

(* The default seed is a word, and not zero.                                *)
LEMMA OnesType == Ones \in Word /\ Ones # Zero
<1>1. 65535 \in Nat /\ 65535 < 65536
  OBVIOUS
<1>2. [hi |-> 65535, lo |-> 65535] \in Word
  BY <1>1, WordIs
<1> QED BY <1>2 DEF Ones, Zero

(* A write that is not disturbed changes one byte.                          *)
LEMMA GoodWrite ==
    ASSUME fault = <<"none">>, NEW p \in Addresses, NEW byte, Write(p, byte), DOMAIN sram = Addresses
    PROVE  sram'[p] = byte /\ \A q \in Addresses : q # p => sram'[q] = sram[q]
<1>1. fault[1] = "none"
  OBVIOUS
<1>2. sram' = [sram EXCEPT ![p] = byte]
  BY <1>1 DEF Write, CellAt, Stored
<1> QED BY <1>2

(* No write moves the ends of the RAM.                                      *)
LEMMA WriteInside ==
    ASSUME NEW p, NEW byte, Write(p, byte) PROVE DOMAIN sram' = DOMAIN sram
BY DEF Write

(* What the console does is its own affair.                                 *)
LEMMA ConsoleTyped ==
    ASSUME UartTypeOK, UartStep \/ TxEmpty \/ (\E text : BeginWrite(text)) \/ UNCHANGED uartVars
    PROVE  UartTypeOK'
<1>0. RETRIES \in Nat
  BY UartAssumption
<1>1. CASE CallPutchar
  BY <1>0, <1>1 DEF CallPutchar, UartTypeOK
<1>2. CASE Poll
  <2>1. CASE retries = 0
    BY <1>2, <2>1 DEF Poll, Return, UartTypeOK
  <2>2. CASE retries # 0
    BY <1>0, <1>2, <2>2 DEF Poll, UartTypeOK
  <2> QED BY <2>1, <2>2
<1>3. CASE SendCR
  BY <1>3 DEF SendCR, UartTypeOK
<1>4. CASE SendChar
  BY <1>4 DEF SendChar, Return, UartTypeOK
<1>5. CASE EndWrite
  BY <1>0, <1>5 DEF EndWrite, UartTypeOK
<1>6. CASE TxEmpty
  BY <1>6 DEF TxEmpty, UartTypeOK
<1>7. CASE \E text : BeginWrite(text)
  BY <1>7 DEF BeginWrite, UartTypeOK
<1>8. CASE UNCHANGED uartVars
  BY <1>8 DEF uartVars, UartTypeOK
<1> QED BY <1>1, <1>2, <1>3, <1>4, <1>5, <1>6, <1>7, <1>8 DEF UartStep

-----------------------------------------------------------------------------
(* The invariant holds at reset.                                            *)
LEMMA StartInit == Init => StartInv
<1> SUFFICES ASSUME Init PROVE StartInv
    OBVIOUS
<1>1. UartTypeOK
  BY UartAssumption DEF Init, UartInit, UartTypeOK
<1>2. pc = "hello" /\ at = 0 /\ seed = Ones /\ sysCfg = "off" /\ DOMAIN sram = Addresses
  BY DEF Init
<1>3. TypeOK
  BY <1>1, <1>2, Messages, Size, OnesType DEF TypeOK
<1> QED BY <1>2, <1>3 DEF StartInv, LoadInv

(* and every step keeps it.                                                 *)
LEMMA StartStep == StartInv /\ [Next]_vars => StartInv'
<1> SUFFICES ASSUME StartInv, [Next]_vars PROVE StartInv'
    OBVIOUS
<1>1. /\ UartTypeOK /\ at \in 0 .. LEN /\ seed \in Word /\ seed # Zero
      /\ pc \in {"hello", "header", "filling", "checking", "verdict",
                 "fill", "check", "stop", "load", "start", "irq"}
      /\ sysCfg \in {"off", "reset", "io", "run"} /\ LoadInv
  BY Messages DEF StartInv, TypeOK
<1> DEFINE Typed == /\ UartTypeOK' /\ at' \in 0 .. LEN /\ seed' \in Word /\ seed' # Zero
                    /\ pc' \in {"hello", "header", "filling", "checking", "verdict",
                                "fill", "check", "stop", "load", "start", "irq"}
                    /\ sysCfg' \in {"off", "reset", "io", "run"}
<1>2. Typed /\ LoadInv' => StartInv'
  <2>1. (DOMAIN Prints)' = {"hello", "header", "filling", "checking", "verdict"}
    BY DEF Prints
  <2>2. LEN' = LEN /\ Word' = Word /\ Zero' = Zero
    BY DEF LEN, Word, Zero
  <2> QED BY <2>1, <2>2 DEF StartInv, TypeOK
<1>3. SeedNext(seed) \in Word /\ SeedNext(seed) # Zero
  BY <1>1, NeverZero
<1>4. UNCHANGED <<Addresses, Image, LEN>>
  BY DEF Addresses, Image, LEN
<1>5. CASE Printf
  <2>1. UartTypeOK'
    BY <1>1, <1>5, ConsoleTyped DEF Printf
  <2>2. pc \in {"hello", "header", "filling", "checking", "verdict"} /\ pc' = After[pc]
    BY <1>5, Messages DEF Printf
  <2>3. pc' \in {"header", "filling", "fill", "check", "stop"}
    BY <2>2, Messages
  <2>4. at' \in {0, at} /\ seed' \in {Ones, seed} /\ UNCHANGED <<sram, fault, sysCfg>>
    BY <1>5 DEF Printf
  <2>5. Typed
    BY <1>1, <2>1, <2>3, <2>4, OnesType, Size
  <2>6. LoadInv'
    BY <1>1, <1>4, <2>2, <2>3, <2>4 DEF LoadInv
  <2> QED BY <1>2, <2>5, <2>6
<1>6. CASE Memfill
  <2>1. UartTypeOK' /\ UNCHANGED <<fault, sysCfg>> /\ pc = "fill" /\ pc' \in {"fill", "checking"}
    BY <1>1, <1>6, ConsoleTyped DEF Memfill
  <2>2. at' \in 0 .. LEN /\ seed' \in {seed, SeedNext(seed)}
    BY <1>1, <1>6, Size DEF Memfill
  <2>3. DOMAIN sram' = Addresses
    BY <1>1, <1>6, WriteInside DEF Memfill, LoadInv
  <2>4. LoadInv'
    BY <1>1, <1>4, <2>1, <2>3 DEF LoadInv
  <2> QED BY <1>1, <1>2, <1>3, <2>1, <2>2, <2>4
<1>7. CASE Memcheck
  <2>1. /\ UartTypeOK' /\ UNCHANGED <<fault, sysCfg, sram>> /\ pc = "check"
        /\ pc' \in {"check", "verdict"}
    BY <1>1, <1>7, ConsoleTyped DEF Memcheck
  <2>2. at' \in 0 .. LEN /\ seed' \in {seed, SeedNext(seed)}
    BY <1>1, <1>7, Size DEF Memcheck
  <2>3. LoadInv'
    BY <1>1, <1>4, <2>1 DEF LoadInv
  <2> QED BY <1>1, <1>2, <1>3, <2>1, <2>2, <2>3
<1>8. CASE StopPioc
  <2>1. /\ UartTypeOK' /\ UNCHANGED <<fault, sram, seed>> /\ pc = "stop" /\ at' = 0
        /\ pc' \in {"stop", "load"} /\ sysCfg' \in {"reset", "off"}
    BY <1>1, <1>8, ConsoleTyped DEF StopPioc
  <2>2. Loaded(0)'
    BY <1>4, Size DEF Loaded
  <2>3. LoadInv'
    BY <1>1, <1>4, <2>1, <2>2, Size DEF LoadInv, Loaded
  <2> QED BY <1>1, <1>2, <2>1, <2>3, Size
<1>9. CASE LoadCode
  <2>1. /\ UartTypeOK' /\ UNCHANGED <<fault, sysCfg, seed>> /\ pc = "load" /\ at' = at + 1
        /\ Write(at, Image[at]) /\ pc' = IF at + 1 = LEN THEN "start" ELSE "load"
    BY <1>1, <1>9, ConsoleTyped DEF LoadCode
  <2>2. at \in Addresses /\ at < LEN
    BY <1>1, <2>1, Size DEF LoadInv
  <2>3. DOMAIN sram' = Addresses
    BY <1>1, <2>1, WriteInside DEF LoadInv
  <2>4. Loaded(at)'
    <3> SUFFICES ASSUME fault = <<"none">>, NEW p \in Addresses, p < at + 1
                 PROVE  sram'[p] = Image[p]
        BY <1>4, <2>1 DEF Loaded
    <3>1. CASE p = at
      BY <1>1, <2>1, <2>2, <3>1, GoodWrite DEF LoadInv
    <3>2. CASE p # at
      <4>1. sram'[p] = sram[p]
        BY <1>1, <2>1, <2>2, <3>2, GoodWrite DEF LoadInv
      <4>2. p < at
        BY <2>2, <3>2, Size
      <4> QED BY <1>1, <2>1, <4>1, <4>2 DEF LoadInv, Loaded
    <3> QED BY <3>1, <3>2
  <2>5. LoadInv'
    <3>1. CASE at + 1 = LEN
      BY <1>1, <1>4, <2>1, <2>2, <2>3, <2>4, <3>1 DEF LoadInv, Loaded
    <3>2. CASE at + 1 # LEN
      BY <1>1, <1>4, <2>1, <2>2, <2>3, <2>4, <3>2, Size DEF LoadInv, Loaded
    <3> QED BY <3>1, <3>2
  <2>6. Typed
    BY <1>1, <2>1, <2>2, Size
  <2> QED BY <1>2, <2>5, <2>6
<1>10. CASE StartPioc
  <2>1. /\ UartTypeOK' /\ UNCHANGED <<fault, sram, seed, at>> /\ pc = "start"
        /\ pc' \in {"start", "irq"} /\ sysCfg' \in {"io", "run"}
        /\ sysCfg' = "run" => pc' = "irq"
    BY <1>1, <1>10, ConsoleTyped DEF StartPioc
  <2>2. LoadInv'
    BY <1>1, <1>4, <2>1 DEF LoadInv, Loaded
  <2> QED BY <1>1, <1>2, <2>1, <2>2
<1>11. CASE (UartStep \/ TxEmpty) /\ UNCHANGED <<pc, memVars>>
  <2>1. UartTypeOK' /\ UNCHANGED <<pc, fault, sram, seed, at, sysCfg>>
    BY <1>1, <1>11, ConsoleTyped DEF memVars
  <2>2. LoadInv'
    BY <1>1, <1>4, <2>1 DEF LoadInv, Loaded
  <2> QED BY <1>1, <1>2, <2>1, <2>2
<1>12. CASE UNCHANGED vars
  <2>1. UartTypeOK' /\ UNCHANGED <<pc, fault, sram, seed, at, sysCfg>>
    BY <1>1, <1>12, ConsoleTyped DEF vars, memVars
  <2>2. LoadInv'
    BY <1>1, <1>4, <2>1 DEF LoadInv, Loaded
  <2> QED BY <1>1, <1>2, <2>1, <2>2
<1> QED BY <1>5, <1>6, <1>7, <1>8, <1>9, <1>10, <1>11, <1>12 DEF Next, Boot

(* The seed of the memory test is a word other than zero at every step, and *)
(* every loop over the RAM stays inside it (cvbs_main.cpp:39-66, 102-117).  *)
THEOREM StartTyped == Spec => []TypeOK
<1>1. StartInv => TypeOK
  BY DEF StartInv
<1> QED BY <1>1, StartInit, StartStep, PTL DEF Spec

(* The clock of the PIOC comes on when the whole image is in its RAM.       *)
THEOREM WholeImage == Spec => []CodeWhole
<1>1. StartInv => CodeWhole
  <2> SUFFICES ASSUME StartInv, sysCfg = "run", fault = <<"none">>, NEW p \in Addresses
               PROVE  Read(p) = Image[p]
      BY DEF CodeWhole
  <2>1. sram[p] = Image[p]
    BY Size DEF StartInv, LoadInv, Loaded
  <2> QED BY <2>1 DEF Read, CellAt
<1> QED BY <1>1, StartInit, StartStep, PTL DEF Spec

-----------------------------------------------------------------------------
(* Division by the number of tiles.                                         *)
LEMMA TileOf ==
    ASSUME NEW T \in Nat \ {0}, NEW q \in 0 .. 3, NEW r \in 0 .. T - 1
    PROVE  (q * T + r) % T = r /\ (q * T + r) \div T = q
<1> DEFINE n == q * T + r
           d == n \div T
<1>1. n \in Nat /\ T > 0 /\ r \in Nat /\ r < T
  <2>1. q \in {0, 1, 2, 3}
    OBVIOUS
  <2> QED BY <2>1
<1>2. d \in Nat /\ n = d * T + (n % T) /\ n % T \in 0 .. T - 1
  BY <1>1
<1>3. d = q
  <2>1. \A i, j \in Nat : i < j => i * T + T <= j * T
    <3> SUFFICES ASSUME NEW i \in Nat, NEW j \in Nat, i < j PROVE i * T + T <= j * T
        OBVIOUS
    <3>1. (i + 1) * T <= j * T
      BY <1>1
    <3>2. (i + 1) * T = i * T + T
      BY <1>1
    <3> QED BY <3>1, <3>2, <1>1
  <2>2. ASSUME d < q PROVE FALSE
    <3>1. d * T + T <= q * T
      BY <1>2, <2>1, <2>2
    <3> HIDE DEF d
    <3>2. q * T \in Int /\ d * T \in Int
      BY <1>1, <1>2
    <3> QED BY <1>1, <1>2, <3>1, <3>2
  <2>3. ASSUME q < d PROVE FALSE
    <3>1. q * T + T <= d * T
      BY <1>2, <2>1, <2>3
    <3> HIDE DEF d
    <3>2. q * T \in Int /\ d * T \in Int
      BY <1>1, <1>2
    <3> QED BY <1>1, <1>2, <3>1, <3>2
  <2> HIDE DEF d
  <2> QED BY <1>2, <2>2, <2>3
<1>4. n % T = r
  BY <1>1, <1>2, <1>3
<1> QED BY <1>3, <1>4

(* What the image has at the two bytes of word (4 + q) * TILES + tile.      *)
LEMMA FontAt ==
    ASSUME NEW q \in 0 .. 3, NEW tile \in 0 .. TILES - 1, NEW w, w = (4 + q) * TILES + tile
    PROVE  /\ 2 * w \in Addresses /\ 2 * w + 1 \in Addresses
           /\ Image[2 * w] = GlyphLine(tile, 2 * q)
           /\ Image[2 * w + 1] = GlyphLine(tile, 2 * q + 1)
<1> DEFINE i == q * TILES + tile
<1>1. q \in {0, 1, 2, 3} /\ TILES \in Nat \ {0} /\ tile \in Nat /\ tile < TILES
  OBVIOUS
<1>2. w \in Nat /\ w = FONT + i /\ i \in Nat
  BY <1>1 DEF FONT
<1>3. 2 * w + 1 < LEN
  BY <1>1 DEF LEN
<1>4. 2 * w \in Addresses /\ 2 * w + 1 \in Addresses
  BY <1>2, <1>3, Size
<1>5. i % TILES = tile /\ i \div TILES = q
  BY <1>1, TileOf
<1>6. FontWord(i) = [hi |-> GlyphLine(tile, 2 * q + 1), lo |-> GlyphLine(tile, 2 * q)]
  BY <1>5 DEF FontWord
<1>7. FONT \in Nat
  BY <1>1 DEF FONT
<1> HIDE DEF i
<1>8. /\ (2 * w) \div 2 = w /\ (2 * w) % 2 = 0
      /\ (2 * w + 1) \div 2 = w /\ (2 * w + 1) % 2 = 1
  BY <1>2
<1>9. ~(w < FONT) /\ w - FONT = i
  BY <1>2, <1>7
<1>10. Image[2 * w] = FontWord(i).lo
  BY <1>4, <1>8, <1>9 DEF Image
<1>11. Image[2 * w + 1] = FontWord(i).hi
  BY <1>4, <1>8, <1>9 DEF Image
<1> QED BY <1>4, <1>6, <1>10, <1>11

(* The row of a glyph the line counter stands for.                          *)
LEMMA CounterRow ==
    ASSUME NEW c \in 0 .. 15
    PROVE  /\ (c \div 2) % 4 \in 0 .. 3
           /\ c % 8 = 2 * ((c \div 2) % 4) + (c % 2) /\ c % 2 \in {0, 1}
OBVIOUS

(* The program on the PIOC finds the rows of the characters where the       *)
(* generator of the font has put them, whatever number of tiles there is.   *)
THEOREM RightGlyph == Spec => []GlyphShown
<1>1. CodeWhole => GlyphShown
  <2> SUFFICES ASSUME CodeWhole, sysCfg = "run", fault = <<"none">>,
                      NEW tile \in 0 .. TILES - 1, NEW c \in 0 .. 15
               PROVE  GlyphRow(tile, c) = GlyphLine(tile, c % 8)
      BY DEF GlyphShown
  <2> DEFINE q == (c \div 2) % 4
             w == (4 + q) * TILES + tile
  <2>1. q \in 0 .. 3 /\ c % 8 = 2 * q + (c % 2) /\ c % 2 \in {0, 1}
    BY CounterRow
  <2> HIDE DEF q
  <2>2. /\ 2 * w \in Addresses /\ 2 * w + 1 \in Addresses
        /\ Image[2 * w] = GlyphLine(tile, 2 * q)
        /\ Image[2 * w + 1] = GlyphLine(tile, 2 * q + 1)
    BY <2>1, FontAt
  <2> HIDE DEF w
  <2>3. Read(2 * w) = GlyphLine(tile, 2 * q) /\ Read(2 * w + 1) = GlyphLine(tile, 2 * q + 1)
    BY <2>2 DEF CodeWhole
  <2>4. GlyphRow(tile, c) = IF c % 2 = 1 THEN Read(2 * w + 1) ELSE Read(2 * w)
    BY DEF GlyphRow, Rdcode, q, w
  <2>5. CASE c % 2 = 1
    <3>1. c % 8 = 2 * q + 1
      BY <2>1, <2>5
    <3> QED BY <2>3, <2>4, <2>5, <3>1
  <2>6. CASE c % 2 = 0
    <3>1. c % 8 = 2 * q
      BY <2>1, <2>6
    <3> QED BY <2>3, <2>4, <2>6, <3>1
  <2> QED BY <2>1, <2>5, <2>6
<1> QED BY <1>1, WholeImage, PTL

-----------------------------------------------------------------------------
(* The console.                                                             *)

(* The characters of the messages and what putchar makes of them.           *)
Chars   == {CR, LF, "H", "m", "f", "c", "S", "F"}
Answers == Chars \X {0, 1}

(* The carriage return of a newline goes before its character: while the    *)
(* line feed waits, the line is what the results say and that byte.         *)
ConsoleInv ==
    /\ buf \in Seq(Chars) /\ line \in Seq(Chars) /\ results \in Seq(Answers)
    /\ upc \in {"idle", "next", "cr", "char"}
    /\ upc \in {"cr", "char"} => buf # <<>>
    /\ upc = "cr" => Head(buf) = LF
    /\ upc # "char" => Says(results, line)
    /\ upc = "char" =>
         IF Head(buf) = LF
           THEN \E l \in Seq(Chars) : line = Append(l, CR) /\ Says(results, l)
           ELSE Says(results, line)

(* A longer line has the same pieces at its beginning.                      *)
LEMMA PieceKept ==
    ASSUME NEW l \in Seq(Chars), NEW m \in Seq(Chars), Len(l) <= Len(m),
           \A i \in 1 .. Len(l) : m[i] = l[i],
           NEW a \in 0 .. Len(l), NEW b \in 0 .. Len(l), a <= b
    PROVE  SubSeq(m, a + 1, b) = SubSeq(l, a + 1, b)
<1>1. Len(l) \in Nat /\ Len(m) \in Nat /\ a + 1 \in Int /\ b \in Int
  BY LenProperties
<1>2. \A i \in a + 1 .. b : l[i] \in Chars /\ m[i] \in Chars
  <2> SUFFICES ASSUME NEW i \in a + 1 .. b PROVE l[i] \in Chars /\ m[i] \in Chars
      OBVIOUS
  <2>1. i \in 1 .. Len(l) /\ i \in 1 .. Len(m)
    BY <1>1
  <2> QED BY <2>1, ElementOfSeq
<1> DEFINE s == SubSeq(l, a + 1, b)
           t == SubSeq(m, a + 1, b)
<1>3. /\ s \in Seq(Chars) /\ Len(s) = b - a
      /\ \A i \in 1 .. b - a : s[i] = l[a + i]
  <2>1. /\ s \in Seq(Chars) /\ Len(s) = IF a + 1 <= b THEN b - (a + 1) + 1 ELSE 0
        /\ \A i \in 1 .. b - (a + 1) + 1 : s[i] = l[a + 1 + i - 1]
    BY <1>1, <1>2, SubSeqProperties
  <2> QED BY <1>1, <2>1
<1>4. /\ t \in Seq(Chars) /\ Len(t) = b - a
      /\ \A i \in 1 .. b - a : t[i] = m[a + i]
  <2>1. /\ t \in Seq(Chars) /\ Len(t) = IF a + 1 <= b THEN b - (a + 1) + 1 ELSE 0
        /\ \A i \in 1 .. b - (a + 1) + 1 : t[i] = m[a + 1 + i - 1]
    BY <1>1, <1>2, SubSeqProperties
  <2> QED BY <1>1, <2>1
<1>5. \A i \in 1 .. b - a : a + i \in 1 .. Len(l)
  BY <1>1
<1>6. \A i \in 1 .. Len(s) : s[i] = t[i]
  BY <1>3, <1>4, <1>5
<1> QED BY <1>3, <1>4, <1>6, SeqEqual

(* One more answer, and what it stands for on the line.                     *)
LEMMA SaysMore ==
    ASSUME NEW l \in Seq(Chars), NEW r \in Seq(Answers), Says(r, l),
           NEW m \in Seq(Chars), Len(l) <= Len(m), \A i \in 1 .. Len(l) : m[i] = l[i],
           NEW v \in Answers, SubSeq(m, Len(l) + 1, Len(m)) \in Carries(v)
    PROVE  Says(Append(r, v), m)
<1> DEFINE n == Len(r)
           r2 == Append(r, v)
<1>1. n \in Nat /\ Len(l) \in Nat /\ Len(m) \in Nat
  BY LenProperties
<1>2. Len(r2) = n + 1 /\ (\A i \in 1 .. n : r2[i] = r[i]) /\ r2[n + 1] = v
  BY AppendProperties
<1>3. PICK cut \in [0 .. n -> 0 .. Len(l)] :
        /\ cut[0] = 0 /\ cut[n] = Len(l)
        /\ \A i \in 1 .. n : /\ cut[i - 1] <= cut[i]
                             /\ SubSeq(l, cut[i - 1] + 1, cut[i]) \in Carries(r[i])
  BY DEF Says
<1> DEFINE cut2 == [i \in 0 .. n + 1 |-> IF i <= n THEN cut[i] ELSE Len(m)]
<1> HIDE DEF n, r2
<1>4. ASSUME NEW i \in 0 .. n PROVE cut2[i] = cut[i] /\ cut[i] \in 0 .. Len(l)
  <2>1. i \in 0 .. n + 1 /\ i <= n
    BY <1>1
  <2> QED BY <1>3, <2>1
<1>5. cut2[n + 1] = Len(m) /\ cut2[0] = 0
  BY <1>1, <1>3
<1>6. cut2 \in [0 .. n + 1 -> 0 .. Len(m)]
  <2>1. \A i \in 0 .. n + 1 : (IF i <= n THEN cut[i] ELSE Len(m)) \in 0 .. Len(m)
    BY <1>1, <1>4
  <2> QED BY <2>1
<1> HIDE DEF cut2
<1>7. ASSUME NEW i \in 1 .. n + 1
      PROVE  /\ cut2[i - 1] <= cut2[i]
             /\ SubSeq(m, cut2[i - 1] + 1, cut2[i]) \in Carries(r2[i])
  <2>1. CASE i = n + 1
    <3>1. cut2[i - 1] = Len(l) /\ cut2[i] = Len(m)
      BY <1>1, <1>3, <1>4, <1>5, <2>1
    <3> QED BY <1>1, <1>2, <2>1, <3>1
  <2>2. CASE i # n + 1
    <3>1. i \in 1 .. n /\ i - 1 \in 0 .. n /\ i \in 0 .. n
      BY <1>1, <2>2
    <3>2. /\ cut2[i - 1] = cut[i - 1] /\ cut2[i] = cut[i]
          /\ cut[i - 1] \in 0 .. Len(l) /\ cut[i] \in 0 .. Len(l) /\ cut[i - 1] <= cut[i]
      BY <1>3, <1>4, <3>1
    <3>3. SubSeq(m, cut[i - 1] + 1, cut[i]) = SubSeq(l, cut[i - 1] + 1, cut[i])
      BY <3>2, PieceKept
    <3> QED BY <1>2, <1>3, <3>1, <3>2, <3>3
  <2> QED BY <2>1, <2>2
<1>8. /\ cut2 \in [0 .. Len(r2) -> 0 .. Len(m)] /\ cut2[Len(r2)] = Len(m)
      /\ \A i \in 1 .. Len(r2) : /\ cut2[i - 1] <= cut2[i]
                                 /\ SubSeq(m, cut2[i - 1] + 1, cut2[i]) \in Carries(r2[i])
  BY <1>2, <1>5, <1>6, <1>7
<1>9. Says(r2, m)
  BY <1>5, <1>8 DEF Says
<1> QED BY <1>9 DEF r2

(* The last byte of a line, and the last two.                               *)
LEMMA LastByte ==
    ASSUME NEW l \in Seq(Chars), NEW c \in Chars, NEW m, m = Append(l, c)
    PROVE  /\ m \in Seq(Chars) /\ Len(l) <= Len(m) /\ \A i \in 1 .. Len(l) : m[i] = l[i]
           /\ SubSeq(m, Len(l) + 1, Len(m)) = <<c>>
<1>1. /\ m \in Seq(Chars) /\ Len(m) = Len(l) + 1 /\ Len(l) \in Nat
      /\ (\A i \in 1 .. Len(l) : m[i] = l[i]) /\ m[Len(l) + 1] = c
  BY AppendProperties, LenProperties
<1> DEFINE n == Len(l) + 1
<1>2. n \in 1 .. Len(m) /\ n \in n .. Len(m) /\ n \in Int /\ n - 1 \in Int /\ n - 1 < n
  BY <1>1
<1>3. SubSeq(m, n, n) = SubSeq(m, n, n - 1) \o <<m[n]>>
  BY <1>1, <1>2, SubSeqRecursiveSecond
<1>4. SubSeq(m, n, n - 1) = <<>>
  BY <1>2, SubSeqEmpty
<1>5. <<c>> \in Seq(Chars)
  OBVIOUS
<1>6. <<>> \o <<c>> = <<c>>
  BY <1>5, ConcatEmptySeq
<1>7. SubSeq(m, n, n) = <<c>> /\ Len(m) = n
  BY <1>1, <1>3, <1>4, <1>6
<1> QED BY <1>1, <1>7

LEMMA LastBytes ==
    ASSUME NEW l \in Seq(Chars), NEW m, m = Append(Append(l, CR), LF)
    PROVE  /\ m \in Seq(Chars) /\ Len(l) <= Len(m) /\ \A i \in 1 .. Len(l) : m[i] = l[i]
           /\ SubSeq(m, Len(l) + 1, Len(m)) = <<CR, LF>>
<1> DEFINE k == Append(l, CR)
           n == Len(l) + 1
           s == SubSeq(m, n, Len(m))
<1>0. CR \in Chars /\ LF \in Chars
  BY DEF Chars
<1>1. /\ k \in Seq(Chars) /\ Len(k) = n /\ Len(l) \in Nat
      /\ (\A i \in 1 .. Len(l) : k[i] = l[i]) /\ k[n] = CR
  BY <1>0, AppendProperties, LenProperties
<1>2. /\ m \in Seq(Chars) /\ Len(m) = Len(k) + 1
      /\ (\A i \in 1 .. Len(k) : m[i] = k[i]) /\ m[Len(k) + 1] = LF
  <2> HIDE DEF k
  <2>1. m = Append(k, LF)
    BY DEF k
  <2> QED BY <1>0, <1>1, <2>1, AppendProperties
<1>3. m[n] = CR /\ m[n + 1] = LF /\ Len(m) = n + 1 /\ \A i \in 1 .. Len(l) : m[i] = l[i]
  BY <1>1, <1>2
<1>4. /\ s \in Seq(Chars) /\ Len(s) = 2
      /\ \A i \in 1 .. 2 : s[i] = m[n + i - 1]
  <2>1. \A i \in n .. Len(m) : m[i] \in Chars
    <3> SUFFICES ASSUME NEW i \in n .. Len(m) PROVE m[i] \in Chars
        OBVIOUS
    <3>1. i \in 1 .. Len(m)
      BY <1>1, <1>3
    <3> QED BY <1>2, <3>1, ElementOfSeq
  <2>2. n \in Int /\ Len(m) \in Int /\ n <= Len(m) /\ Len(m) - n + 1 = 2
    BY <1>1, <1>3
  <2> QED BY <2>1, <2>2, SubSeqProperties
<1>5. s[1] = CR /\ s[2] = LF
  BY <1>1, <1>3, <1>4
<1>6. <<CR, LF>> \in Seq(Chars) /\ Len(<<CR, LF>>) = 2 /\ <<CR, LF>>[1] = CR /\ <<CR, LF>>[2] = LF
  BY <1>0
<1>7. s = <<CR, LF>>
  <2>1. \A i \in 1 .. Len(s) : s[i] = <<CR, LF>>[i]
    BY <1>4, <1>5, <1>6
  <2> QED BY <1>4, <1>6, <2>1, SeqEqual
<1> QED BY <1>1, <1>2, <1>3, <1>7

(* What is added to the line with each kind of answer.                      *)
LEMMA Answered ==
    ASSUME NEW l \in Seq(Chars), NEW r \in Seq(Answers), Says(r, l), NEW c \in Chars
    PROVE  /\ Says(Append(r, <<c, 1>>), l)
           /\ c # LF => Says(Append(r, <<c, 0>>), Append(l, c))
           /\ c = LF => Says(Append(r, <<c, 1>>), Append(l, CR))
           /\ c = LF => Says(Append(r, <<c, 0>>), Append(Append(l, CR), c))
<1>0. <<c, 0>> \in Answers /\ <<c, 1>> \in Answers /\ CR \in Chars /\ LF \in Chars
  <2>1. CR \in Chars /\ LF \in Chars
    BY DEF Chars
  <2>2. \A a, b : <<a, b>> \in Chars \X {0, 1} <=> a \in Chars /\ b \in {0, 1}
    OBVIOUS
  <2> QED BY <2>1, <2>2 DEF Answers
<1>1. Says(Append(r, <<c, 1>>), l)
  <2>1. Len(l) \in Nat
    BY LenProperties
  <2>2. SubSeq(l, Len(l) + 1, Len(l)) = <<>>
    BY <2>1, SubSeqEmpty
  <2>3. SubSeq(l, Len(l) + 1, Len(l)) \in Carries(<<c, 1>>)
    BY <2>2 DEF Carries
  <2> QED BY <1>0, <2>1, <2>3, SaysMore
<1>2. ASSUME c # LF PROVE Says(Append(r, <<c, 0>>), Append(l, c))
  <2> DEFINE m == Append(l, c)
  <2>1. /\ m \in Seq(Chars) /\ Len(l) <= Len(m) /\ \A i \in 1 .. Len(l) : m[i] = l[i]
        /\ SubSeq(m, Len(l) + 1, Len(m)) = <<c>>
    BY LastByte
  <2>2. SubSeq(m, Len(l) + 1, Len(m)) \in Carries(<<c, 0>>)
    BY <1>2, <2>1 DEF Carries
  <2> HIDE DEF m
  <2>3. Says(Append(r, <<c, 0>>), m)
    BY <1>0, <2>1, <2>2, SaysMore
  <2> QED BY <2>3 DEF m
<1>3. ASSUME c = LF PROVE Says(Append(r, <<c, 1>>), Append(l, CR))
  <2> DEFINE m == Append(l, CR)
  <2>1. /\ m \in Seq(Chars) /\ Len(l) <= Len(m) /\ \A i \in 1 .. Len(l) : m[i] = l[i]
        /\ SubSeq(m, Len(l) + 1, Len(m)) = <<CR>>
    BY <1>0, LastByte
  <2>2. SubSeq(m, Len(l) + 1, Len(m)) \in Carries(<<c, 1>>)
    BY <1>3, <2>1 DEF Carries
  <2> HIDE DEF m
  <2>3. Says(Append(r, <<c, 1>>), m)
    BY <1>0, <2>1, <2>2, SaysMore
  <2> QED BY <2>3 DEF m
<1>4. ASSUME c = LF PROVE Says(Append(r, <<c, 0>>), Append(Append(l, CR), c))
  <2> DEFINE m == Append(Append(l, CR), c)
  <2> HIDE DEF m
  <2>0. m = Append(Append(l, CR), c)
    BY DEF m
  <2>1. /\ m \in Seq(Chars) /\ Len(l) <= Len(m) /\ \A i \in 1 .. Len(l) : m[i] = l[i]
        /\ SubSeq(m, Len(l) + 1, Len(m)) = <<CR, c>>
    BY <1>0, <1>4, <2>0, LastBytes
  <2>2. SubSeq(m, Len(l) + 1, Len(m)) \in Carries(<<c, 0>>)
    BY <1>4, <2>1 DEF Carries
  <2>3. Says(Append(r, <<c, 0>>), m)
    BY <1>0, <2>1, <2>2, SaysMore
  <2> QED BY <2>3 DEF m
<1> QED BY <1>1, <1>2, <1>3, <1>4

(* A message is a sequence of characters.                                   *)
LEMMA MessageTyped == \A m \in DOMAIN Prints : Prints[m] \in Seq(Chars)
<1>1. \A a \in Chars : <<a, LF>> \in Seq(Chars)
  BY DEF Chars
<1>2. <<LF, "H", LF>> \in Seq(Chars)
  BY DEF Chars
<1>3. "m" \in Chars /\ "f" \in Chars /\ "c" \in Chars /\ "S" \in Chars /\ "F" \in Chars
  BY DEF Chars
<1>4. /\ Prints["hello"] = <<LF, "H", LF>> /\ Prints["header"] = <<"m", LF>>
      /\ Prints["filling"] = <<"f", LF>> /\ Prints["checking"] = <<"c", LF>>
      /\ Prints["verdict"] = IF good THEN <<"S", LF>> ELSE <<"F", LF>>
  BY DEF Prints
<1> QED BY <1>1, <1>2, <1>3, <1>4, Messages

(* Before the first character there is nothing on the line.                 *)
LEMMA NothingSaid == Says(<<>>, <<>>)
<1> DEFINE cut == [i \in 0 .. 0 |-> 0]
<1>1. Len(<<>>) = 0 /\ 1 .. 0 = {}
  OBVIOUS
<1>2. cut \in [0 .. 0 -> 0 .. 0] /\ cut[0] = 0
  OBVIOUS
<1> QED BY <1>1, <1>2 DEF Says

LEMMA ConsoleInit == Init => ConsoleInv
<1> SUFFICES ASSUME Init PROVE ConsoleInv
    OBVIOUS
<1>1. line = <<>> /\ buf = <<>> /\ upc = "idle" /\ results = <<>>
  BY DEF Init, UartInit
<1>2. <<>> \in Seq(Chars) /\ <<>> \in Seq(Answers) /\ Len(<<>>) = 0
  OBVIOUS
<1>3. Says(results, line)
  BY <1>1, NothingSaid
<1> QED BY <1>1, <1>2, <1>3 DEF ConsoleInv

(* Whatever the transmitter does meanwhile, the console keeps to its word.  *)
LEMMA ConsoleStep == ConsoleInv /\ [Next]_vars => ConsoleInv'
<1> SUFFICES ASSUME ConsoleInv, [Next]_vars PROVE ConsoleInv'
    OBVIOUS
<1>1. /\ buf \in Seq(Chars) /\ line \in Seq(Chars) /\ results \in Seq(Answers)
      /\ upc \in {"idle", "next", "cr", "char"}
      /\ CR \in Chars /\ LF \in Chars
  BY DEF ConsoleInv, Chars
<1>2. buf # <<>> => Head(buf) \in Chars /\ Tail(buf) \in Seq(Chars)
  BY <1>1, HeadTailProperties
<1>3. \A c \in Chars, v \in {0, 1} : Append(results, <<c, v>>) \in Seq(Answers)
  <2> SUFFICES ASSUME NEW c \in Chars, NEW v \in {0, 1}
               PROVE  Append(results, <<c, v>>) \in Seq(Answers)
      OBVIOUS
  <2>1. <<c, v>> \in Answers
    BY Zenon DEF Answers
  <2> QED BY <1>1, <2>1, AppendProperties
<1>4. CASE Printf
  <2>1. /\ upc = "idle" /\ upc' = "next" /\ buf' \in Seq(Chars)
        /\ UNCHANGED <<line, results>>
    BY <1>4, MessageTyped DEF Printf, BeginWrite
  <2> QED BY <1>1, <2>1 DEF ConsoleInv
<1>5. CASE CallPutchar
  <2>1. /\ upc = "next" /\ buf # <<>> /\ UNCHANGED <<line, buf, results>>
        /\ upc' = IF Head(buf) = LF THEN "cr" ELSE "char"
    BY <1>5 DEF CallPutchar
  <2> QED BY <1>1, <2>1 DEF ConsoleInv
<1>6. CASE Poll
  <2>1. upc \in {"cr", "char"} /\ line' = line /\ buf # <<>>
    BY <1>6 DEF Poll, ConsoleInv
  <2>2. CASE retries = 0
    <3>1. upc' = "next" /\ buf' = Tail(buf) /\ results' = Append(results, <<Head(buf), 1>>)
      BY <1>6, <2>2 DEF Poll, Return
    <3>2. Says(results', line')
      <4>1. CASE upc = "char" /\ Head(buf) = LF
        <5>1. PICK l \in Seq(Chars) : line = Append(l, CR) /\ Says(results, l)
          BY <4>1 DEF ConsoleInv
        <5> QED BY <1>1, <1>2, <2>1, <3>1, <4>1, <5>1, Answered
      <4>2. CASE ~(upc = "char" /\ Head(buf) = LF)
        <5>1. Says(results, line)
          BY <4>2 DEF ConsoleInv
        <5> QED BY <1>1, <1>2, <2>1, <3>1, <5>1, Answered
      <4> QED BY <4>1, <4>2
    <3> QED BY <1>1, <1>2, <1>3, <2>1, <3>1, <3>2 DEF ConsoleInv
  <2>3. CASE retries # 0
    <3>1. UNCHANGED <<buf, upc, results, line>>
      BY <1>6, <2>3 DEF Poll
    <3> QED BY <3>1 DEF ConsoleInv
  <2> QED BY <2>2, <2>3
<1>7. CASE SendCR
  <2>1. /\ upc = "cr" /\ line' = Append(line, CR) /\ upc' = "char"
        /\ UNCHANGED <<buf, results>>
    BY <1>7 DEF SendCR, Transmitted
  <2>2. buf # <<>> /\ Head(buf) = LF /\ Says(results, line)
    BY <2>1 DEF ConsoleInv
  <2>3. line' \in Seq(Chars)
    BY <1>1, <2>1, AppendProperties
  <2> QED BY <1>1, <2>1, <2>2, <2>3 DEF ConsoleInv
<1>8. CASE SendChar
  <2>1. /\ upc = "char" /\ line' = Append(line, Head(buf)) /\ upc' = "next"
        /\ buf' = Tail(buf) /\ results' = Append(results, <<Head(buf), 0>>) /\ buf # <<>>
    BY <1>8 DEF SendChar, Transmitted, Return, ConsoleInv
  <2>2. Says(results', line')
    <3>1. CASE Head(buf) = LF
      <4>1. PICK l \in Seq(Chars) : line = Append(l, CR) /\ Says(results, l)
        BY <2>1, <3>1 DEF ConsoleInv
      <4> QED BY <1>1, <1>2, <2>1, <3>1, <4>1, Answered
    <3>2. CASE Head(buf) # LF
      <4>1. Says(results, line)
        BY <2>1, <3>2 DEF ConsoleInv
      <4> QED BY <1>1, <1>2, <2>1, <3>2, <4>1, Answered
    <3> QED BY <3>1, <3>2
  <2>3. line' \in Seq(Chars)
    BY <1>1, <1>2, <2>1, AppendProperties
  <2> QED BY <1>1, <1>2, <1>3, <2>1, <2>2, <2>3 DEF ConsoleInv
<1>9. CASE EndWrite
  <2>1. /\ upc' = "idle" /\ line' = <<>> /\ results' = <<>> /\ buf' = buf
    BY <1>9 DEF EndWrite
  <2>2. <<>> \in Seq(Chars) /\ <<>> \in Seq(Answers)
    OBVIOUS
  <2>3. Says(<<>>, <<>>)
    BY NothingSaid
  <2> QED BY <1>1, <2>1, <2>2, <2>3 DEF ConsoleInv
<1>10. CASE UNCHANGED <<line, buf, upc, results>>
  BY <1>10 DEF ConsoleInv
<1>11. CASE Memfill \/ Memcheck \/ StopPioc \/ LoadCode \/ StartPioc
  BY <1>10, <1>11 DEF Memfill, Memcheck, StopPioc, LoadCode, StartPioc, uartVars
<1>12. CASE TxEmpty \/ UNCHANGED vars
  BY <1>10, <1>12 DEF TxEmpty, vars, uartVars
<1> QED BY <1>4, <1>5, <1>6, <1>7, <1>8, <1>9, <1>11, <1>12 DEF Next, Boot, UartStep

(* The return values of putchar tell which bytes the transmitter was given, *)
(* however often it gave up, for every number of retries (cvbs_main.cpp:    *)
(* 138-147).                                                                *)
THEOREM PutcharTellsTheTruth == Spec => []PutcharTruthful
<1>1. ConsoleInv => PutcharTruthful
  BY DEF ConsoleInv, PutcharTruthful
<1> QED BY <1>1, ConsoleInit, ConsoleStep, PTL DEF Spec

-----------------------------------------------------------------------------
(* The memory test.                                                         *)

(* The weights of the lines.                                                *)
LEMMA Powers ==
    ASSUME NEW k
    PROVE  /\ (k = 0 => 2^k = 1) /\ (k = 1 => 2^k = 2) /\ (k = 2 => 2^k = 4)
           /\ (k = 3 => 2^k = 8) /\ (k = 4 => 2^k = 16) /\ (k = 5 => 2^k = 32)
           /\ (k = 6 => 2^k = 64) /\ (k = 7 => 2^k = 128) /\ (k = 8 => 2^k = 256)
           /\ (k = 9 => 2^k = 512) /\ (k = 10 => 2^k = 1024) /\ (k = 11 => 2^k = 2048)
<1>1. k = 0 => 2^k = 1
  OBVIOUS
<1>2. k = 1 => 2^k = 2
  OBVIOUS
<1>3. k = 2 => 2^k = 4
  OBVIOUS
<1>4. k = 3 => 2^k = 8
  OBVIOUS
<1>5. k = 4 => 2^k = 16
  OBVIOUS
<1>6. k = 5 => 2^k = 32
  OBVIOUS
<1>7. k = 6 => 2^k = 64
  OBVIOUS
<1>8. k = 7 => 2^k = 128
  OBVIOUS
<1>9. k = 8 => 2^k = 256
  OBVIOUS
<1>10. k = 9 => 2^k = 512
  OBVIOUS
<1>11. k = 10 => 2^k = 1024
  OBVIOUS
<1>12. k = 11 => 2^k = 2048
  OBVIOUS
<1> QED BY <1>1, <1>2, <1>3, <1>4, <1>5, <1>6, <1>7, <1>8, <1>9, <1>10, <1>11, <1>12

(* The byte memfill writes to p, with the seeds f.                          *)
Byte(f, p) == f[p + 1].lo % 256

(* The first bytes: each bit is set and clear in some, and the lower        *)
(* address lines tell two of them apart.                                    *)
LEMMA FirstBytes ==
    ASSUME NEW n \in Nat, n >= 32, NEW f, Seeds(f, n)
    PROVE  /\ Byte(f, 0) = 254 /\ Byte(f, 1) = 255 /\ Byte(f, 6) = 254 /\ Byte(f, 16) = 254
           /\ Byte(f, 18) = 254 /\ Byte(f, 20) = 254 /\ Byte(f, 22) = 126 /\ Byte(f, 24) = 94
           /\ Byte(f, 28) = 4 /\ Byte(f, 29) = 2
<1>1. /\ f[1].lo = 65534 /\ f[2].lo = 65535 /\ f[7].lo = 65534 /\ f[17].lo = 24574
      /\ f[19].lo = 6142 /\ f[21].lo = 1534 /\ f[23].lo = 382 /\ f[25].lo = 94
      /\ f[29].lo = 4 /\ f[30].lo = 2
  BY FirstSeeds DEF Seed
<1> QED BY <1>1 DEF Byte

(* No bit of the data bus is the same in all the bytes.                     *)
LEMMA DataLines ==
    ASSUME NEW n \in Nat, n >= 32, NEW f, Seeds(f, n), NEW k \in 0 .. 7, NEW v \in 0 .. 1
    PROVE  \E p \in 0 .. 31 : Bit(Byte(f, p), k) # v
<1>1. Byte(f, 1) = 255 /\ Byte(f, 28) = 4 /\ Byte(f, 29) = 2
  BY FirstBytes
<1>2. k \in {0, 1, 2, 3, 4, 5, 6, 7} /\ v \in {0, 1}
  OBVIOUS
<1>3. Bit(255, k) = 1
  BY <1>2, Powers DEF Bit
<1>4. k # 1 => Bit(2, k) = 0
  BY <1>2, Powers DEF Bit
<1>5. Bit(4, 1) = 0
  BY Powers DEF Bit
<1> QED BY <1>1, <1>2, <1>3, <1>4, <1>5

(* Two addresses of which line k of the address bus makes one.              *)
Paired(k, p, q) == Bit(p, k) = 1 /\ Bit(q, k) = 0 /\ q = p - 2^k

(* There are two such that get different bytes, whatever the line.          *)
LEMMA AddressLines ==
    ASSUME NEW f, Seeds(f, LEN), NEW k \in 0 .. 11, 2^k < LEN
    PROVE  \E p, q \in Addresses : Paired(k, p, q) /\ Byte(f, p) # Byte(f, q)
<1>1. LEN \in Nat /\ LEN >= 32 /\ Addresses = 0 .. LEN - 1
  BY DEF LEN, Addresses
<1>2. CASE k \in {0, 1, 2, 3, 4}
  <2>1. /\ Byte(f, 0) = 254 /\ Byte(f, 1) = 255 /\ Byte(f, 6) = 254 /\ Byte(f, 16) = 254
        /\ Byte(f, 18) = 254 /\ Byte(f, 20) = 254 /\ Byte(f, 22) = 126 /\ Byte(f, 24) = 94
    BY <1>1, FirstBytes
  <2>2. /\ Paired(0, 1, 0) /\ Paired(1, 22, 20) /\ Paired(2, 22, 18) /\ Paired(3, 24, 16)
        /\ Paired(4, 22, 6)
    BY Powers DEF Paired, Bit
  <2>3. \A i \in 0 .. 31 : i \in Addresses
    BY <1>1
  <2> QED BY <1>2, <2>1, <2>2, <2>3
<1>3. CASE k \in {5, 6, 7, 8, 9, 10, 11}
  <2> DEFINE b == Lowest(f)
             w == 2^k
  <2>1. w \in {32, 64, 128, 256, 512, 1024, 2048}
    BY <1>3, Powers
  <2>2. w + 16 <= LEN
    BY <2>1 DEF LEN
  <2>3. /\ w \in {32, 512, 1024} => b[w + 1] # b[1]
        /\ w \in {64, 128, 256, 2048} => b[w + 2] # b[2]
    BY <1>1, <2>1, <2>2, FarBits
  <2>4. \A i \in Nat : b[i + 1] = Byte(f, i) % 2
    <3>1. \A i \in Nat : f[i + 1].lo \in Nat
      BY WordIs DEF Seeds
    <3>2. \A h \in Nat : BitOf(h, 1) = (h % 256) % 2
      BY DEF BitOf
    <3> QED BY <3>1, <3>2 DEF Lowest, Byte
  <2>5. Paired(k, w, 0) /\ Paired(k, w + 1, 1)
    BY <1>3, Powers DEF Paired, Bit
  <2> HIDE DEF w, b
  <2>6. w \in Addresses /\ w + 1 \in Addresses /\ 0 \in Addresses /\ 1 \in Addresses
    BY <1>1, <2>1, <2>2
  <2>7. CASE w \in {32, 512, 1024}
    <3>1. Byte(f, w) % 2 # Byte(f, 0) % 2
      <4>1. b[w + 1] = Byte(f, w) % 2 /\ b[0 + 1] = Byte(f, 0) % 2
        BY <2>1, <2>4
      <4> QED BY <2>3, <2>7, <4>1
    <3> QED BY <2>5, <2>6, <3>1
  <2>8. CASE w \in {64, 128, 256, 2048}
    <3>1. Byte(f, w + 1) % 2 # Byte(f, 1) % 2
      <4>1. b[(w + 1) + 1] = Byte(f, w + 1) % 2 /\ b[1 + 1] = Byte(f, 1) % 2
        BY <2>1, <2>4
      <4>2. (w + 1) + 1 = w + 2
        BY <2>1
      <4> QED BY <2>3, <2>8, <4>1, <4>2
    <3> QED BY <2>5, <2>6, <3>1
  <2> QED BY <2>1, <2>7, <2>8
<1> QED BY <1>2, <1>3

(* How far the seeds have been drawn.                                       *)
Filled ==
    IF pc \in {"hello", "header", "filling"} THEN 0
    ELSE IF pc = "fill" THEN at ELSE LEN

Testing == {"hello", "header", "filling", "fill", "checking", "check", "verdict", "stop"}

(* What was written to p is there; what is read from p is what was written. *)
Kept(f, p)  == sram[p] = Stored(Pattern(f[p + 1]))
Match(f, p) == Read(p) = Pattern(f[p + 1])

(* memfill and memcheck draw the same numbers.  As long as no two addresses *)
(* are one, what memfill has written stays; memcheck goes on while what it  *)
(* reads matches.                                                           *)
TestInv(f) ==
    /\ Seeds(f, Filled)
    /\ pc \in {"fill", "check"} => seed = f[at]
    /\ pc \in Testing /\ fault[1] # "address" => \A p \in Addresses : p < Filled => Kept(f, p)
    /\ pc = "check" => \A p \in Addresses : p < at => Match(f, p)
    /\ pc \in Testing \ {"verdict", "stop"} => good = TRUE
    /\ pc \in {"verdict", "stop"} => (good = TRUE <=> \A p \in Addresses : Match(f, p))

MemtestInv == good \in BOOLEAN /\ fault \in Faults /\ \E f : TestInv(f)

LEMMA TestInit == Init => MemtestInv
<1> SUFFICES ASSUME Init PROVE MemtestInv
    OBVIOUS
<1> DEFINE f == [i \in Nat |-> Ones]
<1>1. pc = "hello" /\ good = TRUE /\ fault \in Faults
  BY DEF Init
<1>2. Filled = 0
  BY <1>1 DEF Filled
<1>3. Seeds(f, 0)
  BY OnesType DEF Seeds
<1>4. TestInv(f)
  BY <1>1, <1>2, <1>3, Size DEF TestInv, Testing
<1> QED BY <1>1, <1>4 DEF MemtestInv

(* Nothing is lost while the memory is only read.                           *)
LEMMA SameMemory ==
    ASSUME UNCHANGED <<sram, fault>>, NEW f
    PROVE  \A p : (Kept(f, p)' <=> Kept(f, p)) /\ (Match(f, p)' <=> Match(f, p))
BY DEF Kept, Match, Stored, Read, CellAt

LEMMA TestStep == StartInv /\ MemtestInv /\ [Next]_vars => MemtestInv'
<1> SUFFICES ASSUME StartInv, MemtestInv, [Next]_vars PROVE MemtestInv'
    OBVIOUS
<1>1. /\ at \in 0 .. LEN /\ seed \in Word /\ seed # Zero /\ DOMAIN sram = Addresses
      /\ good \in BOOLEAN /\ fault \in Faults
  BY DEF StartInv, TypeOK, LoadInv, MemtestInv
<1>2. PICK f : TestInv(f)
  BY DEF MemtestInv
<1>3. UNCHANGED <<LEN, Addresses, Faults, Testing>> /\ LEN \in Nat /\ LEN > 0 /\ Addresses = 0 .. LEN - 1
  BY Size DEF LEN, Addresses, Faults, Testing
<1>4. ASSUME TestInv(f)', good' \in BOOLEAN, fault' = fault PROVE MemtestInv'
  BY <1>1, <1>3, <1>4 DEF MemtestInv
<1>5. CASE Printf
  <2>1. /\ pc \in {"hello", "header", "filling", "checking", "verdict"} /\ pc' = After[pc]
        /\ UNCHANGED <<sram, fault, good>>
        /\ IF pc \in {"filling", "checking"} THEN at' = 0 /\ seed' = Ones ELSE UNCHANGED <<at, seed>>
    BY <1>5, Messages DEF Printf
  <2>2. \A p : (Kept(f, p)' <=> Kept(f, p)) /\ (Match(f, p)' <=> Match(f, p))
    BY <2>1, SameMemory
  <2>3. CASE pc \in {"hello", "header"}
    <3>1. pc' \in {"header", "filling"} /\ Filled = 0 /\ Filled' = 0
      BY <2>1, <2>3, Messages DEF Filled
    <3>2. TestInv(f)'
      BY <1>2, <1>3, <2>1, <2>3, <3>1 DEF TestInv, Testing
    <3> QED BY <1>1, <1>4, <2>1, <3>2
  <2>4. CASE pc = "filling"
    <3>1. pc' = "fill" /\ at' = 0 /\ seed' = Ones /\ Filled = 0 /\ Filled' = 0
      BY <2>1, <2>4, Messages DEF Filled
    <3>2. f[0] = Ones
      BY <1>2 DEF TestInv, Seeds
    <3>3. TestInv(f)'
      BY <1>2, <1>3, <2>1, <2>4, <3>1, <3>2 DEF TestInv, Testing
    <3> QED BY <1>1, <1>4, <2>1, <3>3
  <2>5. CASE pc = "checking"
    <3>1. pc' = "check" /\ at' = 0 /\ seed' = Ones /\ Filled = LEN /\ Filled' = LEN
      BY <1>3, <2>1, <2>5, Messages DEF Filled
    <3>2. f[0] = Ones
      BY <1>2 DEF TestInv, Seeds
    <3>3. TestInv(f)'
      BY <1>2, <1>3, <2>1, <2>2, <2>5, <3>1, <3>2 DEF TestInv, Testing
    <3> QED BY <1>1, <1>4, <2>1, <3>3
  <2>6. CASE pc = "verdict"
    <3>1. pc' = "stop" /\ Filled = LEN /\ Filled' = LEN
      BY <1>3, <2>1, <2>6, Messages DEF Filled
    <3>2. TestInv(f)'
      BY <1>2, <1>3, <2>1, <2>2, <2>6, <3>1 DEF TestInv, Testing
    <3> QED BY <1>1, <1>4, <2>1, <3>2
  <2> QED BY <2>1, <2>3, <2>4, <2>5, <2>6
<1>6. CASE Memfill
  <2>1. pc = "fill" /\ UNCHANGED <<fault, good>> /\ Filled = at /\ seed = f[at] /\ good = TRUE
    BY <1>2, <1>6 DEF Memfill, Filled, TestInv, Testing
  <2>2. CASE at = LEN
    <3>1. pc' = "checking" /\ sram' = sram
      BY <1>6, <2>2 DEF Memfill
    <3>2. Filled' = LEN
      BY <1>3, <3>1 DEF Filled
    <3>3. \A p : Kept(f, p)' <=> Kept(f, p)
      BY <2>1, <3>1, SameMemory
    <3>4. TestInv(f)'
      BY <1>2, <1>3, <2>1, <2>2, <3>1, <3>2, <3>3 DEF TestInv, Testing
    <3> QED BY <1>1, <1>4, <2>1, <3>4
  <2>3. CASE at # LEN
    <3>0. PICK g : g = [f EXCEPT ![at + 1] = SeedNext(seed)]
      OBVIOUS
    <3>1. /\ seed' = SeedNext(seed) /\ Write(at, Pattern(seed')) /\ at' = at + 1 /\ pc' = pc
      BY <1>6, <2>3 DEF Memfill
    <3>2. Filled' = at + 1 /\ at \in Addresses /\ at \in Nat
      BY <1>1, <1>3, <2>1, <2>3, <3>1 DEF Filled
    <3>3. /\ f \in [Nat -> Word] /\ f[0] = Ones
          /\ \A i \in 0 .. at - 1 : f[i + 1] = SeedNext(f[i])
      BY <1>2, <2>1 DEF TestInv, Seeds
    <3>4. /\ g \in [Nat -> Word] /\ g[at + 1] = SeedNext(seed)
          /\ \A i \in 0 .. at : g[i] = f[i]
      BY <1>1, <3>0, <3>2, <3>3, NeverZero
    <3>5. Seeds(g, at + 1)
      <4>1. ASSUME NEW i \in 0 .. (at + 1) - 1 PROVE g[i + 1] = SeedNext(g[i])
        <5>1. CASE i = at
          BY <2>1, <3>2, <3>4, <5>1
        <5>2. CASE i # at
          BY <3>2, <3>3, <3>4, <5>2
        <5> QED BY <5>1, <5>2
      <4> QED BY <3>2, <3>3, <3>4, <4>1 DEF Seeds
    <3>6. ASSUME fault[1] # "address", NEW p \in Addresses, p < at + 1 PROVE Kept(g, p)'
      <4>1. sram' = [sram EXCEPT ![at] = Stored(Pattern(seed'))]
        BY <3>1, <3>6 DEF Write, CellAt
      <4>2. CASE p = at
        <5>1. sram'[p] = Stored(Pattern(g[p + 1]))
          BY <1>1, <3>1, <3>2, <3>4, <4>1, <4>2
        <5> QED BY <2>1, <5>1 DEF Kept, Stored, Pattern
      <4>3. CASE p # at
        <5>1. sram'[p] = sram[p] /\ p < at /\ p \in 0 .. at /\ p + 1 \in 0 .. at
          BY <1>1, <1>3, <3>2, <3>6, <4>1, <4>3
        <5>2. Kept(f, p)
          BY <1>2, <2>1, <3>6, <5>1 DEF TestInv, Testing
        <5>3. sram'[p] = Stored(Pattern(g[p + 1]))
          BY <3>4, <5>1, <5>2 DEF Kept
        <5> QED BY <2>1, <5>3 DEF Kept, Stored, Pattern
      <4> QED BY <4>2, <4>3
    <3>7. TestInv(g)'
      <4>1. seed' = g[at']
        BY <3>1, <3>4
      <4>2. Seeds(g, Filled)'
        BY <3>2, <3>5
      <4> QED BY <1>3, <2>1, <3>1, <3>2, <3>6, <4>1, <4>2 DEF TestInv, Testing
    <3> QED BY <1>1, <1>3, <2>1, <3>7 DEF MemtestInv
  <2> QED BY <2>2, <2>3
<1>7. CASE Memcheck
  <2>1. /\ pc = "check" /\ UNCHANGED <<fault, sram>> /\ Filled = LEN /\ seed = f[at] /\ good = TRUE
        /\ \A p \in Addresses : p < at => Match(f, p)
    BY <1>2, <1>7 DEF Memcheck, Filled, TestInv, Testing
  <2>2. \A p : (Kept(f, p)' <=> Kept(f, p)) /\ (Match(f, p)' <=> Match(f, p))
    BY <2>1, SameMemory
  <2>3. CASE at = LEN
    <3>1. pc' = "verdict" /\ good' = good
      BY <1>7, <2>3 DEF Memcheck
    <3>2. Filled' = LEN
      BY <1>3, <3>1 DEF Filled
    <3>3. \A p \in Addresses : Match(f, p)
      BY <1>3, <2>1, <2>3
    <3>4. TestInv(f)'
      BY <1>2, <1>3, <2>1, <2>2, <3>1, <3>2, <3>3 DEF TestInv, Testing
    <3> QED BY <1>1, <1>4, <2>1, <3>1, <3>4
  <2>4. CASE at # LEN
    <3>1. at \in Addresses /\ at \in Nat /\ at < LEN
      BY <1>1, <1>3, <2>4
    <3>2. seed' = SeedNext(seed) /\ f[at + 1] = SeedNext(seed)
      <4>1. seed' = SeedNext(seed)
        BY <1>7, <2>4 DEF Memcheck
      <4>2. Seeds(f, LEN)
        BY <1>2, <2>1 DEF TestInv
      <4>3. f[at + 1] = SeedNext(f[at])
        BY <1>3, <3>1, <4>2 DEF Seeds
      <4> QED BY <2>1, <4>1, <4>3
    <3>3. CASE Read(at) # Pattern(seed')
      <4>1. pc' = "verdict" /\ good' = FALSE
        BY <1>7, <2>4, <3>3 DEF Memcheck
      <4>2. Filled' = LEN
        BY <1>3, <4>1 DEF Filled
      <4>3. ~Match(f, at)
        BY <3>2, <3>3 DEF Match
      <4>4. TestInv(f)'
        BY <1>2, <1>3, <2>1, <2>2, <3>1, <4>1, <4>2, <4>3 DEF TestInv, Testing
      <4> QED BY <1>1, <1>4, <2>1, <4>1, <4>4
    <3>4. CASE Read(at) = Pattern(seed')
      <4>1. pc' = "check" /\ good' = good /\ at' = at + 1
        BY <1>7, <2>1, <2>4, <3>4 DEF Memcheck
      <4>2. Filled' = LEN
        BY <1>3, <4>1 DEF Filled
      <4>3. Match(f, at)
        BY <3>2, <3>4 DEF Match
      <4>4. \A p \in Addresses : p < at' => Match(f, p)
        BY <1>3, <2>1, <3>1, <4>1, <4>3
      <4>5. seed' = f[at']
        BY <3>2, <4>1
      <4>6. TestInv(f)'
        BY <1>2, <1>3, <2>1, <2>2, <4>1, <4>2, <4>4, <4>5 DEF TestInv, Testing
      <4> QED BY <1>1, <1>4, <2>1, <4>1, <4>6
    <3> QED BY <3>3, <3>4
  <2> QED BY <2>3, <2>4
<1>8. CASE StopPioc
  <2>1. /\ pc = "stop" /\ pc' \in {"stop", "load"} /\ UNCHANGED <<fault, sram, good>>
        /\ Filled = LEN /\ Filled' = LEN
    BY <1>3, <1>8 DEF StopPioc, Filled
  <2>2. \A p : (Kept(f, p)' <=> Kept(f, p)) /\ (Match(f, p)' <=> Match(f, p))
    BY <2>1, SameMemory
  <2>3. TestInv(f)'
    BY <1>2, <1>3, <2>1, <2>2 DEF TestInv, Testing
  <2> QED BY <1>1, <1>4, <2>1, <2>3
<1>9. CASE LoadCode \/ StartPioc
  <2>1. /\ pc \in {"load", "start"} /\ pc' \in {"load", "start", "irq"} /\ UNCHANGED <<fault, good>>
        /\ Filled = LEN /\ Filled' = LEN
    BY <1>3, <1>9 DEF LoadCode, StartPioc, Filled
  <2>2. TestInv(f)'
    BY <1>2, <1>3, <2>1 DEF TestInv, Testing
  <2> QED BY <1>1, <1>4, <2>1, <2>2
<1>10. CASE UNCHANGED <<pc, at, seed, sram, fault, good>>
  <2>1. Filled' = Filled
    BY <1>3, <1>10 DEF Filled
  <2>2. \A p : (Kept(f, p)' <=> Kept(f, p)) /\ (Match(f, p)' <=> Match(f, p))
    BY <1>10, SameMemory
  <2>3. TestInv(f)'
    BY <1>2, <1>3, <1>10, <2>1, <2>2 DEF TestInv, Testing
  <2> QED BY <1>1, <1>4, <1>10, <2>3
<1>11. CASE (UartStep \/ TxEmpty) /\ UNCHANGED <<pc, memVars>>
  BY <1>10, <1>11 DEF memVars
<1>12. CASE UNCHANGED vars
  BY <1>10, <1>12 DEF vars, memVars
<1> QED BY <1>5, <1>6, <1>7, <1>8, <1>9, <1>11, <1>12 DEF Next, Boot

(* A verdict of good is a verdict on every byte, and every stuck line shows *)
(* in one.                                                                  *)
LEMMA VerdictRight == MemtestInv => FaultFound
<1> SUFFICES ASSUME MemtestInv, pc \in {"verdict", "stop"}
             PROVE  good <=> fault = <<"none">>
    BY DEF FaultFound
<1>1. good \in BOOLEAN /\ fault \in Faults
  BY DEF MemtestInv
<1>2. PICK f : TestInv(f)
  BY DEF MemtestInv
<1>3. LEN \in Nat /\ LEN >= 32 /\ Addresses = 0 .. LEN - 1
  BY DEF LEN, Addresses
<1>4. Filled = LEN
  BY <1>3 DEF Filled
<1>5. /\ Seeds(f, LEN) /\ (good = TRUE <=> \A p \in Addresses : Match(f, p))
      /\ fault[1] # "address" => \A p \in Addresses : Kept(f, p)
  BY <1>2, <1>3, <1>4 DEF TestInv, Testing
<1>6. \A p : Pattern(f[p + 1]) = <<"test", Byte(f, p)>>
  BY DEF Pattern, Byte
<1>7. CASE fault = <<"none">>
  <2>1. fault[1] = "none"
    BY <1>7
  <2>2. \A p \in Addresses : Match(f, p)
    BY <1>5, <2>1 DEF Match, Kept, Read, CellAt, Stored
  <2> QED BY <1>1, <1>5, <1>7, <2>2
<1>8. CASE \E k \in {n \in 0 .. 11 : 2^n < LEN} : fault = <<"address", k>>
  <2>1. PICK k \in 0 .. 11 : 2^k < LEN /\ fault = <<"address", k>>
    BY <1>8
  <2>2. fault[1] = "address" /\ fault[2] = k
    BY <2>1
  <2>3. PICK p, q \in Addresses : Paired(k, p, q) /\ Byte(f, p) # Byte(f, q)
    BY <1>5, <2>1, AddressLines
  <2>4. CellAt(p) = CellAt(q)
    <3>1. CellAt(p) = p - 1 * 2^k /\ CellAt(q) = q - 0 * 2^k
      BY <2>2, <2>3 DEF CellAt, Paired
    <3>2. 2^k \in Int
      BY <2>1, Powers
    <3>3. p - 1 * 2^k = q /\ q - 0 * 2^k = q
      BY <1>3, <2>3, <3>2 DEF Paired
    <3> QED BY <3>1, <3>3
  <2>5. ~(Match(f, p) /\ Match(f, q))
    <3>1. Read(p) = Read(q)
      BY <2>4 DEF Read
    <3>2. <<"test", Byte(f, p)>> # <<"test", Byte(f, q)>>
      BY <2>3
    <3> QED BY <1>6, <3>1, <3>2 DEF Match
  <2>6. fault # <<"none">>
    BY <2>2
  <2> QED BY <1>1, <1>5, <2>3, <2>5, <2>6
<1>9. CASE \E k \in 0 .. 7, v \in 0 .. 1 : fault = <<"data", k, v>>
  <2>1. PICK k \in 0 .. 7, v \in 0 .. 1 : fault = <<"data", k, v>>
    BY <1>9
  <2>2. fault[1] = "data" /\ fault[2] = k /\ fault[3] = v
    BY <2>1
  <2>3. PICK p \in 0 .. 31 : Bit(Byte(f, p), k) # v
    BY <1>3, <1>5, DataLines
  <2>4. p \in Addresses
    BY <1>3
  <2> DEFINE c == Byte(f, p)
             d == Bit(c, k)
  <2>5. c \in Nat /\ d \in {0, 1} /\ v \in {0, 1} /\ 2^k \in Nat \ {0}
    <3>1. f[p + 1].lo \in Nat
      BY <1>5, WordIs DEF Seeds
    <3>2. c \in Nat
      BY <3>1 DEF Byte
    <3>3. 2^k \in Nat \ {0}
      BY Powers
    <3>4. d \in {0, 1}
      <4> HIDE DEF c
      <4>1. c \div 2^k \in Int
        BY <3>2, <3>3
      <4> QED BY <4>1 DEF Bit
    <3> QED BY <3>2, <3>3, <3>4
  <2>6. Read(p) = <<"test", c + (v - d) * 2^k>>
    <3>1. Read(p) = sram[p]
      BY <2>2 DEF Read, CellAt
    <3>2. sram[p] = Stored(<<"test", c>>)
      BY <1>5, <1>6, <2>2, <2>4 DEF Kept
    <3>3. Stored(<<"test", c>>) = <<"test", c + (v - d) * 2^k>>
      <4> HIDE DEF c
      <4>1. <<"test", c>>[1] = "test" /\ <<"test", c>>[2] = c
        OBVIOUS
      <4> QED BY <2>2, <4>1 DEF Stored
    <3> QED BY <3>1, <3>2, <3>3
  <2> HIDE DEF c, d
  <2>7. c + (v - d) * 2^k # c
    <3>1. v - d = 1 \/ v - d = 0 - 1
      BY <2>3, <2>5 DEF c, d
    <3>2. (v - d) * 2^k = 2^k \/ (v - d) * 2^k = 0 - 2^k
      BY <2>5, <3>1
    <3> QED BY <2>5, <3>2
  <2>8. ~Match(f, p)
    <3>1. <<"test", c + (v - d) * 2^k>> # <<"test", c>>
      BY <2>7
    <3> QED BY <1>6, <2>6, <3>1 DEF Match, c
  <2>9. fault # <<"none">>
    BY <2>2
  <2> QED BY <1>1, <1>5, <2>4, <2>8, <2>9
<1> QED BY <1>1, <1>7, <1>8, <1>9 DEF Faults

(* The memory test passes good memory and finds any stuck line of the       *)
(* address or the data bus, whatever the size of the memory                 *)
(* (cvbs_main.cpp:67-84).                                                   *)
THEOREM MemtestFindsFaults == Spec => []FaultFound
<1> QED BY StartInit, StartStep, TestInit, TestStep, VerdictRight, PTL DEF Spec
=============================================================================
