---------------------------- MODULE ShamirProofs ----------------------------
(***************************************************************************)
(* Proofs about Shamir for every secret, every count, every threshold and  *)
(* every random source: first that the tables are a field, then what       *)
(* interpolation makes of a polynomial, then the loops of Split.           *)
(***************************************************************************)
EXTENDS Shamir, SequenceTheorems, FiniteSetTheorems, NaturalsInduction, WellFoundedInduction,
        TLAPS

----------------------------------------------------------------------------
(***************************************************************************)
(* 1. Sums: the operator ^ of Go makes the numbers below 512 a group.      *)
(***************************************************************************)

\* Bytes are closed under it.
LEMMA XorOfBytes == ASSUME NEW a \in Byte, NEW b \in Byte PROVE Xor(a, b) \in Byte
BY DEF Byte, Xor

\* What holds of 0 and goes from each number to the next holds up to m.
LEMMA StepByStep ==
    ASSUME NEW m \in Nat, NEW T, 0 \in T,
           \A i \in 1 .. m : i - 1 \in T => i \in T
    PROVE  \A i \in 0 .. m : i \in T
<1> DEFINE R == OpToRel(<, Nat)
           missing == {i \in 0 .. m : i \notin T}
<1>1. SUFFICES ASSUME missing # {} PROVE FALSE
  OBVIOUS
<1>2. IsWellFoundedOn(R, Nat)
  BY NatLessThanWellFounded
<1>3. \A i, j \in Nat : <<j, i>> \in R <=> j < i
  BY DEF OpToRel
<1>4. missing \subseteq Nat
  OBVIOUS
<1> HIDE DEF R
<1>5. PICK i \in missing : \A j \in missing : ~ (<<j, i>> \in R)
  <2> HIDE DEF missing
  <2>1. QED
    BY <1>1, <1>2, <1>4, WFMin
<1>6. i \in 1 .. m
  OBVIOUS
<1>7. i - 1 \notin missing
  <2>1. i \in Nat /\ i - 1 \in Nat /\ i - 1 < i
    BY <1>6
  <2>2. <<i - 1, i>> \in R
    BY <1>3, <2>1
  <2> HIDE DEF missing
  <2>3. QED
    BY <1>5, <2>2
<1>8. QED
  BY <1>6, <1>7

\* The numbers that Xor is defined for.
Word == 0 .. 511

Weights == {1, 2, 4, 8, 16, 32, 64, 128, 256}

Bit == {0, 1}

\* The number with the given bits.
Sum(f) == f[1] + 2 * f[2] + 4 * f[4] + 8 * f[8] + 16 * f[16] + 32 * f[32]
          + 64 * f[64] + 128 * f[128] + 256 * f[256]

\* The bits of a number can be read off it.
LEMMA BitsOfSum ==
    ASSUME NEW f \in [Weights -> Bit], NEW w \in Weights
    PROVE  (Sum(f) \div w) % 2 = f[w]
<1> DEFINE b0 == f[1]
           b1 == f[2]
           b2 == f[4]
           b3 == f[8]
           b4 == f[16]
           b5 == f[32]
           b6 == f[64]
           b7 == f[128]
           b8 == f[256]
           v == b0 + 2 * b1 + 4 * b2 + 8 * b3 + 16 * b4 + 32 * b5 + 64 * b6
                + 128 * b7 + 256 * b8
<1>1. Sum(f) = v
  BY DEF Sum
<1>2. \/ w = 1 \/ w = 2 \/ w = 4 \/ w = 8 \/ w = 16 \/ w = 32 \/ w = 64 \/ w = 128
      \/ w = 256
  BY DEF Weights
<1>3. /\ b0 \in Bit /\ b1 \in Bit /\ b2 \in Bit /\ b3 \in Bit
      /\ b4 \in Bit /\ b5 \in Bit /\ b6 \in Bit /\ b7 \in Bit
      /\ b8 \in Bit
  BY DEF Weights
<1> HIDE DEF b0, b1, b2, b3, b4, b5, b6, b7, b8
<1>4. /\ (v \div 1) % 2 = b0 /\ (v \div 2) % 2 = b1 /\ (v \div 4) % 2 = b2
      /\ (v \div 8) % 2 = b3 /\ (v \div 16) % 2 = b4 /\ (v \div 32) % 2 = b5
      /\ (v \div 64) % 2 = b6 /\ (v \div 128) % 2 = b7 /\ (v \div 256) % 2 = b8
  BY <1>3, SMTT(30) DEF Bit
<1> HIDE DEF v
<1> QED
  BY <1>1, <1>2, <1>4 DEF b0, b1, b2, b3, b4, b5, b6, b7, b8

\* The bits of a sum, and that they determine it.
LEMMA BitsOfXor ==
    ASSUME NEW a \in Word, NEW b \in Word, NEW w \in Weights
    PROVE  (Xor(a, b) \div w) % 2 = ((a \div w) + (b \div w)) % 2
<1> DEFINE f == [v \in Weights |-> ((a \div v) + (b \div v)) % 2]
<1>1. f \in [Weights -> Bit]
  BY DEF Weights, Word, Bit
<1>2. Xor(a, b) = Sum(f)
  BY DEF Xor, Sum, Weights, Word
<1>3. f[w] = ((a \div w) + (b \div w)) % 2
  OBVIOUS
<1> HIDE DEF f
<1> QED
  BY <1>1, <1>2, <1>3, BitsOfSum

LEMMA XorByBits ==
    ASSUME NEW a \in Word, NEW b \in Word, NEW c \in Word, NEW d \in Word,
           \A w \in Weights :
               ((a \div w) + (b \div w)) % 2 = ((c \div w) + (d \div w)) % 2
    PROVE  Xor(a, b) = Xor(c, d)
BY SMTT(60) DEF Xor, Weights, Word

\* The words are a group under Xor in which every element is its own inverse.
LEMMA XorIsSum ==
    ASSUME NEW a \in Word, NEW b \in Word
    PROVE  /\ Xor(a, b) \in Word
           /\ Xor(a, b) = Xor(b, a)
           /\ Xor(a, 0) = a /\ Xor(0, a) = a
           /\ Xor(a, a) = 0
<1>1. Xor(a, b) \in Word
  BY SMTT(30) DEF Xor, Word
<1>2. Xor(a, b) = Xor(b, a)
  BY SMTT(30) DEF Xor, Word
<1>3. Xor(a, 0) = a /\ Xor(0, a) = a
  BY SMTT(30) DEF Xor, Word
<1>4. Xor(a, a) = 0
  BY SMTT(30) DEF Xor, Word
<1> QED
  BY <1>1, <1>2, <1>3, <1>4

LEMMA XorAssociates ==
    ASSUME NEW a \in Word, NEW b \in Word, NEW c \in Word
    PROVE  Xor(Xor(a, b), c) = Xor(a, Xor(b, c))
<1>1. Xor(a, b) \in Word /\ Xor(b, c) \in Word
  BY XorIsSum
<1>2. ASSUME NEW w \in Weights
      PROVE  ((Xor(a, b) \div w) + (c \div w)) % 2 = ((a \div w) + (Xor(b, c) \div w)) % 2
  <2> DEFINE aw == a \div w
             bw == b \div w
             cw == c \div w
             d == Xor(a, b) \div w
             e == Xor(b, c) \div w
  <2>1. w \in Nat \ {0}
    BY DEF Weights
  <2>2. aw \in Int /\ bw \in Int /\ cw \in Int /\ d \in Int /\ e \in Int
    BY <1>1, <2>1 DEF Word
  <2>3. d % 2 = (aw + bw) % 2 /\ e % 2 = (bw + cw) % 2
    BY BitsOfXor
  <2> HIDE DEF aw, bw, cw, d, e
  <2>4. (d + cw) % 2 = (aw + e) % 2
    BY <2>2, <2>3
  <2> QED
    BY <2>4 DEF aw, cw, d, e
<1> QED
  BY <1>1, <1>2, XorByBits

LEMMA BytesAreWords == \A a \in Byte : a \in Word
BY DEF Byte, Word

\* The same of bytes, in the form in which it is used.
LEMMA XorFacts ==
    /\ \A a, b \in Byte : Xor(a, b) \in Byte /\ Xor(a, b) = Xor(b, a)
    /\ \A a \in Byte : Xor(a, 0) = a /\ Xor(0, a) = a /\ Xor(a, a) = 0
    /\ \A a, b, c \in Byte : Xor(Xor(a, b), c) = Xor(a, Xor(b, c))
    /\ 0 \in Byte /\ 1 \in Byte
<1>1. 0 \in Byte /\ 1 \in Byte
  BY DEF Byte
<1> QED
  BY <1>1, XorOfBytes, XorIsSum, XorAssociates, BytesAreWords

\* Four terms in another order.
LEMMA XorSwaps ==
    ASSUME NEW a \in Word, NEW b \in Word, NEW c \in Word, NEW d \in Word
    PROVE  Xor(Xor(a, b), Xor(c, d)) = Xor(Xor(a, c), Xor(b, d))
<1>1. Xor(a, b) \in Word /\ Xor(c, d) \in Word /\ Xor(a, c) \in Word /\ Xor(b, d) \in Word
      /\ Xor(b, c) \in Word
  BY XorIsSum
<1>2. Xor(Xor(a, b), Xor(c, d)) = Xor(a, Xor(Xor(b, c), d))
  BY <1>1, XorAssociates
<1>3. Xor(b, c) = Xor(c, b)
  BY XorIsSum
<1>4. Xor(a, Xor(Xor(c, b), d)) = Xor(Xor(a, c), Xor(b, d))
  BY <1>1, XorAssociates
<1> QED
  BY <1>2, <1>3, <1>4

\* A sum is zero if its terms are the same.
LEMMA XorCancels ==
    ASSUME NEW a \in Byte, NEW b \in Byte
    PROVE  /\ Xor(a, b) = 0 => a = b
           /\ Xor(Xor(a, b), b) = a /\ Xor(b, Xor(b, a)) = a
<1>1. Xor(Xor(a, b), b) = Xor(a, Xor(b, b)) /\ Xor(b, Xor(b, a)) = Xor(Xor(b, b), a)
  BY XorFacts
<1>2. Xor(Xor(a, b), b) = a /\ Xor(b, Xor(b, a)) = a
  BY <1>1, XorFacts
<1> QED
  BY <1>2, XorFacts

----------------------------------------------------------------------------
(***************************************************************************)
(* 2. Products: the tables of powers and logarithms make the bytes a       *)
(* field, which is the one of the definition.                              *)
(***************************************************************************)

NonZero == 1 .. 255

Exponent == 0 .. 254

\* The two tables are inverse to each other.
LEMMA TablesAreInverse ==
    /\ \A a \in NonZero : Log(a) \in Exponent /\ Exp(Log(a)) = a
    /\ \A i \in Exponent : Exp(i) \in NonZero /\ Log(Exp(i)) = i
<1>1. \A i \in Exponent : exp[i + 1] \in NonZero
  BY SMTT(60) DEF exp, Exponent, NonZero
<1>2. \A a \in NonZero : log[a + 1] \in Exponent
  BY SMTT(60) DEF log, Exponent, NonZero
<1>3. \A a \in NonZero : exp[log[a + 1] + 1] = a
  BY SMTT(60) DEF exp, log, NonZero
<1>4. \A i \in Exponent : log[exp[i + 1] + 1] = i
  BY SMTT(60) DEF exp, log, Exponent
<1> QED
  BY <1>1, <1>2, <1>3, <1>4 DEF Exp, Log

\* Each entry of the table of powers is three times the one before.
LEMMA TableOfPowers ==
    \A a \in NonZero : exp[log[a + 1] + 2] = Xor(a, Times2(a))
<1>1. \A a \in 1 .. 127 : exp[log[a + 1] + 2] = Xor(a, 2 * a)
  BY SMTT(100) DEF exp, log, Xor
<1>2. \A a \in 128 .. 255 : exp[log[a + 1] + 2] = Xor(a, Xor(2 * a, 283))
  BY SMTT(100) DEF exp, log, Xor
<1>3. ASSUME NEW a \in NonZero
      PROVE  \/ a < 128 /\ a \in 1 .. 127
             \/ ~ (a < 128) /\ a \in 128 .. 255
  BY DEF NonZero
<1> QED
  BY <1>1, <1>2, <1>3 DEF Times2

LEMMA BytesByZero == Byte = {0} \cup NonZero /\ 0 \notin NonZero
BY DEF Byte, NonZero

LEMMA SmallNumbers == {1, 2, 3} \subseteq NonZero /\ {0, 1, 2, 3} \subseteq Byte
BY DEF Byte, NonZero

\* Logarithms are added modulo 255.
LEMMA Exponents ==
    /\ \A u, v \in Exponent : u + v = v + u /\ (u + v) % 255 \in Exponent
                              /\ (u - v) % 255 \in Exponent
                              /\ (((u - v) % 255) + v) % 255 = u
    /\ \A u \in Exponent : (u + 0) % 255 = u /\ (0 + u) % 255 = u
    /\ \A u, v, w \in Exponent :
           (((u + v) % 255) + w) % 255 = (u + ((v + w) % 255)) % 255
<1>1. \A u, v \in Exponent :
         u + v = v + u /\ (u + v) % 255 \in Exponent /\ (u - v) % 255 \in Exponent
  BY DEF Exponent
<1>2. \A u, v \in Exponent : (((u - v) % 255) + v) % 255 = u
  BY DEF Exponent
<1>3. \A u \in Exponent : (u + 0) % 255 = u /\ (0 + u) % 255 = u
  BY DEF Exponent
<1>4. \A u, v, w \in Exponent :
         (((u + v) % 255) + w) % 255 = (u + ((v + w) % 255)) % 255
  BY DEF Exponent
<1> QED
  BY <1>1, <1>2, <1>3, <1>4

\* What is not zero is closed under mul, which adds the logarithms.
LEMMA LogOfMul ==
    ASSUME NEW a \in NonZero, NEW b \in NonZero
    PROVE  /\ mul(a, b) = Exp((Log(a) + Log(b)) % 255)
           /\ mul(a, b) \in NonZero
           /\ Log(mul(a, b)) = (Log(a) + Log(b)) % 255
<1>1. \A u, v \in Exponent : (u + v) % 255 \in Exponent
  BY DEF Exponent
<1>2. mul(a, b) = Exp((Log(a) + Log(b)) % 255)
  BY BytesByZero DEF mul
<1> QED
  BY <1>1, <1>2, TablesAreInverse

\* With it the bytes but 0 are a commutative group, and 0 times anything is 0.
LEMMA MulFacts ==
    /\ \A a, b \in Byte : mul(a, b) \in Byte /\ mul(a, b) = mul(b, a)
    /\ \A a \in Byte : mul(a, 1) = a /\ mul(1, a) = a /\ mul(a, 0) = 0 /\ mul(0, a) = 0
    /\ \A a, b, c \in Byte : mul(mul(a, b), c) = mul(a, mul(b, c))
    /\ \A a, b \in Byte : mul(a, b) = 0 => a = 0 \/ b = 0
<1>1. \A a \in Byte : mul(a, 0) = 0 /\ mul(0, a) = 0
  BY DEF mul
<1>2. ASSUME NEW a \in NonZero, NEW b \in NonZero
      PROVE  mul(a, b) = mul(b, a)
  <2>1. Log(a) \in Exponent /\ Log(b) \in Exponent
    BY TablesAreInverse
  <2>2. Log(a) + Log(b) = Log(b) + Log(a)
    BY <2>1, Exponents
  <2> QED
    BY <2>2, LogOfMul
<1>3. ASSUME NEW a \in NonZero
      PROVE  mul(a, 1) = a /\ mul(1, a) = a
  <2>1. Log(1) = 0
    BY DEF Log, log
  <2>2. Log(a) \in Exponent /\ Exp(Log(a)) = a
    BY TablesAreInverse
  <2>3. /\ mul(a, 1) = Exp((Log(a) + Log(1)) % 255)
        /\ mul(1, a) = Exp((Log(1) + Log(a)) % 255)
    BY SmallNumbers, LogOfMul
  <2>4. (Log(a) + Log(1)) % 255 = Log(a) /\ (Log(1) + Log(a)) % 255 = Log(a)
    BY <2>1, <2>2 DEF Exponent
  <2> QED
    BY <2>2, <2>3, <2>4
<1>4. ASSUME NEW a \in NonZero, NEW b \in NonZero, NEW c \in NonZero
      PROVE  mul(mul(a, b), c) = mul(a, mul(b, c))
  <2>1. Log(a) \in Exponent /\ Log(b) \in Exponent /\ Log(c) \in Exponent
    BY TablesAreInverse
  <2>2. /\ mul(mul(a, b), c) = Exp((((Log(a) + Log(b)) % 255) + Log(c)) % 255)
        /\ mul(a, mul(b, c)) = Exp((Log(a) + ((Log(b) + Log(c)) % 255)) % 255)
    BY LogOfMul
  <2> QED
    BY <2>1, <2>2, Exponents
<1>5. \A a, b \in Byte : mul(a, b) \in Byte /\ mul(a, b) = mul(b, a)
  BY <1>1, <1>2, LogOfMul, BytesByZero
<1>6. \A a \in Byte : mul(a, 1) = a /\ mul(1, a) = a
  <2>1. 1 \in Byte
    BY DEF Byte
  <2> QED
    BY <1>1, <1>3, <2>1, BytesByZero
<1>7. ASSUME NEW a \in Byte, NEW b \in Byte, NEW c \in Byte
      PROVE  mul(mul(a, b), c) = mul(a, mul(b, c))
  <2>1. CASE a = 0 \/ b = 0 \/ c = 0
    BY <1>1, <1>5, <2>1
  <2>2. CASE a # 0 /\ b # 0 /\ c # 0
    BY <1>4, <2>2, BytesByZero
  <2> QED
    BY <2>1, <2>2
<1>8. \A a, b \in Byte : mul(a, b) = 0 => a = 0 \/ b = 0
  BY LogOfMul, BytesByZero
<1> QED
  BY <1>1, <1>5, <1>6, <1>7, <1>8

\* div undoes mul.
LEMMA DivFacts ==
    ASSUME NEW a \in Byte, NEW b \in Byte, b # 0
    PROVE  div(a, b) \in Byte /\ mul(div(a, b), b) = a
<1>1. b \in NonZero
  BY BytesByZero
<1>2. CASE a = 0
  BY <1>2, MulFacts DEF div
<1>3. CASE a # 0
  <2>1. a \in NonZero
    BY <1>3, BytesByZero
  <2> DEFINE u == Log(a)
             v == Log(b)
             w == (u - v) % 255
  <2>2. u \in Exponent /\ v \in Exponent /\ Exp(u) = a
    BY <1>1, <2>1, TablesAreInverse
  <2>3. div(a, b) = Exp(w)
    BY <1>3 DEF div
  <2> HIDE DEF u, v
  <2>4. w \in Exponent /\ (w + v) % 255 = u
    BY <2>2, Exponents
  <2> HIDE DEF w
  <2>5. Exp(w) \in NonZero /\ Log(Exp(w)) = w
    BY <2>4, TablesAreInverse
  <2>6. mul(Exp(w), b) = Exp((w + v) % 255)
    BY <1>1, <2>5, LogOfMul DEF v
  <2> QED
    BY <2>2, <2>3, <2>4, <2>5, <2>6, BytesByZero
<1> QED
  BY <1>2, <1>3

\* Times2 respects sums.
LEMMA Times2OfXor ==
    ASSUME NEW a \in Byte, NEW b \in Byte
    PROVE  /\ Times2(a) \in Byte
           /\ Times2(Xor(a, b)) = Xor(Times2(a), Times2(b))
<1>1. Times2(a) \in Byte
  BY SMTT(30) DEF Times2, Byte, Xor
<1>2. Xor(2 * a, 2 * b) = 2 * Xor(a, b)
  BY SMTT(60) DEF Xor, Byte
<1>3. Xor(a, b) < 128 <=> (a < 128 <=> b < 128)
  BY SMTT(60) DEF Xor, Byte
<1> DEFINE aa == 2 * a
           bb == 2 * b
           m == 283
<1>4. aa \in Word /\ bb \in Word /\ m \in Word
  BY DEF Word, Byte
<1>5. Times2(Xor(a, b)) = IF Xor(a, b) < 128 THEN Xor(aa, bb) ELSE Xor(Xor(aa, bb), m)
  BY <1>2 DEF Times2
<1>6. /\ Times2(a) = IF a < 128 THEN aa ELSE Xor(aa, m)
      /\ Times2(b) = IF b < 128 THEN bb ELSE Xor(bb, m)
  BY DEF Times2
<1> HIDE DEF aa, bb, m
<1>7. Xor(aa, bb) \in Word /\ Xor(aa, m) \in Word /\ Xor(bb, m) \in Word
  BY <1>4, XorIsSum
<1>8. CASE a < 128 /\ b < 128
  BY <1>1, <1>3, <1>5, <1>6, <1>8
<1>9. CASE a < 128 /\ ~ (b < 128)
  BY <1>1, <1>3, <1>4, <1>5, <1>6, <1>9, XorAssociates
<1>10. CASE ~ (a < 128) /\ b < 128
  <2>1. Xor(Xor(aa, bb), m) = Xor(Xor(bb, aa), m)
    BY <1>4, XorIsSum
  <2>2. Xor(Xor(bb, aa), m) = Xor(bb, Xor(aa, m))
    BY <1>4, XorAssociates
  <2>3. Xor(bb, Xor(aa, m)) = Xor(Xor(aa, m), bb)
    BY <1>4, <1>7, XorIsSum
  <2> QED
    BY <1>1, <1>3, <1>5, <1>6, <1>10, <2>1, <2>2, <2>3
<1>11. CASE ~ (a < 128) /\ ~ (b < 128)
  <2>1. Xor(Xor(aa, m), Xor(bb, m)) = Xor(Xor(aa, bb), Xor(m, m))
    BY <1>4, XorSwaps
  <2>2. Xor(m, m) = 0 /\ Xor(Xor(aa, bb), 0) = Xor(aa, bb)
    BY <1>4, <1>7, XorIsSum
  <2> QED
    BY <1>1, <1>3, <1>5, <1>6, <1>11, <2>1, <2>2
<1> QED
  BY <1>1, <1>8, <1>9, <1>10, <1>11

\* What the table of powers says of mul: 3 is 1 + 2.
LEMMA TimesThree == \A a \in Byte : mul(3, a) = Xor(a, Times2(a))
<1>1. ASSUME NEW a \in NonZero PROVE mul(3, a) = Xor(a, Times2(a))
  <2>1. Log(3) = 1 /\ 3 \in NonZero
    BY SmallNumbers DEF Log, log
  <2>2. Log(a) \in Exponent
    BY TablesAreInverse
  <2>3. mul(3, a) = Exp((1 + Log(a)) % 255)
    BY <2>1, LogOfMul
  <2>4. Exp((1 + Log(a)) % 255) = exp[Log(a) + 2]
    <3>1. CASE Log(a) = 254
      <4>1. exp[1] = 1 /\ exp[256] = 1
        BY DEF exp
      <4>2. ((1 + 254) % 255) + 1 = 1 /\ 254 + 2 = 256
        OBVIOUS
      <4> QED
        BY <3>1, <4>1, <4>2 DEF Exp
    <3>2. CASE Log(a) # 254
      <4>1. ((1 + Log(a)) % 255) + 1 = Log(a) + 2
        BY <2>2, <3>2 DEF Exponent
      <4> QED
        BY <4>1 DEF Exp
    <3> QED
      BY <3>1, <3>2
  <2> QED
    BY <2>3, <2>4, TableOfPowers DEF Log
<1>2. mul(3, 0) = Xor(0, Times2(0))
  <2>1. Times2(0) = 0
    BY DEF Times2
  <2> QED
    BY <2>1, XorFacts DEF mul
<1> QED
  BY <1>1, <1>2, BytesByZero

\* mul distributes over Xor: first for 3, then for its powers, which all bytes are.
LEMMA Distributivity ==
    \A a, b, c \in Byte : mul(a, Xor(b, c)) = Xor(mul(a, b), mul(a, c))
<1> DEFINE Linear(a) ==
               \A b, c \in Byte : mul(a, Xor(b, c)) = Xor(mul(a, b), mul(a, c))
           T == {i \in Exponent : Linear(Exp(i))}
<1>1. 3 \in Byte
  BY SmallNumbers
<1>2. Linear(3)
  <2> SUFFICES ASSUME NEW b \in Byte, NEW c \in Byte
               PROVE  mul(3, Xor(b, c)) = Xor(mul(3, b), mul(3, c))
    OBVIOUS
  <2>1. Xor(b, c) \in Byte /\ Times2(b) \in Byte /\ Times2(c) \in Byte
    BY XorFacts, Times2OfXor
  <2>2. mul(3, Xor(b, c)) = Xor(Xor(b, c), Xor(Times2(b), Times2(c)))
    BY <2>1, TimesThree, Times2OfXor
  <2>3. Xor(Xor(b, c), Xor(Times2(b), Times2(c)))
           = Xor(Xor(b, Times2(b)), Xor(c, Times2(c)))
    BY <2>1, XorSwaps, BytesAreWords
  <2> QED
    BY <2>2, <2>3, TimesThree
<1>3. 0 \in T
  <2>1. Exp(0) = 1
    BY DEF Exp, exp
  <2>2. Linear(1)
    BY XorFacts, MulFacts
  <2> QED
    BY <2>1, <2>2 DEF Exponent
<1>4. ASSUME NEW i \in 1 .. 254, i - 1 \in T PROVE i \in T
  <2> DEFINE e == Exp(i - 1)
  <2>1. i \in Exponent /\ i - 1 \in Exponent /\ ((i - 1) + 1) % 255 = i
    BY DEF Exponent
  <2>2. e \in NonZero /\ Log(e) = i - 1 /\ e \in Byte
    BY <2>1, TablesAreInverse, BytesByZero
  <2>3. Log(3) = 1 /\ 3 \in NonZero
    BY SmallNumbers DEF Log, log
  <2>4. Linear(e)
    BY <1>4
  <2> HIDE DEF e
  <2>5. Exp(i) = mul(e, 3)
    BY <2>1, <2>2, <2>3, LogOfMul
  <2>6. ASSUME NEW b \in Byte, NEW c \in Byte
        PROVE  mul(mul(e, 3), Xor(b, c)) = Xor(mul(mul(e, 3), b), mul(mul(e, 3), c))
    <3>1. Xor(b, c) \in Byte /\ mul(3, b) \in Byte /\ mul(3, c) \in Byte
      BY <1>1, XorFacts, MulFacts
    <3>2. mul(mul(e, 3), Xor(b, c)) = mul(e, Xor(mul(3, b), mul(3, c)))
      BY <1>1, <1>2, <2>2, <3>1, MulFacts
    <3>3. mul(e, Xor(mul(3, b), mul(3, c))) = Xor(mul(e, mul(3, b)), mul(e, mul(3, c)))
      BY <2>4, <3>1
    <3>4. mul(e, mul(3, b)) = mul(mul(e, 3), b) /\ mul(e, mul(3, c)) = mul(mul(e, 3), c)
      BY <1>1, <2>2, MulFacts
    <3> QED
      BY <3>2, <3>3, <3>4
  <2>7. Linear(Exp(i))
    BY <2>5, <2>6
  <2> QED
    BY <2>1, <2>7
<1>5. \A i \in Exponent : i \in T
  <2> HIDE DEF T
  <2>1. 254 \in Nat
    OBVIOUS
  <2> QED
    BY <1>3, <1>4, <2>1, StepByStep DEF Exponent
<1>6. ASSUME NEW a \in NonZero PROVE Linear(a)
  <2>1. Log(a) \in Exponent /\ Exp(Log(a)) = a
    BY TablesAreInverse
  <2>2. Linear(Exp(Log(a)))
    BY <1>5, <2>1
  <2> QED
    BY <2>1, <2>2
<1>7. Linear(0)
  BY XorFacts, MulFacts
<1> QED
  BY <1>6, <1>7, BytesByZero

\* The product by logarithms is the product of polynomials modulo 0x11b.
LEMMA MulIsProduct == \A a, b \in Byte : mul(a, b) = Product(a, b)
<1> SUFFICES ASSUME NEW a \in Byte, NEW b \in Byte PROVE mul(a, b) = Product(a, b)
  OBVIOUS
<1>1. ASSUME NEW c \in Byte PROVE mul(2, c) = Times2(c)
  <2>1. 2 \in Byte /\ 3 \in Byte /\ 1 \in Byte
    BY SmallNumbers
  <2>2. Xor(3, 1) = 2
    BY DEF Xor
  <2>3. mul(c, 2) = Xor(mul(c, 3), mul(c, 1))
    BY <2>1, <2>2, Distributivity
  <2>4. mul(c, 2) = Xor(Xor(c, Times2(c)), c)
    BY <2>1, <2>3, MulFacts, TimesThree
  <2>5. Xor(Xor(c, Times2(c)), c) = Xor(c, Xor(c, Times2(c))) /\ Times2(c) \in Byte
    BY Times2OfXor, XorFacts
  <2> QED
    BY <2>1, <2>4, <2>5, MulFacts, XorCancels
<1>2. ASSUME NEW h \in 0 .. 127, NEW r \in {0, 1}
      PROVE  mul(a, 2 * h + r) = Xor(Times2(mul(a, h)), IF r = 1 THEN a ELSE 0)
  <2>1. h \in Byte /\ r \in Byte /\ 2 \in Byte /\ 2 * h \in Byte
    BY SmallNumbers DEF Byte
  <2>2. Xor(2 * h, r) = 2 * h + r
    BY SMTT(30) DEF Xor
  <2>3. Times2(h) = 2 * h
    BY DEF Times2
  <2>4. mul(a, 2 * h + r) = Xor(mul(a, 2 * h), mul(a, r))
    BY <2>1, <2>2, Distributivity
  <2>5. mul(a, r) = IF r = 1 THEN a ELSE 0
    BY MulFacts
  <2>6. mul(a, 2 * h) = mul(a, mul(2, h))
    BY <1>1, <2>1, <2>3
  <2>7. mul(a, mul(2, h)) = mul(2, mul(a, h)) /\ mul(a, h) \in Byte
    BY <2>1, MulFacts
  <2>8. mul(2, mul(a, h)) = Times2(mul(a, h))
    BY <1>1, <2>7
  <2> QED
    BY <2>4, <2>5, <2>6, <2>7, <2>8
<1> DEFINE next(i, v) == Xor(Times2(v), IF i % 2 = 1 THEN a ELSE 0)
           Loop(f) == f = [i \in 0 .. b |-> IF i = 0 THEN 0 ELSE next(i, f[i \div 2])]
           h == CHOOSE f : Loop(f)
<1>3. b \in Nat /\ 0 .. b \subseteq Byte
  BY DEF Byte
<1>4. ASSUME NEW i \in 1 .. b
      PROVE  i \div 2 \in 0 .. i - 1 /\ mul(a, i) = next(i, mul(a, i \div 2))
  <2> DEFINE j == i \div 2
             r == i % 2
  <2>1. j \in 0 .. 127 /\ r \in {0, 1} /\ i = 2 * j + r /\ j \in 0 .. i - 1
    BY DEF Byte
  <2> HIDE DEF j
  <2> QED
    BY <1>2, <2>1 DEF j
<1> HIDE DEF next
<1>5. Loop([i \in 0 .. b |-> mul(a, i)])
  <2> DEFINE f == [i \in 0 .. b |-> mul(a, i)]
  <2>1. \A i \in 0 .. b : f[i] = mul(a, i)
    OBVIOUS
  <2> HIDE DEF f
  <2>2. ASSUME NEW i \in 0 .. b
        PROVE  mul(a, i) = IF i = 0 THEN 0 ELSE next(i, f[i \div 2])
    <3>1. CASE i = 0
      BY <3>1, MulFacts
    <3>2. CASE i # 0
      <4>1. i \in 1 .. b /\ \A j \in 0 .. i - 1 : j \in 0 .. b
        BY <1>3, <3>2
      <4> QED
        BY <1>4, <2>1, <3>2, <4>1
    <3> QED
      BY <3>1, <3>2
  <2>3. f = [i \in 0 .. b |-> IF i = 0 THEN 0 ELSE next(i, f[i \div 2])]
    BY <2>2 DEF f
  <2> QED
    BY <2>3 DEF f
<1>6. Loop(h)
  <2> HIDE DEF Loop
  <2> QED
    BY <1>5
<1>7. Product(a, b) = h[b]
  BY DEF Product, next
<1> HIDE DEF h
<1>8. h[0] = 0 /\ \A i \in 1 .. b : h[i] = next(i, h[i \div 2])
  BY <1>3, <1>6
<1> DEFINE T == {i \in 0 .. b : \A j \in 0 .. i : h[j] = mul(a, j)}
<1>9. 0 \in T
  BY <1>3, <1>8, MulFacts
<1>10. ASSUME NEW i \in 1 .. b, i - 1 \in T PROVE i \in T
  <2>1. h[i \div 2] = mul(a, i \div 2)
    BY <1>4, <1>10
  <2>2. h[i] = mul(a, i)
    BY <1>4, <1>8, <2>1
  <2>3. \A j \in 0 .. i : j = i \/ j \in 0 .. i - 1
    OBVIOUS
  <2> QED
    BY <1>3, <1>10, <2>2, <2>3
<1>11. b \in T
  <2> HIDE DEF T
  <2>1. \A i \in 0 .. b : i \in T
    BY <1>3, <1>9, <1>10, StepByStep
  <2> QED
    BY <1>3, <2>1
<1> QED
  BY <1>3, <1>7, <1>11

----------------------------------------------------------------------------
(***************************************************************************)
(* 3. Folds over sets of bytes: the order does not matter.                 *)
(***************************************************************************)

\* Sets of bytes are finite; taking one out leaves one less.
LEMMA SetsOfBytes ==
    /\ \A s \in SUBSET Byte : IsFiniteSet(s) /\ Cardinality(s) \in Nat
                              /\ (Cardinality(s) = 0 <=> s = {})
    /\ \A s \in SUBSET Byte : \A u \in s :
           s \ {u} \in SUBSET Byte /\ Cardinality(s \ {u}) = Cardinality(s) - 1
<1>1. IsFiniteSet(Byte)
  <2>1. \A i \in Int : IsFiniteSet(0 .. i)
    BY FS_Interval
  <2> QED
    BY <2>1, 255 \in Int DEF Byte
<1>2. \A s \in SUBSET Byte : IsFiniteSet(s)
  BY <1>1, FS_Subset
<1>3. \A s \in SUBSET Byte : Cardinality(s) \in Nat /\ (Cardinality(s) = 0 <=> s = {})
  BY <1>2, FS_CardinalityType, FS_EmptySet
<1>4. \A s \in SUBSET Byte : \A u \in s : Cardinality(s \ {u}) = Cardinality(s) - 1
  BY <1>2, FS_RemoveElement
<1> QED
  BY <1>2, <1>3, <1>4

\* What holds of the empty set, and of a set as soon as it holds of all sets with one
\* byte less, holds of every set of bytes.
LEMMA ByteByByte ==
    ASSUME NEW T, {} \in T,
           \A s \in SUBSET Byte : s # {} /\ (\A u \in s : s \ {u} \in T) => s \in T
    PROVE  \A s \in SUBSET Byte : s \in T
<1> DEFINE N == Cardinality(Byte)
           A == {i \in 0 .. N : \A s \in SUBSET Byte : Cardinality(s) = i => s \in T}
<1>1. N \in Nat
  BY SetsOfBytes
<1>2. 0 \in A
  <2>1. \A s \in SUBSET Byte : Cardinality(s) = 0 => s \in T
    BY SetsOfBytes
  <2> QED
    BY <1>1, <2>1
<1>3. ASSUME NEW i \in 1 .. N, i - 1 \in A PROVE i \in A
  <2> SUFFICES ASSUME NEW s \in SUBSET Byte, Cardinality(s) = i PROVE s \in T
    BY <1>1
  <2>1. s # {}
    BY SetsOfBytes
  <2>2. ASSUME NEW u \in s PROVE s \ {u} \in T
    <3>1. Cardinality(s \ {u}) = i - 1 /\ s \ {u} \in SUBSET Byte
      BY SetsOfBytes
    <3> QED
      BY <1>3, <3>1
  <2> QED
    BY <2>1, <2>2
<1>4. \A i \in 0 .. N : i \in A
  <2> HIDE DEF N, A
  <2> QED
    BY <1>1, <1>2, <1>3, StepByStep
<1>5. ASSUME NEW s \in SUBSET Byte PROVE Cardinality(s) \in 0 .. N
  <2>1. Cardinality(s) <= N
    BY SetsOfBytes, FS_Subset
  <2> QED
    BY <1>1, <2>1, SetsOfBytes
<1> QED
  BY <1>4, <1>5

\* f folds g, a function of a byte and the value so far, over the subsets of s, in
\* whatever order.
IsFoldOn(f, g, base, s) ==
    /\ f \in [SUBSET s -> Byte]
    /\ f[{}] = base
    /\ \A t \in SUBSET s : \A u \in t : f[t] = g[<<u, f[t \ {u}]>>]

\* The order of two bytes does not matter.
Exchanges(g) == \A u, v, w \in Byte : g[<<u, g[<<v, w>>]>>] = g[<<v, g[<<u, w>>]>>]

\* Two such functions agree where both are defined.
Agree(f, h, s, t) == \A z \in SUBSET Byte : z \subseteq s /\ z \subseteq t => f[z] = h[z]

LEMMA FoldsAgree ==
    ASSUME NEW g, NEW base, NEW s \in SUBSET Byte, NEW t \in SUBSET Byte, NEW f, NEW h,
           IsFoldOn(f, g, base, s), IsFoldOn(h, g, base, t)
    PROVE  Agree(f, h, s, t)
<1> DEFINE A == {z \in SUBSET Byte : z \subseteq s /\ z \subseteq t => f[z] = h[z]}
<1>1. {} \in A
  BY DEF IsFoldOn
<1>2. ASSUME NEW z \in SUBSET Byte, z # {}, \A u \in z : z \ {u} \in A PROVE z \in A
  <2> SUFFICES ASSUME z \subseteq s, z \subseteq t PROVE f[z] = h[z]
    OBVIOUS
  <2>1. PICK u \in z : TRUE
    BY <1>2
  <2>2. f[z \ {u}] = h[z \ {u}]
    BY <1>2
  <2>3. f[z] = g[<<u, f[z \ {u}]>>] /\ h[z] = g[<<u, h[z \ {u}]>>]
    BY DEF IsFoldOn
  <2> QED
    BY <2>2, <2>3
<1> HIDE DEF A
<1>3. \A z \in SUBSET Byte : z \in A
  BY <1>1, <1>2, ByteByByte
<1> QED
  BY <1>3 DEF A, Agree

\* If the order does not matter, there is one for all sets of bytes.
LEMMA FoldExists ==
    ASSUME NEW g \in [Byte \X Byte -> Byte], NEW base \in Byte,
           Exchanges(g)
    PROVE  \E f : IsFoldOn(f, g, base, Byte)
<1> DEFINE T == {s \in SUBSET Byte : \E f : IsFoldOn(f, g, base, s)}
<1>1. \A u, v \in Byte : g[<<u, v>>] \in Byte
  OBVIOUS
<1>2. {} \in T
  <2> DEFINE f == [t \in SUBSET {} |-> base]
  <2>1. f \in [SUBSET {} -> Byte] /\ f[{}] = base
    OBVIOUS
  <2>2. IsFoldOn(f, g, base, {})
    BY <2>1 DEF IsFoldOn
  <2> HIDE DEF f
  <2> QED
    BY <2>2
<1>3. ASSUME NEW s \in SUBSET Byte, s # {}, \A u \in s : s \ {u} \in T PROVE s \in T
  <2>1. \A u \in s : \E f : IsFoldOn(f, g, base, s \ {u})
    BY <1>3
  <2> DEFINE of == [u \in s |-> CHOOSE f : IsFoldOn(f, g, base, s \ {u})]
  <2>2. \A u \in s : IsFoldOn(of[u], g, base, s \ {u})
    BY <2>1
  <2> HIDE DEF of
  <2>3. ASSUME NEW u \in s, NEW v \in s, NEW z \in SUBSET Byte,
                z \subseteq s \ {u}, z \subseteq s \ {v}
         PROVE  of[u][z] = of[v][z]
    <3>1. IsFoldOn(of[u], g, base, s \ {u}) /\ IsFoldOn(of[v], g, base, s \ {v})
          /\ s \ {u} \in SUBSET Byte /\ s \ {v} \in SUBSET Byte
      BY <2>2
    <3>2. Agree(of[u], of[v], s \ {u}, s \ {v})
      BY <3>1, FoldsAgree
    <3> QED
      BY <2>3, <3>2 DEF Agree
  \* the value of s, whichever byte is the last
  <2> DEFINE last(u) == g[<<u, of[u][s \ {u}]>>]
             b == CHOOSE u \in s : TRUE
  <2>4. b \in s
    BY <1>3
  <2> HIDE DEF b
  <2>5. ASSUME NEW u \in s, NEW v \in s PROVE last(u) = last(v) /\ last(u) \in Byte
    <3>1. of[u] \in [SUBSET (s \ {u}) -> Byte] /\ of[v] \in [SUBSET (s \ {v}) -> Byte]
      BY <2>2 DEF IsFoldOn
    <3>2. last(u) \in Byte
      BY <1>1, <3>1
    <3>3. CASE u = v
      BY <3>2, <3>3
    <3>4. CASE u # v
      <4> DEFINE z == (s \ {u}) \ {v}
                 w == of[u][z]
      <4>1. z = (s \ {v}) \ {u} /\ z \in SUBSET ((s \ {u}) \cap (s \ {v})) /\ z \in SUBSET (s \ {u})
        OBVIOUS
      <4>2. w = of[v][z] /\ w \in Byte
        <5>1. z \in SUBSET Byte /\ z \subseteq s \ {u} /\ z \subseteq s \ {v}
          BY <4>1
        <5>2. w = of[v][z]
          BY <2>3, <5>1
        <5>3. w \in Byte
          BY <3>1, <4>1
        <5> QED
          BY <5>2, <5>3
      <4>3. of[u][s \ {u}] = g[<<v, w>>]
        <5>1. v \in s \ {u} /\ s \ {u} \in SUBSET (s \ {u})
          BY <3>4
        <5>2. IsFoldOn(of[u], g, base, s \ {u})
          BY <2>2
        <5>3. \A e \in s \ {u} : of[u][s \ {u}] = g[<<e, of[u][(s \ {u}) \ {e}]>>]
          BY <5>1, <5>2 DEF IsFoldOn
        <5> QED
          BY <5>1, <5>3
      <4>4. of[v][s \ {v}] = g[<<u, w>>]
        <5>1. u \in s \ {v} /\ s \ {v} \in SUBSET (s \ {v})
          BY <3>4
        <5>2. IsFoldOn(of[v], g, base, s \ {v})
          BY <2>2
        <5>3. \A e \in s \ {v} : of[v][s \ {v}] = g[<<e, of[v][(s \ {v}) \ {e}]>>]
          BY <5>1, <5>2 DEF IsFoldOn
        <5>4. of[v][s \ {v}] = g[<<u, of[v][(s \ {v}) \ {u}]>>]
          BY <5>1, <5>3
        <5> QED
          BY <4>1, <4>2, <5>4
      <4> HIDE DEF w, z
      <4>5. g[<<u, g[<<v, w>>]>>] = g[<<v, g[<<u, w>>]>>]
        BY <4>2 DEF Exchanges
      <4> QED
        BY <3>2, <4>3, <4>4, <4>5
    <3> QED
      BY <3>3, <3>4
  <2> DEFINE value(t) == IF t = s THEN last(b) ELSE of[CHOOSE u \in s : u \notin t][t]
             f == [t \in SUBSET s |-> value(t)]
  <2>6. ASSUME NEW t \in SUBSET s, NEW u \in s, u \notin t PROVE f[t] = of[u][t]
    <3> DEFINE v == CHOOSE e \in s : e \notin t
    <3>1. v \in s /\ v \notin t /\ t # s
      BY <2>6
    <3>2. f[t] = of[v][t]
      BY <3>1
    <3> HIDE DEF v, f
    <3>4. t \in SUBSET Byte /\ t \subseteq s \ {u} /\ t \subseteq s \ {v}
      BY <2>6, <3>1
    <3>5. of[u][t] = of[v][t]
      BY <2>3, <3>1, <3>4
    <3> QED
      BY <3>2, <3>5
  <2>7. f[s] = last(b)
    OBVIOUS
  <2>8. \A t \in SUBSET s : f[t] = value(t)
    OBVIOUS
  <2> HIDE DEF value, f
  <2>9. ASSUME NEW t \in SUBSET s PROVE f[t] \in Byte
    <3>1. CASE t = s
      BY <2>4, <2>5, <2>7, <3>1
    <3>2. CASE t # s
      <4>1. PICK u \in s : u \notin t
        BY <3>2
      <4>2. f[t] = of[u][t] /\ t \in SUBSET (s \ {u})
        BY <2>6, <4>1
      <4>3. of[u] \in [SUBSET (s \ {u}) -> Byte]
        BY <2>2 DEF IsFoldOn
      <4> QED
        BY <4>2, <4>3
    <3> QED
      BY <3>1, <3>2
  <2>10. f \in [SUBSET s -> Byte]
    BY <2>8, <2>9 DEF f
  <2>11. f[{}] = base
    <3>1. f[{}] = of[b][{}]
      BY <2>4, <2>6
    <3> QED
      BY <2>2, <2>4, <3>1 DEF IsFoldOn
  <2>12. ASSUME NEW t \in SUBSET s, NEW u \in t PROVE f[t] = g[<<u, f[t \ {u}]>>]
    <3>1. CASE t = s
      <4>1. f[s \ {u}] = of[u][s \ {u}]
        BY <2>6, <3>1
      <4>2. last(b) = last(u)
        BY <2>4, <2>5, <3>1
      <4> QED
        BY <2>7, <3>1, <4>1, <4>2
    <3>2. CASE t # s
      <4>1. PICK v \in s : v \notin t
        BY <3>2
      <4>2. f[t] = of[v][t] /\ f[t \ {u}] = of[v][t \ {u}] /\ t \in SUBSET (s \ {v})
        BY <2>6, <4>1
      <4>3. \A z \in SUBSET (s \ {v}) : \A e \in z : of[v][z] = g[<<e, of[v][z \ {e}]>>]
        BY <2>2, <4>1 DEF IsFoldOn
      <4>4. of[v][t] = g[<<u, of[v][t \ {u}]>>]
        BY <4>2, <4>3
      <4> QED
        BY <4>2, <4>4
    <3> QED
      BY <3>1, <3>2
  <2>13. IsFoldOn(f, g, base, s)
    BY <2>10, <2>11, <2>12 DEF IsFoldOn
  <2> QED
    BY <2>13
<1>4. Byte \in T
  <2> HIDE DEF T
  <2> QED
    BY <1>2, <1>3, ByteByByte
<1> QED
  BY <1>4

\* That one.
Fold(g, base) == CHOOSE f : IsFoldOn(f, g, base, Byte)

LEMMA FoldFacts ==
    ASSUME NEW g \in [Byte \X Byte -> Byte], NEW base \in Byte, Exchanges(g)
    PROVE  IsFoldOn(Fold(g, base), g, base, Byte)
<1>1. \E f : IsFoldOn(f, g, base, Byte)
  BY FoldExists
<1> QED
  BY <1>1 DEF Fold

----------------------------------------------------------------------------
(***************************************************************************)
(* 4. Lagrange's formula at 0, as a function of the values and the set of  *)
(* points: linear, constants come out as they are, and a point can be      *)
(* taken out of the formula for a multiple of the variable.                *)
(***************************************************************************)

\* The weight that Lagrange gives to the byte a among others, at 0.
Factor(a, u) == IF u = a THEN 1 ELSE div(u, Xor(a, u))

WeightAmong(a) == Fold([z \in Byte \X Byte |-> mul(z[2], Factor(a, z[1]))], 1)

LEMMA FactorFacts ==
    ASSUME NEW a \in Byte, NEW u \in Byte
    PROVE  Factor(a, u) \in Byte /\ (u # a => mul(Factor(a, u), Xor(a, u)) = u)
<1>1. CASE u = a
  BY <1>1, XorFacts DEF Factor
<1>2. CASE u # a
  <2>1. Xor(a, u) \in Byte /\ Xor(a, u) # 0
    BY <1>2, XorFacts, XorCancels
  <2> QED
    BY <1>2, <2>1, DivFacts DEF Factor
<1> QED
  BY <1>1, <1>2

LEMMA WeightFacts ==
    ASSUME NEW a \in Byte
    PROVE  /\ WeightAmong(a) \in [SUBSET Byte -> Byte]
           /\ WeightAmong(a)[{}] = 1
           /\ \A s \in SUBSET Byte : \A u \in s :
                  WeightAmong(a)[s] = mul(WeightAmong(a)[s \ {u}], Factor(a, u))
<1> DEFINE g == [z \in Byte \X Byte |-> mul(z[2], Factor(a, z[1]))]
<1>1. g \in [Byte \X Byte -> Byte]
  <2>1. ASSUME NEW z \in Byte \X Byte PROVE mul(z[2], Factor(a, z[1])) \in Byte
    <3>1. z[1] \in Byte /\ z[2] \in Byte
      OBVIOUS
    <3>2. Factor(a, z[1]) \in Byte
      BY <3>1, FactorFacts
    <3> QED
      BY <3>1, <3>2, MulFacts
  <2> QED
    BY <2>1
<1>2. ASSUME NEW u \in Byte, NEW w \in Byte PROVE g[<<u, w>>] = mul(w, Factor(a, u))
  OBVIOUS
<1> HIDE DEF g
<1>3. Exchanges(g)
  <2> SUFFICES ASSUME NEW u \in Byte, NEW v \in Byte, NEW w \in Byte
               PROVE  g[<<u, g[<<v, w>>]>>] = g[<<v, g[<<u, w>>]>>]
    BY DEF Exchanges
  <2> DEFINE fu == Factor(a, u)
             fv == Factor(a, v)
  <2>1. fu \in Byte /\ fv \in Byte
    BY FactorFacts
  <2>2. g[<<v, w>>] = mul(w, fv) /\ g[<<u, w>>] = mul(w, fu)
    BY <1>2
  <2>3. mul(w, fv) \in Byte /\ mul(w, fu) \in Byte
    BY <2>1, MulFacts
  <2>4. g[<<u, mul(w, fv)>>] = mul(mul(w, fv), fu) /\ g[<<v, mul(w, fu)>>] = mul(mul(w, fu), fv)
    BY <1>2, <2>3
  <2> HIDE DEF fu, fv
  <2>5. mul(mul(w, fv), fu) = mul(mul(w, fu), fv)
    BY <2>1, MulFacts
  <2> QED
    BY <2>2, <2>4, <2>5
<1> DEFINE W == WeightAmong(a)
<1>4. 1 \in Byte
  BY XorFacts
<1>5. W = Fold(g, 1)
  BY DEF WeightAmong, g
<1> HIDE DEF W
<1>6. /\ W \in [SUBSET Byte -> Byte] /\ W[{}] = 1
      /\ \A s \in SUBSET Byte : \A u \in s : W[s] = g[<<u, W[s \ {u}]>>]
  <2>1. IsFoldOn(W, g, 1, Byte)
    BY <1>1, <1>3, <1>4, <1>5, FoldFacts
  <2> QED
    BY <2>1 DEF IsFoldOn
<1>7. ASSUME NEW s \in SUBSET Byte, NEW u \in s
      PROVE  W[s] = mul(W[s \ {u}], Factor(a, u))
  <2>1. W[s \ {u}] \in Byte /\ u \in Byte
    BY <1>6
  <2> QED
    BY <1>2, <1>6, <2>1
<1> QED
  BY <1>6, <1>7 DEF W

\* The sum of the bytes that the function g has on a set.
Total(g) == Fold([z \in Byte \X Byte |-> Xor(z[2], g[z[1]])], 0)

LEMMA TotalFacts ==
    ASSUME NEW h \in [Byte -> Byte]
    PROVE  /\ Total(h) \in [SUBSET Byte -> Byte]
           /\ Total(h)[{}] = 0
           /\ \A s \in SUBSET Byte : \A u \in s : Total(h)[s] = Xor(Total(h)[s \ {u}], h[u])
<1> DEFINE g == [z \in Byte \X Byte |-> Xor(z[2], h[z[1]])]
<1>1. g \in [Byte \X Byte -> Byte]
  <2>1. ASSUME NEW z \in Byte \X Byte PROVE Xor(z[2], h[z[1]]) \in Byte
    <3>1. z[1] \in Byte /\ z[2] \in Byte
      OBVIOUS
    <3>2. h[z[1]] \in Byte
      BY <3>1
    <3> QED
      BY <3>1, <3>2, XorFacts
  <2> QED
    BY <2>1
<1>2. ASSUME NEW u \in Byte, NEW w \in Byte PROVE g[<<u, w>>] = Xor(w, h[u])
  OBVIOUS
<1> HIDE DEF g
<1>3. Exchanges(g)
  <2> SUFFICES ASSUME NEW u \in Byte, NEW v \in Byte, NEW w \in Byte
               PROVE  g[<<u, g[<<v, w>>]>>] = g[<<v, g[<<u, w>>]>>]
    BY DEF Exchanges
  <2> DEFINE fu == h[u]
             fv == h[v]
  <2>1. fu \in Byte /\ fv \in Byte
    OBVIOUS
  <2>2. g[<<v, w>>] = Xor(w, fv) /\ g[<<u, w>>] = Xor(w, fu)
    BY <1>2
  <2>3. Xor(w, fv) \in Byte /\ Xor(w, fu) \in Byte
    BY <2>1, XorFacts
  <2>4. g[<<u, Xor(w, fv)>>] = Xor(Xor(w, fv), fu) /\ g[<<v, Xor(w, fu)>>] = Xor(Xor(w, fu), fv)
    BY <1>2, <2>3
  <2> HIDE DEF fu, fv
  <2>5. Xor(Xor(w, fv), fu) = Xor(Xor(w, fu), fv)
    BY <2>1, XorFacts
  <2> QED
    BY <2>2, <2>4, <2>5
<1> DEFINE W == Total(h)
<1>4. 0 \in Byte
  BY XorFacts
<1>5. W = Fold(g, 0)
  BY DEF Total, g
<1> HIDE DEF W
<1>6. /\ W \in [SUBSET Byte -> Byte] /\ W[{}] = 0
      /\ \A s \in SUBSET Byte : \A u \in s : W[s] = g[<<u, W[s \ {u}]>>]
  <2>1. IsFoldOn(W, g, 0, Byte)
    BY <1>1, <1>3, <1>4, <1>5, FoldFacts
  <2> QED
    BY <2>1 DEF IsFoldOn
<1>7. ASSUME NEW s \in SUBSET Byte, NEW u \in s
      PROVE  W[s] = Xor(W[s \ {u}], h[u])
  <2>1. W[s \ {u}] \in Byte /\ u \in Byte
    BY <1>6
  <2> QED
    BY <1>2, <1>6, <2>1
<1> QED
  BY <1>6, <1>7 DEF W

\* A weight of the code is that.
LEMMA WeightAtZero ==
    ASSUME NEW points, DOMAIN points \in SUBSET Byte, NEW a \in Byte
    PROVE  Weight(points, a, 0) = WeightAmong(a)[DOMAIN points]
<1> DEFINE S == DOMAIN points \ {a}
           W == WeightAmong(a)
           next(b, w) == mul(w, div(Xor(0, b), Xor(a, b)))
           Loop(f) == f = [s \in SUBSET S |->
                              IF s = {} THEN 1
                              ELSE next(CHOOSE b \in s : TRUE,
                                        f[s \ {CHOOSE b \in s : TRUE}])]
           h == CHOOSE f : Loop(f)
<1>1. Weight(points, a, 0) = h[S]
  BY DEF Weight, FoldSet, MapThenFoldSet
<1>2. S \in SUBSET Byte /\ a \notin S
  OBVIOUS
<1>3. /\ W \in [SUBSET Byte -> Byte] /\ W[{}] = 1
      /\ \A s \in SUBSET Byte : \A u \in s : W[s] = mul(W[s \ {u}], Factor(a, u))
  BY WeightFacts
<1>4. W[S] = W[DOMAIN points]
  <2>1. CASE a \in DOMAIN points
    <3>1. W[DOMAIN points] = mul(W[S], Factor(a, a))
      BY <1>3, <2>1
    <3>2. Factor(a, a) = 1 /\ W[S] \in Byte
      BY <1>2, <1>3 DEF Factor
    <3> QED
      BY <3>1, <3>2, MulFacts
  <2>2. CASE a \notin DOMAIN points
    <3>1. S = DOMAIN points
      BY <2>2
    <3> QED
      BY <3>1
  <2> QED
    BY <2>1, <2>2
<1> HIDE DEF S, W
<1>5. ASSUME NEW s \in SUBSET S, NEW b \in s
      PROVE  W[s] = next(b, W[s \ {b}])
  <2>1. s \in SUBSET Byte /\ b \in Byte /\ b # a
    BY <1>2
  <2>2. Xor(0, b) = b /\ Factor(a, b) = div(b, Xor(a, b))
    BY <2>1, XorFacts DEF Factor
  <2> QED
    BY <1>3, <2>1, <2>2
<1> HIDE DEF next
<1>6. ASSUME NEW s \in SUBSET S, s # {} PROVE (CHOOSE b \in s : TRUE) \in s
  BY <1>6
<1>7. Loop([s \in SUBSET S |-> W[s]])
  <2> DEFINE f == [s \in SUBSET S |-> W[s]]
  <2>1. \A s \in SUBSET S : f[s] = W[s]
    OBVIOUS
  <2> HIDE DEF f
  <2>2. ASSUME NEW s \in SUBSET S
        PROVE  f[s] = IF s = {} THEN 1
                      ELSE next(CHOOSE b \in s : TRUE, f[s \ {CHOOSE b \in s : TRUE}])
    <3> DEFINE b == CHOOSE e \in s : TRUE
    <3>1. CASE s = {}
      BY <1>3, <2>1, <3>1
    <3>2. CASE s # {}
      <4>1. b \in s
        BY <1>6, <3>2
      <4> HIDE DEF b
      <4>2. W[s] = next(b, W[s \ {b}]) /\ f[s] = W[s] /\ f[s \ {b}] = W[s \ {b}]
        BY <1>5, <2>1, <4>1
      <4> QED
        BY <3>2, <4>2 DEF b
    <3> QED
      BY <3>1, <3>2
  <2>3. f = [s \in SUBSET S |-> f[s]]
    BY <2>1 DEF f
  <2>4. f = [s \in SUBSET S |-> IF s = {} THEN 1
                      ELSE next(CHOOSE b \in s : TRUE, f[s \ {CHOOSE b \in s : TRUE}])]
    BY <2>2, <2>3
  <2> QED
    BY <2>4 DEF f
<1>8. Loop(h)
  <2> HIDE DEF Loop
  <2> QED
    BY <1>7
<1> HIDE DEF h
<1>9. ASSUME NEW s \in SUBSET S, s # {}
      PROVE  \E b \in s : h[s] = next(b, h[s \ {b}])
  <2>1. h[s] = next(CHOOSE b \in s : TRUE, h[s \ {CHOOSE b \in s : TRUE}])
    BY <1>8, <1>9
  <2> QED
    BY <1>6, <1>9, <2>1
<1>10. h[{}] = 1
  BY <1>8
<1> DEFINE T == {s \in SUBSET Byte : s \subseteq S => h[s] = W[s]}
<1>11. {} \in T
  BY <1>3, <1>10
<1>12. ASSUME NEW s \in SUBSET Byte, s # {}, \A u \in s : s \ {u} \in T PROVE s \in T
  <2> SUFFICES ASSUME s \subseteq S PROVE h[s] = W[s]
    OBVIOUS
  <2>1. PICK b \in s : h[s] = next(b, h[s \ {b}])
    BY <1>9, <1>12
  <2>2. h[s \ {b}] = W[s \ {b}]
    BY <1>12
  <2>3. W[s] = next(b, W[s \ {b}])
    BY <1>5
  <2> QED
    BY <2>1, <2>2, <2>3
<1>13. \A s \in SUBSET Byte : s \in T
  <2> HIDE DEF T
  <2> QED
    BY <1>11, <1>12, ByteByByte
<1>14. h[S] = W[S]
  BY <1>2, <1>13
<1> QED
  BY <1>1, <1>4, <1>14 DEF W

\* What Lagrange's formula makes, at 0, of the values that h has on S.
Term(h, S) == [a \in Byte |-> mul(WeightAmong(a)[S], h[a])]

Lagrange(h, S) == Total(Term(h, S))[S]

LEMMA TermFacts ==
    ASSUME NEW h \in [Byte -> Byte], NEW S \in SUBSET Byte
    PROVE  /\ Term(h, S) \in [Byte -> Byte]
           /\ \A a \in Byte : Term(h, S)[a] = mul(WeightAmong(a)[S], h[a])
<1>1. ASSUME NEW a \in Byte PROVE mul(WeightAmong(a)[S], h[a]) \in Byte
  <2>1. WeightAmong(a)[S] \in Byte /\ h[a] \in Byte
    BY WeightFacts
  <2> QED
    BY <2>1, MulFacts
<1> QED
  BY <1>1 DEF Term

LEMMA InterpolateAtZero ==
    ASSUME NEW points, DOMAIN points \in SUBSET Byte, NEW z \in [Byte -> Byte],
           \A a \in DOMAIN points : points[a] = z[a]
    PROVE  interpolate(points, 0) = Lagrange(z, DOMAIN points)
<1> DEFINE S == DOMAIN points
           g == Term(z, S)
           W == Total(g)
           next(a, v) == Xor(v, mul(Weight(points, a, 0), points[a]))
           Loop(f) == f = [s \in SUBSET S |->
                              IF s = {} THEN 0
                              ELSE next(CHOOSE b \in s : TRUE,
                                        f[s \ {CHOOSE b \in s : TRUE}])]
           h == CHOOSE f : Loop(f)
<1>1. interpolate(points, 0) = h[S]
  BY DEF interpolate, FoldSet, MapThenFoldSet
<1>2. S \in SUBSET Byte
  OBVIOUS
<1>3. /\ W \in [SUBSET Byte -> Byte] /\ W[{}] = 0
      /\ \A s \in SUBSET Byte : \A u \in s : W[s] = Xor(W[s \ {u}], g[u])
  <2>1. g \in [Byte -> Byte]
    BY <1>2, TermFacts
  <2> HIDE DEF g
  <2> QED
    BY <2>1, TotalFacts
<1>4. W[S] = Lagrange(z, S)
  BY DEF Lagrange
<1>5. ASSUME NEW s \in SUBSET S, NEW b \in s
      PROVE  W[s] = next(b, W[s \ {b}])
  <2>1. s \in SUBSET Byte /\ b \in Byte /\ b \in S
    BY <1>2
  <2>2. g[b] = mul(WeightAmong(b)[S], z[b])
    BY <1>2, <2>1, TermFacts
  <2>3. Weight(points, b, 0) = WeightAmong(b)[S]
    BY <1>2, <2>1, WeightAtZero
  <2>4. points[b] = z[b]
    BY <2>1
  <2> HIDE DEF W, g
  <2> QED
    BY <1>3, <2>1, <2>2, <2>3, <2>4
<1> HIDE DEF S, W, next
<1>6. ASSUME NEW s \in SUBSET S, s # {} PROVE (CHOOSE b \in s : TRUE) \in s
  BY <1>6
<1>7. Loop([s \in SUBSET S |-> W[s]])
  <2> DEFINE f == [s \in SUBSET S |-> W[s]]
  <2>1. \A s \in SUBSET S : f[s] = W[s]
    OBVIOUS
  <2> HIDE DEF f
  <2>2. ASSUME NEW s \in SUBSET S
        PROVE  f[s] = IF s = {} THEN 0
                      ELSE next(CHOOSE b \in s : TRUE, f[s \ {CHOOSE b \in s : TRUE}])
    <3> DEFINE b == CHOOSE e \in s : TRUE
    <3>1. CASE s = {}
      BY <1>3, <2>1, <3>1
    <3>2. CASE s # {}
      <4>1. b \in s
        BY <1>6, <3>2
      <4> HIDE DEF b
      <4>2. W[s] = next(b, W[s \ {b}]) /\ f[s] = W[s] /\ f[s \ {b}] = W[s \ {b}]
        BY <1>5, <2>1, <4>1
      <4> QED
        BY <3>2, <4>2 DEF b
    <3> QED
      BY <3>1, <3>2
  <2>3. f = [s \in SUBSET S |-> f[s]]
    BY <2>1 DEF f
  <2>4. f = [s \in SUBSET S |-> IF s = {} THEN 0
                      ELSE next(CHOOSE b \in s : TRUE, f[s \ {CHOOSE b \in s : TRUE}])]
    BY <2>2, <2>3
  <2> QED
    BY <2>4 DEF f
<1>8. Loop(h)
  <2> HIDE DEF Loop
  <2> QED
    BY <1>7
<1> HIDE DEF h
<1>9. ASSUME NEW s \in SUBSET S, s # {}
      PROVE  \E b \in s : h[s] = next(b, h[s \ {b}])
  <2>1. h[s] = next(CHOOSE b \in s : TRUE, h[s \ {CHOOSE b \in s : TRUE}])
    BY <1>8, <1>9
  <2> QED
    BY <1>6, <1>9, <2>1
<1>10. h[{}] = 0
  BY <1>8
<1> DEFINE T == {s \in SUBSET Byte : s \subseteq S => h[s] = W[s]}
<1>11. {} \in T
  BY <1>3, <1>10
<1>12. ASSUME NEW s \in SUBSET Byte, s # {}, \A u \in s : s \ {u} \in T PROVE s \in T
  <2> SUFFICES ASSUME s \subseteq S PROVE h[s] = W[s]
    OBVIOUS
  <2>1. PICK b \in s : h[s] = next(b, h[s \ {b}])
    BY <1>9, <1>12
  <2>2. h[s \ {b}] = W[s \ {b}]
    BY <1>12
  <2>3. W[s] = next(b, W[s \ {b}])
    BY <1>5
  <2> QED
    BY <2>1, <2>2, <2>3
<1>13. \A s \in SUBSET Byte : s \in T
  <2> HIDE DEF T
  <2> QED
    BY <1>11, <1>12, ByteByByte
<1>14. h[S] = W[S]
  BY <1>2, <1>13
<1> QED
  BY <1>1, <1>4, <1>14 DEF S

\* f is c times g plus h, on S.
IsSum(f, c, g, h, S) == \A a \in S : f[a] = Xor(mul(c, g[a]), h[a])

\* Sums are linear.
LEMMA TotalIsLinear ==
    ASSUME NEW f \in [Byte -> Byte], NEW g \in [Byte -> Byte], NEW h \in [Byte -> Byte],
           NEW c \in Byte, NEW S \in SUBSET Byte,
           IsSum(f, c, g, h, S)
    PROVE  Total(f)[S] = Xor(mul(c, Total(g)[S]), Total(h)[S])
<1> DEFINE F == Total(f)
           G == Total(g)
           H == Total(h)
           T == {s \in SUBSET Byte : s \subseteq S => F[s] = Xor(mul(c, G[s]), H[s])}
<1>1. /\ F \in [SUBSET Byte -> Byte] /\ F[{}] = 0
      /\ \A s \in SUBSET Byte : \A u \in s : F[s] = Xor(F[s \ {u}], f[u])
  BY TotalFacts
<1>2. /\ G \in [SUBSET Byte -> Byte] /\ G[{}] = 0
      /\ \A s \in SUBSET Byte : \A u \in s : G[s] = Xor(G[s \ {u}], g[u])
  BY TotalFacts
<1>3. /\ H \in [SUBSET Byte -> Byte] /\ H[{}] = 0
      /\ \A s \in SUBSET Byte : \A u \in s : H[s] = Xor(H[s \ {u}], h[u])
  BY TotalFacts
<1> HIDE DEF F, G, H
<1>4. {} \in T
  <2>1. Xor(mul(c, 0), 0) = 0
    BY XorFacts, MulFacts
  <2> QED
    BY <1>1, <1>2, <1>3, <2>1
<1>5. ASSUME NEW s \in SUBSET Byte, s # {}, \A u \in s : s \ {u} \in T PROVE s \in T
  <2> SUFFICES ASSUME s \subseteq S PROVE F[s] = Xor(mul(c, G[s]), H[s])
    OBVIOUS
  <2>1. PICK u \in s : TRUE
    BY <1>5
  <2> DEFINE gs == G[s \ {u}]
             hs == H[s \ {u}]
             gu == g[u]
             hu == h[u]
  <2>2. F[s \ {u}] = Xor(mul(c, gs), hs)
    BY <1>5
  <2>3. u \in Byte /\ f[u] = Xor(mul(c, gu), hu) /\ s \ {u} \in SUBSET Byte
    BY DEF IsSum
  <2>4. gs \in Byte /\ hs \in Byte /\ gu \in Byte /\ hu \in Byte
    BY <1>2, <1>3, <2>3
  <2>5. F[s] = Xor(F[s \ {u}], f[u]) /\ G[s] = Xor(gs, gu) /\ H[s] = Xor(hs, hu)
    BY <1>1, <1>2, <1>3
  <2> HIDE DEF gs, hs, gu, hu
  <2>6. mul(c, Xor(gs, gu)) = Xor(mul(c, gs), mul(c, gu))
    BY <2>4, Distributivity
  <2>7. mul(c, gs) \in Byte /\ mul(c, gu) \in Byte
    BY <2>4, MulFacts
  <2>8. Xor(Xor(mul(c, gs), hs), Xor(mul(c, gu), hu))
           = Xor(Xor(mul(c, gs), mul(c, gu)), Xor(hs, hu))
    BY <2>4, <2>7, XorSwaps, BytesAreWords
  <2> QED
    BY <2>2, <2>3, <2>5, <2>6, <2>8
<1>6. \A s \in SUBSET Byte : s \in T
  <2> HIDE DEF T
  <2> QED
    BY <1>4, <1>5, ByteByByte
<1> QED
  BY <1>6 DEF F, G, H

\* So is Lagrange's formula.
LEMMA LagrangeIsLinear ==
    ASSUME NEW f \in [Byte -> Byte], NEW g \in [Byte -> Byte], NEW h \in [Byte -> Byte],
           NEW c \in Byte, NEW S \in SUBSET Byte,
           IsSum(f, c, g, h, S)
    PROVE  Lagrange(f, S) = Xor(mul(c, Lagrange(g, S)), Lagrange(h, S))
<1>1. /\ Term(f, S) \in [Byte -> Byte] /\ Term(g, S) \in [Byte -> Byte]
      /\ Term(h, S) \in [Byte -> Byte]
  BY TermFacts
<1>2. ASSUME NEW a \in S
      PROVE  Term(f, S)[a] = Xor(mul(c, Term(g, S)[a]), Term(h, S)[a])
  <2> DEFINE w == WeightAmong(a)[S]
             ga == g[a]
             ha == h[a]
  <2>1. a \in Byte /\ w \in Byte /\ ga \in Byte /\ ha \in Byte
    BY WeightFacts
  <2>2. f[a] = Xor(mul(c, ga), ha)
    BY DEF IsSum
  <2>3. /\ Term(f, S)[a] = mul(w, f[a]) /\ Term(g, S)[a] = mul(w, ga)
        /\ Term(h, S)[a] = mul(w, ha)
    BY <2>1, TermFacts
  <2> HIDE DEF w, ga, ha
  <2>4. mul(c, ga) \in Byte
    BY <2>1, MulFacts
  <2>5. mul(w, Xor(mul(c, ga), ha)) = Xor(mul(w, mul(c, ga)), mul(w, ha))
    BY <2>1, <2>4, Distributivity
  <2>6. mul(w, mul(c, ga)) = mul(c, mul(w, ga))
    BY <2>1, MulFacts
  <2> QED
    BY <2>2, <2>3, <2>5, <2>6
<1> DEFINE F == Term(f, S)
           G == Term(g, S)
           H == Term(h, S)
<1> HIDE DEF F, G, H
<1>3. Total(F)[S] = Xor(mul(c, Total(G)[S]), Total(H)[S])
  <2>1. /\ F \in [Byte -> Byte] /\ G \in [Byte -> Byte] /\ H \in [Byte -> Byte]
        /\ IsSum(F, c, G, H, S)
    BY <1>1, <1>2 DEF F, G, H, IsSum
  <2> QED
    BY <2>1, TotalIsLinear
<1> QED
  BY <1>3 DEF Lagrange, F, G, H

LEMMA LagrangeOfBytes ==
    ASSUME NEW h \in [Byte -> Byte], NEW S \in SUBSET Byte
    PROVE  Lagrange(h, S) \in Byte /\ Lagrange(h, {}) = 0
<1>1. Term(h, S) \in [Byte -> Byte] /\ Term(h, {}) \in [Byte -> Byte]
  BY TermFacts
<1> QED
  BY <1>1, TotalFacts DEF Lagrange

\* The functions that are 0 and 1 everywhere.
Zero == [a \in Byte |-> 0]

LEMMA ZeroFacts ==
    /\ Zero \in [Byte -> Byte]
    /\ \A S \in SUBSET Byte : Total(Zero)[S] = 0 /\ Lagrange(Zero, S) = 0
<1>1. Zero \in [Byte -> Byte] /\ \A a \in Byte : Zero[a] = 0
  BY XorFacts DEF Zero
<1>2. ASSUME NEW S \in SUBSET Byte PROVE Total(Zero)[S] = 0 /\ Lagrange(Zero, S) = 0
  <2>1. 0 = Xor(mul(1, 0), 0) /\ 1 \in Byte
    BY XorFacts, MulFacts
  <2>2. Total(Zero)[S] = Xor(mul(1, Total(Zero)[S]), Total(Zero)[S])
    <3>1. IsSum(Zero, 1, Zero, Zero, S)
      BY <1>1, <2>1 DEF IsSum
    <3> QED
      BY <1>1, <2>1, <3>1, TotalIsLinear
  <2>3. Lagrange(Zero, S) = Xor(mul(1, Lagrange(Zero, S)), Lagrange(Zero, S))
    <3>1. IsSum(Zero, 1, Zero, Zero, S)
      BY <1>1, <2>1 DEF IsSum
    <3> QED
      BY <1>1, <2>1, <3>1, LagrangeIsLinear
  <2>4. Total(Zero)[S] \in Byte /\ Lagrange(Zero, S) \in Byte
    BY <1>1, TotalFacts, LagrangeOfBytes
  <2> QED
    BY <2>2, <2>3, <2>4, XorFacts, MulFacts
<1> QED
  BY <1>1, <1>2

\* f is h times a factor that is zero at u, on S.
VanishesAt(u, f, h, S) == \A a \in S : f[a] = mul(Xor(a, u), h[a])

\* Such a factor takes u out of the points.
LEMMA LagrangeAtRoot ==
    ASSUME NEW f \in [Byte -> Byte], NEW h \in [Byte -> Byte], NEW S \in SUBSET Byte,
           NEW u \in S, VanishesAt(u, f, h, S)
    PROVE  Lagrange(f, S) = mul(u, Lagrange(h, S \ {u}))
<1> DEFINE R == S \ {u}
           F == Term(f, S)
           H == Term(h, R)
<1>1. R \in SUBSET Byte /\ u \in Byte
  OBVIOUS
<1>2. /\ F \in [Byte -> Byte] /\ H \in [Byte -> Byte]
      /\ \A a \in Byte : F[a] = mul(WeightAmong(a)[S], f[a])
      /\ \A a \in Byte : H[a] = mul(WeightAmong(a)[R], h[a])
  BY <1>1, TermFacts
<1> HIDE DEF F, H
<1>3. F[u] = 0
  <2>1. f[u] = mul(0, h[u]) /\ h[u] \in Byte
    BY <1>1, XorFacts DEF VanishesAt
  <2>2. WeightAmong(u)[S] \in Byte
    BY <1>1, WeightFacts
  <2>3. f[u] = 0
    BY <2>1, MulFacts
  <2>4. F[u] = mul(WeightAmong(u)[S], 0)
    BY <1>1, <1>2, <2>3
  <2> QED
    BY <2>2, <2>4, MulFacts
<1>4. ASSUME NEW a \in R PROVE F[a] = Xor(mul(u, H[a]), Zero[a])
  <2> DEFINE w == WeightAmong(a)[R]
             q == Factor(a, u)
             d == Xor(a, u)
             v == h[a]
  <2>1. a \in Byte /\ a \in S /\ u # a
    BY <1>1
  <2>2. WeightAmong(a)[S] = mul(w, q)
    BY <1>1, <2>1, WeightFacts
  <2>3. w \in Byte /\ q \in Byte /\ d \in Byte /\ v \in Byte /\ mul(q, d) = u
    <3>1. w \in Byte
      BY <1>1, <2>1, WeightFacts
    <3>2. q \in Byte /\ mul(q, d) = u
      BY <1>1, <2>1, FactorFacts
    <3>3. d \in Byte /\ v \in Byte
      BY <1>1, <2>1, XorFacts
    <3> QED
      BY <3>1, <3>2, <3>3
  <2>4. f[a] = mul(d, v)
    BY <2>1 DEF VanishesAt
  <2>5. F[a] = mul(mul(w, q), mul(d, v)) /\ H[a] = mul(w, v) /\ Zero[a] = 0
    BY <1>2, <2>1, <2>2, <2>4 DEF Zero
  <2> HIDE DEF w, q, d, v
  <2>6. mul(mul(w, q), mul(d, v)) = mul(mul(q, d), mul(w, v))
    <3>1. mul(w, q) = mul(q, w) /\ mul(q, d) \in Byte /\ mul(d, v) \in Byte /\ mul(w, v) \in Byte
      BY <2>3, MulFacts
    <3>2. mul(mul(q, w), mul(d, v)) = mul(q, mul(w, mul(d, v)))
      BY <2>3, <3>1, MulFacts
    <3>3. mul(w, mul(d, v)) = mul(mul(w, d), v) /\ mul(w, d) = mul(d, w)
      BY <2>3, MulFacts
    <3>4. mul(mul(d, w), v) = mul(d, mul(w, v))
      BY <2>3, MulFacts
    <3>5. mul(q, mul(d, mul(w, v))) = mul(mul(q, d), mul(w, v))
      BY <2>3, <3>1, MulFacts
    <3> QED
      BY <3>1, <3>2, <3>3, <3>4, <3>5
  <2>7. mul(u, mul(w, v)) \in Byte
    BY <1>1, <2>3, MulFacts
  <2> QED
    BY <2>3, <2>5, <2>6, <2>7, XorFacts
<1>5. Total(F)[R] = Xor(mul(u, Total(H)[R]), Total(Zero)[R])
  <2>1. IsSum(F, u, H, Zero, R)
    BY <1>4 DEF IsSum
  <2>2. F \in [Byte -> Byte] /\ H \in [Byte -> Byte] /\ Zero \in [Byte -> Byte]
    BY <1>2, ZeroFacts
  <2> HIDE DEF R
  <2> QED
    BY <1>1, <2>1, <2>2, TotalIsLinear
<1>6. Total(F)[S] = Xor(Total(F)[R], F[u]) /\ Total(F)[R] \in Byte /\ Total(H)[R] \in Byte
  <2> DEFINE tF == Total(F)
             tH == Total(H)
  <2>1. /\ tF \in [SUBSET Byte -> Byte] /\ tH \in [SUBSET Byte -> Byte]
        /\ \A s \in SUBSET Byte : \A e \in s : tF[s] = Xor(tF[s \ {e}], F[e])
    BY <1>2, TotalFacts
  <2> HIDE DEF tF, tH
  <2>2. tF[S] = Xor(tF[R], F[u]) /\ tF[R] \in Byte /\ tH[R] \in Byte
    BY <1>1, <2>1
  <2> QED
    BY <2>2 DEF tF, tH
<1>7. Total(F)[S] = mul(u, Total(H)[R])
  <2>1. mul(u, Total(H)[R]) \in Byte
    BY <1>1, <1>6, MulFacts
  <2>2. Total(F)[R] = mul(u, Total(H)[R])
    BY <1>1, <1>5, <2>1, ZeroFacts, XorFacts
  <2> QED
    BY <1>3, <1>6, <2>1, <2>2, XorFacts
<1> QED
  BY <1>7 DEF Lagrange, F, H

\* So a point can be taken out of the formula for a function that is divided by the
\* variable.
LEMMA LagrangeOfMultiple ==
    ASSUME NEW f \in [Byte -> Byte], NEW h \in [Byte -> Byte], NEW S \in SUBSET Byte,
           NEW u \in S, VanishesAt(0, f, h, S)
    PROVE  Lagrange(f, S) = mul(u, Xor(Lagrange(h, S \ {u}), Lagrange(h, S)))
<1> DEFINE g == [a \in Byte |-> mul(Xor(a, u), h[a])]
<1>0. u \in Byte /\ S \ {u} \in SUBSET Byte
  OBVIOUS
<1>1. ASSUME NEW a \in Byte
      PROVE  mul(Xor(a, u), h[a]) \in Byte /\ mul(Xor(a, u), h[a]) = Xor(mul(u, h[a]), mul(a, h[a]))
  <2> DEFINE v == h[a]
  <2>1. v \in Byte /\ Xor(a, u) \in Byte
    BY <1>0, XorFacts
  <2> HIDE DEF v
  <2>2. mul(v, Xor(a, u)) = Xor(mul(v, a), mul(v, u))
    BY <1>0, <2>1, Distributivity
  <2>3. /\ mul(v, Xor(a, u)) = mul(Xor(a, u), v) /\ mul(v, a) = mul(a, v)
        /\ mul(v, u) = mul(u, v) /\ mul(a, v) \in Byte /\ mul(u, v) \in Byte
        /\ mul(Xor(a, u), v) \in Byte
    BY <1>0, <2>1, MulFacts
  <2>4. Xor(mul(a, v), mul(u, v)) = Xor(mul(u, v), mul(a, v))
    BY <2>3, XorFacts
  <2> QED
    BY <2>2, <2>3, <2>4 DEF v
<1>2. g \in [Byte -> Byte] /\ \A a \in Byte : g[a] = mul(Xor(a, u), h[a])
  BY <1>1
<1> HIDE DEF g
<1>3. Lagrange(g, S) = mul(u, Lagrange(h, S \ {u}))
  <2>1. VanishesAt(u, g, h, S)
    BY <1>2 DEF VanishesAt
  <2> QED
    BY <1>2, <2>1, LagrangeAtRoot
<1>4. ASSUME NEW a \in S PROVE g[a] = Xor(mul(u, h[a]), f[a])
  <2>1. f[a] = mul(a, h[a])
    BY XorFacts DEF VanishesAt
  <2> QED
    BY <1>1, <1>2, <2>1
<1>5. Lagrange(g, S) = Xor(mul(u, Lagrange(h, S)), Lagrange(f, S))
  <2>1. IsSum(g, u, h, f, S)
    BY <1>4 DEF IsSum
  <2> QED
    BY <1>0, <1>2, <2>1, LagrangeIsLinear
<1> DEFINE l == Lagrange(f, S)
           m == Lagrange(h, S)
           r == Lagrange(h, S \ {u})
<1>6. l \in Byte /\ m \in Byte /\ r \in Byte
  BY <1>0, LagrangeOfBytes
<1>7. Xor(mul(u, m), l) = mul(u, r)
  BY <1>3, <1>5
<1> HIDE DEF l, m, r
<1>8. l = Xor(mul(u, m), mul(u, r)) /\ mul(u, m) \in Byte /\ mul(u, r) \in Byte
  <2>1. mul(u, m) \in Byte /\ mul(u, r) \in Byte
    BY <1>0, <1>6, MulFacts
  <2>2. Xor(l, mul(u, m)) = mul(u, r)
    BY <1>6, <1>7, <2>1, XorFacts
  <2>3. Xor(mul(u, m), Xor(mul(u, m), l)) = l
    BY <1>6, <2>1, XorCancels
  <2> QED
    BY <1>7, <2>1, <2>3
<1>9. mul(u, Xor(r, m)) = Xor(mul(u, m), mul(u, r))
  <2>1. Xor(r, m) = Xor(m, r)
    BY <1>6, XorFacts
  <2> QED
    BY <1>0, <1>6, <2>1, Distributivity
<1> QED
  BY <1>8, <1>9 DEF l, m, r

One == [a \in Byte |-> 1]

\* Constants are recovered from any points.
LEMMA LagrangeOfOne == \A S \in SUBSET Byte : S # {} => Lagrange(One, S) = 1
<1> DEFINE T == {S \in SUBSET Byte : S # {} => Lagrange(One, S) = 1}
           X == [a \in Byte |-> a]
<1>1. /\ One \in [Byte -> Byte] /\ \A a \in Byte : One[a] = 1
      /\ X \in [Byte -> Byte] /\ \A a \in Byte : X[a] = a
  BY XorFacts DEF One
<1> HIDE DEF X
<1>2. ASSUME NEW S \in SUBSET Byte PROVE VanishesAt(0, X, One, S)
  <2>1. ASSUME NEW a \in Byte PROVE X[a] = mul(Xor(a, 0), One[a])
    BY <1>1, XorFacts, MulFacts
  <2> QED
    BY <2>1 DEF VanishesAt
<1>3. ASSUME NEW S \in SUBSET Byte, NEW u \in S
      PROVE  Lagrange(X, S) = mul(u, Xor(Lagrange(One, S \ {u}), Lagrange(One, S)))
  BY <1>1, <1>2, LagrangeOfMultiple
<1>4. {} \in T
  OBVIOUS
<1>5. ASSUME NEW S \in SUBSET Byte, S # {}, \A u \in S : S \ {u} \in T PROVE S \in T
  <2> SUFFICES Lagrange(One, S) = 1
    OBVIOUS
  <2>1. PICK u \in S : TRUE
    BY <1>5
  <2>2. CASE S = {u}
    <3> DEFINE F == Term(One, S)
               tF == Total(F)
    <3>1. F \in [Byte -> Byte] /\ F[u] = mul(WeightAmong(u)[S], One[u])
      BY <1>1, <2>1, TermFacts
    <3> HIDE DEF F
    <3>2. tF[{}] = 0 /\ \A s \in SUBSET Byte : \A e \in s : tF[s] = Xor(tF[s \ {e}], F[e])
      BY <3>1, TotalFacts
    <3> HIDE DEF tF
    <3>3. S \ {u} = {} /\ u \in Byte
      BY <2>2
    <3>4. tF[S] = Xor(0, F[u])
      BY <3>2, <3>3
    <3>5. WeightAmong(u)[S] = mul(WeightAmong(u)[{}], Factor(u, u)) /\ WeightAmong(u)[{}] = 1
      BY <3>3, WeightFacts
    <3>6. WeightAmong(u)[S] = 1 /\ F[u] = 1
      <4>1. WeightAmong(u)[S] = mul(1, 1)
        BY <3>5 DEF Factor
      <4>2. mul(1, 1) = 1
        BY XorFacts, MulFacts
      <4> QED
        BY <1>1, <3>1, <3>3, <4>1, <4>2
    <3> QED
      BY <3>4, <3>6, XorFacts DEF tF, F, Lagrange
  <2>3. CASE S # {u}
    <3>1. PICK v \in S : v # u
      BY <2>3
    <3> DEFINE l == Lagrange(One, S)
               c == Xor(1, l)
    <3>2. u \in Byte /\ v \in Byte /\ l \in Byte /\ c \in Byte
      BY <1>1, LagrangeOfBytes, XorFacts
    <3>3. Lagrange(One, S \ {u}) = 1 /\ Lagrange(One, S \ {v}) = 1
      <4>1. v \in S \ {u} /\ u \in S \ {v}
        BY <3>1
      <4>2. S \ {u} \in T /\ S \ {v} \in T
        BY <1>5
      <4> QED
        BY <4>1, <4>2
    <3>4. Lagrange(X, S) = mul(u, c) /\ Lagrange(X, S) = mul(v, c)
      BY <1>3, <3>3
    <3> HIDE DEF l, c
    <3>5. mul(c, u) = mul(c, v) /\ mul(c, v) \in Byte
      BY <3>2, <3>4, MulFacts
    <3>6. mul(c, Xor(u, v)) = 0
      BY <3>2, <3>5, Distributivity, XorFacts
    <3>7. Xor(u, v) \in Byte /\ Xor(u, v) # 0
      BY <3>1, <3>2, XorFacts, XorCancels
    <3>8. c = 0
      BY <3>2, <3>6, <3>7, MulFacts
    <3> QED
      BY <3>2, <3>8, XorFacts, XorCancels DEF c, l
  <2> QED
    BY <2>2, <2>3
<1>6. \A S \in SUBSET Byte : S \in T
  <2> HIDE DEF T
  <2> QED
    BY <1>4, <1>5, ByteByByte
<1> QED
  BY <1>6

----------------------------------------------------------------------------
(***************************************************************************)
(* 5. Polynomials: eval by its recursion, and what Lagrange's formula makes *)
(* of the values of a polynomial, by the number of its coefficients.       *)
(***************************************************************************)

\* The loop of eval keeps to bytes.
LEMMA EvalLoop ==
    ASSUME NEW q \in Seq(Byte), NEW y \in Byte
    PROVE  \E h \in [0 .. Len(q) -> Byte] :
               /\ h[0] = 0
               /\ \A i \in 1 .. Len(q) : h[i] = Xor(mul(h[i - 1], y), q[Len(q) + 1 - i])
               /\ eval(q, y) = h[Len(q)]
<1> DEFINE m == Len(q)
           next(i, v) == Xor(mul(v, y), q[Len(q) + 1 - i])
           Loop(f) == f = [i \in 0 .. m |-> IF i = 0 THEN 0 ELSE next(i, f[i - 1])]
           UpTo(f, i) == f \in [0 .. i -> Byte] /\ f[0] = 0
                         /\ \A j \in 1 .. i : f[j] = next(j, f[j - 1])
           T == {i \in 0 .. m : \E f : UpTo(f, i)}
<1>1. m \in Nat /\ 0 \in Byte
  BY LenProperties DEF Byte
<1>2. ASSUME NEW i \in 1 .. m, NEW v \in Byte PROVE next(i, v) \in Byte
  <2>1. m + 1 - i \in 1 .. m
    BY <1>1
  <2>2. q[m + 1 - i] \in Byte
    BY <2>1, ElementOfSeq
  <2>3. QED
    BY <2>2, MulFacts, XorOfBytes
<1> HIDE DEF next
<1>3. 0 \in T
  <2>1. UpTo([i \in 0 .. 0 |-> 0], 0)
    BY <1>1
  <2> HIDE DEF UpTo
  <2>2. QED
    BY <1>1, <2>1
<1>4. ASSUME NEW i \in 1 .. m, i - 1 \in T PROVE i \in T
  <2>1. PICK f : UpTo(f, i - 1)
    BY <1>4
  <2>2. m \in Nat /\ i \in Nat /\ i - 1 \in 0 .. i - 1
    BY <1>1
  <2> DEFINE v == next(i, f[i - 1])
             g == [j \in 0 .. i |-> IF j = i THEN v ELSE f[j]]
  <2>3. v \in Byte
    BY <1>2, <2>1, <2>2
  <2> HIDE DEF v
  <2>4. \A j \in 0 .. i : j = i \/ j \in 0 .. i - 1
    BY <2>2
  <2>5. g \in [0 .. i -> Byte]
    BY <2>1, <2>3, <2>4
  <2>6. g[i] = v /\ \A j \in 0 .. i - 1 : g[j] = f[j]
    BY <2>2
  <2> HIDE DEF g
  <2>7. g[0] = 0
    BY <2>1, <2>2, <2>6
  <2>8. ASSUME NEW j \in 1 .. i PROVE g[j] = next(j, g[j - 1])
    <3>1. j - 1 \in 0 .. i - 1
      BY <2>2
    <3>2. CASE j = i
      BY <2>6, <3>1, <3>2 DEF v
    <3>3. CASE j # i
      <4>1. j \in 1 .. i - 1 /\ j \in 0 .. i - 1
        BY <2>2, <3>3
      <4>2. QED
        BY <2>1, <2>6, <3>1, <4>1
    <3>4. QED
      BY <3>2, <3>3
  <2>9. UpTo(g, i)
    BY <2>5, <2>7, <2>8
  <2> HIDE DEF UpTo
  <2>10. QED
    BY <1>1, <2>9
<1>5. m \in T
  <2> HIDE DEF m, T
  <2>1. \A i \in 0 .. m : i \in T
    BY <1>1, <1>3, <1>4, StepByStep
  <2>2. QED
    BY <1>1, <2>1
<1>6. PICK f : UpTo(f, m)
  BY <1>5
<1>7. Loop(f)
  <2>1. \A i \in 0 .. m : f[i] = IF i = 0 THEN 0 ELSE next(i, f[i - 1])
    BY <1>1, <1>6
  <2>2. QED
    BY <1>6, <2>1
<1> DEFINE h == CHOOSE z : Loop(z)
<1>8. Loop(h)
  <2> HIDE DEF Loop
  <2>1. QED
    BY <1>7
<1>9. eval(q, y) = h[m]
  BY DEF eval, next
<1> HIDE DEF h
<1>10. h[0] = 0 /\ \A i \in 1 .. m : h[i] = next(i, h[i - 1])
  BY <1>1, <1>8
<1>11. \A i \in 0 .. m : h[i] \in Byte
  <2> DEFINE B == {i \in 0 .. m : h[i] \in Byte}
  <2>1. 0 \in B
    BY <1>1, <1>10
  <2>2. ASSUME NEW i \in 1 .. m, i - 1 \in B PROVE i \in B
    BY <1>2, <1>10, <2>2
  <2> HIDE DEF m, B
  <2>3. \A i \in 0 .. m : i \in B
    BY <1>1, <2>1, <2>2, StepByStep
  <2>4. QED
    BY <2>3 DEF B
<1>12. h = [i \in 0 .. m |-> h[i]]
  BY <1>8
<1>13. h \in [0 .. m -> Byte]
  BY <1>11, <1>12
<1>14. QED
  BY <1>9, <1>10, <1>13 DEF next

LEMMA EvalOfBytes ==
    ASSUME NEW q \in Seq(Byte), NEW y \in Byte
    PROVE  eval(q, y) \in Byte
<1>1. Len(q) \in 0 .. Len(q)
  BY LenProperties
<1> QED
  BY <1>1, EvalLoop

\* Horner's scheme from outside.
LEMMA EvalByTail ==
    ASSUME NEW q \in Seq(Byte), NEW y \in Byte
    PROVE  /\ q = <<>> => eval(q, y) = 0
           /\ q # <<>> => eval(q, y) = Xor(mul(y, eval(Tail(q), y)), q[1])
<1>1. ASSUME q = <<>> PROVE eval(q, y) = 0
  <2>1. Len(q) = 0
    BY <1>1
  <2> QED
    BY <2>1, EvalLoop
<1>2. ASSUME q # <<>> PROVE eval(q, y) = Xor(mul(y, eval(Tail(q), y)), q[1])
  <2> DEFINE m == Len(q)
             r == Tail(q)
  <2>1. /\ m \in Nat \ {0} /\ r \in Seq(Byte) /\ Len(r) = m - 1
        /\ \A i \in 1 .. m - 1 : r[i] = q[i + 1]
    BY <1>2, LenProperties, HeadTailProperties, EmptySeq
  <2> DEFINE IsLoop(h, s) ==
               /\ h \in [0 .. Len(s) -> Byte]
               /\ h[0] = 0
               /\ \A i \in 1 .. Len(s) : h[i] = Xor(mul(h[i - 1], y), s[Len(s) + 1 - i])
               /\ eval(s, y) = h[Len(s)]
  <2>2. PICK h : IsLoop(h, q)
    BY EvalLoop
  <2> HIDE DEF r
  <2>3. PICK g : IsLoop(g, r)
    BY <2>1, EvalLoop
  <2> DEFINE A == {i \in 0 .. m - 1 : h[i] = g[i]}
  <2>4. 0 \in A
    BY <2>1, <2>2, <2>3
  <2>5. ASSUME NEW i \in 1 .. m - 1, i - 1 \in A PROVE i \in A
    <3>1. i \in 1 .. m /\ m - i \in 1 .. m - 1 /\ i \in 1 .. Len(r) /\ i \in 0 .. m - 1
      BY <2>1
    <3>2. (m - 1) + 1 - i = m - i /\ m + 1 - i = (m - i) + 1
      BY <2>1
    <3>3. h[i] = Xor(mul(h[i - 1], y), q[(m - i) + 1])
      BY <2>2, <3>1, <3>2
    <3>4. g[i] = Xor(mul(g[i - 1], y), r[m - i])
      BY <2>1, <2>3, <3>1, <3>2
    <3>5. r[m - i] = q[(m - i) + 1]
      BY <2>1, <3>1
    <3> QED
      BY <2>5, <3>1, <3>3, <3>4, <3>5
  <2>6. h[m - 1] = g[m - 1]
    <3>1. m - 1 \in Nat
      BY <2>1
    <3> HIDE DEF A, m
    <3>2. \A i \in 0 .. m - 1 : i \in A
      BY <2>4, <2>5, <3>1, StepByStep
    <3>3. m - 1 \in A
      BY <3>1, <3>2
    <3> QED
      BY <3>3 DEF A
  <2>7. h[m] = Xor(mul(h[m - 1], y), q[1])
    <3>1. m \in 1 .. m /\ m + 1 - m = 1
      BY <2>1
    <3> QED
      BY <2>2, <3>1
  <2>8. eval(q, y) = h[m] /\ eval(r, y) = g[m - 1] /\ g[m - 1] \in Byte
    <3>1. m - 1 \in 0 .. m - 1
      BY <2>1
    <3> QED
      BY <2>1, <2>2, <2>3, <3>1
  <2>9. mul(g[m - 1], y) = mul(y, g[m - 1])
    BY <2>8, MulFacts
  <2> QED
    BY <2>6, <2>7, <2>8, <2>9 DEF r
<1> QED
  BY <1>1, <1>2

\* The values of a polynomial.
Values(q) == [a \in Byte |-> eval(q, a)]

LEMMA ValuesAreBytes ==
    ASSUME NEW q \in Seq(Byte)
    PROVE  /\ Values(q) \in [Byte -> Byte]
           /\ \A a \in Byte : Values(q)[a] = eval(q, a)
           /\ q = <<>> => Values(q) = Zero
<1>1. \A a \in Byte : eval(q, a) \in Byte /\ (q = <<>> => eval(q, a) = 0)
  BY EvalOfBytes, EvalByTail
<1>2. \A a \in Byte : Values(q)[a] = eval(q, a)
  BY DEF Values
<1>3. q = <<>> => Values(q) = Zero
  BY <1>1 DEF Values, Zero
<1> QED
  BY <1>1, <1>2, <1>3 DEF Values

\* One point and one coefficient less.
LEMMA LagrangeByTail ==
    ASSUME NEW q \in Seq(Byte), q # <<>>, NEW S \in SUBSET Byte, NEW u \in S
    PROVE  Lagrange(Values(q), S)
              = Xor(q[1], mul(u, Xor(Lagrange(Values(Tail(q)), S \ {u}),
                                     Lagrange(Values(Tail(q)), S))))
<1> DEFINE t == Tail(q)
           c == q[1]
           V == Values(q)
           R == Values(t)
           M == [a \in Byte |-> mul(a, R[a])]
<1>1. t \in Seq(Byte) /\ c \in Byte
  BY HeadTailProperties, EmptySeq, LenProperties, ElementOfSeq
<1>2. /\ V \in [Byte -> Byte] /\ R \in [Byte -> Byte]
      /\ \A a \in Byte : V[a] = eval(q, a) /\ R[a] = eval(t, a)
  BY <1>1, ValuesAreBytes
<1>3. M \in [Byte -> Byte] /\ \A a \in Byte : M[a] = mul(a, R[a])
  <2> HIDE DEF R
  <2>1. \A a \in Byte : mul(a, R[a]) \in Byte
    BY <1>2, MulFacts
  <2> QED
    BY <2>1
<1> HIDE DEF t, c, V, R, M
<1>4. One \in [Byte -> Byte] /\ \A a \in Byte : One[a] = 1
  BY XorFacts DEF One
<1>5. IsSum(V, c, One, M, S)
  <2>1. ASSUME NEW a \in S PROVE V[a] = Xor(mul(c, One[a]), M[a])
    <3>1. a \in Byte /\ M[a] \in Byte /\ M[a] = mul(a, eval(t, a))
      BY <1>2, <1>3
    <3>2. eval(q, a) = Xor(mul(a, eval(t, a)), c)
      BY <3>1, EvalByTail DEF t, c
    <3>3. V[a] = Xor(M[a], c)
      BY <1>2, <3>1, <3>2
    <3>4. mul(c, One[a]) = c
      BY <1>1, <1>4, <3>1, MulFacts
    <3> QED
      BY <1>1, <3>1, <3>3, <3>4, XorFacts
  <2> QED
    BY <2>1 DEF IsSum
<1>6. Lagrange(V, S) = Xor(mul(c, Lagrange(One, S)), Lagrange(M, S))
  BY <1>1, <1>2, <1>3, <1>4, <1>5, LagrangeIsLinear
<1>7. Lagrange(One, S) = 1 /\ mul(c, 1) = c
  <2>1. S # {}
    OBVIOUS
  <2> QED
    BY <1>1, <2>1, LagrangeOfOne, MulFacts
<1>8. Lagrange(M, S) = mul(u, Xor(Lagrange(R, S \ {u}), Lagrange(R, S)))
  <2>1. VanishesAt(0, M, R, S)
    BY <1>3, XorFacts DEF VanishesAt
  <2> QED
    BY <1>2, <1>3, <2>1, LagrangeOfMultiple
<1> QED
  BY <1>6, <1>7, <1>8 DEF t, c, V, R

\* As many points as a polynomial has coefficients, and any more, give its first one.
LEMMA PointsEnough ==
    \A q \in Seq(Byte) : \A S \in SUBSET Byte :
        q # <<>> /\ Cardinality(S) >= Len(q) => Lagrange(Values(q), S) = q[1]
<1> DEFINE Good(i) ==
               \A q \in Seq(Byte) : \A S \in SUBSET Byte :
                   q # <<>> /\ Len(q) = i /\ Cardinality(S) >= i
                   => Lagrange(Values(q), S) = q[1]
<1>1. Good(0)
  BY EmptySeq
<1>2. ASSUME NEW i \in Nat, i # 0, Good(i - 1) PROVE Good(i)
  <2> SUFFICES ASSUME NEW q \in Seq(Byte), NEW S \in SUBSET Byte,
                      q # <<>>, Len(q) = i, Cardinality(S) >= i
               PROVE  Lagrange(Values(q), S) = q[1]
    OBVIOUS
  <2> DEFINE t == Tail(q)
  <2>1. t \in Seq(Byte) /\ Len(t) = i - 1 /\ q[1] \in Byte
    BY HeadTailProperties, LenProperties, ElementOfSeq
  <2>2. S # {}
    BY <1>2, SetsOfBytes
  <2>3. PICK u \in S : TRUE
    BY <2>2
  <2>4. /\ u \in Byte /\ S \ {u} \in SUBSET Byte
        /\ Cardinality(S \ {u}) >= i - 1 /\ Cardinality(S) >= i - 1
    <3>1. Cardinality(S) \in Nat /\ Cardinality(S \ {u}) = Cardinality(S) - 1
      BY SetsOfBytes
    <3> QED
      BY <1>2, <3>1
  <2> DEFINE l == Lagrange(Values(t), S)
             m == Lagrange(Values(t), S \ {u})
  <2>5. l = m /\ l \in Byte
    <3>1. Values(t) \in [Byte -> Byte]
      BY <2>1, ValuesAreBytes
    <3>2. l \in Byte
      BY <3>1, LagrangeOfBytes
    <3>3. CASE t = <<>>
      <4>1. Values(t) = Zero
        BY <2>1, <3>3, ValuesAreBytes
      <4> QED
        BY <2>4, <3>2, <4>1, ZeroFacts
    <3>4. CASE t # <<>>
      BY <1>2, <2>1, <2>4, <3>2, <3>4
    <3> QED
      BY <3>3, <3>4
  <2>6. Lagrange(Values(q), S) = Xor(q[1], mul(u, Xor(m, l)))
    BY LagrangeByTail
  <2> HIDE DEF l, m
  <2>7. mul(u, Xor(m, l)) = 0
    BY <2>4, <2>5, XorFacts, MulFacts
  <2> QED
    BY <2>1, <2>6, <2>7, XorFacts
<1>3. \A i \in Nat : Good(i)
  <2> HIDE DEF Good
  <2> SUFFICES ASSUME NEW m \in Nat PROVE Good(m)
    OBVIOUS
  <2> DEFINE A == {i \in 0 .. m : Good(i)}
  <2>1. 0 \in A
    BY <1>1
  <2>2. ASSUME NEW i \in 1 .. m, i - 1 \in A PROVE i \in A
    BY <1>2, <2>2
  <2>3. \A i \in 0 .. m : i \in A
    <3> HIDE DEF A
    <3> QED
      BY <2>1, <2>2, StepByStep
  <2> QED
    BY <2>3
<1> QED
  BY <1>3, LenProperties

\* One point less, none of them 0, gives something else if the last coefficient is
\* not 0.
LEMMA OnePointShort ==
    \A q \in Seq(Byte) : \A S \in SUBSET Byte :
        q # <<>> /\ q[Len(q)] # 0 /\ 0 \notin S /\ Cardinality(S) = Len(q) - 1
        => Lagrange(Values(q), S) # q[1]
<1> DEFINE Good(i) ==
               \A q \in Seq(Byte) : \A S \in SUBSET Byte :
                   q # <<>> /\ Len(q) = i + 1 /\ q[Len(q)] # 0 /\ 0 \notin S
                   /\ Cardinality(S) = i
                   => Lagrange(Values(q), S) # q[1]
<1>1. Good(0)
  <2> SUFFICES ASSUME NEW q \in Seq(Byte), NEW S \in SUBSET Byte,
                      Len(q) = 1, q[Len(q)] # 0, Cardinality(S) = 0
               PROVE  Lagrange(Values(q), S) # q[1]
    OBVIOUS
  <2>1. S = {}
    BY SetsOfBytes
  <2>2. Lagrange(Values(q), {}) = 0
    <3>1. Values(q) \in [Byte -> Byte]
      BY ValuesAreBytes
    <3> QED
      BY <2>1, <3>1, LagrangeOfBytes
  <2> QED
    BY <2>1, <2>2
<1>2. ASSUME NEW i \in Nat, i # 0, Good(i - 1) PROVE Good(i)
  <2> SUFFICES ASSUME NEW q \in Seq(Byte), NEW S \in SUBSET Byte,
                      q # <<>>, Len(q) = i + 1, q[Len(q)] # 0, 0 \notin S,
                      Cardinality(S) = i
               PROVE  Lagrange(Values(q), S) # q[1]
    OBVIOUS
  <2> DEFINE t == Tail(q)
  <2>1. /\ t \in Seq(Byte) /\ Len(t) = i /\ q[1] \in Byte /\ t # <<>>
        /\ t[Len(t)] # 0 /\ t[1] \in Byte
    <3>1. t \in Seq(Byte) /\ Len(t) = i /\ \A j \in 1 .. i : t[j] = q[j + 1]
      BY HeadTailProperties, LenProperties
    <3>2. 1 \in 1 .. i /\ i \in 1 .. i /\ 1 \in 1 .. i + 1
      BY <1>2
    <3>3. t[1] \in Byte /\ q[1] \in Byte /\ t[i] = q[i + 1]
      BY <3>1, <3>2, ElementOfSeq
    <3>4. t # <<>>
      BY <1>2, <3>1
    <3> QED
      BY <3>1, <3>3, <3>4
  <2>2. S # {}
    BY <1>2, SetsOfBytes
  <2>3. PICK u \in S : TRUE
    BY <2>2
  <2>4. /\ u \in Byte /\ u # 0 /\ S \ {u} \in SUBSET Byte /\ 0 \notin S \ {u}
        /\ Cardinality(S \ {u}) = i - 1 /\ Cardinality(S) >= i
    <3>1. Cardinality(S) \in Nat /\ Cardinality(S \ {u}) = Cardinality(S) - 1
      BY SetsOfBytes
    <3> QED
      BY <1>2, <3>1
  <2> DEFINE l == Lagrange(Values(t), S)
             m == Lagrange(Values(t), S \ {u})
             d == Xor(m, l)
  <2>5. l = t[1]
    BY <2>1, <2>4, PointsEnough
  <2>6. m # t[1]
    <3>1. Len(t) = (i - 1) + 1
      BY <2>1
    <3> QED
      BY <1>2, <2>1, <2>4, <3>1
  <2>7. m \in Byte /\ l \in Byte
    <3>1. Values(t) \in [Byte -> Byte]
      BY <2>1, ValuesAreBytes
    <3> QED
      BY <2>4, <3>1, LagrangeOfBytes
  <2>8. Lagrange(Values(q), S) = Xor(q[1], mul(u, d))
    BY LagrangeByTail
  <2> HIDE DEF l, m
  <2>9. d \in Byte /\ d # 0
    <3> HIDE DEF Good, t
    <3>1. Xor(m, l) \in Byte
      BY <2>7, XorFacts
    <3>2. Xor(m, l) = 0 => m = l
      BY <2>7, XorCancels
    <3> QED
      BY <2>5, <2>6, <3>1, <3>2
  <2> HIDE DEF d
  <2>10. mul(u, d) \in Byte /\ mul(u, d) # 0
    BY <2>4, <2>9, MulFacts
  <2>11. Xor(q[1], Xor(q[1], mul(u, d))) = mul(u, d)
    BY <2>1, <2>10, XorCancels
  <2> QED
    BY <2>1, <2>8, <2>10, <2>11, XorFacts
<1>3. \A i \in Nat : Good(i)
  <2> HIDE DEF Good
  <2> SUFFICES ASSUME NEW m \in Nat PROVE Good(m)
    OBVIOUS
  <2> DEFINE A == {i \in 0 .. m : Good(i)}
  <2>1. 0 \in A
    BY <1>1
  <2>2. ASSUME NEW i \in 1 .. m, i - 1 \in A PROVE i \in A
    BY <1>2, <2>2
  <2>3. \A i \in 0 .. m : i \in A
    <3> HIDE DEF A
    <3> QED
      BY <2>1, <2>2, StepByStep
  <2> QED
    BY <2>3
<1>4. ASSUME NEW q \in Seq(Byte), q # <<>>
      PROVE  Len(q) - 1 \in Nat /\ Len(q) = (Len(q) - 1) + 1
  BY <1>4, LenProperties, EmptySeq
<1> HIDE DEF Good
<1>5. ASSUME NEW q \in Seq(Byte), NEW S \in SUBSET Byte,
             q # <<>>, q[Len(q)] # 0, 0 \notin S, Cardinality(S) = Len(q) - 1
      PROVE  Lagrange(Values(q), S) # q[1]
  <2>1. Good(Len(q) - 1)
    BY <1>3, <1>4, <1>5
  <2> QED
    BY <1>4, <1>5, <2>1 DEF Good
<1> QED
  BY <1>5

----------------------------------------------------------------------------
(***************************************************************************)
(* 6. The loops of Split: numbers and lengths of the shares.               *)
(***************************************************************************)

\* What the loops keep up about the parameters and the loop variable.
LoopsInRange ==
    /\ n \in Nat /\ n < 255 /\ k \in Nat /\ secret \in Seq(Byte)
    /\ done \in Nat /\ p \in Seq(Byte) /\ x \in Byte
    /\ pc \in {"next", "eval", "returned", "refused"}
    /\ pc = "eval" => 1 <= x /\ x <= n + 1 /\ Accepted
    /\ done > 0 => Accepted

\* The shares there are: all of them from the first byte on, and while the first
\* byte is shared out those below the loop variable.
SharesSoFar ==
    /\ \A y \in DOMAIN shares : shares[y] \in Seq(Byte)
    /\ SharesGrowTogether

IInv == LoopsInRange /\ SharesSoFar

\* A polynomial that generate answers is a sequence of bytes.
LEMMA PolynomialBytes ==
    ASSUME NEW s \in Byte, NEW degree \in Nat, NEW q \in Polynomials(s, degree)
    PROVE  q \in Seq(Byte)
<1>1. PICK rest \in [1 .. degree -> Coef] : q = <<s>> \o rest
  BY DEF Polynomials
<1>2. rest \in Seq(Byte)
  <2>1. rest \in [1 .. degree -> Byte]
    BY CoefAssumption
  <2>2. QED
    BY <2>1, IsASeq
<1>3. <<s>> \in Seq(Byte)
  OBVIOUS
<1>4. QED
  BY <1>1, <1>2, <1>3, ConcatProperties

\* Before the first byte there is no share.
LEMMA InitIInv == Init /\ n < 255 => IInv
<1> SUFFICES ASSUME Init, n < 255 PROVE IInv
  OBVIOUS
<1>1. n \in Byte /\ k \in Byte /\ secret \in Seq(Byte)
  BY CasesAssumption DEF Init
<1>2. LoopsInRange
  <2>1. n \in Nat /\ k \in Nat /\ 0 \in Byte /\ <<>> \in Seq(Byte)
    BY <1>1 DEF Byte
  <2>2. QED
    BY <1>1, <2>1 DEF Init, LoopsInRange
<1>3. DOMAIN shares = {}
  BY DEF Init
<1>4. SharesSoFar
  BY <1>3 DEF SharesSoFar, SharesGrowTogether, Share, Init
<1>5. QED
  BY <1>2, <1>4 DEF IInv

\* A step keeps the invariant; EvalShare is the one that writes.
LEMMA NextIInv == IInv /\ [Next]_vars => IInv'
<1> SUFFICES ASSUME IInv, [Next]_vars PROVE IInv'
  OBVIOUS
<1>0. n \in 0 .. 254 /\ k \in Nat /\ secret \in Seq(Byte)
  BY DEF IInv, LoopsInRange
<1>1. CASE Refuse
  BY <1>0, <1>1 DEF Refuse, args, SharesGrowTogether, Share, Accepted, IInv, LoopsInRange, SharesSoFar
<1>2. CASE RandomFails
  <2>1. DOMAIN shares' = {}
    BY <1>2 DEF RandomFails
  <2>2. SharesSoFar'
    BY <2>1, <1>2 DEF RandomFails, args, SharesGrowTogether, Share, SharesSoFar
  <2>3. LoopsInRange'
    BY <1>2 DEF RandomFails, args, Accepted, IInv, LoopsInRange
  <2>4. QED
    BY <2>2, <2>3 DEF IInv
<1>3. CASE Generate
  <2>1. secret[done + 1] \in Byte /\ k - 1 \in Nat
    BY <1>0, <1>3 DEF Generate, args, Accepted, IInv, LoopsInRange
  <2>2. p' \in Seq(Byte)
    BY <2>1, <1>3, PolynomialBytes DEF Generate
  <2>3. x' = 1 /\ 1 \in Byte
    BY <1>3 DEF Generate, args, FirstNumber, Byte
  <2>4. LoopsInRange'
    <3>1. 1 <= n + 1
      BY <1>0
    <3>2. UNCHANGED <<args, done>> /\ pc' = "eval" /\ Accepted /\ Accepted'
      BY <1>3 DEF Generate, args, Accepted
    <3>3. QED
      BY <1>3, <2>2, <2>3, <3>1, <3>2 DEF Generate, args, IInv, LoopsInRange
  <2>5. SharesSoFar'
    BY <1>0, <1>3, <2>3 DEF Generate, args, SharesGrowTogether, Share, IInv, SharesSoFar
  <2>6. QED
    BY <2>4, <2>5 DEF IInv
<1>4. CASE EvalShare
  <2>1. x \in 1 .. n /\ x' = x + 1 /\ x' \in Byte
    <3>1. x \in 0 .. 255 /\ 1 <= x /\ x <= n
      BY <1>4 DEF EvalShare, args, Byte, IInv, LoopsInRange
    <3>2. x \in 1 .. 254 /\ x \in 1 .. n
      BY <1>0, <3>1
    <3>3. x' = (x + 1) % 256
      BY <1>4 DEF EvalShare, args, NextNumber
    <3>4. QED
      BY <3>2, <3>3 DEF Byte
  <2>2. LoopsInRange'
    <3>1. 1 <= x' /\ x' <= n + 1
      BY <1>0, <2>1
    <3>2. UNCHANGED <<args, pc, done, p>> /\ pc = "eval" /\ Accepted /\ Accepted'
      BY <1>4 DEF EvalShare, args, Accepted, IInv, LoopsInRange
    <3>3. QED
      BY <2>1, <3>1, <3>2 DEF args, IInv, LoopsInRange
  <2>3. Share(x) \in Seq(Byte) /\ Len(Share(x)) = done
    <3>1. Len(Share(x)) = done
      <4>1. ~ (x < x)
        BY <2>1
      <4>2. QED
        BY <1>0, <2>1, <1>4, <4>1 DEF EvalShare, args, SharesGrowTogether, IInv, SharesSoFar
    <3>2. Share(x) \in Seq(Byte)
      BY DEF Share, IInv, SharesSoFar
    <3>3. QED
      BY <3>1, <3>2
  <2>4. eval(p, x) \in Byte
    BY EvalOfBytes DEF IInv, LoopsInRange
  <2>5. /\ Append(Share(x), eval(p, x)) \in Seq(Byte)
        /\ Len(Append(Share(x), eval(p, x))) = done + 1
    BY <2>3, <2>4, AppendProperties
  <2>6. /\ DOMAIN shares' = DOMAIN shares \cup {x}
        /\ shares'[x] = Append(Share(x), eval(p, x))
        /\ \A y \in DOMAIN shares \ {x} : shares'[y] = shares[y]
    BY <1>4 DEF EvalShare, args
  <2>7. DOMAIN shares' \subseteq 1 .. n'
    BY <1>0, <1>4, <2>1, <2>6 DEF EvalShare, args, IInv, SharesSoFar, SharesGrowTogether
  <2>8. \A y \in DOMAIN shares' : shares'[y] \in Seq(Byte)
    BY <2>5, <2>6 DEF IInv, SharesSoFar
  <2>9. ASSUME NEW y \in 1 .. n
        PROVE  Len(Share(y)') = IF y < x' THEN done' + 1 ELSE done'
    <3>1. CASE y = x
      BY <1>4, <2>1, <2>5, <2>6, <3>1 DEF EvalShare, args, Share
    <3>2. CASE y # x
      <4>1. Share(y)' = Share(y)
        BY <2>6, <3>2 DEF Share
      <4>2. Len(Share(y)) = IF y < x THEN done + 1 ELSE done
        BY <1>0, <1>4 DEF EvalShare, args, SharesGrowTogether, IInv, SharesSoFar
      <4>3. (y < x + 1) <=> (y < x)
        BY <2>1, <3>2, <1>0
      <4>4. QED
        BY <1>4, <2>1, <4>1, <4>2, <4>3 DEF EvalShare, args
    <3>3. QED
      BY <3>1, <3>2
  <2>10. pc' = "eval" /\ n' = n
    BY <1>4 DEF EvalShare, args
  <2>11. SharesGrowTogether'
    BY <2>7, <2>9, <2>10 DEF SharesGrowTogether
  <2>12. QED
    BY <2>2, <2>8, <2>11 DEF IInv, SharesSoFar
<1>5. CASE ByteDone
  <2>1. LoopsInRange'
    BY <1>0, <1>5 DEF ByteDone, args, Accepted, IInv, LoopsInRange
  <2>2. SharesSoFar'
    <3>1. x \in Int /\ \A y \in 1 .. n : y < x
      <4>1. x \in Int /\ x > n
        BY <1>5 DEF ByteDone, args, Byte, IInv, LoopsInRange
      <4>2. QED
        BY <1>0, <4>1
    <3>2. \A y \in 1 .. n : Len(Share(y)) = done + 1
      BY <1>0, <1>5, <3>1 DEF ByteDone, args, SharesGrowTogether, IInv, SharesSoFar
    <3>3. \A y : Share(y)' = Share(y)
      BY <1>5 DEF ByteDone, args, Share
    <3>4. SharesGrowTogether'
      BY <1>0, <1>5, <3>2, <3>3 DEF ByteDone, args, IInv, SharesSoFar, SharesGrowTogether
    <3>5. QED
      BY <1>5, <3>4 DEF ByteDone, args, IInv, SharesSoFar
  <2>3. QED
    BY <2>1, <2>2 DEF IInv
<1>6. CASE Return
  BY <1>0, <1>6 DEF Return, args, SharesGrowTogether, Share, Accepted, IInv, LoopsInRange, SharesSoFar
<1>7. CASE UNCHANGED vars
  BY <1>7 DEF vars, args, SharesGrowTogether, Share, Accepted, IInv, LoopsInRange, SharesSoFar
<1>8. QED
  BY <1>1, <1>2, <1>3, <1>4, <1>5, <1>6, <1>7 DEF Next

\* The counts that the proofs are about never change.
LEMMA CountIsConstant == [Next]_vars => n' = n
BY DEF Next, vars, args, Refuse, RandomFails, Generate, EvalShare, ByteDone, Return

LEMMA IInvCorrect == Spec => [](n < 255 => IInv)
<1>1. Init => (n < 255 => IInv)
  BY InitIInv
<1>2. (n < 255 => IInv) /\ [Next]_vars => (n < 255 => IInv)'
  BY NextIInv, CountIsConstant
<1>3. QED
  BY <1>1, <1>2, PTL DEF Spec

\* For every secret and every count below 255, whatever the random source delivers
\* or when it fails, no share is evaluated at 0, where the secret is, nor beyond
\* the count, and all have the same length when Split returns, that of the secret.
THEOREM LengthsCorrect == Spec => []SharesGrowTogether
<1>1. (n < 255 => IInv) => SharesGrowTogether
  BY DEF IInv, SharesSoFar, SharesGrowTogether
<1>2. QED
  BY <1>1, IInvCorrect, PTL

----------------------------------------------------------------------------
(***************************************************************************)
(* 7. Types, and the field as Split finds it.                              *)
(***************************************************************************)

\* The types, for every count.  A byte is in its inner loop only while there is one.
TypeInv ==
    /\ TypeOK
    /\ pc = "eval" => done < Len(secret)

LEMMA ArgumentBytes ==
    ASSUME TypeOK
    PROVE  /\ n \in Byte /\ k \in Byte /\ secret \in Seq(Byte) /\ Len(secret) \in Nat
           /\ done \in Nat /\ k \in Nat
<1>1. [n |-> n, k |-> k, secret |-> secret] \in [n : Byte, k : Byte, secret : Seq(Byte)]
  BY CasesAssumption DEF TypeOK
<1>2. n \in Byte /\ k \in Byte /\ secret \in Seq(Byte)
  BY <1>1
<1>3. Len(secret) \in Nat
  BY <1>2, LenProperties
<1>4. QED
  BY <1>2, <1>3 DEF TypeOK, Byte

LEMMA InitTypes == Init => TypeInv
<1> SUFFICES ASSUME Init PROVE TypeInv
  OBVIOUS
<1>1. PICK c \in Cases : n = c.n /\ k = c.k /\ secret = c.secret
  BY DEF Init
<1>2. c \in [n : Byte, k : Byte, secret : Seq(Byte)]
  BY CasesAssumption
<1>3. c = [n |-> n, k |-> k, secret |-> secret]
  BY <1>1, <1>2
<1>4. Len(secret) \in Nat
  BY <1>1, <1>2, LenProperties
<1>5. QED
  BY <1>3, <1>4 DEF Init, TypeInv, TypeOK, Byte

\* What generate answers has k coefficients, the byte of the secret among them.
LEMMA PolynomialLength ==
    ASSUME NEW s \in Byte, NEW degree \in Nat, NEW q \in Polynomials(s, degree)
    PROVE  Len(q) = degree + 1
<1>1. PICK rest \in [1 .. degree -> Coef] : q = <<s>> \o rest
  BY DEF Polynomials
<1>2. rest \in Seq(Byte) /\ Len(rest) = degree
  <2>1. rest \in [1 .. degree -> Byte]
    BY CoefAssumption
  <2>2. rest \in Seq(Byte)
    BY <2>1, IsASeq
  <2>3. QED
    BY <2>1, <2>2, LenProperties
<1>3. <<s>> \in Seq(Byte) /\ Len(<<s>>) = 1
  OBVIOUS
<1>4. QED
  BY <1>1, <1>2, <1>3, ConcatProperties

LEMMA NextTypes == TypeInv /\ [Next]_vars => TypeInv'
<1> SUFFICES ASSUME TypeInv, [Next]_vars PROVE TypeInv'
  OBVIOUS
<1>0. /\ n \in Byte /\ k \in Byte /\ secret \in Seq(Byte) /\ Len(secret) \in Nat
      /\ done \in Nat /\ k \in Nat
  BY ArgumentBytes DEF TypeInv
<1>1. CASE Refuse
  BY <1>1 DEF Refuse, args, TypeInv, TypeOK
<1>2. CASE RandomFails
  BY <1>2 DEF RandomFails, args, TypeInv, TypeOK
<1>3. CASE Generate
  <2>1. secret[done + 1] \in Byte /\ k - 1 \in Nat
    <3>1. done + 1 \in 1 .. Len(secret) /\ k > 1
      BY <1>0, <1>3 DEF Generate, Accepted
    <3>2. QED
      BY <1>0, <3>1, ElementOfSeq
  <2>2. p' \in Seq(Byte) /\ Len(p') = k - 1 + 1
    BY <1>3, <2>1, PolynomialBytes, PolynomialLength DEF Generate
  <2>3. Len(p') = k
    BY <1>0, <2>2
  <2>4. x' \in Byte
    BY <1>3 DEF Generate, FirstNumber, Byte
  <2>5. QED
    BY <1>3, <2>2, <2>3, <2>4 DEF Generate, args, TypeInv, TypeOK
<1>4. CASE EvalShare
  <2>1. p \in Seq(Byte) /\ x \in Byte /\ DOMAIN shares \subseteq Byte
    BY DEF TypeInv, TypeOK
  <2>2. x' \in Byte
    <3>1. x + 1 \in Nat
      BY <2>1 DEF Byte
    <3>2. (x + 1) % 256 \in 0 .. 255
      BY <3>1
    <3>3. QED
      BY <1>4, <3>2 DEF EvalShare, NextNumber, Byte
  <2>3. eval(p, x) \in Byte
    BY <2>1, EvalOfBytes
  <2>4. Share(x) \in Seq(Byte)
    BY DEF Share, TypeInv, TypeOK
  <2>5. Append(Share(x), eval(p, x)) \in Seq(Byte)
    BY <2>3, <2>4, AppendProperties
  <2>6. /\ DOMAIN shares' = DOMAIN shares \cup {x}
        /\ shares'[x] = Append(Share(x), eval(p, x))
        /\ \A y \in DOMAIN shares \ {x} : shares'[y] = shares[y]
    BY <1>4 DEF EvalShare
  <2>7. \A y \in DOMAIN shares' : shares'[y] \in Seq(Byte)
    BY <2>5, <2>6 DEF TypeInv, TypeOK
  <2>8. DOMAIN shares' \subseteq Byte
    BY <2>1, <2>6
  <2>9. UNCHANGED <<n, k, secret, pc, done, p>>
    BY <1>4 DEF EvalShare, args
  <2>10. QED
    BY <2>2, <2>7, <2>8, <2>9 DEF TypeInv, TypeOK
<1>5. CASE ByteDone
  <2>1. done' \in 0 .. Len(secret)
    BY <1>0, <1>5 DEF ByteDone, TypeInv
  <2>2. QED
    BY <1>5, <2>1 DEF ByteDone, args, TypeInv, TypeOK
<1>6. CASE Return
  BY <1>6 DEF Return, args, TypeInv, TypeOK
<1>7. CASE UNCHANGED vars
  BY <1>7 DEF vars, args, TypeInv, TypeOK
<1>8. QED
  BY <1>1, <1>2, <1>3, <1>4, <1>5, <1>6, <1>7 DEF Next

\* For every secret, every counts and any coefficients: the loop variable stays a
\* byte, every polynomial has k coefficients, the tables are never read out of range
\* and what is computed with them are bytes, so that shares are what Combine takes.
THEOREM TypeCorrect == Spec => []TypeOK
<1>1. TypeInv => TypeOK
  BY DEF TypeInv
<1>2. QED
  BY <1>1, InitTypes, NextTypes, PTL DEF Spec

\* Before the call begins, the tables are compared with the definition of the field:
\* they agree for every byte, since exp and log are inverse to each other, 3 times a
\* byte is the next entry of exp, and multiplication by 3 respects sums.
THEOREM FieldCorrect == Spec => []TablesAreTheField
<1>1. TypeOK => TablesAreTheField
  <2> SUFFICES ASSUME TypeOK, secret # <<>>, NEW b \in Byte
               PROVE  /\ mul(secret[1], b) = Product(secret[1], b)
                      /\ b # 0 => mul(div(secret[1], b), b) = secret[1]
    BY DEF TablesAreTheField
  <2>1. secret[1] \in Byte
    <3>1. secret \in Seq(Byte) /\ Len(secret) \in Nat
      BY ArgumentBytes
    <3>2. 1 \in 1 .. Len(secret)
      BY <3>1, EmptySeq, LenProperties
    <3> QED
      BY <3>1, <3>2, ElementOfSeq
  <2> QED
    BY <2>1, MulIsProduct, DivFacts
<1> QED
  BY <1>1, TypeCorrect, PTL

----------------------------------------------------------------------------
(***************************************************************************)
(* 8. What the shares hold, and what Combine makes of them.                *)
(***************************************************************************)

\* A polynomial of generate: the byte of the secret first, the last coefficient not 0.
LEMMA PolynomialEnds ==
    ASSUME NEW s \in Byte, NEW degree \in Nat \ {0}, NEW q \in Polynomials(s, degree)
    PROVE  q[1] = s /\ q[Len(q)] # 0 /\ q # <<>>
<1>1. PICK rest \in [1 .. degree -> Coef] : q = <<s>> \o rest /\ rest[degree] # 0
  BY DEF Polynomials
<1>2. rest \in Seq(Byte) /\ Len(rest) = degree
  <2>1. rest \in [1 .. degree -> Byte]
    BY CoefAssumption
  <2>2. rest \in Seq(Byte)
    BY <2>1, IsASeq
  <2> QED
    BY <2>1, <2>2, LenProperties
<1>3. <<s>> \in Seq(Byte) /\ Len(<<s>>) = 1 /\ <<s>>[1] = s
  OBVIOUS
<1>4. /\ Len(q) = degree + 1
      /\ \A i \in 1 .. degree + 1 : q[i] = IF i <= 1 THEN <<s>>[i] ELSE rest[i - 1]
  BY <1>1, <1>2, <1>3, ConcatProperties
<1>5. q[1] = s /\ q[degree + 1] = rest[degree]
  <2>1. 1 \in 1 .. degree + 1 /\ degree + 1 \in 1 .. degree + 1 /\ ~ (degree + 1 <= 1)
    OBVIOUS
  <2> QED
    BY <1>3, <1>4, <2>1
<1>6. q # <<>>
  BY <1>4
<1> QED
  BY <1>1, <1>4, <1>5, <1>6

\* What the shares hold at a byte of the secret are the values of one polynomial.
Shared(i) == \E q \in Polynomials(secret[i], k - 1) :
                 \A y \in DOMAIN shares : shares[y][i] = eval(q, y)

\* So it is at all bytes that are done, and below the loop variable at the byte at
\* hand.  With 255 shares no byte is ever done.
OnPolynomials ==
    /\ pc = "eval" =>
          /\ p \in Polynomials(secret[done + 1], k - 1)
          /\ \A y \in DOMAIN shares : y < x => shares[y][done + 1] = eval(p, y)
    /\ \A i \in 1 .. done : Shared(i)

SInv ==
    /\ n < 255 => OnPolynomials
    /\ n = 255 => done = 0
    /\ pc = "returned" => done = Len(secret) /\ Accepted

LEMMA InitSInv == Init => SInv
BY DEF Init, SInv, OnPolynomials

\* EvalShare leaves the values of earlier bytes alone and adds one of the polynomial at
\* hand.
LEMMA EvalKeepsShares ==
    ASSUME IInv, n < 255, OnPolynomials, EvalShare
    PROVE  OnPolynomials'
<1>1. /\ n \in 0 .. 254 /\ x \in 1 .. n /\ x' = x + 1 /\ done \in Nat
      /\ pc = "eval" /\ pc' = "eval" /\ UNCHANGED <<n, k, secret, done, p>>
  <2>1. x \in 0 .. 255 /\ 1 <= x /\ x <= n /\ n \in Nat /\ done \in Nat
    BY DEF EvalShare, args, Byte, IInv, LoopsInRange
  <2>2. x' = (x + 1) % 256
    BY DEF EvalShare, NextNumber
  <2>3. x \in 1 .. 254 /\ n \in 0 .. 254
    BY <2>1
  <2>4. x' = x + 1
    BY <2>2, <2>3
  <2> QED
    BY <2>1, <2>3, <2>4 DEF EvalShare, args
<1>2. Share(x) \in Seq(Byte) /\ Len(Share(x)) = done
  <2>1. ~ (x < x)
    BY <1>1
  <2>2. Len(Share(x)) = done
    BY <1>1, <2>1 DEF SharesGrowTogether, IInv, SharesSoFar
  <2> QED
    BY <2>2 DEF Share, IInv, SharesSoFar
<1>3. eval(p, x) \in Byte
  BY EvalOfBytes DEF IInv, LoopsInRange
<1> DEFINE z == Append(Share(x), eval(p, x))
<1>4. z[done + 1] = eval(p, x) /\ \A i \in 1 .. done : z[i] = Share(x)[i]
  BY <1>2, <1>3, AppendProperties
<1>5. /\ DOMAIN shares' = DOMAIN shares \cup {x} /\ shares'[x] = z
      /\ \A y \in DOMAIN shares \ {x} : shares'[y] = shares[y]
  BY DEF EvalShare
<1> HIDE DEF z
<1>6. p \in Polynomials(secret[done + 1], k - 1)
  BY <1>1 DEF OnPolynomials
<1>7. ASSUME NEW y \in DOMAIN shares', y < x'
      PROVE  shares'[y][done + 1] = eval(p, y)
  <2>1. CASE y = x
    BY <1>4, <1>5, <2>1
  <2>2. CASE y # x
    <3>1. y \in DOMAIN shares /\ shares'[y] = shares[y]
      BY <1>5, <2>2
    <3>2. y < x
      <4>1. y \in 1 .. n
        BY <3>1 DEF IInv, SharesSoFar, SharesGrowTogether
      <4> QED
        BY <1>1, <1>7, <2>2, <4>1
    <3> QED
      BY <1>1, <3>1, <3>2 DEF OnPolynomials
  <2> QED
    BY <2>1, <2>2
<1>8. ASSUME NEW i \in 1 .. done PROVE Shared(i)'
  <2>1. PICK q \in Polynomials(secret[i], k - 1) :
               \A y \in DOMAIN shares : shares[y][i] = eval(q, y)
    BY DEF OnPolynomials, Shared
  <2>2. ASSUME NEW y \in DOMAIN shares' PROVE shares'[y][i] = eval(q, y)
    <3>1. CASE y = x
      <4>1. x \in DOMAIN shares
        <5>1. Share(x) # <<>>
          BY <1>1, <1>2
        <5> QED
          BY <5>1 DEF Share
      <4>2. z[i] = shares[x][i]
        BY <1>4, <4>1 DEF Share
      <4> QED
        BY <1>5, <2>1, <3>1, <4>1, <4>2
    <3>2. CASE y # x
      BY <1>5, <2>1, <3>2
    <3> QED
      BY <3>1, <3>2
  <2> QED
    BY <1>1, <2>2 DEF Shared
<1> QED
  BY <1>1, <1>6, <1>7, <1>8 DEF OnPolynomials

LEMMA NextSInv ==
    ASSUME TypeInv, n < 255 => IInv, SInv, [Next]_vars
    PROVE  SInv'
<1>0. n \in 0 .. 255 /\ n' = n /\ done \in Nat
  BY ArgumentBytes, CountIsConstant DEF TypeInv, Byte
<1>1. CASE Refuse
  BY <1>1 DEF Refuse, args, SInv, OnPolynomials, Shared, Accepted
<1>2. CASE RandomFails
  <2>1. DOMAIN shares' = {}
    BY <1>2 DEF RandomFails
  <2>2. ASSUME n < 255, NEW i \in 1 .. done PROVE Shared(i)'
    <3>1. PICK q \in Polynomials(secret[i], k - 1) : TRUE
      BY <2>2 DEF SInv, OnPolynomials, Shared
    <3> QED
      BY <1>2, <2>1, <3>1 DEF RandomFails, args, Shared
  <2> QED
    BY <1>2, <2>2 DEF RandomFails, args, SInv, OnPolynomials, Accepted
<1>3. CASE Generate
  <2>1. ASSUME n < 255 PROVE OnPolynomials'
    <3>1. \A y \in DOMAIN shares : ~ (y < 1)
      <4>1. DOMAIN shares \subseteq 1 .. n
        BY <2>1 DEF IInv, SharesSoFar, SharesGrowTogether
      <4> QED
        BY <1>0, <4>1
    <3>2. \A i \in 1 .. done : Shared(i)' = Shared(i)
      BY <1>3 DEF Generate, args, Shared
    <3> QED
      BY <1>3, <2>1, <3>1, <3>2 DEF Generate, args, FirstNumber, SInv, OnPolynomials
  <2> QED
    BY <1>0, <1>3, <2>1 DEF Generate, args, SInv
<1>4. CASE EvalShare
  <2>1. n < 255 => OnPolynomials'
    BY <1>4, EvalKeepsShares DEF SInv
  <2> QED
    BY <1>0, <1>4, <2>1 DEF EvalShare, args, SInv
<1>5. CASE ByteDone
  <2>1. n < 255
    <3>1. x \in 0 .. 255 /\ x > n
      BY <1>5 DEF ByteDone, TypeInv, TypeOK, Byte
    <3> QED
      BY <1>0, <3>1
  <2>2. done' = done + 1 /\ pc = "eval" /\ pc' = "next" /\ UNCHANGED <<n, k, secret, p, shares>>
    BY <1>5 DEF ByteDone, args
  <2>3. ASSUME NEW i \in 1 .. done + 1 PROVE Shared(i)'
    <3>1. CASE i \in 1 .. done
      <4>1. Shared(i)
        BY <2>1, <3>1 DEF SInv, OnPolynomials
      <4> QED
        BY <2>2, <4>1 DEF Shared
    <3>2. CASE i = done + 1
      <4>1. \A y \in DOMAIN shares : y < x
        <5>1. DOMAIN shares \subseteq 1 .. n /\ x \in Int /\ x > n
          BY <1>5, <2>1 DEF ByteDone, TypeInv, TypeOK, Byte, IInv, SharesSoFar, SharesGrowTogether
        <5> QED
          BY <1>0, <5>1
      <4>2. /\ p \in Polynomials(secret[done + 1], k - 1)
            /\ \A y \in DOMAIN shares : shares[y][done + 1] = eval(p, y)
        BY <2>1, <2>2, <4>1 DEF SInv, OnPolynomials
      <4> QED
        BY <2>2, <3>2, <4>2 DEF Shared
    <3> QED
      BY <1>0, <3>1, <3>2
  <2> QED
    BY <1>0, <2>1, <2>2, <2>3 DEF SInv, OnPolynomials
<1>6. CASE Return
  BY <1>0, <1>6 DEF Return, args, SInv, OnPolynomials, Shared, Accepted
<1>7. CASE UNCHANGED vars
  BY <1>7 DEF vars, args, SInv, OnPolynomials, Shared, Accepted
<1> QED
  BY <1>1, <1>2, <1>3, <1>4, <1>5, <1>6, <1>7 DEF Next

LEMMA SInvCorrect == Spec => [](TypeInv /\ (n < 255 => IInv) /\ SInv)
<1>1. Init => TypeInv /\ (n < 255 => IInv) /\ SInv
  BY InitTypes, InitIInv, InitSInv
<1>2. TypeInv /\ (n < 255 => IInv) /\ SInv /\ [Next]_vars
          => (TypeInv /\ (n < 255 => IInv) /\ SInv)'
  BY NextTypes, NextIInv, CountIsConstant, NextSInv
<1> QED
  BY <1>1, <1>2, PTL DEF Spec

\* What the shares are when Split returns.
LEMMA WhatIsReturned ==
    ASSUME TypeInv, n < 255 => IInv, SInv, Returned
    PROVE  /\ DOMAIN shares \in SUBSET Byte /\ 0 \notin DOMAIN shares
           /\ k \in Nat /\ k > 1
           /\ secret \in Seq(Byte) /\ Len(secret) \in Nat
           /\ \A y \in DOMAIN shares : Len(shares[y]) = Len(secret)
           /\ \A i \in 1 .. Len(secret) : Shared(i)
<1>1. /\ n \in Byte /\ k \in Nat /\ secret \in Seq(Byte) /\ Len(secret) \in Nat
      /\ pc = "returned" /\ secret # <<>> /\ done = Len(secret) /\ k > 1
      /\ DOMAIN shares \in SUBSET Byte
  BY ArgumentBytes DEF TypeInv, TypeOK, SInv, Returned, Accepted
<1>2. done # 0
  BY <1>1, EmptySeq
<1>3. n < 255
  <2>1. n # 255
    BY <1>2 DEF SInv
  <2> QED
    BY <1>1, <2>1 DEF Byte
<1>4. DOMAIN shares \subseteq 1 .. n /\ \A y \in 1 .. n : Len(Share(y)) = done
  BY <1>1, <1>3 DEF IInv, SharesSoFar, SharesGrowTogether
<1>5. 0 \notin DOMAIN shares
  BY <1>4
<1>6. ASSUME NEW y \in DOMAIN shares PROVE Len(shares[y]) = Len(secret)
  BY <1>1, <1>4 DEF Share
<1>7. \A i \in 1 .. Len(secret) : Shared(i)
  BY <1>1, <1>3 DEF SInv, OnPolynomials
<1> QED
  BY <1>1, <1>5, <1>6, <1>7

\* Combine makes of any shares, at each byte, what Lagrange makes of its polynomial.
LEMMA CombineByBytes ==
    ASSUME TypeInv, n < 255 => IInv, SInv, Returned,
           NEW S \in SUBSET DOMAIN shares, S # {}
    PROVE  /\ S \in SUBSET Byte
           /\ Combine(SharesAt(S)) = [i \in 1 .. Len(secret) |-> Combine(SharesAt(S))[i]]
           /\ \A i \in 1 .. Len(secret) :
                 \E q \in Polynomials(secret[i], k - 1) :
                    q \in Seq(Byte) /\ Combine(SharesAt(S))[i] = Lagrange(Values(q), S)
<1> DEFINE some == SharesAt(S)
           points(i) == [y \in DOMAIN some |-> some[y][i]]
<1>1. /\ DOMAIN shares \in SUBSET Byte /\ k \in Nat /\ k > 1
      /\ secret \in Seq(Byte) /\ Len(secret) \in Nat
      /\ \A y \in DOMAIN shares : Len(shares[y]) = Len(secret)
      /\ \A i \in 1 .. Len(secret) : Shared(i)
  BY WhatIsReturned
<1>2. S \in SUBSET Byte
  BY <1>1
<1>3. DOMAIN some = S /\ \A y \in S : some[y] = shares[y]
  BY DEF SharesAt
<1> HIDE DEF some
<1>4. Combine(some) = [i \in 1 .. Len(secret) |-> interpolate(points(i), 0)]
  <2> DEFINE c == CHOOSE y \in DOMAIN some : TRUE
  <2>1. c \in S
    BY <1>3
  <2>2. Len(some[c]) = Len(secret)
    BY <1>1, <1>3, <2>1
  <2> QED
    BY <1>3, <2>2 DEF Combine
<1>5. ASSUME NEW i \in 1 .. Len(secret)
      PROVE  \E q \in Polynomials(secret[i], k - 1) :
                q \in Seq(Byte) /\ Combine(some)[i] = Lagrange(Values(q), S)
  <2>1. PICK q \in Polynomials(secret[i], k - 1) :
               \A y \in DOMAIN shares : shares[y][i] = eval(q, y)
    BY <1>1 DEF Shared
  <2>2. q \in Seq(Byte)
    <3>1. secret[i] \in Byte /\ k - 1 \in Nat
      BY <1>1, ElementOfSeq
    <3> QED
      BY <3>1, PolynomialBytes
  <2> DEFINE z == points(i)
  <2>3. Combine(some)[i] = interpolate(z, 0)
    BY <1>4
  <2>4. DOMAIN z = S /\ \A y \in S : z[y] = shares[y][i]
    BY <1>3
  <2> HIDE DEF z
  <2>5. Values(q) \in [Byte -> Byte] /\ \A a \in Byte : Values(q)[a] = eval(q, a)
    BY <2>2, ValuesAreBytes
  <2>6. \A y \in DOMAIN z : z[y] = Values(q)[y]
    BY <1>2, <2>1, <2>4, <2>5
  <2>7. interpolate(z, 0) = Lagrange(Values(q), DOMAIN z)
    BY <1>2, <2>4, <2>5, <2>6, InterpolateAtZero
  <2> QED
    BY <2>2, <2>3, <2>4, <2>7
<1>6. Combine(some) = [i \in 1 .. Len(secret) |-> Combine(some)[i]]
  BY <1>4
<1> QED
  BY <1>2, <1>5, <1>6 DEF some

\* sss.go:7-8, for every secret, count, threshold and random source: from k shares
\* on, whichever they are, Combine gives back the secret.
THEOREM ThresholdCorrect == Spec => []ThresholdRecovers
<1>1. ASSUME TypeInv, n < 255 => IInv, SInv PROVE ThresholdRecovers
  <2> SUFFICES ASSUME Returned, NEW S \in SUBSET DOMAIN shares, Cardinality(S) >= k
               PROVE  Combine(SharesAt(S)) = secret
    BY DEF ThresholdRecovers
  <2>1. /\ DOMAIN shares \in SUBSET Byte /\ k \in Nat /\ k > 1
        /\ secret \in Seq(Byte) /\ Len(secret) \in Nat
    BY <1>1, WhatIsReturned
  <2>2. S # {}
    BY <2>1, SetsOfBytes
  <2>3. /\ S \in SUBSET Byte
        /\ Combine(SharesAt(S)) = [i \in 1 .. Len(secret) |-> Combine(SharesAt(S))[i]]
        /\ \A i \in 1 .. Len(secret) :
              \E q \in Polynomials(secret[i], k - 1) :
                 q \in Seq(Byte) /\ Combine(SharesAt(S))[i] = Lagrange(Values(q), S)
    BY <1>1, <2>2, CombineByBytes
  <2>4. ASSUME NEW i \in 1 .. Len(secret) PROVE Combine(SharesAt(S))[i] = secret[i]
    <3>1. PICK q \in Polynomials(secret[i], k - 1) :
                 q \in Seq(Byte) /\ Combine(SharesAt(S))[i] = Lagrange(Values(q), S)
      BY <2>3
    <3>2. secret[i] \in Byte /\ k - 1 \in Nat \ {0} /\ (k - 1) + 1 = k /\ k - 1 \in Nat
      BY <2>1, ElementOfSeq
    <3>3. q[1] = secret[i] /\ q # <<>> /\ Len(q) = k
      BY <3>2, PolynomialEnds, PolynomialLength
    <3>4. Lagrange(Values(q), S) = q[1]
      BY <2>3, <3>1, <3>3, PointsEnough
    <3> QED
      BY <3>1, <3>3, <3>4
  <2>5. secret = [i \in 1 .. Len(secret) |-> secret[i]]
    BY <2>1, LenProperties
  <2> QED
    BY <2>3, <2>4, <2>5
<1>2. TypeInv /\ (n < 255 => IInv) /\ SInv => ThresholdRecovers
  BY <1>1
<1> QED
  BY <1>2, SInvCorrect, PTL

\* sss.go:31-32, likewise: one share less than k gives another value at every byte of
\* the secret.
THEOREM OneShortCorrect == Spec => []OneShortIsWrong
<1>1. ASSUME TypeInv, n < 255 => IInv, SInv PROVE OneShortIsWrong
  <2> SUFFICES ASSUME Returned, NEW S \in kSubset(k - 1, DOMAIN shares),
                      NEW i \in 1 .. Len(secret)
               PROVE  Combine(SharesAt(S))[i] # secret[i]
    BY DEF OneShortIsWrong
  <2>1. S \in SUBSET DOMAIN shares /\ Cardinality(S) = k - 1
    BY DEF kSubset
  <2>2. /\ DOMAIN shares \in SUBSET Byte /\ 0 \notin DOMAIN shares /\ k \in Nat /\ k > 1
        /\ secret \in Seq(Byte) /\ Len(secret) \in Nat
    BY <1>1, WhatIsReturned
  <2>3. S # {}
    BY <2>1, <2>2, SetsOfBytes
  <2>4. /\ S \in SUBSET Byte
        /\ \E q \in Polynomials(secret[i], k - 1) :
              q \in Seq(Byte) /\ Combine(SharesAt(S))[i] = Lagrange(Values(q), S)
    BY <1>1, <2>1, <2>3, CombineByBytes
  <2>5. PICK q \in Polynomials(secret[i], k - 1) :
               q \in Seq(Byte) /\ Combine(SharesAt(S))[i] = Lagrange(Values(q), S)
    BY <2>4
  <2>6. secret[i] \in Byte /\ k - 1 \in Nat \ {0} /\ (k - 1) + 1 = k /\ k - 1 \in Nat
    BY <2>2, ElementOfSeq
  <2>7. q[1] = secret[i] /\ q[Len(q)] # 0 /\ q # <<>> /\ Len(q) = k
    BY <2>6, PolynomialEnds, PolynomialLength
  <2>8. Lagrange(Values(q), S) # q[1]
    BY <2>1, <2>2, <2>4, <2>5, <2>7, OnePointShort
  <2> QED
    BY <2>5, <2>7, <2>8
<1>2. TypeInv /\ (n < 255 => IInv) /\ SInv => OneShortIsWrong
  BY <1>1
<1> QED
  BY <1>2, SInvCorrect, PTL

\* sss.go:72: with n = 255 the condition x <= n holds for every byte x, so Split comes
\* to the end of no byte of the secret.
NoByteIsDone == n = 255 => done = 0

THEOREM WrapCorrect == Spec => []NoByteIsDone
<1>1. SInv => NoByteIsDone
  BY DEF SInv, NoByteIsDone
<1> QED
  BY <1>1, SInvCorrect, PTL
============================================================================
