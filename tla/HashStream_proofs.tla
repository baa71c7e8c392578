-------------------------- MODULE HashStream_proofs --------------------------
(* For every block size, word size and message, cut in any way: the digest   *)
(* is that of the padded message.                                            *)
EXTENDS HashStream, SequenceTheorems, TLAPS

(***************************************************************************)
(* Arithmetic.                                                             *)
(***************************************************************************)
LEMMA DivMod ==
  ASSUME NEW x \in Nat, NEW U \in Nat \ {0}
  PROVE  x \div U \in Nat /\ x % U \in 0..U - 1 /\ x = U * (x \div U) + (x % U)
  OBVIOUS

LEMMA DivUnique ==
  ASSUME NEW x \in Nat, NEW U \in Nat \ {0}, NEW q \in Nat, NEW r \in 0..U - 1, x = U * q + r
  PROVE  x \div U = q /\ x % U = r
  OBVIOUS

LEMMA Products ==
  ASSUME NEW i \in Nat, NEW n \in Nat, NEW b \in Nat
  PROVE  /\ n * b \in Nat /\ (n + i) * b = n * b + i * b /\ (n + 1) * b = n * b + b
         /\ (i - 1) * b = i * b - b /\ b * n = n * b
         /\ (i <= n => i * b <= n * b)
  OBVIOUS

(* Taking a sum modulo U, one part may be taken modulo U first.             *)
LEMMA ModSum ==
  ASSUME NEW x \in Nat, NEW y \in Nat, NEW U \in Nat \ {0}
  PROVE  ((x % U) + y) % U = (x + y) % U
<1>1. PICK q, r : q = x \div U /\ r = x % U
  OBVIOUS
<1>2. q \in Nat /\ r \in 0..U - 1 /\ x = U * q + r
  BY <1>1, DivMod
<1>3. PICK p, s : p = (r + y) \div U /\ s = (r + y) % U
  OBVIOUS
<1>4. p \in Nat /\ s \in 0..U - 1 /\ r + y = U * p + s
  <2>1. r + y \in Nat
    BY <1>2
  <2> QED
    BY <1>3, <2>1, DivMod
<1>5. x + y = U * (q + p) + s
  <2>1. U * (q + p) = U * q + U * p
    BY <1>2, <1>4
  <2>2. U * q \in Nat /\ U * p \in Nat
    BY <1>2, <1>4
  <2> QED
    BY <1>2, <1>4, <2>1, <2>2
<1>6. (x + y) % U = s
  <2>1. x + y \in Nat /\ q + p \in Nat
    BY <1>2, <1>4
  <2> QED
    BY <1>4, <1>5, <2>1, DivUnique
<1> QED
  BY <1>1, <1>3, <1>6

(***************************************************************************)
(* The hand-made carry: two words that hold a number of bits hold the sum  *)
(* after it was added to them.                                             *)
(***************************************************************************)
NewLo(x, y, U) == ((x % U) + (y % U)) % U
Carry(x, y, U) == IF NewLo(x, y, U) < x % U THEN 1 ELSE 0
NewHi(x, y, U) == (((x \div U) % U) + Carry(x, y, U) + (y \div U)) % U

LEMMA CarryCounts ==
  ASSUME NEW x \in Nat, NEW y \in Nat, NEW U \in Nat \ {0}
  PROVE  NewLo(x, y, U) = (x + y) % U /\ NewHi(x, y, U) = ((x + y) \div U) % U
<1>0. PICK lo, carry : lo = NewLo(x, y, U) /\ carry = Carry(x, y, U)
  OBVIOUS
<1>lo. lo = ((x % U) + (y % U)) % U /\ carry = IF lo < x % U THEN 1 ELSE 0
  BY <1>0 DEF NewLo, Carry
<1>1. PICK p, r : p = x \div U /\ r = x % U
  OBVIOUS
<1>2. PICK q, s : q = y \div U /\ s = y % U
  OBVIOUS
<1>3. /\ p \in Nat /\ r \in 0..U - 1 /\ x = U * p + r
      /\ q \in Nat /\ s \in 0..U - 1 /\ y = U * q + s
  BY <1>1, <1>2, DivMod
<1>4. U * p \in Nat /\ U * q \in Nat /\ U * (p + q) = U * p + U * q /\ U * (p + q + 1) = U * p + U * q + U
  BY <1>3
<1>5. carry \in {0, 1} /\ lo \in 0..U - 1 /\ x + y = U * (p + q + carry) + lo
  <2>1. CASE r + s < U
    <3>1. lo = r + s
      <4>1. r + s \in Nat /\ r + s \in 0..U - 1 /\ r + s = U * 0 + (r + s)
        BY <1>3, <2>1
      <4> QED
        BY <1>lo, <1>1, <1>2, <4>1, DivUnique
    <3>2. carry = 0
      BY <1>lo, <1>1, <1>3, <3>1
    <3> QED
      BY <1>3, <1>4, <2>1, <3>1, <3>2
  <2>2. CASE r + s >= U
    <3>1. lo = r + s - U
      <4>1. PICK z, e : z = r + s /\ e = r + s - U
        OBVIOUS
      <4>2. z \in Nat /\ e \in 0..U - 1 /\ z = U * 1 + e
        BY <1>3, <2>2, <4>1
      <4>3. z % U = e
        BY <4>2, DivUnique
      <4> QED
        BY <1>lo, <1>1, <1>2, <4>1, <4>3
    <3>2. carry = 1
      BY <1>lo, <1>1, <1>3, <3>1
    <3> QED
      BY <1>3, <1>4, <2>2, <3>1, <3>2
  <2> QED
    BY <1>3, <2>1, <2>2
<1>6. x + y \in Nat /\ p + q + carry \in Nat
  BY <1>3, <1>5
<1>7. (x + y) \div U = p + q + carry /\ (x + y) % U = lo
  BY <1>5, <1>6, DivUnique
<1>8. ((p % U) + (carry + q)) % U = (p + (carry + q)) % U
  <2>1. carry + q \in Nat
    BY <1>3, <1>5
  <2> QED
    BY <1>3, <2>1, ModSum
<1>9. p % U \in Nat
  BY <1>3
<1>10. (p % U) + carry + q = (p % U) + (carry + q) /\ p + q + carry = p + (carry + q)
  BY <1>3, <1>5, <1>9
<1> QED
  BY <1>0, <1>1, <1>2, <1>7, <1>8, <1>10 DEF NewHi

(***************************************************************************)
(* The blocks of a message and the bytes after them.                       *)
(***************************************************************************)
Block(s, i) == SubSeq(s, (i - 1) * BlockBytes + 1, i * BlockBytes)
Whole(s) == Len(s) \div BlockBytes            \* how many blocks
Taken(s) == Whole(s) * BlockBytes             \* how many bytes they have
Chain(alg, s) == [i \in 1..Whole(s) |-> Mixed(alg, Block(s, i))]

LEMMA BlockSize == BlockBytes \in Nat \ {0} /\ HashU32 \in Nat \ {0}
<1>1. HashWord \in 0..HashWord
  BY HashAssumption
<1> QED
  BY <1>1, HashAssumption DEF HashU32

(* A part of a sequence.                                                    *)
LEMMA Part ==
  ASSUME NEW S, NEW s \in Seq(S), NEW a \in Nat, NEW b \in Nat, a <= b, b <= Len(s)
  PROVE  /\ SubSeq(s, a + 1, b) \in Seq(S)
         /\ Len(SubSeq(s, a + 1, b)) = b - a
         /\ \A k \in 1..(b - a) : SubSeq(s, a + 1, b)[k] = s[a + k]
<1>1. \A k \in (a + 1)..b : s[k] \in S
  BY ElementOfSeq
<1>2. /\ SubSeq(s, a + 1, b) \in Seq(S)
      /\ Len(SubSeq(s, a + 1, b)) = IF a + 1 <= b THEN b - (a + 1) + 1 ELSE 0
      /\ \A k \in 1..(b - (a + 1) + 1) : SubSeq(s, a + 1, b)[k] = s[a + 1 + k - 1]
  BY <1>1, SubSeqProperties
<1>3. \A k \in 1..(b - a) : a + 1 + k - 1 = a + k
  OBVIOUS
<1> QED
  BY <1>2, <1>3

LEMMA BlockFacts ==
  ASSUME NEW S, NEW s \in Seq(S), NEW i \in Nat \ {0}, i * BlockBytes <= Len(s)
  PROVE  /\ Block(s, i) \in Seq(S)
         /\ Len(Block(s, i)) = BlockBytes
         /\ \A k \in 1..BlockBytes : Block(s, i)[k] = s[(i - 1) * BlockBytes + k]
<1>1. PICK a, b : a = (i - 1) * BlockBytes /\ b = i * BlockBytes
  OBVIOUS
<1>2. a \in Nat /\ b \in Nat /\ b - a = BlockBytes
  <2>1. i - 1 \in Nat
    OBVIOUS
  <2> QED
    BY <1>1, <2>1, BlockSize, Products
<1>3. Block(s, i) = SubSeq(s, a + 1, b)
  BY <1>1 DEF Block
<1>4. a <= b /\ b <= Len(s)
  BY <1>1, <1>2, BlockSize
<1>5. /\ SubSeq(s, a + 1, b) \in Seq(S) /\ Len(SubSeq(s, a + 1, b)) = b - a
      /\ \A k \in 1..(b - a) : SubSeq(s, a + 1, b)[k] = s[a + k]
  BY <1>2, <1>4, Part
<1> QED
  BY <1>1, <1>2, <1>3, <1>5

LEMMA RestFacts ==
  ASSUME NEW S, NEW s \in Seq(S)
  PROVE  /\ Whole(s) \in Nat /\ Taken(s) \in Nat /\ Len(s) \in Nat
         /\ Taken(s) <= Len(s) /\ Len(s) - Taken(s) < BlockBytes
         /\ Rest(s) \in Seq(S)
         /\ Len(Rest(s)) = Len(s) - Taken(s)
         /\ \A k \in 1..(Len(s) - Taken(s)) : Rest(s)[k] = s[Taken(s) + k]
<1>1. PICK l, n, a, r : l = Len(s) /\ n = Whole(s) /\ a = Taken(s) /\ r = Len(s) % BlockBytes
  OBVIOUS
<1>2. l \in Nat
  BY <1>1
<1>3. n \in Nat /\ r \in 0..BlockBytes - 1 /\ l = BlockBytes * n + r
  BY <1>1, <1>2, BlockSize, DivMod DEF Whole
<1>4. a \in Nat /\ a = BlockBytes * n
  BY <1>1, <1>3, BlockSize, Products, ZenonT(40) DEF Taken
<1>5. l = a + r
  BY <1>3, <1>4
<1>6. a <= l /\ l - a < BlockBytes
  BY <1>2, <1>3, <1>4, <1>5, BlockSize
<1>7. Rest(s) = SubSeq(s, a + 1, l)
  BY <1>1 DEF Rest, Taken, Whole
<1>8. /\ SubSeq(s, a + 1, l) \in Seq(S) /\ Len(SubSeq(s, a + 1, l)) = l - a
      /\ \A k \in 1..(l - a) : SubSeq(s, a + 1, l)[k] = s[a + k]
  <2>1. a <= l /\ l <= Len(s)
    BY <1>1, <1>2, <1>6
  <2> QED
    BY <1>2, <1>4, <2>1, Part
<1> QED
  BY <1>1, <1>2, <1>3, <1>4, <1>6, <1>7, <1>8

(* Where block i ends.                                                      *)
LEMMA BlockEnds ==
  ASSUME NEW i \in Nat, NEW n \in Nat, i <= n, i # 0
  PROVE  /\ (i - 1) * BlockBytes \in Nat /\ i * BlockBytes \in Nat
         /\ (i - 1) * BlockBytes = i * BlockBytes - BlockBytes
         /\ i * BlockBytes <= n * BlockBytes
<1>1. i - 1 \in Nat
  OBVIOUS
<1> QED
  BY <1>1, BlockSize, Products

(* How many blocks a message has.                                           *)
LEMMA CountBlocks ==
  ASSUME NEW l \in Nat, NEW n \in Nat, n * BlockBytes <= l, l - n * BlockBytes < BlockBytes
  PROVE  l \div BlockBytes = n
<1>1. PICK r : r = l - n * BlockBytes
  OBVIOUS
<1>2. n * BlockBytes \in Nat /\ BlockBytes * n = n * BlockBytes
  BY BlockSize, Products
<1>3. r \in 0..BlockBytes - 1 /\ l = BlockBytes * n + r
  BY <1>1, <1>2, BlockSize
<1> QED
  BY <1>3, BlockSize, DivUnique

(* Two messages one after the other.                                        *)
LEMMA BothFacts ==
  ASSUME NEW S, NEW s \in Seq(S), NEW t \in Seq(S), NEW u, u = s \o t
  PROVE  /\ u \in Seq(S) /\ Len(s) \in Nat /\ Len(t) \in Nat /\ Len(u) = Len(s) + Len(t)
         /\ \A k \in 1..Len(s) : u[k] = s[k]
         /\ \A k \in 1..Len(t) : u[Len(s) + k] = t[k]
<1>1. Len(s) \in Nat /\ Len(t) \in Nat
  OBVIOUS
<1>2. /\ u \in Seq(S) /\ Len(u) = Len(s) + Len(t)
      /\ \A k \in 1..Len(s) + Len(t) : u[k] = IF k <= Len(s) THEN s[k] ELSE t[k - Len(s)]
  BY ConcatProperties
<1>3. PICK l, m : l = Len(s) /\ m = Len(t)
  OBVIOUS
<1>4. ASSUME NEW k \in 1..l PROVE u[k] = s[k]
  <2>1. k \in 1..l + m /\ k <= l
    BY <1>1, <1>3
  <2> QED
    BY <1>2, <1>3, <2>1
<1>5. ASSUME NEW k \in 1..m PROVE u[l + k] = t[k]
  <2>1. l + k \in 1..l + m /\ ~(l + k <= l) /\ l + k - l = k
    BY <1>1, <1>3
  <2> QED
    BY <1>2, <1>3, <2>1
<1> QED
  BY <1>1, <1>2, <1>3, <1>4, <1>5

(* The blocks of a message are those of a longer one.                       *)
LEMMA BlockKept ==
  ASSUME NEW S, NEW s \in Seq(S), NEW t \in Seq(S), NEW i \in 1..Whole(s)
  PROVE  Block(s \o t, i) = Block(s, i)
<1>u. PICK u : u = s \o t
  OBVIOUS
<1>1. Whole(s) \in Nat /\ Taken(s) \in Nat /\ Taken(s) <= Len(s)
  BY RestFacts
<1>2. PICK b, a : b = i * BlockBytes /\ a = (i - 1) * BlockBytes
  OBVIOUS
<1>3. i \in Nat \ {0} /\ i - 1 \in Nat /\ i <= Whole(s)
  BY <1>1
<1>4. a \in Nat /\ b \in Nat /\ a = b - BlockBytes /\ b <= Taken(s)
  BY <1>1, <1>2, <1>3, BlockEnds DEF Taken
<1>5. /\ u \in Seq(S) /\ Len(s) \in Nat /\ Len(t) \in Nat /\ Len(u) = Len(s) + Len(t)
      /\ \A k \in 1..Len(s) : u[k] = s[k]
  BY <1>u, BothFacts
<1>6. b <= Len(s) /\ b <= Len(u)
  BY <1>1, <1>4, <1>5
<1>7. \A k \in 1..BlockBytes : a + k \in 1..Len(s)
  BY <1>4, <1>5, <1>6, BlockSize
<1>8. /\ Block(s, i) \in Seq(S) /\ Len(Block(s, i)) = BlockBytes
      /\ \A k \in 1..BlockBytes : Block(s, i)[k] = s[a + k]
  BY <1>2, <1>3, <1>6, BlockFacts
<1>9. /\ Block(u, i) \in Seq(S) /\ Len(Block(u, i)) = BlockBytes
      /\ \A k \in 1..BlockBytes : Block(u, i)[k] = u[a + k]
  <2>1. u \in Seq(S)
    BY <1>5
  <2> QED
    BY <1>2, <1>3, <1>6, <2>1, BlockFacts
<1>10. \A k \in 1..BlockBytes : Block(u, i)[k] = Block(s, i)[k]
  BY <1>5, <1>7, <1>8, <1>9
<1>11. Block(u, i) = Block(s, i)
  BY <1>8, <1>9, <1>10, SeqEqual
<1> QED
  BY <1>u, <1>11

(* What transform() was given for a message.                                *)
Mixes(alg, S) == {Mixed(alg, b) : b \in Seq(S)}

LEMMA ChainFacts ==
  ASSUME NEW S, NEW s \in Seq(S), NEW alg
  PROVE  /\ Whole(s) \in Nat
         /\ Chain(alg, s) \in Seq(Mixes(alg, S))
         /\ Len(Chain(alg, s)) = Whole(s)
         /\ \A i \in 1..Whole(s) : Chain(alg, s)[i] = Mixed(alg, Block(s, i))
<1>1. Whole(s) \in Nat /\ Taken(s) <= Len(s) /\ Taken(s) \in Nat /\ Len(s) \in Nat
  BY RestFacts
<1>2. ASSUME NEW i \in 1..Whole(s) PROVE Mixed(alg, Block(s, i)) \in Mixes(alg, S)
  <2>1. i \in Nat \ {0} /\ i * BlockBytes \in Nat /\ i * BlockBytes <= Taken(s)
    BY <1>1, BlockSize, Products DEF Taken
  <2>2. i * BlockBytes <= Len(s)
    BY <1>1, <2>1
  <2> QED
    BY <2>1, <2>2, BlockFacts DEF Mixes
<1>3. PICK c, M, n : c = Chain(alg, s) /\ M = Mixes(alg, S) /\ n = Whole(s)
  OBVIOUS
<1>4. c \in [1..n -> M] /\ \A i \in 1..n : c[i] = Mixed(alg, Block(s, i))
  BY <1>2, <1>3 DEF Chain
<1>5. c \in Seq(M) /\ Len(c) = n
  <2>1. c \in Seq(M)
    BY <1>1, <1>3, <1>4, SeqDef
  <2>2. DOMAIN c = 1..n
    BY <1>4
  <2> QED
    BY <1>1, <1>3, <2>1, <2>2, LenProperties
<1> QED
  BY <1>1, <1>3, <1>4, <1>5

(* What follows the blocks of s in s and t together: its rest and t.        *)
Continues(S, s, t, u, v) ==
    /\ Taken(s) \in Nat /\ Whole(s) \in Nat
    /\ u \in Seq(S) /\ Len(u) \in Nat /\ v \in Seq(S) /\ Len(v) \in Nat
    /\ Len(v) = Len(Rest(s)) + Len(t) /\ Len(u) = Taken(s) + Len(v)
    /\ \A k \in 1..Len(v) : u[Taken(s) + k] = v[k]

LEMMA AfterBlocks ==
  ASSUME NEW S, NEW s \in Seq(S), NEW t \in Seq(S)
  PROVE  Continues(S, s, t, s \o t, Rest(s) \o t)
<1>0. PICK u, v, a : u = s \o t /\ v = Rest(s) \o t /\ a = Taken(s)
  OBVIOUS
<1>1. PICK n, x : n = Whole(s) /\ x = Rest(s)
  OBVIOUS
<1>2. PICK r, l, m : r = Len(x) /\ l = Len(s) /\ m = Len(t)
  OBVIOUS
<1>3. /\ n \in Nat /\ a \in Nat /\ a <= l /\ x \in Seq(S) /\ r = l - a /\ l \in Nat
      /\ \A k \in 1..(l - a) : x[k] = s[a + k]
  BY <1>0, <1>1, <1>2, RestFacts
<1>4. r \in Nat /\ m \in Nat /\ l \in Nat /\ a \in Nat /\ a + r = l
  BY <1>2, <1>3
<1>5. /\ u \in Seq(S) /\ Len(u) = l + m
      /\ \A k \in 1..l : u[k] = s[k]
      /\ \A k \in 1..m : u[l + k] = t[k]
  <2>1. /\ u \in Seq(S) /\ Len(u) = Len(s) + Len(t)
        /\ \A k \in 1..Len(s) : u[k] = s[k]
        /\ \A k \in 1..Len(t) : u[Len(s) + k] = t[k]
    BY <1>0, BothFacts
  <2> QED
    BY <1>2, <2>1
<1>6. /\ v \in Seq(S) /\ Len(v) = r + m
      /\ \A k \in 1..r : v[k] = x[k]
      /\ \A k \in 1..m : v[r + k] = t[k]
  <2>1. /\ v \in Seq(S) /\ Len(v) = Len(x) + Len(t)
        /\ \A k \in 1..Len(x) : v[k] = x[k]
        /\ \A k \in 1..Len(t) : v[Len(x) + k] = t[k]
    BY <1>0, <1>1, <1>3, BothFacts
  <2> QED
    BY <1>2, <2>1
<1>7. ASSUME NEW k \in 1..r PROVE u[a + k] = v[k]
  <2>1. a + k \in 1..l /\ k \in 1..(l - a)
    BY <1>3, <1>4
  <2> QED
    BY <1>3, <1>5, <1>6, <2>1
<1>8. ASSUME NEW j \in 1..m PROVE u[a + (r + j)] = v[r + j]
  <2>1. a + (r + j) = l + j
    BY <1>4
  <2> QED
    BY <1>5, <1>6, <2>1
<1>9. ASSUME NEW k \in 1..(r + m) PROVE u[a + k] = v[k]
  <2>1. k \in 1..r \/ (k - r \in 1..m /\ r + (k - r) = k)
    BY <1>4
  <2> QED
    BY <1>7, <1>8, <2>1
<1>10. l + m = a + (r + m) /\ l + m \in Nat /\ r + m \in Nat
  BY <1>4
<1>11. Continues(S, s, t, u, v)
  <2>1. /\ a \in Nat /\ n \in Nat
        /\ u \in Seq(S) /\ Len(u) \in Nat /\ v \in Seq(S) /\ Len(v) \in Nat
        /\ Len(v) = Len(x) + Len(t) /\ Len(u) = a + Len(v)
        /\ \A k \in 1..Len(v) : u[a + k] = v[k]
    BY <1>2, <1>3, <1>5, <1>6, <1>9, <1>10
  <2>2. a = Taken(s) /\ n = Whole(s) /\ x = Rest(s)
    BY <1>0, <1>1
  <2> QED
    BY <2>1, <2>2 DEF Continues
<1> QED
  BY <1>0, <1>11

(* Data that does not fill the block is kept after the rest.                *)
LEMMA LessThanBlock ==
  ASSUME NEW S, NEW s \in Seq(S), NEW t \in Seq(S), NEW alg,
         Len(Rest(s)) + Len(t) < BlockBytes
  PROVE  Chain(alg, s \o t) = Chain(alg, s) /\ Rest(s \o t) = Rest(s) \o t
<1>1. PICK u, v, n, a : /\ u = s \o t /\ v = Rest(s) \o t
                        /\ n = Whole(s) /\ a = Taken(s)
  OBVIOUS
<1>2. /\ a \in Nat /\ n \in Nat /\ u \in Seq(S) /\ Len(u) \in Nat /\ v \in Seq(S) /\ Len(v) \in Nat
      /\ Len(v) = Len(Rest(s)) + Len(t) /\ Len(u) = a + Len(v)
      /\ \A k \in 1..Len(v) : u[a + k] = v[k]
  <2>1. Continues(S, s, t, u, v)
    BY <1>1, AfterBlocks
  <2> QED
    BY <1>1, <2>1 DEF Continues
<1>3. a <= Len(u) /\ Len(u) - a = Len(v) /\ Len(v) < BlockBytes
  BY <1>2, BlockSize
<1>4. Whole(u) = n /\ Taken(u) = a
  <2>1. a = n * BlockBytes
    BY <1>1 DEF Taken
  <2>2. Len(u) \div BlockBytes = n
    BY <1>2, <1>3, <2>1, CountBlocks
  <2> QED
    BY <2>1, <2>2 DEF Whole, Taken
<1>5. Chain(alg, u) = Chain(alg, s)
  BY <1>1, <1>4, BlockKept DEF Chain
<1>6. /\ Rest(u) \in Seq(S) /\ Len(Rest(u)) = Len(v)
      /\ \A k \in 1..Len(v) : Rest(u)[k] = u[a + k]
  <2>1. u \in Seq(S)
    BY <1>2
  <2>2. /\ Rest(u) \in Seq(S) /\ Len(Rest(u)) = Len(u) - Taken(u)
        /\ \A k \in 1..(Len(u) - Taken(u)) : Rest(u)[k] = u[Taken(u) + k]
    BY <2>1, RestFacts
  <2> QED
    BY <1>3, <1>4, <2>2
<1>7. Rest(u) = v
  BY <1>2, <1>6, SeqEqual
<1> QED
  BY <1>1, <1>5, <1>7

(* Data that fills the block exactly: one more block, and no rest.          *)
LEMMA OneBlock ==
  ASSUME NEW S, NEW s \in Seq(S), NEW t \in Seq(S), NEW alg,
         Len(Rest(s)) + Len(t) = BlockBytes
  PROVE  /\ Chain(alg, s \o t) = Chain(alg, s) \o <<Mixed(alg, Rest(s) \o t)>>
         /\ Rest(s \o t) = <<>>
<1>1. PICK u, v, n, a : /\ u = s \o t /\ v = Rest(s) \o t
                        /\ n = Whole(s) /\ a = Taken(s)
  OBVIOUS
<1>2. /\ a \in Nat /\ n \in Nat /\ u \in Seq(S) /\ Len(u) \in Nat /\ v \in Seq(S)
      /\ Len(v) = BlockBytes /\ Len(u) = a + BlockBytes
      /\ \A k \in 1..BlockBytes : u[a + k] = v[k]
  <2>1. Continues(S, s, t, u, v)
    BY <1>1, AfterBlocks
  <2> QED
    BY <1>1, <2>1 DEF Continues
<1>3. n + 1 \in Nat \ {0} /\ (n + 1) * BlockBytes = Len(u) /\ (n + 1 - 1) * BlockBytes = a
  <2>1. a = n * BlockBytes /\ n + 1 - 1 = n
    BY <1>1, <1>2 DEF Taken
  <2> QED
    BY <1>2, <2>1, BlockSize, Products
<1>4. Whole(u) = n + 1 /\ Taken(u) = Len(u)
  <2>1. (n + 1) * BlockBytes <= Len(u) /\ Len(u) - (n + 1) * BlockBytes < BlockBytes
    BY <1>2, <1>3, BlockSize
  <2>2. Len(u) \div BlockBytes = n + 1
    BY <1>2, <1>3, <2>1, CountBlocks
  <2> QED
    BY <1>3, <2>2 DEF Whole, Taken
<1>5. Block(u, n + 1) = v
  <2>1. (n + 1) * BlockBytes <= Len(u) /\ u \in Seq(S) /\ n + 1 \in Nat \ {0}
    BY <1>2, <1>3
  <2>2. PICK i, w : i = n + 1 /\ w = Block(u, i)
    OBVIOUS
  <2>3. i \in Nat \ {0} /\ i * BlockBytes <= Len(u) /\ u \in Seq(S) /\ (i - 1) * BlockBytes = a
    <3>1. i \in Nat \ {0} /\ i * BlockBytes <= Len(u) /\ u \in Seq(S)
      BY <2>1, <2>2
    <3>2. i - 1 = n
      BY <1>2, <2>2
    <3>3. n * BlockBytes = a
      BY <1>1 DEF Taken
    <3> QED
      BY <3>1, <3>2, <3>3
  <2>4. /\ w \in Seq(S) /\ Len(w) = BlockBytes
        /\ \A k \in 1..BlockBytes : w[k] = u[(i - 1) * BlockBytes + k]
    <3>1. /\ Block(u, i) \in Seq(S) /\ Len(Block(u, i)) = BlockBytes
          /\ \A k \in 1..BlockBytes : Block(u, i)[k] = u[(i - 1) * BlockBytes + k]
      BY <2>3, BlockFacts
    <3> QED
      BY <2>2, <3>1, Zenon
  <2>5. \A k \in 1..BlockBytes : w[k] = v[k]
    BY <1>2, <2>3, <2>4
  <2>6. w = v
    BY <1>2, <2>4, <2>5, SeqEqual
  <2> QED
    BY <2>2, <2>6
<1>6. Rest(u) = <<>>
  <2>1. u \in Seq(S)
    BY <1>2
  <2>2. Rest(u) \in Seq(S) /\ Len(Rest(u)) = Len(u) - Taken(u)
    BY <2>1, RestFacts
  <2>3. Len(Rest(u)) = 0
    BY <1>2, <1>4, <2>2
  <2> QED
    BY <2>2, <2>3, EmptySeq
<1>7. Chain(alg, u) = Chain(alg, s) \o <<Mixed(alg, v)>>
  <2>1. PICK M, c, d, e : M = Mixes(alg, S) /\ c = Chain(alg, s) /\ d = Chain(alg, u) /\ e = <<Mixed(alg, v)>>
    OBVIOUS
  <2>2. c \in Seq(M) /\ Len(c) = n /\ \A i \in 1..n : c[i] = Mixed(alg, Block(s, i))
    BY <1>1, <2>1, ChainFacts
  <2>3. d \in Seq(M) /\ Len(d) = n + 1 /\ \A i \in 1..(n + 1) : d[i] = Mixed(alg, Block(u, i))
    BY <1>2, <1>4, <2>1, ChainFacts, SMTT(30)
  <2>4. e \in Seq(M) /\ Len(e) = 1 /\ e[1] = Mixed(alg, v)
    <3>1. Mixed(alg, v) \in M
      BY <1>2, <2>1 DEF Mixes
    <3> QED
      BY <2>1, <3>1
  <2>5. PICK f : f = c \o e
    OBVIOUS
  <2>6. /\ f \in Seq(M) /\ Len(f) = n + 1
        /\ \A i \in 1..n : f[i] = c[i]
        /\ f[n + 1] = e[1]
    <3>1. /\ f \in Seq(M) /\ Len(f) = Len(c) + Len(e)
          /\ \A k \in 1..Len(c) : f[k] = c[k]
          /\ \A k \in 1..Len(e) : f[Len(c) + k] = e[k]
      <4>1. c \in Seq(M) /\ e \in Seq(M)
        BY <2>2, <2>4
      <4> QED
        BY <2>5, <4>1, BothFacts
    <3>2. 1 \in 1..Len(e)
      BY <2>4
    <3> QED
      BY <2>2, <2>4, <3>1, <3>2
  <2>7. ASSUME NEW i \in 1..n PROVE d[i] = f[i]
    <3>1. i \in 1..(n + 1) /\ i \in 1..Whole(s)
      BY <1>1, <1>2
    <3>2. Block(u, i) = Block(s, i)
      BY <1>1, <3>1, BlockKept
    <3> QED
      BY <2>2, <2>3, <2>6, <3>1, <3>2
  <2>8. d[n + 1] = f[n + 1]
    <3>1. n + 1 \in 1..(n + 1)
      BY <1>2
    <3> QED
      BY <1>5, <2>3, <2>4, <2>6, <3>1
  <2>9. \A i \in 1..(n + 1) : i \in 1..n \/ i = n + 1
    BY <1>2
  <2>10. \A i \in 1..(n + 1) : d[i] = f[i]
    BY <2>7, <2>8, <2>9
  <2>11. d = f
    BY <2>3, <2>6, <2>10, SeqEqual
  <2> QED
    BY <2>1, <2>5, <2>11
<1> QED
  BY <1>1, <1>6, <1>7

(* Data after whole blocks is cut on its own.                               *)
LEMMA AlignedSizes ==
  ASSUME NEW S, NEW s \in Seq(S), NEW t \in Seq(S), Rest(s) = <<>>
  PROVE  /\ Len(s) = Taken(s) /\ Len(s \o t) = Taken(s) + Len(t)
         /\ Whole(s \o t) = Whole(s) + Whole(t) /\ Taken(s \o t) = Taken(s) + Taken(t)
<1>1. PICK u, n, a, q, b : u = s \o t /\ n = Whole(s) /\ a = Taken(s) /\ q = Whole(t) /\ b = Taken(t)
  OBVIOUS
<1>2. n \in Nat /\ a \in Nat /\ Len(s) \in Nat /\ Len(Rest(s)) = Len(s) - a
  BY <1>1, RestFacts
<1>3. q \in Nat /\ b \in Nat /\ Len(t) \in Nat /\ b <= Len(t) /\ Len(t) - b < BlockBytes
  BY <1>1, RestFacts
<1>4. Len(s) = a
  <2>1. Len(Rest(s)) = 0
    BY EmptySeq
  <2> QED
    BY <1>2, <2>1
<1>5. Len(u) = a + Len(t)
  <2>1. Len(u) = Len(s) + Len(t)
    BY <1>1, BothFacts
  <2> QED
    BY <1>4, <2>1
<1>6. a = n * BlockBytes /\ b = q * BlockBytes
  BY <1>1 DEF Taken
<1>7. (n + q) * BlockBytes = a + b
  BY <1>2, <1>3, <1>6, BlockSize, Products
<1>8. Len(u) \div BlockBytes = n + q
  <2>1. PICK z, l : z = n + q /\ l = Len(u)
    OBVIOUS
  <2>2. z \in Nat /\ l \in Nat /\ z * BlockBytes = a + b /\ a + b <= l /\ l - (a + b) < BlockBytes
    BY <1>2, <1>3, <1>5, <1>7, <2>1, BlockSize
  <2>3. l \div BlockBytes = z
    BY <2>2, CountBlocks
  <2> QED
    BY <2>1, <2>3
<1> QED
  BY <1>1, <1>4, <1>5, <1>7, <1>8 DEF Whole, Taken

LEMMA AlignedBlock ==
  ASSUME NEW S, NEW s \in Seq(S), NEW t \in Seq(S), Rest(s) = <<>>, NEW j \in 1..Whole(t)
  PROVE  Block(s \o t, Whole(s) + j) = Block(t, j)
<1>1. PICK u, n, a : u = s \o t /\ n = Whole(s) /\ a = Taken(s)
  OBVIOUS
<1>2. n \in Nat /\ a \in Nat /\ a = n * BlockBytes
  BY <1>1, RestFacts DEF Taken
<1>3. PICK q, b : q = Whole(t) /\ b = Taken(t)
  OBVIOUS
<1>4. q \in Nat /\ b \in Nat /\ b = q * BlockBytes /\ Len(t) \in Nat /\ b <= Len(t)
  BY <1>3, RestFacts DEF Taken
<1>5. PICK i, c, d : i = n + j /\ c = (j - 1) * BlockBytes /\ d = j * BlockBytes
  OBVIOUS
<1>6. j \in Nat /\ j # 0 /\ j <= q
  BY <1>3, <1>4
<1>7. c \in Nat /\ d \in Nat /\ c = d - BlockBytes /\ d <= b
  BY <1>4, <1>5, <1>6, BlockEnds
<1>8. i \in Nat \ {0} /\ i * BlockBytes = a + d /\ (i - 1) * BlockBytes = a + c
  <2>1. i \in Nat \ {0} /\ i * BlockBytes = n * BlockBytes + j * BlockBytes
    BY <1>2, <1>5, <1>6, BlockSize, Products
  <2>2. (i - 1) * BlockBytes = i * BlockBytes - BlockBytes
    BY <2>1, BlockSize, Products
  <2> QED
    BY <1>2, <1>5, <1>7, <2>1, <2>2, BlockSize
<1>9. /\ u \in Seq(S) /\ Len(u) = a + Len(t)
      /\ \A k \in 1..Len(t) : u[a + k] = t[k]
  <2>1. Len(s) = a
    BY <1>1, AlignedSizes
  <2>2. /\ u \in Seq(S) /\ Len(u) = Len(s) + Len(t)
        /\ \A k \in 1..Len(t) : u[Len(s) + k] = t[k]
    BY <1>1, BothFacts
  <2> QED
    BY <2>1, <2>2
<1>10. PICK x, y : x = Block(t, j) /\ y = Block(u, i)
  OBVIOUS
<1>11. x \in Seq(S) /\ Len(x) = BlockBytes /\ \A k \in 1..BlockBytes : x[k] = t[c + k]
  <2>1. j \in Nat \ {0} /\ j * BlockBytes <= Len(t)
    BY <1>4, <1>5, <1>6, <1>7
  <2>2. /\ Block(t, j) \in Seq(S) /\ Len(Block(t, j)) = BlockBytes
        /\ \A k \in 1..BlockBytes : Block(t, j)[k] = t[(j - 1) * BlockBytes + k]
    BY <2>1, BlockFacts
  <2> QED
    BY <1>5, <1>10, <2>2
<1>12. y \in Seq(S) /\ Len(y) = BlockBytes /\ \A k \in 1..BlockBytes : y[k] = u[a + c + k]
  <2>1. i \in Nat \ {0} /\ i * BlockBytes <= Len(u) /\ u \in Seq(S)
    BY <1>2, <1>4, <1>7, <1>8, <1>9, SMTT(30)
  <2>2. /\ Block(u, i) \in Seq(S) /\ Len(Block(u, i)) = BlockBytes
        /\ \A k \in 1..BlockBytes : Block(u, i)[k] = u[(i - 1) * BlockBytes + k]
    BY <2>1, BlockFacts
  <2> QED
    BY <1>8, <1>10, <2>2
<1>13. ASSUME NEW k \in 1..BlockBytes PROVE y[k] = x[k]
  <2>1. c + k \in 1..Len(t) /\ a + c + k = a + (c + k)
    BY <1>2, <1>4, <1>7, BlockSize
  <2> QED
    BY <1>9, <1>11, <1>12, <2>1
<1>14. y = x
  BY <1>11, <1>12, <1>13, SeqEqual
<1> QED
  BY <1>1, <1>5, <1>10, <1>14

LEMMA AfterWholeBlocks ==
  ASSUME NEW S, NEW s \in Seq(S), NEW t \in Seq(S), NEW alg, Rest(s) = <<>>
  PROVE  Chain(alg, s \o t) = Chain(alg, s) \o Chain(alg, t) /\ Rest(s \o t) = Rest(t)
<1>1. PICK u, n, a : u = s \o t /\ n = Whole(s) /\ a = Taken(s)
  OBVIOUS
<1>2. PICK q, b : q = Whole(t) /\ b = Taken(t)
  OBVIOUS
<1>3. Len(s) = a /\ Len(u) = a + Len(t) /\ Whole(u) = n + q /\ Taken(u) = a + b
  BY <1>1, <1>2, AlignedSizes
<1>4. n \in Nat /\ a \in Nat
  BY <1>1, RestFacts
<1>5. q \in Nat /\ b \in Nat /\ Len(t) \in Nat /\ b <= Len(t)
  BY <1>2, RestFacts
<1>6. u \in Seq(S) /\ \A k \in 1..Len(t) : u[a + k] = t[k]
  <2>1. u \in Seq(S) /\ \A k \in 1..Len(t) : u[Len(s) + k] = t[k]
    BY <1>1, BothFacts
  <2> QED
    BY <1>3, <2>1
<1>7. Rest(u) = Rest(t)
  <2>1. PICK x, y, r : x = Rest(t) /\ y = Rest(u) /\ r = Len(t) - b
    OBVIOUS
  <2>2. x \in Seq(S) /\ Len(x) = r /\ \A k \in 1..r : x[k] = t[b + k]
    BY <1>2, <2>1, RestFacts
  <2>3. y \in Seq(S) /\ Len(y) = r /\ \A k \in 1..r : y[k] = u[a + b + k]
    <3>1. u \in Seq(S)
      BY <1>6
    <3>2. /\ Rest(u) \in Seq(S) /\ Len(Rest(u)) = Len(u) - Taken(u)
          /\ \A k \in 1..(Len(u) - Taken(u)) : Rest(u)[k] = u[Taken(u) + k]
      BY <3>1, RestFacts
    <3>3. Len(u) - Taken(u) = r
      BY <1>3, <1>4, <1>5, <2>1
    <3> QED
      BY <1>3, <2>1, <3>2, <3>3
  <2>4. ASSUME NEW k \in 1..r PROVE y[k] = x[k]
    <3>1. b + k \in 1..Len(t) /\ a + b + k = a + (b + k)
      BY <1>4, <1>5, <2>1
    <3> QED
      BY <1>6, <2>2, <2>3, <3>1
  <2>5. y = x
    BY <2>2, <2>3, <2>4, SeqEqual
  <2> QED
    BY <2>1, <2>5
<1>8. Chain(alg, u) = Chain(alg, s) \o Chain(alg, t)
  <2>1. PICK M, c, d : M = Mixes(alg, S) /\ c = Chain(alg, s) /\ d = Chain(alg, t)
    OBVIOUS
  <2>2. c \in Seq(M) /\ Len(c) = n /\ \A i \in 1..n : c[i] = Mixed(alg, Block(s, i))
    BY <1>1, <2>1, ChainFacts
  <2>3. d \in Seq(M) /\ Len(d) = q /\ \A i \in 1..q : d[i] = Mixed(alg, Block(t, i))
    BY <1>2, <2>1, ChainFacts
  <2>4. PICK e, f : e = Chain(alg, u) /\ f = c \o d
    OBVIOUS
  <2>5. e \in Seq(M) /\ Len(e) = n + q /\ \A i \in 1..(n + q) : e[i] = Mixed(alg, Block(u, i))
    BY <1>3, <1>6, <2>1, <2>4, ChainFacts
  <2>6. /\ f \in Seq(M) /\ Len(f) = n + q
        /\ \A i \in 1..n : f[i] = c[i]
        /\ \A j \in 1..q : f[n + j] = d[j]
    <3>1. c \in Seq(M) /\ d \in Seq(M)
      BY <2>2, <2>3
    <3>2. /\ f \in Seq(M) /\ Len(f) = Len(c) + Len(d)
          /\ \A k \in 1..Len(c) : f[k] = c[k]
          /\ \A k \in 1..Len(d) : f[Len(c) + k] = d[k]
      BY <2>4, <3>1, BothFacts
    <3> QED
      BY <2>2, <2>3, <3>2
  <2>7. ASSUME NEW i \in 1..n PROVE e[i] = f[i]
    <3>1. i \in 1..(n + q) /\ i \in 1..Whole(s)
      BY <1>1, <1>4, <1>5
    <3>2. Block(u, i) = Block(s, i)
      BY <1>1, <3>1, BlockKept
    <3> QED
      BY <2>2, <2>5, <2>6, <3>1, <3>2
  <2>8. ASSUME NEW j \in 1..q PROVE e[n + j] = f[n + j]
    <3>1. n + j \in 1..(n + q) /\ j \in 1..Whole(t)
      BY <1>2, <1>4, <1>5
    <3>2. Block(u, n + j) = Block(t, j)
      BY <1>1, <3>1, AlignedBlock
    <3> QED
      BY <2>3, <2>5, <2>6, <3>1, <3>2
  <2>9. ASSUME NEW i \in 1..(n + q) PROVE e[i] = f[i]
    <3>1. i \in 1..n \/ (i - n \in 1..q /\ n + (i - n) = i)
      BY <1>4, <1>5
    <3> QED
      BY <2>7, <2>8, <3>1
  <2>10. e = f
    BY <2>5, <2>6, <2>9, SeqEqual
  <2> QED
    BY <2>1, <2>4, <2>10
<1> QED
  BY <1>1, <1>7, <1>8

(***************************************************************************)
(* transform(), block by block.                                            *)
(***************************************************************************)
LEMMA TransformBlocks ==
  ASSUME NEW alg, NEW c, NEW s
  PROVE  Transform(alg, c, Blocks(s)) = c \o Chain(alg, s)
<1>1. DOMAIN Blocks(s) = 1..Whole(s) /\ \A i \in 1..Whole(s) : Blocks(s)[i] = Block(s, i)
  BY DEF Blocks, Block, Whole
<1>2. [i \in DOMAIN Blocks(s) |-> Mixed(alg, Blocks(s)[i])] = [i \in 1..Whole(s) |-> Mixed(alg, Block(s, i))]
  BY <1>1
<1> QED
  BY <1>2 DEF Transform, Chain

LEMMA TransformOne ==
  ASSUME NEW alg, NEW c, NEW b
  PROVE  Transform(alg, c, <<b>>) = c \o <<Mixed(alg, b)>>
<1>1. DOMAIN <<b>> = 1..1 /\ <<b>>[1] = b
  OBVIOUS
<1>2. [i \in DOMAIN <<b>> |-> Mixed(alg, <<b>>[i])] = <<Mixed(alg, b)>>
  BY <1>1
<1> QED
  BY <1>2 DEF Transform

LEMMA BlocksFacts ==
  ASSUME NEW S, NEW s \in Seq(S)
  PROVE  /\ Blocks(s) \in Seq(Seq(S)) /\ Len(Blocks(s)) = Whole(s)
         /\ \A i \in 1..Whole(s) : Blocks(s)[i] = Block(s, i)
<1>1. Whole(s) \in Nat /\ Taken(s) <= Len(s) /\ Taken(s) \in Nat /\ Len(s) \in Nat
  BY RestFacts
<1>2. ASSUME NEW i \in 1..Whole(s) PROVE Block(s, i) \in Seq(S)
  <2>1. i \in Nat \ {0} /\ i * BlockBytes \in Nat /\ i * BlockBytes <= Taken(s)
    BY <1>1, BlockEnds DEF Taken
  <2>2. i * BlockBytes <= Len(s)
    BY <1>1, <2>1
  <2> QED
    BY <2>1, <2>2, BlockFacts
<1>3. PICK T, c, n : T = Seq(S) /\ c = Blocks(s) /\ n = Whole(s)
  OBVIOUS
<1>4. c = [i \in 1..n |-> Block(s, i)]
  BY <1>3 DEF Blocks, Block, Whole
<1>5. c \in [1..n -> T] /\ \A i \in 1..n : c[i] = Block(s, i)
  BY <1>2, <1>3, <1>4
<1>6. c \in Seq(T) /\ Len(c) = n
  <2>1. c \in Seq(T)
    BY <1>1, <1>3, <1>5, SeqDef
  <2>2. DOMAIN c = 1..n
    BY <1>5
  <2> QED
    BY <1>1, <1>3, <2>1, <2>2, LenProperties
<1> QED
  BY <1>3, <1>5, <1>6

LEMMA TransformBoth ==
  ASSUME NEW S, NEW alg, NEW c \in Seq(Mixes(alg, S)), NEW b \in Seq(S), NEW s \in Seq(S)
  PROVE  Transform(alg, c, <<b>> \o Blocks(s)) = (c \o <<Mixed(alg, b)>>) \o Chain(alg, s)
<1>1. PICK M, T, n, x : M = Mixes(alg, S) /\ T = Seq(S) /\ n = Whole(s) /\ x = <<Mixed(alg, b)>>
  OBVIOUS
<1>2. x \in Seq(M) /\ Len(x) = 1 /\ x[1] = Mixed(alg, b)
  <2>1. Mixed(alg, b) \in M
    BY <1>1 DEF Mixes
  <2> QED
    BY <1>1, <2>1
<1>3. PICK y : y = Chain(alg, s)
  OBVIOUS
<1>4. n \in Nat /\ y \in Seq(M) /\ Len(y) = n /\ \A i \in 1..n : y[i] = Mixed(alg, Block(s, i))
  BY <1>1, <1>3, ChainFacts
<1>5. PICK o, d, z : o = <<b>> /\ d = Blocks(s) /\ z = o \o d
  OBVIOUS
<1>6. d \in Seq(T) /\ Len(d) = n /\ \A i \in 1..n : d[i] = Block(s, i)
  BY <1>1, <1>5, BlocksFacts
<1>7. o \in Seq(T) /\ Len(o) = 1 /\ o[1] = b
  <2>1. b \in T
    BY <1>1
  <2> QED
    BY <1>5, <2>1
<1>8. /\ z \in Seq(T) /\ Len(z) = 1 + n /\ z[1] = b
      /\ \A i \in 1..n : z[1 + i] = Block(s, i)
  <2>1. o \in Seq(T) /\ d \in Seq(T)
    BY <1>6, <1>7
  <2>2. /\ z \in Seq(T) /\ Len(z) = Len(o) + Len(d)
        /\ \A k \in 1..Len(o) : z[k] = o[k]
        /\ \A k \in 1..Len(d) : z[Len(o) + k] = d[k]
    BY <1>5, <2>1, BothFacts
  <2>3. 1 \in 1..Len(o)
    BY <1>7
  <2> QED
    BY <1>6, <1>7, <2>2, <2>3
<1>9. PICK w, v : w = [i \in DOMAIN z |-> Mixed(alg, z[i])] /\ v = x \o y
  OBVIOUS
<1>10. /\ v \in Seq(M) /\ Len(v) = 1 + n /\ v[1] = Mixed(alg, b)
       /\ \A i \in 1..n : v[1 + i] = Mixed(alg, Block(s, i))
  <2>1. x \in Seq(M) /\ y \in Seq(M)
    BY <1>2, <1>4
  <2>2. /\ v \in Seq(M) /\ Len(v) = Len(x) + Len(y)
        /\ \A k \in 1..Len(x) : v[k] = x[k]
        /\ \A k \in 1..Len(y) : v[Len(x) + k] = y[k]
    BY <1>9, <2>1, BothFacts
  <2>3. 1 \in 1..Len(x)
    BY <1>2
  <2> QED
    BY <1>2, <1>4, <2>2, <2>3
<1>11. DOMAIN z = 1..(1 + n)
  BY <1>8, LenProperties
<1>12. DOMAIN v = 1..(1 + n) /\ v = [i \in 1..(1 + n) |-> v[i]]
  BY <1>10, LenProperties
<1>13. ASSUME NEW i \in 1..(1 + n) PROVE Mixed(alg, z[i]) = v[i]
  <2>1. i = 1 \/ (i - 1 \in 1..n /\ 1 + (i - 1) = i)
    BY <1>4
  <2> QED
    BY <1>8, <1>10, <2>1
<1>14. w = v
  BY <1>9, <1>11, <1>12, <1>13
<1>15. c \o v = (c \o x) \o y
  <2>1. c \in Seq(M) /\ x \in Seq(M) /\ y \in Seq(M)
    BY <1>1, <1>2, <1>4
  <2> QED
    BY <1>9, <2>1, ConcatAssociative, SMTT(30)
<1>16. Transform(alg, c, z) = c \o w
  BY <1>9 DEF Transform
<1> QED
  BY <1>1, <1>3, <1>5, <1>14, <1>15, <1>16

(***************************************************************************)
(* What the object holds after a message, however it was fed.              *)
(***************************************************************************)
Lo(m) == (8 * Len(m)) % HashU32
Hi(m) == ((8 * Len(m)) \div HashU32) % HashU32
State(alg, chain, span, lo, hi) == [alg |-> alg, chain |-> chain, span |-> span, lo |-> lo, hi |-> hi]
Kept(alg, m) == State(alg, Chain(alg, m), Rest(m), Lo(m), Hi(m))

LEMMA NothingKept ==
  ASSUME NEW alg
  PROVE  HashInit(alg) = Kept(alg, <<>>)
<1>1. <<>> \in Seq(Nat) /\ Len(<<>>) = 0
  BY EmptySeq
<1>2. Whole(<<>>) = 0 /\ 0 \div HashU32 = 0 /\ 0 % HashU32 = 0
  <2>1. 0 = BlockBytes * 0 + 0 /\ 0 = HashU32 * 0 + 0 /\ 0 \in 0..BlockBytes - 1 /\ 0 \in 0..HashU32 - 1
    BY BlockSize
  <2>2. 0 \div BlockBytes = 0
    BY <2>1, BlockSize, DivUnique
  <2>3. 0 \div HashU32 = 0 /\ 0 % HashU32 = 0
    BY <2>1, BlockSize, DivUnique
  <2> QED
    BY <1>1, <2>2, <2>3 DEF Whole
<1>3. Chain(alg, <<>>) = <<>>
  <2>1. Chain(alg, <<>>) \in Seq(Mixes(alg, Nat)) /\ Len(Chain(alg, <<>>)) = 0
    BY <1>1, <1>2, ChainFacts
  <2> QED
    BY <2>1, EmptySeq
<1>4. Rest(<<>>) = <<>>
  <2>1. Rest(<<>>) \in Seq(Nat) /\ Len(Rest(<<>>)) = 0 - Taken(<<>>) /\ Taken(<<>>) = 0
    <3>1. Taken(<<>>) = 0
      BY <1>2, BlockSize DEF Taken
    <3> QED
      BY <1>1, <3>1, RestFacts
  <2> QED
    BY <2>1, EmptySeq
<1>5. Lo(<<>>) = 0 /\ Hi(<<>>) = 0
  BY <1>1, <1>2 DEF Lo, Hi
<1> QED
  BY <1>3, <1>4, <1>5 DEF HashInit, Kept, State

LEMMA CountedKept ==
  ASSUME NEW S, NEW m \in Seq(S), NEW d \in Seq(S), NEW alg
  PROVE  Counted(Kept(alg, m), Len(d)) =
           State(alg, Chain(alg, m), Rest(m), Lo(m \o d), Hi(m \o d))
<1>1. PICK h, x, y, U : /\ h = Kept(alg, m) /\ x = 8 * Len(m) /\ y = Len(d) * 8 /\ U = HashU32
  OBVIOUS
<1>2. x \in Nat /\ y \in Nat /\ U \in Nat \ {0} /\ 8 * Len(m \o d) = x + y
  <2>1. Len(m) \in Nat /\ Len(d) \in Nat /\ Len(m \o d) = Len(m) + Len(d)
    BY BothFacts
  <2> QED
    BY <1>1, <2>1, BlockSize
<1>3. h.lo = x % U /\ h.hi = (x \div U) % U
  BY <1>1 DEF Kept, State, Lo, Hi
<1>4. NewLo(x, y, U) = Lo(m \o d) /\ NewHi(x, y, U) = Hi(m \o d)
  <2>1. x \in Nat /\ y \in Nat /\ U \in Nat \ {0}
    BY <1>2
  <2>2. NewLo(x, y, U) = (x + y) % U /\ NewHi(x, y, U) = ((x + y) \div U) % U
    BY <2>1, CarryCounts
  <2> QED
    BY <1>1, <1>2, <2>2 DEF Lo, Hi
<1>5. Counted(h, Len(d)) = [h EXCEPT !.lo = NewLo(x, y, U), !.hi = NewHi(x, y, U)]
  BY <1>1, <1>3 DEF Counted, NewLo, NewHi, Carry
<1>6. Counted(h, Len(d)) = [h EXCEPT !.lo = Lo(m \o d), !.hi = Hi(m \o d)]
  BY <1>4, <1>5
<1> QED
  BY <1>1, <1>6 DEF Kept, State

(* The two ways update() changes the record.                                *)
Longer(c, y) == [c EXCEPT !.span = y]
Further(c, z, y) == [c EXCEPT !.chain = z, !.span = y]

LEMMA Fields ==
  ASSUME NEW alg, NEW chain, NEW span, NEW lo, NEW hi, NEW y, NEW z
  PROVE  /\ State(alg, chain, span, lo, hi).alg = alg
         /\ State(alg, chain, span, lo, hi).chain = chain
         /\ State(alg, chain, span, lo, hi).span = span
         /\ Longer(State(alg, chain, span, lo, hi), y) = State(alg, chain, y, lo, hi)
         /\ Further(State(alg, chain, span, lo, hi), z, y) = State(alg, z, y, lo, hi)
<1>1. PICK c, e : c = State(alg, chain, span, lo, hi) /\ e = [c EXCEPT !.chain = z]
  OBVIOUS
<1>2. c = [alg |-> alg, chain |-> chain, span |-> span, lo |-> lo, hi |-> hi]
  BY <1>1 DEF State
<1>3. e = [alg |-> alg, chain |-> z, span |-> span, lo |-> lo, hi |-> hi]
  BY <1>1, <1>2
<1>4. Further(c, z, y) = [e EXCEPT !.span = y]
  BY <1>1, <1>2 DEF Further
<1>5. Further(c, z, y) = State(alg, z, y, lo, hi)
  BY <1>3, <1>4 DEF State
<1>6. Longer(c, y) = State(alg, chain, y, lo, hi)
  BY <1>2 DEF Longer, State
<1>7. c.alg = alg /\ c.chain = chain /\ c.span = span
  BY <1>2
<1> QED
  BY <1>1, <1>5, <1>6, <1>7

(* update() given d after m holds what it would hold after m and d.         *)
LEMMA UpdateKept ==
  ASSUME NEW S, NEW m \in Seq(S), NEW d \in Seq(S), NEW alg
  PROVE  Update(Kept(alg, m), d) = Kept(alg, m \o d)
<1>1. PICK h, c, x, rest : /\ h = Kept(alg, m) /\ c = Counted(h, Len(d)) /\ x = Rest(m)
                           /\ rest = BlockBytes - Len(x)
  OBVIOUS
<1>2. h.span = x
  BY <1>1 DEF Kept, State
<1>3. c = State(alg, Chain(alg, m), x, Lo(m \o d), Hi(m \o d))
  BY <1>1, CountedKept
<1>4. x \in Seq(S) /\ Len(x) \in Nat /\ Len(x) < BlockBytes
  <2>1. Rest(m) \in Seq(S) /\ Len(m) - Taken(m) < BlockBytes /\ Len(Rest(m)) = Len(m) - Taken(m)
    BY RestFacts
  <2> QED
    BY <1>1, <2>1
<1>5. rest \in 1..BlockBytes /\ Len(x) + rest = BlockBytes /\ Len(d) \in Nat
  BY <1>1, <1>4, BlockSize
<1>6. CASE d = <<>>
  <2>1. m \o d = m
    BY <1>6, ConcatEmptySeq
  <2>2. Update(h, d) = h
    BY <1>6 DEF Update
  <2> QED
    BY <1>1, <2>1, <2>2
<1>7. CASE d # <<>> /\ Len(d) < rest
  <2>1. Chain(alg, m \o d) = Chain(alg, m) /\ Rest(m \o d) = x \o d
    <3>1. Len(Rest(m)) + Len(d) < BlockBytes
      BY <1>1, <1>4, <1>5, <1>7
    <3> QED
      BY <1>1, <3>1, LessThanBlock
  <2>2. Update(h, d) = Longer(c, c.span \o d)
    BY <1>1, <1>2, <1>7 DEF Update, Longer
  <2>3. c.span = x /\ Longer(c, x \o d) =
          State(alg, Chain(alg, m), x \o d, Lo(m \o d), Hi(m \o d))
    BY <1>3, Fields, SMTT(30)
  <2> QED
    BY <1>1, <2>1, <2>2, <2>3, Zenon DEF Kept
<1>8. CASE d # <<>> /\ ~(Len(d) < rest) /\ x = <<>>
  <2>1. Chain(alg, m \o d) = Chain(alg, m) \o Chain(alg, d) /\ Rest(m \o d) = Rest(d)
    BY <1>1, <1>8, AfterWholeBlocks, ZenonT(40)
  <2>2. <<>> \o Blocks(d) = Blocks(d)
    BY BlocksFacts, ConcatEmptySeq
  <2>3. Update(h, d) = Further(c, Transform(c.alg, c.chain, <<>> \o Blocks(d)), Rest(d))
    BY <1>1, <1>2, <1>8 DEF Update, Further
  <2>4. Transform(alg, Chain(alg, m), <<>> \o Blocks(d)) = Chain(alg, m \o d)
    BY <2>1, <2>2, TransformBlocks
  <2>5. /\ c.alg = alg /\ c.chain = Chain(alg, m)
        /\ Further(c, Chain(alg, m \o d), Rest(d)) =
             State(alg, Chain(alg, m \o d), Rest(d), Lo(m \o d), Hi(m \o d))
    BY <1>3, Fields
  <2> QED
    BY <1>1, <2>1, <2>3, <2>4, <2>5, Zenon DEF Kept
<1>9. CASE d # <<>> /\ ~(Len(d) < rest) /\ x # <<>>
  <2>1. PICK e, more : e = SubSeq(d, 1, rest) /\ more = SubSeq(d, rest + 1, Len(d))
    OBVIOUS
  <2>2. e \in Seq(S) /\ Len(e) = rest /\ more \in Seq(S)
    <3>1. /\ 0 \in Nat /\ rest \in Nat /\ 0 <= rest /\ rest <= Len(d) /\ Len(d) <= Len(d)
          /\ 0 + 1 = 1 /\ rest - 0 = rest
      BY <1>5, <1>9
    <3>2. SubSeq(d, 0 + 1, rest) \in Seq(S) /\ Len(SubSeq(d, 0 + 1, rest)) = rest - 0
      BY <3>1, Part
    <3>3. SubSeq(d, rest + 1, Len(d)) \in Seq(S)
      BY <1>5, <3>1, Part
    <3> QED
      BY <2>1, <3>1, <3>2, <3>3
  <2>3. e \o more = d
    <3>1. SubSeq(d, 1, rest) \o SubSeq(d, rest + 1, Len(d)) = SubSeq(d, 1, Len(d))
      <4>1. 1 \in 1..Len(d) + 1 /\ rest \in 1 - 1..Len(d) /\ Len(d) \in rest..Len(d)
        BY <1>5, <1>9
      <4> QED
        BY <4>1, ConcatAdjacentSubSeq
    <3> QED
      BY <2>1, <3>1, SubSeqFull
  <2>4. PICK b, me : b = x \o e /\ me = m \o e
    OBVIOUS
  <2>5. b \in Seq(S) /\ me \in Seq(S)
    BY <1>4, <2>2, <2>4, ConcatProperties
  <2>6. m \o d = me \o more
    <3>1. e \in Seq(S) /\ more \in Seq(S)
      BY <2>2
    <3>2. (m \o e) \o more = m \o (e \o more)
      BY <3>1, ConcatAssociative, SMTT(30)
    <3> QED
      BY <2>3, <2>4, <3>2, Zenon
  <2>7. Chain(alg, me) = Chain(alg, m) \o <<Mixed(alg, b)>> /\ Rest(me) = <<>>
    <3>1. Len(Rest(m)) + Len(e) = BlockBytes
      BY <1>1, <1>5, <2>2
    <3> QED
      BY <1>1, <2>2, <2>4, <3>1, OneBlock
  <2>8. Chain(alg, m \o d) = Chain(alg, me) \o Chain(alg, more) /\ Rest(m \o d) = Rest(more)
    <3>1. me \in Seq(S) /\ more \in Seq(S) /\ Rest(me) = <<>>
      BY <2>2, <2>5, <2>7
    <3>2. Chain(alg, me \o more) = Chain(alg, me) \o Chain(alg, more) /\ Rest(me \o more) = Rest(more)
      BY <3>1, AfterWholeBlocks
    <3> QED
      BY <2>6, <3>2, Zenon
  <2>9. Transform(alg, Chain(alg, m), <<b>> \o Blocks(more)) = Chain(alg, m \o d)
    <3>1. Chain(alg, m) \in Seq(Mixes(alg, S))
      BY ChainFacts
    <3> QED
      <4>1. b \in Seq(S) /\ more \in Seq(S)
        BY <2>2, <2>5
      <4>2. Transform(alg, Chain(alg, m), <<b>> \o Blocks(more)) =
              (Chain(alg, m) \o <<Mixed(alg, b)>>) \o Chain(alg, more)
        BY <3>1, <4>1, TransformBoth
      <4> QED
        BY <2>7, <2>8, <4>2, Zenon
  <2>10. Update(h, d) = Further(c, Transform(c.alg, c.chain, <<b>> \o Blocks(more)), Rest(more))
    BY <1>1, <1>2, <1>9, <2>1, <2>4 DEF Update, Further
  <2>11. /\ c.alg = alg /\ c.chain = Chain(alg, m)
         /\ Further(c, Chain(alg, m \o d), Rest(more)) =
              State(alg, Chain(alg, m \o d), Rest(more), Lo(m \o d), Hi(m \o d))
    BY <1>3, Fields
  <2> QED
    BY <1>1, <2>8, <2>9, <2>10, <2>11, Zenon DEF Kept
<1> QED
  BY <1>1, <1>6, <1>7, <1>8, <1>9

(***************************************************************************)
(* The padding.                                                            *)
(***************************************************************************)
LEMMA FillIs ==
  ASSUME NEW l \in Nat, NEW k \in Nat, NEW f \in 0..BlockBytes - 1,
         l + 1 + f + 2 * HashWord = k * BlockBytes
  PROVE  PadLength(l) = f
<1>1. PICK z, b : z = l + 1 + 2 * HashWord /\ b = BlockBytes
  OBVIOUS
<1>2. z \in Nat /\ b \in Nat \ {0} /\ f \in 0..b - 1
  BY <1>1, BlockSize, HashAssumption
<1>3. \A n \in 0..b - 1 : l + 1 + n + 2 * HashWord = z + n
  BY <1>1, HashAssumption
<1>4. z + f = b * k
  BY <1>1, <1>2, <1>3, BlockSize, Products
<1>5. (z + f) % b = 0
  <2>1. z + f \in Nat /\ 0 \in 0..b - 1 /\ z + f = b * k + 0
    BY <1>2, <1>4
  <2> QED
    BY <1>2, <2>1, DivUnique
<1>6. ASSUME NEW g \in 0..b - 1, (z + g) % b = 0 PROVE g = f
  <2>1. PICK q : q = (z + g) \div b
    OBVIOUS
  <2>2. q \in Nat /\ z + g = b * q
    <3>1. z + g \in Nat
      BY <1>2
    <3>2. q \in Nat /\ z + g = b * q + 0
      BY <1>2, <1>6, <2>1, <3>1, DivMod
    <3> QED
      BY <1>2, <3>2
  <2>3. CASE f <= g
    <3>1. PICK x, y : x = z + g /\ y = g - f
      OBVIOUS
    <3>2. x \in Nat /\ y \in 0..b - 1 /\ x = b * k + y
      BY <1>2, <1>4, <2>3, <3>1
    <3>3. x % b = y
      BY <1>2, <3>2, DivUnique
    <3>4. y = 0
      BY <1>6, <3>1, <3>3
    <3> QED
      BY <1>2, <3>1, <3>4
  <2>4. CASE g < f
    <3>1. PICK x, y : x = z + f /\ y = f - g
      OBVIOUS
    <3>2. x \in Nat /\ y \in 0..b - 1 /\ x = b * q + y
      BY <1>2, <2>2, <2>4, <3>1
    <3>3. x % b = y
      BY <1>2, <2>2, <3>2, DivUnique
    <3>4. y = 0
      BY <1>5, <3>1, <3>3
    <3> QED
      BY <1>2, <3>1, <3>4
  <2> QED
    BY <1>2, <2>3, <2>4
<1>7. \A n \in 0..b - 1 : (l + 1 + n + 2 * HashWord) % b = 0 <=> n = f
  BY <1>2, <1>3, <1>5, <1>6
<1>8. PadLength(l) \in 0..b - 1 /\ (l + 1 + PadLength(l) + 2 * HashWord) % b = 0
  BY <1>1, <1>2, <1>7 DEF PadLength
<1> QED
  BY <1>7, <1>8

LEMMA ZerosFacts ==
  ASSUME NEW n \in Nat
  PROVE  Zeros(n) \in Seq(Nat) /\ Len(Zeros(n)) = n /\ \A i \in 1..n : Zeros(n)[i] = 0
<1>1. Zeros(n) \in [1..n -> Nat] /\ DOMAIN Zeros(n) = 1..n /\ \A i \in 1..n : Zeros(n)[i] = 0
  BY DEF Zeros
<1>2. Zeros(n) \in Seq(Nat)
  BY <1>1, SeqDef
<1> QED
  BY <1>1, <1>2, LenProperties

LEMMA MoreZeros ==
  ASSUME NEW n \in Nat, NEW k \in Nat
  PROVE  Zeros(n + k) = Zeros(n) \o Zeros(k)
<1>1. PICK x, y, z, u : x = Zeros(n) /\ y = Zeros(k) /\ z = Zeros(n + k) /\ u = x \o y
  OBVIOUS
<1>2. x \in Seq(Nat) /\ Len(x) = n /\ \A i \in 1..n : x[i] = 0
  BY <1>1, ZerosFacts
<1>3. y \in Seq(Nat) /\ Len(y) = k /\ \A i \in 1..k : y[i] = 0
  BY <1>1, ZerosFacts
<1>4. z \in Seq(Nat) /\ Len(z) = n + k /\ \A i \in 1..(n + k) : z[i] = 0
  <2>1. n + k \in Nat
    OBVIOUS
  <2> QED
    BY <1>1, <2>1, ZerosFacts
<1>5. /\ u \in Seq(Nat) /\ Len(u) = n + k /\ \A i \in 1..n : u[i] = 0
      /\ \A i \in 1..k : u[n + i] = 0
  <2>1. x \in Seq(Nat) /\ y \in Seq(Nat)
    BY <1>2, <1>3
  <2>2. /\ u \in Seq(Nat) /\ Len(u) = Len(x) + Len(y)
        /\ \A i \in 1..Len(x) : u[i] = x[i]
        /\ \A i \in 1..Len(y) : u[Len(x) + i] = y[i]
    BY <1>1, <2>1, BothFacts
  <2> QED
    BY <1>2, <1>3, <2>2
<1>6. ASSUME NEW i \in 1..(n + k) PROVE z[i] = u[i]
  <2>1. i \in 1..n \/ (i - n \in 1..k /\ n + (i - n) = i)
    OBVIOUS
  <2> QED
    BY <1>4, <1>5, <2>1
<1>7. z = u
  BY <1>4, <1>5, <1>6, SeqEqual
<1> QED
  BY <1>1, <1>7

LEMMA CountFacts ==
  ASSUME NEW alg, NEW lo \in Nat, NEW hi \in Nat
  PROVE  BitCount(alg, lo, hi) \in Seq(Nat) /\ Len(BitCount(alg, lo, hi)) = 2 * HashWord
<1>1. HashWord \in Nat
  BY HashAssumption
<1>2. ASSUME NEW w \in Nat PROVE BigBytes(w) \in Seq(Nat) /\ Len(BigBytes(w)) = HashWord
  <2>1. ASSUME NEW i \in 1..HashWord PROVE (w \div HashByte ^ (HashWord - i)) % HashByte \in Nat
    <3>1. HashWord - i \in 0..HashWord
      BY <1>1
    <3>2. PICK p : p = HashByte ^ (HashWord - i)
      OBVIOUS
    <3>3. p \in Nat \ {0} /\ HashByte \in Nat \ {0}
      BY <3>1, <3>2, HashAssumption
    <3>4. w \div p \in Nat
      BY <3>3, DivMod
    <3>5. (w \div p) % HashByte \in Nat
      BY <3>3, <3>4, DivMod
    <3> QED
      BY <3>2, <3>5
  <2>2. BigBytes(w) \in [1..HashWord -> Nat]
    BY <2>1 DEF BigBytes
  <2>3. BigBytes(w) \in Seq(Nat)
    BY <1>1, <2>2, SeqDef
  <2> QED
    BY <1>1, <2>2, <2>3, LenProperties
<1>3. ASSUME NEW w \in Nat PROVE LittleBytes(w) \in Seq(Nat) /\ Len(LittleBytes(w)) = HashWord
  <2>1. PICK x, y : x = BigBytes(w) /\ y = LittleBytes(w)
    OBVIOUS
  <2>2. x \in Seq(Nat) /\ Len(x) = HashWord
    BY <1>2, <2>1
  <2>3. y = [i \in 1..Len(x) |-> x[Len(x) - i + 1]]
    BY <2>1 DEF LittleBytes, Reverse
  <2>4. \A i \in 1..HashWord : x[HashWord - i + 1] \in Nat
    <3>1. \A i \in 1..HashWord : HashWord - i + 1 \in 1..Len(x)
      BY <1>1, <2>2
    <3> QED
      BY <2>2, <3>1, ElementOfSeq
  <2>5. y \in [1..HashWord -> Nat]
    BY <2>2, <2>3, <2>4
  <2>6. y \in Seq(Nat)
    BY <1>1, <2>5, SeqDef
  <2> QED
    BY <1>1, <2>1, <2>5, <2>6, LenProperties
<1>4. HashWord + HashWord = 2 * HashWord
  BY <1>1
<1>5. BigCount(lo, hi) \in Seq(Nat) /\ Len(BigCount(lo, hi)) = 2 * HashWord
  <2>1. PICK x, y : x = BigBytes(hi) /\ y = BigBytes(lo)
    OBVIOUS
  <2>2. x \in Seq(Nat) /\ Len(x) = HashWord /\ y \in Seq(Nat) /\ Len(y) = HashWord
    BY <1>2, <2>1
  <2>3. x \o y \in Seq(Nat) /\ Len(x \o y) = Len(x) + Len(y)
    BY <2>2, ConcatProperties
  <2>4. BigCount(lo, hi) = x \o y
    BY <2>1 DEF BigCount
  <2> QED
    BY <1>4, <2>2, <2>3, <2>4
<1>6. LittleCount(lo, hi) \in Seq(Nat) /\ Len(LittleCount(lo, hi)) = 2 * HashWord
  <2>1. PICK x, y : x = LittleBytes(lo) /\ y = LittleBytes(hi)
    OBVIOUS
  <2>2. x \in Seq(Nat) /\ Len(x) = HashWord /\ y \in Seq(Nat) /\ Len(y) = HashWord
    BY <1>3, <2>1
  <2>3. x \o y \in Seq(Nat) /\ Len(x \o y) = Len(x) + Len(y)
    BY <2>2, ConcatProperties
  <2>4. LittleCount(lo, hi) = x \o y
    BY <2>1 DEF LittleCount
  <2> QED
    BY <1>4, <2>2, <2>3, <2>4
<1> QED
  BY <1>5, <1>6 DEF BitCount

(* The reference takes the blocks of the padded message.                    *)
LEMMA PaddedChain ==
  ASSUME NEW alg, NEW m
  PROVE  PaddedMessage(alg, m) = Chain(alg, PaddedBytes(alg, m))
  BY DEF PaddedMessage, Chain, Whole, Block, Mixed, Sha1Transform, Md5Transform

(* It does not matter in which order three pieces are put together.         *)
Regrouped(x, y, z) == (x \o y) \o z = x \o (y \o z)

LEMMA Regroup ==
  ASSUME NEW S, NEW x \in Seq(S), NEW y \in Seq(S), NEW z \in Seq(S)
  PROVE  Regrouped(x, y, z)
  BY ConcatAssociative, SMTT(30) DEF Regrouped

(* finalize() after m returns the digest of the padded message.             *)
LEMMA FinalizeKept ==
  ASSUME NEW m \in Seq(Nat), NEW alg
  PROVE  Finalize(Kept(alg, m)).digest = PaddedMessage(alg, m)
<1>1. PICK h, x, C, P, W : /\ h = Kept(alg, m) /\ x = Rest(m) /\ C = BitCount(alg, Lo(m), Hi(m))
                           /\ P = <<PadMark>> /\ W = BlockBytes - 2 * HashWord
  OBVIOUS
<1>2. /\ h.alg = alg /\ h.chain = Chain(alg, m) /\ h.span = x
      /\ h.lo = Lo(m) /\ h.hi = Hi(m)
  BY <1>1 DEF Kept, State
<1>3. PICK a, n, r, l : a = Taken(m) /\ n = Whole(m) /\ r = Len(x) /\ l = Len(m)
  OBVIOUS
<1>4. x \in Seq(Nat) /\ a \in Nat /\ n \in Nat /\ l \in Nat /\ a <= l /\ r = l - a /\ r < BlockBytes
  BY <1>1, <1>3, RestFacts
<1>5. r \in Nat /\ l = a + r
  BY <1>4
<1>6. /\ a = n * BlockBytes /\ (n + 1) * BlockBytes = a + BlockBytes
      /\ (n + 2) * BlockBytes = a + BlockBytes + BlockBytes
  <2>1. a = n * BlockBytes
    BY <1>3 DEF Taken
  <2>2. 2 * BlockBytes = BlockBytes + BlockBytes
    BY BlockSize
  <2>3. /\ (n + 1) * BlockBytes = n * BlockBytes + BlockBytes
        /\ (n + 2) * BlockBytes = n * BlockBytes + 2 * BlockBytes
    BY <1>4, BlockSize, Products
  <2> QED
    BY <1>4, <2>1, <2>2, <2>3, BlockSize
<1>7. PadMark \in Nat /\ P \in Seq(Nat) /\ Len(P) = 1
  <2>1. PadMark \in Nat
    BY HashAssumption, DivMod DEF PadMark
  <2> QED
    BY <1>1, <2>1
<1>8. W \in Nat \ {0} /\ W + 2 * HashWord = BlockBytes /\ 2 * HashWord \in Nat /\ W < BlockBytes
  BY <1>1, HashAssumption
<1>9. C \in Seq(Nat) /\ Len(C) = 2 * HashWord
  <2>1. Lo(m) \in Nat /\ Hi(m) \in Nat
    <3>1. 8 * Len(m) \in Nat
      BY <1>3, <1>4
    <3>2. (8 * Len(m)) \div HashU32 \in Nat
      BY <3>1, BlockSize, DivMod
    <3> QED
      BY <3>1, <3>2, BlockSize, DivMod DEF Lo, Hi
  <2> QED
    BY <1>1, <2>1, CountFacts
<1>10. PaddedBytes(alg, m) = ((m \o P) \o Zeros(PadLength(l))) \o C
  BY <1>1, <1>3 DEF PaddedBytes, Lo, Hi
<1>11. PICK k : k = x \o P
  OBVIOUS
<1>12. k \in Seq(Nat) /\ Len(k) = r + 1 /\ Append(h.span, PadMark) = k
  <2>1. x \o P \in Seq(Nat) /\ Len(x \o P) = Len(x) + Len(P)
    BY <1>4, <1>7, ConcatProperties
  <2>2. Append(x, PadMark) = x \o <<PadMark>>
    BY <1>4, <1>7
  <2> QED
    BY <1>1, <1>2, <1>3, <1>7, <1>11, <2>1, <2>2
<1>13. BlockWithoutCount = W
  BY <1>1 DEF BlockWithoutCount
<1>14. CASE ~(r + 1 > W)
  <2>1. PICK f, Z : f = W - (r + 1) /\ Z = Zeros(f)
    OBVIOUS
  <2>2. f \in 0..BlockBytes - 1 /\ f \in Nat /\ l + 1 + f + 2 * HashWord = (n + 1) * BlockBytes
    <3>1. PICK b, w : b = BlockBytes /\ w = 2 * HashWord
      OBVIOUS
    <3>2. f \in 0..b - 1 /\ f \in Nat /\ l + 1 + f + w = a + b
      <4>1. W \in Nat /\ w \in Nat /\ W + w = b /\ W < b /\ b \in Nat
        BY <1>8, <3>1, BlockSize
      <4>2. a \in Nat /\ r \in Nat /\ l = a + r /\ f = W - (r + 1)
        BY <1>4, <1>5, <2>1
      <4> QED
        BY <1>14, <4>1, <4>2
    <3> QED
      BY <1>6, <3>1, <3>2
  <2>3. PadLength(l) = f
    <3>1. n + 1 \in Nat
      BY <1>4
    <3> QED
      BY <1>4, <2>2, <3>1, FillIs
  <2>4. Z \in Seq(Nat) /\ Len(Z) = f
    BY <2>1, <2>2, ZerosFacts
  <2>5. PICK e : e = (P \o Z) \o C
    OBVIOUS
  <2>6. /\ e \in Seq(Nat) /\ Len(e) = 1 + f + 2 * HashWord
        /\ PaddedBytes(alg, m) = m \o e /\ (k \o Z) \o C = x \o e
    <3>1. ((m \o P) \o Z) \o C = m \o ((P \o Z) \o C) /\ ((x \o P) \o Z) \o C = x \o ((P \o Z) \o C)
      <4>1. x \in Seq(Nat) /\ P \in Seq(Nat) /\ Z \in Seq(Nat) /\ C \in Seq(Nat)
        BY <1>4, <1>7, <1>9, <2>4
      <4>2. PICK q : q = P \o Z
        OBVIOUS
      <4>3. q \in Seq(Nat)
        BY <4>1, <4>2, ConcatProperties
      <4>4. Regrouped(m, P, Z)
        BY <4>1, Regroup
      <4>5. Regrouped(x, P, Z)
        BY <4>1, Regroup
      <4>6. Regrouped(m, q, C)
        BY <4>1, <4>3, Regroup
      <4>7. Regrouped(x, q, C)
        BY <4>1, <4>3, Regroup
      <4>8. ((m \o P) \o Z) \o C = m \o ((P \o Z) \o C)
        BY <4>2, <4>4, <4>6, Zenon DEF Regrouped
      <4>9. ((x \o P) \o Z) \o C = x \o ((P \o Z) \o C)
        BY <4>2, <4>5, <4>7, Zenon DEF Regrouped
      <4> QED
        BY <4>8, <4>9
    <3>2. e \in Seq(Nat) /\ Len(e) = Len(P) + Len(Z) + Len(C)
      <4>1. P \o Z \in Seq(Nat) /\ Len(P \o Z) = Len(P) + Len(Z)
        BY <1>7, <2>4, ConcatProperties
      <4>2. (P \o Z) \o C \in Seq(Nat) /\ Len((P \o Z) \o C) = Len(P \o Z) + Len(C)
        BY <1>9, <4>1, ConcatProperties
      <4> QED
        BY <2>5, <4>1, <4>2
    <3>3. PaddedBytes(alg, m) = ((m \o P) \o Z) \o C
      BY <1>10, <2>1, <2>3
    <3> QED
      BY <1>7, <1>9, <1>11, <2>4, <2>5, <3>1, <3>2, <3>3
  <2>7. Chain(alg, m \o e) = Chain(alg, m) \o <<Mixed(alg, x \o e)>>
    <3>1. Len(Rest(m)) + Len(e) = BlockBytes
      <4>1. r + Len(e) = BlockBytes
        BY <1>5, <1>8, <2>1, <2>2, <2>6
      <4> QED
        BY <1>1, <1>3, <4>1
    <3>2. e \in Seq(Nat)
      BY <2>6
    <3> QED
      BY <1>1, <3>1, <3>2, OneBlock
  <2>8. Finalize(h).digest = Transform(alg, Chain(alg, m), <<(k \o Z) \o C>>)
    <3>1. ~(Len(k) > W) /\ W - Len(k) = f
      BY <1>12, <1>14, <2>1
    <3> QED
      BY <1>1, <1>2, <1>12, <1>13, <2>1, <3>1 DEF Finalize
  <2>9. Finalize(h).digest = Chain(alg, m) \o <<Mixed(alg, x \o e)>>
    BY <2>6, <2>8, TransformOne
  <2> QED
    BY <1>1, <2>6, <2>7, <2>9, PaddedChain
<1>15. CASE r + 1 > W
  <2>1. PICK g, Y, Z : g = BlockBytes - (r + 1) /\ Y = Zeros(g) /\ Z = Zeros(W)
    OBVIOUS
  <2>2. /\ g \in Nat /\ g + W \in 0..BlockBytes - 1
        /\ l + 1 + (g + W) + 2 * HashWord = (n + 2) * BlockBytes
    <3>1. PICK b, w : b = BlockBytes /\ w = 2 * HashWord
      OBVIOUS
    <3>2. g \in Nat /\ g + W \in 0..b - 1 /\ l + 1 + (g + W) + w = a + b + b
      <4>1. W \in Nat /\ w \in Nat /\ W + w = b /\ W < b /\ b \in Nat
        BY <1>8, <3>1, BlockSize
      <4>2. a \in Nat /\ r \in Nat /\ l = a + r /\ g = b - (r + 1) /\ r < b
        BY <1>4, <1>5, <2>1, <3>1
      <4> QED
        BY <1>15, <4>1, <4>2
    <3> QED
      BY <1>6, <3>1, <3>2
  <2>3. PadLength(l) = g + W
    <3>1. n + 2 \in Nat
      BY <1>4
    <3> QED
      BY <1>4, <2>2, <3>1, FillIs
  <2>4. /\ Y \in Seq(Nat) /\ Len(Y) = g /\ Z \in Seq(Nat) /\ Len(Z) = W
        /\ Zeros(g + W) = Y \o Z
    BY <1>8, <2>1, <2>2, ZerosFacts, MoreZeros
  <2>5. PICK d, e, s : d = P \o Y /\ e = Z \o C /\ s = m \o d
    OBVIOUS
  <2>6. /\ d \in Seq(Nat) /\ Len(d) = 1 + g /\ e \in Seq(Nat) /\ Len(e) = BlockBytes /\ s \in Seq(Nat)
        /\ k \o Y = x \o d
    <3>1. P \o Y \in Seq(Nat) /\ Len(P \o Y) = Len(P) + Len(Y)
      BY <1>7, <2>4, ConcatProperties
    <3>2. Z \o C \in Seq(Nat) /\ Len(Z \o C) = Len(Z) + Len(C)
      BY <1>9, <2>4, ConcatProperties
    <3>3. m \o d \in Seq(Nat)
      BY <2>5, <3>1, ConcatProperties
    <3>4. (x \o P) \o Y = x \o (P \o Y)
      <4>1. x \in Seq(Nat) /\ P \in Seq(Nat) /\ Y \in Seq(Nat)
        BY <1>4, <1>7, <2>4
      <4>2. Regrouped(x, P, Y)
        BY <4>1, Regroup
      <4> QED
        BY <4>2, Zenon DEF Regrouped
    <3> QED
      BY <1>7, <1>8, <1>9, <1>11, <2>4, <2>5, <3>1, <3>2, <3>3, <3>4
  <2>7. PaddedBytes(alg, m) = s \o e
    <3>1. PaddedBytes(alg, m) = ((m \o P) \o (Y \o Z)) \o C
      BY <1>10, <2>3, <2>4
    <3>2. m \o P \in Seq(Nat)
      BY <1>7, ConcatProperties
    <3>3. (m \o P) \o (Y \o Z) = ((m \o P) \o Y) \o Z
      <4>1. m \o P \in Seq(Nat) /\ Y \in Seq(Nat) /\ Z \in Seq(Nat)
        BY <2>4, <3>2
      <4>2. Regrouped(m \o P, Y, Z)
        BY <4>1, Regroup
      <4> QED
        BY <4>2, Zenon DEF Regrouped
    <3>4. (m \o P) \o Y = s
      <4>1. P \in Seq(Nat) /\ Y \in Seq(Nat)
        BY <1>7, <2>4
      <4>2. Regrouped(m, P, Y)
        BY <4>1, Regroup
      <4> QED
        BY <2>5, <4>2, Zenon DEF Regrouped
    <3>5. (s \o Z) \o C = s \o (Z \o C)
      <4>1. s \in Seq(Nat) /\ Z \in Seq(Nat) /\ C \in Seq(Nat)
        BY <1>9, <2>4, <2>6
      <4>2. Regrouped(s, Z, C)
        BY <4>1, Regroup
      <4> QED
        BY <4>2, Zenon DEF Regrouped
    <3> QED
      BY <2>5, <3>1, <3>3, <3>4, <3>5
  <2>8. Chain(alg, s) = Chain(alg, m) \o <<Mixed(alg, x \o d)>> /\ Rest(s) = <<>>
    <3>1. Len(Rest(m)) + Len(d) = BlockBytes
      <4>1. r + Len(d) = BlockBytes
        BY <1>5, <2>1, <2>2, <2>6, BlockSize
      <4> QED
        BY <1>1, <1>3, <4>1
    <3>2. d \in Seq(Nat)
      BY <2>6
    <3> QED
      BY <1>1, <2>5, <3>1, <3>2, OneBlock
  <2>9. Chain(alg, s \o e) = Chain(alg, s) \o <<Mixed(alg, e)>>
    <3>1. s \in Seq(Nat) /\ e \in Seq(Nat) /\ Len(Rest(s)) + Len(e) = BlockBytes
      <4>1. Len(Rest(s)) = 0
        BY <2>8, EmptySeq
      <4> QED
        BY <2>6, <4>1, BlockSize
    <3>2. Chain(alg, s \o e) = Chain(alg, s) \o <<Mixed(alg, Rest(s) \o e)>>
      BY <3>1, OneBlock
    <3>3. Rest(s) \o e = e
      BY <2>8, <3>1, ConcatEmptySeq
    <3> QED
      BY <3>2, <3>3
  <2>10. Finalize(h).digest = Transform(alg, Transform(alg, Chain(alg, m), <<k \o Y>>), <<Z \o C>>)
    <3>1. Len(k) > W /\ BlockBytes - Len(k) = g
      BY <1>12, <1>15, <2>1
    <3> QED
      BY <1>1, <1>2, <1>12, <1>13, <2>1, <3>1 DEF Finalize
  <2>11. Finalize(h).digest = (Chain(alg, m) \o <<Mixed(alg, x \o d)>>) \o <<Mixed(alg, e)>>
    <3>1. Transform(alg, Chain(alg, m), <<k \o Y>>) = Chain(alg, m) \o <<Mixed(alg, k \o Y)>>
      BY TransformOne
    <3>2. PICK c : c = Chain(alg, m) \o <<Mixed(alg, k \o Y)>>
      OBVIOUS
    <3>3. Transform(alg, c, <<Z \o C>>) = c \o <<Mixed(alg, Z \o C)>>
      BY TransformOne
    <3>4. k \o Y = x \o d
      BY <2>6
    <3> QED
      BY <2>5, <2>10, <3>1, <3>2, <3>3, <3>4, Zenon
  <2> QED
    BY <1>1, <2>7, <2>8, <2>9, <2>11, PaddedChain
<1> QED
  BY <1>1, <1>14, <1>15

(***************************************************************************)
(* One hash object, given any bytes in any pieces and finalized at any     *)
(* time.                                                                   *)
(***************************************************************************)
Bytes == 0..HashByte - 1
HashNext == FinalizeHash \/ \E data \in Seq(Bytes) : UpdateHash(data)
HashSpec == InitHash /\ [][HashNext]_subject

(* The object holds what is kept of the message, whoever cut it.            *)
Holds(alg, m) == subject = [part |-> "hash", hash |-> Kept(alg, m), msg |-> m]
HashInv == \E alg : \E m \in Seq(Nat) : Holds(alg, m)

LEMMA HashStarts == InitHash => HashInv
<1> SUFFICES ASSUME InitHash PROVE HashInv
  OBVIOUS
<1>1. PICK alg : subject = [part |-> "hash", hash |-> HashInit(alg), msg |-> <<>>]
  BY DEF InitHash
<1>2. Holds(alg, <<>>) /\ <<>> \in Seq(Nat)
  BY <1>1, NothingKept, EmptySeq DEF Holds
<1> QED
  BY <1>2 DEF HashInv

LEMMA HashSteps == HashInv /\ [HashNext]_subject => HashInv'
<1> SUFFICES ASSUME HashInv, [HashNext]_subject PROVE HashInv'
  OBVIOUS
<1>1. PICK alg : \E m \in Seq(Nat) : Holds(alg, m)
  BY DEF HashInv
<1>2. PICK m \in Seq(Nat) : Holds(alg, m)
  BY <1>1
<1>3. PICK h : h = Kept(alg, m)
  OBVIOUS
<1>4. subject = [part |-> "hash", hash |-> h, msg |-> m] /\ h.alg = alg
  BY <1>2, <1>3 DEF Holds, Kept, State
<1>5. CASE UNCHANGED subject
  BY <1>2, <1>5 DEF HashInv, Holds
<1>6. CASE FinalizeHash
  <2>1. subject' = [subject EXCEPT !.hash = Finalize(h).hash, !.msg = <<>>]
    BY <1>4, <1>6 DEF FinalizeHash
  <2>2. Finalize(h).hash = Kept(alg, <<>>)
    BY <1>4, NothingKept DEF Finalize
  <2>3. subject' = [part |-> "hash", hash |-> Kept(alg, <<>>), msg |-> <<>>]
    BY <1>4, <2>1, <2>2
  <2>4. <<>> \in Seq(Nat)
    BY EmptySeq
  <2> QED
    BY <2>3, <2>4 DEF HashInv, Holds
<1>7. ASSUME NEW data \in Seq(Bytes), UpdateHash(data) PROVE HashInv'
  <2>1. data \in Seq(Nat)
    <3>1. Bytes \subseteq Nat
      BY HashAssumption DEF Bytes
    <3> QED
      BY <3>1, SeqMonotonic
  <2>2. PICK k, g : k = m \o data /\ g = Update(h, data)
    OBVIOUS
  <2>3. subject' = [subject EXCEPT !.hash = g, !.msg = k]
    BY <1>4, <1>7, <2>2 DEF UpdateHash
  <2>4. subject' = [part |-> "hash", hash |-> g, msg |-> k]
    BY <1>4, <2>3
  <2>5. g = Kept(alg, k)
    BY <1>3, <2>1, <2>2, UpdateKept
  <2>6. k \in Seq(Nat)
    BY <2>1, <2>2, ConcatProperties
  <2> QED
    BY <2>4, <2>5, <2>6 DEF HashInv, Holds
<1> QED
  BY <1>5, <1>6, <1>7 DEF HashNext

LEMMA HashHolds == HashInv => HashOfMessage
<1> SUFFICES ASSUME HashInv PROVE HashOfMessage
  OBVIOUS
<1>1. PICK alg : \E m \in Seq(Nat) : Holds(alg, m)
  BY DEF HashInv
<1>2. PICK m \in Seq(Nat) : Holds(alg, m)
  BY <1>1
<1>3. subject.hash = Kept(alg, m) /\ subject.msg = m /\ subject.hash.alg = alg
  BY <1>2 DEF Holds, Kept, State
<1>4. Finalize(Kept(alg, m)).digest = PaddedMessage(alg, m)
  BY FinalizeKept
<1>5. Once(alg, m) = PaddedMessage(alg, m)
  <2>1. <<>> \in Seq(Nat) /\ <<>> \o m = m
    BY EmptySeq, ConcatEmptySeq
  <2>2. Update(Kept(alg, <<>>), m) = Kept(alg, <<>> \o m)
    BY <2>1, UpdateKept
  <2>3. Update(HashInit(alg), m) = Kept(alg, m)
    BY <2>1, <2>2, NothingKept, Zenon
  <2> QED
    BY <1>4, <2>3 DEF Once
<1> QED
  BY <1>3, <1>4, <1>5 DEF HashOfMessage

(***************************************************************************)
(* basic_hash: for every block size, every message of any length and every *)
(* way to cut it into update() calls, whatever the object hashed before,   *)
(* finalize() and once() return the digest of the padded message, its      *)
(* length in two words included: the carry between them and the padding    *)
(* that spills into a block of its own are right.                          *)
(***************************************************************************)
THEOREM HashCorrect == HashSpec => []HashOfMessage
<1>1. InitHash => HashInv
  BY HashStarts
<1>2. HashInv /\ [HashNext]_subject => HashInv'
  BY HashSteps
<1>3. HashInv => HashOfMessage
  BY HashHolds
<1> QED
  BY <1>1, <1>2, <1>3, PTL DEF HashSpec
=============================================================================
