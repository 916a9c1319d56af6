--------------------------- MODULE NewMessageProofs ---------------------------
(***************************************************************************)
(* Hashes and nonces of any number of bytes of any size, and private       *)
(* messages for any length of ciphertexts whose end, two bytes behind it,  *)
(* two bytes can tell.                                                     *)
(***************************************************************************)
EXTENDS NewMessage, Induction, SequenceTheorems

-----------------------------------------------------------------------------
(* The order of hashes *)

LEMMA SomeNatIsLeast ==
    ASSUME NEW T \in SUBSET Nat, T # {}
    PROVE  \E i \in T : \A j \in T : i <= j
<1>1. PICK i \in T : \A j \in T : <<j, i>> \notin OpToRel(<, Nat)
  BY WFMin, NatLessThanWellFounded
<1>2. ASSUME NEW j \in T PROVE i <= j
  <2>1. <<j, i>> \in Nat \X Nat
    OBVIOUS
  <2>2. ~(j < i)
    BY <1>1, <2>1 DEF OpToRel
  <2>. QED BY <2>2
<1>. QED BY <1>2

\* Different hashes differ at a first byte.
LEMMA FirstDifference ==
    ASSUME NEW h \in Hash, NEW g \in Hash, h # g
    PROVE  \E i \in 1 .. HashLength : h[i] # g[i] /\ \A j \in 1 .. i - 1 : h[j] = g[j]
<1> DEFINE T == {i \in 1 .. HashLength : h[i] # g[i]}
<1>1. HashLength \in Nat
  BY NewMessageAssumption
<1>2. T \in SUBSET Nat /\ T # {}
  BY <1>1 DEF Hash
<1>3. PICK i \in T : \A j \in T : i <= j
  BY <1>2, SomeNatIsLeast
<1>4. ASSUME NEW j \in 1 .. i - 1 PROVE h[j] = g[j]
  <2>1. j \in 1 .. HashLength /\ ~(i <= j)
    BY <1>1, <1>3
  <2>. QED BY <1>3, <2>1
<1>. QED BY <1>3, <1>4

\* The order in which CompareHashes (common.go:64) puts hashes is strict and has no
\* ties: of two versions of a message every node keeps the same one, and which
\* one does not depend on what else it saw.
THEOREM HashesAreTotallyOrdered ==
    /\ \A h \in Hash : ~Lower(h, h)
    /\ \A h, g \in Hash : h # g => (Lower(h, g) <=> ~Lower(g, h))
    /\ \A h, g, k \in Hash : Lower(h, g) /\ Lower(g, k) => Lower(h, k)
<1>1. HashLength \in Nat /\ Radix \in Nat
  BY NewMessageAssumption
<1>2. \A h \in Hash, i \in 1 .. HashLength : h[i] \in Nat
  BY <1>1 DEF Hash, Byte
<1>3. ASSUME NEW h \in Hash PROVE ~Lower(h, h)
  BY <1>2 DEF Lower, LowerAt
<1>4. ASSUME NEW h \in Hash, NEW g \in Hash, h # g PROVE Lower(h, g) \/ Lower(g, h)
  <2>1. PICK i \in 1 .. HashLength : h[i] # g[i] /\ \A j \in 1 .. i - 1 : h[j] = g[j]
    BY <1>4, FirstDifference
  <2>2. h[i] < g[i] \/ g[i] < h[i]
    BY <1>2, <2>1
  <2>. QED BY <2>1, <2>2 DEF Lower, LowerAt
<1>5. ASSUME NEW h \in Hash, NEW g \in Hash, NEW k \in Hash, Lower(h, g), Lower(g, k)
      PROVE  Lower(h, k)
  <2>1. PICK i \in 1 .. HashLength : LowerAt(h, g, i)
    BY <1>5 DEF Lower
  <2>2. PICK j \in 1 .. HashLength : LowerAt(g, k, j)
    BY <1>5 DEF Lower
  <2>3. /\ h[i] < g[i] /\ \A l \in 1 .. i - 1 : h[l] = g[l]
        /\ g[j] < k[j] /\ \A l \in 1 .. j - 1 : g[l] = k[l]
        /\ h[i] \in Nat /\ g[i] \in Nat /\ k[i] \in Nat
        /\ h[j] \in Nat /\ g[j] \in Nat /\ k[j] \in Nat
    BY <1>2, <2>1, <2>2 DEF LowerAt
  <2>4. CASE i < j
    <3>1. LowerAt(h, k, i)
      BY <1>1, <2>3, <2>4 DEF LowerAt
    <3>. QED BY <3>1 DEF Lower
  <2>5. CASE i = j
    <3>1. LowerAt(h, k, i)
      BY <1>1, <2>3, <2>5 DEF LowerAt
    <3>. QED BY <3>1 DEF Lower
  <2>6. CASE j < i
    <3>1. LowerAt(h, k, j)
      BY <1>1, <2>3, <2>6 DEF LowerAt
    <3>. QED BY <3>1 DEF Lower
  <2>. QED BY <1>1, <2>4, <2>5, <2>6
<1>6. ASSUME NEW h \in Hash, NEW g \in Hash, Lower(h, g), Lower(g, h) PROVE FALSE
  BY <1>3, <1>5, <1>6
<1>. QED BY <1>3, <1>4, <1>5, <1>6

-----------------------------------------------------------------------------
(* Numbers from bytes, the most significant one first *)

\* value[i] is the number of the first i bytes of s.
IsValue(value, s, N) ==
    /\ value \in [0 .. N -> Nat]
    /\ value[0] = 0
    /\ \A i \in 1 .. N : value[i] = Radix * value[i - 1] + s[i]

LEMMA BigEndianIsLast ==
    ASSUME NEW N \in Nat, NEW s \in [1 .. N -> Byte]
    PROVE  \E value : IsValue(value, s, N) /\ BigEndian(s) = value[N]
<1> DEFINE step == [p \in (1 .. N) \X Nat |-> Radix * p[2] + s[p[1]]]
           Values(f) == [i \in 0 .. Len(s) |-> IF i = 0 THEN 0 ELSE Radix * f[i - 1] + s[i]]
           value == CHOOSE f : f = Values(f)
<1>1. Radix \in Nat \ {0} /\ Byte \subseteq Nat
  BY NewMessageAssumption DEF Byte
<1>2. Len(s) = N /\ \A i \in 1 .. N : s[i] \in Nat /\ i - 1 \in 0 .. N
  <2>1. s \in Seq(Byte) /\ Len(s) = N
    OBVIOUS
  <2>2. \A i \in 1 .. N : s[i] \in Byte
    OBVIOUS
  <2>3. \A i \in 1 .. N : s[i] \in Nat
    BY <1>1, <2>2
  <2>4. \A i \in 1 .. N : i - 1 \in 0 .. N
    OBVIOUS
  <2>. QED BY <2>1, <2>3, <2>4
<1>3. IsStep(step, N, Nat)
  <2>1. ASSUME NEW p \in (1 .. N) \X Nat PROVE Radix * p[2] + s[p[1]] \in Nat
    <3>1. p[2] \in Nat /\ s[p[1]] \in Nat
      BY <1>2
    <3>. QED BY <1>1, <3>1
  <2>. QED BY <2>1 DEF IsStep
<1>4. PICK f : IsRun(f, N, Nat, 0, step)
  <2>. HIDE DEF step
  <2>. QED BY <1>3, Iterates
<1>5. f \in [0 .. N -> Nat] /\ f[0] = 0
  BY <1>4 DEF IsRun
<1>6. ASSUME NEW i \in 1 .. N PROVE f[i] = Radix * f[i - 1] + s[i]
  <2>1. <<i, f[i - 1]>> \in (1 .. N) \X Nat
    BY <1>2, <1>5
  <2>2. step[<<i, f[i - 1]>>] = Radix * f[i - 1] + s[i]
    BY <2>1
  <2>. HIDE DEF step
  <2>. QED BY <1>4, <2>2 DEF IsRun
<1>7. f = Values(f)
  <2>1. ASSUME NEW i \in 0 .. N PROVE f[i] = IF i = 0 THEN 0 ELSE Radix * f[i - 1] + s[i]
    <3>1. i # 0 => i \in 1 .. N
      OBVIOUS
    <3>. QED BY <1>5, <1>6, <3>1
  <2>2. f = [i \in 0 .. N |-> f[i]]
    BY <1>5
  <2>. QED BY <1>2, <2>1, <2>2
<1>8. value = Values(value)
  <2>. HIDE DEF Values
  <2>. QED BY <1>7
<1>9. BigEndian(s) = value[N]
  BY <1>2 DEF BigEndian
<1>. HIDE DEF value
<1>10. /\ value[0] = 0
       /\ \A i \in 1 .. N : value[i] = Radix * value[i - 1] + s[i]
  <2>1. 0 \in 0 .. N /\ \A i \in 1 .. N : i \in 0 .. N /\ i # 0
    OBVIOUS
  <2>2. \A i \in 0 .. N : value[i] = Values(value)[i]
    BY <1>2, <1>8
  <2>3. \A i \in 0 .. N : Values(value)[i] = IF i = 0 THEN 0 ELSE Radix * value[i - 1] + s[i]
    BY <1>2
  <2>. HIDE DEF Values
  <2>. QED BY <2>1, <2>2, <2>3
<1>11. value \in [0 .. N -> Nat]
  <2> DEFINE S == {i \in 0 .. N : value[i] \in Nat}
  <2>1. 0 \in S
    BY <1>10
  <2>2. ASSUME NEW i \in 0 .. N - 1, i \in S PROVE i + 1 \in S
    <3>1. i + 1 \in 1 .. N /\ (i + 1) - 1 = i /\ i + 1 \in 0 .. N
      OBVIOUS
    <3>2. value[i + 1] = Radix * value[i] + s[i + 1] /\ value[i] \in Nat /\ s[i + 1] \in Nat
      BY <1>2, <1>10, <2>2, <3>1
    <3>3. value[i + 1] \in Nat
      BY <1>1, <3>2
    <3>. QED BY <3>1, <3>3
  <2>3. 0 .. N \subseteq S
    <3>. HIDE DEF S
    <3>. QED BY <2>1, <2>2, InductiveUpTo
  <2>4. value = [i \in 0 .. N |-> value[i]]
    BY <1>2, <1>8
  <2>. QED BY <2>3, <2>4
<1>. QED BY <1>9, <1>10, <1>11 DEF IsValue

LEMMA BigEndianIsNat ==
    ASSUME NEW N \in Nat, NEW s \in [1 .. N -> Byte]
    PROVE  BigEndian(s) \in Nat
BY BigEndianIsLast DEF IsValue

\* What one more byte does to two numbers.
LEMMA OneMoreByte ==
    ASSUME NEW r \in Nat \ {0}, NEW x \in Nat, NEW y \in Nat,
           NEW a \in 0 .. r - 1, NEW b \in 0 .. r - 1
    PROVE  /\ x < y => r * x + a < r * y + b
           /\ x = y /\ a < b => r * x + a < r * y + b
<1>1. ASSUME x < y PROVE r * x + a < r * y + b
  <2>1. PICK d \in Nat : y = x + 1 + d
    <3>1. y - x - 1 \in Nat /\ y = x + 1 + (y - x - 1)
      BY <1>1
    <3>. QED BY <3>1
  <2>2. r * y = r * x + r + r * d
    BY <2>1
  <2>3. r * d \in Nat /\ r * x \in Nat
    OBVIOUS
  <2>. QED BY <2>2, <2>3
<1>2. ASSUME x = y, a < b PROVE r * x + a < r * y + b
  <2>1. r * x \in Nat
    OBVIOUS
  <2>. QED BY <1>2, <2>1
<1>. QED BY <1>1, <1>2

\* The first byte that differs decides.
LEMMA LowerIsLess ==
    ASSUME NEW N \in Nat, NEW h \in [1 .. N -> Byte], NEW g \in [1 .. N -> Byte],
           NEW k \in 1 .. N, LowerAt(h, g, k)
    PROVE  BigEndian(h) < BigEndian(g)
<1>1. PICK v : IsValue(v, h, N) /\ BigEndian(h) = v[N]
  BY BigEndianIsLast
<1>2. PICK w : IsValue(w, g, N) /\ BigEndian(g) = w[N]
  BY BigEndianIsLast
<1>3. /\ Radix \in Nat \ {0}
      /\ \A i \in 1 .. N : h[i] \in 0 .. Radix - 1 /\ g[i] \in 0 .. Radix - 1
      /\ \A i \in 0 .. N : v[i] \in Nat /\ w[i] \in Nat
  BY <1>1, <1>2, NewMessageAssumption DEF Byte, IsValue
<1> DEFINE S == {i \in 0 .. N : (i < k => v[i] = w[i]) /\ (i >= k => v[i] < w[i])}
<1>4. 0 \in S
  BY <1>1, <1>2 DEF IsValue
<1>5. ASSUME NEW i \in 0 .. N - 1, i \in S PROVE i + 1 \in S
  <2>1. i + 1 \in 1 .. N /\ (i + 1) - 1 = i /\ i + 1 \in 0 .. N /\ i \in 0 .. N
    OBVIOUS
  <2>2. v[i + 1] = Radix * v[i] + h[i + 1] /\ w[i + 1] = Radix * w[i] + g[i + 1]
    BY <1>1, <1>2, <2>1 DEF IsValue
  <2>6. /\ v[i] \in Nat /\ w[i] \in Nat
        /\ h[i + 1] \in 0 .. Radix - 1 /\ g[i + 1] \in 0 .. Radix - 1
    BY <1>3, <2>1
  <2>7. /\ v[i] < w[i] => v[i + 1] < w[i + 1]
        /\ v[i] = w[i] /\ h[i + 1] < g[i + 1] => v[i + 1] < w[i + 1]
    <3>. HIDE DEF Radix
    <3>1. /\ v[i] < w[i] => Radix * v[i] + h[i + 1] < Radix * w[i] + g[i + 1]
          /\ v[i] = w[i] /\ h[i + 1] < g[i + 1]
               => Radix * v[i] + h[i + 1] < Radix * w[i] + g[i + 1]
      BY <1>3, <2>6, OneMoreByte
    <3>. QED BY <2>2, <3>1
  <2>3. CASE i + 1 < k
    <3>1. h[i + 1] = g[i + 1] /\ v[i] = w[i]
      BY <1>5, <2>3 DEF LowerAt
    <3>2. v[i + 1] = w[i + 1]
      BY <2>2, <3>1
    <3>. QED BY <2>1, <2>3, <3>2
  <2>4. CASE i + 1 = k
    <3>1. h[i + 1] < g[i + 1] /\ v[i] = w[i]
      BY <1>5, <2>4 DEF LowerAt
    <3>2. v[i + 1] < w[i + 1]
      BY <2>7, <3>1
    <3>. QED BY <2>1, <2>4, <3>2
  <2>5. CASE i + 1 > k
    <3>1. v[i] < w[i]
      BY <1>5, <2>5
    <3>2. v[i + 1] < w[i + 1]
      BY <2>7, <3>1
    <3>. QED BY <2>1, <2>5, <3>2
  <2>. QED BY <2>3, <2>4, <2>5
<1>6. 0 .. N \subseteq S
  <2>. HIDE DEF S
  <2>. QED BY <1>4, <1>5, InductiveUpTo
<1>7. v[N] < w[N]
  BY <1>6
<1>. QED BY <1>1, <1>2, <1>7

\* Different bytes, different numbers.
LEMMA SameNumber ==
    ASSUME NEW N \in Nat, NEW h \in [1 .. N -> Byte], NEW g \in [1 .. N -> Byte],
           BigEndian(h) = BigEndian(g)
    PROVE  h = g
<1>. SUFFICES ASSUME h # g PROVE FALSE
  OBVIOUS
<1> DEFINE T == {i \in 1 .. N : h[i] # g[i]}
<1>1. T \in SUBSET Nat /\ T # {}
  OBVIOUS
<1>2. PICK i \in T : \A j \in T : i <= j
  <2>. HIDE DEF T
  <2>. QED BY <1>1, SomeNatIsLeast
<1>3. i \in 1 .. N /\ \A j \in 1 .. i - 1 : h[j] = g[j]
  BY <1>2
<1>4. h[i] < g[i] \/ g[i] < h[i]
  <2>1. h[i] \in Nat /\ g[i] \in Nat
    BY NewMessageAssumption DEF Byte
  <2>. QED BY <1>2, <2>1
<1>5. LowerAt(h, g, i) \/ LowerAt(g, h, i)
  BY <1>3, <1>4 DEF LowerAt
<1>6. BigEndian(h) \in Nat /\ BigEndian(g) \in Nat
  BY BigEndianIsNat
<1>7. LowerAt(h, g, i) => BigEndian(h) < BigEndian(g)
  BY <1>3, LowerIsLess
<1>8. LowerAt(g, h, i) => BigEndian(g) < BigEndian(h)
  BY <1>3, LowerIsLess
<1>. QED BY <1>5, <1>6, <1>7, <1>8

\* CompareHashes orders hashes as the numbers they are.
LEMMA CompareIsByNumber ==
    ASSUME NEW h \in Hash, NEW g \in Hash
    PROVE  CompareHashes(h, g) =
             IF BigEndian(h) < BigEndian(g) THEN -1
             ELSE IF BigEndian(h) > BigEndian(g) THEN 1 ELSE 0
<1>1. /\ HashLength \in Nat /\ h \in [1 .. HashLength -> Byte] /\ g \in [1 .. HashLength -> Byte]
  BY NewMessageAssumption DEF Hash
<1>2. BigEndian(h) \in Nat /\ BigEndian(g) \in Nat
  BY <1>1, BigEndianIsNat
<1>3. Lower(h, g) => BigEndian(h) < BigEndian(g)
  BY <1>1, LowerIsLess DEF Lower
<1>4. Lower(g, h) => BigEndian(g) < BigEndian(h)
  BY <1>1, LowerIsLess DEF Lower
<1>5. h = g \/ Lower(h, g) \/ Lower(g, h)
  BY HashesAreTotallyOrdered
<1>. HIDE DEF Lower, BigEndian
<1>. QED BY <1>2, <1>3, <1>4, <1>5 DEF CompareHashes

-----------------------------------------------------------------------------
(* Counting nonces: the last byte is the most significant one *)

LEMMA ReverseIs ==
    ASSUME NEW N \in Nat, NEW s \in [1 .. N -> Byte]
    PROVE  /\ Reverse(s) \in [1 .. N -> Byte]
           /\ \A i \in 1 .. N : Reverse(s)[i] = s[N - i + 1]
<1>1. s \in Seq(Byte) /\ Len(s) = N /\ \A i \in 1 .. N : s[i] \in Byte
  OBVIOUS
<1>2. \A i \in 1 .. N : (N - i) + 1 \in 1 .. N
  OBVIOUS
<1>3. Reverse(s) = [i \in 1 .. N |-> s[(N - i) + 1]]
  BY <1>1 DEF Reverse
<1>. QED BY <1>1, <1>2, <1>3

LEMMA ReverseBytes ==
    ASSUME NEW s \in Nonce
    PROVE  /\ NonceLength \in Nat
           /\ Reverse(s) \in [1 .. NonceLength -> Byte]
           /\ \A i \in 1 .. NonceLength : Reverse(s)[i] = s[NonceLength - i + 1]
BY NewMessageAssumption, ReverseIs DEF Nonce

LEMMA LittleEndianIsNat ==
    ASSUME NEW s \in Nonce
    PROVE  LittleEndian(s) \in Nat
BY ReverseBytes, BigEndianIsNat DEF LittleEndian

LEMMA SameNonce ==
    ASSUME NEW s \in Nonce, NEW t \in Nonce, LittleEndian(s) = LittleEndian(t)
    PROVE  s = t
<1>1. Reverse(s) = Reverse(t)
  BY ReverseBytes, SameNumber DEF LittleEndian
<1>2. ASSUME NEW i \in 1 .. NonceLength PROVE s[i] = t[i]
  <2>1. NonceLength \in Nat
    BY NewMessageAssumption
  <2> DEFINE j == NonceLength - i + 1
  <2>2. j \in 1 .. NonceLength /\ NonceLength - j + 1 = i
    BY <2>1
  <2>. HIDE DEF j
  <2>3. Reverse(s)[j] = s[NonceLength - j + 1] /\ Reverse(t)[j] = t[NonceLength - j + 1]
    BY <2>2, ReverseBytes
  <2>. QED BY <1>1, <2>2, <2>3
<1>3. /\ s = [i \in 1 .. NonceLength |-> s[i]]
      /\ t = [i \in 1 .. NonceLength |-> t[i]]
  BY DEF Nonce
<1>. QED BY <1>2, <1>3

\* The number of bytes that are all zero
LEMMA ZeroIsZero ==
    ASSUME NEW N \in Nat, NEW s \in [1 .. N -> Byte], \A i \in 1 .. N : s[i] = 0
    PROVE  BigEndian(s) = 0
<1>1. PICK v : IsValue(v, s, N) /\ BigEndian(s) = v[N]
  BY BigEndianIsLast
<1>2. Radix \in Nat
  BY NewMessageAssumption
<1> DEFINE S == {i \in 0 .. N : v[i] = 0}
<1>3. 0 \in S
  BY <1>1 DEF IsValue
<1>4. ASSUME NEW i \in 0 .. N - 1, i \in S PROVE i + 1 \in S
  <2>1. i + 1 \in 1 .. N /\ (i + 1) - 1 = i /\ i + 1 \in 0 .. N
    OBVIOUS
  <2>2. v[i + 1] = Radix * v[i] + s[i + 1]
    BY <1>1, <2>1 DEF IsValue
  <2>3. v[i] = 0 /\ s[i + 1] = 0
    BY <1>4, <2>1
  <2>4. v[i + 1] = 0
    BY <1>2, <2>2, <2>3
  <2>. QED BY <2>1, <2>4
<1>5. 0 .. N \subseteq S
  <2>. HIDE DEF S
  <2>. QED BY <1>3, <1>4, InductiveUpTo
<1>. QED BY <1>1, <1>5

\* A byte plus one, and the maximal ones after it back to 0: the number plus one
LEMMA CarryIsOneMore ==
    ASSUME NEW N \in Nat, NEW s \in [1 .. N -> Byte], NEW t \in [1 .. N -> Byte],
           NEW k \in 1 .. N, t[k] = s[k] + 1,
           \A i \in 1 .. N : /\ i < k => t[i] = s[i]
                             /\ i > k => s[i] = Radix - 1 /\ t[i] = 0
    PROVE  BigEndian(t) = BigEndian(s) + 1
<1>1. PICK v : IsValue(v, s, N) /\ BigEndian(s) = v[N]
  BY BigEndianIsLast
<1>2. PICK w : IsValue(w, t, N) /\ BigEndian(t) = w[N]
  BY BigEndianIsLast
<1>3. /\ Radix \in Nat \ {0}
      /\ \A i \in 1 .. N : s[i] \in 0 .. Radix - 1
      /\ \A i \in 0 .. N : v[i] \in Nat /\ w[i] \in Nat
  BY <1>1, <1>2, NewMessageAssumption DEF Byte, IsValue
<1> DEFINE S == {i \in 0 .. N : w[i] = IF i < k THEN v[i] ELSE v[i] + 1}
<1>4. 0 \in S
  BY <1>1, <1>2 DEF IsValue
<1>5. ASSUME NEW i \in 0 .. N - 1, i \in S PROVE i + 1 \in S
  <2>1. i + 1 \in 1 .. N /\ (i + 1) - 1 = i /\ i + 1 \in 0 .. N /\ i \in 0 .. N
    OBVIOUS
  <2>2. v[i + 1] = Radix * v[i] + s[i + 1] /\ w[i + 1] = Radix * w[i] + t[i + 1]
    BY <1>1, <1>2, <2>1 DEF IsValue
  <2>3. v[i] \in Nat /\ w[i] \in Nat /\ s[i + 1] \in Nat
    BY <1>3, <2>1
  <2>. HIDE DEF Radix
  <2>4. CASE i + 1 < k
    <3>1. t[i + 1] = s[i + 1] /\ w[i] = v[i]
      BY <1>5, <2>1, <2>4
    <3>2. w[i + 1] = v[i + 1]
      BY <2>2, <3>1
    <3>. QED BY <2>1, <2>4, <3>2
  <2>5. CASE i + 1 = k
    <3>1. t[i + 1] = s[i + 1] + 1 /\ w[i] = v[i]
      BY <1>5, <2>5
    <3>2. Radix * v[i] \in Nat
      BY <1>3, <2>3
    <3>3. w[i + 1] = v[i + 1] + 1
      BY <2>2, <2>3, <3>1, <3>2
    <3>. QED BY <2>1, <2>5, <3>3
  <2>6. CASE i + 1 > k
    <3>1. s[i + 1] = Radix - 1 /\ t[i + 1] = 0 /\ w[i] = v[i] + 1
      BY <1>5, <2>1, <2>6
    <3>2. Radix * (v[i] + 1) = Radix * v[i] + Radix /\ Radix * v[i] \in Nat
      BY <1>3, <2>3
    <3>3. w[i + 1] = v[i + 1] + 1
      BY <1>3, <2>2, <3>1, <3>2
    <3>. QED BY <2>1, <2>6, <3>3
  <2>. QED BY <2>4, <2>5, <2>6
<1>6. 0 .. N \subseteq S
  <2>. HIDE DEF S
  <2>. QED BY <1>4, <1>5, InductiveUpTo
<1>7. w[N] = v[N] + 1
  BY <1>6
<1>. QED BY <1>1, <1>2, <1>7

-----------------------------------------------------------------------------
(* Division, and powers of two *)

LEMMA Quotient ==
    ASSUME NEW x \in Nat, NEW d \in Nat \ {0}
    PROVE  x \div d \in Nat /\ x % d \in 0 .. d - 1 /\ x = d * (x \div d) + (x % d)
<1>1. x \in Int /\ d \in Int /\ d > 0
  OBVIOUS
<1>2. x % d \in 0 .. d - 1
  BY <1>1
<1>3. x \div d \in Int
  BY <1>1
<1>4. x = d * (x \div d) + (x % d)
  BY <1>1
<1>5. x \div d >= 0
  BY <1>1
<1>. QED BY <1>2, <1>3, <1>4, <1>5

\* Quotient and rest are what they should be.
LEMMA QuotientIs ==
    ASSUME NEW d \in Nat \ {0}, NEW y \in Nat, NEW z \in Nat,
           NEW r \in 0 .. d - 1, NEW s \in 0 .. d - 1, d * y + r = d * z + s
    PROVE  y = z /\ r = s
<1>1. ASSUME NEW a \in Nat, NEW b \in Nat, a < b, NEW t \in 0 .. d - 1, NEW u \in 0 .. d - 1
      PROVE  d * a + t # d * b + u
  <2>1. PICK e \in Nat : b = a + 1 + e
    <3>1. b - a - 1 \in Nat /\ b = a + 1 + (b - a - 1)
      BY <1>1
    <3>. QED BY <3>1
  <2>2. d * b = d * a + d + d * e
    BY <2>1
  <2>3. d * a \in Nat /\ d * e \in Nat
    OBVIOUS
  <2>. QED BY <2>2, <2>3
<1>2. ~(y < z) /\ ~(z < y)
  BY <1>1
<1>3. y = z
  BY <1>2
<1>4. d * y \in Nat
  OBVIOUS
<1>. QED BY <1>3, <1>4

\* The last bit of x divided by a, and the other ones
LEMMA Halved ==
    ASSUME NEW x \in Nat, NEW a \in Nat \ {0}
    PROVE  x \div a = ((x \div a) % 2) + 2 * (x \div (2 * a))
<1> DEFINE y == x \div a
           s == x % a
           z == y \div 2
           b == y % 2
           w == x \div (2 * a)
           u == x % (2 * a)
<1>1. y \in Nat /\ s \in 0 .. a - 1 /\ x = a * y + s
  BY Quotient
<1>2. z \in Nat /\ b \in 0 .. 1 /\ y = 2 * z + b
  BY <1>1
<1>3. 2 * a \in Nat \ {0}
  OBVIOUS
<1>4. w \in Nat /\ u \in 0 .. (2 * a) - 1 /\ x = (2 * a) * w + u
  BY <1>3, Quotient
<1>. HIDE DEF y, s, z, b, w, u
<1>5. a * y = (2 * a) * z + a * b
  BY <1>2
<1>6. a * b + s \in 0 .. (2 * a) - 1
  <2>1. b = 0 \/ b = 1
    BY <1>2
  <2>2. b = 0 => a * b = 0
    OBVIOUS
  <2>3. b = 1 => a * b = a
    OBVIOUS
  <2>. QED BY <1>1, <2>1, <2>2, <2>3
<1>7. x = (2 * a) * z + (a * b + s)
  <2>1. (2 * a) * z \in Nat /\ a * b \in Nat
    BY <1>2
  <2>. QED BY <1>1, <1>5, <2>1
<1>8. w = z
  <2>1. (2 * a) * w + u = (2 * a) * z + (a * b + s)
    BY <1>4, <1>7
  <2>. QED BY <1>2, <1>3, <1>4, <1>6, <2>1, QuotientIs
<1>. QED BY <1>2, <1>8 DEF y, s, z, b, w

\* The next number: the rest counts up to d.
LEMMA NextQuotient ==
    ASSUME NEW d \in Nat \ {0}, NEW k \in Nat
    PROVE  IF (k % d) + 1 < d
           THEN (k + 1) \div d = k \div d /\ (k + 1) % d = (k % d) + 1
           ELSE (k + 1) \div d = (k \div d) + 1 /\ (k + 1) % d = 0
<1> DEFINE q == k \div d
           p == k % d
           y == (k + 1) \div d
           r == (k + 1) % d
<1>1. q \in Nat /\ p \in 0 .. d - 1 /\ k = d * q + p
  BY Quotient
<1>2. y \in Nat /\ r \in 0 .. d - 1 /\ k + 1 = d * y + r
  <2>1. k + 1 \in Nat
    OBVIOUS
  <2>. QED BY <2>1, Quotient
<1>. HIDE DEF q, p, y, r
<1>3. d * q \in Nat /\ d * y \in Nat
  BY <1>1, <1>2
<1>4. CASE p + 1 < d
  <2>1. p + 1 \in 0 .. d - 1 /\ d * y + r = d * q + (p + 1)
    BY <1>1, <1>2, <1>3, <1>4
  <2>2. y = q /\ r = p + 1
    BY <1>1, <1>2, <2>1, QuotientIs
  <2>. QED BY <1>4, <2>2 DEF q, p, y, r
<1>5. CASE ~(p + 1 < d)
  <2>1. d * (q + 1) = d * q + d
    BY <1>1
  <2>2. 0 \in 0 .. d - 1 /\ d * y + r = d * (q + 1) + 0 /\ q + 1 \in Nat
    BY <1>1, <1>2, <1>3, <1>5, <2>1
  <2>3. y = q + 1 /\ r = 0
    <3> DEFINE zero == 0
               z == q + 1
    <3>1. /\ z \in Nat /\ y \in Nat
          /\ zero \in 0 .. d - 1 /\ r \in 0 .. d - 1 /\ d * y + r = d * z + zero
      BY <1>2, <2>2
    <3>. HIDE DEF z, zero
    <3>2. y = z /\ r = zero
      BY <3>1, QuotientIs
    <3>. QED BY <3>2 DEF z, zero
  <2>. QED BY <1>5, <2>3 DEF q, p, y, r
<1>. QED BY <1>4, <1>5 DEF p

LEMMA PowersAreNat == \A k \in 0 .. Bits * HashLength : 2 ^ k \in Nat \ {0}
<1> DEFINE N == Bits * HashLength
           S == {k \in 0 .. N : 2 ^ k \in Nat \ {0}}
<1>1. N \in Nat
  BY NewMessageAssumption
<1>2. 2 ^ 0 = 1 /\ \A k \in 0 .. N : 2 ^ (k + 1) = 2 * 2 ^ k
  BY PowersOfTwo
<1>. HIDE DEF N
<1>3. 0 \in S
  BY <1>1, <1>2
<1>4. ASSUME NEW k \in 0 .. N - 1, k \in S PROVE k + 1 \in S
  <2>1. k + 1 \in 0 .. N /\ 2 ^ k \in Nat \ {0} /\ 2 ^ (k + 1) = 2 * 2 ^ k
    BY <1>1, <1>2, <1>4
  <2>2. 2 * 2 ^ k \in Nat \ {0}
    BY <2>1
  <2>3. 2 ^ (k + 1) \in Nat \ {0}
    BY <2>1, <2>2
  <2>. QED BY <2>1, <2>3
<1>5. 0 .. N \subseteq S
  <2>. HIDE DEF S
  <2>. QED BY <1>1, <1>3, <1>4, InductiveUpTo
<1>. QED BY <1>5 DEF N

\* Higher powers are multiples of lower ones.
LEMMA PowersDivide ==
    ASSUME NEW j \in 0 .. Bits * HashLength, NEW k \in 0 .. Bits * HashLength, j <= k
    PROVE  \E c \in Nat : 2 ^ k = 2 ^ j * c
<1> DEFINE N == Bits * HashLength
           S == {i \in 0 .. N : j <= i => \E c \in Nat : 2 ^ i = 2 ^ j * c}
<1>1. N \in Nat
  BY NewMessageAssumption
<1>2. \A i \in 0 .. N : 2 ^ (i + 1) = 2 * 2 ^ i
  BY PowersOfTwo
<1>3. \A i \in 0 .. N : 2 ^ i \in Nat
  BY PowersAreNat
<1>4. j \in 0 .. N /\ k \in 0 .. N
  OBVIOUS
<1>. HIDE DEF N
<1>5. 2 ^ j = 2 ^ j * 1
  BY <1>3, <1>4
<1>6. 0 \in S
  <2>1. ASSUME j <= 0 PROVE \E c \in Nat : 2 ^ 0 = 2 ^ j * c
    <3>1. j = 0
      BY <1>1, <1>4, <2>1
    <3>2. 2 ^ 0 = 2 ^ j * 1 /\ 1 \in Nat
      BY <1>5, <3>1
    <3>. QED BY <3>2
  <2>2. 0 \in 0 .. N
    BY <1>1
  <2>. QED BY <2>1, <2>2
<1>7. ASSUME NEW i \in 0 .. N - 1, i \in S PROVE i + 1 \in S
  <2>1. i \in 0 .. N /\ i + 1 \in 0 .. N
    BY <1>1
  <2>2. CASE j = i + 1
    BY <1>5, <2>1, <2>2
  <2>3. CASE j <= i
    <3>1. PICK c \in Nat : 2 ^ i = 2 ^ j * c
      BY <1>7, <2>3
    <3>2. 2 * (2 ^ j * c) = 2 ^ j * (2 * c)
      BY <1>3, <1>4
    <3>3. 2 ^ (i + 1) = 2 ^ j * (2 * c) /\ 2 * c \in Nat
      BY <1>2, <2>1, <3>1, <3>2
    <3>. QED BY <2>1, <3>3
  <2>4. CASE ~(j <= i + 1)
    BY <2>1, <2>4
  <2>. QED BY <1>4, <2>1, <2>2, <2>3, <2>4
<1>8. 0 .. N \subseteq S
  <2>. HIDE DEF S
  <2>. QED BY <1>1, <1>6, <1>7, InductiveUpTo
<1>. QED BY <1>4, <1>8

\* A number that is given by its bits: what is left of it after each of them.
HasBits(rest, bit, N) ==
    /\ rest \in [0 .. N -> Nat] /\ bit \in [0 .. N - 1 -> {0, 1}]
    /\ \A k \in 0 .. N - 1 : rest[k] = bit[k] + 2 * rest[k + 1]

\* Powers of two divide it as far as its bits are zero.
LEMMA ZeroBits ==
    ASSUME NEW rest, NEW bit, HasBits(rest, bit, Bits * HashLength),
           NEW k \in 0 .. Bits * HashLength
    PROVE  (\A j \in 0 .. k - 1 : bit[j] = 0) <=> rest[0] % (2 ^ k) = 0
<1> DEFINE N == Bits * HashLength
           S == {i \in 0 .. N : (\A j \in 0 .. i - 1 : bit[j] = 0) => rest[0] = 2 ^ i * rest[i]}
<1>1. N \in Nat /\ k \in 0 .. N
  BY NewMessageAssumption
<1>2. 2 ^ 0 = 1 /\ \A i \in 0 .. N : 2 ^ (i + 1) = 2 * 2 ^ i
  BY PowersOfTwo
<1>3. \A i \in 0 .. N : 2 ^ i \in Nat \ {0}
  BY PowersAreNat
<1>4. /\ \A i \in 0 .. N : rest[i] \in Nat
      /\ \A i \in 0 .. N - 1 : bit[i] \in {0, 1} /\ rest[i] = bit[i] + 2 * rest[i + 1]
  BY DEF HasBits
<1>5. \A i, j \in 0 .. N : i <= j => \E c \in Nat : 2 ^ j = 2 ^ i * c
  BY PowersDivide
<1>. HIDE DEF N
<1>6. 0 \in S
  <2>1. rest[0] = 1 * rest[0]
    BY <1>1, <1>4
  <2>. QED BY <1>1, <1>2, <2>1
<1>7. ASSUME NEW i \in 0 .. N - 1, i \in S PROVE i + 1 \in S
  <2>1. i \in 0 .. N /\ i + 1 \in 0 .. N /\ i \in 0 .. (i + 1) - 1
    BY <1>1
  <2>2. ASSUME \A j \in 0 .. (i + 1) - 1 : bit[j] = 0
        PROVE  rest[0] = 2 ^ (i + 1) * rest[i + 1]
    <3>1. rest[0] = 2 ^ i * rest[i] /\ bit[i] = 0
      <4>1. \A j \in 0 .. i - 1 : bit[j] = 0
        BY <2>1, <2>2
      <4>. QED BY <1>7, <2>1, <2>2, <4>1
    <3>2. rest[i] = 2 * rest[i + 1] /\ rest[i + 1] \in Nat /\ 2 ^ i \in Nat
      BY <1>3, <1>4, <2>1, <3>1
    <3>3. 2 ^ i * (2 * rest[i + 1]) = (2 * 2 ^ i) * rest[i + 1]
      BY <3>2
    <3>. QED BY <1>2, <2>1, <3>1, <3>2, <3>3
  <2>. QED BY <2>1, <2>2
<1>8. 0 .. N \subseteq S
  <2>. HIDE DEF S
  <2>. QED BY <1>1, <1>6, <1>7, InductiveUpTo
<1>9. rest[0] \in Nat /\ 2 ^ k \in Nat \ {0}
  BY <1>1, <1>3, <1>4
<1>10. ASSUME \A j \in 0 .. k - 1 : bit[j] = 0 PROVE rest[0] % (2 ^ k) = 0
  <2>1. rest[0] = 2 ^ k * rest[k] /\ rest[k] \in Nat
    BY <1>1, <1>4, <1>8, <1>10
  <2> DEFINE d == 2 ^ k
             y == rest[0] \div d
             r == rest[0] % d
             zero == 0
  <2>2. d \in Nat \ {0}
    BY <1>9
  <2>. HIDE DEF d
  <2>3. y \in Nat /\ r \in 0 .. d - 1 /\ rest[0] = d * y + r
    BY <1>9, <2>2, Quotient
  <2>. HIDE DEF y, r
  <2>4. rest[0] = d * rest[k]
    BY <2>1 DEF d
  <2>5. d * rest[k] \in Nat /\ zero \in 0 .. d - 1
    BY <2>1, <2>2
  <2>6. d * rest[k] = d * rest[k] + zero
    BY <2>5
  <2>7. d * y + r = d * rest[k] + zero
    BY <2>3, <2>4, <2>6
  <2>. HIDE DEF zero
  <2>8. r = zero
    BY <2>1, <2>2, <2>3, <2>5, <2>7, QuotientIs
  <2>. QED BY <2>8 DEF r, d, zero
<1>11. ASSUME NEW i \in 0 .. k - 1, bit[i] # 0, rest[0] % (2 ^ k) = 0 PROVE FALSE
  <2> DEFINE T == {j \in 0 .. k - 1 : bit[j] # 0}
  <2>1. PICK j \in T : \A l \in T : j <= l
    <3>1. T \in SUBSET Nat /\ T # {}
      BY <1>1, <1>11
    <3>. HIDE DEF T
    <3>. QED BY <3>1, SomeNatIsLeast
  <2>2. j \in 0 .. N - 1 /\ j \in 0 .. N /\ j + 1 \in 0 .. N /\ j + 1 <= k /\ bit[j] = 1
    BY <1>1, <1>4, <2>1
  <2>3. \A l \in 0 .. j - 1 : bit[l] = 0
    <3>1. ASSUME NEW l \in 0 .. j - 1 PROVE bit[l] = 0
      <4>1. l \in 0 .. k - 1 /\ ~(j <= l)
        BY <1>1, <2>2
      <4>. QED BY <2>1, <4>1
    <3>. QED BY <3>1
  <2>4. rest[0] = 2 ^ j * rest[j] /\ rest[j] = 1 + 2 * rest[j + 1]
    BY <1>4, <1>8, <2>2, <2>3
  <2>5. PICK c \in Nat : 2 ^ k = 2 ^ (j + 1) * c
    BY <1>1, <1>5, <2>2
  <2> DEFINE d == 2 ^ j
             y == rest[0] \div (2 ^ k)
             e == rest[j + 1]
  <2>6. d \in Nat \ {0} /\ e \in Nat /\ 2 ^ k = (2 * d) * c
    BY <1>2, <1>3, <1>4, <2>2, <2>5
  <2>7. y \in Nat /\ rest[0] = 2 ^ k * y + (rest[0] % (2 ^ k))
    BY <1>9, Quotient
  <2>8. rest[0] = 2 ^ k * y
    <3>1. 2 ^ k * y \in Nat
      BY <1>9, <2>7
    <3>. QED BY <1>11, <2>7, <3>1
  <2>9. rest[0] = d * (1 + 2 * e)
    BY <2>4
  <2>. HIDE DEF d, y, e
  <2>10. ((2 * d) * c) * y = d * (2 * (c * y)) /\ c * y \in Nat
    BY <2>6, <2>7
  <2>11. d * (1 + 2 * e) = d * (2 * (c * y))
    BY <2>6, <2>8, <2>9, <2>10
  <2> DEFINE u == 1 + 2 * e
             w == 2 * (c * y)
             zero == 0
  <2>12. u \in Nat /\ w \in Nat /\ zero \in 0 .. d - 1
    BY <2>6, <2>10
  <2>13. d * u = d * w
    BY <2>11
  <2>14. u # w
    <3> DEFINE p == c * y
    <3>1. p \in Nat
      BY <2>10
    <3>. HIDE DEF p
    <3>2. 1 + 2 * e # 2 * p
      BY <2>6, <3>1
    <3>. QED BY <3>2 DEF p
  <2>. HIDE DEF u, w
  <2>15. d * u + zero = d * w + zero
    BY <2>13
  <2>. HIDE DEF zero
  <2>16. u = w
    BY <2>6, <2>12, <2>15, QuotientIs
  <2>. QED BY <2>14, <2>16
<1>12. ASSUME NEW j \in 0 .. k - 1 PROVE bit[j] # 0 => ~(rest[0] % (2 ^ k) = 0)
  BY <1>11
<1>. QED BY <1>10, <1>12

-----------------------------------------------------------------------------
(* The bits of a hash, the first byte the least significant one *)

\* In which byte and where in it NumLeadingZeros looks for bit k, and for the next
\* one.
LEMMA PlaceOfBit ==
    ASSUME NEW k \in 0 .. Bits * HashLength - 1
    PROVE  /\ k \div Bits \in 0 .. HashLength - 1 /\ k % Bits \in 0 .. Bits - 1
           /\ IF (k % Bits) + 1 < Bits
              THEN (k + 1) \div Bits = k \div Bits /\ (k + 1) % Bits = (k % Bits) + 1
              ELSE (k + 1) \div Bits = (k \div Bits) + 1 /\ (k + 1) % Bits = 0
           /\ k + 1 = Bits * HashLength
                <=> (k % Bits) + 1 = Bits /\ (k \div Bits) + 1 = HashLength
<1> DEFINE q == k \div Bits
           p == k % Bits
<1>1. Bits \in Nat \ {0} /\ HashLength \in Nat \ {0} /\ Bits * HashLength \in Nat
  BY NewMessageAssumption
<1>2. k \in Nat /\ k + 1 <= Bits * HashLength
  BY <1>1
<1>3. q \in Nat /\ p \in 0 .. Bits - 1 /\ k = Bits * q + p
  BY <1>1, <1>2, Quotient
<1>4. IF p + 1 < Bits
      THEN (k + 1) \div Bits = q /\ (k + 1) % Bits = p + 1
      ELSE (k + 1) \div Bits = q + 1 /\ (k + 1) % Bits = 0
  BY <1>1, <1>2, NextQuotient
<1>. HIDE DEF q, p
<1>5. q <= HashLength - 1
  <2>. SUFFICES ASSUME q >= HashLength PROVE FALSE
    BY <1>1, <1>3
  <2>1. PICK e \in Nat : q = HashLength + e
    <3>1. q - HashLength \in Nat /\ q = HashLength + (q - HashLength)
      BY <1>1, <1>3
    <3>. QED BY <3>1
  <2>2. Bits * q = Bits * HashLength + Bits * e /\ Bits * e \in Nat
    BY <1>1, <2>1
  <2>. QED BY <1>1, <1>2, <1>3, <2>2
<1>6. k + 1 = Bits * HashLength <=> p + 1 = Bits /\ q + 1 = HashLength
  <2>1. Bits * (q + 1) = Bits * q + Bits /\ Bits * q \in Nat
    BY <1>1, <1>3
  <2>2. p + 1 = Bits /\ q + 1 = HashLength => k + 1 = Bits * HashLength
    BY <1>1, <1>3, <2>1
  <2>3. ASSUME k + 1 = Bits * HashLength PROVE q + 1 = HashLength
    <3>. SUFFICES ASSUME q + 1 # HashLength PROVE FALSE
      OBVIOUS
    <3>1. PICK e \in Nat : HashLength = q + 2 + e
      <4>1. HashLength - q - 2 \in Nat /\ HashLength = q + 2 + (HashLength - q - 2)
        BY <1>1, <1>3, <1>5
      <4>. QED BY <4>1
    <3>2. Bits * HashLength = Bits * q + Bits + Bits + Bits * e /\ Bits * e \in Nat
      BY <1>1, <1>3, <3>1
    <3>. QED BY <1>1, <1>3, <2>1, <2>3, <3>2
  <2>4. k + 1 = Bits * HashLength => p + 1 = Bits
    <3>1. k + 1 = Bits * HashLength => Bits * (q + 1) = Bits * HashLength
      BY <2>3
    <3>. QED BY <1>1, <1>3, <2>1, <3>1
  <2>. QED BY <2>2, <2>3, <2>4
<1>. QED BY <1>1, <1>3, <1>4, <1>5, <1>6 DEF q, p

\* They are those of the little-endian number.
LEMMA BitsOfHash ==
    ASSUME NEW h \in Hash
    PROVE  \E rest, bit : /\ HasBits(rest, bit, Bits * HashLength)
                          /\ rest[0] = LittleEndian(h)
                          /\ \A k \in 0 .. Bits * HashLength - 1 : bit[k] = Bit(h, k)
<1> DEFINE N == Bits * HashLength
           g == Reverse(h)
<1>1. /\ Bits \in Nat \ {0} /\ HashLength \in Nat \ {0} /\ N \in Nat \ {0}
      /\ Radix \in Nat \ {0} /\ Radix = 2 ^ Bits
  BY NewMessageAssumption DEF Radix
<1>2. /\ g \in [1 .. HashLength -> Byte]
      /\ \A i \in 1 .. HashLength : g[i] = h[HashLength - i + 1]
  BY <1>1, ReverseIs DEF Hash
<1>3. PICK v : IsValue(v, g, HashLength) /\ LittleEndian(h) = v[HashLength]
  BY <1>1, <1>2, BigEndianIsLast DEF LittleEndian
<1>. HIDE DEF g
<1> DEFINE above(q) == v[HashLength - q]
           left(q, p) == (h[q + 1] \div (2 ^ p)) + 2 ^ (Bits - p) * above(q + 1)
<1>4. ASSUME NEW q \in 0 .. HashLength - 1
      PROVE  /\ h[q + 1] \in 0 .. Radix - 1
             /\ above(q) \in Nat /\ above(q + 1) \in Nat
             /\ above(q) = Radix * above(q + 1) + h[q + 1]
  <2> DEFINE i == HashLength - q
  <2>1. i \in 1 .. HashLength /\ HashLength - i + 1 = q + 1 /\ HashLength - (q + 1) = i - 1
        /\ i \in 0 .. HashLength /\ i - 1 \in 0 .. HashLength /\ q + 1 \in 1 .. HashLength
    BY <1>1
  <2>. HIDE DEF i
  <2>2. v[i] = Radix * v[i - 1] + g[i] /\ v[i] \in Nat /\ v[i - 1] \in Nat
    BY <1>3, <2>1 DEF IsValue
  <2>3. g[i] = h[q + 1] /\ h[q + 1] \in 0 .. Radix - 1
    BY <1>2, <2>1 DEF Hash, Byte
  <2>. QED BY <2>1, <2>2, <2>3 DEF i
<1>5. above(0) = LittleEndian(h) /\ above(HashLength) = 0
  BY <1>1, <1>3 DEF IsValue
<1>. HIDE DEF above
<1>6. /\ 2 ^ 0 = 1
      /\ \A p \in 0 .. Bits : 2 ^ p \in Nat \ {0} /\ 2 ^ (p + 1) = 2 * 2 ^ p
  <2>1. \A p \in 0 .. Bits : p \in 0 .. N
    <3>1. Bits <= Bits * HashLength
      <4>1. HashLength - 1 \in Nat /\ Bits * HashLength = Bits + Bits * (HashLength - 1)
        BY <1>1
      <4>2. Bits * (HashLength - 1) \in Nat
        BY <1>1, <4>1
      <4>. QED BY <1>1, <4>1, <4>2
    <3>. QED BY <1>1, <3>1
  <2>. QED BY <2>1, PowersOfTwo, PowersAreNat
<1>7. ASSUME NEW q \in 0 .. HashLength - 1
      PROVE  left(q, 0) = above(q)
  <2> DEFINE x == h[q + 1]
             y == above(q + 1)
  <2>1. x \in Nat /\ y \in Nat /\ above(q) = Radix * y + x
    BY <1>1, <1>4
  <2>2. Bits - 0 = Bits
    BY <1>1
  <2>3. left(q, 0) = (x \div 1) + Radix * y
    BY <1>1, <1>6, <2>2
  <2>. HIDE DEF x, y, left
  <2>4. x \div 1 = x
    BY <2>1
  <2>5. Radix * y \in Nat
    BY <1>1, <2>1
  <2>. QED BY <2>1, <2>3, <2>4, <2>5
<1>8. ASSUME NEW q \in 0 .. HashLength - 1, NEW p \in 0 .. Bits - 1
      PROVE  /\ left(q, p) \in Nat
             /\ left(q, p) = ((h[q + 1] \div (2 ^ p)) % 2)
                  + 2 * (IF p + 1 < Bits THEN left(q, p + 1) ELSE above(q + 1))
  <2> DEFINE x == h[q + 1]
             a == 2 ^ p
             c == 2 ^ (Bits - (p + 1))
             y == above(q + 1)
             b == (x \div a) % 2
             z == x \div (2 * a)
  <2>1. /\ p \in 0 .. Bits /\ p + 1 \in 0 .. Bits /\ Bits - (p + 1) \in 0 .. Bits
        /\ (Bits - (p + 1)) + 1 = Bits - p
    BY <1>1
  <2>2. /\ a \in Nat \ {0} /\ c \in Nat \ {0} /\ 2 ^ (p + 1) = 2 * a /\ 2 ^ (Bits - p) = 2 * c
    BY <1>6, <2>1
  <2>3. x \in Nat /\ x < Radix /\ y \in Nat
    BY <1>1, <1>4
  <2>4. left(q, p) = (x \div a) + (2 * c) * y
    BY <2>2
  <2>5. left(q, p + 1) = z + c * y
    BY <2>2
  <2>. HIDE DEF x, a, c, y, left
  <2>6. x \div a = b + 2 * z
    BY <2>2, <2>3, Halved
  <2>7. b \in {0, 1} /\ z \in Nat /\ x \div a \in Nat
    <3>1. x \div a \in Nat
      BY <2>2, <2>3, Quotient
    <3>2. 2 * a \in Nat \ {0}
      BY <2>2
    <3>3. z \in Nat
      BY <2>3, <3>2, Quotient
    <3>. QED BY <3>1, <3>3
  <2>. HIDE DEF b, z
  <2>8. (2 * c) * y = 2 * (c * y) /\ c * y \in Nat
    BY <2>2, <2>3
  <2>9. left(q, p) = b + 2 * (z + c * y) /\ left(q, p) \in Nat
    BY <2>4, <2>6, <2>7, <2>8
  <2>10. CASE p + 1 < Bits
    BY <2>5, <2>9, <2>10 DEF b, x, a
  <2>11. CASE ~(p + 1 < Bits)
    <3>1. p + 1 = Bits /\ Bits - (p + 1) = 0
      BY <1>1, <2>11
    <3>2. 2 * a = Radix /\ c = 1
      BY <1>1, <1>6, <2>2, <3>1 DEF c
    <3>3. z = 0
      <4> DEFINE d == Radix
                 s == x % d
                 zero == 0
      <4>1. d \in Nat \ {0} /\ x \in 0 .. d - 1
        BY <1>1, <2>3
      <4>2. z = x \div d
        BY <3>2 DEF z
      <4>. HIDE DEF d
      <4>3. z \in Nat /\ s \in 0 .. d - 1 /\ x = d * z + s
        BY <2>3, <4>1, <4>2, Quotient
      <4>4. d * zero + x = d * z + s /\ zero \in Nat
        BY <2>3, <4>1, <4>3
      <4>. HIDE DEF s, zero
      <4>5. zero = z
        BY <4>1, <4>3, <4>4, QuotientIs
      <4>. QED BY <4>5 DEF zero
    <3>4. z + c * y = y
      BY <2>3, <3>2, <3>3
    <3>. QED BY <2>9, <2>11, <3>4 DEF b, x, a, y
  <2>. QED BY <2>10, <2>11
<1>. HIDE DEF left
<1> DEFINE rest == [k \in 0 .. N |-> IF k = N THEN 0 ELSE left(k \div Bits, k % Bits)]
           bit == [k \in 0 .. N - 1 |-> Bit(h, k)]
<1>9. ASSUME NEW k \in 0 .. N - 1
      PROVE  /\ rest[k] \in Nat /\ bit[k] \in {0, 1} /\ bit[k] = Bit(h, k)
             /\ rest[k] = bit[k] + 2 * rest[k + 1]
  <2> DEFINE q == k \div Bits
             p == k % Bits
  <2>1. k \in 0 .. N /\ k # N /\ k + 1 \in 0 .. N /\ k \in 0 .. N - 1
    BY <1>1
  <2>2. q \in 0 .. HashLength - 1 /\ p \in 0 .. Bits - 1
    BY <1>1, PlaceOfBit
  <2>3. rest[k] = left(q, p) /\ bit[k] = Bit(h, k) /\ Bit(h, k) = (h[q + 1] \div (2 ^ p)) % 2
    BY <2>1 DEF Bit
  <2>4. rest[k + 1] = IF p + 1 < Bits THEN left(q, p + 1) ELSE above(q + 1)
    <3>1. CASE k + 1 = N
      <4>1. p + 1 = Bits /\ q + 1 = HashLength
        BY <3>1, PlaceOfBit
      <4>2. rest[k + 1] = 0
        BY <2>1, <3>1
      <4>3. ~(p + 1 < Bits)
        BY <1>1, <4>1
      <4>. QED BY <1>5, <4>1, <4>2, <4>3
    <3>2. CASE k + 1 # N
      <4>1. k + 1 < N
        BY <1>1, <2>1, <3>2
      <4>2. rest[k + 1] = left((k + 1) \div Bits, (k + 1) % Bits)
        BY <2>1, <3>2
      <4>3. IF p + 1 < Bits
            THEN (k + 1) \div Bits = q /\ (k + 1) % Bits = p + 1
            ELSE (k + 1) \div Bits = q + 1 /\ (k + 1) % Bits = 0
        BY <4>1, PlaceOfBit
      <4>4. CASE p + 1 < Bits
        BY <4>2, <4>3, <4>4
      <4>5. CASE ~(p + 1 < Bits)
        <5>1. q + 1 \in 0 .. HashLength - 1
          <6>1. k + 1 \in 0 .. N - 1
            BY <1>1, <2>1, <4>1
          <6>2. (k + 1) \div Bits \in 0 .. HashLength - 1
            BY <6>1, PlaceOfBit
          <6>. QED BY <4>3, <4>5, <6>2
        <5>2. rest[k + 1] = left(q + 1, 0)
          BY <4>2, <4>3, <4>5
        <5>. QED BY <1>7, <4>5, <5>1, <5>2
      <4>. QED BY <4>4, <4>5
    <3>. QED BY <3>1, <3>2
  <2>5. left(q, p) \in Nat
    BY <1>8, <2>2
  <2>6. left(q, p) = ((h[q + 1] \div (2 ^ p)) % 2)
          + 2 * (IF p + 1 < Bits THEN left(q, p + 1) ELSE above(q + 1))
    BY <1>8, <2>2
  <2>7. (h[q + 1] \div (2 ^ p)) % 2 \in {0, 1}
    <3> DEFINE x == h[q + 1] \div (2 ^ p)
    <3>1. h[q + 1] \in Nat /\ 2 ^ p \in Nat \ {0}
      BY <1>1, <1>4, <1>6, <2>2
    <3>2. x \in Nat
      BY <3>1, Quotient
    <3>. HIDE DEF x
    <3>3. x % 2 \in {0, 1}
      BY <3>2
    <3>. QED BY <3>3 DEF x
  <2>. HIDE DEF q, p, rest, bit
  <2>. QED BY <2>3, <2>4, <2>5, <2>6, <2>7
<1>10. rest \in [0 .. N -> Nat] /\ bit \in [0 .. N - 1 -> {0, 1}]
  <2>1. rest[N] = 0 /\ \A k \in 0 .. N : k = N \/ k \in 0 .. N - 1
    BY <1>1
  <2>2. rest = [k \in 0 .. N |-> rest[k]] /\ bit = [k \in 0 .. N - 1 |-> bit[k]]
    OBVIOUS
  <2>. HIDE DEF rest, bit, N
  <2>3. \A k \in 0 .. N : rest[k] \in Nat
    BY <1>9, <2>1
  <2>4. \A k \in 0 .. N - 1 : bit[k] \in {0, 1}
    BY <1>9
  <2>. QED BY <2>2, <2>3, <2>4
<1>11. rest[0] = LittleEndian(h)
  <2>1. 0 \in 0 .. N /\ 0 # N /\ 0 \in 0 .. HashLength - 1
    BY <1>1
  <2>2. 0 \div Bits = 0 /\ 0 % Bits = 0
    BY <1>1
  <2>. QED BY <1>5, <1>7, <2>1, <2>2
<1>12. HasBits(rest, bit, N) /\ \A k \in 0 .. N - 1 : bit[k] = Bit(h, k)
  <2>. HIDE DEF rest, bit
  <2>. QED BY <1>9, <1>10 DEF HasBits
<1>. HIDE DEF rest, bit
<1>. QED BY <1>11, <1>12 DEF N

\* The first bit that is set ends the count.
LEMMA ZerosAreCounted ==
    ASSUME NEW h, NEW k \in 0 .. Bits * HashLength
    PROVE  NumLeadingZeros(h) >= k <=> \A j \in 0 .. k - 1 : Bit(h, j) # 1
<1> DEFINE N == Bits * HashLength
           T == {j \in 0 .. N - 1 : Bit(h, j) = 1} \cup {N}
           m == NumLeadingZeros(h)
<1>1. N \in Nat /\ k \in 0 .. N
  BY NewMessageAssumption
<1>2. m = Min(T)
  BY DEF NumLeadingZeros
<1>. HIDE DEF N, m
<1>3. m \in T /\ \A j \in T : m <= j
  <2>1. T \in SUBSET Nat /\ T # {}
    BY <1>1
  <2>2. \E i \in T : \A j \in T : i <= j
    BY <2>1, SomeNatIsLeast
  <2>. HIDE DEF T
  <2>. QED BY <1>2, <2>2 DEF Min
<1>4. ASSUME m >= k, NEW j \in 0 .. k - 1 PROVE Bit(h, j) # 1
  <2>1. j \in 0 .. N - 1 /\ ~(m <= j)
    BY <1>1, <1>3, <1>4
  <2>. QED BY <1>3, <2>1
<1>5. ASSUME ~(m >= k) PROVE \E j \in 0 .. k - 1 : Bit(h, j) = 1
  <2>1. m \in 0 .. k - 1 /\ m # N
    BY <1>1, <1>3, <1>5
  <2>. QED BY <1>3, <2>1
<1>. QED BY <1>4, <1>5 DEF m

-----------------------------------------------------------------------------
(* The content of a private message *)

\* What a content is made of
Piece == [byte : Nat] \cup [for : Node, text : Text, at : Nat]

\* Two bytes tell every number below Radix * Radix (binary.LittleEndian).
LEMMA TwoBytes ==
    ASSUME NEW r \in Nat \ {0}, NEW v \in Nat, v < r * r
    PROVE  /\ v % r \in Nat /\ (v \div r) % r \in Nat
           /\ (v % r) + r * ((v \div r) % r) = v
<1> DEFINE q == v \div r
<1>1. q \in Nat /\ v % r \in 0 .. r - 1 /\ v = r * q + (v % r)
  <2>1. r \in Int /\ v \in Int /\ r > 0
    OBVIOUS
  <2>2. v % r \in 0 .. r - 1
    BY <2>1
  <2>3. q \in Int
    BY <2>1
  <2>4. v = r * q + (v % r)
    BY <2>1
  <2>. QED BY <2>2, <2>3, <2>4
<1>2. q < r
  <2>1. r * q < r * r
    BY <1>1
  <2>. HIDE DEF q
  <2>2. CASE q >= r
    <3>1. r * q >= r * r
      BY <1>1, <2>2
    <3>. QED BY <1>1, <2>1, <3>1
  <2>. QED BY <1>1, <2>2
<1>3. q % r = q
  BY <1>1, <1>2
<1>. QED BY <1>1, <1>3

\* One sequence of pieces after another, and a part of one
LEMMA Joined ==
    ASSUME NEW s \in Seq(Piece), NEW t \in Seq(Piece)
    PROVE  /\ s \o t \in Seq(Piece) /\ Len(s \o t) = Len(s) + Len(t)
           /\ \A i \in 1 .. Len(s) + Len(t) :
                 (s \o t)[i] = IF i <= Len(s) THEN s[i] ELSE t[i - Len(s)]
BY ConcatProperties

LEMMA Part ==
    ASSUME NEW s \in Seq(Piece), NEW i \in Nat \ {0}, NEW k \in Nat, i + k - 1 <= Len(s)
    PROVE  /\ SubSeq(s, i, i + k - 1) \in Seq(Piece) /\ Len(SubSeq(s, i, i + k - 1)) = k
           /\ \A j \in 1 .. k : SubSeq(s, i, i + k - 1)[j] = s[i + j - 1]
OBVIOUS

LEMMA CiphertextIsSeq ==
    ASSUME NEW n \in Node, NEW t \in Text
    PROVE  /\ ChunkLength \in Nat \ {0}
           /\ Encrypt(n, t) \in Seq(Piece) /\ Len(Encrypt(n, t)) = ChunkLength
           /\ \A i \in 1 .. ChunkLength :
                 Encrypt(n, t)[i] = [for |-> n, text |-> t, at |-> i]
<1>1. ChunkLength \in Nat \ {0}
  BY NewMessageAssumption
<1>2. Encrypt(n, t) \in [1 .. ChunkLength -> Piece]
  BY <1>1 DEF Encrypt, Piece
<1>. QED BY <1>1, <1>2 DEF Encrypt

\* Only its addressee can read a ciphertext.
LEMMA OnlyAddressee ==
    ASSUME NEW n \in Node, NEW d \in Node, NEW t \in Text
    PROVE  Decrypt(n, Encrypt(d, t)) = IF n = d THEN t ELSE Unable
<1>1. ChunkLength \in Nat \ {0} /\ Encrypt(d, t)[1] = [for |-> d, text |-> t, at |-> 1]
  BY CiphertextIsSeq
<1>2. CASE n = d
  BY <1>1, <1>2 DEF Decrypt
<1>3. CASE n # d
  <2>1. ASSUME NEW u \in Text PROVE Encrypt(d, t) # Encrypt(n, u)
    <3>1. Encrypt(n, u)[1] = [for |-> n, text |-> u, at |-> 1]
      BY <1>1, CiphertextIsSeq
    <3>. QED BY <1>1, <1>3, <3>1
  <2>. QED BY <1>3, <2>1 DEF Decrypt
<1>. QED BY <1>2, <1>3

\* The reader finds the split point and both halves again.
LEMMA ContentIsSplit ==
    ASSUME NEW n \in Node, NEW d \in Node, NEW t \in Text, d # Everyone
    PROVE  LET c == Content(n, d, t) IN
           /\ SplitPoint(c) = ChunkLength /\ Len(c) = 2 + 2 * ChunkLength
           /\ SubSeq(c, 3, 2 + ChunkLength) = Encrypt(n, t)
           /\ SubSeq(c, 3 + ChunkLength, Len(c)) = Encrypt(d, t)
<1> DEFINE l == LengthBytes(ChunkLength)
           own == Encrypt(n, t)
           other == Encrypt(d, t)
           c == Content(n, d, t)
<1>1. /\ ChunkLength \in Nat \ {0}
      /\ own \in Seq(Piece) /\ Len(own) = ChunkLength
      /\ other \in Seq(Piece) /\ Len(other) = ChunkLength
  BY CiphertextIsSeq
<1>2. /\ ChunkLength % Radix \in Nat /\ (ChunkLength \div Radix) % Radix \in Nat
      /\ (ChunkLength % Radix) + Radix * ((ChunkLength \div Radix) % Radix) = ChunkLength
  <2>1. Radix \in Nat \ {0} /\ 2 + ChunkLength < Radix * Radix
    BY NewMessageAssumption
  <2>2. Radix * Radix \in Nat
    BY <2>1
  <2>3. ChunkLength < Radix * Radix
    BY <1>1, <2>1, <2>2
  <2>. QED BY <1>1, <2>1, <2>3, TwoBytes
<1>3. /\ l \in Seq(Piece) /\ Len(l) = 2
      /\ l[1].byte = ChunkLength % Radix /\ l[2].byte = (ChunkLength \div Radix) % Radix
  BY <1>2 DEF LengthBytes, Piece
<1>. HIDE DEF l, own, other
<1>4. /\ l \o own \in Seq(Piece) /\ Len(l \o own) = 2 + ChunkLength
      /\ \A i \in 1 .. 2 + ChunkLength : (l \o own)[i] = IF i <= 2 THEN l[i] ELSE own[i - 2]
  <2>1. /\ l \o own \in Seq(Piece) /\ Len(l \o own) = Len(l) + Len(own)
        /\ \A i \in 1 .. Len(l) + Len(own) :
              (l \o own)[i] = IF i <= Len(l) THEN l[i] ELSE own[i - Len(l)]
    BY <1>1, <1>3, Joined, Zenon
  <2>. QED BY <1>1, <1>3, <2>1, Zenon
<1>5. c = (l \o own) \o other
  BY DEF Content, l, own, other
<1>. HIDE DEF c
<1>6. /\ c \in Seq(Piece) /\ Len(c) = 2 + 2 * ChunkLength
      /\ \A i \in 1 .. 2 + 2 * ChunkLength :
            c[i] = IF i <= 2 + ChunkLength THEN (l \o own)[i] ELSE other[i - (2 + ChunkLength)]
  <2> DEFINE first == l \o own
  <2>. HIDE DEF first
  <2>1. first \in Seq(Piece) /\ Len(first) = 2 + ChunkLength
    BY <1>4 DEF first
  <2>2. /\ first \o other \in Seq(Piece) /\ Len(first \o other) = Len(first) + Len(other)
        /\ \A i \in 1 .. Len(first) + Len(other) :
              (first \o other)[i] = IF i <= Len(first) THEN first[i] ELSE other[i - Len(first)]
    BY <1>1, <2>1, Joined, Zenon
  <2>3. c = first \o other
    BY <1>5 DEF first
  <2>4. 2 + ChunkLength + ChunkLength = 2 + 2 * ChunkLength
    BY <1>1
  <2>. QED BY <1>1, <2>1, <2>2, <2>3, <2>4, Zenon DEF first
<1>7. SplitPoint(c) = ChunkLength
  <2>1. c[1] = l[1] /\ c[2] = l[2]
    BY <1>1, <1>4, <1>6
  <2>. QED BY <1>2, <1>3, <2>1 DEF SplitPoint
<1>8. SubSeq(c, 3, 2 + ChunkLength) = own
  <2> DEFINE s == SubSeq(c, 3, 3 + ChunkLength - 1)
  <2>1. /\ s \in Seq(Piece) /\ Len(s) = ChunkLength
        /\ \A i \in 1 .. ChunkLength : s[i] = c[3 + i - 1]
    BY <1>1, <1>6, Part
  <2>2. \A i \in 1 .. ChunkLength : c[3 + i - 1] = own[i]
    <3>1. ASSUME NEW i \in 1 .. ChunkLength PROVE c[3 + i - 1] = own[i]
      <4>1. 3 + i - 1 \in 3 .. 2 + ChunkLength /\ 3 + i - 1 - 2 = i
        BY <1>1
      <4>. QED BY <1>1, <1>4, <1>6, <4>1
    <3>. QED BY <3>1
  <2>3. 3 + ChunkLength - 1 = 2 + ChunkLength
    BY <1>1
  <2>. HIDE DEF s
  <2>4. s = own
    BY <1>1, <2>1, <2>2, SeqEqual
  <2>. QED BY <2>3, <2>4 DEF s
<1>9. SubSeq(c, 3 + ChunkLength, Len(c)) = other
  <2> DEFINE i0 == 3 + ChunkLength
             s == SubSeq(c, i0, i0 + ChunkLength - 1)
  <2>1. i0 \in Nat \ {0} /\ i0 + ChunkLength - 1 = Len(c)
    BY <1>1, <1>6
  <2>. HIDE DEF i0
  <2>2. /\ s \in Seq(Piece) /\ Len(s) = ChunkLength
        /\ \A i \in 1 .. ChunkLength : s[i] = c[i0 + i - 1]
    BY <1>1, <1>6, <2>1, Part
  <2>3. \A i \in 1 .. ChunkLength : c[i0 + i - 1] = other[i]
    <3>1. ASSUME NEW i \in 1 .. ChunkLength PROVE c[i0 + i - 1] = other[i]
      <4>1. PICK j \in 1 .. 2 + 2 * ChunkLength :
               j = i0 + i - 1 /\ ~(j <= 2 + ChunkLength) /\ j - (2 + ChunkLength) = i
        BY <1>1 DEF i0
      <4>2. c[j] = other[j - (2 + ChunkLength)]
        BY <1>6, <4>1
      <4>. QED BY <4>1, <4>2
    <3>. QED BY <3>1
  <2>. HIDE DEF s
  <2>4. s = other
    BY <1>1, <2>2, <2>3, SeqEqual
  <2>. QED BY <2>1, <2>4 DEF s, i0
<1>. QED BY <1>6, <1>7, <1>8, <1>9 DEF c, own, other

-----------------------------------------------------------------------------
(* The search of the nonce and the message that is posted *)

\* Counting stays within the bytes of a nonce, also when it wraps around.
LEMMA IncrementedIsNonce ==
    ASSUME NEW s \in Nonce
    PROVE  Incremented(s) \in Nonce
<1> DEFINE T == {i \in 1 .. NonceLength : s[i] < Radix - 1} \cup {NonceLength + 1}
           k == Min(T)
<1>1. NonceLength \in Nat /\ Radix \in Nat \ {0}
  BY NewMessageAssumption
<1>2. T \in SUBSET Nat /\ T # {}
  BY <1>1
<1>3. k \in T
  <2>1. \E i \in T : \A j \in T : i <= j
    BY <1>2, SomeNatIsLeast
  <2>. HIDE DEF T
  <2>. QED BY <2>1 DEF Min
<1>4. Incremented(s) = [i \in 1 .. NonceLength |->
                          IF i < k THEN 0 ELSE IF i = k THEN s[i] + 1 ELSE s[i]]
  BY DEF Incremented
<1>5. ASSUME NEW i \in 1 .. NonceLength
      PROVE  (IF i < k THEN 0 ELSE IF i = k THEN s[i] + 1 ELSE s[i]) \in 0 .. Radix - 1
  <2>1. s[i] \in 0 .. Radix - 1
    BY DEF Nonce, Byte
  <2>2. i = k => s[i] < Radix - 1
    BY <1>1, <1>3
  <2>. HIDE DEF k
  <2>. QED BY <1>1, <2>1, <2>2
<1>. HIDE DEF k
<1>. QED BY <1>4, <1>5 DEF Nonce, Byte

\* The increment of message.go:127 adds one, until it starts again from zero.
LEMMA IncrementedIsNext ==
    ASSUME NEW s \in Nonce
    PROVE  LittleEndian(Incremented(s)) \in {LittleEndian(s) + 1, 0}
<1> DEFINE T == {i \in 1 .. NonceLength : s[i] < Radix - 1} \cup {NonceLength + 1}
           k == Min(T)
           t == Incremented(s)
           N == NonceLength
<1>1. N \in Nat /\ Radix \in Nat \ {0} /\ t \in Nonce
  BY NewMessageAssumption, IncrementedIsNonce
<1>2. T \in SUBSET Nat /\ T # {}
  BY <1>1
<1>3. k \in T /\ \A j \in T : k <= j
  <2>1. \E i \in T : \A j \in T : i <= j
    BY <1>2, SomeNatIsLeast
  <2>. HIDE DEF T
  <2>. QED BY <2>1 DEF Min
<1>4. t = [i \in 1 .. N |-> IF i < k THEN 0 ELSE IF i = k THEN s[i] + 1 ELSE s[i]]
  BY DEF Incremented
<1>5. ASSUME NEW i \in 1 .. N, i < k PROVE s[i] = Radix - 1
  <2>1. i \notin T
    BY <1>2, <1>3, <1>5
  <2>2. s[i] \in 0 .. Radix - 1
    BY DEF Nonce, Byte
  <2>. QED BY <1>1, <2>1, <2>2
<1>6. k \in 1 .. N + 1
  BY <1>1, <1>3
<1>. HIDE DEF t, k, T
<1> DEFINE rs == Reverse(s)
           rt == Reverse(t)
<1>7. /\ rs \in [1 .. N -> Byte] /\ rt \in [1 .. N -> Byte]
      /\ \A i \in 1 .. N : rs[i] = s[N - i + 1] /\ rt[i] = t[N - i + 1]
  BY <1>1, ReverseBytes
<1>8. LittleEndian(s) = BigEndian(rs) /\ LittleEndian(t) = BigEndian(rt)
  BY DEF LittleEndian
<1>. HIDE DEF rs, rt
<1>9. CASE k = N + 1
  <2>1. \A i \in 1 .. N : N - i + 1 \in 1 .. N /\ N - i + 1 < k
    BY <1>1, <1>9
  <2>2. \A i \in 1 .. N : rt[i] = 0
    BY <1>4, <1>7, <2>1
  <2>3. BigEndian(rt) = 0
    BY <1>1, <1>7, <2>2, ZeroIsZero
  <2>. QED BY <1>8, <2>3 DEF t
<1>10. CASE k \in 1 .. N
  <2> DEFINE p == N - k + 1
  <2>1. p \in 1 .. N /\ N - p + 1 = k
    BY <1>1, <1>10
  <2>2. ASSUME NEW i \in 1 .. N
        PROVE  /\ N - i + 1 \in 1 .. N
               /\ i < p => N - i + 1 > k
               /\ i > p => N - i + 1 < k
    BY <1>1, <1>10
  <2>. HIDE DEF p
  <2>3. rt[p] = rs[p] + 1
    BY <1>4, <1>6, <1>7, <1>10, <2>1
  <2>4. ASSUME NEW i \in 1 .. N
        PROVE  /\ i < p => rt[i] = rs[i]
               /\ i > p => rs[i] = Radix - 1 /\ rt[i] = 0
    <3> DEFINE j == N - i + 1
    <3>1. j \in 1 .. N /\ (i < p => j > k) /\ (i > p => j < k)
      BY <2>2
    <3>2. rs[i] = s[j] /\ rt[i] = t[j]
      BY <1>7
    <3>. HIDE DEF j
    <3>3. t[j] = IF j < k THEN 0 ELSE IF j = k THEN s[j] + 1 ELSE s[j]
      BY <1>4, <3>1
    <3>4. i < p => rt[i] = rs[i]
      BY <1>1, <1>6, <3>1, <3>2, <3>3
    <3>5. i > p => rs[i] = Radix - 1 /\ rt[i] = 0
      BY <1>5, <3>1, <3>2, <3>3
    <3>. QED BY <3>4, <3>5
  <2>5. BigEndian(rt) = BigEndian(rs) + 1
    BY <1>1, <1>7, <2>1, <2>3, <2>4, CarryIsOneMore
  <2>. QED BY <1>8, <2>5 DEF t
<1>11. k = N + 1 \/ k \in 1 .. N
  BY <1>1, <1>6
<1>. QED BY <1>9, <1>10, <1>11

(***************************************************************************)
(* The message is composed once, with the content of its fields; the       *)
(* search of the nonce leaves them alone.                                  *)
(***************************************************************************)
IInv ==
    /\ TypeOK
    /\ msg = [origin |-> msg.origin, destination |-> msg.destination, text |-> msg.text,
              content |-> msg.content]
    /\ phase # "new" => msg.content = Content(msg.origin, msg.destination, msg.text)

LEMMA MessageInv == Spec => []IInv
<1>1. Init => IInv
  <2>1. ASSUME Init PROVE Zero \in Nonce
    <3>1. 0 \in 0 .. Radix - 1
      BY NewMessageAssumption
    <3>. QED BY <3>1 DEF Zero, Nonce, Byte
  <2>. QED BY <2>1 DEF Init, IInv, TypeOK
<1>2. IInv /\ [Next]_vars => IInv'
  <2>. SUFFICES ASSUME IInv, [Next]_vars PROVE IInv'
    OBVIOUS
  <2>. USE DEF IInv
  <2>1. CASE Compose
    <3>1. msg' = [origin |-> msg.origin, destination |-> msg.destination, text |-> msg.text,
                  content |-> Content(msg.origin, msg.destination, msg.text)]
      BY <2>1 DEF Compose
    <3>2. Zero \in Nonce
      <4>1. 0 \in 0 .. Radix - 1
        BY NewMessageAssumption
      <4>. QED BY <4>1 DEF Zero, Nonce, Byte
    <3>. QED BY <2>1, <3>1, <3>2 DEF Compose, TypeOK
  <2>2. CASE Try
    BY <2>2, IncrementedIsNonce DEF Try, TypeOK
  <2>3. CASE Post
    BY <2>3 DEF Post, TypeOK
  <2>4. CASE UNCHANGED vars
    BY <2>4 DEF vars, TypeOK
  <2>. QED BY <2>1, <2>2, <2>3, <2>4 DEF Next
<1>. QED BY <1>1, <1>2, PTL DEF Spec

-----------------------------------------------------------------------------

\* The nonce is one at every step of the search, for any number of its bytes.
THEOREM NewMessageTypeCorrect == Spec => []TypeOK
BY MessageInv, PTL DEF IInv

\* Where the first half ends is computed without overflow (webserver.go:97, 100).
LEMMA EndIsThere ==
    ASSUME NEW c, SplitPoint(c) = ChunkLength
    PROVE  ChunkEnd(c) = 2 + ChunkLength
<1> DEFINE M == Radix * Radix
           e == 2 + ChunkLength
<1>1. Radix \in Nat \ {0} /\ ChunkLength \in Nat /\ e < M
  BY NewMessageAssumption
<1>2. M \in Nat /\ e \in Nat
  BY <1>1
<1>3. ChunkEnd(c) = e % M
  BY DEF ChunkEnd
<1>. HIDE DEF M, e
<1>4. e % M = e
  BY <1>1, <1>2
<1>. QED BY <1>3, <1>4 DEF e

\* Author and recipient read a private message, each from its own half, and
\* nobody else does (webserver.go:94), for any text, nodes and length of
\* ciphertexts to which 2 can be added in two bytes.
THEOREM ReadersRead == Spec => []ReadersReadTheText
<1>1. ASSUME IInv, phase = "posted", NEW n \in Node
      PROVE  ConvertMessageFormat(n, msg) =
               IF msg.destination \in {Everyone, n} \/ msg.origin = n THEN msg.text ELSE Unable
  <2>1. /\ msg.origin \in Node /\ msg.text \in Text
        /\ msg.destination \in Node \cup {Everyone}
        /\ msg.content = Content(msg.origin, msg.destination, msg.text)
    BY <1>1, NewMessageAssumption DEF IInv, TypeOK
  <2>2. CASE msg.destination = Everyone
    BY <2>1, <2>2 DEF Content, ConvertMessageFormat
  <2>3. CASE msg.destination # Everyone
    <3> DEFINE c == msg.content
    <3>1. /\ SplitPoint(c) = ChunkLength /\ Len(c) = 2 + 2 * ChunkLength
          /\ SubSeq(c, 3, 2 + ChunkLength) = Encrypt(msg.origin, msg.text)
          /\ SubSeq(c, 3 + ChunkLength, Len(c)) = Encrypt(msg.destination, msg.text)
      BY <2>1, <2>3, ContentIsSplit
    <3>2. ChunkLength \in Nat
      BY NewMessageAssumption
    <3>3. ~(Len(c) < 2) /\ ~(SplitPoint(c) >= Len(c))
      <4>1. ~(2 + 2 * ChunkLength < 2) /\ ~(ChunkLength >= 2 + 2 * ChunkLength)
        BY <3>2
      <4>. QED BY <3>1, <4>1, Zenon
    <3>4. Chunk(n, msg) = IF n = msg.origin THEN Encrypt(msg.origin, msg.text)
                                            ELSE Encrypt(msg.destination, msg.text)
      <4>1. ChunkEnd(c) = 2 + ChunkLength
        BY <3>1, EndIsThere
      <4>2. 2 + ChunkLength + 1 = 3 + ChunkLength
        BY <3>2
      <4>. QED BY <3>1, <4>1, <4>2 DEF Chunk
    <3>5. ConvertMessageFormat(n, msg) = Decrypt(n, Chunk(n, msg))
      BY <2>3, <3>3 DEF ConvertMessageFormat
    <3>6. /\ Decrypt(n, Encrypt(msg.origin, msg.text)) = IF n = msg.origin THEN msg.text ELSE Unable
          /\ Decrypt(n, Encrypt(msg.destination, msg.text))
               = IF n = msg.destination THEN msg.text ELSE Unable
      BY <2>1, <2>3, OnlyAddressee
    <3>. QED BY <2>3, <3>4, <3>5, <3>6
  <2>. QED BY <2>2, <2>3
<1>2. IInv => ReadersReadTheText
  BY <1>1 DEF ReadersReadTheText
<1>. QED BY <1>2, MessageInv, PTL

\* Of two hashes CompareHashes finds the lower one as if they were numbers with
\* the first byte as the most significant one, for hashes of any length.
THEOREM HashesAreNumbers == Spec => []HashesAreOrdered
<1>1. ASSUME IInv PROVE HashesAreOrdered
  <2>1. ASSUME NEW s \in Nonce PROVE hash[nonce] \in Hash /\ hash[s] \in Hash
    BY <1>1, NewMessageAssumption DEF IInv, TypeOK
  <2>2. ASSUME NEW s \in Nonce
        PROVE  LET h == BigEndian(hash[nonce])
                   g == BigEndian(hash[s])
               IN  CompareHashes(hash[nonce], hash[s])
                     = IF h < g THEN -1 ELSE IF h > g THEN 1 ELSE 0
    <3>. HIDE DEF CompareHashes, BigEndian
    <3>. QED BY <2>1, CompareIsByNumber
  <2>. QED BY <2>2 DEF HashesAreOrdered
<1>. QED BY <1>1, MessageInv, PTL

\* The search tries every nonce in the order of counting: when one is taken, no
\* smaller one fits, for any hash function, difficulty and number of bytes.
THEOREM FirstIsTaken == Spec => []FirstNonceIsTaken
<1>1. Init => FirstNonceIsTaken
  BY DEF Init, FirstNonceIsTaken
<1>2. IInv /\ FirstNonceIsTaken /\ [Next]_vars => FirstNonceIsTaken'
  <2>. SUFFICES ASSUME IInv, FirstNonceIsTaken, [Next]_vars PROVE FirstNonceIsTaken'
    OBVIOUS
  <2>1. nonce \in Nonce
    BY DEF IInv, TypeOK
  <2>. HIDE DEF LittleEndian
  <2>2. CASE Compose
    <3>1. nonce' = Zero
      BY <2>2 DEF Compose
    <3>2. Zero \in Nonce
      <4>1. 0 \in 0 .. Radix - 1
        BY NewMessageAssumption
      <4>. QED BY <4>1 DEF Zero, Nonce, Byte
    <3>3. LittleEndian(Zero) = 0
      <4>1. \A i \in 1 .. NonceLength : NonceLength - i + 1 \in 1 .. NonceLength
        BY NewMessageAssumption
      <4>2. \A i \in 1 .. NonceLength : Reverse(Zero)[i] = 0
        BY <3>2, <4>1, ReverseBytes DEF Zero
      <4>. QED BY <3>2, <4>2, ReverseBytes, ZeroIsZero DEF LittleEndian
    <3>4. \A s \in Nonce : ~(LittleEndian(s) < LittleEndian(nonce'))
      BY <3>1, <3>3, LittleEndianIsNat
    <3>. QED BY <3>4 DEF FirstNonceIsTaken
  <2>3. CASE Try
    <3>1. nonce' = Incremented(nonce) /\ ~Fits(nonce) /\ UNCHANGED hash /\ UNCHANGED target
          /\ phase = "pow"
      BY <2>3 DEF Try
    <3>2. \A s \in Nonce : Fits(s)' = Fits(s)
      BY <3>1 DEF Fits
    <3>3. ASSUME NEW s \in Nonce, LittleEndian(s) < LittleEndian(nonce') PROVE ~Fits(s)
      <4>1. LittleEndian(s) \in Nat /\ LittleEndian(nonce) \in Nat
        BY <2>1, LittleEndianIsNat
      <4>2. LittleEndian(nonce') = LittleEndian(nonce) + 1
        <5>1. LittleEndian(nonce') \in {LittleEndian(nonce) + 1, 0}
          BY <2>1, <3>1, IncrementedIsNext
        <5>. QED BY <3>3, <4>1, <5>1
      <4>3. LittleEndian(s) < LittleEndian(nonce) \/ LittleEndian(s) = LittleEndian(nonce)
        BY <3>3, <4>1, <4>2
      <4>4. CASE LittleEndian(s) < LittleEndian(nonce)
        BY <3>1, <4>4 DEF FirstNonceIsTaken
      <4>5. CASE LittleEndian(s) = LittleEndian(nonce)
        BY <2>1, <3>1, <4>5, SameNonce
      <4>. QED BY <4>3, <4>4, <4>5
    <3>. QED BY <3>2, <3>3 DEF FirstNonceIsTaken
  <2>4. CASE Post \/ UNCHANGED vars
    <3>1. UNCHANGED <<hash, target, nonce>> /\ (phase' # "new" => phase # "new")
      BY <2>4 DEF Post, vars
    <3>. QED BY <3>1 DEF FirstNonceIsTaken, Fits
  <2>. QED BY <2>2, <2>3, <2>4 DEF Next
<1>. QED BY <1>1, <1>2, MessageInv, PTL DEF Spec

\* What NumLeadingZeros counts are the powers of two that divide the hash as a
\* number, for hashes of any length and bytes of any size: one zero more halves the
\* hashes that fit, which is what a difficulty promises (message.go:111).
THEOREM ZerosArePowers == Spec => []ZerosArePowersOfTwo
<1>1. ASSUME IInv, NEW k \in 0 .. Bits * HashLength
      PROVE  NumLeadingZeros(hash[nonce]) >= k <=> LittleEndian(hash[nonce]) % (2 ^ k) = 0
  <2> DEFINE h == hash[nonce]
  <2>1. h \in Hash
    BY <1>1, NewMessageAssumption DEF IInv, TypeOK
  <2>. HIDE DEF h
  <2>2. PICK rest, bit : /\ HasBits(rest, bit, Bits * HashLength)
                         /\ rest[0] = LittleEndian(h)
                         /\ \A j \in 0 .. Bits * HashLength - 1 : bit[j] = Bit(h, j)
    BY <2>1, BitsOfHash
  <2>3. (\A j \in 0 .. k - 1 : bit[j] = 0) <=> LittleEndian(h) % (2 ^ k) = 0
    BY <2>2, ZeroBits
  <2>4. ASSUME NEW j \in 0 .. k - 1 PROVE bit[j] = 0 <=> Bit(h, j) # 1
    <3>1. j \in 0 .. Bits * HashLength - 1
      BY NewMessageAssumption
    <3>2. bit[j] \in {0, 1} /\ bit[j] = Bit(h, j)
      BY <2>2, <3>1 DEF HasBits
    <3>. QED BY <3>2
  <2>5. NumLeadingZeros(h) >= k <=> \A j \in 0 .. k - 1 : Bit(h, j) # 1
    BY ZerosAreCounted
  <2>. HIDE DEF NumLeadingZeros, LittleEndian
  <2>6. NumLeadingZeros(h) >= k <=> LittleEndian(h) % (2 ^ k) = 0
    BY <2>3, <2>4, <2>5
  <2>. QED BY <2>6 DEF h
<1>2. IInv => ZerosArePowersOfTwo
  BY <1>1 DEF ZerosArePowersOfTwo
<1>. QED BY <1>2, MessageInv, PTL
===============================================================================
