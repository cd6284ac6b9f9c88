---------------------------- MODULE DataTheorems ----------------------------
(* Facts about data the proofs of several components rest on: the remainder  *)
(* operator, for the counters of the program that are unsigned C integers    *)
(* and wrap, sequences an element is taken out of, and induction over the    *)
(* natural numbers.                                                          *)
EXTENDS SequencesExt, SequenceTheorems, WellFoundedInduction, TLAPS

(* Quotient and remainder recompose the dividend. *)
LEMMA DivMod ==
  ASSUME NEW m \in Nat \ {0}, NEW x \in Int
  PROVE  /\ x \div m \in Int
         /\ x % m \in 0 .. m - 1
         /\ x = m * (x \div m) + (x % m)
  OBVIOUS

(* A wrapped counter that has not reached its width is itself. *)
LEMMA ModSmall ==
  ASSUME NEW m \in Nat \ {0}, NEW x \in 0 .. m - 1
  PROVE  x % m = x
  OBVIOUS

(* The remainder is the only one: whole turns of the counter do not show. *)
LEMMA ModUnique ==
  ASSUME NEW m \in Nat \ {0}, NEW q \in Int, NEW r \in 0 .. m - 1
  PROVE  (m * q + r) % m = r
  <1> DEFINE x == m * q + r
             p == x \div m
             s == x % m
  <1>1. x \in Int /\ p \in Int /\ s \in 0 .. m - 1 /\ x = m * p + s
    BY DivMod
  <1>2. m * (q - p) = s - r
    BY <1>1
  <1>3. q - p >= 1 => m * (q - p) >= m
    BY <1>1
  <1>4. q - p <= -1 => m * (q - p) <= -m
    BY <1>1
  <1>5. q - p \in Int /\ s - r < m /\ s - r > -m
    BY <1>1
  <1> HIDE DEF p, s
  <1>6. q - p = 0
    BY <1>2, <1>3, <1>4, <1>5
  <1>7. s = r
    BY <1>1, <1>2, <1>6
  <1> QED
    BY <1>7 DEF s

(* Wrapping an operand before an addition changes nothing after it. *)
LEMMA ModAdd ==
  ASSUME NEW m \in Nat \ {0}, NEW x \in Int, NEW y \in Int
  PROVE  ((x % m) + y) % m = (x + y) % m
  <1> DEFINE p == x \div m
             r == x % m
             q == (r + y) \div m
             s == (r + y) % m
  <1>1. p \in Int /\ r \in 0 .. m - 1 /\ x = m * p + r
    BY DivMod
  <1>2. q \in Int /\ s \in 0 .. m - 1 /\ r + y = m * q + s
    BY <1>1, DivMod, r + y \in Int
  <1> HIDE DEF p, r, q, s
  <1>3. x + y = m * (p + q) + s
    BY <1>1, <1>2
  <1>4. (m * (p + q) + s) % m = s
    BY <1>1, <1>2, p + q \in Int, ModUnique
  <1> QED
    BY <1>3, <1>4 DEF s, r

-----------------------------------------------------------------------------

(* A sequence without its i-th element: the others move up. *)
LEMMA RemoveAtElements ==
  ASSUME NEW S, NEW s \in Seq(S), NEW i \in 1 .. Len(s)
  PROVE  /\ RemoveAt(s, i) \in Seq(S)
         /\ Len(s) \in Nat /\ DOMAIN s = 1 .. Len(s)
         /\ DOMAIN RemoveAt(s, i) = 1 .. Len(s) - 1
         /\ \A j \in 1 .. Len(s) - 1 :
              RemoveAt(s, i)[j] = IF j < i THEN s[j] ELSE s[j + 1]
  <1> DEFINE before == SubSeq(s, 1, i - 1)
             after == SubSeq(s, i + 1, Len(s))
             r == before \o after
  <1>1. /\ Len(s) \in Nat /\ DOMAIN s = 1 .. Len(s)
        /\ \A j \in 1 .. Len(s) : s[j] \in S
    BY ElementOfSeq, LenProperties
  <1>2. /\ before \in Seq(S) /\ Len(before) = i - 1
        /\ \A j \in 1 .. i - 1 : before[j] = s[j]
    BY <1>1, SubSeqProperties
  <1>3. /\ after \in Seq(S) /\ Len(after) = Len(s) - i
        /\ \A j \in 1 .. Len(s) - i : after[j] = s[i + j]
    <2>1. i + 1 \in Int /\ Len(s) \in Int
          /\ \A j \in i + 1 .. Len(s) : s[j] \in S
      BY <1>1
    <2>2. /\ after \in Seq(S)
          /\ Len(after) = IF i + 1 <= Len(s) THEN Len(s) - (i + 1) + 1 ELSE 0
          /\ \A j \in 1 .. Len(s) - (i + 1) + 1 : after[j] = s[(i + 1) + j - 1]
      BY <2>1, SubSeqProperties
    <2>3. Len(s) - (i + 1) + 1 = Len(s) - i
      BY <1>1
    <2>4. \A j \in 1 .. Len(s) - i : (i + 1) + j - 1 = i + j
      BY <1>1
    <2> HIDE DEF after
    <2>5. Len(after) = Len(s) - i
      <3>1. CASE i + 1 <= Len(s)
        BY <2>2, <2>3, <3>1
      <3>2. CASE ~ (i + 1 <= Len(s))
        <4>1. Len(after) = 0
          BY <2>2, <3>2
        <4>2. \A n \in Nat : \A k \in 1 .. n : ~ (k + 1 <= n) => n - k = 0
          OBVIOUS
        <4>3. Len(s) - i = 0
          BY <1>1, <3>2, <4>2
        <4> QED
          BY <4>1, <4>3
      <3> QED
        BY <3>1, <3>2
    <2> QED
      BY <2>2, <2>3, <2>4, <2>5
  <1> HIDE DEF before, after
  <1>4. /\ r \in Seq(S)
        /\ Len(r) = Len(s) - 1
        /\ \A j \in 1 .. Len(s) - 1 :
             r[j] = IF j <= i - 1 THEN before[j] ELSE after[j - (i - 1)]
    <2>1. Len(before) + Len(after) = Len(s) - 1
      BY <1>1, <1>2, <1>3
    <2>2. /\ r \in Seq(S)
          /\ Len(r) = Len(before) + Len(after)
          /\ \A j \in 1 .. Len(before) + Len(after) :
               r[j] = IF j <= Len(before) THEN before[j]
                                          ELSE after[j - Len(before)]
      BY <1>2, <1>3, ConcatProperties
    <2> HIDE DEF r
    <2> QED
      BY <1>2, <2>1, <2>2
  <1>5. RemoveAt(s, i) = r
    BY DEF RemoveAt, before, after
  <1>6. ASSUME NEW j \in 1 .. Len(s) - 1
        PROVE  r[j] = IF j < i THEN s[j] ELSE s[j + 1]
    <2>1. CASE j < i
      <3>1. j \in 1 .. i - 1 /\ j <= i - 1
        BY <1>1, <2>1
      <3>2. r[j] = before[j]
        BY <1>4, <3>1
      <3> QED
        BY <1>2, <2>1, <3>1, <3>2
    <2>2. CASE ~ (j < i)
      <3>1. /\ j - (i - 1) \in 1 .. Len(s) - i
            /\ i + (j - (i - 1)) = j + 1
            /\ ~ (j <= i - 1)
        BY <1>1, <2>2
      <3>2. r[j] = after[j - (i - 1)]
        BY <1>4, <3>1
      <3> QED
        BY <1>3, <2>2, <3>1, <3>2
    <2> QED
      BY <2>1, <2>2
  <1>7. DOMAIN r = 1 .. Len(s) - 1
    BY <1>4, LenProperties
  <1> QED
    BY <1>1, <1>4, <1>5, <1>6, <1>7

(* Just one element goes. *)
LEMMA RemoveAtFacts ==
  ASSUME NEW S, NEW s \in Seq(S), NEW i \in 1 .. Len(s)
  PROVE  /\ RemoveAt(s, i) \in Seq(S)
         /\ \A j \in DOMAIN RemoveAt(s, i) :
              \E k \in DOMAIN s : k # i /\ RemoveAt(s, i)[j] = s[k]
         /\ \A k \in DOMAIN s : k # i =>
              \E j \in DOMAIN RemoveAt(s, i) : RemoveAt(s, i)[j] = s[k]
         /\ \A j1, j2 \in DOMAIN RemoveAt(s, i) : j1 # j2 =>
              \E k1, k2 \in DOMAIN s :
                /\ k1 # k2
                /\ RemoveAt(s, i)[j1] = s[k1]
                /\ RemoveAt(s, i)[j2] = s[k2]
  <1> DEFINE r == RemoveAt(s, i)
             From(j) == IF j < i THEN j ELSE j + 1
  <1>1. /\ r \in Seq(S)
        /\ Len(s) \in Nat /\ DOMAIN s = 1 .. Len(s)
        /\ DOMAIN r = 1 .. Len(s) - 1
        /\ \A j \in 1 .. Len(s) - 1 : r[j] = IF j < i THEN s[j] ELSE s[j + 1]
    BY RemoveAtElements
  <1> HIDE DEF r
  <1>2. \A j \in DOMAIN r : From(j) \in DOMAIN s /\ From(j) # i
                           /\ r[j] = s[From(j)]
    BY <1>1
  <1>3. \A j1, j2 \in DOMAIN r : j1 # j2 => From(j1) # From(j2)
    BY <1>1
  <1>4. ASSUME NEW k \in DOMAIN s, k # i
        PROVE  \E j \in DOMAIN r : r[j] = s[k]
    <2>1. CASE k < i
      <3>1. k \in DOMAIN r /\ r[k] = s[k]
        BY <1>1, <2>1
      <3> QED
        BY <3>1
    <2>2. CASE ~ (k < i)
      <3>1. k - 1 \in DOMAIN r /\ ~ (k - 1 < i) /\ (k - 1) + 1 = k
        BY <1>1, <1>4, <2>2
      <3>2. r[k - 1] = s[k]
        BY <1>1, <3>1
      <3> QED
        BY <3>1, <3>2
    <2> QED
      BY <2>1, <2>2
  <1> HIDE DEF From
  <1>5. \A j \in DOMAIN r : \E k \in DOMAIN s : k # i /\ r[j] = s[k]
    BY <1>2
  <1>6. \A j1, j2 \in DOMAIN r : j1 # j2 =>
          \E k1, k2 \in DOMAIN s : k1 # k2 /\ r[j1] = s[k1] /\ r[j2] = s[k2]
    BY <1>2, <1>3
  <1> QED
    BY <1>1, <1>4, <1>5, <1>6 DEF r

(* Induction over the natural numbers, stated of a set instead of a          *)
(* predicate: the least number outside of it would have one before it.       *)
LEMMA NatSetInduction ==
  ASSUME NEW S, 0 \in S, \A n \in Nat : n \in S => n + 1 \in S
  PROVE  Nat \subseteq S
  <1> DEFINE R == OpToRel(<, Nat)
             T == Nat \ S
  <1> SUFFICES ASSUME T # {} PROVE FALSE
    OBVIOUS
  <1>1. IsWellFoundedOn(R, Nat)
    BY NatLessThanWellFounded
  <1> HIDE DEF R
  <1>2. PICK x \in T : \A y \in T : ~ (<<y, x>> \in R)
    BY <1>1, WFMin
  <1>3. x # 0
    OBVIOUS
  <1>4. x - 1 \in Nat /\ x - 1 \notin T
    <2>1. <<x - 1, x>> \in R
      BY <1>3 DEF R, OpToRel
    <2> QED BY <2>1, <1>2, <1>3
  <1>5. QED BY <1>4
=============================================================================
