-------------------------- MODULE WorkHeaderProofs --------------------------
(* Proofs about the validator's functions on strings, for all of them: the   *)
(* header hashed names the block it was compared with, and a digest is       *)
(* compared with the target as a number.  The loop of the program and the    *)
(* number a string of bytes is are recursive functions; each is shown to     *)
(* exist and followed step by step by NatSetInduction.                       *)
EXTENDS WorkHeader, DataTheorems

(* The position a character of a header is taken from: the byte on the other *)
(* side of its word, the same digit of it.                                   *)
Twin(p) == 8 * ((p - 1) \div 8) + 7 - 2 * (((p - 1) % 8) \div 2) + ((p - 1) % 2)

(* The header with its first words swapped. *)
WordsSwapped(hex, words) ==
  [p \in DOMAIN hex |-> IF p <= 8 * words THEN hex[Twin(p)] ELSE hex[p]]

(* A word's characters are taken from the same word, as swap_hex_bytes2 does *)
(* it byte by byte.                                                          *)
LEMMA TwinFacts ==
  ASSUME NEW w \in Nat, NEW p \in 8 * w + 1 .. 8 * w + 8
  PROVE  /\ Twin(p) \in 8 * w + 1 .. 8 * w + 8
         /\ (p - 1) \div 2 \in 4 * w .. 4 * w + 3
         /\ Twin(p) = 2 * (2 * (4 * w) + 4 - 1 - ((p - 1) \div 2)) + 1 + ((p - 1) % 2)
  <1>1. (p - 1) \div 8 = w /\ (p - 1) % 8 = p - 1 - 8 * w
    OBVIOUS
  <1>2. PICK j \in 0 .. 7 : p = 8 * w + 1 + j
    <2>1. p - 1 - 8 * w \in 0 .. 7
      OBVIOUS
    <2> QED BY <2>1
  <1>3. (p - 1) % 8 = j
    BY <1>1, <1>2
  <1>4. (p - 1) % 2 = j % 2
    BY <1>2
  <1>5. (p - 1) \div 2 = 4 * w + (j \div 2)
    BY <1>2
  <1>6. QED
    BY <1>1, <1>3, <1>4, <1>5 DEF Twin

(* One turn of the loop swaps one more word and leaves the others alone.     *)
LEMMA SwapOneMore ==
  ASSUME NEW S, NEW hex \in Seq(S), NEW n \in Nat, 8 * n + 8 <= Len(hex)
  PROVE  SwapHexBytes2(WordsSwapped(hex, n), 4 * n, 4) = WordsSwapped(hex, n + 1)
  <1> DEFINE before == WordsSwapped(hex, n)
  <1>1. DOMAIN before = 1 .. Len(hex)
    BY DEF WordsSwapped
  <1> SUFFICES ASSUME NEW p \in 1 .. Len(hex)
               PROVE  SwapHexBytes2(before, 4 * n, 4)[p] = WordsSwapped(hex, n + 1)[p]
    BY <1>1 DEF SwapHexBytes2, WordsSwapped
  <1> DEFINE byte == (p - 1) \div 2
  <1>2. CASE p \in 8 * n + 1 .. 8 * n + 8
    <2>1. /\ byte \in 4 * n .. 4 * n + 3
          /\ Twin(p) \in 8 * n + 1 .. 8 * n + 8
          /\ Twin(p) = 2 * (2 * (4 * n) + 4 - 1 - byte) + 1 + ((p - 1) % 2)
      BY <1>2, TwinFacts
    <2>2. SwapHexBytes2(before, 4 * n, 4)[p] = before[Twin(p)]
      BY <1>1, <2>1 DEF SwapHexBytes2
    <2>3. before[Twin(p)] = hex[Twin(p)]
      BY <2>1 DEF WordsSwapped
    <2>4. WordsSwapped(hex, n + 1)[p] = hex[Twin(p)]
      BY <1>2 DEF WordsSwapped
    <2> QED BY <2>2, <2>3, <2>4
  <1>3. CASE p \notin 8 * n + 1 .. 8 * n + 8
    <2>1. byte \notin 4 * n .. 4 * n + 4 - 1
      BY <1>3
    <2>2. SwapHexBytes2(before, 4 * n, 4)[p] = before[p]
      BY <1>1, <2>1 DEF SwapHexBytes2
    <2>3. before[p] = WordsSwapped(hex, n + 1)[p]
      BY <1>3 DEF WordsSwapped
    <2> QED BY <2>2, <2>3
  <1> QED BY <1>2, <1>3

(* The loop over the header swaps every word. *)
LEMMA HashedHeaderSwaps ==
  ASSUME NEW S, NEW hex \in Seq(S)
  PROVE  HashedHeader(hex) = WordsSwapped(hex, Len(hex) \div 8)
  <1> DEFINE W == Len(hex) \div 8
             Loop(f) == f = [words \in 0 .. W |->
                               IF words = 0 THEN hex
                               ELSE SwapHexBytes2(f[words - 1], 4 * (words - 1), 4)]
             swapped == CHOOSE f : Loop(f)
             closed == [words \in 0 .. W |-> WordsSwapped(hex, words)]
  <1>1. W \in Nat /\ 8 * W <= Len(hex)
    OBVIOUS
  <1>2. WordsSwapped(hex, 0) = hex
    BY DEF WordsSwapped
  <1>3. \A n \in 0 .. W - 1 :
          SwapHexBytes2(WordsSwapped(hex, n), 4 * n, 4) = WordsSwapped(hex, n + 1)
    BY <1>1, SwapOneMore
  <1> HIDE DEF W
  <1>4. Loop(closed)
    <2>1. \A words \in 0 .. W :
            closed[words] = IF words = 0 THEN hex
                            ELSE SwapHexBytes2(closed[words - 1], 4 * (words - 1), 4)
      <3> TAKE words \in 0 .. W
      <3>1. CASE words = 0
        BY <1>2, <3>1
      <3>2. CASE words # 0
        <4>1. words - 1 \in 0 .. W - 1 /\ words - 1 + 1 = words
          BY <1>1, <3>2
        <4>2. SwapHexBytes2(WordsSwapped(hex, words - 1), 4 * (words - 1), 4) = WordsSwapped(hex, words)
          BY <1>3, <4>1
        <4>3. closed[words] = WordsSwapped(hex, words)
          OBVIOUS
        <4>4. closed[words - 1] = WordsSwapped(hex, words - 1)
          BY <1>1, <4>1
        <4> HIDE DEF closed
        <4> QED BY <4>2, <4>3, <4>4, <3>2
      <3> QED BY <3>1, <3>2
    <2> QED BY <2>1
  <1>5. Loop(swapped)
    BY <1>4
  <1> HIDE DEF swapped
  <1>6. swapped[W] = WordsSwapped(hex, W)
    <2> DEFINE P == {n \in Nat : n <= W => swapped[n] = WordsSwapped(hex, n)}
    <2>1. 0 \in P
      BY <1>1, <1>2, <1>5
    <2>2. ASSUME NEW n \in Nat, n \in P PROVE n + 1 \in P
      <3> SUFFICES ASSUME n + 1 <= W PROVE swapped[n + 1] = WordsSwapped(hex, n + 1)
        OBVIOUS
      <3>1. swapped[n] = WordsSwapped(hex, n) /\ n \in 0 .. W - 1
        BY <1>1, <2>2
      <3>2. swapped[n + 1] = SwapHexBytes2(swapped[n], 4 * n, 4)
        BY <1>1, <1>5, <3>1
      <3> QED BY <1>3, <3>1, <3>2
    <2> HIDE DEF P
    <2>3. Nat \subseteq P
      BY <2>1, <2>2, NatSetInduction
    <2> QED BY <2>3, <1>1 DEF P
  <1>7. QED
    BY <1>6 DEF HashedHeader, swapped, W

(* Whatever else the header has, and whatever the answer: what passes the    *)
(* comparison with the node's answer is hashed with the bytes of that very   *)
(* answer, the last one first.                                               *)
THEOREM HashedHeaderNamesBlock ==
  ASSUME NEW S,
         NEW header \in Seq(S), Len(header) = DigitsOf(HeaderBytes),
         NEW answer \in Seq(S), Len(answer) = DigitsOf(HashBytes)
  PROVE  NamesBlock(header, answer)
  <1> DEFINE hashed == HashedHeader(header)
  <1> SUFFICES ASSUME PreviousHash(header) = BlockHashReordered(answer)
               PROVE  PreviousHash(hashed) = BytesReversed(answer)
    BY DEF NamesBlock
  <1>1. Len(header) = 160 /\ Len(answer) = 64
    BY DEF DigitsOf, HeaderBytes, HashBytes
  <1>2. hashed = WordsSwapped(header, 20)
    <2>1. Len(header) \div 8 = 20
      BY <1>1
    <2> QED BY <2>1, HashedHeaderSwaps
  <1>3. /\ DOMAIN hashed = 1 .. 160
        /\ \A p \in 1 .. 160 : hashed[p] = header[Twin(p)]
    BY <1>1, <1>2 DEF WordsSwapped
  <1>4. \A f : PreviousHash(f) = [q \in 1 .. 64 |-> f[q + 8]]
    BY DEF PreviousHash, DigitsOf, HashBytes, SubSeq
  <1>5. DOMAIN answer = 1 .. 64
    BY <1>1
  <1> HIDE DEF hashed
  <1>6. BlockHashReordered(answer) =
          [q \in 1 .. 64 |-> answer[64 - 8 - (q - 1 - ((q - 1) % 8)) + ((q - 1) % 8) + 1]]
    BY <1>1, <1>5 DEF BlockHashReordered
  <1>7. BytesReversed(answer) =
          [q \in 1 .. 64 |-> answer[64 - q + (IF q % 2 = 0 THEN 2 ELSE 0)]]
    BY <1>1, <1>5 DEF BytesReversed
  <1>8. SUFFICES ASSUME NEW q \in 1 .. 64
                 PROVE  hashed[q + 8] = answer[64 - q + (IF q % 2 = 0 THEN 2 ELSE 0)]
    BY <1>4, <1>7
  <1> DEFINE t == Twin(q + 8) - 8
  <1>9. PICK w \in 0 .. 7, j \in 0 .. 7 : q = 8 * w + j + 1
    <2>1. (q - 1) \div 8 \in 0 .. 7 /\ (q - 1) % 8 \in 0 .. 7
          /\ q = 8 * ((q - 1) \div 8) + ((q - 1) % 8) + 1
      OBVIOUS
    <2> QED BY <2>1
  <1>10. t = 8 * w + 7 - 2 * (j \div 2) + (j % 2)
    BY <1>9 DEF Twin
  <1> HIDE DEF t
  <1>11. t \in 8 * w + 1 .. 8 * w + 8
    <2>1. j \div 2 \in 0 .. 3 /\ j % 2 \in 0 .. 1
      OBVIOUS
    <2> QED BY <1>10, <2>1
  <1>12. hashed[q + 8] = header[t + 8]
    <2>1. t + 8 = Twin(q + 8)
      BY DEF t, Twin
    <2>2. q + 8 \in 1 .. 160
      OBVIOUS
    <2>3. hashed[q + 8] = header[Twin(q + 8)]
      BY <1>3, <2>2
    <2> QED BY <2>1, <2>3
  <1>13. header[t + 8] = BlockHashReordered(answer)[t]
    <2>1. t \in 1 .. 64
      BY <1>11, 8 * w \in 0 .. 56
    <2>2. PreviousHash(header)[t] = header[t + 8]
      BY <1>4, <2>1
    <2> QED BY <2>2
  <1>14. BlockHashReordered(answer)[t] = answer[64 - 8 - 8 * w + (t - 1 - 8 * w) + 1]
    <2>1. PICK i \in 0 .. 7 : t = 8 * w + i + 1
      <3>1. t - 1 - 8 * w \in 0 .. 7
        BY <1>11
      <3> QED BY <3>1, <1>11
    <2>2. t \in 1 .. 64 /\ (t - 1) % 8 = i
      BY <2>1
    <2>3. BlockHashReordered(answer)[t]
            = answer[64 - 8 - (t - 1 - ((t - 1) % 8)) + ((t - 1) % 8) + 1]
      BY <1>6, <2>2
    <2>4. 64 - 8 - (t - 1 - ((t - 1) % 8)) + ((t - 1) % 8) + 1
            = 64 - 8 - 8 * w + (t - 1 - 8 * w) + 1
      BY <2>1, <2>2
    <2> QED BY <2>3, <2>4
  <1>15. 64 - 8 - 8 * w + (t - 1 - 8 * w) + 1 = 64 - q + (IF q % 2 = 0 THEN 2 ELSE 0)
    <2>1. q % 2 = (j + 1) % 2
      BY <1>9
    <2>2. (IF (j + 1) % 2 = 0 THEN 2 ELSE 0) = j + (j % 2) - 2 * (j \div 2)
      OBVIOUS
    <2> QED BY <1>9, <1>10, <2>1, <2>2
  <1> QED BY <1>12, <1>13, <1>14, <1>15

(* The byte that decides a comparison exists.                                *)
LEMMA SetOfNumbersHasMax ==
  ASSUME NEW N \in Nat, NEW S, S \subseteq 1 .. N, S # {}
  PROVE  Max(S) \in S /\ \A y \in S : y <= Max(S)
  <1> DEFINE P == {n \in Nat : \A T \in SUBSET (1 .. n) :
                     T # {} => \E x \in T : \A y \in T : x >= y}
  <1>1. 0 \in P
    <2>1. 1 .. 0 = {}
      OBVIOUS
    <2> QED BY <2>1
  <1>2. ASSUME NEW n \in Nat, n \in P PROVE n + 1 \in P
    <2> SUFFICES ASSUME NEW T \in SUBSET (1 .. n + 1), T # {}
                 PROVE  \E x \in T : \A y \in T : x >= y
      OBVIOUS
    <2>1. CASE n + 1 \in T
      BY <2>1
    <2>2. CASE n + 1 \notin T
      <3>1. T \in SUBSET (1 .. n)
        BY <2>2
      <3> QED BY <3>1, <1>2
    <2> QED BY <2>1, <2>2
  <1> HIDE DEF P
  <1>3. N \in P
    BY <1>1, <1>2, NatSetInduction
  <1>4. \E x \in S : \A y \in S : x >= y
    BY <1>3 DEF P
  <1> QED BY <1>4 DEF Max

(* The number that the last k bytes are, as NumberOf computes it. *)
IsTop(bytes, N, top) ==
  top = [k \in 0 .. N |->
           IF k = 0 THEN 0 ELSE 256 * top[k - 1] + bytes[Len(bytes) + 1 - k]]

(* The recursion of NumberOf defines a function.                             *)
LEMMA TopExists ==
  ASSUME NEW bytes, NEW N \in Nat
  PROVE  \E top : IsTop(bytes, N, top)
  <1> DEFINE P == {n \in Nat : \E top : IsTop(bytes, n, top)}
             byte(k) == bytes[Len(bytes) + 1 - k]
  <1>1. 0 \in P
    <2>1. IsTop(bytes, 0, [k \in 0 .. 0 |-> 0])
      BY DEF IsTop
    <2> QED BY <2>1
  <1>2. ASSUME NEW n \in Nat, n \in P PROVE n + 1 \in P
    <2>1. PICK f : IsTop(bytes, n, f)
      BY <1>2
    <2> DEFINE g == [k \in 0 .. n + 1 |->
                       IF k = n + 1 THEN 256 * f[n] + byte(n + 1) ELSE f[k]]
    <2>2. \A k \in 0 .. n + 1 :
            g[k] = IF k = 0 THEN 0 ELSE 256 * g[k - 1] + byte(k)
      <3> TAKE k \in 0 .. n + 1
      <3>1. f = [i \in 0 .. n |-> IF i = 0 THEN 0 ELSE 256 * f[i - 1] + byte(i)]
        BY <2>1 DEF IsTop
      <3> HIDE DEF byte
      <3>2. CASE k = n + 1
        BY <3>2
      <3>3. CASE k \in 1 .. n
        <4>1. g[k] = f[k] /\ g[k - 1] = f[k - 1]
          BY <3>3
        <4>2. f[k] = 256 * f[k - 1] + byte(k)
          BY <3>1, <3>3
        <4> QED BY <4>1, <4>2, <3>3
      <3>4. CASE k = 0
        BY <3>1, <3>4
      <3> QED BY <3>2, <3>3, <3>4
    <2>3. IsTop(bytes, n + 1, g)
      BY <2>2 DEF IsTop
    <2> QED BY <2>3
  <1> HIDE DEF P
  <1>3. N \in P
    BY <1>1, <1>2, NatSetInduction
  <1> QED BY <1>3 DEF P

(* Strings of N bytes, as hex_to_bin and the digest yield them. *)
Bytes(N) == [1 .. N -> 0 .. 255]

(* The number is that function's last value, and every value is a number.    *)
LEMMA NumberOfTop ==
  ASSUME NEW N \in Nat, NEW bytes \in Bytes(N)
  PROVE  \E top \in [0 .. N -> Nat] :
           /\ NumberOf(bytes) = top[N]
           /\ top[0] = 0
           /\ \A k \in 1 .. N : top[k] = 256 * top[k - 1] + bytes[N + 1 - k]
  <1>1. Len(bytes) = N /\ \A i \in 1 .. N : bytes[i] \in 0 .. 255
    BY DEF Bytes
  <1> DEFINE top == CHOOSE f : IsTop(bytes, N, f)
  <1>2. IsTop(bytes, N, top)
    BY TopExists
  <1>3. NumberOf(bytes) = top[N]
    BY <1>1 DEF NumberOf, IsTop
  <1> HIDE DEF top
  <1>4. /\ DOMAIN top = 0 .. N
        /\ top[0] = 0
        /\ \A k \in 1 .. N : top[k] = 256 * top[k - 1] + bytes[N + 1 - k]
    BY <1>1, <1>2 DEF IsTop
  <1> DEFINE P == {n \in Nat : n <= N => top[n] \in Nat}
  <1>5. 0 \in P
    BY <1>4
  <1>6. ASSUME NEW n \in Nat, n \in P PROVE n + 1 \in P
    <2> SUFFICES ASSUME n + 1 <= N PROVE top[n + 1] \in Nat
      OBVIOUS
    <2>0. n + 1 \in 1 .. N /\ n + 1 - 1 = n /\ N + 1 - (n + 1) = N - n
      OBVIOUS
    <2>1. top[n + 1] = 256 * top[n] + bytes[N - n]
      BY <1>4, <2>0
    <2>2. bytes[N - n] \in 0 .. 255 /\ top[n] \in Nat
      BY <1>1, <1>6, <2>0
    <2> QED BY <2>1, <2>2
  <1> HIDE DEF P
  <1>7. Nat \subseteq P
    BY <1>5, <1>6, NatSetInduction
  <1>8. top \in [0 .. N -> Nat]
    <2>1. top = [k \in 0 .. N |-> top[k]]
      BY <1>2 DEF IsTop
    <2>2. \A k \in 0 .. N : top[k] \in Nat
      BY <1>7 DEF P
    <2> QED BY <2>1, <2>2
  <1> QED BY <1>3, <1>4, <1>8

(* A byte less significant does not make up for what a number is short of.   *)
LEMMA MoreSignificant ==
  ASSUME NEW x \in Nat, NEW y \in Nat, NEW p \in 0 .. 255, NEW q \in 0 .. 255,
         x < y
  PROVE  256 * x + p < 256 * y + q
  OBVIOUS

(* The byte that decides is the last that differs: the others before it do   *)
(* not make up for it.                                                       *)
LEMMA LastByteDecides ==
  ASSUME NEW N \in Nat, NEW a \in Bytes(N), NEW b \in Bytes(N)
  PROVE  /\ a = b => NumberOf(a) = NumberOf(b)
         /\ \A i \in 1 .. N :
              (\A m \in i + 1 .. N : a[m] = b[m]) /\ a[i] < b[i]
                => NumberOf(a) < NumberOf(b)
  <1> DEFINE IsTopOf(top, bytes) ==
               /\ NumberOf(bytes) = top[N]
               /\ top[0] = 0
               /\ \A k \in 1 .. N : top[k] = 256 * top[k - 1] + bytes[N + 1 - k]
  <1>t. \A bytes \in Bytes(N) : \E top \in [0 .. N -> Nat] : IsTopOf(top, bytes)
    BY NumberOfTop
  <1> HIDE DEF IsTopOf
  <1>p. PICK ta \in [0 .. N -> Nat] : IsTopOf(ta, a)
    BY <1>t
  <1>q. PICK tb \in [0 .. N -> Nat] : IsTopOf(tb, b)
    BY <1>t
  <1>1. /\ NumberOf(a) = ta[N]
        /\ ta[0] = 0
        /\ \A k \in 1 .. N : ta[k] = 256 * ta[k - 1] + a[N + 1 - k]
    BY <1>p DEF IsTopOf
  <1>2. /\ NumberOf(b) = tb[N]
        /\ tb[0] = 0
        /\ \A k \in 1 .. N : tb[k] = 256 * tb[k - 1] + b[N + 1 - k]
    BY <1>q DEF IsTopOf
  <1>0. \A i \in 1 .. N : a[i] \in 0 .. 255 /\ b[i] \in 0 .. 255
    BY DEF Bytes
  <1>3. ASSUME NEW i \in 1 .. N, \A m \in i + 1 .. N : a[m] = b[m], a[i] < b[i]
        PROVE  NumberOf(a) < NumberOf(b)
    <2> DEFINE P == {n \in Nat : n <= N - i => ta[n] = tb[n]}
               Q == {n \in Nat : n + N + 1 - i <= N => ta[n + N + 1 - i] < tb[n + N + 1 - i]}
    <2>1. 0 \in P
      BY <1>1, <1>2
    <2>2. ASSUME NEW n \in Nat, n \in P PROVE n + 1 \in P
      <3> SUFFICES ASSUME n + 1 <= N - i PROVE ta[n + 1] = tb[n + 1]
        OBVIOUS
      <3>0. /\ n + 1 \in 1 .. N /\ n + 1 - 1 = n /\ N + 1 - (n + 1) = N - n
            /\ N - n \in i + 1 .. N
        OBVIOUS
      <3>1. a[N - n] = b[N - n]
        BY <1>3, <3>0
      <3> DEFINE k == n + 1
      <3>2. ta[k] = 256 * ta[k - 1] + a[N + 1 - k] /\ tb[k] = 256 * tb[k - 1] + b[N + 1 - k]
        <4>1. k \in 1 .. N
          BY <3>0
        <4> HIDE DEF k
        <4> QED BY <1>1, <1>2, <4>1
      <3>3. ta[n] = tb[n]
        BY <2>2, <3>0
      <3> QED BY <3>0, <3>1, <3>2, <3>3
    <2> HIDE DEF P
    <2>3. Nat \subseteq P
      BY <2>1, <2>2, NatSetInduction
    <2>4. 0 \in Q
      <3>1. ta[N - i] = tb[N - i]
        BY <2>3 DEF P
      <3>2. /\ ta[N + 1 - i] = 256 * ta[N - i] + a[i]
            /\ tb[N + 1 - i] = 256 * tb[N - i] + b[i]
        BY <1>1, <1>2
      <3>3. a[i] \in 0 .. 255 /\ b[i] \in 0 .. 255
        BY <1>0
      <3>4. ta[N - i] \in Nat /\ tb[N - i] \in Nat
        OBVIOUS
      <3>5. ta[N + 1 - i] < tb[N + 1 - i]
        <4> DEFINE x == ta[N - i]
                   y == tb[N - i]
                   p == a[i]
                   q == b[i]
        <4>1. x \in Nat /\ y \in Nat /\ p \in 0 .. 255 /\ q \in 0 .. 255
              /\ x = y /\ p < q
          BY <1>3, <3>1, <3>3, <3>4
        <4>2. ta[N + 1 - i] = 256 * x + p /\ tb[N + 1 - i] = 256 * y + q
          BY <3>2
        <4> HIDE DEF x, y, p, q
        <4>3. 256 * x + p < 256 * y + q
          <5>1. x = y /\ p < q => 256 * x + p < 256 * y + q
            BY <4>1
          <5> QED BY <4>1, <5>1
        <4> QED BY <4>2, <4>3
      <3>6. 0 + N + 1 - i = N + 1 - i
        OBVIOUS
      <3> QED BY <3>5, <3>6
    <2>5. ASSUME NEW n \in Nat, n \in Q PROVE n + 1 \in Q
      <3> DEFINE k == n + 1 + N + 1 - i
      <3> SUFFICES ASSUME k <= N PROVE ta[k] < tb[k]
        OBVIOUS
      <3>1. /\ k \in 1 .. N /\ k - 1 = n + N + 1 - i
            /\ N + 1 - k \in 1 .. N /\ k - 1 \in 0 .. N
        OBVIOUS
      <3> HIDE DEF k
      <3>2. ta[k - 1] < tb[k - 1]
        <4>1. n + N + 1 - i <= N
          BY <3>1
        <4> QED BY <2>5, <3>1, <4>1
      <3>3. ta[k] = 256 * ta[k - 1] + a[N + 1 - k] /\ tb[k] = 256 * tb[k - 1] + b[N + 1 - k]
        BY <1>1, <1>2, <3>1
      <3>4. ta[k - 1] \in Nat /\ tb[k - 1] \in Nat
            /\ a[N + 1 - k] \in 0 .. 255 /\ b[N + 1 - k] \in 0 .. 255
        BY <1>0, <3>1
      <3> DEFINE x == ta[k - 1]
                 y == tb[k - 1]
                 p == a[N + 1 - k]
                 q == b[N + 1 - k]
      <3>5. x \in Nat /\ y \in Nat /\ p \in 0 .. 255 /\ q \in 0 .. 255 /\ x < y
        BY <3>2, <3>4
      <3>6. ta[k] = 256 * x + p /\ tb[k] = 256 * y + q
        BY <3>3
      <3> HIDE DEF x, y, p, q
      <3>7. 256 * x + p < 256 * y + q
        BY <3>5, MoreSignificant
      <3> QED BY <3>6, <3>7
    <2> HIDE DEF Q
    <2>6. i - 1 \in Q
      <3>1. i - 1 \in Nat
        OBVIOUS
      <3> QED BY <3>1, <2>4, <2>5, NatSetInduction
    <2>7. ta[N] < tb[N]
      <3>1. i - 1 + N + 1 - i = N
        OBVIOUS
      <3> QED BY <2>6, <3>1 DEF Q
    <2> QED BY <2>7, <1>1, <1>2
  <1> QED BY <1>3

(* compare_inverted_hashes on a digest and what hex_to_bin made of a target  *)
(* of hexadecimal digits, of any length, compares the numbers they are.      *)
THEOREM ComparedAsNumbers ==
  ASSUME NEW N \in Nat, NEW digest \in Bytes(N),
         NEW target \in [1 .. 2 * N -> Hex]
  PROVE  ComparesNumbers(digest, target)
  <1> DEFINE b == HexToBin(target)
             pairs == [i \in 1 .. Len(target) \div 2 |->
                         16 * target[2 * i - 1] + target[2 * i]]
             differ == {i \in DOMAIN digest : digest[i] # b[i]}
  <1>1. Len(target) = 2 * N /\ Len(target) \div 2 = N
    <2>1. Len(target) = 2 * N
      OBVIOUS
    <2> QED BY <2>1
  <1>2. \A i \in 1 .. N : target[2 * i - 1] \in Hex /\ target[2 * i] \in Hex
    OBVIOUS
  <1>3. HexIsValid(target)
    BY <1>1, <1>2 DEF HexIsValid, Hex, Other
  <1>4. \A i \in 1 .. N :
          /\ b[i] = 16 * target[2 * i - 1] + target[2 * i]
          /\ b[i] \in 0 .. 255
    <2> TAKE i \in 1 .. N
    <2>1. b[i] = ByteOfHex(target[2 * i - 1], target[2 * i])
      BY <1>1 DEF HexToBin
    <2> DEFINE high == target[2 * i - 1]
               low == target[2 * i]
    <2>2. b[i] = 16 * high + low
      <3>1. high \in Hex /\ low \in Hex
        BY <1>2
      <3> HIDE DEF high, low, b
      <3>2. ByteOfHex(high, low) = 16 * high + low
        BY <3>1 DEF ByteOfHex, Hex, Blank
      <3> QED BY <2>1, <3>2 DEF high, low
    <2>3. high \in Hex /\ low \in Hex
      BY <1>2
    <2> HIDE DEF high, low, b
    <2>4. b[i] \in 0 .. 255
      BY <2>2, <2>3 DEF Hex
    <2> QED BY <2>2, <2>4 DEF high, low
  <1>5. b = pairs /\ b \in Bytes(N)
    <2>1. b = [i \in 1 .. N |-> b[i]]
      BY <1>1 DEF HexToBin
    <2> HIDE DEF b
    <2> QED BY <1>1, <1>4, <2>1 DEF Bytes
  <1>6. NumberOfDigits(target) = NumberOf(b)
    BY <1>5 DEF NumberOfDigits
  <1> HIDE DEF b, pairs
  <1>7. CASE differ = {}
    <2>1. digest = b
      BY <1>5, <1>7 DEF Bytes
    <2>2. ~ (CompareInvertedHashes(digest, b) > 0)
      BY <1>7 DEF CompareInvertedHashes
    <2>3. NumberOf(b) \in Nat
      BY <1>5, NumberOfTop
    <2> QED BY <1>3, <1>6, <2>1, <2>2, <2>3 DEF ComparesNumbers, b
  <1>8. CASE differ # {}
    <2> DEFINE i == Max(differ)
    <2>1. differ \subseteq 1 .. N
      BY DEF Bytes
    <2>2. i \in differ /\ \A y \in differ : y <= i
      BY <1>8, <2>1, SetOfNumbersHasMax
    <2>3. CompareInvertedHashes(digest, b) = IF digest[i] < b[i] THEN -1 ELSE 1
      BY <1>8 DEF CompareInvertedHashes
    <2> HIDE DEF i
    <2>4. i \in 1 .. N /\ \A m \in i + 1 .. N : digest[m] = b[m]
      <3>1. i \in 1 .. N
        BY <2>1, <2>2
      <3>2. ASSUME NEW m \in i + 1 .. N PROVE digest[m] = b[m]
        <4>1. m \in DOMAIN digest /\ m \notin differ
          BY <2>2, <3>1 DEF Bytes
        <4> QED BY <4>1
      <3> QED BY <3>1, <3>2
    <2>5. digest[i] \in Nat /\ b[i] \in Nat /\ digest[i] # b[i]
      <3>1. digest[i] # b[i]
        BY <2>2
      <3>2. digest[i] \in 0 .. 255 /\ b[i] \in 0 .. 255
        BY <1>5, <2>4 DEF Bytes
      <3> DEFINE x == digest[i]
                 y == b[i]
      <3> HIDE DEF x, y
      <3>3. x \in 0 .. 255 /\ y \in 0 .. 255 => x \in Nat /\ y \in Nat
        OBVIOUS
      <3> QED BY <3>1, <3>2, <3>3 DEF x, y
    <2>6. NumberOf(digest) \in Nat /\ NumberOf(b) \in Nat
      BY <1>5, NumberOfTop
    <2>7. CASE digest[i] < b[i]
      BY <1>3, <1>5, <1>6, <2>3, <2>4, <2>6, <2>7, LastByteDecides DEF ComparesNumbers, b
    <2>8. CASE b[i] < digest[i]
      BY <1>3, <1>5, <1>6, <2>3, <2>4, <2>5, <2>6, <2>8, LastByteDecides DEF ComparesNumbers, b
    <2> QED BY <2>5, <2>7, <2>8
  <1> QED BY <1>7, <1>8
=============================================================================
