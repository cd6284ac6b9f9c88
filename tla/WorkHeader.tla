----------------------------- MODULE WorkHeader -----------------------------
(***************************************************************************)
(* What the validator does to the hexadecimal strings it is given          *)
(* (pool-dance/work-validator.c): the header of a result is brought into   *)
(* the order it is hashed in, the hash of a block into the order it has in *)
(* a header, and the digest is compared with the target.                   *)
(*                                                                         *)
(* A string is a sequence of characters, a byte takes two of them, and a   *)
(* word four bytes.  A digit stands for itself, 0 to 15.  Words are moved  *)
(* without a look at their characters, so that a string whose characters   *)
(* all differ shows for every string where each of them goes.              *)
(*                                                                         *)
(* Nothing here has a state; the validator's run looks at NamesBlock and   *)
(* ComparesNumbers for a few strings, and theorems show them for all.      *)
(***************************************************************************)
EXTENDS Integers, SequencesExt

HashBytes == 32     \* sizeof (self->target), and of a block's hash
HeaderBytes == 80   \* of the header that is hashed
DigitsOf(bytes) == 2 * bytes

Hex == 0 .. 15
Blank == 16         \* a blank or a plus sign
Minus == 17
Other == 18          \* any other character

-----------------------------------------------------------------------------

(* Mutation: the digits of the word are reversed, not its bytes. *)
SwapHexDigits(hex, from, len) ==
  [p \in DOMAIN hex |->
     IF p \in 2 * from + 1 .. 2 * (from + len)
     THEN hex[2 * (2 * from + len) + 1 - p] ELSE hex[p]]

(* swap_hex_bytes2: the bytes from .. from + len - 1 change places with each *)
(* other, the digits of each stay together.                                  *)
SwapHexBytes2(hex, from, len) ==
  [p \in DOMAIN hex |->
     LET byte == (p - 1) \div 2
         twin == 2 * from + len - 1 - byte
     IN  IF byte \in from .. from + len - 1
         THEN hex[2 * twin + 1 + ((p - 1) % 2)] ELSE hex[p]]

(* The loop of validate_work_result_in_thread over the words of the header.  *)
HashedHeader(hex) ==
  LET swapped[words \in 0 .. Len(hex) \div 8] ==
        IF words = 0 THEN hex
        ELSE SwapHexBytes2(swapped[words - 1], 4 * (words - 1), 4)
  IN  swapped[Len(hex) \div 8]

(* Mutation: the digest of the node is used as it came. *)
BlockHashAsSent(hex) == hex

(* The loop of on_block_hash: the words of the hash in the opposite order.   *)
BlockHashReordered(hex) ==
  [p \in DOMAIN hex |->
     LET j == (p - 1) % 8
     IN  hex[Len(hex) - 8 - (p - 1 - j) + j + 1]]

(* hex_to_bin of one byte, as strtoul reads it: a blank or a sign may stand  *)
(* before a single digit, and a negative number wraps.                       *)
ByteOfHex(high, low) ==
  CASE high \in Hex -> 16 * high + low
    [] high = Blank -> low
    [] OTHER        -> (256 - low) % 256

(* hex_to_bin refuses a byte strtoul does not read to its end. *)
HexIsValid(hex) ==
  \A i \in 1 .. Len(hex) \div 2 : hex[2 * i - 1] # Other /\ hex[2 * i] \in Hex

HexToBin(hex) ==
  [i \in 1 .. Len(hex) \div 2 |-> ByteOfHex(hex[2 * i - 1], hex[2 * i])]

(* Mutation: the first byte decides before the last. *)
CompareHashes(hash1, hash2) ==
  LET differ == {i \in DOMAIN hash1 : hash1[i] # hash2[i]}
  IN  IF differ = {} THEN 0
      ELSE IF hash1[Min(differ)] < hash2[Min(differ)] THEN -1 ELSE 1

(* compare_inverted_hashes: the last byte that differs decides.              *)
CompareInvertedHashes(hash1, hash2) ==
  LET differ == {i \in DOMAIN hash1 : hash1[i] # hash2[i]}
  IN  IF differ = {} THEN 0
      ELSE IF hash1[Max(differ)] < hash2[Max(differ)] THEN -1 ELSE 1

-----------------------------------------------------------------------------

BytesReversed(hex) ==
  [p \in DOMAIN hex |-> hex[Len(hex) - p + (IF p % 2 = 0 THEN 2 ELSE 0)]]

(* Where check_previous_block_hash_matches finds the hash in a header. *)
PreviousHash(hex) == SubSeq(hex, 9, 8 + DigitsOf(HashBytes))

(* A header that passes that check against the node's answer is hashed with  *)
(* the hash of that very block, as the network has it: byte by byte from the *)
(* last, where the answer has the first.                                     *)
NamesBlock(header, answer) ==
  PreviousHash(header) = BlockHashReordered(answer) =>
    PreviousHash(HashedHeader(header)) = BytesReversed(answer)

(* The number a digest is, its last byte the most significant: top[k] is     *)
(* that of the last k bytes.                                                 *)
NumberOf(bytes) ==
  LET top[k \in 0 .. Len(bytes)] ==
        IF k = 0 THEN 0 ELSE 256 * top[k - 1] + bytes[Len(bytes) + 1 - k]
  IN  top[Len(bytes)]

(* The number that digits in pairs are, the last pair the most significant.  *)
NumberOfDigits(hex) ==
  NumberOf([i \in 1 .. Len(hex) \div 2 |-> 16 * hex[2 * i - 1] + hex[2 * i]])

(* A digest is over the target, as the pool compares them, just when the     *)
(* number it is exceeds the number the target's digits are.                  *)
ComparesNumbers(digest, target) ==
  /\ HexIsValid(target)
  /\ CompareInvertedHashes(digest, HexToBin(target)) > 0
       <=> NumberOf(digest) > NumberOfDigits(target)

(* What the runs look at: a string whose characters all differ, those of the *)
(* given positions, in a header that carries another such string; and        *)
(* digests and targets of a few bytes.                                       *)
Positions(from, to) == [p \in 1 .. to - from + 1 |-> from + p - 1]

SampleAnswer == Positions(1, DigitsOf(HashBytes))
SampleHeader ==
  LET rest == DigitsOf(HeaderBytes) - 8 - DigitsOf(HashBytes)
  IN  Positions(101, 108) \o BlockHashReordered(SampleAnswer)
        \o Positions(109, 108 + rest)

SampleBytes == 3
SampleDigests == [1 .. SampleBytes -> {0, 1, 15, 16, 255}]
SampleTargets == [1 .. DigitsOf(SampleBytes) -> {0, 1, 15}]
=============================================================================
