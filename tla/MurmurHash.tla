----------------------------- MODULE MurmurHash -----------------------------
(***************************************************************************)
(* The two MurmurHash2 of the repository: one by itself, that reads the    *)
(* last bytes of a key as signed ones, and one of CStringUtil, that reads  *)
(* them as unsigned.  A byte has ByteBits bits and a word four bytes, and  *)
(* the constants of the mix are scaled with them.                          *)
(***************************************************************************)
EXTENDS Integers, Sequences, SequencesExt, FiniteSetsExt

CONSTANTS ByteBits,        \* 8
          M, R, S1, S2,    \* 0x5bd1e995, 24, 13, 15
          Seed             \* 97

WordBits == 4 * ByteBits
Word(n) == n % 2 ^ WordBits

Bit(n, i) == (n \div 2 ^ i) % 2
Xor(a, b) ==
    MapThenSumSet(LAMBDA i : IF Bit(a, i) = Bit(b, i) THEN 0 ELSE 2 ^ i, 0 .. WordBits - 1)
XorShifted(h, by) == Xor(h, h \div 2 ^ by)

Indices(s) == [i \in DOMAIN s |-> i]
Value(bytes) == FoldLeft(LAMBDA v, i : v + bytes[i] * 2 ^ (ByteBits * (i - 1)), 0, Indices(bytes))

(* Four bytes at a time, in the order of a little-endian machine.          *)
MixWord(h, four) == Xor(Word(h * M), Word(XorShifted(Word(Value(four) * M), R) * M))
MixWords(h, data) ==
    FoldLeft(LAMBDA x, j : MixWord(x, SubSeq(data, 4 * j - 3, 4 * j)), h,
             [j \in 1 .. Len(data) \div 4 |-> j])

Rest(data) == SubSeq(data, 4 * (Len(data) \div 4) + 1, Len(data))

(* The mutant: the last bytes are read as unsigned here too.               *)
Unsigned(b) == b
Signed(b) == IF b < 2 ^ (ByteBits - 1) THEN b ELSE b - 2 ^ ByteBits
SignedRest(data) == [i \in DOMAIN Rest(data) |-> Signed(Rest(data)[i])]

(* The cases fall through, so that each byte that is left is mixed in.     *)
MixRest(h, rest) ==
    IF rest = <<>> THEN h
    ELSE Word(M * FoldLeft(LAMBDA x, i : Xor(x, Word(rest[i] * 2 ^ (ByteBits * (i - 1)))),
                           h, Indices(rest)))

FinalMix(h) == XorShifted(Word(XorShifted(h, S1) * M), S2)

MurMurHash2(key, seed) == FinalMix(MixRest(MixWords(Xor(seed, Len(key)), key), SignedRest(key)))
MurMurHash(key) == FinalMix(MixRest(MixWords(Xor(Seed, Len(key)), key), Rest(key)))

-----------------------------------------------------------------------------
(* The two agree on a key exactly when none of its last bytes, those       *)
(* behind the whole words, is in the upper half of the bytes.              *)
HashesAgreeOn(key) ==
    MurMurHash2(key, Seed) = MurMurHash(key)
        <=> \A i \in DOMAIN Rest(key) : Rest(key)[i] < 2 ^ (ByteBits - 1)
=============================================================================
