----------------------------- MODULE StringUtil -----------------------------
(***************************************************************************)
(* The string helpers of CStringUtil.  A C string is a sequence of codes   *)
(* in -128 .. 127, none of them 0: char is signed, so the bytes of a wide  *)
(* (two-byte) character are below 0 and its second one may be a letter.    *)
(***************************************************************************)
EXTENDS Integers, Sequences, SequencesExt, FiniteSetsExt

CONSTANTS Bits,       \* width of an int: 32, scaled so that TLC can compute
          HashPrime   \* 269597

Space == 32
Percent == 37
Plus == 43
Minus == 45

Wide(c) == c < 0
SignedByte(b) == IF b > 127 THEN b - 256 ELSE b
Wrap(n) == ((n + 2 ^ (Bits - 1)) % 2 ^ Bits) - 2 ^ (Bits - 1)

(* What a reader of a buffer sees: the codes before the first NUL.         *)
CString(buf) == SubSeq(buf, 1, Min({i \in DOMAIN buf : buf[i] = 0} \cup {Len(buf) + 1}) - 1)

-----------------------------------------------------------------------------
(* Numbers *)

Digit(c) == c \in 48 .. 57

(* A '-' alone is taken for a number.                                      *)
IsInt(s) == s # <<>> /\ \A i \in DOMAIN s : Digit(s[i]) \/ (i = 1 /\ s[i] = Minus)

(* Blanks, one sign, then digits up to the first other character.          *)
Atoi(s) ==
    LET from == Min({i \in DOMAIN s : s[i] \notin 9 .. 13 \cup {Space}} \cup {Len(s) + 1})
        signed == from \in DOMAIN s /\ s[from] \in {Minus, Plus}
        first == IF signed THEN from + 1 ELSE from
        end == Min({i \in first .. Len(s) : ~Digit(s[i])} \cup {Len(s) + 1})
        value == FoldLeft(LAMBDA v, c : 10 * v + c - 48, 0, SubSeq(s, first, end - 1))
    IN IF signed /\ s[from] = Minus THEN -value ELSE value

StrToInt(s, d) == IF IsInt(s) THEN Atoi(s) ELSE d

-----------------------------------------------------------------------------
(* Letters: the byte after a wide one is left alone, unless it is itself   *)
(* skipped.  The loop leaves the string when its last byte is such a half. *)

(* The mutant: every wide byte is taken for the first of a character.      *)
LeadsAlways(s) == [i \in 0 .. Len(s) |-> i > 0 /\ Wide(s[i])]
Leads(s) == LET lead[i \in 0 .. Len(s)] == i > 0 /\ Wide(s[i]) /\ ~lead[i - 1] IN lead

CaseMap(s, letters, by) ==
    LET lead == Leads(s)
    IN [i \in DOMAIN s |-> IF s[i] \in letters /\ ~lead[i - 1] THEN s[i] + by ELSE s[i]]

StrToLower(s) == CaseMap(s, 65 .. 90, 32)
StrToUpper(s) == CaseMap(s, 97 .. 122, -32)
RunsPastEnd(s) == Leads(s)[Len(s)]

-----------------------------------------------------------------------------
(* mode: the ends that are trimmed, a subset of {"before", "after"}.       *)
Trim(s, what, mode) ==
    LET others == {i \in DOMAIN s : s[i] \notin what}
        from == IF "before" \in mode THEN Min(others \cup {Len(s) + 1}) ELSE 1
        to == IF "after" \in mode THEN Max(others \cup {from - 1}) ELSE Len(s)
    IN SubSeq(s, from, to)

(* One field up to each delimiter, and what is left unless it is empty.    *)
SplitList(s, delim) ==
    LET push(st, c) == IF c \in delim
                       THEN [list |-> Append(st.list, st.str), str |-> <<>>]
                       ELSE [st EXCEPT !.str = Append(@, c)]
        st == FoldLeft(push, [list |-> <<>>, str |-> <<>>], s)
    IN IF st.str = <<>> THEN st.list ELSE Append(st.list, st.str)

-----------------------------------------------------------------------------
HexValue(c) == CASE Digit(c) -> c - 48
                 [] c \in 97 .. 102 -> c - 87
                 [] c \in 65 .. 70 -> c - 55
                 [] OTHER -> -1

Escaped(s, i) == /\ s[i] = Percent /\ i + 2 <= Len(s)
                 /\ HexValue(s[i + 1]) >= 0 /\ HexValue(s[i + 2]) >= 0

UrlDecode(s) ==
    LET dest[i \in 1 .. Len(s) + 1] ==
            CASE i > Len(s) -> <<>>
              [] i <= Len(s) /\ Escaped(s, i) ->
                   <<SignedByte(16 * HexValue(s[i + 1]) + HexValue(s[i + 2]))>> \o dest[i + 3]
              [] OTHER -> <<IF s[i] = Plus THEN Space ELSE s[i]>> \o dest[i + 1]
    IN CString(dest[1])

-----------------------------------------------------------------------------
(* The sums wrap, as the compiled code does.                               *)
HashCode(s) == FoldLeft(LAMBDA h, c : Wrap(31 * h + c), 0, s)
GetPrimeHash(s) == (HashCode(s) % 2 ^ (Bits - 1)) % HashPrime

-----------------------------------------------------------------------------
(* What the helpers promise of a text, given as its characters: each one   *)
(* code, or the two codes of a wide character.                             *)

Flat(chars) == FlattenSeq(chars)

(* Only letters of one code change, and nothing else is written; a text    *)
(* that was cut inside a wide character is left behind its end.            *)
WideKept(chars) ==
    LET lower(ch) == IF Len(ch) = 1 /\ ch[1] \in 65 .. 90 THEN <<ch[1] + 32>> ELSE ch
        upper(ch) == IF Len(ch) = 1 /\ ch[1] \in 97 .. 122 THEN <<ch[1] - 32>> ELSE ch
        s == Flat(chars)
    IN /\ StrToLower(s) = Flat([i \in DOMAIN chars |-> lower(chars[i])])
       /\ StrToUpper(s) = Flat([i \in DOMAIN chars |-> upper(chars[i])])
       /\ ~RunsPastEnd(s)
       /\ s # <<>> => RunsPastEnd(Front(s)) = (Len(chars[Len(chars)]) = 2)

TrimmedOnly(s, what) ==
    \A mode \in SUBSET {"before", "after"} : \E a, b \in 0 .. Len(s) :
        /\ a <= b /\ Trim(s, what, mode) = SubSeq(s, a + 1, b)
        /\ \A i \in DOMAIN s : i <= a \/ i > b => s[i] \in what
        /\ "before" \notin mode => a = 0
        /\ "after" \notin mode => b = Len(s)
        /\ "before" \in mode /\ a < b => s[a + 1] \notin what
        /\ "after" \in mode /\ a < b => s[b] \notin what

(* Field k lies between delimiters k - 1 and k; an empty last one is none. *)
FieldsBetween(s, delim) ==
    LET cuts == SetToSortSeq({i \in DOMAIN s : s[i] \in delim} \cup {0, Len(s) + 1}, <)
        fields == [k \in 1 .. Len(cuts) - 1 |-> SubSeq(s, cuts[k] + 1, cuts[k + 1] - 1)]
    IN SplitList(s, delim) = IF fields[Len(fields)] = <<>> THEN Front(fields) ELSE fields

Numeral(s) ==
    LET sign == IF s # <<>> /\ s[1] = Minus THEN -1 ELSE 1
        digits == IF sign = -1 THEN Tail(s) ELSE s
        value == MapThenSumSet(LAMBDA i : (digits[i] - 48) * 10 ^ (Len(digits) - i), DOMAIN digits)
    IN StrToInt(s, 7) = IF s # <<>> /\ \A i \in DOMAIN digits : Digit(digits[i]) THEN sign * value ELSE 7

Encoded(s) ==
    LET hex(v) == IF v < 10 THEN 48 + v ELSE 55 + v
        code(c) == CASE c = Space -> <<Plus>>
                     [] c \in {Percent, Plus} \/ Wide(c) -> <<Percent, hex((c % 256) \div 16), hex(c % 16)>>
                     [] OTHER -> <<c>>
    IN FlattenSeq([i \in DOMAIN s |-> code(s[i])])

Decodes(s) == UrlDecode(Encoded(s)) = s /\ Len(UrlDecode(s)) <= Len(s)

HashFits(s) ==
    /\ HashCode(s) = Wrap(MapThenSumSet(LAMBDA i : s[i] * 31 ^ (Len(s) - i), DOMAIN s))
    /\ GetPrimeHash(s) \in 0 .. HashPrime - 1
    /\ HashCode(s) >= 0 => GetPrimeHash(s) = HashCode(s) % HashPrime
=============================================================================
