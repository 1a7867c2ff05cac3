------------------------------- MODULE Config -------------------------------
(***************************************************************************)
(* CConfig: the sections and keys of configuration files.  Several files   *)
(* are loaded one after the other into the same store.  A value that is    *)
(* given again is appended behind a NUL.                                   *)
(***************************************************************************)
EXTENDS StringUtil

CONSTANT StrayBytes  \* what may lie in memory before the line

ASSUME ConfigAssumption == StrayBytes \subseteq Int

VARIABLES files,      \* the files to load: sequences of lines
          fileNo,     \* how many of them were opened
          lineNo,     \* how many lines of the last one were read
          config      \* [m, configMap, accepted, reading]: m is <<>> for NULL, accepted a history

configVars == <<files, fileNo, lineNo, config>>

Blanks == {32, 9, 13, 10}
Equals == 61
Hash == 35
Open == 91
Close == 93

NameChar(c) == c \in 65 .. 90 \cup 97 .. 122 \cup 48 .. 57 \cup {95}

-----------------------------------------------------------------------------
(* The name in a section line, as <<name>>, or <<>>.                       *)

LastInk(s) == Max({i \in DOMAIN s : s[i] \notin Blanks})
Bracketed(s) == Len(s) > 2 /\ s[1] = Open /\ s[LastInk(s)] = Close
IsSectionName(s) ==
    LET name == SubSeq(s, 2, LastInk(s) - 1)
    IN IF Bracketed(s) /\ \A i \in DOMAIN name : NameChar(name[i]) THEN <<name>> ELSE <<>>

(* The last bracket is overwritten before the name is looked at.           *)
AfterIsSectionName(s) == IF Bracketed(s) THEN SubSeq(s, 1, LastInk(s) - 1) ELSE s

(* The comment behind a value.                                             *)
(* The mutant: it is looked for from the start of the line.                *)
CommentAnywhere(s, value, end) == Min({i \in 1 .. end : i = end \/ s[i] = Hash})
Comment(s, value, end) == Min({i \in value .. end : i = end \/ s[i] = Hash})

(* A line is cut into key and value by NULs, at end, cut and stop, that    *)
(* are written in place, while the pointers walk back over what is before  *)
(* them: over blanks before '=', and over anything up to a blank, a NUL    *)
(* or a wide byte before the end of the value.  They may pass the '=', and *)
(* the start of the line.                                                  *)
ParseValue(s, stray) ==
    LET ink == {i \in DOMAIN s : s[i] \notin Blanks}
        p == Min(ink)
        end == Max(ink) + 1
        equals == {i \in DOMAIN s : s[i] = Equals}
        Chr(i) == IF i = 0 THEN stray ELSE s[i]
        cut == Max({i \in 0 .. Min(equals) : i = 0 \/ Chr(i - 1) # Space})
        Chr1(i) == IF i = cut THEN 0 ELSE Chr(i)
        value == Min({i \in Min(equals) + 1 .. end : i = end \/ s[i] # Space})
        stop == Max({i \in 0 .. Comment(s, value, end) : i = 0 \/ Chr1(i - 1) > Space})
        From(i) == SubSeq(s, i, Min({k \in {end, cut, stop} : k >= i}) - 1)
    IN CASE ink = {} \/ (ink # {} /\ s[p] = Hash) -> [ret |-> -1]
         [] ink # {} /\ s[p] # Hash /\ equals = {} -> [ret |-> -2]
         [] OTHER -> IF From(p) = <<>> THEN [ret |-> -2]
                     ELSE [ret |-> 0, key |-> From(p), val |-> From(value)]

-----------------------------------------------------------------------------
With(map, x, e) == [y \in DOMAIN map \cup {x} |-> IF y = x THEN e ELSE map[y]]

(* The mutant: the last value replaces the others.                         *)
InsertLast(map, key, val) == With(map, key, val)
Insert(map, key, val) ==
    With(map, key, IF key \in DOMAIN map THEN map[key] \o <<0>> \o val ELSE val)

LoadLine(c, line, stray) ==
    LET section == IsSectionName(line)
        r == ParseValue(AfterIsSectionName(line), stray)
    IN IF section # <<>> THEN
           [c EXCEPT !.m = section,
                     !.configMap = IF section[1] \in DOMAIN @ THEN @ ELSE With(@, section[1], <<>>)]
       ELSE CASE r.ret = -1 -> c
              [] r.ret = -2 \/ (r.ret = 0 /\ c.m = <<>>) -> [c EXCEPT !.reading = FALSE]
              [] OTHER ->
                   [c EXCEPT !.configMap[c.m[1]] = Insert(@, r.key, r.val),
                             !.accepted = Append(@, <<c.m[1], r.key, r.val>>)]

(* What some lines make of store c.                                        *)
Loaded(c, lines, stray) ==
    LET after[n \in 0 .. Len(lines)] ==
            IF n = 0 THEN c ELSE LoadLine(after[n - 1], lines[n], stray)
    IN after[Len(lines)]

(* The k-th number of S from below.                                        *)
Nth(S, k) == CHOOSE i \in S : Cardinality({j \in S : j <= i}) = k

(* Lists: the values between the NULs, the last one even when it is empty. *)
Parts(data) ==
    LET starts == {1} \cup {i + 1 : i \in {j \in DOMAIN data : data[j] = 0}}
    IN [k \in 1 .. Cardinality(starts) |-> CString(SubSeq(data, Nth(starts, k), Len(data)))]

Has(map, section, key) == section \in DOMAIN map /\ key \in DOMAIN map[section]
GetString(map, section, key, d) == IF Has(map, section, key) THEN CString(map[section][key]) ELSE d
GetStringList(map, section, key) == IF Has(map, section, key) THEN Parts(map[section][key]) ELSE <<>>
GetInt(map, section, key, d) ==
    IF Has(map, section, key) THEN StrToInt(GetString(map, section, key, <<>>), d) ELSE d
GetIntList(map, section, key) ==
    LET list == GetStringList(map, section, key) IN [i \in DOMAIN list |-> Atoi(list[i])]
GetSectionKey(map, section) == IF section \in DOMAIN map THEN DOMAIN map[section] ELSE {}
GetSectionName(map) == DOMAIN map

(* The store as lines; the order of sections and of keys is left open.     *)
Indent == <<Space, Space, Space, Space>>
(* The mutant: only what c_str shows is written.                           *)
KeyLinesFirst(map, section, key) ==
    <<Indent \o key \o <<Space, Equals, Space>> \o CString(map[section][key]) \o <<10>>>>
KeyLines(map, section, key) ==
    LET list == Parts(map[section][key])
    IN [i \in DOMAIN list |-> Indent \o key \o <<Space, Equals, Space>> \o list[i] \o <<10>>]
SectionLines(map, section) ==
    LET keys == SetToSeq(GetSectionKey(map, section))
    IN <<<<Open>> \o section \o <<Close, 10>>>>
       \o FlattenSeq([i \in DOMAIN keys |-> KeyLines(map, section, keys[i])])
ToLines(map) ==
    LET sections == SetToSeq(GetSectionName(map))
    IN Append(FlattenSeq([i \in DOMAIN sections |-> SectionLines(map, sections[i])]), <<10>>)

-----------------------------------------------------------------------------
NoConfig == [m |-> <<>>, configMap |-> <<>>, accepted |-> <<>>, reading |-> FALSE]

ConfigInit(lists) == files \in lists /\ fileNo = 0 /\ lineNo = 0 /\ config = NoConfig

LoadOpen ==
    /\ ~config.reading /\ fileNo < Len(files)
    /\ fileNo' = fileNo + 1 /\ lineNo' = 0
    /\ \/ config' = [config EXCEPT !.m = <<>>, !.reading = TRUE]
       \/ UNCHANGED config                      \* fopen fails
    /\ UNCHANGED files

LoadNext ==
    /\ config.reading /\ lineNo < Len(files[fileNo])
    /\ lineNo' = lineNo + 1
    /\ \E stray \in StrayBytes : config' = LoadLine(config, files[fileNo][lineNo + 1], stray)
    /\ UNCHANGED <<files, fileNo>>

LoadEnd ==
    /\ config.reading /\ lineNo = Len(files[fileNo])
    /\ config' = [config EXCEPT !.reading = FALSE]
    /\ UNCHANGED <<files, fileNo, lineNo>>

ConfigNext == LoadOpen \/ LoadNext \/ LoadEnd

-----------------------------------------------------------------------------
(* The meaning of a line without tabs and wide characters: what stands     *)
(* before the first '=', and what stands between it and a comment, both    *)
(* without the blanks around them.                                         *)
Plain(line) == \A i \in DOMAIN line : line[i] >= Space \/ (line[i] = 10 /\ i = Len(line))

Upto(s, c) == SubSeq(s, 1, Min({i \in DOMAIN s : s[i] = c} \cup {Len(s) + 1}) - 1)
Bare(s) == Trim(s, Blanks, {"before", "after"})

Meaning(line) ==
    LET name == Upto(line, Equals)
        rest == SubSeq(line, Len(name) + 2, Len(line))
    IN CASE Bare(Upto(line, Hash)) = <<>> -> [ret |-> -1]
         [] Bare(Upto(line, Hash)) # <<>> /\ name = line -> [ret |-> -2]
         [] OTHER -> [ret |-> 0, key |-> Bare(name), val |-> Bare(Upto(rest, Hash)),
                      comment |-> Bare(rest),
                      apart |-> name # <<>> /\ name[Len(name)] = Space /\ rest # <<>> /\ rest[1] = Hash]

(* parseValue reads the line that was read last by its meaning, whatever   *)
(* lies before it in memory, but that a comment behind an empty value is   *)
(* taken for the value, unless its '#' follows the '=' and the '=' a       *)
(* blank; and that a line without a key is refused or stored under a key   *)
(* that begins with '='.                                                   *)
ParsedAsWritten ==
    fileNo > 0 /\ lineNo > 0 =>
        LET line == AfterIsSectionName(files[fileNo][lineNo])
            w == Meaning(line)
        IN Plain(line) => \A stray \in StrayBytes :
               LET r == ParseValue(line, stray)
               IN IF w.ret # 0 THEN r = w
                  ELSE IF w.key = <<>> THEN r.ret = -2 \/ r.key[1] = Equals
                  ELSE /\ r.ret = 0 /\ r.key = w.key
                       /\ r.val = IF w.val = <<>> /\ ~w.apart THEN w.comment ELSE w.val

(* A list holds every value its key was given, in their order, over        *)
(* sections that are opened again, loads that are repeated and loads that  *)
(* failed; a single value is the first of them; nothing else is stored.    *)
ListsInOrder ==
    LET map == config.configMap
    IN /\ \A s \in DOMAIN map : \A k \in DOMAIN map[s] :
              LET given == {i \in DOMAIN config.accepted :
                                config.accepted[i][1] = s /\ config.accepted[i][2] = k}
                  vals == [n \in 1 .. Cardinality(given) |-> config.accepted[Nth(given, n)][3]]
              IN /\ GetStringList(map, s, k) = vals
                 /\ vals # <<>> /\ GetString(map, s, k, <<>>) = vals[1]
                 /\ GetIntList(map, s, k) = [i \in DOMAIN vals |-> Atoi(vals[i])]
                 /\ GetInt(map, s, k, 7) = IF IsInt(vals[1]) THEN Atoi(vals[1]) ELSE 7
       /\ \A i \in DOMAIN config.accepted :
              Has(map, config.accepted[i][1], config.accepted[i][2])

(* Loading what toString writes into an empty store gives the same store,  *)
(* but for keys that begin with '=', and for keys and values that hold a   *)
(* tab, a wide byte or, in a value or at the start of a key, a '#'.        *)
Reloadable(map) ==
    \A s \in DOMAIN map : \A k \in DOMAIN map[s] :
        /\ k[1] # Equals /\ k[1] # Hash
        /\ \A i \in DOMAIN k : k[i] >= Space
        /\ \A i \in DOMAIN map[s][k] : map[s][k][i] = 0 \/ (map[s][k][i] >= Space /\ map[s][k][i] # Hash)

RoundTrip ==
    LET map == config.configMap
        again(stray) == Loaded([NoConfig EXCEPT !.reading = TRUE], ToLines(map), stray)
    IN Reloadable(map) => \A stray \in StrayBytes :
           again(stray).reading /\ again(stray).configMap = map
=============================================================================
