----------------------------- MODULE CleanData ------------------------------
(***************************************************************************)
(* clean_data.cpp: the list of the regular files of a directory, from      *)
(* which other programs remove files in the meantime.  The paths lie one   *)
(* behind the other in one block of memory, and the list holds pointers    *)
(* into it.                                                                *)
(***************************************************************************)
EXTENDS Integers, Sequences, FiniteSets, SequencesExt

VARIABLES entries,   \* the directory: a function from names to "file" or "dir"
          gone,      \* names that were removed by others
          unread,    \* names readdir has still to return
          dirp,      \* the name it returned, as <<name>>, or <<>>
          tmp_str,   \* the first free place of the block
          block,     \* the block: which path begins at which place
          st,        \* what stat said last: the variable keeps its place in the loop
          file_name  \* the list: places in the block

dataVars == <<entries, gone, unread, dirp, tmp_str, block, st, file_name>>

DataInit(directories, garbage) ==
    /\ entries \in directories /\ gone = {} /\ unread = DOMAIN entries
    /\ dirp = <<>> /\ tmp_str = 0 /\ block = <<>> /\ file_name = <<>>
    /\ st \in garbage

Readdir ==
    /\ dirp = <<>>
    /\ \E name \in unread : dirp' = <<name>> /\ unread' = unread \ {name}
    /\ UNCHANGED <<entries, gone, tmp_str, block, st, file_name>>

(* The path of the name, written to the first free place.                  *)
WithPath ==
    [place \in DOMAIN block \cup {tmp_str} |->
        IF place = tmp_str THEN dirp[1] ELSE block[place]]

(* The mutant: every path is written to the start of the block.            *)
StatInPlace ==
    /\ dirp # <<>>
    /\ block' = WithPath
    /\ st' = IF dirp[1] \in gone THEN st ELSE entries[dirp[1]]
    /\ file_name' = IF st' = "file" THEN Append(file_name, tmp_str) ELSE file_name
    /\ dirp' = <<>>
    /\ UNCHANGED <<entries, gone, unread, tmp_str>>

(* A stat that fails leaves st as it was.                                  *)
Stat ==
    /\ dirp # <<>>
    /\ block' = WithPath
    /\ st' = IF dirp[1] \in gone THEN st ELSE entries[dirp[1]]
    /\ file_name' = IF st' = "file" THEN Append(file_name, tmp_str) ELSE file_name
    /\ tmp_str' = tmp_str + 1
    /\ dirp' = <<>>
    /\ UNCHANGED <<entries, gone, unread>>

RemoveByOthers ==
    /\ dirp # <<>> \/ unread # {}
    /\ \E name \in DOMAIN entries \ gone :
          gone' = gone \cup {name} /\ unread' \in {unread, unread \ {name}}
    /\ UNCHANGED <<entries, dirp, tmp_str, block, st, file_name>>

DataNext == Readdir \/ Stat \/ RemoveByOthers

-----------------------------------------------------------------------------
(* The paths the pointers lead to are, once each, the regular files that   *)
(* readdir returned; only for a name that others removed may st be the one *)
(* of the name before it (clean_data.cpp:63-72).                           *)
ListedRegular ==
    LET read == {block[k] : k \in DOMAIN block}
        listed == {block[file_name[k]] : k \in DOMAIN file_name}
    IN /\ \A name \in read \ gone : name \in listed <=> entries[name] = "file"
       /\ DOMAIN entries \subseteq read \cup gone \cup unread \cup ToSet(dirp)
       /\ Len(file_name) = Cardinality(listed)
=============================================================================
