----------------------------- MODULE Programs -------------------------------
(***************************************************************************)
(* The small programs and libraries of the repository, side by side.  They *)
(* share nothing: a behaviour belongs to one of them, and the state of the *)
(* others stays as it is.                                                  *)
(***************************************************************************)
EXTENDS Config, MurmurHash, Turns, MakeDirs, ServerClient, CleanData, SignalLevel

CONSTANTS Texts,        \* texts for the string helpers: sequences of characters
          HashKeys,     \* keys for the hashes
          FileLists,    \* files for CConfig
          PathSets,     \* paths for the programs that run mkdirs
          Trees,        \* file systems they may find
          LineLengths,  \* lengths of a line typed at a client
          Directories,  \* directories for clean_data
          Garbage       \* what an uninitialised struct stat may say

VARIABLES program,  \* which program this is
          text,     \* the text its string helpers are called with
          key       \* the key its hashes are called with

inputs == <<program, text, key>>
vars == <<inputs, configVars, turnsVars, dirsVars, serverVars, dataVars, levelVars>>

(* The inputs of one program vary, and the others have the least one.      *)
For(name, S, least) == IF program = name THEN S ELSE {least}

Init ==
    /\ program \in {"strings", "hashes", "config", "turns", "mkdirs", "server", "list", "signals"}
    /\ text \in For("strings", Texts, <<>>) /\ key \in For("hashes", HashKeys, <<>>)
    /\ ConfigInit(For("config", FileLists, <<>>))
    /\ TurnsInit
    /\ MkdirsInit(For("mkdirs", PathSets, [maker \in Makers |-> <<>>]),
                  For("mkdirs", Trees, [dirs |-> {<<>>}, plain |-> {}]))
    /\ ServerInit(For("server", LineLengths, 1))
    /\ DataInit(For("list", Directories, <<>>), For("list", Garbage, "dir"))
    /\ LevelInit

ConfigStep == program = "config" /\ ConfigNext /\ UNCHANGED <<inputs, turnsVars, dirsVars, serverVars, dataVars, levelVars>>
TurnsStep(A) == program = "turns" /\ A /\ UNCHANGED <<inputs, configVars, dirsVars, serverVars, dataVars, levelVars>>
MkdirsStep == program = "mkdirs" /\ MkdirsNext /\ UNCHANGED <<inputs, configVars, turnsVars, serverVars, dataVars, levelVars>>
ServerStep == program = "server" /\ ServerNext /\ UNCHANGED <<inputs, configVars, turnsVars, dirsVars, dataVars, levelVars>>
DataStep == program = "list" /\ DataNext /\ UNCHANGED <<inputs, configVars, turnsVars, dirsVars, serverVars, levelVars>>
LevelStep == program = "signals" /\ LevelNext /\ UNCHANGED <<inputs, configVars, turnsVars, dirsVars, serverVars, dataVars>>

Ended ==
    /\ CASE program = "config" -> ~config.reading /\ fileNo = Len(files)
         [] program = "turns" -> ~Running
         [] program = "mkdirs" -> \A maker \in Makers : dpc[maker] \in {"0", "-1"}
         [] program = "server" -> Len(printed) = Cardinality(Clients)
         [] program = "list" -> dirp = <<>> /\ unread = {}
         [] program = "signals" -> handlers = <<>> /\ \A s \in Signals : sent[s] = MaxSignals /\ queued[s] = 0
         [] OTHER -> TRUE
    /\ UNCHANGED vars

Next == ConfigStep \/ TurnsStep(TurnsNext) \/ MkdirsStep \/ ServerStep \/ DataStep \/ LevelStep \/ Ended

(* The scheduler lets main and every thread of c_thread go on, and gives a *)
(* free mutex to a thread that keeps asking for it.                        *)
Fairness ==
    /\ WF_vars(TurnsStep(TurnsMain))
    /\ \A t \in Tids : WF_vars(TurnsStep(Running /\ ThreadFunc(t) /\ UNCHANGED <<mainpc, i>>))

Spec == Init /\ [][Next]_vars
FairSpec == Spec /\ Fairness

-----------------------------------------------------------------------------
(* The string helpers do to a text what their names say (stringutil.cpp):  *)
(* wide characters keep both bytes, only what was asked for is trimmed,    *)
(* fields are what lies between delimiters, numbers have their value, what *)
(* was encoded for a URL is decoded, and a hash is where its table is.     *)
(* The signed murmur hash and the unsigned one agree on the keys they      *)
(* should (murmurhash2.cc:40-45, stringutil.cpp:216-221).                  *)
HelpersAgree ==
    /\ WideKept(text) /\ TrimmedOnly(Flat(text), {Space, Percent})
    /\ FieldsBetween(Flat(text), {Space, Plus}) /\ Numeral(Flat(text))
    /\ Decodes(Flat(text)) /\ HashFits(Flat(text))
    /\ HashesAgreeOn(key)

(* Every thread of c_thread runs and main returns, unless a thread cannot  *)
(* be created (c_thread.cpp:16-23).                                        *)
AllRun ==
    program = "turns" => <>(mainpc = "failed" \/ (mainpc = "returned" /\ Len(ran) = NThreads))
=============================================================================
