------------------------------ MODULE Eviction ------------------------------
(***************************************************************************)
(* The daily eviction: split cuts the list of evicted keys into parts, and *)
(* clean_cache is run on the parts, in any order and again after a crash,  *)
(* but not while split is writing them.                                    *)
(***************************************************************************)
EXTENDS Split, CleanCache

vars == <<splitVars, cleanVars>>

Init == SplitInit /\ CleanInit

SplitStep == cpc = "idle" /\ SplitNext /\ UNCHANGED cleanVars

CleanPart ==
    /\ spc = "idle"
    /\ \E k \in Parts : files[k] # <<>> /\ Begin(files[k])
    /\ UNCHANGED splitVars

CleanStep == CleanNext /\ UNCHANGED splitVars

Stopped ==
    /\ spc = "idle" /\ cpc = "idle" /\ splits = MaxSplits
    /\ cleans = MaxCleans \/ \A k \in Parts : files[k] = <<>>
    /\ UNCHANGED vars

Next == SplitStep \/ CleanPart \/ CleanStep \/ Stopped

Spec == Init /\ [][Next]_vars

=============================================================================
