---------------------------- MODULE SignalLevel -----------------------------
(***************************************************************************)
(* signal_test.cpp: signals 42 and 41 raise and lower log_level, which     *)
(* main only reads.  A handler is blocked for its own signal and not for   *)
(* the other one.  log_level++ may be compiled to a load and a store, or   *)
(* to one instruction.                                                     *)
(***************************************************************************)
EXTENDS Integers, Sequences, SequencesExt

CONSTANT MaxSignals  \* bound: how often each signal is sent

VARIABLES log_level,
          sent,      \* how often each signal was sent
          queued,    \* real-time signals queue: how many of each are to be handled
          handlers,  \* the handlers that run, the innermost last
          lost       \* history: signals handled between a load and a store of another's handler

levelVars == <<log_level, sent, queued, handlers, lost>>

Signals == {41, 42}

LevelInit ==
    /\ log_level = 2
    /\ sent = [s \in Signals |-> 0] /\ queued = sent
    /\ handlers = <<>> /\ lost = [s \in Signals |-> 0]

Kill(s) ==
    /\ sent[s] < MaxSignals
    /\ sent' = [sent EXCEPT ![s] = @ + 1] /\ queued' = [queued EXCEPT ![s] = @ + 1]
    /\ UNCHANGED <<log_level, handlers, lost>>

Blocked(s) == \E h \in ToSet(handlers) : h.num = s

(* Before main or a handler goes on, the signals that may be handled are,  *)
(* the lower number first.                                                 *)
Deliver(s) ==
    /\ queued[s] > 0 /\ ~Blocked(s)
    /\ \A r \in Signals : r < s => queued[r] = 0 \/ Blocked(r)
    /\ queued' = [queued EXCEPT ![s] = @ - 1]
    /\ handlers' = Append(handlers, [num |-> s, at |-> "entered", level |-> log_level])
    /\ UNCHANGED <<log_level, sent, lost>>

Becomes(h) == handlers' = Append(Front(handlers), h)

Load ==
    /\ handlers # <<>> /\ Last(handlers).at = "entered"
    /\ Becomes([Last(handlers) EXCEPT !.at = "loaded", !.level = log_level])
    /\ UNCHANGED <<log_level, sent, queued, lost>>

(* The mutant: no break after the first case.                              *)
ChangedThrough(s, level) == IF s = 42 THEN level ELSE level - 1
Changed(s, level) == IF s = 42 THEN level + 1 ELSE level - 1

(* The store of what was loaded, or the one instruction.  What it does is  *)
(* lost if the handler below has loaded already.                           *)
Store ==
    /\ handlers # <<>> /\ Last(handlers).at \in {"entered", "loaded"}
    /\ LET h == Last(handlers)
           below == Front(handlers)
       IN /\ log_level' = Changed(h.num, IF h.at = "loaded" THEN h.level ELSE log_level)
          /\ lost' = IF below # <<>> /\ Last(below).at = "loaded"
                     THEN [lost EXCEPT ![h.num] = @ + 1] ELSE lost
          /\ Becomes([h EXCEPT !.at = "stored"])
    /\ UNCHANGED <<sent, queued>>

Return ==
    /\ handlers # <<>> /\ Last(handlers).at = "stored"
    /\ handlers' = Front(handlers)
    /\ UNCHANGED <<log_level, sent, queued, lost>>

LevelNext == Load \/ Store \/ Return \/ \E s \in Signals : Kill(s) \/ Deliver(s)

-----------------------------------------------------------------------------
(* While main runs, log_level is what the signals handled so far make of   *)
(* it, but for those that came between a load and a store of another's     *)
(* handler (signal_test.cpp:17-19); and none is lost unless both kinds     *)
(* have come, as a handler is blocked for its own.                         *)
LevelFollowsSignals ==
    LET handled == [s \in Signals |-> sent[s] - queued[s]]
    IN handlers = <<>> =>
          /\ log_level = 2 + (handled[42] - lost[42]) - (handled[41] - lost[41])
          /\ (\E s \in Signals : handled[s] = 0) => \A s \in Signals : lost[s] = 0
=============================================================================
