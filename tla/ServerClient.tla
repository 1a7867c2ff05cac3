---------------------------- MODULE ServerClient ----------------------------
(***************************************************************************)
(* client.cc and server.cc: a client sends one line, the server takes the  *)
(* connections one after the other, calls recv once on each into the same  *)
(* buffer, ends the text with a NUL and prints it.                         *)
(***************************************************************************)
EXTENDS Integers, Sequences, SequencesExt, FiniteSetsExt

CONSTANTS Clients,
          MaxLine,   \* the size of both buffers, 4096
          MaxLosses  \* bound: connections that break

ASSUME ServerAssumption == MaxLine \in Nat \ {0}

NUL == <<>>
Junk == <<0, 0>>

VARIABLES sendline,  \* the length of the line each client is given
          client,    \* where each client is
          wire,      \* what was sent on its connection and not received
          backlog,   \* connections to accept
          connfd,    \* the connection accepted, as <<c>>, or <<>>
          buff,      \* the server's buffer, from 0 on: characters <<c, k>>, NUL or junk
          printed,   \* history: <<c, n, text>>
          losses     \* broken connections so far

serverVars == <<sendline, client, wire, backlog, connfd, buff, printed, losses>>

Cells == 0 .. MaxLine - 1

(* fgets reads a line of at most MaxLine - 1 characters.                   *)
Fgets(typed) == IF typed < MaxLine THEN typed ELSE MaxLine - 1
Line(c) == [k \in 1 .. Fgets(sendline[c]) |-> <<c, k>>]

ServerInit(lengths) ==
    /\ sendline \in [Clients -> lengths]
    /\ client = [c \in Clients |-> "connect"] /\ wire = [c \in Clients |-> <<>>]
    /\ backlog = <<>> /\ connfd = <<>> /\ printed = <<>> /\ losses = 0
    /\ buff = [b \in Cells |-> Junk]

-----------------------------------------------------------------------------
Connect(c) ==
    /\ client[c] = "connect"
    /\ client' = [client EXCEPT ![c] = "send"] /\ backlog' = Append(backlog, c)
    /\ UNCHANGED <<sendline, wire, connfd, buff, printed, losses>>

(* send takes the whole line, or fails and the program ends.               *)
Send(c) ==
    /\ client[c] = "send"
    /\ \/ wire' = [wire EXCEPT ![c] = Line(c)] /\ client' = [client EXCEPT ![c] = "close"]
       \/ client' = [client EXCEPT ![c] = "closed"] /\ UNCHANGED wire
    /\ UNCHANGED <<sendline, backlog, connfd, buff, printed, losses>>

CloseClient(c) ==
    /\ client[c] = "close" /\ client' = [client EXCEPT ![c] = "closed"]
    /\ UNCHANGED <<sendline, wire, backlog, connfd, buff, printed, losses>>

(* The connection breaks: what was not received is gone, and recv fails.   *)
Break(c) ==
    /\ client[c] \in {"send", "close", "closed"} /\ losses < MaxLosses
    /\ losses' = losses + 1
    /\ client' = [client EXCEPT ![c] = "broken"] /\ wire' = [wire EXCEPT ![c] = <<>>]
    /\ UNCHANGED <<sendline, backlog, connfd, buff, printed>>

-----------------------------------------------------------------------------
Accept ==
    /\ connfd = <<>> /\ backlog # <<>>
    /\ connfd' = <<Head(backlog)>> /\ backlog' = Tail(backlog)
    /\ UNCHANGED <<sendline, client, wire, buff, printed, losses>>

(* Some of what has come, 0 at the end of the connection, -1 on an error.  *)
Received(c) ==
    IF client[c] = "broken" THEN {-1}
    ELSE IF wire[c] # <<>> THEN 1 .. Len(wire[c])
    ELSE IF client[c] = "closed" THEN {0} ELSE {}

(* The mutant: no NUL is written.                                          *)
FilledOnly(c, n) == [b \in Cells |-> IF b < n THEN wire[c][b + 1] ELSE buff[b]]
Filled(c, n) ==
    [b \in Cells |-> CASE b = n -> NUL
                       [] b < n -> wire[c][b + 1]
                       [] OTHER -> buff[b]]

Printed(b) ==
    LET end == Min({k \in Cells : b[k] = NUL} \cup {MaxLine})
    IN [k \in 1 .. end |-> b[k - 1]]

(* buff[-1] and buff[MaxLine] are no cells: a NUL there is not seen.       *)
Recv ==
    /\ connfd # <<>>
    /\ \E n \in Received(connfd[1]) :
          /\ buff' = Filled(connfd[1], n)
          /\ printed' = Append(printed, <<connfd[1], n, Printed(buff')>>)
    /\ connfd' = <<>>
    /\ UNCHANGED <<sendline, client, wire, backlog, losses>>

ServerNext ==
    \/ Accept \/ Recv
    \/ \E c \in Clients : Connect(c) \/ Send(c) \/ CloseClient(c) \/ Break(c)

-----------------------------------------------------------------------------
(* What is printed for a connection is what was received on it, and never  *)
(* a rest of an earlier line in the buffer they share: the NUL lands       *)
(* inside the buffer, behind the text.  After a failed recv the earlier    *)
(* text is printed again (server.cc:53-55).                                *)
PrintedIsOwn ==
    \A k \in DOMAIN printed :
        LET c == printed[k][1]
            n == printed[k][2]
            before == {j \in 1 .. k - 1 : printed[j][2] >= 0}
        IN IF n >= 0 THEN n < MaxLine /\ printed[k][3] = SubSeq(Line(c), 1, n)
           ELSE before # {} => printed[k][3] = printed[Max(before)][3]
=============================================================================
