-------------------------------- MODULE Hub ---------------------------------
(***************************************************************************)
(* The WebSocket Hub: internal/websocket/hub.go with the two goroutines of *)
(* every connection (client.go) and the handler that upgrades a request    *)
(* (internal/handler/ws_handler.go).                                       *)
(*                                                                         *)
(* One goroutine, Run, owns the registry; connections and callers reach it *)
(* over channels.  A channel a connection reads from is represented by all *)
(* it was ever given, feed[c], and how much of that was taken, taken[c].   *)
(* The slice of a user's clients is represented by its set: the Hub        *)
(* visits all of it and its order shows nowhere.                           *)
(***************************************************************************)
EXTENDS Integers, Sequences, FiniteSets

CONSTANTS Users,
          Clients,     \* bound: connections ever made
          Owner,       \* Owner[c]: the user connection c is upgraded for
          Calls,       \* bound: calls of SendToUser and Broadcast
          Everyone,    \* the target of a Broadcast
          SendBuffer,  \* sendBufferSize
          TargetedCap, \* capacity of the channel targeted
          BroadcastCap,\* capacity of the channel broadcast
          Stops        \* whether SIGTERM may cancel the Hub's context

ASSUME HubAssumption ==
    /\ Owner \in [Clients -> Users]
    /\ Everyone \notin Users
    /\ SendBuffer \in Nat
    /\ TargetedCap \in Nat
    /\ BroadcastCap \in Nat
    /\ Stops \in BOOLEAN

VARIABLES
    hub,        \* Run
    crashed,    \* a goroutine sent on, or closed, a closed channel: a panic
    registered, \* h.clients
    closed,     \* clients whose send channel is closed
    handler,    \* handler[c]: the request that is upgraded to connection c
    reader,     \* reader[c]: ReadPump
    writer,     \* writer[c]: WritePump
    conn,       \* conn[c]: the connection
    feed,       \* feed[c]: every message put on c.send
    taken,      \* taken[c]: how many of them WritePump took
    call,       \* call[k]: a call of SendToUser or Broadcast
    to,         \* to[k]: its target
    targeted,   \* h.targeted
    broadcast,  \* h.broadcast
    log,        \* history: log[u]: the messages Run took for u's connections
    from,       \* history: from[c]: length of the log when c was registered
    accepted    \* history: targeted calls in the order they returned

conns == <<handler, reader, writer, conn>>
calls == <<call, to, targeted, broadcast, accepted>>
feeds == <<feed, log, from>>
vars == <<hub, crashed, registered, closed, conns, feeds, taken, calls>>

\* What c.send holds.
Buffered(c) == Len(feed[c]) - taken[c]
Full(c) == Buffered(c) = SendBuffer

TypeOK ==
    /\ hub \in {"running", "stopped"}
    /\ crashed \in BOOLEAN
    /\ registered \in SUBSET Clients
    /\ closed \in SUBSET Clients
    /\ handler \in [Clients -> {"none", "registering", "done"}]
    /\ reader \in [Clients -> {"none", "running", "unregistering", "done"}]
    /\ writer \in [Clients -> {"none", "running", "done"}]
    /\ conn \in [Clients -> {"none", "open", "broken", "closed"}]
    /\ feed \in [Clients -> Seq(Calls)]
    /\ taken \in [Clients -> Nat]
    /\ \A c \in Clients : Buffered(c) \in 0..SendBuffer
    /\ call \in [Calls -> {"none", "sending", "returned"}]
    /\ to \in [Calls -> Users \cup {Everyone}]
    /\ targeted \in Seq(Calls)
    /\ broadcast \in Seq(Calls)
    /\ log \in [Users -> Seq(Calls)]
    /\ from \in [Clients -> Nat]
    /\ accepted \in Seq(Calls)

Init ==
    /\ hub = "running"
    /\ crashed = FALSE
    /\ registered = {}
    /\ closed = {}
    /\ handler = [c \in Clients |-> "none"]
    /\ reader = [c \in Clients |-> "none"]
    /\ writer = [c \in Clients |-> "none"]
    /\ conn = [c \in Clients |-> "none"]
    /\ feed = [c \in Clients |-> <<>>]
    /\ taken = [c \in Clients |-> 0]
    /\ call = [k \in Calls |-> "none"]
    /\ to = [k \in Calls |-> Everyone]
    /\ targeted = <<>>
    /\ broadcast = <<>>
    /\ log = [u \in Users |-> <<>>]
    /\ from = [c \in Clients |-> 0]
    /\ accepted = <<>>

-----------------------------------------------------------------------------
(***************************************************************************)
(* A connection is made                                                    *)
(***************************************************************************)
\* HandleWebSocket up to the send on h.register, which waits for the Hub.
Connect(c) ==
    /\ handler[c] = "none"
    /\ handler' = [handler EXCEPT ![c] = "registering"]
    /\ conn' = [conn EXCEPT ![c] = "open"]
    /\ UNCHANGED <<hub, crashed, registered, closed, reader, writer, feeds, taken, calls>>

\* The Hub takes the client; the handler starts the two pumps.
HubRegister(c) ==
    /\ hub = "running"
    /\ handler[c] = "registering"
    /\ handler' = [handler EXCEPT ![c] = "done"]
    /\ registered' = registered \cup {c}
    /\ from' = [from EXCEPT ![c] = Len(log[Owner[c]])]
    /\ reader' = [reader EXCEPT ![c] = "running"]
    /\ writer' = [writer EXCEPT ![c] = "running"]
    /\ UNCHANGED <<hub, crashed, closed, conn, feed, log, taken, calls>>

(***************************************************************************)
(* WritePump                                                               *)
(***************************************************************************)
CloseConn(c) == conn' = [conn EXCEPT ![c] = "closed"]

WriterEnds(c) ==
    /\ writer' = [writer EXCEPT ![c] = "done"]
    /\ CloseConn(c)
    /\ UNCHANGED <<handler, reader>>

\* Takes a message and writes it.  The write fails on a connection that is
\* gone, and after writeWait on a peer that does not read.
WriterSend(c) ==
    /\ writer[c] = "running"
    /\ Buffered(c) > 0
    /\ taken' = [taken EXCEPT ![c] = @ + 1]
    /\ \/ conn[c] = "open" /\ UNCHANGED conns
       \/ WriterEnds(c)
    /\ UNCHANGED <<hub, crashed, registered, closed, feeds, calls>>

\* Mutant: WritePump notices nothing but a peer that is gone.
WriterNeverStops(c) ==
    /\ writer[c] = "running"
    /\ conn[c] = "broken"
    /\ WriterEnds(c)
    /\ UNCHANGED <<hub, crashed, registered, closed, feeds, taken, calls>>
\* The channel is closed and drained, or a ping cannot be written.
WriterStops(c) ==
    /\ writer[c] = "running"
    /\ \/ c \in closed /\ Buffered(c) = 0
       \/ conn[c] # "open"
    /\ WriterEnds(c)
    /\ UNCHANGED <<hub, crashed, registered, closed, feeds, taken, calls>>

(***************************************************************************)
(* ReadPump                                                                *)
(***************************************************************************)
\* ReadMessage fails: the peer closed, no pong came within pongWait, or
\* WritePump closed the connection.
ReaderEnds(c) ==
    /\ reader[c] = "running"
    /\ conn[c] # "open"
    /\ reader' = [reader EXCEPT ![c] = "unregistering"]
    /\ UNCHANGED <<hub, crashed, registered, closed, handler, writer, conn, feeds, taken, calls>>

\* The peer goes away or falls silent.
Break(c) ==
    /\ conn[c] = "open"
    /\ conn' = [conn EXCEPT ![c] = "broken"]
    /\ UNCHANGED <<hub, crashed, registered, closed, handler, reader, writer, feeds, taken, calls>>

(***************************************************************************)
(* Run                                                                     *)
(***************************************************************************)
\* Mutant: the channel is closed whether or not the client is registered.
RemoveAlways(S) ==
    /\ registered' = registered \ S
    /\ closed' = closed \cup S
    /\ crashed' = (crashed \/ S \cap closed # {})
\* removeClient of the clients in S: a client that is not registered (any
\* more) is left alone.
Remove(S) ==
    LET mine == S \cap registered
    IN  /\ registered' = registered \ mine
        /\ closed' = closed \cup mine
        /\ crashed' = (crashed \/ mine \cap closed # {})

HubUnregister(c) ==
    /\ hub = "running"
    /\ reader[c] = "unregistering"
    /\ Remove({c})
    /\ reader' = [reader EXCEPT ![c] = "done"]
    /\ CloseConn(c)
    /\ UNCHANGED <<hub, handler, writer, feeds, taken, calls>>

\* Mutant: a client is removed from the slice that is being visited, so
\* that another one is passed over.
DeliverWhileRemoving(k, users) ==
    LET mine == {c \in registered : Owner[c] \in users}
        full == {c \in mine : Full(c)}
    IN  /\ \E passed \in SUBSET (mine \ full) :
              /\ Cardinality(passed) <= Cardinality(full)
              /\ feed' = [c \in Clients |-> IF c \in mine \ (full \cup passed)
                                            THEN Append(feed[c], k) ELSE feed[c]]
        /\ Remove(full)
        /\ log' = [u \in Users |-> IF u \in users THEN Append(log[u], k) ELSE log[u]]
        /\ UNCHANGED <<hub, conns, from, taken>>
\* deliverToClients: a client whose buffer is full is dropped.
Deliver(k, users) ==
    LET mine == {c \in registered : Owner[c] \in users}
        full == {c \in mine : Full(c)}
    IN  /\ feed' = [c \in Clients |-> IF c \in mine \ full
                                      THEN Append(feed[c], k) ELSE feed[c]]
        /\ Remove(full)
        /\ log' = [u \in Users |-> IF u \in users THEN Append(log[u], k) ELSE log[u]]
        /\ UNCHANGED <<hub, conns, from, taken>>

\* Mutant: the latest message is taken first.
HubTargetedLatest ==
    /\ hub = "running"
    /\ targeted # <<>>
    /\ targeted' = SubSeq(targeted, 1, Len(targeted) - 1)
    /\ LET k == targeted[Len(targeted)] IN Deliver(k, {to[k]})
    /\ UNCHANGED <<call, to, broadcast, accepted>>
HubTargeted ==
    /\ hub = "running"
    /\ targeted # <<>>
    /\ targeted' = Tail(targeted)
    /\ Deliver(Head(targeted), {to[Head(targeted)]})
    /\ UNCHANGED <<call, to, broadcast, accepted>>

\* Mutant: a Broadcast is kept until somebody is connected.
HubBroadcastKeeps ==
    /\ hub = "running"
    /\ broadcast # <<>>
    /\ registered # {}
    /\ broadcast' = Tail(broadcast)
    /\ Deliver(Head(broadcast), Users)
    /\ UNCHANGED <<call, to, targeted, accepted>>
HubBroadcast ==
    /\ hub = "running"
    /\ broadcast # <<>>
    /\ broadcast' = Tail(broadcast)
    /\ Deliver(Head(broadcast), Users)
    /\ UNCHANGED <<call, to, targeted, accepted>>

\* SIGINT or SIGTERM: the context is cancelled, the server goes on serving.
HubStop ==
    /\ Stops
    /\ hub = "running"
    /\ hub' = "stopped"
    /\ UNCHANGED <<crashed, registered, closed, conns, feeds, taken, calls>>

(***************************************************************************)
(* SendToUser and Broadcast, called by Jobs and by requests                *)
(***************************************************************************)
Call(k, target) ==
    /\ call[k] = "none"
    /\ call' = [call EXCEPT ![k] = "sending"]
    /\ to' = [to EXCEPT ![k] = target]
    /\ UNCHANGED <<hub, crashed, registered, closed, conns, feeds, taken, targeted, broadcast, accepted>>

\* The send on the channel, which waits for room.
Return(k) ==
    /\ call[k] = "sending"
    /\ call' = [call EXCEPT ![k] = "returned"]
    /\ \/ /\ to[k] = Everyone
          /\ Len(broadcast) < BroadcastCap
          /\ broadcast' = Append(broadcast, k)
          /\ UNCHANGED <<targeted, accepted>>
       \/ /\ to[k] # Everyone
          /\ Len(targeted) < TargetedCap
          /\ targeted' = Append(targeted, k)
          /\ accepted' = Append(accepted, k)
          /\ UNCHANGED broadcast
    /\ UNCHANGED <<hub, crashed, registered, closed, conns, feeds, taken, to>>

WriterStep(c) == WriterSend(c) \/ WriterStops(c)

Next ==
    \/ \E c \in Clients :
          \/ Connect(c) \/ Break(c)
          \/ WriterStep(c) \/ ReaderEnds(c)
          \/ HubRegister(c) \/ HubUnregister(c)
    \/ HubTargeted \/ HubBroadcast \/ HubStop
    \/ \E k \in Calls : Return(k) \/ \E target \in Users \cup {Everyone} : Call(k, target)

\* Goroutines run, select overlooks no ready case for ever, reads and writes
\* end at their deadlines, and senders blocked on a channel are served in
\* the order they came.
Fairness ==
    /\ \A c \in Clients : /\ WF_vars(WriterStep(c))
                          /\ WF_vars(ReaderEnds(c))
                          /\ WF_vars(HubRegister(c))
                          /\ WF_vars(HubUnregister(c))
    /\ WF_vars(HubTargeted)
    /\ WF_vars(HubBroadcast)
    /\ \A k \in Calls : SF_vars(Return(k))

Spec == Init /\ [][Next]_vars
FairSpec == Spec /\ Fairness

-----------------------------------------------------------------------------
(***************************************************************************)
(* Properties                                                              *)
(***************************************************************************)
\* The Hub never sends on a closed channel nor closes one twice, although a
\* client is removed both when it is slow and when its ReadPump ends.
NoPanic == ~crashed

\* What a connection is given is a gapless run of its user's messages, each
\* once, beginning with the first after it was registered; and as long as
\* it is registered nothing is missing at the end either.  A client that is
\* dropped costs the user's other clients nothing.
Gapless ==
    \A c \in Clients :
        LET l == log[Owner[c]]
        IN  /\ from[c] + Len(feed[c]) <= Len(l)
            /\ \A i \in 1 .. Len(feed[c]) : feed[c][i] = l[from[c] + i]
            /\ c \in registered => from[c] + Len(feed[c]) = Len(l)

\* A connection gets a caller's messages in the order the calls returned: a
\* Job's progress never follows its completion.
Before(s, x, y) == \E i, j \in DOMAIN s : i < j /\ s[i] = x /\ s[j] = y
CallOrder ==
    \A c \in Clients : \A i, j \in DOMAIN feed[c] :
        i < j /\ to[feed[c][i]] # Everyone /\ to[feed[c][j]] # Everyone
          => Before(accepted, feed[c][i], feed[c][j])

\* As long as Run runs, both goroutines of a connection that is gone end, and
\* the Hub forgets it.
Gone(c) == reader[c] \in {"none", "done"} /\ writer[c] # "running" /\ c \notin registered
NoLeak ==
    \A c \in Clients :
        conn[c] \in {"broken", "closed"} /\ reader[c] # "none" ~> Gone(c) \/ hub = "stopped"

\* As long as Run runs, no caller is kept, whoever is connected and however
\* slowly they read.
CallsReturnWhileRunning ==
    \A k \in Calls : call[k] = "sending" ~> call[k] = "returned" \/ hub = "stopped"

=============================================================================
