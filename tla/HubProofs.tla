------------------------------ MODULE HubProofs -----------------------------
(***************************************************************************)
(* Theorems about Hub for any users, connections, calls and buffer sizes.  *)
(***************************************************************************)
EXTENDS Hub, TLAPS

\* The channels of the registered clients are open.  A connection that has
\* not been registered yet has been given nothing and is open too.
Open == registered \cap closed = {}
Fresh == \A c \in Clients : handler[c] # "done" => c \notin registered \cup closed /\ feed[c] = <<>>

\* The inductive invariant: the types, and what is said of the registry.
Registry == NoPanic /\ Open /\ Fresh /\ Gapless
IInv == TypeOK /\ Registry

\* The part of TypeOK about channels and the one about everything else.
Channels == \A c \in Clients : Buffered(c) \in 0..SendBuffer

LEMMA InitIInv == Init => IInv
<1> SUFFICES ASSUME Init PROVE IInv
  OBVIOUS
<1>1. \A c \in Clients : Owner[c] \in Users /\ Len(feed[c]) = 0 /\ taken[c] = 0 /\ from[c] = 0
                         /\ Len(log[Owner[c]]) = 0
  BY HubAssumption DEF Init
<1>2. \A c \in Clients : Buffered(c) \in 0..SendBuffer
  BY <1>1, HubAssumption DEF Buffered
<1>3. TypeOK
  <2>1. <<>> \in Seq(Calls)
    OBVIOUS
  <2>2. /\ feed \in [Clients -> Seq(Calls)] /\ log \in [Users -> Seq(Calls)]
        /\ taken \in [Clients -> Nat] /\ from \in [Clients -> Nat]
    BY <2>1 DEF Init
  <2>3. QED
    BY <1>2, <2>1, <2>2 DEF Init, TypeOK
<1>4. Gapless
  BY <1>1 DEF Init, Gapless
<1>5. QED
  BY <1>3, <1>4 DEF Init, IInv, Registry, NoPanic, Open, Fresh

-----------------------------------------------------------------------------
(***************************************************************************)
(* Steps that leave the registry and the channels alone                    *)
(***************************************************************************)
LEMMA KeptRegistry ==
    ASSUME Registry, UNCHANGED <<crashed, registered, closed, feeds>>,
           \A c \in Clients : handler'[c] = "done" <=> handler[c] = "done"
    PROVE  Registry'
BY DEF feeds, Registry, NoPanic, Open, Fresh, Gapless

LEMMA KeptChannels ==
    ASSUME TypeOK, UNCHANGED <<feed, taken>>
    PROVE  Channels'
BY DEF TypeOK, Channels, Buffered

LEMMA ConnectionIInv ==
    ASSUME IInv, NEW c \in Clients,
           Connect(c) \/ WriterStops(c) \/ ReaderEnds(c) \/ Break(c)
    PROVE  IInv'
<1>1. UNCHANGED <<crashed, registered, closed, feeds, taken, calls>>
  BY DEF Connect, WriterStops, ReaderEnds, Break
<1>2. \A d \in Clients : handler'[d] = "done" <=> handler[d] = "done"
  BY DEF Connect, WriterStops, WriterEnds, ReaderEnds, Break, conns, IInv, TypeOK
<1>3. Registry'
  BY <1>1, <1>2, KeptRegistry DEF IInv
<1>4. Channels'
  BY <1>1, KeptChannels DEF IInv, feeds
<1>5. /\ hub' \in {"running", "stopped"}
      /\ handler' \in [Clients -> {"none", "registering", "done"}]
      /\ reader' \in [Clients -> {"none", "running", "unregistering", "done"}]
      /\ writer' \in [Clients -> {"none", "running", "done"}]
      /\ conn' \in [Clients -> {"none", "open", "broken", "closed"}]
  BY DEF Connect, WriterStops, WriterEnds, CloseConn, ReaderEnds, Break, conns, IInv, TypeOK
<1>6. QED
  BY <1>1, <1>3, <1>4, <1>5 DEF IInv, TypeOK, Channels, feeds, calls

LEMMA HubStopIInv == IInv /\ HubStop => IInv'
<1> SUFFICES ASSUME IInv, HubStop PROVE IInv'
  OBVIOUS
<1>1. Registry' /\ Channels'
  BY KeptRegistry, KeptChannels DEF HubStop, IInv, conns, feeds
<1>2. QED
  BY <1>1 DEF HubStop, IInv, TypeOK, Channels, conns, feeds, calls

LEMMA CallIInv ==
    ASSUME IInv, NEW k \in Calls, Return(k) \/ \E target \in Users \cup {Everyone} : Call(k, target)
    PROVE  IInv'
<1>1. UNCHANGED <<hub, crashed, registered, closed, conns, feeds, taken>>
  BY DEF Return, Call
<1>2. Registry'
  BY <1>1, KeptRegistry DEF IInv, conns
<1>3. Channels'
  BY <1>1, KeptChannels DEF IInv, feeds
<1>4. /\ call' \in [Calls -> {"none", "sending", "returned"}]
      /\ to' \in [Calls -> Users \cup {Everyone}]
      /\ targeted' \in Seq(Calls) /\ broadcast' \in Seq(Calls) /\ accepted' \in Seq(Calls)
  <2>1. CASE Return(k)
    <3>1. /\ targeted' = targeted \/ targeted' = Append(targeted, k)
          /\ broadcast' = broadcast \/ broadcast' = Append(broadcast, k)
          /\ accepted' = accepted \/ accepted' = Append(accepted, k)
      BY <2>1 DEF Return
    <3>2. targeted' \in Seq(Calls) /\ broadcast' \in Seq(Calls) /\ accepted' \in Seq(Calls)
      <4>1. \A s \in Seq(Calls) : Append(s, k) \in Seq(Calls)
        OBVIOUS
      <4>2. targeted \in Seq(Calls) /\ broadcast \in Seq(Calls) /\ accepted \in Seq(Calls)
        BY DEF IInv, TypeOK
      <4>3. QED
        BY <3>1, <4>1, <4>2
    <3>3. QED
      BY <2>1, <3>2 DEF Return, IInv, TypeOK
  <2>2. CASE \E target \in Users \cup {Everyone} : Call(k, target)
    BY <2>2 DEF Call, IInv, TypeOK
  <2>3. QED
    BY <2>1, <2>2
<1>5. QED
  BY <1>1, <1>2, <1>3, <1>4 DEF IInv, TypeOK, Channels, feeds, conns

LEMMA WriterSendIInv ==
    ASSUME IInv, NEW c \in Clients, WriterSend(c)
    PROVE  IInv'
<1>1. UNCHANGED <<hub, crashed, registered, closed, feeds, calls, handler, reader>>
  BY DEF WriterSend, WriterEnds, conns
<1>2. Registry'
  BY <1>1, KeptRegistry DEF IInv
<1>3. /\ taken' = [taken EXCEPT ![c] = taken[c] + 1]
      /\ Buffered(c) > 0
      /\ UNCHANGED feed
  BY DEF WriterSend, feeds
<1>4. taken' \in [Clients -> Nat]
  BY <1>3 DEF IInv, TypeOK
<1>5. Channels'
  <2>1. \A d \in Clients : d # c => Buffered(d)' = Buffered(d)
    BY <1>3 DEF Buffered, IInv, TypeOK
  <2>2. Buffered(c)' = Buffered(c) - 1
    BY <1>3 DEF Buffered, IInv, TypeOK
  <2>3. \A d \in Clients : Buffered(d) \in 0..SendBuffer
    BY DEF IInv, TypeOK
  <2>4. Buffered(c)' \in 0..SendBuffer
    BY <1>3, <2>2, <2>3, HubAssumption
  <2>5. QED
    BY <2>1, <2>3, <2>4 DEF Channels
<1>6. /\ writer' \in [Clients -> {"none", "running", "done"}]
      /\ conn' \in [Clients -> {"none", "open", "broken", "closed"}]
  BY DEF WriterSend, WriterEnds, CloseConn, conns, IInv, TypeOK
<1>7. QED
  BY <1>1, <1>2, <1>4, <1>5, <1>6 DEF IInv, TypeOK, Channels, feeds, calls

-----------------------------------------------------------------------------
(***************************************************************************)
(* Steps of Run                                                            *)
(***************************************************************************)
LEMMA HubRegisterIInv ==
    ASSUME IInv, NEW c \in Clients, HubRegister(c)
    PROVE  IInv'
<1>1. /\ UNCHANGED <<hub, crashed, closed, conn, feed, log, taken, calls>>
      /\ registered' = registered \cup {c}
      /\ Owner[c] \in Users /\ log[Owner[c]] \in Seq(Calls) /\ feed[c] = <<>>
      /\ handler[c] # "done"
  BY HubAssumption DEF HubRegister, IInv, Registry, Fresh, TypeOK
<1>2. /\ from' = [from EXCEPT ![c] = Len(log[Owner[c]])] /\ from' \in [Clients -> Nat]
      /\ handler' = [handler EXCEPT ![c] = "done"]
      /\ handler' \in [Clients -> {"none", "registering", "done"}]
      /\ reader' \in [Clients -> {"none", "running", "unregistering", "done"}]
      /\ writer' \in [Clients -> {"none", "running", "done"}]
  BY <1>1 DEF HubRegister, IInv, TypeOK
<1>3. Channels'
  BY <1>1, KeptChannels DEF IInv
<1>4. Gapless'
  <2>1. Len(feed[c]) = 0 /\ from'[c] = Len(log[Owner[c]]) /\ Len(log[Owner[c]]) \in Nat
    BY <1>1, <1>2 DEF IInv, TypeOK
  <2>2. \A d \in Clients : d # c => from'[d] = from[d] /\ (d \in registered' <=> d \in registered)
    BY <1>1, <1>2 DEF IInv, TypeOK
  <2>3. QED
    BY <1>1, <2>1, <2>2 DEF IInv, Registry, Gapless
<1>5. QED
  BY <1>1, <1>2, <1>3, <1>4 DEF IInv, Registry, NoPanic, Open, Fresh, TypeOK, Channels, calls

\* removeClient keeps the channels of the registered clients open and closes
\* none that is closed.
LEMMA RemoveKeepsOpen ==
    ASSUME NoPanic, Open, NEW S, Remove(S)
    PROVE  /\ NoPanic' /\ Open'
           /\ registered' = registered \ S
           /\ closed' = closed \cup (S \cap registered)
BY DEF NoPanic, Open, Remove

LEMMA HubUnregisterIInv ==
    ASSUME IInv, NEW c \in Clients, HubUnregister(c)
    PROVE  IInv'
<1>1. /\ UNCHANGED <<hub, handler, writer, feeds, taken, calls>>
      /\ NoPanic' /\ Open'
      /\ registered' = registered \ {c}
      /\ closed' = closed \cup ({c} \cap registered)
  BY RemoveKeepsOpen DEF HubUnregister, IInv, Registry
<1>2. Channels'
  BY <1>1, KeptChannels DEF IInv, feeds
<1>3. Fresh' /\ Gapless'
  BY <1>1 DEF IInv, Registry, Fresh, Gapless, feeds
<1>4. /\ reader' \in [Clients -> {"none", "running", "unregistering", "done"}]
      /\ conn' \in [Clients -> {"none", "open", "broken", "closed"}]
  BY DEF HubUnregister, CloseConn, IInv, TypeOK
<1>5. crashed' \in BOOLEAN
  BY <1>1 DEF NoPanic, HubUnregister, Remove, IInv, TypeOK
<1>6. QED
  BY <1>1, <1>2, <1>3, <1>4, <1>5 DEF IInv, Registry, TypeOK, Channels, feeds, calls

\* What deliverToClients does to one connection and to one user's log.
LEMMA DeliverEffect ==
    ASSUME IInv, NEW k \in Calls, NEW users, Deliver(k, users)
    PROVE  /\ \A c \in Clients :
                 \/ /\ c \in registered /\ Owner[c] \in users /\ ~ Full(c)
                    /\ feed'[c] = Append(feed[c], k) /\ c \in registered'
                 \/ /\ c \in registered /\ Owner[c] \in users /\ Full(c)
                    /\ feed'[c] = feed[c] /\ c \notin registered'
                 \/ /\ c \notin registered \/ Owner[c] \notin users
                    /\ feed'[c] = feed[c] /\ (c \in registered' <=> c \in registered)
           /\ \A u \in Users : log'[u] = IF u \in users THEN Append(log[u], k) ELSE log[u]
           /\ NoPanic' /\ Open'
           /\ \A c \in Clients : c \in closed' => c \in closed \cup registered
           /\ registered' \in SUBSET Clients /\ closed' \in SUBSET Clients
           /\ feed' \in [Clients -> Seq(Calls)] /\ log' \in [Users -> Seq(Calls)]
<1> DEFINE mine == {c \in registered : Owner[c] \in users}
           full == {c \in mine : Full(c)}
<1>1. /\ feed' = [c \in Clients |-> IF c \in mine \ full THEN Append(feed[c], k) ELSE feed[c]]
      /\ log' = [u \in Users |-> IF u \in users THEN Append(log[u], k) ELSE log[u]]
      /\ Remove(full)
  BY DEF Deliver
<1>2. /\ NoPanic' /\ Open' /\ registered' = registered \ full
      /\ closed' = closed \cup (full \cap registered)
  BY <1>1, RemoveKeepsOpen DEF IInv, Registry
<1>3. feed' \in [Clients -> Seq(Calls)] /\ log' \in [Users -> Seq(Calls)]
  BY <1>1 DEF IInv, TypeOK
<1>4. QED
  BY <1>1, <1>2, <1>3 DEF IInv, TypeOK

LEMMA DeliverIInv ==
    ASSUME IInv, NEW k \in Calls, NEW users, Deliver(k, users)
    PROVE  Registry' /\ Channels'
<1>1. UNCHANGED <<hub, conns, from, taken>>
  BY DEF Deliver
<1>2. Channels'
  <2> SUFFICES ASSUME NEW c \in Clients PROVE Buffered(c)' \in 0..SendBuffer
    BY DEF Channels
  <2>1. Buffered(c) \in 0..SendBuffer /\ feed[c] \in Seq(Calls) /\ taken[c] \in Nat
    BY DEF IInv, TypeOK
  <2>2. CASE feed'[c] = feed[c]
    BY <1>1, <2>1, <2>2 DEF Buffered
  <2>3. CASE ~ Full(c) /\ feed'[c] = Append(feed[c], k)
    <3>1. Len(feed'[c]) = Len(feed[c]) + 1
      BY <2>1, <2>3
    <3>2. Buffered(c)' = Buffered(c) + 1
      BY <1>1, <2>1, <3>1 DEF Buffered
    <3>3. QED
      BY <2>1, <2>3, <3>2, HubAssumption DEF Full
  <2>4. QED
    BY <2>2, <2>3, DeliverEffect
<1>3. Gapless'
  <2> SUFFICES ASSUME NEW c \in Clients
               PROVE  /\ from'[c] + Len(feed'[c]) <= Len(log'[Owner[c]])
                      /\ \A i \in 1 .. Len(feed'[c]) : feed'[c][i] = log'[Owner[c]][from'[c] + i]
                      /\ c \in registered' => from'[c] + Len(feed'[c]) = Len(log'[Owner[c]])
    BY DEF Gapless
  <2> DEFINE l == log[Owner[c]]
  <2>1. /\ Owner[c] \in Users /\ l \in Seq(Calls) /\ feed[c] \in Seq(Calls)
        /\ from[c] \in Nat /\ from'[c] = from[c]
    BY <1>1, HubAssumption DEF IInv, TypeOK
  <2>2. /\ from[c] + Len(feed[c]) <= Len(l)
        /\ \A i \in 1 .. Len(feed[c]) : feed[c][i] = l[from[c] + i]
        /\ c \in registered => from[c] + Len(feed[c]) = Len(l)
    BY DEF IInv, Registry, Gapless
  <2>3. /\ log'[Owner[c]] = IF Owner[c] \in users THEN Append(l, k) ELSE l
        /\ Len(Append(l, k)) = Len(l) + 1
        /\ \A i \in 1 .. Len(l) : Append(l, k)[i] = l[i]
        /\ Append(l, k)[Len(l) + 1] = k
    BY <2>1, DeliverEffect
  <2>4. CASE /\ c \in registered /\ Owner[c] \in users
             /\ feed'[c] = Append(feed[c], k)
    <3>1. /\ Len(feed'[c]) = Len(feed[c]) + 1
          /\ \A i \in 1 .. Len(feed[c]) : feed'[c][i] = feed[c][i]
          /\ feed'[c][Len(feed[c]) + 1] = k
      BY <2>1, <2>4
    <3>2. from[c] + Len(feed[c]) = Len(l) /\ log'[Owner[c]] = Append(l, k)
      BY <2>2, <2>3, <2>4
    <3>3. from'[c] + Len(feed'[c]) = Len(log'[Owner[c]])
      <4>1. Len(feed[c]) \in Nat /\ Len(l) \in Nat /\ from[c] \in Nat /\ from'[c] = from[c]
        BY <2>1
      <4>2. Len(log'[Owner[c]]) = Len(l) + 1
        BY <2>3, <3>2
      <4>3. QED
        BY <3>1, <3>2, <4>1, <4>2
    <3>4. ASSUME NEW i \in 1 .. Len(feed'[c])
          PROVE  feed'[c][i] = log'[Owner[c]][from'[c] + i]
      <4>1. CASE i \in 1 .. Len(feed[c])
        <5>1. from[c] + i \in 1 .. Len(l)
          BY <2>1, <3>2, <4>1
        <5>2. feed'[c][i] = feed[c][i] /\ feed[c][i] = l[from[c] + i]
          BY <2>2, <3>1, <4>1
        <5>3. log'[Owner[c]][from[c] + i] = l[from[c] + i]
          BY <2>3, <3>2, <5>1
        <5>4. QED
          BY <2>1, <5>2, <5>3
      <4>2. CASE i = Len(feed[c]) + 1
        <5>1. from[c] + i = Len(l) + 1
          <6>1. Len(feed[c]) \in Nat /\ Len(l) \in Nat /\ from[c] \in Nat
            BY <2>1
          <6>2. QED
            BY <3>2, <4>2, <6>1
        <5>2. QED
          BY <2>1, <2>3, <3>1, <3>2, <4>2, <5>1
      <4>3. QED
        BY <2>1, <3>1, <4>1, <4>2
    <3>5. from'[c] + Len(feed'[c]) <= Len(log'[Owner[c]])
      <4>1. Len(l) + 1 \in Nat
        <5>1. Len(l) \in Nat
          BY <2>1
        <5>2. QED
          BY <5>1
      <4>2. QED
        BY <3>2, <3>3, <2>3, <4>1
    <3>6. QED
      BY ONLY <3>3, <3>4, <3>5
  <2>5. CASE feed'[c] = feed[c] /\ (c \in registered' => c \in registered /\ Owner[c] \notin users)
    BY <2>1, <2>2, <2>3, <2>5
  <2>6. QED
    BY <2>4, <2>5, DeliverEffect
<1>4. Fresh'
  BY <1>1, DeliverEffect DEF Fresh, IInv, Registry, conns
<1>5. QED
  BY <1>2, <1>3, <1>4, DeliverEffect DEF Registry

LEMMA HubMessageIInv ==
    ASSUME IInv, HubTargeted \/ HubBroadcast
    PROVE  IInv'
<1>0. (\E k \in Calls : Deliver(k, {to[k]})) \/ (\E k \in Calls : Deliver(k, Users))
  <2>1. CASE HubTargeted
    <3>1. Head(targeted) \in Calls /\ Deliver(Head(targeted), {to[Head(targeted)]})
      BY <2>1 DEF HubTargeted, IInv, TypeOK
    <3>2. QED
      BY <3>1
  <2>2. CASE HubBroadcast
    <3>1. Head(broadcast) \in Calls /\ Deliver(Head(broadcast), Users)
      BY <2>2 DEF HubBroadcast, IInv, TypeOK
    <3>2. QED
      BY <3>1
  <2>3. QED
    BY <2>1, <2>2
<1>1. PICK k \in Calls : Deliver(k, {to[k]}) \/ Deliver(k, Users)
  BY <1>0
<1>2. Registry' /\ Channels'
  BY <1>1, DeliverIInv
<1>3. UNCHANGED <<hub, conns, from, taken>>
  BY <1>1 DEF Deliver
<1>4. /\ registered' \in SUBSET Clients /\ closed' \in SUBSET Clients
      /\ feed' \in [Clients -> Seq(Calls)] /\ log' \in [Users -> Seq(Calls)]
  BY <1>1, DeliverEffect
<1>5. targeted' \in Seq(Calls) /\ broadcast' \in Seq(Calls) /\ UNCHANGED <<call, to, accepted>>
  <2>1. targeted # <<>> => Tail(targeted) \in Seq(Calls)
    BY DEF IInv, TypeOK
  <2>2. broadcast # <<>> => Tail(broadcast) \in Seq(Calls)
    BY DEF IInv, TypeOK
  <2>3. QED
    BY <2>1, <2>2 DEF HubTargeted, HubBroadcast, IInv, TypeOK
<1>6. crashed' \in BOOLEAN
  BY <1>1 DEF Deliver, Remove, IInv, TypeOK
<1>7. QED
  BY <1>2, <1>3, <1>4, <1>5, <1>6 DEF IInv, TypeOK, Channels, conns

LEMMA NextIInv == IInv /\ [Next]_vars => IInv'
<1> SUFFICES ASSUME IInv, [Next]_vars PROVE IInv'
  OBVIOUS
<1>1. CASE Next
  <2>1. CASE \E c \in Clients : \/ Connect(c) \/ WriterStops(c) \/ ReaderEnds(c) \/ Break(c)
                                \/ WriterSend(c) \/ HubRegister(c) \/ HubUnregister(c)
    BY <2>1, ConnectionIInv, WriterSendIInv, HubRegisterIInv, HubUnregisterIInv
  <2>2. CASE HubStop
    BY <2>2, HubStopIInv
  <2>3. CASE HubTargeted \/ HubBroadcast
    BY <2>3, HubMessageIInv
  <2>4. CASE \E k \in Calls : Return(k) \/ \E target \in Users \cup {Everyone} : Call(k, target)
    BY <2>4, CallIInv
  <2>5. QED
    BY <1>1, <2>1, <2>2, <2>3, <2>4 DEF Next, WriterStep
<1>2. CASE UNCHANGED vars
  BY <1>2 DEF vars, conns, feeds, calls, IInv, TypeOK, Registry, NoPanic, Open, Fresh, Gapless, Buffered
<1>3. QED
  BY <1>1, <1>2

LEMMA Invariance == Spec => []IInv
BY InitIInv, NextIInv, PTL DEF Spec

-----------------------------------------------------------------------------
(***************************************************************************)
(* The order of the calls.  The queue holds the last calls accepted; what  *)
(* Run took for a user are earlier ones, in the order they were accepted.  *)
(***************************************************************************)
Served == Len(accepted) - Len(targeted)

QueueIsSuffix ==
    /\ Served >= 0
    /\ \A i \in 1..Len(targeted) : targeted[i] = accepted[Served + i]

\* A call that has returned is not made again, so its target stays.
Settled ==
    /\ \A i \in 1..Len(accepted) : call[accepted[i]] = "returned" /\ to[accepted[i]] # Everyone
    /\ \A i \in 1..Len(broadcast) : call[broadcast[i]] = "returned" /\ to[broadcast[i]] = Everyone
    /\ \A u \in Users : \A i \in 1..Len(log[u]) : call[log[u][i]] = "returned"

ServedInOrder ==
    \A u \in Users :
        /\ \A i \in 1..Len(log[u]) :
              to[log[u][i]] # Everyone => \E a \in 1..Served : accepted[a] = log[u][i]
        /\ \A i, j \in 1..Len(log[u]) :
              i < j /\ to[log[u][i]] # Everyone /\ to[log[u][j]] # Everyone
                => \E a, b \in 1..Served :
                      a < b /\ accepted[a] = log[u][i] /\ accepted[b] = log[u][j]

OrderInv == QueueIsSuffix /\ Settled /\ ServedInOrder

LEMMA SeqAppend ==
    ASSUME NEW S, NEW s \in Seq(S), NEW e \in S
    PROVE  /\ Append(s, e) \in Seq(S)
           /\ Len(Append(s, e)) = Len(s) + 1
           /\ \A i \in 1..Len(s) : Append(s, e)[i] = s[i]
           /\ Append(s, e)[Len(s) + 1] = e
           /\ Len(s) \in Nat
           /\ \A i \in 1..Len(s) : s[i] \in S
OBVIOUS

LEMMA SeqTail ==
    ASSUME NEW S, NEW s \in Seq(S), s # <<>>
    PROVE  /\ Tail(s) \in Seq(S)
           /\ Len(Tail(s)) = Len(s) - 1
           /\ \A i \in 1..Len(Tail(s)) : Tail(s)[i] = s[i + 1]
           /\ Head(s) = s[1]
           /\ Head(s) \in S
           /\ Len(s) \in Nat /\ Len(s) >= 1
OBVIOUS

LEMMA InitOrder == Init => OrderInv
<1> SUFFICES ASSUME Init PROVE OrderInv
  OBVIOUS
<1>1. /\ Len(accepted) = 0 /\ Len(targeted) = 0 /\ Len(broadcast) = 0
      /\ \A u \in Users : Len(log[u]) = 0
  BY DEF Init
<1>2. QED
  BY <1>1 DEF OrderInv, QueueIsSuffix, Settled, ServedInOrder, Served

\* A call that is made is none of those that returned.
LEMMA CallOrderInv ==
    ASSUME IInv, OrderInv, NEW k \in Calls, NEW target \in Users \cup {Everyone}, Call(k, target)
    PROVE  OrderInv'
<1>1. /\ UNCHANGED <<log, targeted, broadcast, accepted>>
      /\ call[k] = "none"
      /\ \A x \in Calls : call[x] = "returned" => call'[x] = "returned" /\ to'[x] = to[x]
  BY DEF Call, feeds, IInv, TypeOK
<1>2. /\ \A i \in 1..Len(accepted) : accepted[i] \in Calls
      /\ \A i \in 1..Len(broadcast) : broadcast[i] \in Calls
      /\ \A u \in Users : \A i \in 1..Len(log[u]) : log[u][i] \in Calls
  BY DEF IInv, TypeOK
<1>3. Settled'
  BY <1>1, <1>2 DEF OrderInv, Settled
<1>4. \A u \in Users : \A i \in 1..Len(log[u]) : to'[log[u][i]] = to[log[u][i]]
  BY <1>1, <1>2 DEF OrderInv, Settled
<1>5. ServedInOrder'
  BY <1>1, <1>4 DEF OrderInv, ServedInOrder, Served
<1>6. QED
  BY <1>1, <1>3, <1>5 DEF OrderInv, QueueIsSuffix, Served

\* A call that returns joins the ends of the queue and of the order together.
LEMMA ReturnOrderInv ==
    ASSUME IInv, OrderInv, NEW k \in Calls, Return(k)
    PROVE  OrderInv'
<1>1. /\ UNCHANGED <<log, to>>
      /\ \A x \in Calls : call[x] = "returned" => call'[x] = "returned"
      /\ call'[k] = "returned"
  BY DEF Return, feeds, IInv, TypeOK
<1>2. /\ accepted \in Seq(Calls) /\ targeted \in Seq(Calls) /\ broadcast \in Seq(Calls)
      /\ \A u \in Users : log[u] \in Seq(Calls)
  BY DEF IInv, TypeOK
<1>3. CASE to[k] = Everyone /\ broadcast' = Append(broadcast, k) /\ UNCHANGED <<targeted, accepted>>
  <2>1. Settled'
    <3>1. /\ Len(broadcast') = Len(broadcast) + 1
          /\ \A i \in 1..Len(broadcast) : broadcast'[i] = broadcast[i] /\ broadcast[i] \in Calls
          /\ broadcast'[Len(broadcast) + 1] = k
          /\ Len(broadcast) \in Nat
      BY <1>2, <1>3, SeqAppend
    <3>2. \A i \in 1..Len(broadcast') : i \in 1..Len(broadcast) \/ i = Len(broadcast) + 1
      BY <3>1
    <3>3. \A i \in 1..Len(broadcast') : call'[broadcast'[i]] = "returned" /\ to'[broadcast'[i]] = Everyone
      BY <1>1, <1>3, <3>1, <3>2 DEF OrderInv, Settled
    <3>4. /\ \A i \in 1..Len(accepted) : accepted[i] \in Calls
          /\ \A u \in Users : \A i \in 1..Len(log[u]) : log[u][i] \in Calls
      BY <1>2
    <3>5. QED
      BY <1>1, <1>3, <3>3, <3>4 DEF OrderInv, Settled
  <2>2. QueueIsSuffix' /\ ServedInOrder'
    BY <1>1, <1>3 DEF OrderInv, QueueIsSuffix, ServedInOrder, Served
  <2>3. QED
    BY <2>1, <2>2 DEF OrderInv
<1>4. CASE /\ to[k] # Everyone
           /\ targeted' = Append(targeted, k) /\ accepted' = Append(accepted, k)
           /\ UNCHANGED broadcast
  <2>1. /\ Len(accepted') = Len(accepted) + 1 /\ Len(targeted') = Len(targeted) + 1
        /\ accepted'[Len(accepted) + 1] = k /\ targeted'[Len(targeted) + 1] = k
        /\ \A i \in 1..Len(accepted) : accepted'[i] = accepted[i]
        /\ \A i \in 1..Len(targeted) : targeted'[i] = targeted[i]
        /\ Len(accepted) \in Nat /\ Len(targeted) \in Nat
        /\ \A i \in 1..Len(accepted) : accepted[i] \in Calls
    BY <1>2, <1>4, SeqAppend
  <2>2. Served' = Served /\ Served \in Int
    BY <2>1 DEF Served
  <2>3. Settled'
    <3>1. \A i \in 1..Len(accepted') : call'[accepted'[i]] = "returned" /\ to'[accepted'[i]] # Everyone
      <4> SUFFICES ASSUME NEW i \in 1..Len(accepted')
                   PROVE  call'[accepted'[i]] = "returned" /\ to'[accepted'[i]] # Everyone
        OBVIOUS
      <4>1. CASE i \in 1..Len(accepted)
        BY <1>1, <2>1, <4>1 DEF OrderInv, Settled
      <4>2. CASE i = Len(accepted) + 1
        BY <1>1, <1>4, <2>1, <4>2
      <4>3. QED
        BY <2>1, <4>1, <4>2
    <3>2. /\ \A i \in 1..Len(broadcast) : broadcast[i] \in Calls
          /\ \A u \in Users : \A i \in 1..Len(log[u]) : log[u][i] \in Calls
      BY <1>2
    <3>3. QED
      BY <1>1, <1>4, <3>1, <3>2 DEF OrderInv, Settled
  <2>4. QueueIsSuffix'
    <3> SUFFICES ASSUME NEW i \in 1..Len(targeted')
                 PROVE  targeted'[i] = accepted'[Served + i]
      BY <2>2 DEF OrderInv, QueueIsSuffix
    <3>1. CASE i \in 1..Len(targeted)
      <4>1. Served + i \in 1..Len(accepted) /\ targeted[i] = accepted[Served + i]
        BY <2>1, <3>1 DEF OrderInv, QueueIsSuffix, Served
      <4>2. QED
        BY <2>1, <3>1, <4>1
    <3>2. CASE i = Len(targeted) + 1
      <4>1. Served + i = Len(accepted) + 1
        BY <2>1, <3>2 DEF Served
      <4>2. QED
        BY <2>1, <3>2, <4>1
    <3>3. QED
      BY <2>1, <3>1, <3>2
  <2>5. ServedInOrder'
    <3>1. \A a \in 1..Served : accepted'[a] = accepted[a]
      BY <2>1 DEF Served
    <3>2. QED
      BY <1>1, <2>2, <3>1 DEF OrderInv, ServedInOrder
  <2>6. QED
    BY <2>3, <2>4, <2>5 DEF OrderInv
<1>5. QED
  BY <1>3, <1>4 DEF Return

\* The logs after a message was taken: it is their last, where it was added.
LEMMA LogsAfter ==
    ASSUME IInv, NEW k \in Calls, NEW users, Deliver(k, users), NEW u \in Users
    PROVE  \/ log'[u] = log[u]
           \/ /\ u \in users
              /\ Len(log'[u]) = Len(log[u]) + 1
              /\ \A i \in 1..Len(log[u]) : log'[u][i] = log[u][i]
              /\ log'[u][Len(log[u]) + 1] = k
              /\ Len(log[u]) \in Nat
<1>1. log[u] \in Seq(Calls)
  BY DEF IInv, TypeOK
<1>2. log'[u] = IF u \in users THEN Append(log[u], k) ELSE log[u]
  BY DeliverEffect
<1>3. /\ Len(Append(log[u], k)) = Len(log[u]) + 1
      /\ \A i \in 1..Len(log[u]) : Append(log[u], k)[i] = log[u][i]
      /\ Append(log[u], k)[Len(log[u]) + 1] = k
      /\ Len(log[u]) \in Nat
  BY <1>1, SeqAppend
<1>4. QED
  BY <1>2, <1>3

LEMMA TargetedOrderInv ==
    ASSUME IInv, OrderInv, HubTargeted
    PROVE  OrderInv'
<1> DEFINE k == Head(targeted)
<1>1. /\ targeted # <<>> /\ targeted' = Tail(targeted) /\ Deliver(k, {to[k]})
      /\ UNCHANGED <<call, to, broadcast, accepted>>
  BY DEF HubTargeted
<1>2. accepted \in Seq(Calls) /\ targeted \in Seq(Calls) /\ Len(accepted) \in Nat
  BY DEF IInv, TypeOK
<1>3. /\ Len(targeted') = Len(targeted) - 1
      /\ \A i \in 1..Len(targeted') : targeted'[i] = targeted[i + 1]
      /\ k = targeted[1] /\ k \in Calls
      /\ Len(targeted) \in Nat /\ Len(targeted) >= 1
  BY <1>1, <1>2, SeqTail
<1>4. /\ Served' = Served + 1 /\ Served \in Nat /\ Served + 1 \in 1..Len(accepted)
      /\ accepted[Served + 1] = k
  BY <1>1, <1>2, <1>3 DEF OrderInv, QueueIsSuffix, Served
<1>5. QueueIsSuffix'
  <2> SUFFICES ASSUME NEW i \in 1..Len(targeted')
               PROVE  targeted'[i] = accepted'[Served' + i]
    BY <1>4 DEF QueueIsSuffix
  <2>1. i + 1 \in 1..Len(targeted) /\ Served' + i = Served + (i + 1)
    BY <1>3, <1>4
  <2>2. targeted[i + 1] = accepted[Served + (i + 1)]
    BY <2>1 DEF OrderInv, QueueIsSuffix
  <2>3. QED
    BY <1>1, <1>3, <2>1, <2>2
<1>6. call[k] = "returned"
  BY <1>4 DEF OrderInv, Settled
<1> HIDE DEF k
<1>7. Settled'
  <2>1. ASSUME NEW u \in Users, NEW i \in 1..Len(log'[u])
        PROVE  call[log'[u][i]] = "returned"
    <3>1. CASE log'[u] = log[u]
      BY <3>1 DEF OrderInv, Settled
    <3>2. CASE /\ Len(log'[u]) = Len(log[u]) + 1
               /\ \A j \in 1..Len(log[u]) : log'[u][j] = log[u][j]
               /\ log'[u][Len(log[u]) + 1] = k
               /\ Len(log[u]) \in Nat
      <4>1. i \in 1..Len(log[u]) \/ i = Len(log[u]) + 1
        BY <3>2
      <4>2. QED
        BY <1>6, <3>2, <4>1 DEF OrderInv, Settled
    <3>3. QED
      BY <1>1, <1>3, <3>1, <3>2, LogsAfter
  <2>2. QED
    BY <1>1, <2>1 DEF OrderInv, Settled
<1>8. ASSUME NEW u \in Users
      PROVE  /\ \A i \in 1..Len(log'[u]) :
                    to[log'[u][i]] # Everyone => \E a \in 1..(Served + 1) : accepted[a] = log'[u][i]
             /\ \A i, j \in 1..Len(log'[u]) :
                    i < j /\ to[log'[u][i]] # Everyone /\ to[log'[u][j]] # Everyone
                      => \E a, b \in 1..(Served + 1) :
                            a < b /\ accepted[a] = log'[u][i] /\ accepted[b] = log'[u][j]
  <2>1. /\ \A i \in 1..Len(log[u]) :
              to[log[u][i]] # Everyone => \E a \in 1..Served : accepted[a] = log[u][i]
        /\ \A i, j \in 1..Len(log[u]) :
              i < j /\ to[log[u][i]] # Everyone /\ to[log[u][j]] # Everyone
                => \E a, b \in 1..Served :
                      a < b /\ accepted[a] = log[u][i] /\ accepted[b] = log[u][j]
    BY DEF OrderInv, ServedInOrder
  <2>2. \A a \in 1..Served : a \in 1..(Served + 1) /\ a < Served + 1
    BY <1>4
  <2>3. Served + 1 \in 1..(Served + 1)
    BY <1>4
  <2>4. CASE log'[u] = log[u]
    <3>1. \A i \in 1..Len(log[u]) :
             to[log[u][i]] # Everyone => \E a \in 1..(Served + 1) : accepted[a] = log[u][i]
      BY <2>1, <2>2
    <3>2. \A i, j \in 1..Len(log[u]) :
             i < j /\ to[log[u][i]] # Everyone /\ to[log[u][j]] # Everyone
               => \E a, b \in 1..(Served + 1) :
                     a < b /\ accepted[a] = log[u][i] /\ accepted[b] = log[u][j]
      BY <2>1, <2>2
    <3>3. QED
      BY <2>4, <3>1, <3>2
  <2>5. CASE /\ Len(log'[u]) = Len(log[u]) + 1
             /\ \A j \in 1..Len(log[u]) : log'[u][j] = log[u][j]
             /\ log'[u][Len(log[u]) + 1] = k
             /\ Len(log[u]) \in Nat
    <3>1. \A i \in 1..Len(log'[u]) : i \in 1..Len(log[u]) \/ i = Len(log[u]) + 1
      BY <2>5
    <3>2. ASSUME NEW i \in 1..Len(log'[u]), to[log'[u][i]] # Everyone
          PROVE  \E a \in 1..(Served + 1) : accepted[a] = log'[u][i]
      <4>1. CASE i \in 1..Len(log[u])
        BY <2>1, <2>2, <2>5, <3>2, <4>1
      <4>2. CASE i = Len(log[u]) + 1
        BY <1>4, <2>3, <2>5, <4>2
      <4>3. QED
        BY <3>1, <4>1, <4>2
    <3>3. ASSUME NEW i \in 1..Len(log'[u]), NEW j \in 1..Len(log'[u]), i < j,
                 to[log'[u][i]] # Everyone, to[log'[u][j]] # Everyone
          PROVE  \E a, b \in 1..(Served + 1) :
                    a < b /\ accepted[a] = log'[u][i] /\ accepted[b] = log'[u][j]
      <4>1. i \in 1..Len(log[u])
        BY <2>5, <3>3
      <4>2. CASE j \in 1..Len(log[u])
        <5>1. log'[u][i] = log[u][i] /\ log'[u][j] = log[u][j]
          BY <2>5, <4>1, <4>2
        <5>2. PICK a \in 1..Served, b \in 1..Served :
                 a < b /\ accepted[a] = log[u][i] /\ accepted[b] = log[u][j]
          BY <2>1, <3>3, <4>1, <4>2, <5>1
        <5>3. QED
          BY <2>2, <5>1, <5>2
      <4>3. CASE j = Len(log[u]) + 1
        <5>1. PICK a \in 1..Served : accepted[a] = log'[u][i]
          BY <2>1, <2>5, <3>3, <4>1
        <5>2. accepted[Served + 1] = log'[u][j]
          BY <1>4, <2>5, <4>3
        <5>3. QED
          BY <2>2, <2>3, <5>1, <5>2
      <4>4. QED
        BY <3>1, <4>2, <4>3
    <3>4. QED
      BY <3>2, <3>3
  <2>6. \/ log'[u] = log[u]
        \/ /\ Len(log'[u]) = Len(log[u]) + 1
           /\ \A j \in 1..Len(log[u]) : log'[u][j] = log[u][j]
           /\ log'[u][Len(log[u]) + 1] = k
           /\ Len(log[u]) \in Nat
    BY <1>1, <1>3, LogsAfter
  <2>7. QED
    BY <2>4, <2>5, <2>6
<1>9. UNCHANGED <<to, accepted>>
  BY <1>1
<1>10. ServedInOrder'
  BY <1>4, <1>8, <1>9 DEF ServedInOrder
<1>11. QED
  BY <1>5, <1>7, <1>10 DEF OrderInv

LEMMA BroadcastOrderInv ==
    ASSUME IInv, OrderInv, HubBroadcast
    PROVE  OrderInv'
<1> DEFINE k == Head(broadcast)
<1>1. /\ broadcast # <<>> /\ broadcast' = Tail(broadcast) /\ Deliver(k, Users)
      /\ UNCHANGED <<call, to, targeted, accepted>>
  BY DEF HubBroadcast
<1>2. broadcast \in Seq(Calls)
  BY DEF IInv, TypeOK
<1>3. /\ Len(broadcast') = Len(broadcast) - 1
      /\ \A i \in 1..Len(broadcast') : broadcast'[i] = broadcast[i + 1]
      /\ k = broadcast[1] /\ k \in Calls
      /\ Len(broadcast) \in Nat /\ Len(broadcast) >= 1
  BY <1>1, <1>2, SeqTail
<1>4. call[k] = "returned" /\ to[k] = Everyone
  BY <1>3 DEF OrderInv, Settled
<1> HIDE DEF k
<1>5. ASSUME NEW u \in Users, NEW i \in 1..Len(log'[u])
      PROVE  \/ i \in 1..Len(log[u]) /\ log'[u][i] = log[u][i]
             \/ log'[u][i] = k
  <2>1. CASE log'[u] = log[u]
    BY <2>1
  <2>2. CASE /\ Len(log'[u]) = Len(log[u]) + 1
             /\ \A j \in 1..Len(log[u]) : log'[u][j] = log[u][j]
             /\ log'[u][Len(log[u]) + 1] = k
             /\ Len(log[u]) \in Nat
    <3>1. i \in 1..Len(log[u]) \/ i = Len(log[u]) + 1
      BY <2>2
    <3>2. QED
      BY <2>2, <3>1
  <2>3. QED
    BY <1>1, <1>3, <2>1, <2>2, LogsAfter
<1>6. Settled'
  <2>1. \A i \in 1..Len(broadcast') : i + 1 \in 1..Len(broadcast)
    BY <1>3
  <2>2. \A i \in 1..Len(broadcast') : call[broadcast'[i]] = "returned" /\ to[broadcast'[i]] = Everyone
    BY <1>3, <2>1 DEF OrderInv, Settled
  <2>3. \A u \in Users : \A i \in 1..Len(log'[u]) : call[log'[u][i]] = "returned"
    BY <1>4, <1>5 DEF OrderInv, Settled
  <2>4. QED
    BY <1>1, <2>2, <2>3 DEF OrderInv, Settled
<1>7. ServedInOrder'
  <2>1. \A u \in Users : \A i \in 1..Len(log'[u]) :
            to[log'[u][i]] # Everyone => i \in 1..Len(log[u]) /\ log'[u][i] = log[u][i]
    BY <1>4, <1>5
  <2>2. Served' = Served /\ UNCHANGED <<to, accepted>>
    BY <1>1 DEF Served
  <2>3. ASSUME NEW u \in Users, NEW i \in 1..Len(log'[u]), to[log'[u][i]] # Everyone
        PROVE  \E a \in 1..Served : accepted[a] = log'[u][i]
    BY <2>1, <2>3 DEF OrderInv, ServedInOrder
  <2>4. ASSUME NEW u \in Users, NEW i \in 1..Len(log'[u]), NEW j \in 1..Len(log'[u]), i < j,
               to[log'[u][i]] # Everyone, to[log'[u][j]] # Everyone
        PROVE  \E a, b \in 1..Served :
                  a < b /\ accepted[a] = log'[u][i] /\ accepted[b] = log'[u][j]
    <3>1. /\ i \in 1..Len(log[u]) /\ log'[u][i] = log[u][i]
          /\ j \in 1..Len(log[u]) /\ log'[u][j] = log[u][j]
      BY <2>1, <2>4
    <3>2. QED
      BY <2>4, <3>1 DEF OrderInv, ServedInOrder
  <2>5. QED
    BY <2>2, <2>3, <2>4 DEF ServedInOrder
<1>8. QED
  BY <1>1, <1>6, <1>7 DEF OrderInv, QueueIsSuffix, Served

LEMMA NextOrder == IInv /\ OrderInv /\ [Next]_vars => OrderInv'
<1> SUFFICES ASSUME IInv, OrderInv, [Next]_vars PROVE OrderInv'
  OBVIOUS
<1>1. CASE UNCHANGED <<call, to, targeted, broadcast, accepted, log>>
  BY <1>1 DEF OrderInv, QueueIsSuffix, Settled, ServedInOrder, Served
<1>2. CASE UNCHANGED vars
  BY <1>1, <1>2 DEF vars, calls, feeds
<1>3. CASE HubStop
  BY <1>1, <1>3 DEF HubStop, calls, feeds
<1>4. CASE \E c \in Clients : \/ Connect(c) \/ WriterStops(c) \/ ReaderEnds(c) \/ Break(c)
                              \/ WriterSend(c) \/ HubRegister(c) \/ HubUnregister(c)
  BY <1>1, <1>4 DEF Connect, WriterStops, ReaderEnds, Break, WriterSend, HubRegister, HubUnregister, calls, feeds
<1>5. CASE HubTargeted \/ HubBroadcast
  BY <1>5, TargetedOrderInv, BroadcastOrderInv
<1>6. CASE \E k \in Calls : Return(k) \/ \E target \in Users \cup {Everyone} : Call(k, target)
  BY <1>6, ReturnOrderInv, CallOrderInv
<1>7. QED
  BY <1>2, <1>3, <1>4, <1>5, <1>6 DEF Next, WriterStep

\* What a connection was given is a part of its user's log.
LEMMA OrderOfFeeds == IInv /\ OrderInv => CallOrder
<1> SUFFICES ASSUME IInv, OrderInv,
                    NEW c \in Clients, NEW i \in DOMAIN feed[c], NEW j \in DOMAIN feed[c],
                    i < j, to[feed[c][i]] # Everyone, to[feed[c][j]] # Everyone
             PROVE  Before(accepted, feed[c][i], feed[c][j])
  BY DEF CallOrder
<1> DEFINE l == log[Owner[c]]
<1>1. /\ Owner[c] \in Users /\ l \in Seq(Calls) /\ feed[c] \in Seq(Calls) /\ from[c] \in Nat
      /\ accepted \in Seq(Calls) /\ targeted \in Seq(Calls)
      /\ Len(l) \in Nat /\ Len(feed[c]) \in Nat
  BY HubAssumption DEF IInv, TypeOK
<1>2. i \in 1..Len(feed[c]) /\ j \in 1..Len(feed[c])
  BY <1>1
<1>3. /\ feed[c][i] = l[from[c] + i] /\ feed[c][j] = l[from[c] + j]
      /\ from[c] + Len(feed[c]) <= Len(l)
  BY <1>2 DEF IInv, Registry, Gapless
<1> HIDE DEF l
<1>4. from[c] + i \in 1..Len(l) /\ from[c] + j \in 1..Len(l) /\ from[c] + i < from[c] + j
  <2>1. from[c] \in Nat /\ Len(l) \in Nat /\ Len(feed[c]) \in Nat
    BY <1>1
  <2>2. QED
    BY <1>2, <1>3, <2>1
<1>5. PICK a, b \in 1..Served : a < b /\ accepted[a] = feed[c][i] /\ accepted[b] = feed[c][j]
  <2>1. \A x, y \in 1..Len(l) :
            x < y /\ to[l[x]] # Everyone /\ to[l[y]] # Everyone
              => \E a, b \in 1..Served : a < b /\ accepted[a] = l[x] /\ accepted[b] = l[y]
    BY <1>1 DEF OrderInv, ServedInOrder, l
  <2> DEFINE x == from[c] + i
             y == from[c] + j
  <2>2. x \in 1..Len(l) /\ y \in 1..Len(l) /\ x < y /\ feed[c][i] = l[x] /\ feed[c][j] = l[y]
    BY <1>3, <1>4
  <2> HIDE DEF x, y
  <2>3. QED
    BY <2>1, <2>2
<1>6. 1..Served \subseteq DOMAIN accepted
  BY <1>1 DEF Served
<1>7. QED
  BY <1>5, <1>6 DEF Before

LEMMA OrderInvariance == Spec => []OrderInv
<1>1. Init => OrderInv
  BY InitOrder
<1>2. IInv /\ OrderInv /\ [Next]_vars => OrderInv'
  BY NextOrder
<1>3. QED
  BY <1>1, <1>2, Invariance, PTL DEF Spec

-----------------------------------------------------------------------------
\* The variables keep their types, and no channel holds more than its buffer.
THEOREM TypeCorrect == Spec => []TypeOK
<1>1. IInv => TypeOK
  BY DEF IInv
<1>2. QED
  BY <1>1, Invariance, PTL

\* The Hub never sends on a closed channel nor closes one twice.
THEOREM ChannelsOpen == Spec => []NoPanic
<1>1. IInv => NoPanic
  BY DEF IInv, Registry
<1>2. QED
  BY <1>1, Invariance, PTL

\* No connection misses a message of its user between two it is given.
THEOREM NothingMissed == Spec => []Gapless
<1>1. IInv => Gapless
  BY DEF IInv, Registry
<1>2. QED
  BY <1>1, Invariance, PTL

\* Every connection gets a caller's messages in the order the calls returned.
THEOREM CallsInOrder == Spec => []CallOrder
<1>1. IInv /\ OrderInv => CallOrder
  BY OrderOfFeeds
<1>2. QED
  BY <1>1, Invariance, OrderInvariance, PTL
=============================================================================
