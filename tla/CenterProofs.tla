---------------------------- MODULE CenterProofs ----------------------------
(***************************************************************************)
(* The invariants of the control center and its refinement of Relay, for   *)
(* every set of drones, size of the table and room of the sockets.         *)
(***************************************************************************)
EXTENDS ControlCenter, TLAPS

USE CenterAssumption

LEMMA Appended ==
  ASSUME NEW S, NEW s \in Seq(S), NEW x \in S
  PROVE  /\ Append(s, x) \in Seq(S)
         /\ Len(Append(s, x)) = Len(s) + 1
         /\ Append(s, x) # <<>>
         /\ s = <<>> => Head(Append(s, x)) = x
         /\ s # <<>> => Head(Append(s, x)) = Head(s)
<1>1. CASE s = <<>>
  BY <1>1
<1>2. CASE s # <<>>
  <2>1. Len(s) \in Nat \ {0} /\ Append(s, x)[1] = s[1]
    BY <1>2
  <2> QED BY <1>2, <2>1
<1> QED BY <1>1, <1>2

LEMMA Taken ==
  ASSUME NEW S, NEW s \in Seq(S), s # <<>>
  PROVE  /\ Head(s) \in S
         /\ Tail(s) \in Seq(S)
         /\ Len(s) \in Nat \ {0}
         /\ Len(Tail(s)) = Len(s) - 1
OBVIOUS

LEMMA HeadReplaced ==
  ASSUME NEW S, NEW s \in Seq(S), s # <<>>, NEW x \in S
  PROVE  /\ <<x>> \o Tail(s) \in Seq(S)
         /\ Len(<<x>> \o Tail(s)) = Len(s)
         /\ <<x>> \o Tail(s) # <<>>
         /\ Head(<<x>> \o Tail(s)) = x
OBVIOUS

LEMMA Alone ==
  ASSUME NEW S, NEW x \in S
  PROVE  Head(<<x>>) = x /\ Tail(<<x>>) = <<>> /\ <<x>> \o <<>> = <<x>>
OBVIOUS

\* A stream of bounded length is put in the place of another.
LEMMA Placed ==
  ASSUME NEW S, NEW f \in [Drones -> Seq(S)],
         \A e \in Drones : Len(f[e]) <= SocketRoom,
         NEW d \in Drones, NEW v \in Seq(S), Len(v) <= SocketRoom
  PROVE  /\ [f EXCEPT ![d] = v] \in [Drones -> Seq(S)]
         /\ \A e \in Drones : Len([f EXCEPT ![d] = v][e]) <= SocketRoom
OBVIOUS

LEMMA Removed ==
  ASSUME nodes \in Seq(Drones), NEW k \in 1 .. Len(nodes)
  PROVE  /\ Without(k) \in Seq(Drones)
         /\ Len(Without(k)) = Len(nodes) - 1
         /\ \A j \in 1 .. Len(nodes) - 1 :
              Without(k)[j] = nodes[IF j = k THEN Len(nodes) ELSE j]
<1>1. Len(nodes) - 1 \in Nat /\ \A j \in 1 .. Len(nodes) : nodes[j] \in Drones
  OBVIOUS
<1> QED BY <1>1 DEF Without

\* The center accepts a connection, or the drone starts: nothing is known yet.
LEMMA InitHolds == Init => IInv
  BY DEF Init, IInv, TypeOK, MutexHeld, NodesRegistered, Stage, Registered, Unset, Outside, Gone, Garbage

\* Entry k is filled from the last: the entries come from all others, once.
From(N, k, j) == IF j = k THEN N ELSE j

LEMMA Filled ==
  ASSUME NEW N \in Nat, NEW k \in 1 .. N
  PROVE  /\ \A j \in 1 .. N - 1 : From(N, k, j) \in 1 .. N /\ From(N, k, j) # k
         /\ \A j, l \in 1 .. N - 1 : From(N, k, j) = From(N, k, l) => j = l
         /\ \A m \in 1 .. N : m # k => \E j \in 1 .. N - 1 : From(N, k, j) = m
<1>1. ASSUME NEW m \in 1 .. N, m # k
      PROVE  \E j \in 1 .. N - 1 : From(N, k, j) = m
  <2>1. CASE m = N
    <3>1. k \in 1 .. N - 1 /\ From(N, k, k) = m
      BY <1>1, <2>1 DEF From
    <3> QED BY <3>1
  <2>2. CASE m # N
    <3>1. m \in 1 .. N - 1 /\ From(N, k, m) = m
      BY <1>1, <2>2 DEF From
    <3> QED BY <3>1
  <2> QED BY <2>1, <2>2
<1>2. \A j \in 1 .. N - 1 : From(N, k, j) \in 1 .. N /\ From(N, k, j) # k
  BY DEF From
<1>3. \A j, l \in 1 .. N - 1 : From(N, k, j) = From(N, k, l) => j = l
  BY DEF From
<1> QED BY <1>1, <1>2, <1>3

LEMMA InTable ==
  ASSUME IInv
  PROVE  /\ i \in Nat \ {0} /\ Len(nodes) \in Nat /\ Len(nodes) <= MAX_NODES
         /\ \A k \in Nat \ {0} : k <= Len(nodes) => nodes[k] \in Drones
BY DEF IInv, TypeOK

\* The types are kept by the steps of a drone.
LEMMA DroneTypes ==
  ASSUME IInv, NEW d \in Drones, DroneStep(d)
  PROVE  TypeOK'
<1> USE DEF center, drones, streams, table, cast, Items
<1>1. CASE Connect(d)
  BY <1>1 DEF IInv, TypeOK, Connect, Accept
<1>2. CASE TakeBase(d)
  <2>1. /\ down[d] \in Seq(Items) /\ down[d] # <<>> /\ Rest \in Items
        /\ Len(down[d]) <= SocketRoom
    BY <1>2 DEF IInv, TypeOK, TakeBase
  <2>2. /\ Head(down[d]) \in Items
        /\ Tail(down[d]) \in Seq(Items) /\ Len(Tail(down[d])) <= SocketRoom
    BY <2>1, Taken
  <2>3. /\ <<Rest>> \o Tail(down[d]) \in Seq(Items)
        /\ Len(<<Rest>> \o Tail(down[d])) <= SocketRoom
    BY <2>1, HeadReplaced
  <2>4. Head(down[d]).kind = "base" => Head(down[d]).time \in Nat
    BY <2>2 DEF Messages, Reject, Rest
  <2> HIDE DEF Items
  <2>5. down' \in [Drones -> Seq(Items)] /\ \A e \in Drones : Len(down'[e]) <= SocketRoom
    <3>1. down \in [Drones -> Seq(Items)] /\ \A e \in Drones : Len(down[e]) <= SocketRoom
      BY DEF IInv, TypeOK
    <3>2. \/ down' = [down EXCEPT ![d] = Tail(down[d])]
          \/ down' = [down EXCEPT ![d] = <<Rest>> \o Tail(down[d])]
      BY <1>2 DEF TakeBase
    <3>3. CASE down' = [down EXCEPT ![d] = Tail(down[d])]
      BY <2>2, <3>1, <3>3, Placed
    <3>4. CASE down' = [down EXCEPT ![d] = <<Rest>> \o Tail(down[d])]
      BY <2>3, <3>1, <3>4, Placed
    <3> QED BY <3>2, <3>3, <3>4
  <2>6. baseTime' \in [Drones -> Nat \cup {Garbage}]
    BY <1>2, <2>4 DEF IInv, TypeOK, TakeBase
  <2> QED BY <1>2, <2>5, <2>6 DEF IInv, TypeOK, TakeBase
<1>3. CASE NoBase(d)
  BY <1>3 DEF IInv, TypeOK, NoBase
<1>4. CASE Send(d)
  <2>0. sent' \in [Drones -> Nat] /\ sent'[d] \in Nat \ {0}
    BY <1>4 DEF IInv, TypeOK, Send
  <2>1. /\ up[d] \in Seq(Messages) /\ Len(up[d]) < SocketRoom /\ Len(up[d]) \in Nat
    BY <1>4 DEF IInv, TypeOK, Send
  <2>3. Message(d, sent'[d]) \in Messages
    BY <2>0 DEF Messages, Message
  <2>2. /\ Append(up[d], Message(d, sent'[d])) \in Seq(Messages)
        /\ Len(Append(up[d], Message(d, sent'[d]))) <= SocketRoom
    BY <2>1, <2>3, Appended
  <2>4. up' \in [Drones -> Seq(Messages)] /\ \A e \in Drones : Len(up'[e]) <= SocketRoom
    BY <1>4, <2>2 DEF IInv, TypeOK, Send
  <2> QED BY <1>4, <2>0, <2>4 DEF IInv, TypeOK, Send
<1>5. CASE SendKilled(d)
  BY <1>5 DEF IInv, TypeOK, SendKilled
<1>6. CASE Receive(d)
  <2>1. down[d] \in Seq(Items) /\ down[d] # <<>> /\ Len(down[d]) <= SocketRoom
    BY <1>6 DEF IInv, TypeOK, Receive
  <2>2. /\ Head(down[d]) \in Items
        /\ Tail(down[d]) \in Seq(Items) /\ Len(Tail(down[d])) <= SocketRoom
    BY <2>1, Taken
  <2>3. Head(down[d]) \in Messages
    BY <1>6, <2>2 DEF Receive, Reject, Rest
  <2> HIDE DEF Items
  <2>4. down' \in [Drones -> Seq(Items)] /\ \A e \in Drones : Len(down'[e]) <= SocketRoom
    <3>1. down \in [Drones -> Seq(Items)] /\ \A e \in Drones : Len(down[e]) <= SocketRoom
      BY DEF IInv, TypeOK
    <3>2. down' = [down EXCEPT ![d] = Tail(down[d])]
      BY <1>6 DEF Receive
    <3> QED BY <2>2, <3>1, <3>2, Placed
  <2>5. got' \in [Drones -> Seq(Messages)]
    <3>1. got \in [Drones -> Seq(Messages)] /\ got[d] \in Seq(Messages)
      BY DEF IInv, TypeOK
    <3>2. got' = [got EXCEPT ![d] = Append(got[d], Head(down[d]))]
      BY <1>6 DEF Receive
    <3>3. Append(got[d], Head(down[d])) \in Seq(Messages)
      BY <2>3, <3>1, Appended
    <3> QED BY <3>1, <3>2, <3>3
  <2> QED BY <1>6, <2>4, <2>5 DEF IInv, TypeOK, Receive
<1>7. CASE ReceiveEnds(d)
  BY <1>7 DEF IInv, TypeOK, ReceiveEnds
<1>8. CASE Leave(d)
  BY <1>8, SMTT(20) DEF IInv, TypeOK, Leave
<1>9. QED
  BY <1>1, <1>2, <1>3, <1>4, <1>5, <1>6, <1>7, <1>8 DEF DroneStep

\* And by those of its handler.
LEMMA HandlerTypes ==
  ASSUME IInv, NEW d \in Drones, HandlerStep(d)
  PROVE  TypeOK'
<1> USE DEF center, drones, streams, table, cast
<1>0. /\ down \in [Drones -> Seq(Items)]
      /\ \A e \in Drones : Len(down[e]) <= SocketRoom
      /\ up \in [Drones -> Seq(Messages)]
      /\ \A e \in Drones : Len(up[e]) <= SocketRoom
      /\ Messages \subseteq Items /\ Reject \in Items
      /\ \A t \in Nat : Base(t) \in Items
  BY DEF IInv, TypeOK, Items, Base
<1>1. CASE RecvId(d)
  BY <1>1 DEF IInv, TypeOK, RecvId, Goto
<1>2. CASE IdMissing(d)
  BY <1>2 DEF IInv, TypeOK, IdMissing, Goto
<1>3. CASE Register(d)
  <2> DEFINE item == Base(worldBaseTime')
  <2>1. down[d] = <<>> /\ join' \in [Drones -> Nat \cup {Outside}] /\ worldBaseTime' \in Nat
    BY <1>3 DEF IInv, TypeOK, Stage, Register, Goto
  <2>2. item \in Items
    BY <1>0, <2>1
  <2>3. down' = down \/ down' = [down EXCEPT ![d] = Append(down[d], item)]
    BY <1>0, <1>3 DEF Register
  <2>4. nodes' \in Seq(Drones) /\ Len(nodes') <= MAX_NODES
    BY <1>3, Appended DEF IInv, TypeOK, Register
  <2> HIDE DEF item
  <2>5. /\ Append(down[d], item) \in Seq(Items)
        /\ Len(Append(down[d], item)) <= SocketRoom
    BY <1>0, <2>1, <2>2, Appended
  <2>6. down' \in [Drones -> Seq(Items)] /\ \A e \in Drones : Len(down'[e]) <= SocketRoom
    <3>1. CASE down' = [down EXCEPT ![d] = Append(down[d], item)]
      BY <1>0, <2>5, <3>1, Placed
    <3> QED BY <1>0, <2>3, <3>1
  <2> QED BY <1>3, <2>1, <2>4, <2>6 DEF IInv, TypeOK, Register, Goto, Registered
<1>4. CASE Refuse(d)
  <2>1. down[d] = <<>>
    BY <1>4 DEF IInv, Stage, Refuse, Goto
  <2>2. /\ Append(down[d], Reject) \in Seq(Items)
        /\ Len(Append(down[d], Reject)) <= SocketRoom
    BY <1>0, <2>1, Appended
  <2>3. down' = down \/ down' = [down EXCEPT ![d] = Append(down[d], Reject)]
    BY <1>0, <1>4 DEF Refuse
  <2>4. down' \in [Drones -> Seq(Items)] /\ \A e \in Drones : Len(down'[e]) <= SocketRoom
    <3>1. CASE down' = [down EXCEPT ![d] = Append(down[d], Reject)]
      BY <1>0, <2>2, <3>1, Placed
    <3> QED BY <1>0, <2>3, <3>1
  <2> QED BY <1>4, <2>4 DEF IInv, TypeOK, Refuse, Goto
<1>5. CASE RecvMessage(d)
  <2>1. up[d] \in Seq(Messages) /\ up[d] # <<>> /\ Len(up[d]) <= SocketRoom
    BY <1>0, <1>5 DEF RecvMessage
  <2>2. /\ Head(up[d]) \in Messages
        /\ Tail(up[d]) \in Seq(Messages) /\ Len(Tail(up[d])) <= SocketRoom
    BY <2>1, Taken
  <2>3. up' \in [Drones -> Seq(Messages)] /\ \A e \in Drones : Len(up'[e]) <= SocketRoom
    <3>1. up' = [up EXCEPT ![d] = Tail(up[d])]
      BY <1>5 DEF RecvMessage
    <3> QED BY <1>0, <2>2, <3>1, Placed
  <2> QED BY <1>5, <2>2, <2>3 DEF IInv, TypeOK, RecvMessage, Goto, Registered
<1>6. CASE RecvEnds(d)
  BY <1>6 DEF IInv, TypeOK, RecvEnds, Goto, Registered
<1>7. CASE LockBroadcast(d)
  <2>1. msg[d] \in Messages /\ log \in Seq(Messages)
    BY <1>7 DEF IInv, TypeOK, Stage, LockBroadcast, Goto
  <2>2. log' \in Seq(Messages)
    BY <1>7, <2>1, Appended DEF LockBroadcast
  <2> QED BY <1>7, <2>2, SMTT(20) DEF IInv, TypeOK, LockBroadcast, Goto, Registered
<1>8. CASE SendNext(d)
  <2> DEFINE e == nodes[i]
  <2>1. /\ msg[d] \in Items /\ e \in Drones /\ Len(down[e]) < SocketRoom
        /\ i \in Nat /\ i <= Len(nodes) /\ Len(nodes) <= MAX_NODES /\ Len(nodes) \in Nat
        /\ down' = [down EXCEPT ![e] = Append(down[e], msg[d])] /\ i' = i + 1
    <3>1. msg[d] \in Items
      BY <1>0, <1>8 DEF IInv, Stage, SendNext
    <3>2. i \in Nat /\ i <= Len(nodes) /\ Len(nodes) <= MAX_NODES /\ Len(nodes) \in Nat
      BY <1>8, InTable DEF SendNext
    <3>3. e \in Drones
      BY <1>8, InTable DEF SendNext
    <3> QED BY <1>8, <3>1, <3>2, <3>3 DEF SendNext
  <2> HIDE DEF e
  <2>2. down[e] \in Seq(Items) /\ Len(down[e]) \in Nat
    BY <1>0, <2>1
  <2>3. /\ Append(down[e], msg[d]) \in Seq(Items)
        /\ Len(Append(down[e], msg[d])) <= SocketRoom
    BY <2>1, <2>2, Appended
  <2>4. down' \in [Drones -> Seq(Items)] /\ \A f \in Drones : Len(down'[f]) <= SocketRoom
    BY <1>0, <2>1, <2>3, Placed
  <2>5. i' \in 1 .. MAX_NODES + 1
    BY <2>1, InTable
  <2> QED BY <1>8, <2>4, <2>5 DEF IInv, TypeOK, SendNext
<1>9. CASE SendLost(d)
  <2>1. i' \in 1 .. MAX_NODES + 1
    BY <1>9, InTable DEF SendLost
  <2> QED BY <1>9, <2>1 DEF IInv, TypeOK, SendLost
<1>10. CASE SendKills(d)
  BY <1>10 DEF IInv, TypeOK, SendKills
<1>11. CASE UnlockBroadcast(d)
  BY <1>11 DEF IInv, TypeOK, UnlockBroadcast, Goto, Registered
<1>12. CASE Unregister(d)
  <2>1. nodes' \in Seq(Drones) /\ Len(nodes') <= MAX_NODES
    BY <1>12, Removed DEF IInv, TypeOK, Unregister
  <2> QED BY <1>12, <2>1 DEF IInv, TypeOK, Unregister, Goto
<1>13. QED
  BY <1>1, <1>2, <1>3, <1>4, <1>5, <1>6, <1>7, <1>8, <1>9, <1>10, <1>11, <1>12 DEF HandlerStep

LEMMA TypesKept == IInv /\ [Next]_vars => TypeOK'
<1> SUFFICES ASSUME IInv, [Next]_vars PROVE TypeOK'
  OBVIOUS
<1>1. CASE UNCHANGED vars
  BY <1>1 DEF IInv, TypeOK, vars, drones, streams, center, table, cast
<1>2. CASE Next
  BY <1>2, DroneTypes, HandlerTypes DEF Next
<1> QED BY <1>1, <1>2

\* A drone moves none of the threads of the center, but for the handler that
\* starts with its connection.
LEMMA DroneApart ==
  ASSUME IInv, NEW d \in Drones, DroneStep(d)
  PROVE  /\ UNCHANGED <<nodes, nodes_mutex, worldBaseTime, msg>>
         /\ \A e \in Drones \ {d} : UNCHANGED <<main[e], receiver[e], baseTime[e], down[e]>>
         /\ \A e \in Drones :
              \/ handler'[e] = handler[e]
              \/ handler[e] = "none" /\ handler'[e] = "id" /\ e = d /\ Connect(d)
<1> USE DEF center, drones, streams, table, cast
<1>0. /\ main \in [Drones -> {"start", "waiting", "sending", "gone"}]
      /\ receiver \in [Drones -> BOOLEAN]
      /\ baseTime \in [Drones -> Nat \cup {Garbage}]
      /\ down \in [Drones -> Seq(Items)]
      /\ handler \in [Drones -> {"none", "id", "register", "refused", "closed"} \cup Registered]
      /\ main[d] = "start" => handler[d] = "none"
  BY DEF IInv, TypeOK, Stage
<1>1. CASE Connect(d)
  BY <1>0, <1>1 DEF Connect, Accept
<1>2. CASE TakeBase(d)
  BY <1>0, <1>2 DEF TakeBase
<1>3. CASE NoBase(d) \/ SendKilled(d)
  BY <1>0, <1>3 DEF NoBase, SendKilled
<1>4. CASE Send(d)
  BY <1>0, <1>4 DEF Send
<1>5. CASE Receive(d) \/ ReceiveEnds(d)
  BY <1>0, <1>5 DEF Receive, ReceiveEnds
<1>6. CASE Leave(d)
  BY <1>0, <1>6 DEF Leave
<1> QED BY <1>1, <1>2, <1>3, <1>4, <1>5, <1>6 DEF DroneStep

\* The mutex is taken and given back with the step into and out of the loop.
LEMMA MutexKept == IInv /\ [Next]_vars => MutexHeld'
<1> SUFFICES ASSUME IInv, [Next]_vars PROVE MutexHeld'
  OBVIOUS
<1> USE DEF center, table, cast
<1>0. /\ MutexHeld /\ Nobody \notin Drones
      /\ handler \in [Drones -> {"none", "id", "register", "refused", "closed"} \cup Registered]
  BY DEF IInv, TypeOK
<1>a. ASSUME nodes_mutex' = nodes_mutex,
             \A e \in Drones : handler'[e] = "broadcast" <=> handler[e] = "broadcast"
      PROVE  MutexHeld'
  BY <1>0, <1>a DEF MutexHeld
<1>1. CASE UNCHANGED vars
  BY <1>1, <1>a DEF vars
<1>2. ASSUME NEW d \in Drones, DroneStep(d) PROVE MutexHeld'
  BY <1>2, <1>a, DroneApart
<1>3. ASSUME NEW d \in Drones, HandlerStep(d) PROVE MutexHeld'
  <2>1. CASE RecvId(d) \/ IdMissing(d) \/ Register(d) \/ Refuse(d)
    BY <1>0, <1>a, <2>1 DEF RecvId, IdMissing, Register, Refuse, Goto
  <2>2. CASE RecvMessage(d) \/ RecvEnds(d) \/ Unregister(d)
    BY <1>0, <1>a, <2>2 DEF RecvMessage, RecvEnds, Unregister, Goto
  <2>3. CASE LockBroadcast(d)
    BY <1>0, <2>3 DEF MutexHeld, LockBroadcast, Goto
  <2>4. CASE SendNext(d) \/ SendLost(d) \/ SendKills(d)
    BY <1>0, <1>a, <2>4 DEF SendNext, SendLost, SendKills
  <2>5. CASE UnlockBroadcast(d)
    BY <1>0, <2>5 DEF MutexHeld, UnlockBroadcast, Goto
  <2> QED BY <1>3, <2>1, <2>2, <2>3, <2>4, <2>5 DEF HandlerStep
<1> QED BY <1>1, <1>2, <1>3 DEF Next

\* Only Register and Unregister change the table, and the two are the ways
\* into and out of Registered.
LEMMA TableKept == IInv /\ [Next]_vars => NodesRegistered'
<1> SUFFICES ASSUME IInv, [Next]_vars PROVE NodesRegistered'
  OBVIOUS
<1> USE DEF center, table, cast
<1>0. /\ NodesRegistered /\ nodes \in Seq(Drones) /\ Len(nodes) \in Nat
      /\ handler \in [Drones -> {"none", "id", "register", "refused", "closed"} \cup Registered]
      /\ \A k \in 1 .. Len(nodes) : nodes[k] \in Drones
  BY DEF IInv, TypeOK
<1>a. ASSUME nodes' = nodes,
             \A e \in Drones : handler'[e] \in Registered <=> handler[e] \in Registered
      PROVE  NodesRegistered'
  BY <1>0, <1>a DEF NodesRegistered
<1>1. CASE UNCHANGED vars
  BY <1>1, <1>a DEF vars
<1>2. ASSUME NEW d \in Drones, DroneStep(d) PROVE NodesRegistered'
  BY <1>2, <1>a, DroneApart DEF Registered
<1>3. ASSUME NEW d \in Drones, HandlerStep(d) PROVE NodesRegistered'
  <2>1. CASE RecvId(d) \/ IdMissing(d) \/ Refuse(d)
    BY <1>0, <1>a, <2>1 DEF RecvId, IdMissing, Refuse, Goto, Registered
  <2>2. CASE RecvMessage(d) \/ RecvEnds(d) \/ LockBroadcast(d) \/ UnlockBroadcast(d)
    BY <1>0, <1>a, <2>2 DEF RecvMessage, RecvEnds, LockBroadcast, UnlockBroadcast, Goto, Registered
  <2>3. CASE SendNext(d) \/ SendLost(d) \/ SendKills(d)
    BY <1>0, <1>a, <2>3 DEF SendNext, SendLost, SendKills
  <2>4. CASE Register(d)
    <3>1. /\ nodes' = Append(nodes, d)
          /\ handler[d] = "register" /\ handler' = [handler EXCEPT ![d] = "relay"]
      BY <2>4 DEF Register, Goto
    <3>2. /\ Len(nodes') = Len(nodes) + 1
          /\ nodes'[Len(nodes) + 1] = d
          /\ \A k \in 1 .. Len(nodes) : nodes'[k] = nodes[k] /\ nodes[k] # d
      BY <1>0, <3>1 DEF NodesRegistered, Registered
    <3>3. \A e \in Drones : handler'[e] \in Registered <=> (handler[e] \in Registered \/ e = d)
      BY <1>0, <3>1 DEF Registered
    <3>4. \A k \in 1 .. Len(nodes') : k \in 1 .. Len(nodes) \/ k = Len(nodes) + 1
      BY <1>0, <3>2
    <3>5. \A j, k \in 1 .. Len(nodes') : nodes'[j] = nodes'[k] => j = k
      BY <1>0, <3>2, <3>4 DEF NodesRegistered
    <3>6. ASSUME NEW e \in Drones
          PROVE  (\E k \in 1 .. Len(nodes') : nodes'[k] = e)
                   <=> (\E k \in 1 .. Len(nodes) : nodes[k] = e) \/ e = d
      <4>1. 1 .. Len(nodes) \subseteq 1 .. Len(nodes') /\ Len(nodes) + 1 \in 1 .. Len(nodes')
        BY <1>0, <3>2
      <4> QED BY <3>2, <3>4, <4>1
    <3> QED BY <1>0, <3>3, <3>5, <3>6 DEF NodesRegistered
  <2>5. CASE Unregister(d)
    <3>1. PICK k \in 1 .. Len(nodes) : nodes[k] = d /\ nodes' = Without(k)
      BY <2>5 DEF Unregister
    <3>2. handler[d] = "leave" /\ handler' = [handler EXCEPT ![d] = "closed"]
      BY <2>5 DEF Unregister, Goto
    <3>3. /\ Len(nodes') = Len(nodes) - 1
          /\ \A j \in 1 .. Len(nodes) - 1 : nodes'[j] = nodes[IF j = k THEN Len(nodes) ELSE j]
      BY <1>0, <3>1, Removed
    <3>4. \A e \in Drones : handler'[e] \in Registered <=> (handler[e] \in Registered /\ e # d)
      BY <1>0, <3>2 DEF Registered
    <3> DEFINE N == Len(nodes)
               from(j) == From(N, k, j)
    <3>5. \A j \in 1 .. Len(nodes') :
            /\ from(j) \in 1 .. N /\ from(j) # k
            /\ nodes'[j] = nodes[from(j)]
      BY <1>0, <3>3, Filled DEF From
    <3>6. \A j, l \in 1 .. Len(nodes') : from(j) = from(l) => j = l
      BY <1>0, <3>3, Filled
    <3>7. \A m \in 1 .. N : m # k => \E j \in 1 .. Len(nodes') : from(j) = m
      BY <1>0, <3>3, Filled
    <3> HIDE DEF from
    <3>8. \A j, l \in 1 .. Len(nodes') : nodes'[j] = nodes'[l] => j = l
      <4>1. ASSUME NEW j \in 1 .. Len(nodes'), NEW l \in 1 .. Len(nodes'), nodes'[j] = nodes'[l]
            PROVE  j = l
        <5>1. from(j) = from(l)
          <6>1. /\ from(j) \in 1 .. N /\ from(l) \in 1 .. N
                /\ nodes[from(j)] = nodes[from(l)]
            BY <3>5, <4>1
          <6> QED BY <1>0, <6>1 DEF NodesRegistered
        <5> QED BY <3>6, <5>1
      <4> QED BY <4>1
    <3>9. ASSUME NEW e \in Drones
          PROVE  (\E j \in 1 .. Len(nodes') : nodes'[j] = e)
                   <=> (\E m \in 1 .. Len(nodes) : nodes[m] = e) /\ e # d
      <4>1. \A m \in 1 .. Len(nodes) : nodes[m] = d => m = k
        BY <1>0, <3>1 DEF NodesRegistered
      <4>2. ASSUME NEW j \in 1 .. Len(nodes'), nodes'[j] = e
            PROVE  (\E m \in 1 .. N : nodes[m] = e) /\ e # d
        BY <3>5, <4>1, <4>2
      <4>3. ASSUME NEW m \in 1 .. N, nodes[m] = e, e # d
            PROVE  \E j \in 1 .. Len(nodes') : nodes'[j] = e
        <5>1. PICK j \in 1 .. Len(nodes') : from(j) = m
          BY <3>1, <3>7, <4>3
        <5> QED BY <3>5, <4>3, <5>1
      <4> QED BY <4>2, <4>3
    <3> QED BY <1>0, <3>4, <3>8, <3>9 DEF NodesRegistered
  <2> QED BY <1>3, <2>1, <2>2, <2>3, <2>4, <2>5 DEF HandlerStep
<1> QED BY <1>1, <1>2, <1>3 DEF Next

\* A drone, its handler and the stream between them go through their stages
\* together, whatever the others do.
LEMMA StageKept == IInv /\ [Next]_vars => \A e \in Drones : Stage(e)'
<1> SUFFICES ASSUME IInv, [Next]_vars, NEW e \in Drones PROVE Stage(e)'
  OBVIOUS
<1> USE DEF center, table, cast, streams, drones
<1>0. /\ Stage(e) /\ e \in Drones
      /\ main \in [Drones -> {"start", "waiting", "sending", "gone"}]
      /\ receiver \in [Drones -> BOOLEAN]
      /\ baseTime \in [Drones -> Nat \cup {Garbage}]
      /\ down \in [Drones -> Seq(Items)] /\ down[e] \in Seq(Items)
      /\ up \in [Drones -> Seq(Messages)]
      /\ handler \in [Drones -> {"none", "id", "register", "refused", "closed"} \cup Registered]
      /\ msg \in [Drones -> Messages \cup {Nobody}]
      /\ worldBaseTime \in Nat
  BY DEF IInv, TypeOK
\* Nothing that the stage of e is about changes.
<1>a. ASSUME UNCHANGED <<main[e], receiver[e], handler[e], baseTime[e], down[e], msg[e], worldBaseTime>>
      PROVE  Stage(e)'
  BY <1>0, <1>a DEF Stage, Gone
<1>1. CASE UNCHANGED vars
  BY <1>1, <1>a DEF vars
<1>2. ASSUME NEW d \in Drones, DroneStep(d) PROVE Stage(e)'
  <2>1. CASE e # d
    BY <1>2, <1>a, <2>1, DroneApart
  <2>2. CASE e = d
    <3> USE <1>0, <2>2
    <3>1. CASE Connect(d)
      BY <3>1 DEF Connect, Accept, Stage, Gone, Registered
    <3>2. CASE TakeBase(d)
      <4>1. /\ main[d] = "waiting" /\ down[d] # <<>>
            /\ UNCHANGED <<handler[d], msg[d], worldBaseTime>>
            /\ main'[d] = "sending"
        BY <3>2 DEF TakeBase
      <4>2. handler[d] \in {"refused"} \cup Registered
        BY <4>1 DEF Stage, Gone
      <4>3. CASE handler[d] \in Registered
        <5>1. Head(down[d]).kind = "base" /\ Head(down[d]).time = worldBaseTime
          BY <4>1, <4>3 DEF Stage, Base
        <5>2. baseTime'[d] = worldBaseTime
          BY <3>2, <5>1 DEF TakeBase
        <5> QED BY <4>1, <4>3, <5>2 DEF Stage, Gone, Registered
      <4>4. CASE handler[d] = "refused"
        <5>0. down[d] = <<Reject>> \/ down[d] = <<Rest>>
          BY <4>1, <4>4 DEF Stage
        <5>1. Head(down[d]) \in {Reject, Rest} /\ Tail(down[d]) = <<>>
          BY <5>0, Alone
        <5>2. Head(down[d]).kind # "base"
          BY <5>1 DEF Reject, Rest
        <5>3. down'[d] = <<Rest>>
          BY <1>0, <3>2, <5>1, <5>2, Alone DEF TakeBase
        <5> QED BY <4>1, <4>4, <5>3 DEF Stage, Gone, Registered
      <4> QED BY <4>2, <4>3, <4>4
    <3>3. CASE NoBase(d) \/ SendKilled(d)
      BY <3>3 DEF NoBase, SendKilled, Stage, Gone, Registered
    <3>4. CASE Send(d)
      BY <3>4 DEF Send, Stage, Gone, Registered
    <3>5. CASE Receive(d)
      <4>1. /\ receiver[d] /\ down[d] # <<>> /\ Head(down[d]).kind = "message"
            /\ UNCHANGED <<main[d], receiver[d], handler[d], baseTime[d], msg[d], worldBaseTime>>
        BY <3>5 DEF Receive
      <4>2. main[d] = "sending" /\ handler[d] \notin {"none", "id", "register"}
        BY <4>1 DEF Stage
      <4>3. handler[d] # "refused"
        BY <4>1 DEF Stage, Reject, Rest
      <4> QED BY <4>1, <4>2, <4>3 DEF Stage, Gone, Registered
    <3>6. CASE ReceiveEnds(d)
      BY <3>6 DEF ReceiveEnds, Stage, Gone, Registered
    <3>7. CASE Leave(d)
      BY <3>7 DEF Leave, Stage, Gone, Registered
    <3> QED BY <1>2, <3>1, <3>2, <3>3, <3>4, <3>5, <3>6, <3>7 DEF DroneStep
  <2> QED BY <2>1, <2>2
<1>3. ASSUME NEW d \in Drones, HandlerStep(d) PROVE Stage(e)'
  <2>1. CASE RecvId(d) \/ IdMissing(d)
    BY <1>0, <2>1 DEF RecvId, IdMissing, Goto, Stage, Gone, Registered
  <2>2. CASE Register(d)
    <3>1. /\ handler[d] = "register" /\ handler' = [handler EXCEPT ![d] = "relay"]
          /\ worldBaseTime' = worldBaseTime \/ nodes = <<>>
          /\ down' = [down EXCEPT ![d] = IF Gone(d) THEN @ ELSE Append(@, Base(worldBaseTime'))]
          /\ UNCHANGED <<main, receiver, baseTime, msg>>
      BY <2>2 DEF Register, Goto
    <3>2. CASE e # d
      <4>1. worldBaseTime' = worldBaseTime \/ handler[e] \notin Registered
        BY <1>0, <3>1 DEF IInv, NodesRegistered
      <4> QED BY <1>0, <3>1, <3>2, <4>1 DEF Stage, Gone
    <3>3. CASE e = d
      <4>1. down[d] = <<>> /\ baseTime[d] = Unset /\ main[d] \notin {"start", "sending"} /\ ~receiver[d]
        BY <1>0, <3>1, <3>3 DEF Stage
      <4>2. main[d] = "waiting" => down'[d] = <<Base(worldBaseTime')>>
        BY <1>0, <3>1, <3>3, <4>1 DEF Gone
      <4> QED BY <1>0, <3>1, <3>3, <4>1, <4>2 DEF Stage, Gone, Registered
    <3> QED BY <3>2, <3>3
  <2>3. CASE Refuse(d)
    <3>1. /\ handler[d] = "register" /\ handler' = [handler EXCEPT ![d] = "refused"]
          /\ down' = [down EXCEPT ![d] = IF Gone(d) THEN @ ELSE Append(@, Reject)]
          /\ UNCHANGED <<main, receiver, baseTime, msg, worldBaseTime>>
      BY <2>3 DEF Refuse, Goto
    <3>2. CASE e # d
      BY <1>0, <1>a, <3>1, <3>2
    <3>3. CASE e = d
      <4>1. down[d] = <<>> /\ baseTime[d] = Unset /\ main[d] \notin {"start", "sending"} /\ ~receiver[d]
        BY <1>0, <3>1, <3>3 DEF Stage
      <4>2. down'[d] \in {<<>>, <<Reject>>}
        BY <1>0, <3>1, <3>3, <4>1
      <4> QED BY <1>0, <3>1, <3>3, <4>1, <4>2 DEF Stage, Gone, Registered
    <3> QED BY <3>2, <3>3
  <2>4. CASE RecvMessage(d)
    <3>1. Head(up[d]) \in Messages
      BY <1>0, <2>4, Taken DEF RecvMessage
    <3> QED BY <1>0, <2>4, <3>1 DEF RecvMessage, Goto, Stage, Gone, Registered
  <2>5. CASE RecvEnds(d) \/ LockBroadcast(d)
    BY <1>0, <2>5 DEF RecvEnds, LockBroadcast, Goto, Stage, Gone, Registered
  <2>6. CASE SendNext(d)
    <3> DEFINE to == nodes[i]
    <3>1. /\ handler[d] = "broadcast" /\ i \in 1 .. Len(nodes)
          /\ down' = [down EXCEPT ![to] = Append(@, msg[d])]
          /\ UNCHANGED <<main, receiver, handler, baseTime, msg, worldBaseTime>>
      BY <2>6, InTable DEF SendNext
    <3>2. CASE e # to
      BY <1>0, <1>a, <3>1, <3>2
    <3>3. CASE e = to
      <4>1. handler[e] \in Registered
        BY <1>0, <3>1, <3>3 DEF IInv, NodesRegistered
      <4>2. msg[d] \in Items
        BY <3>1 DEF IInv, Stage, Items
      <4>3. down'[e] = Append(down[e], msg[d])
        BY <1>0, <3>1, <3>3
      <4>4. down[e] # <<>> => down'[e] # <<>> /\ Head(down'[e]) = Head(down[e])
        BY <1>0, <4>2, <4>3, Appended
      <4> QED BY <1>0, <3>1, <4>1, <4>4 DEF Stage, Gone, Registered
    <3> QED BY <3>2, <3>3
  <2>7. CASE SendLost(d) \/ SendKills(d)
    BY <1>a, <2>7 DEF SendLost, SendKills
  <2>8. CASE UnlockBroadcast(d)
    BY <1>0, <2>8 DEF UnlockBroadcast, Goto, Stage, Gone, Registered
  <2>9. CASE Unregister(d)
    BY <1>0, <2>9 DEF Unregister, Goto, Stage, Gone, Registered
  <2> QED BY <1>3, <2>1, <2>2, <2>3, <2>4, <2>5, <2>6, <2>7, <2>8, <2>9 DEF HandlerStep
<1> QED BY <1>1, <1>2, <1>3 DEF Next

LEMMA GarbageKept ==
  IInv /\ [Next]_vars => \A e \in Drones : baseTime'[e] = Garbage => handler'[e] = "refused"
<1> SUFFICES ASSUME IInv, [Next]_vars, NEW e \in Drones, baseTime'[e] = Garbage
             PROVE  handler'[e] = "refused"
  OBVIOUS
<1> USE DEF center, table, cast, streams, drones
<1>0. /\ Stage(e) /\ (baseTime[e] = Garbage => handler[e] = "refused")
      /\ baseTime \in [Drones -> Nat \cup {Garbage}]
      /\ handler \in [Drones -> {"none", "id", "register", "refused", "closed"} \cup Registered]
      /\ worldBaseTime \in Nat /\ Garbage \notin Nat /\ Unset # Garbage
  BY SMTT(20) DEF IInv, TypeOK, Garbage, Unset
<1>1. CASE UNCHANGED vars
  BY <1>0, <1>1 DEF vars
<1>2. ASSUME NEW d \in Drones, DroneStep(d) PROVE handler'[e] = "refused"
  <2>1. CASE TakeBase(d) /\ e = d
    <3>1. handler'[e] = handler[e] /\ main[e] = "waiting" /\ down[e] # <<>>
      BY <2>1 DEF TakeBase
    <3>2. handler[e] \in {"refused"} \cup Registered
      BY <1>0, <3>1 DEF Stage, Gone
    <3>3. CASE handler[e] \in Registered
      <4>1. Head(down[e]).kind = "base" /\ Head(down[e]).time = worldBaseTime
        BY <1>0, <3>1, <3>3 DEF Stage, Base
      <4>2. baseTime'[e] = worldBaseTime
        BY <1>0, <2>1, <4>1 DEF TakeBase
      <4> QED BY <1>0, <4>2
    <3> QED BY <3>1, <3>2, <3>3
  <2>2. CASE ~(TakeBase(d) /\ e = d)
    <3>1. baseTime'[e] = baseTime[e]
      BY <1>0, <1>2, <2>2, DroneApart DEF DroneStep, Connect, Accept, NoBase, Send, SendKilled, Receive, ReceiveEnds, Leave
    <3> QED BY <1>0, <1>2, <3>1, DroneApart
  <2> QED BY <2>1, <2>2
<1>3. ASSUME NEW d \in Drones, HandlerStep(d) PROVE handler'[e] = "refused"
  <2>1. baseTime' = baseTime
    BY <1>3 DEF HandlerStep, RecvId, IdMissing, Register, Refuse, RecvMessage, RecvEnds,
                LockBroadcast, SendNext, SendLost, SendKills, UnlockBroadcast, Unregister
  <2>2. handler[d] # "refused" \/ handler' = handler
    BY <1>3 DEF HandlerStep, Goto, RecvId, IdMissing, Register, Refuse, RecvMessage, RecvEnds,
                LockBroadcast, SendNext, SendLost, SendKills, UnlockBroadcast, Unregister
  <2>3. e # d => handler'[e] = handler[e]
    BY <1>0, <1>3 DEF HandlerStep, Goto, RecvId, IdMissing, Register, Refuse, RecvMessage, RecvEnds,
                LockBroadcast, SendNext, SendLost, SendKills, UnlockBroadcast, Unregister
  <2> QED BY <1>0, <2>1, <2>2, <2>3
<1> QED BY <1>1, <1>2, <1>3 DEF Next

LEMMA Kept == IInv /\ [Next]_vars => IInv'
BY TypesKept, MutexKept, TableKept, StageKept, GarbageKept DEF IInv

\* The inductive invariant.
THEOREM Invariant == Spec => []IInv
<1> QED BY InitHolds, Kept, PTL DEF Spec

\* The variables have their types, and the table and the streams their
\* bounds (center_control.c:32): for every number of drones and messages.
THEOREM TypeCorrect == Spec => []TypeOK
<1>1. IInv => TypeOK
  BY DEF IInv
<1> QED BY <1>1, Invariant, PTL

\* The table has exactly the drones between registration and removal, each
\* once (center_control.c:37-39 and 71-80).
THEOREM TableTrue == Spec => []NodesRegistered
<1>1. IInv => NodesRegistered
  BY DEF IInv
<1> QED BY <1>1, Invariant, PTL

\* All drones in the table that have a base time have that of the center
\* (center_control.c:33-36, drone.c:204).
THEOREM OneBase == Spec => []SameBase
<1>1. ASSUME IInv, NEW k \in 1 .. Len(nodes)
      PROVE  baseTime[nodes[k]] \in {Unset, worldBaseTime}
  <2>0. nodes[k] \in Drones
    BY <1>1 DEF IInv, TypeOK
  <2>1. nodes[k] \in Drones /\ Stage(nodes[k])
    BY <1>1, <2>0 DEF IInv
  <2>2. handler[nodes[k]] \in Registered
    BY <1>1, <2>1 DEF IInv, NodesRegistered
  <2> QED BY <2>1, <2>2 DEF Stage
<1>2. IInv => SameBase
  BY <1>1 DEF SameBase
<1> QED BY <1>2, Invariant, PTL

\* A drone that waits for the base time does not find a message of another
\* in its place (drone.c:197), and only a refused drone mistakes something.
THEOREM BaseBeforeMessages == Spec => []BaseFirst
<1>1. ASSUME IInv, NEW d \in Drones, main[d] = "waiting", down[d] # <<>>
      PROVE  Head(down[d]).kind # "message"
  <2>1. Stage(d) /\ handler[d] \in {"none", "id", "register", "refused", "closed"} \cup Registered
    BY <1>1 DEF IInv, TypeOK
  <2>2. handler[d] \in {"refused"} \cup Registered
    BY <1>1, <2>1 DEF Stage, Gone
  <2> QED BY <1>1, <2>1, <2>2 DEF Stage, Base, Reject, Rest
<1>2. IInv => BaseFirst
  BY <1>1 DEF IInv, BaseFirst
<1> QED BY <1>2, Invariant, PTL
-----------------------------------------------------------------------------
(***************************************************************************)
(* The center implements Relay.  The invariant follows the messages on     *)
(* their way: from the drone to the log, and from the log to the drones.   *)
(***************************************************************************)

\* The handler of d relays what d sends, or will.
Relays(d) == handler[d] \notin {"refused", "leave", "closed"}

\* The messages of d in the log; one more is with the handler, the others are
\* on the stream.
Waiting(d) == IF handler[d] = "lock" THEN 1 ELSE 0
Relayed(d) == sent[d] - Len(up[d]) - Waiting(d)

InTurn(d) ==
  /\ Relayed(d) \in Nat /\ Relayed(d) <= Len(log)
  /\ R!Numbers(d) = 1 .. Relayed(d)
  /\ \A k \in 1 .. Len(up[d]) : up[d][k] = Message(d, Relayed(d) + Waiting(d) + k)
  /\ handler[d] = "lock" => msg[d] = Message(d, Relayed(d) + 1)

Upward(d) ==
  /\ Relays(d) => InTurn(d)
  /\ handler[d] = "broadcast" => log # <<>> /\ msg[d] = log[Len(log)]
  /\ handler[d] \in {"none", "id", "register"} => join[d] = Outside /\ got[d] = <<>>
  /\ handler[d] \in Registered => join[d] # Outside

\* The base time is the first on the stream; the broadcast has yet to reach e.
Before(e) == IF main[e] = "waiting" THEN 1 ELSE 0
Ahead(e)  == IF nodes_mutex # Nobody /\ \E k \in i .. Len(nodes) : nodes[k] = e THEN 1 ELSE 0

\* What e has got and what is on its stream is the log from where it joined.
Downward(e) ==
  handler[e] \in Registered /\ ~Gone(e) =>
    /\ join[e] + Len(got[e]) + Len(down[e]) - Before(e) = Len(log) - Ahead(e)
    /\ \A k \in 1 .. Len(down[e]) : k > Before(e) =>
         down[e][k] = log[join[e] + Len(got[e]) + k - Before(e)]

Flow == \A d \in Drones : Upward(d) /\ Downward(d)

LEMMA FlowInit == Init => Flow
<1> SUFFICES ASSUME Init, NEW d \in Drones PROVE Upward(d) /\ Downward(d)
  BY DEF Flow
<1>1. R!Numbers(d) = {}
  BY DEF Init, R!Numbers
<1>2. Relayed(d) = 0 /\ Waiting(d) = 0 /\ up[d] = <<>> /\ handler[d] = "none"
  BY DEF Init, Relayed, Waiting
<1>3. Upward(d)
  BY <1>1, <1>2 DEF Init, Upward, InTurn, Registered
<1>4. Downward(d)
  BY <1>2 DEF Downward, Registered
<1> QED BY <1>3, <1>4

\* A message more in the log is one of its sender.
LEMMA Numbered ==
  ASSUME log \in Seq(Messages), NEW m \in Messages, log' = Append(log, m), NEW d \in Drones
  PROVE  R!Numbers(d)' = IF m.from = d THEN R!Numbers(d) \cup {m.number} ELSE R!Numbers(d)
<1>1. /\ Len(log) \in Nat /\ Len(log') = Len(log) + 1
      /\ log'[Len(log) + 1] = m
      /\ \A k \in 1 .. Len(log) : log'[k] = log[k]
  OBVIOUS
<1>2. {k \in 1 .. Len(log') : log'[k].from = d}
        = {k \in 1 .. Len(log) : log[k].from = d}
            \cup (IF m.from = d THEN {Len(log) + 1} ELSE {})
  BY <1>1
<1>3. {log'[k].number : k \in {j \in 1 .. Len(log') : log'[j].from = d}}
        = {log[k].number : k \in {j \in 1 .. Len(log) : log[j].from = d}}
            \cup (IF m.from = d THEN {m.number} ELSE {})
  BY <1>1, <1>2
<1> QED BY <1>3 DEF R!Numbers

\* What a drone has sent enters the log in order, by its own handler.
LEMMA UpwardKept ==
  ASSUME IInv, Flow, [Next]_vars, NEW e \in Drones
  PROVE  Upward(e)'
<1> USE DEF center, table, cast, streams, drones
<1>0. /\ Upward(e) /\ Stage(e)
      /\ handler \in [Drones -> {"none", "id", "register", "refused", "closed"} \cup Registered]
      /\ sent \in [Drones -> Nat] /\ up \in [Drones -> Seq(Messages)] /\ up[e] \in Seq(Messages)
      /\ Len(up[e]) \in Nat /\ sent[e] \in Nat
      /\ msg \in [Drones -> Messages \cup {Nobody}]
      /\ got \in [Drones -> Seq(Messages)] /\ join \in [Drones -> Nat \cup {Outside}]
      /\ log \in Seq(Messages) /\ Len(log) \in Nat
  BY SMTT(20) DEF IInv, TypeOK, Flow
<1>a. ASSUME UNCHANGED <<handler[e], up[e], sent[e], msg[e], join[e], got[e], log>>
      PROVE  Upward(e)'
  BY <1>0, <1>a DEF Upward, Relays, InTurn, Relayed, Waiting, R!Numbers
\* The handler moves on, without a message that waits.
<1>b. ASSUME UNCHANGED <<up[e], sent[e], log>>, handler[e] # "lock", handler'[e] # "lock",
             InTurn(e)
      PROVE  InTurn(e)'
  <2>1. Waiting(e) = 0 /\ Waiting(e)' = 0
    BY <1>b DEF Waiting
  <2>2. Relayed(e)' = Relayed(e)
    BY <1>b, <2>1 DEF Relayed
  <2>3. R!Numbers(e)' = R!Numbers(e)
    BY <1>b DEF R!Numbers
  <2> QED BY <1>b, <2>1, <2>2, <2>3 DEF InTurn
<1>1. CASE UNCHANGED vars
  BY <1>1, <1>a DEF vars
<1>2. ASSUME NEW d \in Drones, DroneStep(d) PROVE Upward(e)'
  <2>0. UNCHANGED <<msg, join, log>>
    BY <1>2 DEF DroneStep, Connect, TakeBase, NoBase, Send, SendKilled, Receive, ReceiveEnds, Leave
  <2>1. CASE Connect(d)
    <3>1. CASE e = d
      <4>1. handler[e] = "none" /\ handler'[e] = "id" /\ UNCHANGED <<up, sent, got>>
        BY <1>0, <2>1, <3>1 DEF Connect, Accept, Stage
      <4> QED BY <1>0, <1>b, <2>0, <4>1 DEF Upward, Relays, Registered
    <3>2. CASE e # d
      BY <1>0, <1>a, <2>0, <2>1, <3>2 DEF Connect, Accept
    <3> QED BY <3>1, <3>2
  <2>2. CASE TakeBase(d) \/ NoBase(d) \/ SendKilled(d) \/ ReceiveEnds(d) \/ Leave(d)
    BY <1>a, <2>0, <2>2 DEF TakeBase, NoBase, SendKilled, ReceiveEnds, Leave
  <2>3. CASE Send(d)
    <3>1. CASE e = d
      <4>1. /\ sent'[e] = sent[e] + 1
            /\ up'[e] = Append(up[e], Message(e, sent[e] + 1))
            /\ UNCHANGED <<handler, got>>
        BY <1>0, <2>3, <3>1 DEF Send
      <4>2. /\ Len(up'[e]) = Len(up[e]) + 1
            /\ \A k \in 1 .. Len(up[e]) : up'[e][k] = up[e][k]
            /\ up'[e][Len(up[e]) + 1] = Message(e, sent[e] + 1)
        BY <1>0, <4>1
      <4>3. Waiting(e)' = Waiting(e) /\ Waiting(e) \in {0, 1} /\ Relayed(e)' = Relayed(e)
        BY <1>0, <4>1, <4>2 DEF Waiting, Relayed
      <4>4. sent[e] + 1 = Relayed(e) + Waiting(e) + (Len(up[e]) + 1)
        BY <1>0, <4>3 DEF Relayed
      <4>5. Relays(e) => \A k \in 1 .. Len(up'[e]) :
              up'[e][k] = Message(e, Relayed(e) + Waiting(e) + k)
        <5> SUFFICES ASSUME Relays(e), NEW k \in 1 .. Len(up'[e])
                     PROVE  up'[e][k] = Message(e, Relayed(e) + Waiting(e) + k)
          OBVIOUS
        <5>1. k \in 1 .. Len(up[e]) \/ k = Len(up[e]) + 1
          BY <1>0, <4>2
        <5>2. \A j \in 1 .. Len(up[e]) : up[e][j] = Message(e, Relayed(e) + Waiting(e) + j)
          BY <1>0 DEF Upward, InTurn
        <5> QED BY <4>2, <4>4, <5>1, <5>2
      <4> QED BY <1>0, <2>0, <4>1, <4>3, <4>5, SMTT(20) DEF Upward, Relays, InTurn, R!Numbers
    <3>2. CASE e # d
      BY <1>0, <1>a, <2>0, <2>3, <3>2 DEF Send
    <3> QED BY <3>1, <3>2
  <2>4. CASE Receive(d)
    <3>1. CASE e = d
      <4>1. main[e] = "sending" /\ UNCHANGED <<handler, up, sent>>
        BY <1>0, <2>4, <3>1 DEF Receive, Stage
      <4>2. handler[e] \notin {"none", "id", "register"}
        BY <1>0, <4>1 DEF Stage
      <4>3. InTurn(e) => InTurn(e)'
        <5>1. Waiting(e)' = Waiting(e) /\ R!Numbers(e)' = R!Numbers(e)
          BY <2>0, <4>1 DEF Waiting, R!Numbers
        <5>2. Relayed(e)' = Relayed(e)
          BY <2>0, <4>1, <5>1 DEF Relayed
        <5> QED BY <2>0, <4>1, <5>1, <5>2 DEF InTurn
      <4> QED BY <1>0, <2>0, <4>1, <4>2, <4>3 DEF Upward, Relays
    <3>2. CASE e # d
      BY <1>0, <1>a, <2>0, <2>4, <3>2 DEF Receive
    <3> QED BY <3>1, <3>2
  <2> QED BY <1>2, <2>1, <2>2, <2>3, <2>4 DEF DroneStep
<1>3. ASSUME NEW d \in Drones, HandlerStep(d) PROVE Upward(e)'
  <2>0. UNCHANGED <<sent, got>>
    BY <1>3 DEF HandlerStep, RecvId, IdMissing, Register, Refuse, RecvMessage, RecvEnds,
                LockBroadcast, SendNext, SendLost, SendKills, UnlockBroadcast, Unregister
  <2>1. CASE e # d /\ ~LockBroadcast(d)
    BY <1>0, <1>3, <1>a, <2>0, <2>1
       DEF HandlerStep, Goto, RecvId, IdMissing, Register, Refuse, RecvMessage, RecvEnds,
           SendNext, SendLost, SendKills, UnlockBroadcast, Unregister
  <2>2. CASE LockBroadcast(d)
    <3>1. /\ handler[d] = "lock" /\ handler' = [handler EXCEPT ![d] = "broadcast"]
          /\ nodes_mutex = Nobody /\ log' = Append(log, msg[d])
          /\ UNCHANGED <<up, msg, join>>
      BY <2>2 DEF LockBroadcast, Goto
    <3>2. Upward(d) /\ msg[d] \in Messages /\ Relays(d)
      BY <3>1 DEF IInv, Flow, Stage, Relays
    <3>3. Relayed(d) \in Nat /\ Relayed(d) <= Len(log) /\ msg[d] = Message(d, Relayed(d) + 1)
      BY <3>1, <3>2 DEF Upward, InTurn
    <3>4. msg[d].from = d /\ msg[d].number = Relayed(d) + 1
      BY <3>3 DEF Message
    <3>5. CASE e # d
      <4>1. R!Numbers(e)' = R!Numbers(e)
        BY <1>0, <3>1, <3>2, <3>4, <3>5, Numbered
      <4>2. handler[e] # "broadcast"
        BY <3>1 DEF IInv, MutexHeld
      <4>3. handler'[e] = handler[e]
        BY <1>0, <3>1, <3>5
      <4>4. Waiting(e)' = Waiting(e)
        BY <4>3 DEF Waiting
      <4>5. Relayed(e)' = Relayed(e)
        BY <2>0, <3>1, <4>4 DEF Relayed
      <4>6. Len(log) <= Len(log')
        BY <1>0, <3>1, <3>2
      <4>7. InTurn(e) => InTurn(e)'
        <5> SUFFICES ASSUME InTurn(e) PROVE InTurn(e)'
          OBVIOUS
        <5>1. Relayed(e)' \in Nat /\ Relayed(e)' <= Len(log')
          BY <1>0, <3>1, <3>2, <4>5, <4>6 DEF InTurn
        <5> QED BY <3>1, <4>1, <4>3, <4>4, <4>5, <5>1 DEF InTurn
      <4> QED BY <1>0, <2>0, <3>1, <4>2, <4>3, <4>7 DEF Upward, Relays
    <3>6. CASE e = d
      <4>1. R!Numbers(e)' = 1 .. Relayed(e) \cup {Relayed(e) + 1}
        BY <1>0, <3>1, <3>2, <3>4, <3>6, Numbered DEF Upward, InTurn
      <4>2. Waiting(e) = 1 /\ Waiting(e)' = 0 /\ Relayed(e)' = Relayed(e) + 1
        BY <1>0, <2>0, <3>1, <3>6 DEF Waiting, Relayed
      <4>3. R!Numbers(e)' = 1 .. Relayed(e)' /\ Relayed(e)' \in Nat /\ Relayed(e)' <= Len(log')
        <5>1. Len(log') = Len(log) + 1
          BY <1>0, <3>1, <3>2
        <5> QED BY <1>0, <3>3, <3>6, <4>1, <4>2, <5>1
      <4>4. \A k \in 1 .. Len(up'[e]) : up'[e][k] = Message(e, Relayed(e)' + Waiting(e)' + k)
        <5> SUFFICES ASSUME NEW k \in 1 .. Len(up[e])
                     PROVE  up[e][k] = Message(e, Relayed(e)' + Waiting(e)' + k)
          BY <3>1
        <5>1. up[e][k] = Message(e, Relayed(e) + Waiting(e) + k)
          BY <3>2, <3>6 DEF Upward, InTurn
        <5>2. Relayed(e)' + Waiting(e)' + k = Relayed(e) + Waiting(e) + k
          BY <1>0, <3>3, <3>6, <4>2
        <5> QED BY <5>1, <5>2
      <4>5. log' # <<>> /\ msg'[e] = log'[Len(log')]
        BY <1>0, <3>1, <3>2, <3>6
      <4>6. handler'[e] = "broadcast" /\ join'[e] # Outside
        BY <1>0, <3>1, <3>6 DEF Upward, Registered
      <4> QED BY <4>3, <4>4, <4>5, <4>6 DEF Upward, InTurn, Registered
    <3> QED BY <3>5, <3>6
  <2>3. CASE e = d /\ RecvMessage(d)
    <3>1. /\ handler[e] = "relay" /\ handler'[e] = "lock" /\ up[e] # <<>>
          /\ msg'[e] = Head(up[e]) /\ up'[e] = Tail(up[e]) /\ UNCHANGED <<join, log>>
      BY <1>0, <2>3 DEF RecvMessage, Goto
    <3>2. /\ Len(up'[e]) = Len(up[e]) - 1 /\ Len(up[e]) >= 1 /\ msg'[e] = up[e][1]
          /\ \A k \in 1 .. Len(up'[e]) : up'[e][k] = up[e][k + 1]
      BY <1>0, <3>1
    <3>3. Waiting(e) = 0 /\ Waiting(e)' = 1 /\ Relayed(e)' = Relayed(e)
      BY <1>0, <2>0, <3>1, <3>2 DEF Waiting, Relayed
    <3>4. /\ Relayed(e) \in Nat /\ Relayed(e) <= Len(log) /\ R!Numbers(e) = 1 .. Relayed(e)
          /\ \A k \in 1 .. Len(up[e]) : up[e][k] = Message(e, Relayed(e) + k)
      BY <1>0, <3>1, <3>3 DEF Upward, Relays, InTurn
    <3>5. msg'[e] = Message(e, Relayed(e) + 1)
      <4>1. 1 \in 1 .. Len(up[e])
        BY <1>0, <3>2
      <4> QED BY <3>2, <3>4, <4>1
    <3>6. \A k \in 1 .. Len(up'[e]) : up'[e][k] = Message(e, Relayed(e)' + Waiting(e)' + k)
      <4> SUFFICES ASSUME NEW k \in 1 .. Len(up'[e])
                   PROVE  up'[e][k] = Message(e, Relayed(e) + 1 + k)
        BY <3>3
      <4>1. k + 1 \in 1 .. Len(up[e]) /\ Relayed(e) + (k + 1) = Relayed(e) + 1 + k
        <5>1. Len(up[e]) \in Nat /\ Len(up'[e]) = Len(up[e]) - 1 /\ Relayed(e) \in Nat
          BY <1>0, <3>2, <3>4
        <5> QED BY <5>1
      <4> QED BY <3>2, <3>4, <4>1
    <3>7. R!Numbers(e)' = R!Numbers(e)
      BY <3>1 DEF R!Numbers
    <3> QED BY <1>0, <3>1, <3>3, <3>4, <3>5, <3>6, <3>7 DEF Upward, InTurn, Relays, Registered
  <2>4. CASE e = d /\ (RecvId(d) \/ IdMissing(d) \/ Refuse(d))
    BY <1>0, <1>b, <2>0, <2>4 DEF RecvId, IdMissing, Refuse, Goto, Upward, Relays, Registered
  <2>5. CASE e = d /\ Register(d)
    <3>1. /\ handler[e] = "register" /\ handler'[e] = "relay" /\ join'[e] = Len(log)
          /\ UNCHANGED <<up, msg, log>>
      BY <1>0, <2>5 DEF Register, Goto
    <3>2. join'[e] # Outside
      BY <1>0, <3>1 DEF Outside
    <3> QED BY <1>0, <1>b, <2>0, <3>1, <3>2 DEF Upward, Relays
  <2>6. CASE e = d /\ (RecvEnds(d) \/ Unregister(d))
    BY <1>0, <2>0, <2>6 DEF RecvEnds, Unregister, Goto, Upward, Relays, Registered
  <2>7. CASE SendNext(d) \/ SendLost(d) \/ SendKills(d)
    BY <1>a, <2>0, <2>7 DEF SendNext, SendLost, SendKills
  <2>8. CASE e = d /\ UnlockBroadcast(d)
    <3>1. handler[e] = "broadcast" /\ handler'[e] = "relay" /\ UNCHANGED <<up, join, log>>
      BY <1>0, <2>8 DEF UnlockBroadcast, Goto
    <3> QED BY <1>0, <1>b, <2>0, <3>1 DEF Upward, Relays, Registered
  <2> QED BY <1>3, <2>1, <2>2, <2>3, <2>4, <2>5, <2>6, <2>7, <2>8 DEF HandlerStep
<1> QED BY <1>1, <1>2, <1>3 DEF Next

\* Entry k of the table is that of e: it is the only one.
LEMMA Entry ==
  ASSUME IInv, NEW e \in Drones, handler[e] \in Registered
  PROVE  \E k \in 1 .. Len(nodes) : nodes[k] = e /\ \A j \in 1 .. Len(nodes) : nodes[j] = e => j = k
BY DEF IInv, NodesRegistered

\* What a drone gets is the log, without gaps, from where it registered.
LEMMA DownwardKept ==
  ASSUME IInv, Flow, [Next]_vars, NEW e \in Drones
  PROVE  Downward(e)'
<1> USE DEF center, table, cast, streams, drones
<1>0. /\ Downward(e) /\ Upward(e) /\ Stage(e)
      /\ main \in [Drones -> {"start", "waiting", "sending", "gone"}]
      /\ handler \in [Drones -> {"none", "id", "register", "refused", "closed"} \cup Registered]
      /\ down \in [Drones -> Seq(Items)] /\ down[e] \in Seq(Items) /\ Len(down[e]) \in Nat
      /\ got \in [Drones -> Seq(Messages)] /\ got[e] \in Seq(Messages) /\ Len(got[e]) \in Nat
      /\ join \in [Drones -> Nat \cup {Outside}]
      /\ (handler[e] \in Registered => join[e] \in Nat)
      /\ log \in Seq(Messages) /\ Len(log) \in Nat
      /\ Before(e) \in {0, 1} /\ Ahead(e) \in {0, 1}
  <2>1. Downward(e) /\ Upward(e) /\ Stage(e)
    BY DEF IInv, Flow
  <2>2. Before(e) \in {0, 1} /\ Ahead(e) \in {0, 1}
    BY DEF Before, Ahead
  <2>3. TypeOK
    BY DEF IInv
  <2>4. handler[e] \in Registered => join[e] \in Nat
    BY <2>1, <2>3 DEF TypeOK, Upward
  <2> QED BY <2>1, <2>2, <2>3, <2>4, SMTT(20) DEF TypeOK
<1>a. ASSUME UNCHANGED <<main[e], join[e], got[e], down[e], log>>, Ahead(e)' = Ahead(e),
             handler'[e] \in Registered => handler[e] \in Registered
      PROVE  Downward(e)'
  BY <1>0, <1>a DEF Downward, Gone, Before
<1>1. CASE UNCHANGED vars
  BY <1>1, <1>a DEF vars, Ahead
<1>2. ASSUME NEW d \in Drones, DroneStep(d) PROVE Downward(e)'
  <2>0. UNCHANGED <<log, join>> /\ Ahead(e)' = Ahead(e)
    BY <1>2 DEF DroneStep, Connect, TakeBase, NoBase, Send, SendKilled, Receive, ReceiveEnds, Leave, Ahead
  <2>1. CASE e # d
    <3>1. got'[e] = got[e]
      BY <1>0, <1>2, <2>1 DEF DroneStep, Connect, TakeBase, NoBase, Send, SendKilled, Receive, ReceiveEnds, Leave
    <3> QED BY <1>2, <1>a, <2>0, <2>1, <3>1, DroneApart DEF Registered
  <2>2. CASE e = d /\ Connect(d)
    BY <1>0, <2>2 DEF Connect, Accept, Downward, Registered
  <2>3. CASE e = d /\ (NoBase(d) \/ SendKilled(d) \/ Leave(d))
    BY <1>0, <2>3 DEF NoBase, SendKilled, Leave, Downward, Gone
  <2>4. CASE Send(d) \/ ReceiveEnds(d)
    BY <1>a, <2>0, <2>4 DEF Send, ReceiveEnds
  <2>5. CASE e = d /\ TakeBase(d)
    <3> SUFFICES ASSUME handler[e] \in Registered
                 PROVE  Downward(e)'
      BY <2>5 DEF Downward, TakeBase
    <3>1. main[e] = "waiting" /\ main'[e] = "sending" /\ UNCHANGED got
      BY <1>0, <2>5 DEF TakeBase
    <3>2. down[e] # <<>> /\ Head(down[e]).kind = "base"
      BY <1>0, <3>1 DEF Stage, Base
    <3>3. down'[e] = Tail(down[e])
      BY <1>0, <2>5, <3>2 DEF TakeBase
    <3>4. Before(e) = 1 /\ Before(e)' = 0 /\ ~Gone(e)
      BY <3>1 DEF Before, Gone
    <3>5. /\ Len(down'[e]) = Len(down[e]) - 1
          /\ \A k \in 1 .. Len(down'[e]) : k + 1 \in 1 .. Len(down[e]) /\ down'[e][k] = down[e][k + 1]
      BY <1>0, <3>2, <3>3
    <3>6. join[e] + Len(got[e]) + Len(down[e]) - 1 = Len(log) - Ahead(e)
      BY <1>0, <3>4 DEF Downward
    <3>7. \A k \in 1 .. Len(down'[e]) : down'[e][k] = log[join[e] + Len(got[e]) + k]
      <4> SUFFICES ASSUME NEW k \in 1 .. Len(down'[e])
                   PROVE  down'[e][k] = log[join[e] + Len(got[e]) + k]
        OBVIOUS
      <4>1. k + 1 \in 1 .. Len(down[e]) /\ k + 1 > Before(e) /\ down'[e][k] = down[e][k + 1]
        BY <1>0, <3>4, <3>5
      <4>2. down[e][k + 1] = log[join[e] + Len(got[e]) + (k + 1) - Before(e)]
        BY <1>0, <3>4, <4>1 DEF Downward
      <4>3. join[e] + Len(got[e]) + (k + 1) - Before(e) = join[e] + Len(got[e]) + k
        BY <1>0, <3>4
      <4> QED BY <4>1, <4>2, <4>3
    <3>8. join[e] + Len(got[e]) + Len(down'[e]) - Before(e)' = Len(log) - Ahead(e)
      BY <1>0, <3>4, <3>5, <3>6
    <3>9. \A k \in 1 .. Len(down'[e]) :
            join[e] + Len(got[e]) + k - Before(e)' = join[e] + Len(got[e]) + k
      BY <1>0, <3>4, <3>5
    <3> QED BY <2>0, <3>1, <3>7, <3>8, <3>9 DEF Downward
  <2>6. CASE e = d /\ Receive(d)
    <3>1. /\ receiver[e] /\ down[e] # <<>> /\ Head(down[e]).kind = "message"
          /\ got'[e] = Append(got[e], Head(down[e])) /\ down'[e] = Tail(down[e])
          /\ UNCHANGED <<main, handler>>
      BY <1>0, <2>6 DEF Receive
    <3>2. main[e] = "sending" /\ Before(e) = 0 /\ Before(e)' = 0 /\ ~Gone(e)
      BY <1>0, <3>1 DEF Stage, Before, Gone
    <3> SUFFICES ASSUME handler[e] \in Registered
                 PROVE  Downward(e)'
      BY <3>1 DEF Downward
    <3>3. /\ Len(down'[e]) = Len(down[e]) - 1
          /\ \A k \in 1 .. Len(down'[e]) : k + 1 \in 1 .. Len(down[e]) /\ down'[e][k] = down[e][k + 1]
      BY <1>0, <3>1
    <3>4. Len(got'[e]) = Len(got[e]) + 1
      <4>1. Head(down[e]) \in Items
        BY <1>0, <3>1, Taken
      <4>2. Head(down[e]) \in Messages
        BY <3>1, <4>1 DEF Items, Reject, Rest
      <4> QED BY <1>0, <3>1, <4>2, Appended
    <3>5. /\ join[e] + Len(got[e]) + Len(down[e]) = Len(log) - Ahead(e)
          /\ \A k \in 1 .. Len(down[e]) : down[e][k] = log[join[e] + Len(got[e]) + k]
      <4>1. \A k \in 1 .. Len(down[e]) : k > Before(e) /\ join[e] + Len(got[e]) + k - Before(e) = join[e] + Len(got[e]) + k
        BY <1>0, <3>2
      <4> QED BY <1>0, <3>2, <4>1 DEF Downward
    <3>6. join[e] + Len(got'[e]) + Len(down'[e]) - Before(e)' = Len(log) - Ahead(e)
      BY <1>0, <3>2, <3>3, <3>4, <3>5
    <3>7. \A k \in 1 .. Len(down'[e]) :
            /\ join[e] + Len(got'[e]) + k - Before(e)' = join[e] + Len(got[e]) + (k + 1)
            /\ down'[e][k] = log[join[e] + Len(got[e]) + (k + 1)]
      <4>1. \A k \in 1 .. Len(down'[e]) : down'[e][k] = log[join[e] + Len(got[e]) + (k + 1)]
        BY <3>3, <3>5
      <4>2. Len(down'[e]) \in Nat
        BY <1>0, <3>3, <3>1, Taken
      <4>3. \A k \in 1 .. Len(down'[e]) :
              join[e] + Len(got'[e]) + k - Before(e)' = join[e] + Len(got[e]) + (k + 1)
        BY <1>0, <3>2, <3>4, <4>2
      <4> QED BY <4>1, <4>3
    <3> QED BY <2>0, <3>6, <3>7 DEF Downward
  <2> QED BY <1>2, <2>1, <2>2, <2>3, <2>4, <2>5, <2>6 DEF DroneStep
<1>3. ASSUME NEW d \in Drones, HandlerStep(d) PROVE Downward(e)'
  <2>0. UNCHANGED <<main, got>>
    BY <1>3 DEF HandlerStep, RecvId, IdMissing, Register, Refuse, RecvMessage, RecvEnds,
                LockBroadcast, SendNext, SendLost, SendKills, UnlockBroadcast, Unregister
  <2>1. CASE RecvId(d) \/ IdMissing(d) \/ RecvMessage(d) \/ RecvEnds(d) \/ SendKills(d)
    BY <1>0, <1>a, <2>0, <2>1
       DEF RecvId, IdMissing, RecvMessage, RecvEnds, SendKills, Goto, Ahead, Registered
  <2>2. CASE Refuse(d)
    <3>1. CASE e = d
      BY <1>0, <2>2, <3>1 DEF Refuse, Goto, Downward, Registered
    <3>2. CASE e # d
      BY <1>0, <1>a, <2>0, <2>2, <3>2 DEF Refuse, Goto, Ahead
    <3> QED BY <3>1, <3>2
  <2>3. CASE Register(d)
    <3>1. /\ nodes_mutex = Nobody /\ UNCHANGED <<nodes_mutex, log>>
          /\ handler[d] = "register" /\ handler' = [handler EXCEPT ![d] = "relay"]
          /\ join' = [join EXCEPT ![d] = Len(log)]
          /\ down' = [down EXCEPT ![d] = IF Gone(d) THEN @ ELSE Append(@, Base(worldBaseTime'))]
      BY <2>3 DEF Register, Goto
    <3>2. Ahead(e) = 0 /\ Ahead(e)' = 0
      BY <3>1 DEF Ahead
    <3>3. CASE e # d
      BY <1>0, <1>a, <2>0, <3>1, <3>2, <3>3
    <3>4. CASE e = d
      <4>1. got[e] = <<>> /\ down[e] = <<>> /\ join'[e] = Len(log)
        BY <1>0, <3>1, <3>4 DEF Upward, Stage
      <4> SUFFICES ASSUME ~Gone(e)
                   PROVE  Downward(e)'
        BY <2>0 DEF Downward, Gone
      <4>2. down'[e] = <<Base(worldBaseTime')>> /\ Len(down'[e]) = 1
        BY <1>0, <3>1, <3>4, <4>1
      <4>3. main[e] = "waiting"
        BY <1>0, <3>1, <3>4 DEF Stage, Gone
      <4>4. Before(e)' = 1
        BY <2>0, <4>3 DEF Before
      <4> QED BY <1>0, <2>0, <3>1, <3>2, <4>1, <4>2, <4>4 DEF Downward
    <3> QED BY <3>3, <3>4
  <2>4. CASE LockBroadcast(d)
    <3>1. /\ nodes_mutex = Nobody /\ nodes_mutex' = d /\ i' = 1
          /\ handler[d] = "lock" /\ handler' = [handler EXCEPT ![d] = "broadcast"]
          /\ log' = Append(log, msg[d]) /\ UNCHANGED <<nodes, down, join>>
      BY <2>4 DEF LockBroadcast, Goto
    <3>2. handler'[e] \in Registered => handler[e] \in Registered
      BY <1>0, <3>1 DEF Registered
    <3> SUFFICES ASSUME handler[e] \in Registered, ~Gone(e)
                 PROVE  Downward(e)'
      BY <2>0, <3>2 DEF Downward, Gone
    <3>3. \E k \in 1 .. Len(nodes) : nodes[k] = e
      BY Entry
    <3>4. Ahead(e) = 0 /\ Ahead(e)' = 1
      BY <3>1, <3>3, CenterAssumption DEF Ahead
    <3>5. /\ Len(log') = Len(log) + 1 /\ \A k \in 1 .. Len(log) : log'[k] = log[k]
      <4>1. msg[d] \in Messages
        BY <3>1 DEF IInv, Stage
      <4> QED BY <1>0, <3>1, <4>1
    <3>6. Before(e)' = Before(e)
      BY <2>0 DEF Before
    <3>7. join[e] + Len(got[e]) + Len(down[e]) - Before(e) = Len(log)
      BY <1>0, <3>4 DEF Downward
    <3>8. \A k \in 1 .. Len(down[e]) : k > Before(e) =>
            join[e] + Len(got[e]) + k - Before(e) \in 1 .. Len(log)
      BY <1>0, <3>7, SMTT(20)
    <3>9. \A k \in 1 .. Len(down[e]) : k > Before(e) =>
            down[e][k] = log'[join[e] + Len(got[e]) + k - Before(e)]
      BY <1>0, <3>5, <3>8 DEF Downward
    <3>10. Len(log') - Ahead(e)' = Len(log)
      BY <1>0, <3>4, <3>5
    <3> QED BY <2>0, <3>1, <3>6, <3>7, <3>9, <3>10 DEF Downward
  <2>5. CASE SendNext(d) \/ SendLost(d)
    <3> DEFINE to == nodes[i]
    <3>1. /\ handler[d] = "broadcast" /\ i \in 1 .. Len(nodes) /\ i' = i + 1
          /\ UNCHANGED <<nodes, nodes_mutex, join, log, handler>>
          /\ nodes_mutex # Nobody
      <4>1. nodes_mutex = d
        BY <2>5 DEF IInv, MutexHeld, SendNext, SendLost
      <4> QED BY <2>5, <4>1, InTable DEF SendNext, SendLost
    <3>2. CASE e # to
      <4>1. Ahead(e)' = Ahead(e)
        <5>1. i + 1 \in Nat /\ Len(nodes) \in Nat /\ i \in Nat
          BY <3>1, InTable
        <5>2. \A k \in i .. Len(nodes) : nodes[k] = e => k \in i + 1 .. Len(nodes)
          BY <3>1, <3>2, <5>1
        <5>3. \A k \in i + 1 .. Len(nodes) : k \in i .. Len(nodes)
          BY <5>1
        <5> QED BY <3>1, <5>2, <5>3 DEF Ahead
      <4>2. down'[e] = down[e]
        BY <1>0, <2>5, <3>2 DEF SendNext, SendLost
      <4> QED BY <1>a, <2>0, <3>1, <4>1, <4>2
    <3>3. CASE e = to /\ SendLost(d)
      BY <2>0, <3>3 DEF SendLost, Downward, Gone
    <3>4. CASE e = to /\ SendNext(d)
      <4> SUFFICES ASSUME handler[e] \in Registered, ~Gone(e)
                   PROVE  Downward(e)'
        BY <2>0, <3>1 DEF Downward, Gone
      <4>1. i \in Nat /\ Len(nodes) \in Nat
        BY <3>1, InTable
      <4>2. \A k \in 1 .. Len(nodes) : nodes[k] = e => k = i
        BY <3>1, <3>4, Entry
      <4>3. Ahead(e) = 1 /\ Ahead(e)' = 0
        <5>1. i \in i .. Len(nodes)
          BY <3>1, <4>1
        <5>2. \A k \in i + 1 .. Len(nodes) : nodes[k] # e
          BY <3>1, <4>1, <4>2
        <5> QED BY <3>1, <3>4, <5>1, <5>2 DEF Ahead
      <4>4. Upward(d) /\ msg[d] = log[Len(log)] /\ msg[d] \in Items
        BY <3>1 DEF Flow, Upward, IInv, Stage, Items
      <4>5. down'[e] = Append(down[e], msg[d])
        BY <1>0, <3>4 DEF SendNext
      <4>6. /\ Len(down'[e]) = Len(down[e]) + 1
            /\ \A k \in 1 .. Len(down[e]) : down'[e][k] = down[e][k]
            /\ down'[e][Len(down[e]) + 1] = log[Len(log)]
        BY <1>0, <4>4, <4>5
      <4>7. Before(e)' = Before(e)
        BY <2>0 DEF Before
      <4>8. join[e] + Len(got[e]) + (Len(down[e]) + 1) - Before(e) = Len(log)
        BY <1>0, <4>3, SMTT(20) DEF Downward
      <4>9. ASSUME NEW k \in 1 .. Len(down'[e]), k > Before(e)
            PROVE  down'[e][k] = log[join[e] + Len(got[e]) + k - Before(e)]
        <5>1. CASE k \in 1 .. Len(down[e])
          BY <1>0, <4>6, <4>9, <5>1 DEF Downward
        <5>2. CASE k = Len(down[e]) + 1
          BY <4>6, <4>8, <5>2
        <5> QED BY <1>0, <4>6, <5>1, <5>2
      <4>10. Len(log) - Ahead(e)' = Len(log)
        BY <1>0, <4>3
      <4> QED BY <2>0, <3>1, <4>6, <4>7, <4>8, <4>9, <4>10 DEF Downward
    <3> QED BY <2>5, <3>2, <3>3, <3>4
  <2>6. CASE UnlockBroadcast(d)
    <3>1. i > Len(nodes) /\ nodes_mutex' = Nobody /\ UNCHANGED <<down, join, log>>
      BY <2>6 DEF UnlockBroadcast
    <3>2. i .. Len(nodes) = {}
      BY <3>1, InTable
    <3>3. Ahead(e) = 0 /\ Ahead(e)' = 0
      BY <3>1, <3>2 DEF Ahead
    <3>4. handler'[e] \in Registered => handler[e] \in Registered
      BY <1>0, <2>6 DEF UnlockBroadcast, Goto, Registered
    <3> QED BY <1>a, <2>0, <3>1, <3>3, <3>4
  <2>7. CASE Unregister(d)
    <3>1. nodes_mutex = Nobody /\ UNCHANGED <<nodes_mutex, down, join, log>>
      BY <2>7 DEF Unregister
    <3>2. Ahead(e) = 0 /\ Ahead(e)' = 0
      BY <3>1 DEF Ahead
    <3>3. handler'[e] \in Registered => handler[e] \in Registered
      BY <1>0, <2>7 DEF Unregister, Goto, Registered
    <3> QED BY <1>a, <2>0, <3>1, <3>2, <3>3
  <2> QED BY <1>3, <2>1, <2>2, <2>3, <2>4, <2>5, <2>6, <2>7 DEF HandlerStep
<1> QED BY <1>1, <1>2, <1>3 DEF Next

\* Each step is one of the abstract specification, or changes nothing there.
LEMMA Refines ==
  ASSUME IInv, Flow, [Next]_vars
  PROVE  [R!Next]_R!vars
<1> USE DEF center, table, cast, streams, drones, R!vars
<1>0. /\ \A d \in Drones : Upward(d) /\ Downward(d) /\ Stage(d)
      /\ got \in [Drones -> Seq(Messages)] /\ down \in [Drones -> Seq(Items)]
      /\ join \in [Drones -> Nat \cup {Outside}]
      /\ log \in Seq(Messages) /\ Len(log) \in Nat
      /\ handler \in [Drones -> {"none", "id", "register", "refused", "closed"} \cup Registered]
      /\ main \in [Drones -> {"start", "waiting", "sending", "gone"}]
      /\ Outside = R!Outside /\ Outside \notin Nat
  BY DEF IInv, TypeOK, Flow, Outside, R!Outside
<1>1. CASE UNCHANGED vars
  BY <1>1 DEF vars
<1>2. ASSUME NEW d \in Drones, DroneStep(d) PROVE [R!Next]_R!vars
  <2>1. CASE ~Receive(d)
    BY <1>2, <2>1 DEF DroneStep, Connect, TakeBase, NoBase, Send, SendKilled, ReceiveEnds, Leave
  <2>2. CASE Receive(d)
    <3>1. /\ receiver[d] /\ down[d] # <<>> /\ Head(down[d]).kind = "message"
          /\ got' = [got EXCEPT ![d] = Append(@, Head(down[d]))]
          /\ UNCHANGED <<log, join>>
      BY <2>2 DEF Receive
    <3>2. main[d] = "sending" /\ handler[d] \notin {"none", "id", "register", "refused", "leave", "closed"}
      BY <1>0, <3>1, SMTT(20) DEF Stage, Gone, Reject, Rest
    <3>3. handler[d] \in Registered /\ ~Gone(d) /\ Before(d) = 0
      BY <1>0, <3>2 DEF Gone, Before
    <3>4. join[d] \in Nat /\ Len(got[d]) \in Nat /\ Len(down[d]) \in Nat \ {0} /\ Head(down[d]) = down[d][1]
          /\ Ahead(d) \in {0, 1}
      BY <1>0, <3>1, <3>3, Taken DEF Upward, Ahead
    <3>5. join[d] + Len(got[d]) < Len(log)
      BY <1>0, <3>3, <3>4 DEF Downward
    <3>6. Head(down[d]) = log[join[d] + Len(got[d]) + 1]
      <4>1. 1 \in 1 .. Len(down[d]) /\ 1 > Before(d)
            /\ join[d] + Len(got[d]) + 1 - Before(d) = join[d] + Len(got[d]) + 1
        BY <3>3, <3>4
      <4>2. down[d][1] = log[join[d] + Len(got[d]) + 1 - Before(d)]
        BY <1>0, <3>3, <4>1 DEF Downward
      <4> QED BY <3>4, <4>1, <4>2
    <3>7. R!Deliver(d)
      BY <1>0, <3>1, <3>4, <3>5, <3>6 DEF R!Deliver
    <3> QED BY <3>7 DEF R!Next
  <2> QED BY <2>1, <2>2
<1>3. ASSUME NEW d \in Drones, HandlerStep(d) PROVE [R!Next]_R!vars
  <2>1. CASE ~Register(d) /\ ~LockBroadcast(d)
    BY <1>3, <2>1 DEF HandlerStep, RecvId, IdMissing, Refuse, RecvMessage, RecvEnds,
                      SendNext, SendLost, SendKills, UnlockBroadcast, Unregister
  <2>2. CASE Register(d)
    <3>1. join[d] = Outside /\ join' = [join EXCEPT ![d] = Len(log)] /\ UNCHANGED <<log, got>>
      BY <1>0, <2>2 DEF Register, Goto, Upward
    <3>2. R!Join(d)
      BY <1>0, <3>1 DEF R!Join
    <3> QED BY <3>2 DEF R!Next
  <2>3. CASE LockBroadcast(d)
    <3>1. /\ handler[d] = "lock" /\ log' = Append(log, msg[d]) /\ UNCHANGED <<join, got>>
      BY <2>3 DEF LockBroadcast, Goto
    <3>2. /\ join[d] # Outside /\ InTurn(d)
      BY <1>0, <3>1 DEF Upward, Relays, Registered
    <3> DEFINE n == Relayed(d) + 1
    <3>3. msg[d] = R!Message(d, n) /\ R!Numbers(d) = 1 .. Relayed(d)
      BY <3>1, <3>2 DEF InTurn, Message, R!Message
    <3>4. n \in 1 .. Len(log) + 1 /\ n - 1 = Relayed(d)
      BY <1>0, <3>2 DEF InTurn
    <3> HIDE DEF n
    <3>5. R!Numbers(d) = 1 .. n - 1 /\ log' = Append(log, R!Message(d, n))
      BY <3>1, <3>3, <3>4
    <3>6. join[d] # R!Outside
      BY <1>0, <3>2
    <3>7. R!RelayNext(d)
      BY <3>1, <3>4, <3>5, <3>6 DEF R!RelayNext
    <3> QED BY <3>7 DEF R!Next
  <2> QED BY <1>3, <2>1, <2>2, <2>3 DEF HandlerStep
<1> QED BY <1>1, <1>2, <1>3 DEF Next

\* The center is a total order broadcast (center_control.c:9-17): whatever
\* blocks, leaves or dies, a drone gets the messages of all in the order of
\* nodes_mutex, without a gap from where it registered, and each message of a
\* drone is relayed once and in its turn.
THEOREM Implements == Spec => RelaySpec
<1>1. Init => R!Init
  BY DEF Init, R!Init, Outside, R!Outside
<1>2. IInv /\ Flow /\ [Next]_vars => Flow'
  BY UpwardKept, DownwardKept DEF Flow
<1>3. IInv /\ Flow /\ [Next]_vars => [R!Next]_R!vars
  BY Refines
<1> QED BY <1>1, <1>2, <1>3, FlowInit, Invariant, PTL DEF Spec, RelaySpec, R!Spec
=============================================================================
