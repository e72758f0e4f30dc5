--------------------------- MODULE ControlCenter ---------------------------
(***************************************************************************)
(* The control center (center_control.c) and the connections of the drones *)
(* (drone.c).  The center runs one handler thread for each drone, all of   *)
(* which share the table of nodes under nodes_mutex; a drone has a main    *)
(* thread, which waits for the base time and then sends, and a receive     *)
(* thread.  A connection is two streams of whole messages; send blocks     *)
(* when SocketRoom messages are waiting on the stream.                     *)
(***************************************************************************)
EXTENDS Integers, Sequences

CONSTANTS
  Drones,
  Nobody,         \* holds the mutex when it is free
  MAX_NODES,
  SocketRoom,     \* messages a stream holds
  MaxMessages,    \* bound: drone -> messages it sends
  MaxLeaves       \* bound: drones that stop

ASSUME CenterAssumption ==
  /\ Nobody \notin Drones
  /\ MAX_NODES \in Nat \ {0} /\ SocketRoom \in Nat \ {0}
  /\ MaxMessages \in [Drones -> Nat] /\ MaxLeaves \in Nat

VARIABLES
  \* drones
  main,           \* drone -> what its main thread does
  receiver,       \* drone -> does its receive thread run
  baseTime,       \* drone -> localHost->baseTime
  sent,           \* drone -> messages sent
  got,            \* drone -> messages received
  leaves,         \* drones that have stopped
  \* streams
  up, down,       \* drone -> what is on its way to the center, and from it
  \* center
  handler,        \* drone -> what its handler thread does
  msg,            \* drone -> the message its handler has received
  i,              \* index of the loop of broadcast_to_nodes
  nodes,          \* the table; its length is node_count
  nodes_mutex,    \* the handler that holds it, or Nobody
  worldBaseTime,
  running,        \* the process of the center lives
  \* history
  log,            \* the messages broadcast, in the order of nodes_mutex
  join            \* drone -> length of the log when it registered, or Outside

drones  == <<main, receiver, baseTime, sent, got, leaves>>
streams == <<up, down>>
table   == <<nodes, worldBaseTime, join>>
cast    == <<i, nodes_mutex, log>>
center  == <<handler, msg, table, cast, running>>
vars    == <<drones, streams, center>>

Unset   == 0
Garbage == -1
Outside == -1

Message(d, n) == [kind |-> "message", from |-> d, number |-> n]
Base(t)       == [kind |-> "base", time |-> t]
Reject        == [kind |-> "reject"]
\* What is left of the reject message when its first bytes are read.
Rest          == [kind |-> "rest"]

Init ==
  /\ main = [d \in Drones |-> "start"]
  /\ receiver = [d \in Drones |-> FALSE]
  /\ baseTime = [d \in Drones |-> Unset]
  /\ sent = [d \in Drones |-> 0]
  /\ got = [d \in Drones |-> <<>>]
  /\ leaves = 0
  /\ up = [d \in Drones |-> <<>>]
  /\ down = [d \in Drones |-> <<>>]
  /\ handler = [d \in Drones |-> "none"]
  /\ msg = [d \in Drones |-> Nobody]
  /\ i = 1 /\ nodes = <<>> /\ nodes_mutex = Nobody
  /\ worldBaseTime = Unset /\ running = TRUE
  /\ log = <<>>
  /\ join = [d \in Drones |-> Outside]

\* The center has closed the connection, or has died with all its sockets.
Closed(d) == ~running \/ handler[d] \in {"refused", "closed"}

Gone(d) == main[d] = "gone"
-----------------------------------------------------------------------------
(* Drones.                                                                 *)

\* The center accepts the connection and starts a handler for it.
Accept(d) == running /\ handler' = [handler EXCEPT ![d] = "id"]

\* connect, after which the drone's id is on its way.
Connect(d) ==
  /\ main[d] = "start" /\ Accept(d)
  /\ main' = [main EXCEPT ![d] = "waiting"]
  /\ UNCHANGED <<receiver, baseTime, sent, got, leaves, streams, msg, table, cast, running>>

\* main takes the first bytes on the stream for the base time, whatever they
\* are, and starts the receive thread and the send loop.
TakeBase(d) ==
  /\ main[d] = "waiting" /\ down[d] # <<>>
  /\ \/ /\ Head(down[d]).kind = "base"
        /\ baseTime' = [baseTime EXCEPT ![d] = Head(down[d]).time]
        /\ down' = [down EXCEPT ![d] = Tail(@)]
     \/ /\ Head(down[d]).kind # "base"
        /\ baseTime' = [baseTime EXCEPT ![d] = Garbage]
        /\ down' = [down EXCEPT ![d] = <<Rest>> \o Tail(@)]
  /\ main' = [main EXCEPT ![d] = "sending"]
  /\ receiver' = [receiver EXCEPT ![d] = TRUE]
  /\ UNCHANGED <<sent, got, leaves, up, center>>

\* The connection was closed before a base time came: main returns.
NoBase(d) ==
  /\ main[d] = "waiting" /\ down[d] = <<>> /\ Closed(d)
  /\ main' = [main EXCEPT ![d] = "gone"]
  /\ UNCHANGED <<receiver, baseTime, sent, got, leaves, streams, center>>

\* send_to_center, which blocks while the stream is full.
Send(d) ==
  /\ main[d] = "sending" /\ sent[d] < MaxMessages[d]
  /\ Len(up[d]) < SocketRoom
  /\ sent' = [sent EXCEPT ![d] = @ + 1]
  /\ up' = [up EXCEPT ![d] = Append(@, Message(d, sent'[d]))]
  /\ UNCHANGED <<main, receiver, baseTime, got, leaves, down, center>>

\* send on a connection the center has closed: SIGPIPE, which no drone handles.
SendKilled(d) ==
  /\ main[d] = "sending" /\ Closed(d)
  /\ main' = [main EXCEPT ![d] = "gone"]
  /\ receiver' = [receiver EXCEPT ![d] = FALSE]
  /\ UNCHANGED <<baseTime, sent, got, leaves, streams, center>>

\* Mutant: the main thread receives, when it does not send.
ReceiveBySender(d) ==
  /\ receiver[d] /\ down[d] # <<>> /\ Head(down[d]).kind = "message"
  /\ sent[d] = MaxMessages[d] \/ Len(up[d]) < SocketRoom
  /\ got' = [got EXCEPT ![d] = Append(@, Head(down[d]))]
  /\ down' = [down EXCEPT ![d] = Tail(@)]
  /\ UNCHANGED <<main, receiver, baseTime, sent, leaves, up, center>>

\* receive_from_center: a message is received; what it does with it later does
\* not hold up the thread.
Receive(d) ==
  /\ receiver[d] /\ down[d] # <<>> /\ Head(down[d]).kind = "message"
  /\ got' = [got EXCEPT ![d] = Append(@, Head(down[d]))]
  /\ down' = [down EXCEPT ![d] = Tail(@)]
  /\ UNCHANGED <<main, receiver, baseTime, sent, leaves, up, center>>

\* The thread ends: at the end of the stream, or at a message that is neither
\* REJECT, as its text is not where it should be, nor of the right size.
ReceiveEnds(d) ==
  /\ receiver[d]
  /\ \/ down[d] = <<>> /\ Closed(d)
     \/ down[d] # <<>> /\ Head(down[d]).kind # "message"
  /\ receiver' = [receiver EXCEPT ![d] = FALSE]
  /\ UNCHANGED <<main, baseTime, sent, got, leaves, streams, center>>

\* The process of a drone is stopped; what it has not read is lost.
Leave(d) ==
  /\ main[d] \in {"waiting", "sending"} /\ leaves < MaxLeaves
  /\ main' = [main EXCEPT ![d] = "gone"]
  /\ receiver' = [receiver EXCEPT ![d] = FALSE]
  /\ down' = [down EXCEPT ![d] = <<>>]
  /\ leaves' = leaves + 1
  /\ UNCHANGED <<baseTime, sent, got, up, center>>

DroneStep(d) ==
  \/ Connect(d) \/ TakeBase(d) \/ NoBase(d)
  \/ Send(d) \/ SendKilled(d)
  \/ Receive(d) \/ ReceiveEnds(d)
  \/ Leave(d)
-----------------------------------------------------------------------------
(* The handler of a drone's connection in the center.                      *)

Goto(d, from, to) == handler[d] = from /\ handler' = [handler EXCEPT ![d] = to]

\* The id of the drone is received; it was sent with the connection.
RecvId(d) ==
  /\ running /\ Goto(d, "id", "register")
  /\ UNCHANGED <<drones, streams, msg, table, cast, running>>

\* The drone was reset before its id was read.
IdMissing(d) ==
  /\ running /\ Gone(d) /\ Goto(d, "id", "closed")
  /\ UNCHANGED <<drones, streams, msg, table, cast, running>>

\* Mutants: one drone too many; the base time is set for the second drone
\* too; only the drone it is set for gets it.
RegisterTooMany(d) ==
  /\ running /\ nodes_mutex = Nobody /\ Len(nodes) <= MAX_NODES
  /\ Goto(d, "register", "relay")
  /\ worldBaseTime' = IF nodes = <<>> THEN worldBaseTime + 1 ELSE worldBaseTime
  /\ nodes' = Append(nodes, d)
  /\ down' = [down EXCEPT ![d] = IF Gone(d) THEN @ ELSE Append(@, Base(worldBaseTime'))]
  /\ join' = [join EXCEPT ![d] = Len(log)]
  /\ UNCHANGED <<drones, up, msg, cast, running>>

RegisterResets(d) ==
  /\ running /\ nodes_mutex = Nobody /\ Len(nodes) < MAX_NODES
  /\ Goto(d, "register", "relay")
  /\ worldBaseTime' = IF Len(nodes) <= 1 THEN worldBaseTime + 1 ELSE worldBaseTime
  /\ nodes' = Append(nodes, d)
  /\ down' = [down EXCEPT ![d] = IF Gone(d) THEN @ ELSE Append(@, Base(worldBaseTime'))]
  /\ join' = [join EXCEPT ![d] = Len(log)]
  /\ UNCHANGED <<drones, up, msg, cast, running>>

RegisterSilently(d) ==
  /\ running /\ nodes_mutex = Nobody /\ Len(nodes) < MAX_NODES
  /\ Goto(d, "register", "relay")
  /\ worldBaseTime' = IF nodes = <<>> THEN worldBaseTime + 1 ELSE worldBaseTime
  /\ nodes' = Append(nodes, d)
  /\ down' = [down EXCEPT ![d] = IF nodes = <<>> THEN Append(@, Base(worldBaseTime')) ELSE @]
  /\ join' = [join EXCEPT ![d] = Len(log)]
  /\ UNCHANGED <<drones, up, msg, cast, running>>

\* With nodes_mutex: the drone enters the table, and the base time is the
\* first thing on its stream.  The stream is empty, so that nothing blocks.
Register(d) ==
  /\ running /\ nodes_mutex = Nobody /\ Len(nodes) < MAX_NODES
  /\ Goto(d, "register", "relay")
  /\ worldBaseTime' = IF nodes = <<>> THEN worldBaseTime + 1 ELSE worldBaseTime
  /\ nodes' = Append(nodes, d)
  /\ down' = [down EXCEPT ![d] = IF Gone(d) THEN @ ELSE Append(@, Base(worldBaseTime'))]
  /\ join' = [join EXCEPT ![d] = Len(log)]
  /\ UNCHANGED <<drones, up, msg, cast, running>>

\* With nodes_mutex: the table is full.
Refuse(d) ==
  /\ running /\ nodes_mutex = Nobody /\ Len(nodes) >= MAX_NODES
  /\ Goto(d, "register", "refused")
  /\ down' = [down EXCEPT ![d] = IF Gone(d) THEN @ ELSE Append(@, Reject)]
  /\ UNCHANGED <<drones, up, msg, table, cast, running>>

RecvMessage(d) ==
  /\ running /\ up[d] # <<>>
  /\ Goto(d, "relay", "lock")
  /\ msg' = [msg EXCEPT ![d] = Head(up[d])]
  /\ up' = [up EXCEPT ![d] = Tail(@)]
  /\ UNCHANGED <<drones, down, table, cast, running>>

\* The end of the stream, or a reset, which loses what is still on it.
RecvEnds(d) ==
  /\ running /\ Gone(d)
  /\ Goto(d, "relay", "leave")
  /\ up' = [up EXCEPT ![d] = <<>>]
  /\ UNCHANGED <<drones, down, msg, table, cast, running>>

\* Mutant: the mutex is not waited for.
LockUnlocked(d) ==
  /\ running
  /\ Goto(d, "lock", "broadcast")
  /\ nodes_mutex' = d /\ i' = 1
  /\ log' = Append(log, msg[d])
  /\ UNCHANGED <<drones, streams, msg, table, running>>

\* broadcast_to_nodes gets nodes_mutex.
LockBroadcast(d) ==
  /\ running /\ nodes_mutex = Nobody
  /\ Goto(d, "lock", "broadcast")
  /\ nodes_mutex' = d /\ i' = 1
  /\ log' = Append(log, msg[d])
  /\ UNCHANGED <<drones, streams, msg, table, running>>

\* send to nodes[i] blocks, with the mutex held, while its stream is full.
SendNext(d) ==
  /\ running /\ handler[d] = "broadcast" /\ i <= Len(nodes)
  /\ ~Gone(nodes[i]) /\ Len(down[nodes[i]]) < SocketRoom
  /\ down' = [down EXCEPT ![nodes[i]] = Append(@, msg[d])]
  /\ i' = i + 1
  /\ UNCHANGED <<drones, up, handler, msg, table, nodes_mutex, log, running>>

\* To a drone that has gone: the message is lost, with or without an error.
SendLost(d) ==
  /\ running /\ handler[d] = "broadcast" /\ i <= Len(nodes) /\ Gone(nodes[i])
  /\ i' = i + 1
  /\ UNCHANGED <<drones, streams, handler, msg, table, nodes_mutex, log, running>>

\* Once that connection is reset the next send is a SIGPIPE, which ends the
\* center with all its threads.
SendKills(d) ==
  /\ running /\ handler[d] = "broadcast" /\ i <= Len(nodes) /\ Gone(nodes[i])
  /\ running' = FALSE
  /\ UNCHANGED <<drones, streams, handler, msg, table, cast>>

UnlockBroadcast(d) ==
  /\ running /\ i > Len(nodes) /\ Goto(d, "broadcast", "relay")
  /\ nodes_mutex' = Nobody
  /\ msg' = [msg EXCEPT ![d] = Nobody]
  /\ UNCHANGED <<drones, streams, table, i, log, running>>

\* Mutant: nodes[k] = nodes[node_count], after node_count--
WithoutLast(k) == [j \in 1 .. Len(nodes) - 1 |-> nodes[IF j = k THEN Len(nodes) - 1 ELSE j]]

\* nodes[k] = nodes[node_count - 1]; node_count--
Without(k) == [j \in 1 .. Len(nodes) - 1 |-> nodes[IF j = k THEN Len(nodes) ELSE j]]

\* With nodes_mutex: the drone is taken out of the table, where it is once
\* (NodesRegistered).
Unregister(d) ==
  /\ running /\ nodes_mutex = Nobody
  /\ Goto(d, "leave", "closed")
  /\ \E k \in 1 .. Len(nodes) : nodes[k] = d /\ nodes' = Without(k)
  /\ UNCHANGED <<drones, streams, msg, worldBaseTime, join, cast, running>>

HandlerStep(d) ==
  \/ RecvId(d) \/ IdMissing(d) \/ Register(d) \/ Refuse(d)
  \/ RecvMessage(d) \/ RecvEnds(d)
  \/ LockBroadcast(d) \/ SendNext(d) \/ SendLost(d) \/ SendKills(d) \/ UnlockBroadcast(d)
  \/ Unregister(d)

Next == \E d \in Drones : DroneStep(d) \/ HandlerStep(d)

Spec == Init /\ [][Next]_vars

\* Every thread that can go on does.  Nothing makes a drone connect, send or
\* leave.  With MaxMessages the mutex is taken finitely often, so that weak
\* fairness is enough to get it.
FairSpec ==
  /\ Spec
  /\ \A d \in Drones :
       WF_vars(TakeBase(d)) /\ WF_vars(Receive(d)) /\ WF_vars(HandlerStep(d))
-----------------------------------------------------------------------------
(* Properties.                                                             *)

Registered == {"relay", "lock", "broadcast", "leave"}

Messages == [kind : {"message"}, from : Drones, number : Nat \ {0}]

Items == Messages \cup [kind : {"base"}, time : Nat] \cup {Reject, Rest}

\* The variables have their types, and the table (center_control.c:32) and
\* the streams their bounds.
TypeOK ==
  /\ main \in [Drones -> {"start", "waiting", "sending", "gone"}]
  /\ receiver \in [Drones -> BOOLEAN]
  /\ baseTime \in [Drones -> Nat \cup {Garbage}]
  /\ sent \in [Drones -> Nat]
  /\ got \in [Drones -> Seq(Messages)]
  /\ leaves \in Nat
  /\ up \in [Drones -> Seq(Messages)]
  /\ down \in [Drones -> Seq(Items)]
  /\ \A d \in Drones : Len(up[d]) <= SocketRoom /\ Len(down[d]) <= SocketRoom
  /\ handler \in [Drones -> {"none", "id", "register", "refused", "closed"} \cup Registered]
  /\ msg \in [Drones -> Messages \cup {Nobody}]
  /\ i \in 1 .. MAX_NODES + 1
  /\ nodes \in Seq(Drones) /\ Len(nodes) <= MAX_NODES
  /\ nodes_mutex \in Drones \cup {Nobody}
  /\ worldBaseTime \in Nat
  /\ running \in BOOLEAN
  /\ log \in Seq(Messages)
  /\ join \in [Drones -> Nat \cup {Outside}]

\* Whatever the order in which drones come and go (center_control.c:37-39 and
\* 71-80), the table has each drone once, and exactly those whose handler is
\* between its registration and its removal.
NodesRegistered ==
  /\ \A j, k \in 1 .. Len(nodes) : nodes[j] = nodes[k] => j = k
  /\ \A d \in Drones : handler[d] \in Registered <=> \E k \in 1 .. Len(nodes) : nodes[k] = d

\* local_host.h:10, "for a same world time": although worldBaseTime is set
\* anew whenever the table was empty (center_control.c:33-36), all drones in
\* the table that have a base time have the same, that of the center.
SameBase ==
  \A k \in 1 .. Len(nodes) :
    baseTime[nodes[k]] # Unset => baseTime[nodes[k]] = worldBaseTime

\* A drone that waits for its base time (drone.c:197) never finds the message
\* of another drone in its place, and only a refused drone takes something
\* else for it.
BaseFirst ==
  \A d \in Drones :
    /\ main[d] = "waiting" /\ down[d] # <<>> => Head(down[d]).kind # "message"
    /\ baseTime[d] = Garbage => handler[d] = "refused"

\* The handler in broadcast_to_nodes holds the mutex.
MutexHeld == \A d \in Drones : handler[d] = "broadcast" <=> nodes_mutex = d

\* What a drone and its handler know of each other.
Stage(d) ==
  /\ handler[d] = "none" <=> main[d] = "start"
  /\ handler[d] \in {"none", "id", "register"} =>
       down[d] = <<>> /\ baseTime[d] = Unset /\ main[d] # "sending"
  /\ handler[d] \in {"lock", "broadcast"} => msg[d] \in Messages
  /\ handler[d] \in Registered => baseTime[d] \in {Unset, worldBaseTime}
  /\ handler[d] \in Registered /\ main[d] = "waiting" =>
       down[d] # <<>> /\ Head(down[d]) = Base(worldBaseTime)
  /\ handler[d] = "refused" => down[d] \in {<<>>, <<Reject>>, <<Rest>>}
  /\ handler[d] \in {"leave", "closed"} => Gone(d)
  /\ receiver[d] => main[d] = "sending"

\* Inductive.
IInv ==
  /\ TypeOK
  /\ MutexHeld
  /\ NodesRegistered
  /\ \A d \in Drones : Stage(d)
  /\ \A d \in Drones : baseTime[d] = Garbage => handler[d] = "refused"

\* The center is a total order broadcast: the drones get the messages of all
\* in one order, that of nodes_mutex (center_control.c:9-17), each message
\* once, without a gap from where they registered, and each drone's in the
\* order it sent them.
R == INSTANCE Relay
RelaySpec == R!Spec

\* drone.c:60-63, "Connection rejected: Maximum drones reached": the receive
\* thread of a refused drone ends with exit, and its main thread with it.
RefusedDroneExits ==
  \A d \in Drones : handler[d] = "refused" /\ main[d] = "sending" => receiver[d]

Holds(s, m) == \E k \in 1 .. Len(s) : s[k] = m

\* A drone in the table has the message, or came after it was relayed.
HeardByAll(m) ==
  \A e \in Drones :
    \/ join[e] = Outside \/ Gone(e)
    \/ Holds(got[e], m) \/ Holds(SubSeq(log, 1, join[e]), m)

\* Although the center sends with nodes_mutex held and blocks on a drone that
\* does not read (center_control.c:12), the message of a registered drone
\* reaches every drone that is registered when it is relayed, unless the
\* sender, the receiver or the center ends.
EverySentIsHeard ==
  \A d \in Drones : \A n \in 1 .. MaxMessages[d] :
    sent[d] >= n /\ join[d] # Outside
      ~> Gone(d) \/ ~running \/ HeardByAll(Message(d, n))
=============================================================================
