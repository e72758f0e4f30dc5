----------------------------- MODULE Neighbors -----------------------------
(***************************************************************************)
(* What the messages a drone processes do to its table of neighbours: the  *)
(* first part of processRangingMessage, which finds or registers the table *)
(* of the sender and moves the sender in the priority queue.  The queue    *)
(* decides for which neighbours generateRangingMessage makes body units.   *)
(***************************************************************************)
EXTENDS TableSet, FiniteSets

CONSTANTS
  Addresses,    \* the addresses of the other drones
  NULL_ADDR

ASSUME AddressAssumption == NULL_ADDR \notin Addresses

VARIABLES
  address,      \* table -> address of the neighbour
  queue,        \* neighborPriorityQueue
  lastHeard,    \* history: the sender of the last message not refused
  refused       \* history: the senders no table was left for

vars == <<address, queue, lastHeard, refused>>

Registered == {address[i] : i \in 1..Len(address)}

\* initRangingTableSet
Init ==
  /\ address = <<>>
  /\ queue = <<>>
  /\ lastHeard = NULL_ADDR
  /\ refused = {}

\* Mutant: every sender is registered while there is a table.
HearAsNew(a) ==
  LET registered == IF Len(address) < TABLE_SET_NEIGHBOR_NUM
                    THEN Append(address, a) ELSE address
      table      == IF registered = address THEN findRangingTable(address, a)
                    ELSE Len(registered)
  IN  /\ table # 0
      /\ address' = registered
      /\ queue' = updatePriority(queue, Len(registered), table)
      /\ lastHeard' = a
      /\ UNCHANGED refused

\* A message of a is processed; a has a table or gets one.
Hear(a) ==
  LET registered == registerRangingTable(address, a)
      table      == findRangingTable(registered, a)
  IN  /\ table # 0
      /\ address' = registered
      /\ queue' = updatePriority(queue, Len(registered), table)
      /\ lastHeard' = a
      /\ UNCHANGED refused

\* "Failed to register new neighbor": the message is not processed.
Refuse(a) ==
  /\ findRangingTable(registerRangingTable(address, a), a) = 0
  /\ refused' = refused \cup {a}
  /\ UNCHANGED <<address, queue, lastHeard>>

Next == \E a \in Addresses : Hear(a) \/ Refuse(a)

Spec == Init /\ [][Next]_vars
-----------------------------------------------------------------------------
(* Properties.                                                             *)

\* Every variable keeps its type.
TypeOK ==
  /\ address \in Seq(Addresses)
  /\ Len(address) <= TABLE_SET_NEIGHBOR_NUM
  /\ queue \in Seq(1..Len(address))
  /\ lastHeard \in Addresses \cup {NULL_ADDR}
  /\ refused \subseteq Addresses

\* The queue has an entry for each table, the index of a table in use: the body
\* units generateRangingMessage makes are those of registered neighbours, never
\* of neighborTable[255], the initial NULL_INDEX of an entry.
QueueValid ==
  /\ Len(queue) = Len(address)
  /\ \A k \in 1..Len(queue) : queue[k] \in 1..Len(address)

\* No neighbour has two tables: its messages all reach the same lists.
OneTableEach ==
  \A i, j \in 1..Len(address) : address[i] = address[j] => i = j

\* A neighbour is refused only when the tables are full, and then for ever.
RefusedForEver ==
  refused # {} => /\ Len(address) = TABLE_SET_NEIGHBOR_NUM
                  /\ refused \cap Registered = {}

\* The queue in which the index of table i has been moved to the tail.
Moved(i) ==
  LET others == SelectSeq(queue, LAMBDA j : j # i) IN Append(others, i)

\* updatePriority says "move the index of table to the tail of priority queue"
\* (modified_ranging.c:95).  It fails: the entry taken out is the one at place
\* i, whatever it is, so that another neighbour can be lost from the queue.
MovesToTail ==
  [][\A a \in Addresses :
       Hear(a) => queue' = Moved(findRangingTable(address', a))]_vars

\* The queue without the entry at place i.
Without(i) == [k \in 1..Len(queue) - 1 |-> IF k < i THEN queue[k] ELSE queue[k + 1]]

\* What is left of it: a neighbour registered before the one heard last is moved
\* to the tail, and the others keep their order.  The message before it has put
\* its table, of index i, back at place i, so that the entry taken out is its own.
\* Only a neighbour heard twice in a row, or after one registered before it, can
\* push another out of the queue.
EarlierMovesToTail ==
  [][\A i \in 1..Len(address) :
       Hear(address[i]) /\ i < findRangingTable(address, lastHeard)
         => queue[i] = i /\ queue' = Append(Without(i), i)]_vars
=============================================================================
