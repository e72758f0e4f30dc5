------------------------------ MODULE TableSet ------------------------------
(***************************************************************************)
(* The table of neighbours of a drone and the order in which they are      *)
(* served (rangingTableSet in modified_ranging.c), as operators on         *)
(* addresses.  `address' is the sequence of the registered addresses (the  *)
(* code's counter is its length, index i of the code is i + 1 here) and    *)
(* `queue' is neighborPriorityQueue, restricted to its first counter       *)
(* entries: no function reads the others.                                  *)
(***************************************************************************)
EXTENDS Integers, Sequences

CONSTANTS
  TABLE_SET_NEIGHBOR_NUM,
  MESSAGE_BODY_UNIT_SIZE

ASSUME TableAssumption ==
  /\ TABLE_SET_NEIGHBOR_NUM \in Nat \ {0}
  /\ MESSAGE_BODY_UNIT_SIZE \in Nat \ {0}

\* Mutant: the last table is taken for an unknown address.
findOrLast(address, a) ==
  IF \E i \in 1..Len(address) : address[i] = a
  THEN CHOOSE i \in 1..Len(address) : address[i] = a
  ELSE Len(address)

\* findRangingTable: the table of the address, 0 for NULL_INDEX.
findRangingTable(address, a) ==
  IF \E i \in 1..Len(address) : address[i] = a
  THEN CHOOSE i \in 1..Len(address) :
         address[i] = a /\ \A j \in 1..i - 1 : address[j] # a
  ELSE 0

\* Mutant: no bound on the tables.
registerUnbounded(address, a) ==
  IF findRangingTable(address, a) # 0 THEN address ELSE Append(address, a)

\* Mutant: the last table is never used.
registerEarlyFull(address, a) ==
  IF findRangingTable(address, a) # 0 \/ Len(address) = TABLE_SET_NEIGHBOR_NUM - 1
  THEN address
  ELSE Append(address, a)

\* registerRangingTable: a new address gets the next table while there is one.
registerRangingTable(address, a) ==
  IF findRangingTable(address, a) # 0 \/ Len(address) = TABLE_SET_NEIGHBOR_NUM
  THEN address
  ELSE Append(address, a)

\* Mutant: a new table gets no place.
updateKnownOnly(queue, counter, i) ==
  [j \in 1..Len(queue) |->
     IF j < i THEN j ELSE IF j < counter THEN queue[j + 1] ELSE i]

\* Mutant: without the else branch, the places before i keep their entries.
updateKeepsPlaces(queue, counter, i) ==
  [j \in 1..counter |->
     IF j < i THEN queue[j] ELSE IF j < counter THEN queue[j + 1] ELSE i]

\* updatePriority(a), for the table i of a.  The places before i get their own
\* index.  The entry at place i is swapped to the last place, and there i is
\* written over it: place and index are taken for the same thing.
updatePriority(queue, counter, i) ==
  [j \in 1..counter |->
     IF j < i THEN j ELSE IF j < counter THEN queue[j + 1] ELSE i]

\* The tables generateRangingMessage makes body units of.
served(queue, counter) ==
  [k \in 1..(IF counter < MESSAGE_BODY_UNIT_SIZE THEN counter
             ELSE MESSAGE_BODY_UNIT_SIZE) |-> queue[k]]
=============================================================================
