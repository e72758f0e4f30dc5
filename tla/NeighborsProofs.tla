-------------------------- MODULE NeighborsProofs --------------------------
(***************************************************************************)
(* Proofs about Neighbors, for any number of tables and any set of         *)
(* addresses.  OneTableEach is what makes findRangingTable exact: with one *)
(* table for each address the first one that matches is the only one.      *)
(***************************************************************************)
EXTENDS Neighbors, StructProofs

\* The places before the table heard last have their own index.
PlacesOwn ==
  \A k \in 1..findRangingTable(address, lastHeard) - 1 : queue[k] = k

\* The invariants of Neighbors together are inductive.
IInv == TypeOK /\ QueueValid /\ OneTableEach /\ PlacesOwn /\ RefusedForEver

-----------------------------------------------------------------------------
\* The initial state satisfies the inductive invariant.
LEMMA InitInv == Init => IInv
<1>1. findRangingTable(<<>>, NULL_ADDR) = 0
  BY DEF findRangingTable
<1>. QED
  BY <1>1, AddressAssumption, TableAssumption
  DEF Init, IInv, TypeOK, QueueValid, OneTableEach, PlacesOwn, RefusedForEver

\* So does the state a processed message leads to.
LEMMA HearInv ==
  ASSUME IInv, NEW a \in Addresses, Hear(a)
  PROVE  IInv'
<1>. DEFINE n == Len(address')
            i == findRangingTable(address', a)
<1>1. /\ TypeOK /\ QueueValid /\ OneTableEach /\ RefusedForEver
      /\ address \in Seq(Addresses) /\ Len(address) <= TABLE_SET_NEIGHBOR_NUM
      /\ queue \in Seq(1..Len(address)) /\ Len(queue) = Len(address)
      /\ refused \subseteq Addresses
  BY DEF IInv, TypeOK, QueueValid
<1>2. /\ address' = registerRangingTable(address, a)
      /\ queue' = updatePriority(queue, n, i)
      /\ i # 0 /\ lastHeard' = a /\ refused' = refused
  BY DEF Hear
<1>3. \/ /\ address' = address /\ i \in 1..Len(address) /\ address[i] = a
      \/ /\ address' = Append(address, a) /\ i = Len(address) + 1
         /\ Len(address) < TABLE_SET_NEIGHBOR_NUM
         /\ \A k \in 1..Len(address) : address[k] # a
  <2>1. Distinct(address)
    BY <1>1 DEF OneTableEach, Distinct
  <2>. QED  BY <1>1, <1>2, <2>1, Register, SMTT(30)
<1>4. /\ address' \in Seq(Addresses) /\ n <= TABLE_SET_NEIGHBOR_NUM
      /\ i \in 1..n /\ address'[i] = a
      /\ \A j, k \in 1..n : address'[j] = address'[k] => j = k
  <2>1. CASE address' = address /\ i \in 1..Len(address) /\ address[i] = a
    BY <1>1, <2>1 DEF OneTableEach
  <2>2. CASE /\ address' = Append(address, a) /\ i = Len(address) + 1
             /\ Len(address) < TABLE_SET_NEIGHBOR_NUM
             /\ \A k \in 1..Len(address) : address[k] # a
    <3>. HIDE DEF i
    <3>. QED  BY <1>1, <2>2, TableAssumption DEF OneTableEach
  <2>. QED  BY <1>3, <2>1, <2>2
<1>5. queue' \in Seq(1..n) /\ Len(queue') = n /\ queue'[n] = i
  <2>. HIDE DEF i
  <2>1. \/ Len(queue) = n
        \/ Len(queue) = n - 1 /\ i = n
    BY <1>1, <1>3
  <2>2. queue \in Seq(Nat) /\ \A k \in 1..Len(queue) : queue[k] \in 1..n
    BY <1>1, <1>3, SMTT(30)
  <2>3. n \in Nat
    BY <1>4
  <2>. HIDE DEF n
  <2>. QED  BY <1>2, <1>4, <2>1, <2>2, <2>3, Update, ZenonT(60)
<1>6. TypeOK' /\ QueueValid' /\ OneTableEach'
  <2>. HIDE DEF i
  <2>. QED  BY <1>1, <1>2, <1>4, <1>5, SMTT(30) DEF TypeOK, QueueValid, OneTableEach
<1>7. PlacesOwn'
  <2>1. \A k \in 1..i - 1 : k \in 1..n /\ queue'[k] = k
    <3>. HIDE DEF i, n
    <3>1. n \in Nat
      BY <1>4 DEF n
    <3>. QED  BY <1>2, <1>4, <3>1 DEF updatePriority
  <2>. QED  BY <1>2, <2>1 DEF PlacesOwn
<1>8. RefusedForEver'
  <2>1. refused # {} => address' = address
    BY <1>1, <1>3, TableAssumption DEF RefusedForEver
  <2>. QED  BY <1>1, <1>2, <2>1 DEF RefusedForEver, Registered
<1>. QED  BY <1>6, <1>7, <1>8 DEF IInv

\* And the one a refused message leaves.
LEMMA RefuseInv ==
  ASSUME IInv, NEW a \in Addresses, Refuse(a)
  PROVE  IInv'
<1>1. /\ UNCHANGED <<address, queue, lastHeard>> /\ refused' = refused \cup {a}
      /\ findRangingTable(registerRangingTable(address, a), a) = 0
  BY DEF Refuse
<1>2. /\ Len(address) = TABLE_SET_NEIGHBOR_NUM
      /\ \A i \in 1..Len(address) : address[i] # a
  <2>1. /\ address \in Seq(Addresses) /\ Len(address) <= TABLE_SET_NEIGHBOR_NUM
        /\ Distinct(address)
    BY DEF IInv, TypeOK, OneTableEach, Distinct
  <2>. QED  BY <1>1, <2>1, Register
<1>. QED
  BY <1>1, <1>2
  DEF IInv, TypeOK, QueueValid, OneTableEach, PlacesOwn, RefusedForEver, Registered

\* The index a neighbour before the one heard last is moved from is its own.
LEMMA MoveEarlier ==
  ASSUME IInv, NEW i \in 1..Len(address), Hear(address[i]),
         i < findRangingTable(address, lastHeard)
  PROVE  queue[i] = i /\ queue' = Append(Without(i), i)
<1>1. /\ address \in Seq(Addresses) /\ Len(address) <= TABLE_SET_NEIGHBOR_NUM
      /\ Distinct(address) /\ queue \in Seq(Nat) /\ Len(queue) = Len(address)
  BY DEF IInv, TypeOK, QueueValid, OneTableEach, Distinct
<1>2. findRangingTable(address, address[i]) = i
  BY <1>1, FindFound DEF Distinct
<1>3. /\ address' = address
      /\ queue' = updatePriority(queue, Len(queue), i)
  BY <1>1, <1>2 DEF Hear, registerRangingTable
<1>4. findRangingTable(address, lastHeard) \in 0..Len(address)
  <2>1. ASSUME NEW k \in 1..Len(address), address[k] = lastHeard
        PROVE  findRangingTable(address, lastHeard) = k
    BY <1>1, <2>1, FindFound DEF Distinct
  <2>2. CASE \A k \in 1..Len(address) : address[k] # lastHeard
    BY <1>1, <2>2, FindNone
  <2>. QED  BY <2>1, <2>2
<1>5. queue[i] = i /\ \A k \in 1..i - 1 : queue[k] = k
  BY <1>1, <1>4 DEF IInv, PlacesOwn
<1>6. PICK q, w : q = queue /\ w = Without(i)
  OBVIOUS
<1>7. q \in Seq(Nat) /\ Len(q) \in Nat /\ i \in 1..Len(q) /\ i \in Nat
  BY <1>1, <1>6
<1>8. /\ w \in Seq(Nat) /\ Len(w) = Len(q) - 1
      /\ \A k \in 1..Len(q) - 1 : w[k] = IF k < i THEN q[k] ELSE q[k + 1]
  <2>1. w = [k \in 1..Len(q) - 1 |-> IF k < i THEN q[k] ELSE q[k + 1]]
    BY <1>6 DEF Without
  <2>2. \A k \in 1..Len(q) - 1 : q[k] \in Nat /\ q[k + 1] \in Nat
    BY ONLY <1>7
  <2>. QED  BY ONLY <1>7, <2>1, <2>2
<1>9. /\ Append(w, i) \in Seq(Nat) /\ Len(Append(w, i)) = Len(q)
      /\ \A k \in 1..Len(q) - 1 : Append(w, i)[k] = w[k]
      /\ Append(w, i)[Len(q)] = i
  BY ONLY <1>7, <1>8
<1>10. Append(w, i) = [k \in 1..Len(q) |-> IF k < i THEN q[k] ELSE IF k < Len(q) THEN q[k + 1] ELSE i]
  <2>. PICK v : v = Append(w, i)
    OBVIOUS
  <2>1. v = [k \in 1..Len(q) |-> v[k]]
    <3>1. v \in Seq(Nat) /\ Len(v) = Len(q)
      BY <1>9
    <3>. QED  BY ONLY <3>1
  <2>2. ASSUME NEW k \in 1..Len(q)
        PROVE  v[k] = IF k < i THEN q[k] ELSE IF k < Len(q) THEN q[k + 1] ELSE i
    <3>1. CASE k = Len(q)
      BY <1>7, <1>9, <3>1
    <3>2. CASE k # Len(q)
      <4>1. k \in 1..Len(q) - 1 /\ k < Len(q)
        BY <1>7, <3>2
      <4>. QED  BY <1>8, <1>9, <4>1
    <3>. QED  BY <3>1, <3>2
  <2>. QED  BY <2>1, <2>2
<1>11. queue' = [k \in 1..Len(q) |-> IF k < i THEN k ELSE IF k < Len(q) THEN q[k + 1] ELSE i]
  BY <1>3, <1>6 DEF updatePriority
<1>. QED  BY <1>5, <1>6, <1>7, <1>10, <1>11

\* Every step keeps the inductive invariant.
LEMMA StepInv == IInv /\ [Next]_vars => IInv'
<1>. SUFFICES ASSUME IInv, [Next]_vars  PROVE IInv'
  OBVIOUS
<1>1. CASE Next
  BY <1>1, HearInv, RefuseInv DEF Next
<1>2. CASE UNCHANGED vars
  <2>1. TypeOK' /\ QueueValid' /\ OneTableEach' /\ RefusedForEver'
    BY <1>2 DEF vars, IInv, TypeOK, QueueValid, OneTableEach, RefusedForEver, Registered
  <2>2. PlacesOwn'
    BY <1>2 DEF vars, IInv, PlacesOwn
  <2>. QED  BY <2>1, <2>2 DEF IInv
<1>. QED  BY <1>1, <1>2

\* The neighbour table and the priority queue agree in every reachable state,
\* whatever addresses are heard in whatever order.
THEOREM Invariance == Spec => []IInv
  BY InitInv, StepInv, PTL DEF Spec

\* Tables and queue keep their types, and counter its bound.
THEOREM TypeCorrect == Spec => []TypeOK
<1>1. IInv => TypeOK
  BY DEF IInv
<1>. QED  BY <1>1, Invariance, PTL

\* generateRangingMessage reads only tables in use: QueueValid.
THEOREM Valid == Spec => []QueueValid
<1>1. IInv => QueueValid
  BY DEF IInv
<1>. QED  BY <1>1, Invariance, PTL

\* findRangingTable and the comparison in updatePriority find the same table:
\* no address has two.
THEOREM OneTable == Spec => []OneTableEach
<1>1. IInv => OneTableEach
  BY DEF IInv
<1>. QED  BY <1>1, Invariance, PTL

\* Of what the comment at updatePriority says, this much holds: a neighbour
\* registered before the one heard last moves to the tail, and no one is lost.
THEOREM EarlierMoves == Spec => EarlierMovesToTail
<1>1. IInv /\ [Next]_vars =>
        [\A i \in 1..Len(address) :
           Hear(address[i]) /\ i < findRangingTable(address, lastHeard)
             => queue[i] = i /\ queue' = Append(Without(i), i)]_vars
  BY MoveEarlier
<1>. QED  BY <1>1, Invariance, PTL DEF Spec, EarlierMovesToTail

\* The tables go to the first addresses heard; a full set never lets another in.
THEOREM Refused == Spec => []RefusedForEver
<1>1. IInv => RefusedForEver
  BY DEF IInv
<1>. QED  BY <1>1, Invariance, PTL
=============================================================================
