--------------------------- MODULE RangingProofs ---------------------------
(***************************************************************************)
(* Proofs about ModifiedRanging, for any set of drones, any size of the    *)
(* lists, buffers, messages and queues, and any loss.                      *)
(*                                                                         *)
(* The inductive invariant says, of every place that holds a time (local   *)
(* send buffer, header, body unit, task, row, record), which message the   *)
(* time is of.  What needs the header to make up for the losses, that the  *)
(* records are of true communications, is stated under Short; what needs   *)
(* a sum of times of flight that is of one neighbour, under Single.        *)
(***************************************************************************)
EXTENDS ModifiedRanging, StructProofs

\* No more messages in a row are lost than the header makes up for.
Short == MaxConsecutiveLoss < MESSAGE_HEAD_TX_SIZE

\* A drone has at most one neighbour: there is one table, or two drones.
Single == \/ TABLE_SET_NEIGHBOR_NUM = 1
          \/ \A x, y, z \in Drones : x = y \/ y = z \/ x = z

\* The history variables and the messages between them.
Histories ==
  /\ \A d \in Drones :
       /\ Len(sentAt[d]) + Len(outgoing[d]) = localSendSeqNumber[d] - 1
       /\ \A s \in 1..Len(sentAt[d]) : sentAt[d][s] \in 1..clock[d]
  /\ \A l \in Links :
       /\ Len(heardAt[l]) + Len(link[l]) = Len(sentAt[l[1]])
       /\ \A s \in 1..Len(heardAt[l]) :
            /\ heardAt[l][s] \in 0..clock[l[2]]
            /\ \A r \in 1..s - 1 : heardAt[l][s] # 0 => heardAt[l][r] < heardAt[l][s]
            /\ \A r \in 1..Len(sentAt[l[2]]) : heardAt[l][s] # sentAt[l[2]][r]

\* What the local send buffer and the header say of message s of d.
TimeOf(d, s) == [seqNumber |-> s, timestamp |-> sentAt[d][s]]

\* The local send buffer has the last messages sent, from top back.
LocalBuffers == \A d \in Drones :
  LET buffer == localSendBuffer[d]
      n      == Len(sentAt[d])
  IN  /\ \A i \in Rows : \/ buffer.slot[i] = NoTime
                         \/ \E s \in 1..n : buffer.slot[i] = TimeOf(d, s)
      /\ \A k \in 1..RANGING_LIST_SIZE :
           buffer.slot[At(buffer.top, k)] = IF k <= n THEN TimeOf(d, n + 1 - k) ELSE NoTime

\* Message s arrived on link l.
Arrived(l, s) == s \in 1..Len(heardAt[l]) /\ heardAt[l][s] # NULL_TIMESTAMP

\* The header is of the messages before this one, the units of messages that
\* arrived from their neighbours.
HeaderTrue(m) == \A k \in 1..MESSAGE_HEAD_TX_SIZE :
  m.Tx[k] = IF k < m.msgSequence THEN TimeOf(m.srcAddress, m.msgSequence - k) ELSE NoTime

UnitTrue(unit, d) ==
  /\ unit.dest # d
  /\ \A j \in 1..MESSAGE_BODY_RX_SIZE : unit.Rx[j].seqNumber # NULL_SEQ =>
       /\ Arrived(<<unit.dest, d>>, unit.Rx[j].seqNumber)
       /\ unit.Rx[j].timestamp = heardAt[<<unit.dest, d>>][unit.Rx[j].seqNumber]

MessageTrue(m) ==
  /\ m.msgSequence \in 1..Len(sentAt[m.srcAddress]) + 1
  /\ HeaderTrue(m)
  /\ \A u \in 1..Len(m.bodyUnits) : UnitTrue(m.bodyUnits[u], m.srcAddress)

\* A task of d has the time its message arrived, after all those it reports on.
TaskTrue(task, d) ==
  LET m == task.message
      l == <<m.srcAddress, d>>
  IN  /\ m.srcAddress # d /\ MessageTrue(m)
      /\ Arrived(l, m.msgSequence) /\ task.RxTimestamp = heardAt[l][m.msgSequence]
      /\ \A u \in 1..Len(m.bodyUnits) : m.bodyUnits[u].dest = d =>
           \A j \in 1..MESSAGE_BODY_RX_SIZE :
             LET s == m.bodyUnits[u].Rx[j].seqNumber
             IN  s # NULL_SEQ => sentAt[d][s] < task.RxTimestamp

Messages ==
  /\ \A d \in Drones : \A j \in 1..Len(outgoing[d]) :
       LET m == outgoing[d][j]
       IN  MessageTrue(m) /\ m.srcAddress = d /\ m.msgSequence = Len(sentAt[d]) + 1
  /\ \A l \in Links : \A j \in 1..Len(link[l]) :
       LET m == link[l][j]
       IN  MessageTrue(m) /\ m.srcAddress = l[1] /\ m.msgSequence = Len(heardAt[l]) + j
  /\ \A d \in Drones : \A j \in 1..Len(inbox[d]) : TaskTrue(inbox[d][j], d)

\* The tables are of different neighbours and the queue is of tables.
TableSets == \A d \in Drones :
  LET set == tableSet[d]
  IN  /\ Distinct(set.address) /\ \A i \in 1..Len(set.address) : set.address[i] # d
      /\ Len(set.queue) = Len(set.address)
      /\ \A j \in 1..Len(set.queue) : set.queue[j] \in 1..Len(set.address)

\* Rows of the lists d has of e.  The Tx time of a row that is not done is that
\* of the message the slot held before.
SendRow(row, d, e) == row = NullRow \/ IsTrue(row, d, e)

ReceiveRow(row, d, e) ==
  \/ row = NullRow
  \/ /\ Arrived(<<e, d>>, row.localSeq) /\ row.rx = heardAt[<<e, d>>][row.localSeq]
     /\ row.remoteSeq \in {NULL_SEQ, row.localSeq}
     /\ row.remoteSeq # NULL_SEQ => row.tx = sentAt[e][row.localSeq]

\* The last message processed.
Newest(list) == list.row[list.top].localSeq

\* After k times of the header of the newest message: it has completed the rows
\* of the messages it follows by more than MESSAGE_HEAD_TX_SIZE - k.
Redundant(list, k) == \A i, j \in Rows :
  LET seq   == list.row[i].localSeq
      later == list.row[j].localSeq
  IN  /\ seq # NULL_SEQ /\ later \in seq + 1..seq + MESSAGE_HEAD_TX_SIZE
      /\ later = Newest(list) => seq < Newest(list) - MESSAGE_HEAD_TX_SIZE + k
      => list.row[i].remoteSeq = seq

\* And with it all rows before are complete.
Complete(list, k) == \A i \in Rows :
  LET seq == list.row[i].localSeq
  IN  \/ seq \in {NULL_SEQ, Newest(list)}
      \/ list.row[i].remoteSeq = seq
      \/ seq >= Newest(list) - MESSAGE_HEAD_TX_SIZE + k

ListsTrue(t, d, e, k) ==
  LET list == t.receiveList
  IN  /\ \A i \in Rows : SendRow(t.sendList.row[i], d, e) /\ ReceiveRow(list.row[i], d, e)
      /\ list.top \in Rows /\ Newest(list) # NULL_SEQ
      /\ \A i \in Rows : list.row[i].localSeq <= Newest(list)
      /\ \A i, j \in Rows : list.row[i].localSeq = list.row[j].localSeq
                            /\ list.row[i].localSeq # NULL_SEQ => i = j
      /\ Redundant(list, k)
      /\ Short => Complete(list, k)

\* The two directions agree, and hold communications that took place.
RecordTrue(record, h, d, e) ==
  /\ IsTrue(record.send, d, e) /\ IsTrue(record.receive, e, d)
  /\ record.sumTof.kind = "classic" => Follows(h, record)

BufferTrue(b, d, e) ==
  /\ BufferOK(b)
  /\ \/ b.send.length = b.receive.length
     \/ b.send.length >= MAX_INITIAL_CALCULATION /\ b.receive.length >= MAX_INITIAL_CALCULATION
  /\ Short => \A h \in {SENDER, RECEIVER} : \A k \in Held(b[h]) :
                RecordTrue(b[h].rec[k], h, d, e)

\* The sum has a term for each calculation of the initialization.
SumOf(sum, b, e) ==
  LET n == b.send.length
  IN  /\ Len(sum) = IF n < MAX_INITIAL_CALCULATION THEN n ELSE MAX_INITIAL_CALCULATION
      /\ \A k \in 1..Len(sum) : sum[k] = e

TablesTrue == \A d \in Drones : \A i \in 1..Len(tableSet[d].address) :
  LET t == tableSet[d].table[i]
      e == tableSet[d].address[i]
  IN  ListsTrue(t, d, e, MESSAGE_HEAD_TX_SIZE) /\ BufferTrue(t.validBuffer, d, e)

Sums == Single => \A d \in Drones :
  IF tableSet[d].address = <<>> THEN initTofSum[d] = <<>>
  ELSE SumOf(initTofSum[d], tableSet[d].table[1].validBuffer, tableSet[d].address[1])

\* The messages of a neighbour are processed in the order they were sent.
From(d, j) == inbox[d][j].message.srcAddress
Number(d, j) == inbox[d][j].message.msgSequence

InOrder == \A d \in Drones : \A j \in 1..Len(inbox[d]) :
  /\ \A i \in 1..j - 1 : From(d, i) = From(d, j) => Number(d, i) < Number(d, j)
  /\ \A i \in 1..Len(tableSet[d].address) : tableSet[d].address[i] = From(d, j) =>
       Newest(tableSet[d].table[i].receiveList) < Number(d, j)

\* When the first j tasks of d are processed, the last message processed of e is
\* not before s, if e has a table.
Reaches(d, e, j, s) ==
  \/ \E i \in 1..j : From(d, i) = e /\ Number(d, i) >= s
  \/ /\ \A i \in 1..j : From(d, i) # e
     /\ \A i \in 1..Len(tableSet[d].address) : tableSet[d].address[i] = e =>
          Newest(tableSet[d].table[i].receiveList) >= s

\* No message processed follows the one before by more than the header covers.
NoGap == Short =>
  /\ \A d \in Drones : \A j \in 1..Len(inbox[d]) :
       Reaches(d, From(d, j), j - 1, Number(d, j) - MESSAGE_HEAD_TX_SIZE)
  /\ \A l \in Links : Reaches(l[2], l[1], Len(inbox[l[2]]), Len(heardAt[l]) - lost[l])

IInv == /\ TypeOK /\ Histories /\ LocalBuffers /\ Messages /\ TableSets /\ TablesTrue
        /\ Sums /\ InOrder /\ NoGap
-----------------------------------------------------------------------------
(* The past does not change.                                               *)

\* A step adds to the histories, and leaves what they are.
Extends ==
  /\ \A d \in Drones : /\ Len(sentAt[d]) <= Len(sentAt'[d])
                       /\ \A s \in 1..Len(sentAt[d]) : sentAt'[d][s] = sentAt[d][s]
  /\ \A l \in Links : /\ Len(heardAt[l]) <= Len(heardAt'[l])
                      /\ \A s \in 1..Len(heardAt[l]) : heardAt'[l][s] = heardAt[l][s]

\* The histories are sequences of times.
LEMMA LengthsAre ==
  ASSUME TypeOK
  PROVE  /\ \A d \in Drones : sentAt[d] \in Seq(Nat) /\ Len(sentAt[d]) \in Nat
         /\ \A l \in Links : heardAt[l] \in Seq(Nat) /\ Len(heardAt[l]) \in Nat
  BY DEF TypeOK

\* ... also after a step.
LEMMA NewLengthsAre ==
  ASSUME TypeOK'
  PROVE  /\ \A d \in Drones : sentAt'[d] \in Seq(Nat) /\ Len(sentAt'[d]) \in Nat
         /\ \A l \in Links : heardAt'[l] \in Seq(Nat) /\ Len(heardAt'[l]) \in Nat
  BY DEF TypeOK

\* What arrived had been sent.
LEMMA HeardWereSent ==
  ASSUME TypeOK, Histories, NEW a \in Drones, NEW b \in Drones, a # b,
         NEW s \in 1..Len(heardAt[<<a, b>>])
  PROVE  s \in 1..Len(sentAt[a])
<1>1. <<a, b>> \in Links
  BY DEF Links
<1>2. Len(link[<<a, b>>]) \in Nat
  BY <1>1 DEF TypeOK
<1>3. Len(heardAt[<<a, b>>]) + Len(link[<<a, b>>]) = Len(sentAt[a])
  BY <1>1 DEF Histories
<1>4. Len(heardAt[<<a, b>>]) \in Nat /\ Len(sentAt[a]) \in Nat
  BY <1>1, LengthsAre
<1>. DEFINE x == Len(heardAt[<<a, b>>])
            y == Len(link[<<a, b>>])
            z == Len(sentAt[a])
<1>5. x \in Nat /\ y \in Nat /\ z \in Nat /\ x + y = z /\ s \in 1..x
  BY <1>2, <1>3, <1>4
<1>. HIDE DEF x, y, z
<1>6. s \in 1..z
  BY <1>5
<1>. QED  BY <1>6 DEF z

\* What is true of a message or of a communication stays true.
LEMMA StillArrived ==
  ASSUME TypeOK, TypeOK', Extends, NEW l \in Links, NEW s
  PROVE  Arrived(l, s) => Arrived(l, s)' /\ heardAt'[l][s] = heardAt[l][s]
  BY LengthsAre, NewLengthsAre DEF Arrived, Extends

\* The times of a body unit are numbers.
LEMMA MessageUnits ==
  ASSUME NEW m \in MessageType, NEW u \in 1..Len(m.bodyUnits)
  PROVE  /\ m.bodyUnits[u].dest \in Drones
         /\ \A j \in 1..MESSAGE_BODY_RX_SIZE : /\ m.bodyUnits[u].Rx[j].seqNumber \in Nat
                                              /\ m.bodyUnits[u].Rx[j].timestamp \in Nat
<1>. DEFINE X == [dest : Drones, Rx : [1..MESSAGE_BODY_RX_SIZE -> TimeType]]
<1>1. m.bodyUnits \in Seq(X)
  BY DEF MessageType
<1>2. m.bodyUnits[u] \in X
  <2>. HIDE DEF X
  <2>. QED  BY <1>1
<1>. QED  BY <1>2 DEF TimeType

\* A message that was true goes on to be.
LEMMA StillMessage ==
  ASSUME TypeOK, TypeOK', Extends, NEW m \in MessageType, MessageTrue(m)
  PROVE  MessageTrue(m)'
<1>. DEFINE src == m.srcAddress
            n == m.msgSequence
<1>1. /\ src \in Drones /\ n \in Nat /\ n \in 1..Len(sentAt[src]) + 1
      /\ m.bodyUnits \in Seq([dest : Drones, Rx : [1..MESSAGE_BODY_RX_SIZE -> TimeType]])
  BY DEF MessageType, MessageTrue
<1>2. Len(sentAt[src]) \in Nat /\ Len(sentAt'[src]) \in Nat /\ Len(sentAt[src]) <= Len(sentAt'[src])
  BY <1>1, LengthsAre, NewLengthsAre DEF Extends
<1>3. n \in 1..Len(sentAt'[src]) + 1
  BY <1>1, <1>2
<1>4. HeaderTrue(m)'
  <2>1. SUFFICES ASSUME NEW k \in 1..MESSAGE_HEAD_TX_SIZE
                 PROVE  m.Tx[k] = IF k < n THEN [seqNumber |-> n - k, timestamp |-> sentAt'[src][n - k]]
                                  ELSE NoTime
    BY DEF HeaderTrue, TimeOf
  <2>2. m.Tx[k] = IF k < n THEN [seqNumber |-> n - k, timestamp |-> sentAt[src][n - k]] ELSE NoTime
    BY DEF MessageTrue, HeaderTrue, TimeOf
  <2>3. k < n => n - k \in 1..Len(sentAt[src])
    BY <1>1, <1>2
  <2>. QED  BY <1>1, <2>2, <2>3 DEF Extends
<1>5. ASSUME NEW u \in 1..Len(m.bodyUnits)
      PROVE  UnitTrue(m.bodyUnits[u], src)'
  <2>. DEFINE unit == m.bodyUnits[u]
  <2>1. UnitTrue(unit, src)
    BY DEF MessageTrue
  <2>3. unit.dest \in Drones
    BY MessageUnits
  <2>2. <<unit.dest, src>> \in Links
    BY <1>1, <2>1, <2>3 DEF UnitTrue, Links
  <2>. QED  BY <2>1, <2>2, StillArrived DEF UnitTrue
<1>. QED  BY <1>3, <1>4, <1>5 DEF MessageTrue

\* So does a task,
LEMMA StillTask ==
  ASSUME TypeOK, TypeOK', Histories, Extends,
         NEW d \in Drones, NEW task \in TaskType, TaskTrue(task, d)
  PROVE  TaskTrue(task, d)'
<1>. DEFINE m == task.message
            l == <<m.srcAddress, d>>
<1>1. m \in MessageType /\ MessageTrue(m) /\ l \in Links
  BY DEF TaskType, MessageType, TaskTrue, Links
<1>2. MessageTrue(m)'
  BY <1>1, StillMessage
<1>3. Arrived(l, m.msgSequence)' /\ task.RxTimestamp = heardAt'[l][m.msgSequence]
  BY <1>1, StillArrived DEF TaskTrue
<1>4. ASSUME NEW u \in 1..Len(m.bodyUnits), m.bodyUnits[u].dest = d,
             NEW j \in 1..MESSAGE_BODY_RX_SIZE, m.bodyUnits[u].Rx[j].seqNumber # NULL_SEQ
      PROVE  sentAt'[d][m.bodyUnits[u].Rx[j].seqNumber] < task.RxTimestamp
  <2>. DEFINE s == m.bodyUnits[u].Rx[j].seqNumber
  <2>1. sentAt[d][s] < task.RxTimestamp
    BY <1>4 DEF TaskTrue
  <2>2. Arrived(<<d, m.srcAddress>>, s) /\ <<d, m.srcAddress>> \in Links
    BY <1>1, <1>4 DEF MessageTrue, UnitTrue, Links
  <2>3. s \in 1..Len(sentAt[d])
    BY <1>1, <2>2, HeardWereSent DEF Arrived, Links
  <2>. QED  BY <2>1, <2>3 DEF Extends
<1>. QED  BY <1>1, <1>2, <1>3, <1>4 DEF TaskTrue

\* And the rows and records stay true.
LEMMA StillRow ==
  ASSUME TypeOK, TypeOK', Histories, Extends, NEW a \in Drones, NEW b \in Drones, a # b,
         NEW row
  PROVE  /\ IsTrue(row, a, b) => IsTrue(row, a, b)'
         /\ SendRow(row, a, b) => SendRow(row, a, b)'
         /\ ReceiveRow(row, a, b) => ReceiveRow(row, a, b)'
<1>1. <<a, b>> \in Links /\ <<b, a>> \in Links
  BY DEF Links
<1>2. IsTrue(row, a, b) => IsTrue(row, a, b)'
  <2>1. SUFFICES ASSUME IsTrue(row, a, b)  PROVE IsTrue(row, a, b)'
    OBVIOUS
  <2>2. /\ row.localSeq \in 1..Len(heardAt[<<a, b>>]) /\ row.localSeq \in 1..Len(sentAt[a])
        /\ row.localSeq \in 1..Len(heardAt'[<<a, b>>])
    <3>1. row.localSeq \in 1..Len(heardAt[<<a, b>>])
      BY <2>1 DEF IsTrue
    <3>2. Len(heardAt[<<a, b>>]) <= Len(heardAt'[<<a, b>>])
      BY <1>1 DEF Extends
    <3>. QED  BY <1>1, <3>1, <3>2, HeardWereSent, LengthsAre, NewLengthsAre
  <2>. QED  BY <1>1, <2>1, <2>2 DEF IsTrue, Extends
<1>3. ReceiveRow(row, a, b) => ReceiveRow(row, a, b)'
  <2>1. SUFFICES ASSUME ReceiveRow(row, a, b), row # NullRow  PROVE ReceiveRow(row, a, b)'
    BY DEF ReceiveRow
  <2>2. /\ Arrived(<<b, a>>, row.localSeq) /\ Arrived(<<b, a>>, row.localSeq)'
        /\ heardAt'[<<b, a>>][row.localSeq] = heardAt[<<b, a>>][row.localSeq]
    BY <1>1, <2>1, StillArrived DEF ReceiveRow
  <2>3. row.localSeq \in 1..Len(sentAt[b])
    BY <1>1, <2>2, HeardWereSent DEF Arrived
  <2>. QED  BY <2>1, <2>2, <2>3 DEF ReceiveRow, Extends
<1>. QED  BY <1>2, <1>3 DEF SendRow

\* and so do the lists of a table
LEMMA StillLists ==
  ASSUME TypeOK, TypeOK', Histories, Extends, NEW d \in Drones, NEW e \in Drones, d # e,
         NEW t, NEW k, ListsTrue(t, d, e, k)
  PROVE  ListsTrue(t, d, e, k)'
<1>1. \A i \in Rows : SendRow(t.sendList.row[i], d, e)' /\ ReceiveRow(t.receiveList.row[i], d, e)'
  BY StillRow DEF ListsTrue
<1>. QED  BY <1>1 DEF ListsTrue, Redundant, Complete, Newest, Short

\* and its buffer.
LEMMA StillBuffer ==
  ASSUME TypeOK, TypeOK', Histories, Extends, NEW d \in Drones, NEW e \in Drones, d # e,
         NEW b, BufferTrue(b, d, e)
  PROVE  BufferTrue(b, d, e)'
<1>1. \A record : IsTrue(record.send, d, e) => IsTrue(record.send, d, e)'
  BY StillRow
<1>2. \A record : IsTrue(record.receive, e, d) => IsTrue(record.receive, e, d)'
  BY StillRow
<1>. QED  BY <1>1, <1>2 DEF BufferTrue, RecordTrue, Follows, Short

\* The tables keep what is true of them.
LEMMA StillTables ==
  ASSUME TypeOK, TypeOK', Histories, Extends, TableSets, TablesTrue, UNCHANGED tableSet
  PROVE  TableSets' /\ TablesTrue'
<1>1. TableSets'
  BY DEF TableSets
<1>2. SUFFICES ASSUME NEW d \in Drones, NEW i \in 1..Len(tableSet[d].address)
               PROVE  LET t == tableSet[d].table[i]
                          e == tableSet[d].address[i]
                      IN  ListsTrue(t, d, e, MESSAGE_HEAD_TX_SIZE)' /\ BufferTrue(t.validBuffer, d, e)'
  BY <1>1 DEF TablesTrue
<1>3. tableSet[d].address[i] \in Drones /\ tableSet[d].address[i] # d
  <2>1. tableSet[d].address \in Seq(Drones)
    BY DEF TypeOK
  <2>. QED  BY <2>1 DEF TableSets
<1>. QED  BY <1>3, StillLists, StillBuffer DEF TablesTrue
-----------------------------------------------------------------------------
(* Sending.                                                                *)

\* What the assumptions on the constants say of the sizes.
LEMMA Sizes ==
  /\ RANGING_LIST_SIZE \in Nat \ {0} /\ MESSAGE_HEAD_TX_SIZE \in 1..RANGING_LIST_SIZE
  /\ MESSAGE_HEAD_TX_SIZE \in Nat /\ MESSAGE_BODY_RX_SIZE \in 1..RANGING_LIST_SIZE
  /\ MAX_INITIAL_CALCULATION \in 1..RANGING_BUFFER_SIZE /\ RANGING_BUFFER_SIZE \in Nat
  BY StructAssumption, RangingAssumption

\* The slots the scans back from top read.
LEMMA AtRow ==
  ASSUME NEW top \in Rows, NEW k \in 1..RANGING_LIST_SIZE
  PROVE  At(top, k) \in Rows
         /\ At(top, k) = IF k <= top + 1 THEN top - k + 1 ELSE top - k + 1 + RANGING_LIST_SIZE
  BY AtSlot

\* headerTx gives the last messages sent, each with its time.
LEMMA HeaderIsTrue ==
  ASSUME TypeOK, LocalBuffers, NEW d \in Drones, NEW n \in Nat, n = Len(sentAt[d])
  PROVE  LET Tx == headerTx(localSendBuffer[d])
         IN  /\ Tx \in [1..MESSAGE_HEAD_TX_SIZE -> TimeType]
             /\ \A k \in 1..MESSAGE_HEAD_TX_SIZE : Tx[k] = IF k < n + 1 THEN TimeOf(d, n + 1 - k) ELSE NoTime
<1>. DEFINE buffer == localSendBuffer[d]
            Slot(k) == buffer.slot[At(buffer.top, k)]
<1>1. buffer.top \in Rows /\ \A i \in Rows : buffer.slot[i] \in TimeType
  BY DEF TypeOK
<1>2. \A k \in 1..RANGING_LIST_SIZE : Slot(k) = IF k <= n THEN TimeOf(d, n + 1 - k) ELSE NoTime
  BY DEF LocalBuffers
<1>3. \A k \in 1..MESSAGE_HEAD_TX_SIZE : k \in 1..RANGING_LIST_SIZE
  BY Sizes
<1>4. headerTx(buffer) = [k \in 1..MESSAGE_HEAD_TX_SIZE |->
                            IF \A j \in 1..k : Slot(j) # NoTime THEN Slot(k) ELSE NoTime]
  BY DEF headerTx, At
<1>5. \A k \in 1..MESSAGE_HEAD_TX_SIZE : Slot(k) \in TimeType
  BY <1>1, <1>3, AtRow
<1>. HIDE DEF Slot
<1>6. \A k \in 1..n : TimeOf(d, n + 1 - k) # NoTime
  <2>1. \A s \in 1..n : TimeOf(d, s) # NoTime
    BY DEF TimeOf, NoTime, NULL_SEQ
  <2>. QED  BY <2>1
<1>7. ASSUME NEW k \in 1..MESSAGE_HEAD_TX_SIZE
      PROVE  headerTx(buffer)[k] = IF k < n + 1 THEN TimeOf(d, n + 1 - k) ELSE NoTime
  <2>1. CASE k <= n
    <3>1. \A j \in 1..k : j \in 1..RANGING_LIST_SIZE /\ j \in 1..n /\ j <= n
      BY <1>3, <2>1, Sizes
    <3>2. \A j \in 1..k : Slot(j) # NoTime
      BY <1>2, <1>6, <3>1
    <3>. QED  BY <1>2, <1>3, <1>4, <2>1, <3>2
  <2>2. CASE ~(k <= n)
    <3>1. Slot(k) = NoTime
      BY <1>2, <1>3, <2>2
    <3>. QED  BY <1>4, <2>2, <3>1
  <2>. QED  BY <2>1, <2>2
<1>8. NoTime \in TimeType
  BY DEF NoTime, TimeType, NULL_SEQ, NULL_TIMESTAMP
<1>. QED  BY <1>4, <1>5, <1>7, <1>8

\* bodyUnit gives messages that arrived, each with its time.
LEMMA UnitIsTrue ==
  ASSUME TypeOK, NEW d \in Drones, NEW e \in Drones, d # e, NEW t \in TableType,
         ListsTrue(t, d, e, MESSAGE_HEAD_TX_SIZE)
  PROVE  LET unit == bodyUnit(t, e)
         IN  /\ unit \in [dest : Drones, Rx : [1..MESSAGE_BODY_RX_SIZE -> TimeType]]
             /\ UnitTrue(unit, d)
<1>. DEFINE list == t.receiveList
            unit == bodyUnit(t, e)
            Row(j) == list.row[At(list.top, j)]
<1>1. list \in ListType /\ list.top \in Rows
  BY DEF TableType, ListsTrue
<1>2. unit = [dest |-> e, Rx |-> [j \in 1..MESSAGE_BODY_RX_SIZE |->
                [seqNumber |-> Row(j).localSeq, timestamp |-> Row(j).rx]]]
  BY DEF bodyUnit, At
<1>3. ASSUME NEW j \in 1..MESSAGE_BODY_RX_SIZE
      PROVE  Row(j) \in RowType /\ ReceiveRow(Row(j), d, e)
  <2>1. At(list.top, j) \in Rows
    BY <1>1, AtRow, Sizes
  <2>. QED  BY <1>1, <2>1 DEF ListType, ListsTrue
<1>. HIDE DEF Row
<1>4. unit.dest = e /\ \A j \in 1..MESSAGE_BODY_RX_SIZE :
        unit.Rx[j].seqNumber = Row(j).localSeq /\ unit.Rx[j].timestamp = Row(j).rx
  BY <1>2
<1>5. unit \in [dest : Drones, Rx : [1..MESSAGE_BODY_RX_SIZE -> TimeType]]
  BY <1>2, <1>3 DEF TimeType, RowType
<1>6. UnitTrue(unit, d)
  <2>. HIDE DEF unit
  <2>. QED  BY <1>3, <1>4 DEF UnitTrue, ReceiveRow, NullRow
<1>. QED  BY <1>5, <1>6

\* generateRangingMessage makes a true message.
LEMMA MessageIsTrue ==
  ASSUME TypeOK, LocalBuffers, TableSets, TablesTrue, NEW d \in Drones,
         localSendSeqNumber[d] = Len(sentAt[d]) + 1
  PROVE  LET m == generateRangingMessage(d)
         IN  /\ m \in MessageType /\ MessageTrue(m)
             /\ m.srcAddress = d /\ m.msgSequence = Len(sentAt[d]) + 1
<1>. DEFINE set == tableSet[d]
            s == served(set.queue, Len(set.address))
            m == generateRangingMessage(d)
            Unit(k) == bodyUnit(set.table[s[k]], set.address[s[k]])
            X == [dest : Drones, Rx : [1..MESSAGE_BODY_RX_SIZE -> TimeType]]
            n == Len(sentAt[d])
            c == Len(set.address)
<1>1. m = [srcAddress |-> d, msgSequence |-> n + 1, Tx |-> headerTx(localSendBuffer[d]),
           bodyUnits |-> [k \in 1..Len(s) |-> Unit(k)]]
  BY DEF generateRangingMessage
<1>2. /\ set.address \in Seq(Drones) /\ set.table \in Seq(TableType) /\ set.queue \in Seq(Nat)
      /\ Len(set.table) = c /\ Len(set.queue) = c /\ c \in Nat /\ n \in Nat
  BY DEF TypeOK, TableSets
<1>3. Len(s) \in Nat /\ Len(s) <= c /\ \A k \in 1..Len(s) : s[k] = set.queue[k]
  <2>. DEFINE x == IF c < MESSAGE_BODY_UNIT_SIZE THEN c ELSE MESSAGE_BODY_UNIT_SIZE
  <2>1. x \in Nat /\ x <= c
    BY <1>2, TableAssumption
  <2>2. s = [k \in 1..x |-> set.queue[k]]
    BY DEF served
  <2>. HIDE DEF x, s
  <2>3. Len(s) = x
    BY <2>1, <2>2
  <2>. QED  BY <2>1, <2>2, <2>3
<1>4. ASSUME NEW k \in 1..Len(s)
      PROVE  Unit(k) \in X /\ UnitTrue(Unit(k), d)
  <2>. DEFINE x == s[k]
  <2>1. x \in 1..c
    BY <1>2, <1>3 DEF TableSets
  <2>. HIDE DEF x
  <2>2. set.table[x] \in TableType /\ set.address[x] \in Drones /\ set.address[x] # d
    BY <1>2, <2>1 DEF TableSets
  <2>3. ListsTrue(set.table[x], d, set.address[x], MESSAGE_HEAD_TX_SIZE)
    BY <2>1 DEF TablesTrue
  <2>. QED  BY <2>2, <2>3, UnitIsTrue DEF x
<1>5. /\ headerTx(localSendBuffer[d]) \in [1..MESSAGE_HEAD_TX_SIZE -> TimeType]
      /\ \A k \in 1..MESSAGE_HEAD_TX_SIZE :
           headerTx(localSendBuffer[d])[k] = IF k < n + 1 THEN TimeOf(d, n + 1 - k) ELSE NoTime
  BY <1>2, HeaderIsTrue
<1>6. /\ m.srcAddress = d /\ m.msgSequence = n + 1 /\ Len(m.bodyUnits) = Len(s)
      /\ \A k \in 1..Len(s) : m.bodyUnits[k] = Unit(k)
      /\ m.Tx = headerTx(localSendBuffer[d]) /\ m.bodyUnits \in Seq(X)
  <2>. HIDE DEF s, Unit, m, X
  <2>. QED  BY <1>1, <1>3, <1>4
<1>7. m \in MessageType
  <2>. DEFINE h == headerTx(localSendBuffer[d])
              u == [k \in 1..Len(s) |-> Unit(k)]
  <2>1. m = [srcAddress |-> d, msgSequence |-> n + 1, Tx |-> h, bodyUnits |-> u]
    BY <1>1
  <2>2. h \in [1..MESSAGE_HEAD_TX_SIZE -> TimeType] /\ n + 1 \in Nat
    BY <1>2, <1>5
  <2>. HIDE DEF s, Unit, m, n, h, u, X
  <2>3. u \in Seq(X)
    BY <1>6, <2>1
  <2>. QED  BY <2>1, <2>2, <2>3 DEF MessageType, X
<1>8. MessageTrue(m)
  <2>1. HeaderTrue(m)
    <3>. DEFINE h == headerTx(localSendBuffer[d])
    <3>1. m.Tx = h /\ m.srcAddress = d /\ m.msgSequence = n + 1 /\ n \in Nat
      BY <1>2, <1>6
    <3>2. \A k \in 1..MESSAGE_HEAD_TX_SIZE :
            h[k] = IF k < n + 1 THEN TimeOf(d, n + 1 - k) ELSE NoTime
      BY <1>2, <1>5
    <3>. HIDE DEF m, h, n
    <3>3. SUFFICES ASSUME NEW k \in 1..MESSAGE_HEAD_TX_SIZE
                   PROVE  m.Tx[k] = IF k < m.msgSequence
                                    THEN TimeOf(m.srcAddress, m.msgSequence - k) ELSE NoTime
      BY DEF HeaderTrue
    <3>. QED  BY <3>1, <3>2
  <2>2. \A u \in 1..Len(m.bodyUnits) : UnitTrue(m.bodyUnits[u], m.srcAddress)
    <3>. HIDE DEF m, Unit, s
    <3>. QED  BY <1>4, <1>6
  <2>. HIDE DEF m
  <2>. QED  BY <1>2, <1>6, <2>1, <2>2 DEF MessageTrue
<1>. QED  BY <1>6, <1>7, <1>8
-----------------------------------------------------------------------------
(* The steps that process nothing.                                         *)

\* The invariant holds at first.
LEMMA InitInv == Init => IInv
<1>. SUFFICES ASSUME Init  PROVE IInv
  OBVIOUS
<1>. USE DEF Init
<1>1. TypeOK
  <2>1. 0 \in Rows /\ NoTime \in TimeType
    BY RowsSize DEF NoTime, TimeType, NULL_SEQ, NULL_TIMESTAMP
  <2>2. \A X : <<>> \in Seq(X)
    OBVIOUS
  <2>3. /\ clock \in [Drones -> Nat] /\ localSendSeqNumber \in [Drones -> 1..MaxSeq + 1]
        /\ localSendBuffer \in [Drones -> [top : Rows, slot : [Rows -> TimeType]]]
        /\ lastD \in [Drones -> Drones \cup {NULL_ADDR}]
        /\ lost \in [Links -> 0..MaxConsecutiveLoss]
    BY <2>1, RangingAssumption DEF NULL_TIMESTAMP
  <2>4. /\ initTofSum \in [Drones -> Seq(Drones)] /\ outgoing \in [Drones -> Seq(MessageType)]
        /\ inbox \in [Drones -> Seq(TaskType)] /\ link \in [Links -> Seq(MessageType)]
        /\ sentAt \in [Drones -> Seq(Nat)] /\ heardAt \in [Links -> Seq(Nat)]
        /\ tableSet \in [Drones -> [address : Seq(Drones), queue : Seq(Nat), table : Seq(TableType)]]
    BY <2>2
  <2>. QED  BY <2>3, <2>4, RangingAssumption, TableAssumption DEF TypeOK
<1>2. Histories
  BY DEF Histories, Links
<1>3. LocalBuffers
  <2>1. \A k \in 1..RANGING_LIST_SIZE : At(0, k) \in Rows
    BY AtRow, RowsSize
  <2>. QED  BY <2>1 DEF LocalBuffers
<1>4. Messages /\ TableSets /\ TablesTrue /\ Sums /\ InOrder
  BY DEF Messages, TableSets, TablesTrue, Sums, InOrder, Distinct, Links
<1>5. NoGap
  BY DEF NoGap, Reaches, Links
<1>. QED  BY <1>1, <1>2, <1>3, <1>4, <1>5 DEF IInv

\* What a step does not touch.
LEMMA StillInbox ==
  ASSUME TypeOK, TypeOK', Histories, Extends, Messages, UNCHANGED inbox
  PROVE  \A d \in Drones : \A j \in 1..Len(inbox'[d]) : TaskTrue(inbox[d][j], d)'
<1>. SUFFICES ASSUME NEW d \in Drones, NEW j \in 1..Len(inbox[d])
              PROVE  TaskTrue(inbox[d][j], d)'
  OBVIOUS
<1>1. inbox[d][j] \in TaskType /\ TaskTrue(inbox[d][j], d)
  BY SMTT(30) DEF TypeOK, Messages
<1>. QED  BY <1>1, StillTask

\* A message on a link stays true,
LEMMA StillLink ==
  ASSUME TypeOK, TypeOK', Histories, Extends, Messages,
         NEW l \in Links, NEW j \in 1..Len(link[l]), NEW m, m = link[l][j]
  PROVE  m \in MessageType /\ MessageTrue(m)' /\ m.srcAddress = l[1]
         /\ m.msgSequence = Len(heardAt[l]) + j
<1>1. m \in MessageType /\ MessageTrue(m)
  BY SMTT(30) DEF TypeOK, Messages
<1>. QED  BY <1>1, StillMessage DEF Messages

\* and so does one made.
LEMMA StillOutgoing ==
  ASSUME TypeOK, TypeOK', Histories, Extends, Messages,
         NEW d \in Drones, NEW j \in 1..Len(outgoing[d]), NEW m, m = outgoing[d][j]
  PROVE  m \in MessageType /\ MessageTrue(m)' /\ m.srcAddress = d
         /\ m.msgSequence = Len(sentAt[d]) + 1
<1>1. m \in MessageType /\ MessageTrue(m)
  BY SMTT(30) DEF TypeOK, Messages
<1>. QED  BY <1>1, StillMessage DEF Messages

\* No gap opens where nothing is processed.
LEMMA StillNoGap ==
  ASSUME NoGap, inbox' = inbox, tableSet' = tableSet, heardAt' = heardAt, lost' = lost
  PROVE  NoGap'
<1>1. \A d, e, j, s : Reaches(d, e, j, s)' <=> Reaches(d, e, j, s)
  BY DEF Reaches, From, Number, Newest
<1>2. \A d, j : From(d, j)' = From(d, j) /\ Number(d, j)' = Number(d, j)
  BY DEF From, Number
<1>. QED  BY <1>1, <1>2 DEF NoGap, Short

\* QueueTaskTx
LEMMA GenerateInv ==
  ASSUME IInv, NEW d \in Drones, Generate(d)
  PROVE  IInv'
<1>. DEFINE m == generateRangingMessage(d)
<1>1. /\ TypeOK /\ Histories /\ LocalBuffers /\ Messages /\ TableSets /\ TablesTrue /\ Sums
      /\ InOrder /\ NoGap
  BY DEF IInv
<1>2. /\ outgoing[d] = <<>> /\ localSendSeqNumber[d] <= MaxSeq
      /\ outgoing' = [outgoing EXCEPT ![d] = <<m>>]
      /\ localSendSeqNumber' = [localSendSeqNumber EXCEPT ![d] = @ + 1]
      /\ UNCHANGED <<clock, localSendBuffer, tableSet, initTofSum, lastD, inbox, link, lost,
                     sentAt, heardAt>>
  BY DEF Generate, tables
<1>3. localSendSeqNumber[d] = Len(sentAt[d]) + 1
  <2>1. Len(sentAt[d]) \in Nat /\ localSendSeqNumber[d] \in 1..MaxSeq + 1
    BY <1>1 DEF TypeOK
  <2>2. Len(sentAt[d]) + Len(outgoing[d]) = localSendSeqNumber[d] - 1 /\ Len(outgoing[d]) = 0
    BY <1>1, <1>2 DEF Histories
  <2>. QED  BY <2>1, <2>2, RangingAssumption
<1>4. /\ m \in MessageType /\ MessageTrue(m)
      /\ m.srcAddress = d /\ m.msgSequence = Len(sentAt[d]) + 1
  BY <1>1, <1>3, MessageIsTrue
<1>. HIDE DEF m
<1>5. TypeOK'
  <2>1. outgoing' \in [Drones -> Seq(MessageType)] /\ \A x \in Drones : Len(outgoing'[x]) <= 1
    BY <1>1, <1>2, <1>4 DEF TypeOK
  <2>2. localSendSeqNumber' \in [Drones -> 1..MaxSeq + 1]
    BY <1>1, <1>2, RangingAssumption, SMTT(30) DEF TypeOK
  <2>. QED  BY <1>1, <1>2, <2>1, <2>2 DEF TypeOK
<1>6. Extends
  BY <1>1, <1>2, LengthsAre DEF Extends
<1>7. Histories'
  <2>1. ASSUME NEW x \in Drones
        PROVE  Len(sentAt'[x]) + Len(outgoing'[x]) = localSendSeqNumber'[x] - 1
    <3>1. CASE x = d
      BY <1>1, <1>2, <1>3, <3>1, LengthsAre DEF TypeOK
    <3>2. CASE x # d
      BY <1>1, <1>2, <3>2 DEF TypeOK, Histories
    <3>. QED  BY <3>1, <3>2
  <2>. QED  BY <1>1, <1>2, <2>1 DEF Histories
<1>8. LocalBuffers'
  BY <1>1, <1>2 DEF LocalBuffers, TimeOf
<1>9. Messages'
  <2>1. ASSUME NEW x \in Drones, NEW j \in 1..Len(outgoing'[x]), NEW n, n = outgoing'[x][j]
        PROVE  MessageTrue(n)' /\ n.srcAddress = x /\ n.msgSequence = Len(sentAt'[x]) + 1
    <3>1. CASE x = d
      <4>1. n = m
        BY <1>1, <1>2, <2>1, <3>1 DEF TypeOK
      <4>. QED  BY <1>1, <1>2, <1>4, <1>5, <1>6, <3>1, <4>1, StillMessage
    <3>2. CASE x # d
      <4>1. j \in 1..Len(outgoing[x]) /\ n = outgoing[x][j]
        BY <1>1, <1>2, <2>1, <3>2 DEF TypeOK
      <4>. QED  BY <1>1, <1>2, <1>5, <1>6, <4>1, StillOutgoing
    <3>. QED  BY <3>1, <3>2
  <2>2. ASSUME NEW l \in Links, NEW j \in 1..Len(link'[l]), NEW n, n = link'[l][j]
        PROVE  MessageTrue(n)' /\ n.srcAddress = l[1] /\ n.msgSequence = Len(heardAt'[l]) + j
    BY <1>1, <1>2, <1>5, <1>6, <2>2, StillLink
  <2>3. \A x \in Drones : \A j \in 1..Len(inbox'[x]) : TaskTrue(inbox[x][j], x)'
    BY <1>1, <1>2, <1>5, <1>6, StillInbox
  <2>. QED  BY <2>1, <2>2, <2>3 DEF Messages
<1>10. TableSets' /\ TablesTrue'
  BY <1>1, <1>2, <1>5, <1>6, StillTables
<1>11. Sums' /\ InOrder' /\ NoGap'
  <2>1. Sums'
    BY <1>1, <1>2 DEF Sums, Single, SumOf
  <2>2. InOrder'
    BY <1>1, <1>2 DEF InOrder, From, Number, Newest
  <2>3. NoGap'
    BY <1>1, <1>2, StillNoGap
  <2>. QED  BY <2>1, <2>2, <2>3
<1>. QED  BY <1>5, <1>7, <1>8, <1>9, <1>10, <1>11 DEF IInv

\* With the next slot as top, the slots are one step further back.
LEMMA AtNext ==
  ASSUME NEW top \in Rows, NEW next, next = (top + 1) % RANGING_LIST_SIZE
  PROVE  /\ next \in Rows /\ At(next, 1) = next
         /\ \A k \in 2..RANGING_LIST_SIZE : At(next, k) = At(top, k - 1) /\ At(next, k) # next
  BY AtAfter

\* A sequence of one element at most.
LEMMA SeqOne ==
  ASSUME NEW S, NEW q \in Seq(S), q # <<>>, Len(q) <= 1
  PROVE  Len(q) = 1 /\ q = <<q[1]>> /\ q[1] \in S
<1>1. Len(q) \in Nat /\ Len(q) # 0
  OBVIOUS
<1>2. Len(q) = 1
  BY <1>1
<1>. QED  BY <1>2

\* A link joins two drones.
LEMMA LinkEnds ==
  ASSUME NEW l \in Links
  PROVE  l = <<l[1], l[2]>> /\ l[1] \in Drones /\ l[2] \in Drones /\ l[1] # l[2]
  BY DEF Links

\* What was sent on a link was heard, was lost or is on it.
LEMMA LinkSums ==
  ASSUME TypeOK, Histories, NEW l \in Links
  PROVE  /\ Len(heardAt[l]) \in Nat /\ Len(link[l]) \in Nat /\ Len(sentAt[l[1]]) \in Nat
         /\ Len(heardAt[l]) + Len(link[l]) = Len(sentAt[l[1]])
<1>1. heardAt[l] \in Seq(Nat) /\ link[l] \in Seq(MessageType)
  BY DEF TypeOK
<1>2. sentAt[l[1]] \in Seq(Nat)
  BY LinkEnds DEF TypeOK
<1>3. Len(heardAt[l]) + Len(link[l]) = Len(sentAt[l[1]])
  BY DEF Histories
<1>4. Len(heardAt[l]) \in Nat /\ Len(link[l]) \in Nat
  BY <1>1
<1>5. Len(sentAt[l[1]]) \in Nat
  BY <1>2
<1>. QED  BY <1>3, <1>4, <1>5

\* send_to_center
LEMMA SendInv ==
  ASSUME IInv, NEW d \in Drones, Send(d)
  PROVE  IInv'
<1>. DEFINE n == Len(sentAt[d])
            t == clock[d] + 1
<1>. PICK m : m = outgoing[d][1]
  OBVIOUS
<1>1. /\ TypeOK /\ Histories /\ LocalBuffers /\ Messages /\ TableSets /\ TablesTrue /\ Sums
      /\ InOrder /\ NoGap
  BY DEF IInv
<1>2. clock[d] \in Nat /\ n \in Nat /\ outgoing[d] \in Seq(MessageType)
  BY <1>1 DEF TypeOK
<1>3. Len(outgoing[d]) = 1 /\ outgoing[d] = <<m>>
  <2>1. outgoing[d] # <<>> /\ Len(outgoing[d]) <= 1
    BY <1>1 DEF Send, TypeOK
  <2>. QED  BY <1>2, <2>1, SeqOne
<1>4. localSendSeqNumber[d] - 1 = n + 1
  BY <1>1, <1>2, <1>3 DEF Histories, TypeOK
<1>5. /\ clock' = [clock EXCEPT ![d] = t]
      /\ outgoing' = [outgoing EXCEPT ![d] = <<>>]
      /\ localSendBuffer' = [localSendBuffer EXCEPT ![d] = addLocalSendBuffer(@, n + 1, t)]
      /\ link' = [l \in Links |-> IF l[1] = d THEN link[l] \o outgoing[d] ELSE link[l]]
      /\ sentAt' = [sentAt EXCEPT ![d] = Append(@, t)]
      /\ UNCHANGED <<localSendSeqNumber, tableSet, initTofSum, lastD, inbox, lost, heardAt>>
  BY <1>1, <1>2, <1>4 DEF Send, tables, TypeOK
<1>6. m \in MessageType /\ MessageTrue(m) /\ m.srcAddress = d /\ m.msgSequence = n + 1
  <2>1. m \in MessageType /\ 1 \in 1..Len(outgoing[d])
    BY <1>2, <1>3
  <2>. QED  BY <1>1, <2>1 DEF Messages
<1>7. /\ sentAt[d] \in Seq(Nat) /\ sentAt'[d] = Append(sentAt[d], t) /\ Len(sentAt'[d]) = n + 1
      /\ sentAt'[d][n + 1] = t /\ \A s \in 1..n : sentAt'[d][s] = sentAt[d][s]
      /\ \A x \in Drones \ {d} : sentAt'[x] = sentAt[x]
  BY <1>1, <1>2, <1>5 DEF TypeOK
<1>8. \A l \in Links : /\ l[1] = d => /\ link'[l] = Append(link[l], m)
                                      /\ Len(link'[l]) = Len(link[l]) + 1
                       /\ l[1] # d => link'[l] = link[l]
                       /\ link'[l] \in Seq(MessageType)
  <2>1. ASSUME NEW l \in Links, l[1] = d
        PROVE  /\ link'[l] = Append(link[l], m) /\ Len(link'[l]) = Len(link[l]) + 1
               /\ link'[l] \in Seq(MessageType)
    <3>1. link[l] \in Seq(MessageType) /\ link'[l] = link[l] \o <<m>>
      BY <1>1, <1>3, <1>5, <2>1 DEF TypeOK
    <3>. QED  BY <1>6, <3>1
  <2>. QED  BY <1>1, <1>5, <2>1 DEF TypeOK
<1>9. LET buffer == localSendBuffer[d]
          next   == (buffer.top + 1) % RANGING_LIST_SIZE
      IN  /\ next \in Rows /\ buffer.top \in Rows
          /\ localSendBuffer'[d].top = next
          /\ localSendBuffer'[d].slot[next] = [seqNumber |-> n + 1, timestamp |-> t]
          /\ \A i \in Rows \ {next} : localSendBuffer'[d].slot[i] = buffer.slot[i]
          /\ localSendBuffer'[d] \in [top : Rows, slot : [Rows -> TimeType]]
          /\ \A x \in Drones \ {d} : localSendBuffer'[x] = localSendBuffer[x]
  <2>. DEFINE buffer == localSendBuffer[d]
              next   == (buffer.top + 1) % RANGING_LIST_SIZE
  <2>1. buffer \in [top : Rows, slot : [Rows -> TimeType]]
    BY <1>1 DEF TypeOK
  <2>2. next \in Rows
    BY <2>1, AtNext
  <2>. HIDE DEF next
  <2>3. [seqNumber |-> n + 1, timestamp |-> t] \in TimeType
    BY <1>2 DEF TimeType
  <2>4. localSendBuffer'[d] = [top |-> next, slot |-> [buffer.slot EXCEPT ![next] =
                                [seqNumber |-> n + 1, timestamp |-> t]]]
    BY <1>1, <1>5 DEF TypeOK, addLocalSendBuffer, next
  <2>5. \A x \in Drones \ {d} : localSendBuffer'[x] = localSendBuffer[x]
    BY <1>1, <1>5 DEF TypeOK
  <2>. HIDE DEF t, n
  <2>. QED  BY <2>1, <2>2, <2>3, <2>4, <2>5 DEF next
<1>10. TypeOK'
  <2>1. /\ clock' \in [Drones -> Nat] /\ outgoing' \in [Drones -> Seq(MessageType)]
        /\ sentAt' \in [Drones -> Seq(Nat)] /\ link' \in [Links -> Seq(MessageType)]
        /\ \A x \in Drones : Len(outgoing'[x]) <= 1
    <3>1. clock' \in [Drones -> Nat] /\ link' \in [Links -> Seq(MessageType)]
      BY <1>1, <1>2, <1>5, <1>8 DEF TypeOK
    <3>2. outgoing' \in [Drones -> Seq(MessageType)] /\ \A x \in Drones : Len(outgoing'[x]) <= 1
      BY <1>1, <1>5 DEF TypeOK
    <3>3. sentAt' \in [Drones -> Seq(Nat)]
      BY <1>1, <1>2, <1>5 DEF TypeOK
    <3>. QED  BY <3>1, <3>2, <3>3
  <2>2. localSendBuffer' \in [Drones -> [top : Rows, slot : [Rows -> TimeType]]]
    <3>1. ASSUME NEW x \in Drones
          PROVE  localSendBuffer'[x] \in [top : Rows, slot : [Rows -> TimeType]]
      BY <1>1, <1>9 DEF TypeOK
    <3>2. localSendBuffer' = [x \in Drones |-> localSendBuffer'[x]]
      BY <1>1, <1>5 DEF TypeOK
    <3>. QED  BY <3>1, <3>2
  <2>. QED  BY <1>1, <1>5, <2>1, <2>2 DEF TypeOK
<1>11. Extends
  BY <1>1, <1>2, <1>5, <1>7, LengthsAre DEF Extends
<1>12. Histories'
  <2>1. ASSUME NEW x \in Drones
        PROVE  /\ Len(sentAt'[x]) + Len(outgoing'[x]) = localSendSeqNumber'[x] - 1
               /\ \A s \in 1..Len(sentAt'[x]) : sentAt'[x][s] \in 1..clock'[x]
    <3>1. CASE x = d
      <4>1. Len(outgoing'[x]) = 0 /\ clock'[x] = t
        BY <1>1, <1>5, <3>1 DEF TypeOK
      <4>2. \A s \in 1..n : sentAt[d][s] \in 1..clock[d]
        BY <1>1 DEF Histories
      <4>3. localSendSeqNumber'[d] - 1 = n + 1 /\ Len(sentAt'[d]) = n + 1
        BY <1>4, <1>5, <1>7
      <4>4. \A s \in 1..n + 1 : sentAt'[d][s] \in 1..t
        <5>1. ASSUME NEW s \in 1..n + 1
              PROVE  sentAt'[d][s] \in 1..t
          <6>1. s \in 1..n \/ s = n + 1
            BY <1>2
          <6>2. s \in 1..n => sentAt'[d][s] \in 1..clock[d]
            BY <1>7, <4>2
          <6>3. sentAt'[d][n + 1] = t
            BY <1>7
          <6>. QED  BY <1>2, <6>1, <6>2, <6>3
        <5>. QED  BY <5>1
      <4>5. n + 1 + 0 = n + 1
        BY <1>2
      <4>. HIDE DEF n, t
      <4>. QED  BY <3>1, <4>1, <4>3, <4>4, <4>5
    <3>2. CASE x # d
      BY <1>1, <1>5, <3>2 DEF TypeOK, Histories
    <3>. QED  BY <3>1, <3>2
  <2>2. ASSUME NEW l \in Links
        PROVE  Len(heardAt'[l]) + Len(link'[l]) = Len(sentAt'[l[1]])
    <3>1. /\ Len(heardAt[l]) + Len(link[l]) = Len(sentAt[l[1]]) /\ l[1] \in Drones
          /\ Len(heardAt[l]) \in Nat /\ Len(link[l]) \in Nat /\ heardAt'[l] = heardAt[l]
      BY <1>1, <1>5, LinkSums, LinkEnds
    <3>2. CASE l[1] = d
      <4>. DEFINE x == Len(heardAt[l])
                  y == Len(link[l])
      <4>1. x + y = n /\ x \in Nat /\ y \in Nat /\ Len(sentAt'[l[1]]) = n + 1
            /\ Len(heardAt'[l]) = x /\ Len(link'[l]) = y + 1
        BY <1>7, <1>8, <3>1, <3>2
      <4>. HIDE DEF x, y, n
      <4>. QED  BY <1>2, <4>1
    <3>3. CASE l[1] # d
      BY <1>7, <1>8, <3>1, <3>3
    <3>. QED  BY <3>2, <3>3
  <2>3. ASSUME NEW l \in Links, NEW s \in 1..Len(heardAt[l])
        PROVE  /\ heardAt[l][s] \in 0..clock'[l[2]]
               /\ \A r \in 1..Len(sentAt'[l[2]]) : heardAt[l][s] # sentAt'[l[2]][r]
    <3>1. /\ heardAt[l][s] \in 0..clock[l[2]] /\ l[2] \in Drones
          /\ \A r \in 1..Len(sentAt[l[2]]) : heardAt[l][s] # sentAt[l[2]][r]
      BY <1>1 DEF Histories, Links
    <3>2. CASE l[2] = d
      <4>1. clock'[l[2]] = t
        BY <1>1, <1>5, <3>2 DEF TypeOK
      <4>2. heardAt[l][s] \in 0..t /\ heardAt[l][s] # t
        BY <1>2, <3>1, <3>2
      <4>3. ASSUME NEW r \in 1..n + 1
            PROVE  heardAt[l][s] # sentAt'[d][r]
        <5>1. r \in 1..n \/ r = n + 1
          BY <1>2
        <5>2. r \in 1..n => heardAt[l][s] # sentAt'[d][r]
          BY <1>7, <3>1, <3>2
        <5>. HIDE DEF n, t
        <5>. QED  BY <1>7, <4>2, <5>1, <5>2
      <4>. HIDE DEF n, t
      <4>. QED  BY <1>7, <3>2, <4>1, <4>2, <4>3
    <3>3. CASE l[2] # d
      BY <1>1, <1>5, <1>7, <3>1, <3>3 DEF TypeOK
    <3>. QED  BY <3>2, <3>3
  <2>4. heardAt' = heardAt
    BY <1>5
  <2>5. \A l \in Links : \A s \in 1..Len(heardAt[l]) : \A r \in 1..s - 1 :
          heardAt[l][s] # 0 => heardAt[l][r] < heardAt[l][s]
    BY <1>1 DEF Histories
  <2>. QED  BY <2>1, <2>2, <2>3, <2>4, <2>5 DEF Histories
<1>13. LocalBuffers'
  <2>. DEFINE buffer == localSendBuffer[d]
              next   == (buffer.top + 1) % RANGING_LIST_SIZE
              slot   == localSendBuffer'[d].slot
              New(s) == [seqNumber |-> s, timestamp |-> sentAt'[d][s]]
  <2>1. /\ next \in Rows /\ buffer.top \in Rows /\ localSendBuffer'[d].top = next
        /\ slot[next] = New(n + 1)
        /\ \A i \in Rows \ {next} : slot[i] = buffer.slot[i]
        /\ \A x \in Drones \ {d} : localSendBuffer'[x] = localSendBuffer[x]
    BY <1>7, <1>9
  <2>2. \A s \in 1..n : TimeOf(d, s) = New(s)
    BY <1>7 DEF TimeOf
  <2>3. ASSUME NEW i \in Rows
        PROVE  slot[i] = NoTime \/ \E s \in 1..n + 1 : slot[i] = New(s)
    <3>1. CASE i = next
      BY <1>2, <2>1, <3>1
    <3>2. CASE i # next
      <4>1. buffer.slot[i] = NoTime \/ \E s \in 1..n : buffer.slot[i] = TimeOf(d, s)
        BY <1>1 DEF LocalBuffers
      <4>2. \A s \in 1..n : s \in 1..n + 1
        BY <1>2
      <4>. HIDE DEF New
      <4>. QED  BY <2>1, <2>2, <3>2, <4>1, <4>2
    <3>. QED  BY <3>1, <3>2
  <2>4. ASSUME NEW k \in 1..RANGING_LIST_SIZE
        PROVE  slot[At(next, k)] = IF k <= n + 1 THEN New(n + 1 + 1 - k) ELSE NoTime
    <3>. HIDE DEF New, next, slot
    <3>1. CASE k = 1
      <4>1. At(next, 1) = next
        BY <2>1, AtNext DEF next
      <4>2. k <= n + 1 /\ n + 1 + 1 - k = n + 1
        BY <1>2, <3>1
      <4>. QED  BY <2>1, <3>1, <4>1, <4>2
    <3>2. CASE k # 1
      <4>1. k \in 2..RANGING_LIST_SIZE /\ k - 1 \in 1..RANGING_LIST_SIZE
        BY <3>2, RowsSize
      <4>2. At(next, k) = At(buffer.top, k - 1) /\ At(next, k) # next
            /\ At(buffer.top, k - 1) \in Rows
        BY <2>1, <4>1, AtNext, AtRow DEF next
      <4>3. slot[At(next, k)] = buffer.slot[At(buffer.top, k - 1)]
        BY <2>1, <4>2
      <4>4. buffer.slot[At(buffer.top, k - 1)]
              = IF k - 1 <= n THEN TimeOf(d, n + 1 - (k - 1)) ELSE NoTime
        BY <1>1, <4>1 DEF LocalBuffers
      <4>5. k - 1 <= n <=> k <= n + 1
        BY <1>2, <4>1
      <4>6. n + 1 - (k - 1) = n + 1 + 1 - k
        BY <1>2, <4>1
      <4>7. k <= n + 1 => n + 1 + 1 - k \in 1..n
        BY <1>2, <4>1
      <4>. QED  BY <2>2, <4>3, <4>4, <4>5, <4>6, <4>7
    <3>. QED  BY <3>1, <3>2
  <2>5. ASSUME NEW x \in Drones \ {d}
        PROVE  LET b == localSendBuffer'[x]
               IN  /\ \A i \in Rows :
                        \/ b.slot[i] = NoTime
                        \/ \E s \in 1..Len(sentAt'[x]) :
                             b.slot[i] = [seqNumber |-> s, timestamp |-> sentAt'[x][s]]
                   /\ \A k \in 1..RANGING_LIST_SIZE : b.slot[At(b.top, k)] =
                        IF k <= Len(sentAt'[x])
                        THEN [seqNumber |-> Len(sentAt'[x]) + 1 - k,
                              timestamp |-> sentAt'[x][Len(sentAt'[x]) + 1 - k]]
                        ELSE NoTime
    <3>1. sentAt'[x] = sentAt[x] /\ localSendBuffer'[x] = localSendBuffer[x]
      BY <1>7, <2>1
    <3>. QED  BY <1>1, <3>1 DEF LocalBuffers, TimeOf
  <2>6. SUFFICES ASSUME NEW x \in Drones
        PROVE  LET b == localSendBuffer'[x]
               IN  /\ \A i \in Rows :
                        \/ b.slot[i] = NoTime
                        \/ \E s \in 1..Len(sentAt'[x]) :
                             b.slot[i] = [seqNumber |-> s, timestamp |-> sentAt'[x][s]]
                   /\ \A k \in 1..RANGING_LIST_SIZE : b.slot[At(b.top, k)] =
                        IF k <= Len(sentAt'[x])
                        THEN [seqNumber |-> Len(sentAt'[x]) + 1 - k,
                              timestamp |-> sentAt'[x][Len(sentAt'[x]) + 1 - k]]
                        ELSE NoTime
    BY DEF LocalBuffers, TimeOf
  <2>7. CASE x = d
    <3>. HIDE DEF next
    <3>. QED  BY <1>2, <1>7, <2>1, <2>3, <2>4, <2>7, ZenonT(60)
  <2>. QED  BY <2>5, <2>7
<1>14. Messages'
  <2>1. ASSUME NEW x \in Drones, NEW j \in 1..Len(outgoing'[x]), NEW o, o = outgoing'[x][j]
        PROVE  MessageTrue(o)' /\ o.srcAddress = x /\ o.msgSequence = Len(sentAt'[x]) + 1
    <3>1. x # d /\ outgoing'[x] = outgoing[x]
      BY <1>1, <1>5 DEF TypeOK
    <3>2. o = outgoing[x][j] /\ j \in 1..Len(outgoing[x]) /\ sentAt'[x] = sentAt[x]
      BY <1>7, <2>1, <3>1
    <3>. QED  BY <1>1, <1>10, <1>11, <3>2, StillOutgoing
  <2>2. ASSUME NEW l \in Links, NEW j \in 1..Len(link'[l]), NEW o, o = link'[l][j]
        PROVE  MessageTrue(o)' /\ o.srcAddress = l[1] /\ o.msgSequence = Len(heardAt'[l]) + j
    <3>1. /\ link[l] \in Seq(MessageType) /\ Len(link[l]) \in Nat /\ Len(heardAt[l]) \in Nat
          /\ heardAt'[l] = heardAt[l] /\ Len(heardAt[l]) + Len(link[l]) = Len(sentAt[l[1]])
      BY <1>1, <1>5, LinkSums DEF TypeOK
    <3>2. CASE j \in 1..Len(link[l])
      <4>1. o = link[l][j]
        <5>1. CASE l[1] = d
          BY <1>6, <1>8, <2>2, <3>1, <3>2, <5>1
        <5>. QED  BY <1>8, <2>2, <5>1
      <4>. QED  BY <1>1, <1>10, <1>11, <3>1, <3>2, <4>1, StillLink
    <3>3. CASE j \notin 1..Len(link[l])
      <4>1. l[1] = d /\ j = Len(link[l]) + 1
        BY <1>8, <3>1, <3>3
      <4>2. o = m
        BY <1>6, <1>8, <2>2, <3>1, <4>1
      <4>3. MessageTrue(m)'
        <5>. QED  BY <1>1, <1>6, <1>10, <1>11, StillMessage
      <4>4. MessageTrue(o)' /\ o.srcAddress = l[1]
        <5>. QED  BY <1>6, <4>1, <4>2, <4>3
      <4>. DEFINE x == Len(heardAt[l])
                  y == Len(link[l])
      <4>5. /\ x + y = n /\ x \in Nat /\ y \in Nat /\ j = y + 1 /\ Len(heardAt'[l]) = x
            /\ o.msgSequence = n + 1
        BY <1>6, <3>1, <4>1, <4>2
      <4>6. o.msgSequence = Len(heardAt'[l]) + j
        <5>. HIDE DEF x, y, n
        <5>. QED  BY <1>2, <4>5
      <4>. QED  BY <4>4, <4>6
    <3>. QED  BY <3>2, <3>3
  <2>3. \A x \in Drones : \A j \in 1..Len(inbox'[x]) : TaskTrue(inbox[x][j], x)'
    BY <1>1, <1>5, <1>10, <1>11, StillInbox
  <2>. QED  BY <2>1, <2>2, <2>3 DEF Messages
<1>15. TableSets' /\ TablesTrue'
  BY <1>1, <1>5, <1>10, <1>11, StillTables
<1>16. Sums' /\ InOrder' /\ NoGap'
  <2>1. Sums'
    BY <1>1, <1>5 DEF Sums, Single, SumOf
  <2>2. InOrder'
    BY <1>1, <1>5 DEF InOrder, From, Number, Newest
  <2>3. NoGap'
    BY <1>1, <1>5, StillNoGap
  <2>. QED  BY <2>1, <2>2, <2>3
<1>. QED  BY <1>10, <1>12, <1>13, <1>14, <1>15, <1>16 DEF IInv
-----------------------------------------------------------------------------
(* Receiving and losing.                                                   *)

\* A message has left link l; v is when it arrived, or 0 when it was lost.
Taken(l, v) ==
  /\ link[l] # <<>>
  /\ link' = [link EXCEPT ![l] = Tail(@)]
  /\ heardAt' = [heardAt EXCEPT ![l] = Append(@, v)]
  /\ UNCHANGED <<localSendSeqNumber, localSendBuffer, tableSet, initTofSum, lastD,
                 outgoing, sentAt>>
  /\ \A d \in Drones : clock'[d] \in Nat /\ clock[d] <= clock'[d]
  /\ v \in Nat /\ v <= clock'[l[2]] /\ (v # 0 => clock[l[2]] < v)

\* A link without its head.
LEMMA TakenLinks ==
  ASSUME TypeOK, Histories, NEW l \in Links, NEW v, Taken(l, v)
  PROVE  LET n == Len(heardAt[l])
         IN  /\ n \in Nat /\ heardAt[l] \in Seq(Nat)
             /\ Len(heardAt'[l]) = n + 1 /\ heardAt'[l][n + 1] = v
             /\ \A s \in 1..n : heardAt'[l][s] = heardAt[l][s]
             /\ Len(link'[l]) + 1 = Len(link[l]) /\ Len(link'[l]) \in Nat
             /\ \A j \in 1..Len(link'[l]) :
                  j + 1 \in 1..Len(link[l]) /\ link'[l][j] = link[l][j + 1]
             /\ \A k \in Links \ {l} : heardAt'[k] = heardAt[k] /\ link'[k] = link[k]
             /\ heardAt' \in [Links -> Seq(Nat)] /\ link' \in [Links -> Seq(MessageType)]
<1>. DEFINE n == Len(heardAt[l])
            q == link[l]
<1>1. /\ heardAt \in [Links -> Seq(Nat)] /\ link \in [Links -> Seq(MessageType)]
      /\ link' = [link EXCEPT ![l] = Tail(@)] /\ heardAt' = [heardAt EXCEPT ![l] = Append(@, v)]
      /\ q # <<>> /\ v \in Nat
  BY DEF TypeOK, Taken
<1>2. n \in Nat /\ heardAt[l] \in Seq(Nat) /\ q \in Seq(MessageType)
  BY <1>1
<1>3. heardAt'[l] = Append(heardAt[l], v) /\ link'[l] = Tail(q)
  BY <1>1
<1>4. /\ Len(heardAt'[l]) = n + 1 /\ heardAt'[l][n + 1] = v
      /\ \A s \in 1..n : heardAt'[l][s] = heardAt[l][s]
      /\ heardAt'[l] \in Seq(Nat)
  BY <1>1, <1>2, <1>3
<1>5. /\ Len(Tail(q)) + 1 = Len(q) /\ Len(Tail(q)) \in Nat /\ Tail(q) \in Seq(MessageType)
      /\ \A j \in 1..Len(Tail(q)) : j + 1 \in 1..Len(q) /\ Tail(q)[j] = q[j + 1]
  <2>. HIDE DEF q
  <2>. QED  BY <1>1, <1>2
<1>6. \A k \in Links \ {l} : heardAt'[k] = heardAt[k] /\ link'[k] = link[k]
  BY <1>1
<1>7. heardAt' \in [Links -> Seq(Nat)] /\ link' \in [Links -> Seq(MessageType)]
  BY <1>1, <1>3, <1>4, <1>5
<1>. QED  BY <1>2, <1>3, <1>4, <1>5, <1>6, <1>7

\* The histories go on.
LEMMA TakenExtends ==
  ASSUME TypeOK, Histories, NEW l \in Links, NEW v, Taken(l, v)
  PROVE  Extends /\ sentAt' = sentAt
<1>1. sentAt' = sentAt
  BY DEF Taken
<1>2. \A d \in Drones : Len(sentAt[d]) <= Len(sentAt'[d])
  BY <1>1, LengthsAre
<1>3. ASSUME NEW k \in Links
      PROVE  /\ Len(heardAt[k]) <= Len(heardAt'[k])
             /\ \A s \in 1..Len(heardAt[k]) : heardAt'[k][s] = heardAt[k][s]
  <2>1. CASE k = l
    BY <2>1, TakenLinks, SMTT(30)
  <2>2. CASE k # l
    BY <2>2, TakenLinks, LengthsAre
  <2>. QED  BY <2>1, <2>2
<1>. QED  BY <1>1, <1>2, <1>3 DEF Extends

\* They go on to tell what is on the links.
LEMMA TakenHistories ==
  ASSUME TypeOK, Histories, NEW l \in Links, NEW v, Taken(l, v)
  PROVE  Histories'
<1>1. /\ sentAt' = sentAt /\ outgoing' = outgoing /\ localSendSeqNumber' = localSendSeqNumber
      /\ \A d \in Drones : clock[d] \in Nat /\ clock'[d] \in Nat /\ clock[d] <= clock'[d]
      /\ v \in Nat /\ v <= clock'[l[2]] /\ (v # 0 => clock[l[2]] < v)
  BY DEF Taken, TypeOK
<1>2. \A k \in Links : k[1] \in Drones /\ k[2] \in Drones
  BY LinkEnds
<1>3. ASSUME NEW d \in Drones, NEW s \in 1..Len(sentAt[d])
      PROVE  sentAt[d][s] \in 1..clock'[d]
  <2>1. sentAt[d][s] \in 1..clock[d]
    BY DEF Histories
  <2>. QED  BY <1>1, <2>1
<1>4. ASSUME NEW k \in Links
      PROVE  Len(heardAt'[k]) + Len(link'[k]) = Len(sentAt[k[1]])
  <2>1. CASE k = l
    <3>. DEFINE x == Len(heardAt[l])
                y == Len(link[l])
                z == Len(link'[l])
    <3>1. /\ x \in Nat /\ y \in Nat /\ z \in Nat /\ z + 1 = y /\ Len(heardAt'[l]) = x + 1
          /\ x + y = Len(sentAt[l[1]])
      BY TakenLinks, LinkSums
    <3>. HIDE DEF x, y, z
    <3>2. x + 1 + z = x + y
      BY <3>1
    <3>. QED  BY <2>1, <3>1, <3>2 DEF z
  <2>2. CASE k # l
    <3>1. heardAt'[k] = heardAt[k] /\ link'[k] = link[k]
      BY <2>2, TakenLinks
    <3>. QED  BY <3>1, LinkSums
  <2>. QED  BY <2>1, <2>2
<1>5. ASSUME NEW k \in Links, NEW s \in 1..Len(heardAt'[k])
      PROVE  /\ heardAt'[k][s] \in 0..clock'[k[2]]
             /\ \A r \in 1..s - 1 : heardAt'[k][s] # 0 => heardAt'[k][r] < heardAt'[k][s]
             /\ \A r \in 1..Len(sentAt[k[2]]) : heardAt'[k][s] # sentAt[k[2]][r]
  <2>. DEFINE n == Len(heardAt[k])
              h == heardAt'[k]
  <2>1. /\ n \in Nat /\ heardAt[k] \in Seq(Nat)
    BY LengthsAre
  <2>2. \A q \in 1..n : /\ heardAt[k][q] \in 0..clock[k[2]]
                        /\ \A r \in 1..q - 1 : heardAt[k][q] # 0 => heardAt[k][r] < heardAt[k][q]
                        /\ \A r \in 1..Len(sentAt[k[2]]) : heardAt[k][q] # sentAt[k[2]][r]
    BY DEF Histories
  <2>3. CASE s \in 1..n
    <3>1. \A q \in 1..n : h[q] = heardAt[k][q]
      BY TakenExtends DEF Extends
    <3>2. \A r \in 1..s - 1 : r \in 1..n
      BY <2>1, <2>3
    <3>3. h[s] \in 0..clock[k[2]]
      BY <2>2, <2>3, <3>1
    <3>4. h[s] \in 0..clock'[k[2]]
      BY <1>1, <1>2, <3>3
    <3>. HIDE DEF n, h
    <3>. QED  BY <2>2, <2>3, <3>1, <3>2, <3>4 DEF h
  <2>4. CASE s \notin 1..n
    <3>1. k = l /\ s = n + 1 /\ h[s] = v
      BY <2>1, <2>4, TakenLinks, SMTT(30)
    <3>2. \A q \in 1..n : h[q] = heardAt[k][q]
      BY TakenExtends DEF Extends
    <3>3. h[s] \in 0..clock'[k[2]]
      BY <1>1, <1>2, <3>1
    <3>4. ASSUME NEW r \in 1..s - 1, h[s] # 0
          PROVE  h[r] < h[s]
      <4>1. r \in 1..n
        BY <2>1, <3>1
      <4>2. h[r] \in 0..clock[k[2]]
        BY <2>2, <3>2, <4>1
      <4>. QED  BY <1>1, <1>2, <3>1, <3>4, <4>2
    <3>5. ASSUME NEW r \in 1..Len(sentAt[k[2]])
          PROVE  h[s] # sentAt[k[2]][r]
      <4>1. sentAt[k[2]][r] \in 1..clock[k[2]]
        BY <1>2 DEF Histories
      <4>. QED  BY <1>1, <1>2, <3>1, <4>1
    <3>. QED  BY <3>3, <3>4, <3>5
  <2>. QED  BY <2>3, <2>4
<1>6. \A d \in Drones : Len(sentAt[d]) + Len(outgoing[d]) = localSendSeqNumber[d] - 1
  BY DEF Histories
<1>. QED  BY <1>1, <1>3, <1>4, <1>5, <1>6 DEF Histories

\* Everything but the inbox and what is true of its order.
LEMMA TakenInv ==
  ASSUME IInv, TypeOK', NEW l \in Links, NEW v, Taken(l, v)
  PROVE  /\ Histories' /\ LocalBuffers' /\ TableSets' /\ TablesTrue' /\ Sums' /\ Extends
         /\ \A d \in Drones : \A j \in 1..Len(outgoing'[d]) : \A m : m = outgoing'[d][j] =>
              MessageTrue(m)' /\ m.srcAddress = d /\ m.msgSequence = Len(sentAt'[d]) + 1
         /\ \A k \in Links : \A j \in 1..Len(link'[k]) : \A m : m = link'[k][j] =>
              MessageTrue(m)' /\ m.srcAddress = k[1] /\ m.msgSequence = Len(heardAt'[k]) + j
<1>1. /\ TypeOK /\ Histories /\ LocalBuffers /\ Messages /\ TableSets /\ TablesTrue /\ Sums
  BY DEF IInv
<1>2. /\ Extends /\ sentAt' = sentAt /\ outgoing' = outgoing /\ localSendBuffer' = localSendBuffer
      /\ tableSet' = tableSet /\ initTofSum' = initTofSum
  BY <1>1, TakenExtends DEF Taken
<1>3. Histories'
  BY <1>1, TakenHistories
<1>4. LocalBuffers' /\ Sums'
  BY <1>1, <1>2 DEF LocalBuffers, TimeOf, Sums, SumOf, Single
<1>5. TableSets' /\ TablesTrue'
  BY <1>1, <1>2, StillTables
<1>6. ASSUME NEW d \in Drones, NEW j \in 1..Len(outgoing[d]), NEW m, m = outgoing[d][j]
      PROVE  MessageTrue(m)' /\ m.srcAddress = d /\ m.msgSequence = Len(sentAt[d]) + 1
  BY <1>1, <1>2, <1>6, StillOutgoing
<1>7. ASSUME NEW k \in Links, NEW j \in 1..Len(link'[k]), NEW m, m = link'[k][j]
      PROVE  MessageTrue(m)' /\ m.srcAddress = k[1] /\ m.msgSequence = Len(heardAt'[k]) + j
  <2>1. CASE k = l
    <3>1. j + 1 \in 1..Len(link[l]) /\ m = link[l][j + 1] /\ Len(heardAt'[l]) = Len(heardAt[l]) + 1
          /\ Len(heardAt[l]) \in Nat /\ Len(link'[l]) \in Nat
      BY <1>1, <1>7, <2>1, TakenLinks
    <3>2. MessageTrue(m)' /\ m.srcAddress = k[1] /\ m.msgSequence = Len(heardAt[l]) + (j + 1)
      BY <1>1, <1>2, <2>1, <3>1, StillLink
    <3>. DEFINE x == Len(heardAt[l])
    <3>3. x \in Nat /\ j \in Nat
      BY <2>1, <3>1
    <3>4. x + (j + 1) = x + 1 + j
      <4>. HIDE DEF x
      <4>. QED  BY <3>3
    <3>. QED  BY <2>1, <3>1, <3>2, <3>4
  <2>2. CASE k # l
    <3>1. heardAt'[k] = heardAt[k] /\ link'[k] = link[k]
      BY <1>1, <2>2, TakenLinks
    <3>. QED  BY <1>1, <1>2, <1>7, <3>1, StillLink
  <2>. QED  BY <2>1, <2>2
<1>. QED  BY <1>2, <1>3, <1>4, <1>5, <1>6, <1>7

\* What the order of the tasks says depends on the tasks and the tables only.
LEMMA TaskFacts ==
  ASSUME TypeOK, Messages, NEW d \in Drones, NEW j \in 1..Len(inbox[d])
  PROVE  /\ From(d, j) \in Drones /\ From(d, j) # d /\ Number(d, j) \in Nat
         /\ <<From(d, j), d>> \in Links /\ Arrived(<<From(d, j), d>>, Number(d, j))
         /\ inbox[d][j] \in TaskType /\ TaskTrue(inbox[d][j], d)
<1>1. inbox[d][j] \in TaskType /\ TaskTrue(inbox[d][j], d)
  BY DEF TypeOK, Messages
<1>. QED  BY <1>1 DEF From, Number, TaskTrue, TaskType, MessageType, Links

\* What the invariant says of a table.
LEMMA TableFacts ==
  ASSUME TypeOK, TableSets, TablesTrue, NEW d \in Drones, NEW i \in 1..Len(tableSet[d].address)
  PROVE  LET t == tableSet[d].table[i]
             e == tableSet[d].address[i]
         IN  /\ t \in TableType /\ e \in Drones /\ e # d
             /\ ListsTrue(t, d, e, MESSAGE_HEAD_TX_SIZE) /\ BufferTrue(t.validBuffer, d, e)
             /\ Newest(t.receiveList) \in Nat /\ Arrived(<<e, d>>, Newest(t.receiveList))
<1>. DEFINE t == tableSet[d].table[i]
            e == tableSet[d].address[i]
            row == t.receiveList.row[t.receiveList.top]
<1>1. t \in TableType /\ e \in Drones /\ e # d
  <2>1. /\ tableSet[d].address \in Seq(Drones) /\ tableSet[d].table \in Seq(TableType)
        /\ Len(tableSet[d].table) = Len(tableSet[d].address)
    BY DEF TypeOK
  <2>. QED  BY <2>1 DEF TableSets
<1>2. ListsTrue(t, d, e, MESSAGE_HEAD_TX_SIZE) /\ BufferTrue(t.validBuffer, d, e)
  BY DEF TablesTrue
<1>. HIDE DEF t, e
<1>3. /\ t.receiveList.top \in Rows /\ row.localSeq # NULL_SEQ /\ ReceiveRow(row, d, e)
      /\ row \in RowType
  BY <1>1, <1>2 DEF ListsTrue, Newest, TableType, ListType
<1>4. row.localSeq \in Nat /\ Arrived(<<e, d>>, row.localSeq)
  BY <1>3 DEF ReceiveRow, NullRow, RowType
<1>. QED  BY <1>1, <1>2, <1>4 DEF Newest, t, e

\* What reaches a number reaches those before it.
LEMMA ReachesLess ==
  ASSUME TypeOK, Messages, TableSets, TablesTrue, NEW d \in Drones, NEW e,
         NEW j \in 0..Len(inbox[d]), NEW s \in Int, NEW r \in Int, r <= s, Reaches(d, e, j, s)
  PROVE  Reaches(d, e, j, r)
<1>1. Len(inbox[d]) \in Nat
  <2>1. inbox[d] \in Seq(TaskType)
    BY DEF TypeOK
  <2>. QED  BY <2>1
<1>2. \A i \in 1..j : Number(d, i) \in Nat
  <2>1. \A i \in 1..j : i \in 1..Len(inbox[d])
    BY <1>1
  <2>. QED  BY <2>1, TaskFacts
<1>3. \A i \in 1..Len(tableSet[d].address) : Newest(tableSet[d].table[i].receiveList) \in Nat
  BY TableFacts
<1>. QED  BY <1>2, <1>3 DEF Reaches

\* A task that stays says the same.
LEMMA SameTask ==
  ASSUME NEW d \in Drones, NEW j, inbox'[d][j] = inbox[d][j]
  PROVE  From(d, j)' = From(d, j) /\ Number(d, j)' = Number(d, j)
  BY DEF From, Number

\* What is reached stays so.
LEMMA StillReaches ==
  ASSUME NEW d \in Drones, NEW e, NEW j \in Nat, NEW s, tableSet' = tableSet,
         \A i \in 1..j : inbox'[d][i] = inbox[d][i], Reaches(d, e, j, s)
  PROVE  Reaches(d, e, j, s)'
<1>1. \A i \in 1..j : From(d, i)' = From(d, i) /\ Number(d, i)' = Number(d, i)
  BY SameTask
<1>. QED  BY <1>1 DEF Reaches, Newest

\* A message lost.
LEMMA LoseInv ==
  ASSUME IInv, NEW l \in Links, Lose(l)
  PROVE  IInv'
<1>1. /\ TypeOK /\ Histories /\ LocalBuffers /\ Messages /\ TableSets /\ TablesTrue /\ Sums
      /\ InOrder /\ NoGap
  BY DEF IInv
<1>2. /\ lost' = [lost EXCEPT ![l] = @ + 1] /\ lost[l] < MaxConsecutiveLoss
      /\ lost[l] \in Nat /\ inbox' = inbox /\ tableSet' = tableSet /\ clock' = clock
      /\ UNCHANGED <<clock, localSendSeqNumber, localSendBuffer, tableSet, initTofSum, lastD,
                     outgoing, inbox, sentAt>>
  BY <1>1 DEF Lose, local, tables, TypeOK
<1>3. Taken(l, 0)
  <2>1. clock \in [Drones -> Nat]
    BY <1>1 DEF TypeOK
  <2>. QED  BY <1>2, <2>1, LinkEnds DEF Taken, Lose, NULL_TIMESTAMP
<1>4. /\ Len(heardAt[l]) \in Nat /\ Len(heardAt'[l]) = Len(heardAt[l]) + 1
      /\ \A k \in Links \ {l} : heardAt'[k] = heardAt[k]
      /\ heardAt' \in [Links -> Seq(Nat)] /\ link' \in [Links -> Seq(MessageType)]
  BY <1>1, <1>3, TakenLinks
<1>5. TypeOK'
  <2>1. lost' \in [Links -> 0..MaxConsecutiveLoss]
    BY <1>1, <1>2, RangingAssumption DEF TypeOK
  <2>. QED  BY <1>1, <1>2, <1>4, <2>1 DEF TypeOK
<1>6. /\ Histories' /\ LocalBuffers' /\ TableSets' /\ TablesTrue' /\ Sums' /\ Extends
      /\ \A d \in Drones : \A j \in 1..Len(outgoing'[d]) : \A m : m = outgoing'[d][j] =>
           MessageTrue(m)' /\ m.srcAddress = d /\ m.msgSequence = Len(sentAt'[d]) + 1
      /\ \A k \in Links : \A j \in 1..Len(link'[k]) : \A m : m = link'[k][j] =>
           MessageTrue(m)' /\ m.srcAddress = k[1] /\ m.msgSequence = Len(heardAt'[k]) + j
  BY <1>3, <1>5, TakenInv
<1>7. \A d \in Drones : \A j \in 1..Len(inbox'[d]) : TaskTrue(inbox[d][j], d)'
  BY <1>1, <1>2, <1>5, <1>6, StillInbox
<1>8. Messages'
  BY <1>6, <1>7 DEF Messages
<1>9. InOrder'
  BY <1>1, <1>2 DEF InOrder, From, Number, Newest
<1>10. NoGap'
  <2>1. ASSUME NEW d \in Drones, NEW e, NEW j \in Nat, NEW s, Reaches(d, e, j, s)
        PROVE  Reaches(d, e, j, s)'
    BY <1>2, <2>1, StillReaches
  <2>2. ASSUME NEW k \in Links
        PROVE  Len(heardAt'[k]) - lost'[k] = Len(heardAt[k]) - lost[k]
    <3>1. CASE k = l
      <4>. DEFINE x == Len(heardAt[l])
                  y == lost[l]
      <4>1. x \in Nat /\ y \in Nat /\ Len(heardAt'[l]) = x + 1 /\ lost'[l] = y + 1
        BY <1>1, <1>2, <1>4 DEF TypeOK
      <4>2. x + 1 - (y + 1) = x - y
        <5>. HIDE DEF x, y
        <5>. QED  BY <4>1
      <4>. QED  BY <3>1, <4>1, <4>2
    <3>2. CASE k # l
      BY <1>1, <1>2, <1>4, <3>2 DEF TypeOK
    <3>. QED  BY <3>1, <3>2
  <2>3. \A k \in Links : k[2] \in Drones
    BY LinkEnds
  <2>4. Short => \A k \in Links : Reaches(k[2], k[1], Len(inbox[k[2]]), Len(heardAt[k]) - lost[k])'
    <3>1. SUFFICES ASSUME Short, NEW k \in Links
                   PROVE  \A i, s : i = Len(inbox[k[2]]) /\ s = Len(heardAt[k]) - lost[k]
                                    => Reaches(k[2], k[1], i, s)'
      BY <1>2, <2>2
    <3>2. Len(inbox[k[2]]) \in Nat
      <4>1. inbox[k[2]] \in Seq(TaskType)
        BY <1>1, <2>3 DEF TypeOK
      <4>. QED  BY <4>1
    <3>. QED  BY <1>1, <2>1, <2>3, <3>1, <3>2 DEF NoGap
  <2>5. Short => \A d \in Drones : \A j \in 1..Len(inbox'[d]) :
          Reaches(d, From(d, j), j - 1, Number(d, j) - MESSAGE_HEAD_TX_SIZE)'
    BY <1>1, <1>2 DEF NoGap, Reaches, From, Number, Newest
  <2>. QED  BY <2>4, <2>5 DEF NoGap, Short
<1>. QED  BY <1>5, <1>6, <1>8, <1>9, <1>10 DEF IInv

\* A sequence with one more element.
LEMMA Appended ==
  ASSUME NEW S, NEW q \in Seq(S), NEW x \in S, NEW c \in Nat, c = Len(q)
  PROVE  /\ Append(q, x) \in Seq(S) /\ Len(Append(q, x)) = c + 1 /\ Append(q, x)[c + 1] = x
         /\ \A i \in 1..c : Append(q, x)[i] = q[i]
  OBVIOUS

\* receive_from_center with QueueTaskRx
LEMMA ReceiveInv ==
  ASSUME IInv, NEW l \in Links, Receive(l)
  PROVE  IInv'
<1>. PICK d, e, v, m, task, n, c :
       /\ d = l[2] /\ e = l[1] /\ v = clock[d] + 1 /\ m = link[l][1]
       /\ task = [message |-> m, RxTimestamp |-> v] /\ n = Len(heardAt[l]) + 1
       /\ c = Len(inbox[d])
  OBVIOUS
<1>1. /\ TypeOK /\ Histories /\ LocalBuffers /\ Messages /\ TableSets /\ TablesTrue /\ Sums
      /\ InOrder /\ NoGap
  BY DEF IInv
<1>2. /\ d \in Drones /\ e \in Drones /\ d # e /\ l = <<e, d>>
  BY LinkEnds
<1>3. /\ clock[d] \in Nat /\ inbox[d] \in Seq(TaskType) /\ c \in Nat /\ link[l] \in Seq(MessageType)
      /\ n \in Nat /\ lost[l] \in 0..MaxConsecutiveLoss
  <2>1. heardAt[l] \in Seq(Nat) /\ inbox[d] \in Seq(TaskType)
    BY <1>1, <1>2 DEF TypeOK
  <2>2. clock[d] \in Nat /\ c \in Nat
    BY <1>1, <1>2, <2>1 DEF TypeOK
  <2>3. n \in Nat
    BY <2>1
  <2>. QED  BY <1>1, <2>1, <2>2, <2>3 DEF TypeOK
<1>4. /\ link[l] # <<>> /\ c < QUEUE_TASK_LENGTH
      /\ clock' = [clock EXCEPT ![d] = v]
      /\ inbox' = [inbox EXCEPT ![d] = Append(@, task)]
      /\ link' = [link EXCEPT ![l] = Tail(@)] /\ lost' = [lost EXCEPT ![l] = 0]
      /\ heardAt' = [heardAt EXCEPT ![l] = Append(@, v)]
      /\ tableSet' = tableSet
      /\ UNCHANGED <<localSendSeqNumber, localSendBuffer, tableSet, initTofSum, lastD,
                     outgoing, sentAt>>
  <2>1. clock' = [clock EXCEPT ![d] = v] /\ clock'[d] = v
    BY <1>1, <1>2 DEF Receive, TypeOK
  <2>2. Head(link[l]) = m
    BY <1>3
  <2>3. inbox' = [inbox EXCEPT ![d] = Append(@, [message |-> Head(link[l]), RxTimestamp |-> clock'[d]])]
    BY DEF Receive
  <2>4. inbox' = [inbox EXCEPT ![d] = Append(@, task)]
    BY <2>1, <2>2, <2>3
  <2>5. heardAt' = [heardAt EXCEPT ![l] = Append(@, v)]
    BY <2>1 DEF Receive
  <2>6. link[l] # <<>> /\ c < QUEUE_TASK_LENGTH
    BY DEF Receive
  <2>. QED  BY <2>1, <2>4, <2>5, <2>6 DEF Receive, tables
<1>5. Taken(l, v)
  <2>1. clock \in [Drones -> Nat]
    BY <1>1 DEF TypeOK
  <2>. QED  BY <1>2, <1>3, <1>4, <2>1 DEF Taken
<1>6. /\ Len(heardAt'[l]) = n /\ heardAt'[l][n] = v
      /\ \A k \in Links \ {l} : heardAt'[k] = heardAt[k]
      /\ heardAt' \in [Links -> Seq(Nat)] /\ link' \in [Links -> Seq(MessageType)]
  BY <1>1, <1>5, TakenLinks
<1>7. m \in MessageType /\ MessageTrue(m) /\ m.srcAddress = e /\ m.msgSequence = n
  <2>1. 1 \in 1..Len(link[l])
    BY <1>3, <1>4
  <2>2. m \in MessageType
    BY <1>3, <2>1
  <2>. QED  BY <1>1, <1>2, <2>1, <2>2 DEF Messages
<1>8. task \in TaskType /\ task.message = m /\ task.RxTimestamp = v
  BY <1>3, <1>7 DEF TaskType
<1>9. /\ inbox'[d] = Append(inbox[d], task) /\ Len(inbox'[d]) = c + 1 /\ inbox'[d][c + 1] = task
      /\ \A i \in 1..c : inbox'[d][i] = inbox[d][i]
      /\ \A x \in Drones \ {d} : inbox'[x] = inbox[x]
      /\ inbox' \in [Drones -> Seq(TaskType)]
  <2>1. inbox \in [Drones -> Seq(TaskType)]
    BY <1>1 DEF TypeOK
  <2>2. inbox'[d] = Append(inbox[d], task) /\ \A x \in Drones \ {d} : inbox'[x] = inbox[x]
    BY <1>2, <1>4, <2>1
  <2>3. Append(inbox[d], task) \in Seq(TaskType)
    BY <1>3, <1>8
  <2>4. inbox' \in [Drones -> Seq(TaskType)]
    BY <1>2, <1>4, <2>1, <2>3
  <2>. QED  BY <1>3, <1>8, <2>2, <2>4, Appended
<1>10. TypeOK'
  <2>1. clock' \in [Drones -> Nat] /\ lost' \in [Links -> 0..MaxConsecutiveLoss]
    <3>1. v \in Nat /\ 0 \in 0..MaxConsecutiveLoss
      <4>1. v \in Nat
        BY <1>3
      <4>2. MaxConsecutiveLoss \in Nat
        BY RangingAssumption
      <4>. QED  BY <4>1, <4>2
    <3>. QED  BY <1>1, <1>4, <3>1 DEF TypeOK
  <2>2. \A x \in Drones : Len(inbox'[x]) <= QUEUE_TASK_LENGTH
    <3>1. ASSUME NEW x \in Drones
          PROVE  Len(inbox'[x]) <= QUEUE_TASK_LENGTH
      <4>1. Len(inbox[x]) <= QUEUE_TASK_LENGTH
        BY <1>1 DEF TypeOK
      <4>2. c + 1 <= QUEUE_TASK_LENGTH
        BY <1>3, <1>4, RangingAssumption
      <4>. QED  BY <1>9, <4>1, <4>2
    <3>. QED  BY <3>1
  <2>3. UNCHANGED <<localSendSeqNumber, localSendBuffer, tableSet, initTofSum, lastD, outgoing,
                    sentAt>>
    BY <1>4
  <2>. QED  BY <1>1, <1>6, <1>9, <2>1, <2>2, <2>3 DEF TypeOK
<1>11. /\ Histories' /\ LocalBuffers' /\ TableSets' /\ TablesTrue' /\ Sums' /\ Extends
       /\ \A x \in Drones : \A j \in 1..Len(outgoing'[x]) : \A o : o = outgoing'[x][j] =>
            MessageTrue(o)' /\ o.srcAddress = x /\ o.msgSequence = Len(sentAt'[x]) + 1
       /\ \A k \in Links : \A j \in 1..Len(link'[k]) : \A o : o = link'[k][j] =>
            MessageTrue(o)' /\ o.srcAddress = k[1] /\ o.msgSequence = Len(heardAt'[k]) + j
  BY <1>5, <1>10, TakenInv
<1>12. TaskTrue(task, d)'
  <2>1. MessageTrue(m)'
    BY <1>1, <1>7, <1>10, <1>11, StillMessage
  <2>2. Arrived(l, n)'
    BY <1>3, <1>6, SMTT(30) DEF Arrived, NULL_TIMESTAMP
  <2>3. ASSUME NEW u \in 1..Len(m.bodyUnits), m.bodyUnits[u].dest = d,
               NEW j \in 1..MESSAGE_BODY_RX_SIZE, m.bodyUnits[u].Rx[j].seqNumber # NULL_SEQ
        PROVE  sentAt'[d][m.bodyUnits[u].Rx[j].seqNumber] < v
    <3>. DEFINE s == m.bodyUnits[u].Rx[j].seqNumber
    <3>1. s \in 1..Len(heardAt[<<d, e>>])
      BY <1>7, <2>3 DEF MessageTrue, UnitTrue, Arrived
    <3>. HIDE DEF s
    <3>2. s \in 1..Len(sentAt[d])
      BY <1>1, <1>2, <3>1, HeardWereSent
    <3>3. sentAt[d][s] \in 1..clock[d]
      BY <1>1, <1>2, <3>2 DEF Histories
    <3>4. sentAt'[d] = sentAt[d] /\ sentAt[d][s] < v
      BY <1>3, <1>4, <3>3, SMTT(30)
    <3>. QED  BY <3>4 DEF s
  <2>. QED  BY <1>2, <1>6, <1>7, <1>8, <2>1, <2>2, <2>3 DEF TaskTrue
<1>13. Messages'
  <2>1. ASSUME NEW x \in Drones, NEW j \in 1..Len(inbox'[x]), NEW o, o = inbox'[x][j]
        PROVE  TaskTrue(o, x)'
    <3>1. CASE j \in 1..Len(inbox[x]) /\ o = inbox[x][j]
      <4>1. o \in TaskType /\ TaskTrue(o, x)
        BY <1>1, <3>1, TaskFacts
      <4>. QED  BY <1>1, <1>10, <1>11, <4>1, StillTask
    <3>2. CASE x = d /\ j = c + 1
      BY <1>9, <1>12, <2>1, <3>2
    <3>3. x # d => j \in 1..Len(inbox[x]) /\ o = inbox[x][j]
      BY <1>9, <2>1
    <3>4. x = d => j = c + 1 \/ (j \in 1..c /\ o = inbox[x][j])
      <4>1. j \in 1..c + 1 => j \in 1..c \/ j = c + 1
        BY <1>3
      <4>. QED  BY <1>9, <2>1, <4>1
    <3>. QED  BY <3>1, <3>2, <3>3, <3>4
  <2>. QED  BY <1>11, <2>1, SMTT(30) DEF Messages
<1>14. \A x \in Drones : \A j \in 1..Len(inbox[x]) :
         j \in 1..Len(inbox'[x]) /\ inbox'[x][j] = inbox[x][j]
  <2>1. \A j \in 1..c : j \in 1..c + 1
    BY <1>3
  <2>2. c = Len(inbox[d])
    OBVIOUS
  <2>. QED  BY <1>9, <2>1, <2>2
<1>15. From(d, c + 1)' = e /\ Number(d, c + 1)' = n
  BY <1>7, <1>8, <1>9 DEF From, Number
<1>16. \A x \in Drones : Len(inbox[x]) \in Nat
  <2>1. \A x \in Drones : inbox[x] \in Seq(TaskType)
    BY <1>1 DEF TypeOK
  <2>. QED  BY <2>1
<1>17. \A x \in Drones : \A j \in 1..Len(inbox[x]) :
         From(x, j)' = From(x, j) /\ Number(x, j)' = Number(x, j)
  BY <1>14, SameTask
<1>18. \A x \in Drones : \A j \in 1..Len(inbox'[x]) :
         j \in 1..Len(inbox[x]) \/ (x = d /\ j = c + 1)
  <2>1. \A j \in 1..c + 1 : j \in 1..c \/ j = c + 1
    BY <1>3
  <2>. QED  BY <1>9, <2>1
<1>19. InOrder'
  <2>1. ASSUME NEW x \in Drones, NEW j \in 1..Len(inbox[x])
        PROVE  /\ \A i \in 1..j - 1 : From(x, i)' = From(x, j)' => Number(x, i)' < Number(x, j)'
               /\ \A i \in 1..Len(tableSet[x].address) : tableSet[x].address[i] = From(x, j)' =>
                    Newest(tableSet[x].table[i].receiveList) < Number(x, j)'
    <3>1. \A i \in 1..j - 1 : i \in 1..Len(inbox[x])
      BY <1>16
    <3>. QED  BY <1>1, <1>17, <3>1 DEF InOrder
  <2>2. /\ \A i \in 1..c : From(d, i)' = e => Number(d, i)' < n
        /\ \A i \in 1..Len(tableSet[d].address) : tableSet[d].address[i] = e =>
             Newest(tableSet[d].table[i].receiveList) < n
    <3>1. ASSUME NEW i \in 1..c, From(d, i)' = e
          PROVE  Number(d, i)' < n
      <4>1. Number(d, i) \in 1..Len(heardAt[l]) /\ Number(d, i)' = Number(d, i)
        BY <1>1, <1>2, <1>17, <3>1, TaskFacts DEF Arrived
      <4>2. Len(heardAt[l]) \in Nat
        BY <1>1, LengthsAre
      <4>. QED  BY <4>1, <4>2
    <3>2. ASSUME NEW i \in 1..Len(tableSet[d].address), tableSet[d].address[i] = e
          PROVE  Newest(tableSet[d].table[i].receiveList) < n
      <4>1. Newest(tableSet[d].table[i].receiveList) \in 1..Len(heardAt[l])
        BY <1>1, <1>2, <3>2, TableFacts DEF Arrived
      <4>2. Len(heardAt[l]) \in Nat
        BY <1>1, LengthsAre
      <4>. QED  BY <4>1, <4>2
    <3>. QED  BY <3>1, <3>2
  <2>3. c + 1 - 1 = c
    BY <1>3
  <2>4. ASSUME NEW x \in Drones, NEW j \in 1..Len(inbox'[x])
        PROVE  /\ \A i \in 1..j - 1 : From(x, i)' = From(x, j)' => Number(x, i)' < Number(x, j)'
               /\ \A i \in 1..Len(tableSet[x].address) : tableSet[x].address[i] = From(x, j)' =>
                    Newest(tableSet[x].table[i].receiveList) < Number(x, j)'
    <3>1. CASE j \in 1..Len(inbox[x])
      BY <2>1, <3>1
    <3>2. CASE x = d /\ j = c + 1
      BY <1>15, <2>2, <2>3, <3>2
    <3>. QED  BY <1>18, <3>1, <3>2
  <2>. QED  BY <1>4, <2>4 DEF InOrder, Newest
<1>20. NoGap'
  <2>. SUFFICES ASSUME Short
                PROVE  /\ \A x \in Drones : \A j \in 1..Len(inbox'[x]) : \A f, i, s :
                            f = From(x, j)' /\ i = j - 1 /\ s = Number(x, j)' - MESSAGE_HEAD_TX_SIZE
                            => Reaches(x, f, i, s)'
                       /\ \A k \in Links : \A i, s :
                            i = Len(inbox'[k[2]]) /\ s = Len(heardAt'[k]) - lost'[k]
                            => Reaches(k[2], k[1], i, s)'
    BY DEF NoGap, Short
  <2>1. /\ \A x \in Drones : \A j \in 1..Len(inbox[x]) :
             Reaches(x, From(x, j), j - 1, Number(x, j) - MESSAGE_HEAD_TX_SIZE)
        /\ \A k \in Links : Reaches(k[2], k[1], Len(inbox[k[2]]), Len(heardAt[k]) - lost[k])
    BY <1>1 DEF NoGap
  <2>2. ASSUME NEW x \in Drones, NEW f, NEW j \in 0..Len(inbox[x]), NEW s, Reaches(x, f, j, s)
        PROVE  Reaches(x, f, j, s)'
    <3>1. j \in Nat /\ \A i \in 1..j : inbox'[x][i] = inbox[x][i]
      BY <1>14, <1>16
    <3>. QED  BY <1>4, <2>2, <3>1, StillReaches
  <2>3. ASSUME NEW x \in Drones, NEW j \in 1..Len(inbox[x])
        PROVE  \A f, i, s :
                 f = From(x, j)' /\ i = j - 1 /\ s = Number(x, j)' - MESSAGE_HEAD_TX_SIZE
                 => Reaches(x, f, i, s)'
    <3>1. j - 1 \in 0..Len(inbox[x])
      BY <1>16
    <3>. QED  BY <1>17, <2>1, <2>2, <3>1
  <2>4. Reaches(d, e, c, n - MESSAGE_HEAD_TX_SIZE)'
    <3>1. Reaches(d, e, c, (n - 1) - lost[l])
      <4>1. Len(heardAt[l]) \in Nat /\ n - 1 = Len(heardAt[l])
        BY <1>1, LengthsAre
      <4>. QED  BY <1>2, <2>1, <4>1
    <3>2. n - MESSAGE_HEAD_TX_SIZE <= (n - 1) - lost[l]
      BY <1>3, Sizes, RangingAssumption DEF Short
    <3>3. n - MESSAGE_HEAD_TX_SIZE \in Int /\ (n - 1) - lost[l] \in Int /\ c \in 0..Len(inbox[d])
      BY <1>3, Sizes
    <3>4. Reaches(d, e, c, n - MESSAGE_HEAD_TX_SIZE)
      BY <1>1, <1>2, <3>1, <3>2, <3>3, ReachesLess
    <3>5. \A s : Reaches(d, e, c, s) => Reaches(d, e, c, s)'
      BY <1>2, <2>2, <3>3
    <3>. QED  BY <3>4, <3>5, Sizes
  <2>5. ASSUME NEW x \in Drones, NEW j \in 1..Len(inbox'[x])
        PROVE  \A f, i, s :
                 f = From(x, j)' /\ i = j - 1 /\ s = Number(x, j)' - MESSAGE_HEAD_TX_SIZE
                 => Reaches(x, f, i, s)'
    <3>1. c + 1 - 1 = c
      BY <1>3
    <3>. QED  BY <1>15, <1>18, <2>3, <2>4, <3>1, SMTT(30)
  <2>6. ASSUME NEW k \in Links
        PROVE  \A i, s : i = Len(inbox'[k[2]]) /\ s = Len(heardAt'[k]) - lost'[k]
                         => Reaches(k[2], k[1], i, s)'
    <3>1. k[2] \in Drones /\ k[1] \in Drones /\ k = <<k[1], k[2]>>
      BY LinkEnds
    <3>2. CASE k = l
      <4>1. Len(inbox'[k[2]]) = c + 1 /\ Len(heardAt'[k]) - lost'[k] = n
        BY <1>1, <1>3, <1>4, <1>6, <1>9, <3>2 DEF TypeOK
      <4>2. Reaches(d, e, c + 1, n)'
        <5>1. c + 1 \in 1..c + 1 /\ n >= n
          BY <1>3
        <5>. QED  BY <1>15, <5>1 DEF Reaches
      <4>. QED  BY <3>2, <4>1, <4>2
    <3>3. CASE k # l
      <4>1. Len(heardAt'[k]) = Len(heardAt[k]) /\ lost'[k] = lost[k]
        BY <1>1, <1>4, <1>6, <3>3 DEF TypeOK
      <4>2. \A s : s = Len(heardAt[k]) - lost[k] => Reaches(k[2], k[1], Len(inbox[k[2]]), s)
        BY <2>1
      <4>3. \A s : s = Len(heardAt[k]) - lost[k] =>
              \A i : i = Len(inbox[k[2]]) => Reaches(k[2], k[1], i, s)'
        BY <1>16, <2>2, <3>1, <4>2
      <4>4. CASE k[2] # d
        BY <1>9, <3>1, <4>1, <4>3, <4>4
      <4>5. CASE k[2] = d
        <5>1. k[1] # e
          BY <1>2, <3>1, <3>3, <4>5
        <5>2. ASSUME NEW s, Reaches(d, k[1], c, s)'
              PROVE  Reaches(d, k[1], c + 1, s)'
          <6>1. \A i \in 1..c : i \in 1..c + 1
            BY <1>3
          <6>2. \A i \in 1..c + 1 : i \in 1..c \/ i = c + 1
            BY <1>3
          <6>. QED  BY <1>15, <5>1, <5>2, <6>1, <6>2 DEF Reaches
        <5>. QED  BY <1>9, <4>1, <4>3, <4>5, <5>2
      <4>. QED  BY <4>4, <4>5
    <3>. QED  BY <3>2, <3>3
  <2>. QED  BY <2>5, <2>6
<1>. QED  BY <1>10, <1>11, <1>13, <1>19, <1>20 DEF IInv
-----------------------------------------------------------------------------
(* Processing: what one call does to the table of the sender.              *)

\* The times of messages in opposite directions are never the same.
LEMMA Crossing ==
  ASSUME TypeOK, Histories, NEW d \in Drones, NEW e \in Drones, d # e,
         NEW a, NEW b, IsTrue(a, d, e), IsTrue(b, e, d)
  PROVE  a.rx # b.tx /\ b.rx # a.tx
<1>1. <<d, e>> \in Links /\ <<e, d>> \in Links
  BY DEF Links
<1>2. /\ a.localSeq \in 1..Len(heardAt[<<d, e>>]) /\ a.localSeq \in 1..Len(sentAt[d])
      /\ b.localSeq \in 1..Len(heardAt[<<e, d>>]) /\ b.localSeq \in 1..Len(sentAt[e])
  BY HeardWereSent DEF IsTrue
<1>3. \A l \in Links : \A s \in 1..Len(heardAt[l]) : \A r \in 1..Len(sentAt[l[2]]) :
        heardAt[l][s] # sentAt[l[2]][r]
  BY DEF Histories
<1>4. heardAt[<<d, e>>][a.localSeq] # sentAt[e][b.localSeq]
  BY <1>1, <1>2, <1>3
<1>5. heardAt[<<e, d>>][b.localSeq] # sentAt[d][a.localSeq]
  BY <1>1, <1>2, <1>3
<1>. QED  BY <1>4, <1>5 DEF IsTrue

\* Messages arrive in the order they were sent.
LEMMA HeardOrder ==
  ASSUME TypeOK, Histories, NEW l \in Links, NEW a, NEW b, Arrived(l, a), Arrived(l, b),
         heardAt[l][a] < heardAt[l][b]
  PROVE  a < b
<1>1. Len(heardAt[l]) \in Nat /\ a \in 1..Len(heardAt[l]) /\ b \in 1..Len(heardAt[l])
      /\ heardAt[l][a] \in Nat /\ heardAt[l][b] \in Nat
  BY LengthsAre DEF Arrived
<1>2. \A r \in 1..a - 1 : heardAt[l][a] # 0 => heardAt[l][r] < heardAt[l][a]
  BY <1>1 DEF Histories
<1>3. heardAt[l][a] # 0
  BY DEF Arrived, NULL_TIMESTAMP
<1>4. b \in 1..a - 1 => heardAt[l][b] < heardAt[l][a]
  BY <1>2, <1>3
<1>. QED  BY <1>1, <1>4

\* One more record of a communication leaves a ring true.
LEMMA RingStays ==
  ASSUME NEW ring \in RingType, RingOK(ring), NEW record \in RecordType, NEW h, NEW d, NEW e,
         Short => /\ RecordTrue(record, h, d, e)
                  /\ \A k \in Held(ring) : RecordTrue(ring.rec[k], h, d, e)
  PROVE  LET new == AddRecord(ring, record)
         IN  /\ new \in RingType /\ RingOK(new)
             /\ new.length = IF ring.length < RANGING_BUFFER_SIZE THEN ring.length + 1
                             ELSE RANGING_BUFFER_SIZE
             /\ Short => \A k \in Held(new) : RecordTrue(new.rec[k], h, d, e)
<1>. DEFINE new == AddRecord(ring, record)
<1>1. /\ new \in RingType /\ new.top \in Records /\ RingOK(new)
      /\ new.length = IF ring.length < RANGING_BUFFER_SIZE THEN ring.length + 1
                      ELSE RANGING_BUFFER_SIZE
      /\ new.rec[new.top] = record
      /\ \A k \in Held(new) : k = new.top \/ (k \in Held(ring) /\ new.rec[k] = ring.rec[k])
  BY NewRecord
<1>. HIDE DEF new
<1>. QED  BY <1>1 DEF new

\* The two communications of a record, in the order its status gives.
Joined(status, own, opposite, d, e) ==
  IF status = SENDER THEN IsTrue(own, d, e) /\ IsTrue(opposite, e, d)
                     ELSE IsTrue(own, e, d) /\ IsTrue(opposite, d, e)

\* A record of two communications is true.
LEMMA RecordStays ==
  ASSUME NEW status \in {SENDER, RECEIVER}, NEW h \in {SENDER, RECEIVER},
         NEW own, NEW opposite, NEW summed,
         Timed(own), Timed(opposite), Timed(summed), NEW kind \in {"classic", "modified"},
         NEW d, NEW e, Joined(status, own, opposite, d, e),
         kind = "classic" =>
           Follows(h, [send |-> IF status = SENDER THEN own ELSE opposite,
                       receive |-> IF status = SENDER THEN opposite ELSE own])
  PROVE  RecordTrue(Record(status, own, opposite, kind, summed), h, d, e)
<1>. DEFINE record == Record(status, own, opposite, kind, summed)
            a == IF status = SENDER THEN own ELSE opposite
            b == IF status = SENDER THEN opposite ELSE own
<1>1. /\ record.send = Half(a) /\ record.receive = Half(b) /\ record.sumTof.kind = kind
  BY RecordHalves
<1>2. IsTrue(a, d, e) /\ IsTrue(b, e, d)
  BY DEF Joined
<1>. HIDE DEF record
<1>3. /\ record.send.tx = a.tx /\ record.send.rx = a.rx /\ record.send.localSeq = a.localSeq
      /\ record.receive.tx = b.tx /\ record.receive.rx = b.rx
      /\ record.receive.localSeq = b.localSeq
  BY <1>1, TimedHalf
<1>. HIDE DEF a, b
<1>4. IsTrue(record.send, d, e) /\ IsTrue(record.receive, e, d)
  BY <1>2, <1>3 DEF IsTrue
<1>5. kind = "classic" => Follows(h, [send |-> a, receive |-> b])
  BY DEF a, b
<1>6. kind = "classic" => Follows(h, record)
  BY <1>3, <1>5 DEF Follows
<1>. QED  BY <1>1, <1>4, <1>6 DEF RecordTrue, record

\* The end of the initialization changes sums only.
LEMMA AverageStays ==
  ASSUME NEW ring \in RingType, RingOK(ring), NEW S, NEW h, NEW d, NEW e,
         Short => \A k \in Held(ring) : RecordTrue(ring.rec[k], h, d, e)
  PROVE  LET new == [ring EXCEPT !.rec = [k \in Records |->
                       IF k \in S THEN [ring.rec[k] EXCEPT !.sumTof = InitialSum]
                       ELSE ring.rec[k]]]
         IN  /\ new \in RingType /\ RingOK(new) /\ new.length = ring.length
             /\ Short => \A k \in Held(new) : RecordTrue(new.rec[k], h, d, e)
<1>. DEFINE rec == [k \in Records |-> IF k \in S THEN [ring.rec[k] EXCEPT !.sumTof = InitialSum]
                                      ELSE ring.rec[k]]
            new == [ring EXCEPT !.rec = rec]
<1>1. \A k \in Records : ring.rec[k] \in RecordType
  BY DEF RingType
<1>2. InitialSum \in SumType /\ InitialSum.kind # "classic"
  BY DEF InitialSum, SumType, NULL_SEQ
<1>3. ASSUME NEW k \in Records
      PROVE  /\ rec[k] \in RecordType /\ rec[k].send = ring.rec[k].send
             /\ rec[k].receive = ring.rec[k].receive
             /\ rec[k].sumTof = ring.rec[k].sumTof \/ rec[k].sumTof = InitialSum
  BY <1>1, <1>2 DEF RecordType
<1>4. rec \in [Records -> RecordType]
  <2>1. rec = [k \in Records |-> rec[k]]
    OBVIOUS
  <2>. HIDE DEF rec
  <2>. QED  BY <1>3, <2>1
<1>. HIDE DEF rec
<1>5. new \in RingType /\ new.top = ring.top /\ new.length = ring.length /\ new.rec = rec
  BY <1>4 DEF RingType
<1>. HIDE DEF new
<1>6. RingOK(new)
  BY <1>5 DEF RingOK
<1>7. ASSUME Short, NEW k \in Held(new)
      PROVE  RecordTrue(new.rec[k], h, d, e)
  <2>1. k \in Records /\ k \in Held(ring)
    BY <1>5 DEF Held
  <2>2. RecordTrue(ring.rec[k], h, d, e)
    BY <1>7, <2>1
  <2>. QED  BY <1>2, <1>3, <1>5, <2>1, <2>2 DEF RecordTrue, Follows
<1>. QED  BY <1>5, <1>6, <1>7 DEF new, rec

\* Both rings of a buffer, by status.
RingTrue(ring, h, d, e) ==
  /\ ring \in RingType /\ RingOK(ring)
  /\ Short => \A k \in Held(ring) : RecordTrue(ring.rec[k], h, d, e)

\* A buffer is true if its two rings are.
LEMMA BufferRings ==
  ASSUME NEW b, NEW d, NEW e
  PROVE  BufferTrue(b, d, e) <=>
           /\ b \in BufferType
           /\ RingTrue(b.send, SENDER, d, e) /\ RingTrue(b.receive, RECEIVER, d, e)
           /\ \/ b.send.length = b.receive.length
              \/ /\ b.send.length >= MAX_INITIAL_CALCULATION
                 /\ b.receive.length >= MAX_INITIAL_CALCULATION
  BY DEF BufferTrue, BufferOK, RingTrue, BufferType, SENDER, RECEIVER

\* A record of the initialization for each of the two rings.
LEMMA PairStays ==
  ASSUME TypeOK, Histories, NEW d \in Drones, NEW e \in Drones, d # e,
         NEW b \in BufferType, BufferTrue(b, d, e), b.send.length < MAX_INITIAL_CALCULATION,
         NEW status \in {SENDER, RECEIVER}, NEW A3 \in RowType, NEW B2 \in RowType,
         NEW A1 \in RowType,
         Short => /\ Joined(status, A1, B2, d, e) /\ Joined(status, A3, B2, d, e)
                  /\ status = SENDER => B2.rx < A1.tx
                  /\ status = RECEIVER => A3.rx < B2.tx
                  /\ ~Negative(A3, B2, A1)
  PROVE  LET new == AddPair(b, status, A3, B2, A1)
         IN  /\ new \in BufferType
             /\ RingTrue(new.send, SENDER, d, e) /\ RingTrue(new.receive, RECEIVER, d, e)
             /\ new.send.length = b.send.length + 1 /\ new.receive.length = b.send.length + 1
<1>. DEFINE R(own) == Record(status, own, B2, "classic", B2)
            new == AddPair(b, status, A3, B2, A1)
            x == IF status = SENDER THEN A1 ELSE A3
            y == IF status = RECEIVER THEN A1 ELSE A3
<1>1. Timed(A1) /\ Timed(B2) /\ Timed(A3)
  BY TimedHalf
<1>2. R(A1) \in RecordType /\ R(A3) \in RecordType
  BY <1>1, RecordHalves
<1>3. /\ b.send \in RingType /\ b.receive \in RingType /\ RingTrue(b.send, SENDER, d, e)
      /\ RingTrue(b.receive, RECEIVER, d, e) /\ b.send.length = b.receive.length
      /\ b.send.length \in Nat /\ b.send.length < RANGING_BUFFER_SIZE
  <2>1. /\ b.send \in RingType /\ b.receive \in RingType /\ RingTrue(b.send, SENDER, d, e)
        /\ RingTrue(b.receive, RECEIVER, d, e)
        /\ \/ b.send.length = b.receive.length
           \/ b.send.length >= MAX_INITIAL_CALCULATION
    BY BufferRings DEF BufferType
  <2>2. b.send.length \in Nat
    BY <2>1 DEF RingType
  <2>. QED  BY <2>1, <2>2, Sizes
<1>4. Short => A3.rx < B2.tx \/ (status = SENDER /\ A3.rx # B2.tx)
  BY Crossing DEF Joined
<1>5. Short => B2.rx < A1.tx \/ (status = RECEIVER /\ B2.rx # A1.tx)
  BY Crossing DEF Joined
<1>6. Short => B2.rx < A1.tx /\ A3.rx < B2.tx
  BY <1>1, <1>4, <1>5 DEF Negative, Timed
<1>7. Short => RecordTrue(R(x), SENDER, d, e) /\ RecordTrue(R(y), RECEIVER, d, e)
  <2>. SUFFICES ASSUME Short
                PROVE  RecordTrue(R(x), SENDER, d, e) /\ RecordTrue(R(y), RECEIVER, d, e)
    OBVIOUS
  <2>1. CASE status = SENDER
    <3>1. Follows(SENDER, [send |-> A1, receive |-> B2])
          /\ Follows(RECEIVER, [send |-> A3, receive |-> B2])
      BY <1>6 DEF Follows, SENDER, RECEIVER
    <3>2. x = A1 /\ y = A3
      BY <2>1 DEF SENDER, RECEIVER
    <3>. HIDE DEF x, y
    <3>. QED  BY <1>1, <2>1, <3>1, <3>2, RecordStays
  <2>2. CASE status = RECEIVER
    <3>1. Follows(RECEIVER, [send |-> B2, receive |-> A1])
          /\ Follows(SENDER, [send |-> B2, receive |-> A3])
      BY <1>6 DEF Follows, SENDER, RECEIVER
    <3>2. x = A3 /\ y = A1 /\ status # SENDER
      BY <2>2 DEF SENDER, RECEIVER
    <3>. HIDE DEF x, y
    <3>. QED  BY <1>1, <2>2, <3>1, <3>2, RecordStays
  <2>. QED  BY <2>1, <2>2
<1>8. new.send = AddRecord(b.send, R(x)) /\ new.receive = AddRecord(b.receive, R(y))
      /\ new = [send |-> AddRecord(b.send, R(x)), receive |-> AddRecord(b.receive, R(y))]
  BY DEF AddPair, SENDER, RECEIVER, BufferType
<1>9. R(x) \in RecordType /\ R(y) \in RecordType
  BY <1>2
<1>. HIDE DEF R, x, y, new
<1>10. /\ RingTrue(new.send, SENDER, d, e) /\ new.send.length = b.send.length + 1
  BY <1>3, <1>7, <1>8, <1>9, RingStays DEF RingTrue
<1>11. /\ RingTrue(new.receive, RECEIVER, d, e) /\ new.receive.length = b.send.length + 1
  <2>1. /\ b.receive \in RingType /\ RingOK(b.receive)
        /\ Short => \A k \in Held(b.receive) : RecordTrue(b.receive.rec[k], RECEIVER, d, e)
        /\ Short => RecordTrue(R(y), RECEIVER, d, e)
        /\ R(y) \in RecordType /\ b.receive.length = b.send.length
    BY <1>3, <1>7, <1>9 DEF RingTrue
  <2>. QED  BY <1>3, <1>8, <2>1, RingStays, SMTT(30) DEF RingTrue
<1>12. new \in BufferType
  BY <1>8, <1>10, <1>11 DEF BufferType, RingTrue
<1>. QED  BY <1>10, <1>11, <1>12 DEF new

\* The state of a call, and what is true of its buffer and its sum.
CallType == [table : TableType, sum : Seq(Drones), valid : BOOLEAN]

CallBuffer(s, d, e) ==
  /\ BufferTrue(s.table.validBuffer, d, e)
  /\ Single => SumOf(s.sum, s.table.validBuffer, e)

\* The fields of the state of a call.
LEMMA CallFields ==
  ASSUME NEW s \in CallType
  PROVE  /\ s.table \in TableType /\ s.sum \in Seq(Drones) /\ s.valid \in BOOLEAN
         /\ s.table.sendList \in ListType /\ s.table.receiveList \in ListType
         /\ s.table.validBuffer \in BufferType
  BY DEF CallType, TableType

WithBuffer(s, b, sum, valid) ==
  [s EXCEPT !.table.validBuffer = b, !.sum = sum, !.valid = valid]

\* The state of a call after a change of its buffer,
LEMMA NewBuffer ==
  ASSUME NEW s \in CallType, NEW b \in BufferType, NEW sum \in Seq(Drones), NEW valid \in BOOLEAN,
         NEW t, t = WithBuffer(s, b, sum, valid)
  PROVE  /\ t \in CallType /\ t.table.validBuffer = b /\ t.sum = sum /\ t.valid = valid
         /\ t.table.sendList = s.table.sendList /\ t.table.receiveList = s.table.receiveList
  BY DEF CallType, TableType, WithBuffer

\* its receive list
LEMMA NewReceiveList ==
  ASSUME NEW s \in CallType, NEW list \in ListType, NEW t, t = [s EXCEPT !.table.receiveList = list]
  PROVE  /\ t \in CallType /\ t.sum = s.sum /\ t.table.validBuffer = s.table.validBuffer
         /\ t.table.sendList = s.table.sendList /\ t.table.receiveList = list
  BY DEF CallType, TableType

\* or its send list.
LEMMA NewSendList ==
  ASSUME NEW s \in CallType, NEW list \in ListType, NEW t, t = [s EXCEPT !.table.sendList = list]
  PROVE  /\ t \in CallType /\ t.sum = s.sum /\ t.table.validBuffer = s.table.validBuffer
         /\ t.table.sendList = list /\ t.table.receiveList = s.table.receiveList
  BY DEF CallType, TableType

\* Row i of listA and the rows the searches of the initialization may find for
\* it are of communications.
RowChoices(listA, listB, i, status, d, e) == \A b2, a3 \in Rows :
  LET A1 == listA.row[i]
      B2 == listB.row[b2]
      A3 == listA.row[a3]
  IN  /\ IsFull(A1) /\ IsFull(B2) /\ IsFull(A3)
      /\ status = SENDER => B2.rx < A1.tx
      /\ status = RECEIVER => B2.tx < A1.rx /\ A3.rx < B2.tx
      => Joined(status, A1, B2, d, e) /\ Joined(status, A3, B2, d, e)

\* initializeCalculateTof with the end of the initialization
LEMMA InitializeStays ==
  ASSUME TypeOK, Histories, NEW d \in Drones, NEW e \in Drones, d # e,
         NEW s \in CallType, CallBuffer(s, d, e),
         s.table.validBuffer.send.length < MAX_INITIAL_CALCULATION,
         NEW listA \in ListType, NEW listB \in ListType, NEW i \in Rows,
         NEW status \in {SENDER, RECEIVER}, NEW averaged,
         Short => RowChoices(listA, listB, i, status, d, e)
  PROVE  LET t == Initialize(s, e, listA, listB, i, status, averaged)
         IN  /\ t \in CallType /\ t.table.sendList = s.table.sendList
             /\ t.table.receiveList = s.table.receiveList /\ CallBuffer(t, d, e)
<1>. DEFINE b     == s.table.validBuffer
            r     == initializeCalculateTof(listA, listB, i, b, status)
            other == Opposite(status)
            ended == r.added /\ r.buffer[other].length >= MAX_INITIAL_CALCULATION
            S     == {k \in Records : ended /\ k \in averaged}
            ring  == r.buffer[other]
            new   == [ring EXCEPT !.rec = [k \in Records |->
                        IF k \in S THEN [ring.rec[k] EXCEPT !.sumTof = InitialSum]
                        ELSE ring.rec[k]]]
            c     == [r.buffer EXCEPT ![other] = new]
            sum   == sumWith(s.sum, e, r.added)
            A1    == listA.row[i]
            L     == b.send.length
            t     == Initialize(s, e, listA, listB, i, status, averaged)
<1>1. /\ b \in BufferType /\ BufferTrue(b, d, e) /\ A1 \in RowType /\ L \in Nat
      /\ s.sum \in Seq(Drones) /\ L < MAX_INITIAL_CALCULATION
      /\ b.receive.length = L
      /\ RingTrue(b.send, SENDER, d, e) /\ RingTrue(b.receive, RECEIVER, d, e)
  <2>1. b \in BufferType /\ BufferTrue(b, d, e) /\ A1 \in RowType /\ s.sum \in Seq(Drones)
    BY CallFields DEF CallBuffer, ListType
  <2>2. L \in Nat
    BY <2>1 DEF BufferType, RingType
  <2>. QED  BY <2>1, <2>2, BufferRings, Sizes
<1>2. \/ r.added = FALSE /\ r.buffer = b
      \/ /\ r.added = TRUE
         /\ \E b2, a3 \in Rows : LET B2 == listB.row[b2]
                                     A3 == listA.row[a3]
            IN  /\ IsFull(A1) /\ IsFull(B2) /\ IsFull(A3)
                /\ status = SENDER => B2.rx < A1.tx /\ A3.tx < B2.rx
                /\ status = RECEIVER => B2.tx < A1.rx /\ A3.rx < B2.tx
                /\ ~Negative(A3, B2, A1)
                /\ r.buffer = AddPair(b, status, A3, B2, A1)
  BY InitializeAdds
<1>3. /\ r.added \in BOOLEAN /\ r.buffer \in BufferType
      /\ RingTrue(r.buffer.send, SENDER, d, e) /\ RingTrue(r.buffer.receive, RECEIVER, d, e)
      /\ r.buffer.send.length = (IF r.added THEN L + 1 ELSE L)
      /\ r.buffer.receive.length = r.buffer.send.length
  <2>1. CASE r.added = FALSE /\ r.buffer = b
    BY <1>1, <2>1
  <2>2. CASE r.added = TRUE
    <3>1. PICK b2 \in Rows, a3 \in Rows : LET B2 == listB.row[b2]
                                              A3 == listA.row[a3]
            IN  /\ IsFull(A1) /\ IsFull(B2) /\ IsFull(A3)
                /\ status = SENDER => B2.rx < A1.tx /\ A3.tx < B2.rx
                /\ status = RECEIVER => B2.tx < A1.rx /\ A3.rx < B2.tx
                /\ ~Negative(A3, B2, A1)
                /\ r.buffer = AddPair(b, status, A3, B2, A1)
      BY <1>2, <2>2
    <3>. DEFINE B2 == listB.row[b2]
                A3 == listA.row[a3]
    <3>2. B2 \in RowType /\ A3 \in RowType
      BY DEF ListType
    <3>3. Short => Joined(status, A1, B2, d, e) /\ Joined(status, A3, B2, d, e)
      BY <3>1 DEF RowChoices
    <3>4. Short => /\ status = SENDER => B2.rx < A1.tx
                   /\ status = RECEIVER => A3.rx < B2.tx
                   /\ ~Negative(A3, B2, A1)
      BY <3>1
    <3>5. r.buffer = AddPair(b, status, A3, B2, A1)
      BY <3>1
    <3>6. b.send.length < MAX_INITIAL_CALCULATION
      BY <1>1
    <3>. HIDE DEF b, r, A1, B2, A3
    <3>7. LET q == AddPair(b, status, A3, B2, A1)
          IN  /\ q \in BufferType
              /\ RingTrue(q.send, SENDER, d, e) /\ RingTrue(q.receive, RECEIVER, d, e)
              /\ q.send.length = b.send.length + 1 /\ q.receive.length = b.send.length + 1
      BY <1>1, <3>2, <3>3, <3>4, <3>6, PairStays
    <3>. QED  BY <2>2, <3>5, <3>7
  <2>. QED  BY <1>2, <2>1, <2>2
<1>4. /\ ring \in RingType /\ RingOK(ring) /\ (other = SENDER \/ other = RECEIVER)
      /\ ring = (IF other = SENDER THEN r.buffer.send ELSE r.buffer.receive)
      /\ RingTrue(ring, other, d, e)
  <2>1. other \in {SENDER, RECEIVER}
    BY OppositeStatus
  <2>. HIDE DEF r, other
  <2>. QED  BY <1>3, <2>1 DEF BufferType, RingTrue, SENDER, RECEIVER
<1>. HIDE DEF ring, S
<1>5. RingTrue(new, other, d, e) /\ new.length = ring.length
  <2>1. /\ new \in RingType /\ RingOK(new) /\ new.length = ring.length
        /\ Short => \A k \in Held(new) : RecordTrue(new.rec[k], other, d, e)
    <3>. HIDE DEF other
    <3>. QED  BY <1>4, AverageStays DEF RingTrue
  <2>. HIDE DEF new, other
  <2>. QED  BY <2>1 DEF RingTrue
<1>6. t = WithBuffer(s, c, sum, s.valid)
  <2>1. new = [ring EXCEPT !.rec = [k \in Records |->
                 IF ended /\ k \in averaged THEN [ring.rec[k] EXCEPT !.sumTof = InitialSum]
                 ELSE ring.rec[k]]]
    BY DEF S
  <2>. QED  BY <2>1 DEF Initialize, CallType, ring, WithBuffer
<1>. HIDE DEF new, t
<1>7. /\ c \in BufferType /\ BufferTrue(c, d, e) /\ c.send.length = r.buffer.send.length
  <2>1. c = [send |-> IF other = SENDER THEN new ELSE r.buffer.send,
             receive |-> IF other = SENDER THEN r.buffer.receive ELSE new]
    <3>. HIDE DEF r, other
    <3>. QED  BY <1>3, <1>4 DEF BufferType, SENDER, RECEIVER
  <2>. HIDE DEF c, r, other
  <2>2. /\ c.send = (IF other = SENDER THEN new ELSE r.buffer.send)
        /\ c.receive = (IF other = SENDER THEN r.buffer.receive ELSE new)
    BY <2>1
  <2>3. /\ RingTrue(c.send, SENDER, d, e) /\ RingTrue(c.receive, RECEIVER, d, e)
        /\ c.send.length = r.buffer.send.length /\ c.receive.length = r.buffer.receive.length
    BY <1>3, <1>4, <1>5, <2>2
  <2>4. c \in BufferType
    BY <2>1, <2>2, <2>3 DEF BufferType, RingTrue
  <2>. QED  BY <1>3, <2>3, <2>4, BufferRings
<1>. HIDE DEF c
<1>8. /\ sum \in Seq(Drones)
      /\ r.added => sum = Append(s.sum, e)
      /\ ~r.added => sum = s.sum
  <2>. HIDE DEF r
  <2>. QED  BY <1>1, <1>3 DEF sumWith
<1>. HIDE DEF sum
<1>9. Single => SumOf(sum, c, e)
  <2>. SUFFICES ASSUME Single  PROVE SumOf(sum, c, e)
    OBVIOUS
  <2>1. Len(s.sum) = L /\ \A k \in 1..L : s.sum[k] = e
    BY <1>1 DEF CallBuffer, SumOf
  <2>2. CASE r.added
    <3>. DEFINE q == s.sum
    <3>1. sum = Append(q, e) /\ q \in Seq(Drones) /\ Len(q) = L /\ c.send.length = L + 1
      BY <1>1, <1>3, <1>7, <1>8, <2>1, <2>2
    <3>. HIDE DEF q, L, r
    <3>2. Len(sum) = L + 1 /\ \A k \in 1..L + 1 : sum[k] = e
      BY <1>1, <2>1, <3>1, Appended DEF q
    <3>3. L + 1 < MAX_INITIAL_CALCULATION \/ L + 1 = MAX_INITIAL_CALCULATION
      BY <1>1, Sizes
    <3>. QED  BY <3>1, <3>2, <3>3 DEF SumOf
  <2>3. CASE ~r.added
    <3>1. sum = s.sum /\ c.send.length = L
      BY <1>3, <1>7, <1>8, <2>3
    <3>. HIDE DEF L, r
    <3>. QED  BY <1>1, <2>1, <3>1 DEF SumOf
  <2>. QED  BY <1>3, <2>2, <2>3
<1>10. s.valid \in BOOLEAN
  BY CallFields
<1>11. /\ t \in CallType /\ t.table.validBuffer = c /\ t.sum = sum
       /\ t.table.sendList = s.table.sendList /\ t.table.receiveList = s.table.receiveList
  BY <1>6, <1>7, <1>8, <1>10, NewBuffer
<1>12. CallBuffer(t, d, e)
  BY <1>7, <1>9, <1>11 DEF CallBuffer
<1>. QED  BY <1>11, <1>12 DEF t

\* A distance adds at most one record, of a communication the buffer has.
LEMMA CalculateStays ==
  ASSUME TypeOK, Histories, NEW d \in Drones, NEW e \in Drones, d # e,
         NEW s \in CallType, CallBuffer(s, d, e),
         s.table.validBuffer.send.length >= MAX_INITIAL_CALCULATION,
         NEW row \in RowType, NEW status \in {SENDER, RECEIVER},
         status = SENDER => IsTrue(row, d, e), status = RECEIVER => IsTrue(row, e, d),
         NEW t \in Calculate(s, row, status)
  PROVE  /\ t \in CallType /\ t.table.sendList = s.table.sendList
         /\ t.table.receiveList = s.table.receiveList /\ CallBuffer(t, d, e)
<1>. DEFINE b == s.table.validBuffer
            other == Opposite(status)
            rec == b[other].rec
<1>1. PICK r \in calculateTof(b, row, status) :
        t = [s EXCEPT !.table.validBuffer = r.buffer, !.valid = (@ \/ r.added)]
  BY DEF Calculate
<1>2. /\ b \in BufferType /\ BufferTrue(b, d, e) /\ s.sum \in Seq(Drones) /\ s.valid \in BOOLEAN
      /\ b.send \in RingType /\ b.receive \in RingType
      /\ RingTrue(b.send, SENDER, d, e) /\ RingTrue(b.receive, RECEIVER, d, e)
      /\ b.send.length >= MAX_INITIAL_CALCULATION /\ b.receive.length >= MAX_INITIAL_CALCULATION
      /\ b.send.length \in Nat /\ b.receive.length \in Nat
  <2>1. /\ b \in BufferType /\ BufferTrue(b, d, e) /\ s.sum \in Seq(Drones) /\ s.valid \in BOOLEAN
    BY CallFields DEF CallBuffer
  <2>2. b.send \in RingType /\ b.receive \in RingType
    BY <2>1 DEF BufferType
  <2>3. b.send.length \in Nat /\ b.receive.length \in Nat
    BY <2>2 DEF RingType
  <2>. QED  BY <2>1, <2>2, <2>3, BufferRings
<1>3. \/ r = [buffer |-> b, added |-> FALSE]
      \/ \E i \in Held(b[other]), j \in Records :
           r = [added  |-> TRUE,
                buffer |-> [b EXCEPT ![status] =
                  AddRecord(@, Record(status, row, rec[i][other], "modified", rec[j][other]))]]
  <2>. HIDE DEF b
  <2>. QED  BY <1>2, CalculateAdds
<1>4. /\ r.buffer \in BufferType /\ r.added \in BOOLEAN /\ BufferTrue(r.buffer, d, e)
      /\ r.buffer.send.length >= MAX_INITIAL_CALCULATION
  <2>1. CASE r = [buffer |-> b, added |-> FALSE]
    BY <1>2, <2>1
  <2>2. ASSUME NEW i \in Held(b[other]), NEW j \in Records,
               r = [added  |-> TRUE,
                    buffer |-> [b EXCEPT ![status] =
                      AddRecord(@, Record(status, row, rec[i][other], "modified", rec[j][other]))]]
        PROVE  <1>4!:
    <3>. DEFINE new == Record(status, row, rec[i][other], "modified", rec[j][other])
    <3>1. i \in Records /\ other \in {SENDER, RECEIVER} /\ other # status
      BY OppositeStatus DEF Held
    <3>2. b[other] \in RingType /\ RingTrue(b[other], other, d, e)
      <4>. HIDE DEF b, other
      <4>. QED  BY <1>2, <3>1 DEF SENDER, RECEIVER, BufferType
    <3>3. rec[i] \in RecordType /\ rec[j] \in RecordType
      BY <3>1, <3>2 DEF RingType
    <3>4. Timed(rec[i][other]) /\ Timed(rec[j][other]) /\ Timed(row)
      <4>. HIDE DEF rec, other
      <4>. QED  BY <3>1, <3>3, TimedHalf DEF RecordType, SENDER, RECEIVER
    <3>5. Short => Joined(status, row, rec[i][other], d, e)
      <4>. SUFFICES ASSUME Short  PROVE Joined(status, row, rec[i][other], d, e)
        OBVIOUS
      <4>1. RecordTrue(rec[i], other, d, e)
        BY <3>2 DEF RingTrue
      <4>2. other = SENDER => IsTrue(rec[i][other], d, e)
        BY <4>1 DEF RecordTrue, SENDER
      <4>3. other = RECEIVER => IsTrue(rec[i][other], e, d)
        BY <4>1 DEF RecordTrue, RECEIVER
      <4>4. (status = SENDER => other = RECEIVER) /\ (status # SENDER => status = RECEIVER /\ other = SENDER)
        BY DEF Opposite, SENDER, RECEIVER
      <4>. HIDE DEF rec, other
      <4>. QED  BY <4>2, <4>3, <4>4 DEF Joined
    <3>6. new \in RecordType
      BY <3>4, RecordHalves
    <3>7. Short => RecordTrue(new, status, d, e)
      <4>. HIDE DEF rec, other
      <4>. QED  BY <3>4, <3>5, RecordStays
    <3>8. r.added = TRUE /\ r.buffer = [b EXCEPT ![status] = AddRecord(@, new)]
      BY <2>2
    <3>. HIDE DEF new, b
    <3>9. CASE status = SENDER
      <4>. DEFINE q == AddRecord(b.send, new)
      <4>1. /\ q \in RingType /\ RingTrue(q, SENDER, d, e)
            /\ q.length = IF b.send.length < RANGING_BUFFER_SIZE THEN b.send.length + 1
                          ELSE RANGING_BUFFER_SIZE
        BY <1>2, <3>6, <3>7, <3>9, RingStays DEF RingTrue
      <4>2. q.length >= MAX_INITIAL_CALCULATION
        BY <1>2, <4>1, Sizes
      <4>. HIDE DEF q
      <4>3. r.buffer = [send |-> q, receive |-> b.receive]
        BY <1>2, <3>8, <3>9 DEF BufferType, SENDER, RECEIVER, q
      <4>4. r.buffer \in BufferType /\ r.buffer.send = q /\ r.buffer.receive = b.receive
        BY <1>2, <4>1, <4>3 DEF BufferType
      <4>. QED  BY <1>2, <3>8, <4>1, <4>2, <4>4, BufferRings
    <3>10. CASE status = RECEIVER
      <4>. DEFINE q == AddRecord(b.receive, new)
      <4>1. /\ q \in RingType /\ RingTrue(q, RECEIVER, d, e)
            /\ q.length = IF b.receive.length < RANGING_BUFFER_SIZE THEN b.receive.length + 1
                          ELSE RANGING_BUFFER_SIZE
        BY <1>2, <3>6, <3>7, <3>10, RingStays DEF RingTrue
      <4>2. q.length >= MAX_INITIAL_CALCULATION
        BY <1>2, <4>1, Sizes
      <4>. HIDE DEF q
      <4>3. r.buffer = [send |-> b.send, receive |-> q]
        BY <1>2, <3>8, <3>10 DEF BufferType, SENDER, RECEIVER, q
      <4>4. r.buffer \in BufferType /\ r.buffer.send = b.send /\ r.buffer.receive = q
        BY <1>2, <4>1, <4>3 DEF BufferType
      <4>. QED  BY <1>2, <3>8, <4>1, <4>2, <4>4, BufferRings
    <3>. QED  BY <3>9, <3>10
  <2>. QED  BY <1>3, <2>1, <2>2
<1>5. t = WithBuffer(s, r.buffer, s.sum, s.valid \/ r.added)
  BY <1>1 DEF CallType, WithBuffer
<1>6. (s.valid \/ r.added) \in BOOLEAN
  BY <1>2, <1>4
<1>7. /\ t \in CallType /\ t.table.validBuffer = r.buffer /\ t.sum = s.sum
      /\ t.table.sendList = s.table.sendList /\ t.table.receiveList = s.table.receiveList
  BY <1>2, <1>4, <1>5, <1>6, NewBuffer
<1>8. Single => SumOf(s.sum, r.buffer, e)
  <2>. SUFFICES ASSUME Single  PROVE SumOf(s.sum, r.buffer, e)
    OBVIOUS
  <2>1. Len(s.sum) = MAX_INITIAL_CALCULATION /\ \A k \in 1..Len(s.sum) : s.sum[k] = e
    BY <1>2, Sizes DEF CallBuffer, SumOf
  <2>2. r.buffer.send.length \in Nat
    BY <1>4 DEF BufferType, RingType
  <2>. QED  BY <1>4, <2>1, <2>2, Sizes DEF SumOf
<1>. QED  BY <1>4, <1>7, <1>8 DEF CallBuffer
-----------------------------------------------------------------------------
(* A time of the header.                                                   *)

\* What the lists say of their rows.
LEMMA RowFacts ==
  ASSUME NEW d, NEW e, NEW row
  PROVE  /\ SendRow(row, d, e) /\ IsFull(row) => IsTrue(row, d, e)
         /\ ReceiveRow(row, d, e) /\ row.remoteSeq # NULL_SEQ =>
              IsTrue(row, e, d) /\ row.remoteSeq = row.localSeq
         /\ ReceiveRow(row, d, e) /\ IsFull(row) =>
              /\ Arrived(<<e, d>>, row.localSeq) /\ row.rx = heardAt[<<e, d>>][row.localSeq]
              /\ row.remoteSeq = row.localSeq => IsTrue(row, e, d)
  BY DEF SendRow, ReceiveRow, IsFull, IsTrue, Arrived, NullRow, NULL_SEQ, NULL_TIMESTAMP

\* The next time of the header is that of message q: done, or not in the list.
LEMMA ListsAdvance ==
  ASSUME NEW t, t.receiveList \in ListType, NEW d, NEW e, NEW k \in 1..MESSAGE_HEAD_TX_SIZE,
         ListsTrue(t, d, e, k - 1), NEW q \in Int,
         q = Newest(t.receiveList) - (MESSAGE_HEAD_TX_SIZE + 1 - k),
         \A i \in Rows : LET row == t.receiveList.row[i]
                         IN  row.localSeq # NULL_SEQ /\ row.localSeq = q => row.remoteSeq = q
  PROVE  ListsTrue(t, d, e, k)
<1>. DEFINE list == t.receiveList
            n == Newest(list)
            H == MESSAGE_HEAD_TX_SIZE
<1>1. n \in Nat /\ H \in Nat /\ k \in 1..H /\ q = n - (H + 1 - k)
  BY Sizes DEF ListsTrue, ListType, RowType, Newest
<1>2. \A i \in Rows : list.row[i].localSeq \in Nat
  BY DEF ListType, RowType
<1>3. n - H + (k - 1) = q /\ n - H + k = q + 1
  BY <1>1
<1>4. Redundant(list, k - 1) /\ (Short => Complete(list, k - 1))
  BY DEF ListsTrue
<1>5. Redundant(list, k)
  <2>1. SUFFICES ASSUME NEW i \in Rows, NEW j \in Rows, list.row[i].localSeq # NULL_SEQ,
                        list.row[j].localSeq \in list.row[i].localSeq + 1..list.row[i].localSeq + H,
                        list.row[j].localSeq = n => list.row[i].localSeq < n - H + k
                 PROVE  list.row[i].remoteSeq = list.row[i].localSeq
    BY DEF Redundant
  <2>. DEFINE seq == list.row[i].localSeq
              later == list.row[j].localSeq
  <2>2. seq \in Nat /\ later \in Nat
    BY <1>2
  <2>3. CASE seq = q
    BY <2>1, <2>3
  <2>4. CASE seq # q
    <3>1. later = n => seq < n - H + (k - 1)
      <4>. HIDE DEF seq, later, n, H
      <4>1. later = n => seq < q + 1
        BY <1>3, <2>1 DEF seq, later, n, H
      <4>. QED  BY <1>1, <1>3, <2>2, <2>4, <4>1
    <3>. QED  BY <1>4, <2>1, <3>1 DEF Redundant
  <2>. QED  BY <2>3, <2>4
<1>6. Short => Complete(list, k)
  <2>1. SUFFICES ASSUME Short, NEW i \in Rows
                 PROVE  \/ list.row[i].localSeq \in {NULL_SEQ, n}
                        \/ list.row[i].remoteSeq = list.row[i].localSeq
                        \/ list.row[i].localSeq >= n - H + k
    BY DEF Complete
  <2>. DEFINE seq == list.row[i].localSeq
  <2>2. \/ seq \in {NULL_SEQ, n}
        \/ list.row[i].remoteSeq = seq
        \/ seq >= n - H + (k - 1)
    BY <1>4, <2>1 DEF Complete
  <2>3. seq \in Nat /\ (seq # NULL_SEQ /\ seq = q => list.row[i].remoteSeq = q)
    BY <1>2
  <2>. HIDE DEF seq, n, H
  <2>. QED  BY <1>1, <1>3, <2>2, <2>3 DEF seq, n, H
<1>. QED  BY <1>5, <1>6 DEF ListsTrue

\* The row i of message q is done in new, and nothing else changed.
Filled(new, list, i, q) ==
  /\ new \in ListType /\ Newest(new) = Newest(list)
  /\ new.row[i].localSeq = q /\ new.row[i].remoteSeq = q
  /\ \A j \in Rows : /\ new.row[j].localSeq = list.row[j].localSeq
                     /\ new.row[j].rx = list.row[j].rx
                     /\ j # i => new.row[j] = list.row[j]

\* The departure of message q completes its row.
LEMMA ListsFilled ==
  ASSUME NEW t, NEW list \in ListType, list = t.receiveList, NEW d, NEW e, NEW k \in Nat,
         ListsTrue(t, d, e, k), NEW i \in Rows, NEW q \in Nat \ {0}, list.row[i].localSeq = q,
         NEW tx \in Nat, tx = sentAt[e][q]
  PROVE  LET new == FillDeparture(list, i, q, tx)
         IN  /\ \A u : u.sendList = t.sendList /\ u.receiveList = new => ListsTrue(u, d, e, k)
             /\ Filled(new, list, i, q)
<1>. DEFINE new == FillDeparture(list, i, q, tx)
<1>1. /\ new \in ListType /\ new.top = list.top
      /\ new.row[i] = [tx |-> tx, rx |-> list.row[i].rx,
                       localSeq |-> list.row[i].localSeq, remoteSeq |-> q]
      /\ \A j \in Rows \ {i} : new.row[j] = list.row[j]
  BY DepartureRows
<1>. HIDE DEF new
<1>2. /\ new.row[i].tx = tx /\ new.row[i].localSeq = q /\ new.row[i].remoteSeq = q
      /\ new.row[i].rx = list.row[i].rx
  BY <1>1
<1>3. \A j \in Rows : /\ new.row[j].localSeq = list.row[j].localSeq
                      /\ new.row[j].rx = list.row[j].rx
                      /\ j # i => new.row[j] = list.row[j]
  BY <1>1, <1>2
<1>4. list.top \in Rows /\ Newest(new) = Newest(list)
  BY <1>1, <1>3 DEF ListsTrue, Newest
<1>5. \A j \in Rows : ReceiveRow(list.row[j], d, e)
  BY DEF ListsTrue
<1>6. ReceiveRow(new.row[i], d, e)
  BY <1>2, <1>5 DEF ReceiveRow, NullRow, NULL_SEQ
<1>7. \A j \in Rows : ReceiveRow(new.row[j], d, e)
  BY <1>3, <1>5, <1>6
<1>8. Redundant(new, k)
  <2>1. Redundant(list, k)
    BY DEF ListsTrue
  <2>. QED  BY <1>2, <1>3, <1>4, <2>1 DEF Redundant
<1>9. Short => Complete(new, k)
  <2>1. Short => Complete(list, k)
    BY DEF ListsTrue
  <2>. QED  BY <1>2, <1>3, <1>4, <2>1 DEF Complete
<1>10. ASSUME NEW u, u.sendList = t.sendList, u.receiveList = new
       PROVE  ListsTrue(u, d, e, k)
  <2>1. /\ \A j \in Rows : SendRow(u.sendList.row[j], d, e)
        /\ list.top \in Rows /\ Newest(list) # NULL_SEQ
        /\ \A j \in Rows : list.row[j].localSeq <= Newest(list)
        /\ \A j, l \in Rows : list.row[j].localSeq = list.row[l].localSeq
                              /\ list.row[j].localSeq # NULL_SEQ => j = l
    BY <1>10 DEF ListsTrue
  <2>. QED  BY <1>1, <1>3, <1>4, <1>7, <1>8, <1>9, <1>10, <2>1 DEF ListsTrue
<1>. QED  BY <1>1, <1>2, <1>3, <1>4, <1>10 DEF new, Filled

\* After k times of the header of m: the lists, the buffer and the sum of the
\* call are true.
CallTrue(s, d, m, k) ==
  /\ s \in CallType /\ ListsTrue(s.table, d, m.srcAddress, k)
  /\ Newest(s.table.receiveList) = m.msgSequence
  /\ CallBuffer(s, d, m.srcAddress)

\* ListsTrue is about the two lists only.
LEMMA SameLists ==
  ASSUME NEW u, NEW t, t.sendList = u.sendList, t.receiveList = u.receiveList,
         NEW d, NEW e, NEW k, ListsTrue(u, d, e, k)
  PROVE  ListsTrue(t, d, e, k)
  BY DEF ListsTrue

\* A turn for a header time
LEMMA TxTurn ==
  ASSUME TypeOK, Histories, NEW d \in Drones, NEW m \in MessageType, m.srcAddress # d,
         MessageTrue(m), NEW k \in 1..MESSAGE_HEAD_TX_SIZE, NEW s, CallTrue(s, d, m, k - 1),
         NEW i, i = MESSAGE_HEAD_TX_SIZE + 1 - k, NEW t \in processTx(s, m, i)
  PROVE  CallTrue(t, d, m, k)
<1>. PICK e, n, q, list, Tx, x :
       /\ e = m.srcAddress /\ n = m.msgSequence /\ q = n - i /\ list = s.table.receiveList
       /\ Tx = m.Tx[i] /\ x = findLocalSeqIndex(list, Tx.seqNumber)
  OBVIOUS
<1>1. /\ e \in Drones /\ d # e /\ n \in Nat /\ <<e, d>> \in Links /\ list \in ListType
      /\ k - 1 \in Nat /\ i \in 1..MESSAGE_HEAD_TX_SIZE /\ q \in Int
  <2>1. i \in 1..MESSAGE_HEAD_TX_SIZE /\ k - 1 \in Nat
    BY Sizes
  <2>2. n \in Nat /\ e \in Drones
    BY DEF MessageType
  <2>3. list \in ListType
    BY CallFields DEF CallTrue
  <2>. QED  BY <2>1, <2>2, <2>3 DEF Links
<1>2. /\ Tx = IF i < n THEN [seqNumber |-> q, timestamp |-> sentAt[e][q]] ELSE NoTime
      /\ Tx \in TimeType
  <2>1. m.Tx \in [1..MESSAGE_HEAD_TX_SIZE -> TimeType]
    BY DEF MessageType
  <2>. QED  BY <1>1, <2>1 DEF MessageTrue, HeaderTrue, TimeOf
<1>3. /\ s \in CallType /\ ListsTrue(s.table, d, e, k - 1) /\ Newest(list) = n
      /\ CallBuffer(s, d, e)
      /\ \A j \in Rows : /\ SendRow(s.table.sendList.row[j], d, e)
                         /\ ReceiveRow(list.row[j], d, e)
      /\ list.top \in Rows
  BY DEF CallTrue, ListsTrue
<1>4. q = n - (MESSAGE_HEAD_TX_SIZE + 1 - k)
  OBVIOUS
<1>5. \A j \in Rows : list.row[j].localSeq \in Nat
  BY <1>1 DEF ListType, RowType
\* The list has no row of q that is not done.
<1>6. ASSUME \A j \in Rows : LET row == list.row[j]
                             IN  row.localSeq # NULL_SEQ /\ row.localSeq = q => row.remoteSeq = q
      PROVE  CallTrue(s, d, m, k)
  <2>1. ListsTrue(s.table, d, e, k)
    BY <1>1, <1>3, <1>4, <1>6, ListsAdvance
  <2>. QED  BY <1>3, <2>1 DEF CallTrue
<1>7. CASE Tx.seqNumber = NULL_SEQ \/ x \in {NULL_INDEX, NULL_DONE_INDEX}
  <2>1. t = s
    BY <1>7 DEF processTx
  <2>2. CASE Tx.seqNumber = NULL_SEQ
    <3>1. q <= 0
      <4>1. i < n => Tx.seqNumber = q
        BY <1>2
      <4>. QED  BY <1>1, <2>2, <4>1 DEF NULL_SEQ
    <3>2. \A j \in Rows : list.row[j].localSeq # NULL_SEQ => list.row[j].localSeq # q
      BY <1>1, <1>5, <3>1 DEF NULL_SEQ
    <3>. QED  BY <1>6, <2>1, <3>2
  <2>3. CASE Tx.seqNumber # NULL_SEQ /\ x \in {NULL_INDEX, NULL_DONE_INDEX}
    <3>1. Tx.seqNumber = q /\ q \in Nat
      BY <1>2, <2>3 DEF NoTime, TimeType
    <3>2. x = NULL_INDEX => \A j \in Rows : list.row[j].localSeq # q
      <4>1. list.top # NULL_INDEX
        BY <1>3, RowsSize DEF NULL_INDEX
      <4>2. NULL_INDEX \notin Rows /\ NULL_INDEX # NULL_DONE_INDEX
        BY RowsSize DEF NULL_INDEX, NULL_DONE_INDEX
      <4>. QED  BY <1>1, <3>1, <4>1, <4>2, FindRow
    <3>3. x = NULL_DONE_INDEX => \E j \in Rows : list.row[j].remoteSeq = q
      <4>1. NULL_DONE_INDEX \notin Rows /\ NULL_INDEX # NULL_DONE_INDEX
        BY RowsSize DEF NULL_INDEX, NULL_DONE_INDEX
      <4>. QED  BY <1>1, <3>1, <4>1, FindRow
    <3>4. ASSUME NEW j \in Rows, list.row[j].localSeq # NULL_SEQ, list.row[j].localSeq = q
          PROVE  list.row[j].remoteSeq = q
      <4>1. PICK l \in Rows : list.row[l].remoteSeq = q
        BY <2>3, <3>2, <3>3, <3>4
      <4>2. list.row[l].localSeq = q
        <5>1. ReceiveRow(list.row[l], d, e) /\ list.row[l].remoteSeq # NULL_SEQ
          BY <1>3, <2>3, <3>1, <4>1
        <5>. QED  BY <4>1, <5>1 DEF ReceiveRow, NullRow, NULL_SEQ
      <4>3. j = l
        BY <1>3, <3>4, <4>2 DEF ListsTrue
      <4>. QED  BY <4>1, <4>3
    <3>. QED  BY <1>6, <2>1, <3>4
  <2>. QED  BY <1>7, <2>2, <2>3
<1>8. CASE ~(Tx.seqNumber = NULL_SEQ \/ x \in {NULL_INDEX, NULL_DONE_INDEX})
  <2>. PICK tx, h : tx = sentAt[e][q] /\ h = k - 1
    OBVIOUS
  <2>. DEFINE new == FillDeparture(list, x, q, tx)
              u == [s EXCEPT !.table.receiveList = new]
              A1 == new.row[x]
  <2>1. Tx.seqNumber = q /\ Tx.timestamp = tx /\ q \in Nat \ {0} /\ tx \in Nat /\ h \in Nat
    BY <1>1, <1>2, <1>8 DEF NoTime, TimeType, NULL_SEQ
  <2>2. x \in Rows /\ list.row[x].localSeq = q
    BY <1>1, <1>8, <2>1, FindRow
  <2>3. new \in ListType
    BY <1>1, <2>1, <2>2, DepartureRows
  <2>4. /\ u \in CallType /\ u.sum = s.sum /\ u.table.validBuffer = s.table.validBuffer
        /\ u.table.sendList = s.table.sendList /\ u.table.receiveList = new
    <3>. HIDE DEF new
    <3>. QED  BY <1>3, <2>3, NewReceiveList, ZenonT(60)
  <2>. HIDE DEF u
  <2>5. /\ ListsTrue(u.table, d, e, k - 1) /\ Newest(new) = Newest(list)
        /\ A1.localSeq = q /\ A1.remoteSeq = q
        /\ \A j \in Rows : /\ new.row[j].localSeq = list.row[j].localSeq
                           /\ new.row[j].rx = list.row[j].rx
                           /\ j # x => new.row[j] = list.row[j]
    <3>1. /\ ListsTrue(s.table, d, e, h) /\ list = s.table.receiveList /\ list \in ListType
          /\ h \in Nat /\ x \in Rows /\ q \in Nat \ {0} /\ list.row[x].localSeq = q
          /\ tx \in Nat /\ tx = sentAt[e][q]
      BY <1>1, <1>3, <2>1, <2>2
    <3>2. LET l == FillDeparture(list, x, q, tx)
          IN  /\ \A z : z.sendList = s.table.sendList /\ z.receiveList = l => ListsTrue(z, d, e, h)
              /\ Filled(l, list, x, q)
      BY ONLY <3>1, ListsFilled
    <3>. HIDE DEF new
    <3>. QED  BY <2>4, <3>2 DEF new, Filled
  <2>. HIDE DEF new
  <2>6. /\ \A j \in Rows : ReceiveRow(new.row[j], d, e) /\ new.row[j] \in RowType
        /\ \A j \in Rows : SendRow(u.table.sendList.row[j], d, e)
        /\ u.table.sendList \in ListType
        /\ \A j, l \in Rows : new.row[j].localSeq = new.row[l].localSeq
                              /\ new.row[j].localSeq # NULL_SEQ => j = l
    <3>1. u.table.sendList \in ListType
      BY <2>4, CallFields
    <3>. QED  BY <2>3, <2>4, <2>5, <3>1 DEF ListsTrue, ListType
  <2>7. IsTrue(A1, e, d) /\ A1 \in RowType /\ Arrived(<<e, d>>, q) /\ A1.rx = heardAt[<<e, d>>][q]
    <3>1. ReceiveRow(A1, d, e) /\ A1 \in RowType
      BY <2>2, <2>6
    <3>. HIDE DEF A1
    <3>2. A1.remoteSeq # NULL_SEQ
      BY <2>1, <2>5 DEF NULL_SEQ
    <3>3. IsTrue(A1, e, d)
      BY <3>1, <3>2, RowFacts
    <3>4. Arrived(<<e, d>>, q) /\ A1.rx = heardAt[<<e, d>>][q]
      BY <2>1, <2>5, <3>1 DEF ReceiveRow, NullRow, NULL_SEQ
    <3>. QED  BY <3>1, <3>3, <3>4
  <2>8. ListsTrue(u.table, d, e, k)
    <3>1. ASSUME NEW j \in Rows, new.row[j].localSeq = q
          PROVE  new.row[j].remoteSeq = q
      <4>1. j = x
        BY <2>1, <2>2, <2>5, <2>6, <3>1 DEF NULL_SEQ
      <4>. QED  BY <2>5, <4>1
    <3>2. u.table.receiveList = new /\ k \in 1..MESSAGE_HEAD_TX_SIZE /\ q \in Int
      BY <1>1, <2>1, <2>4
    <3>3. q = Newest(u.table.receiveList) - (MESSAGE_HEAD_TX_SIZE + 1 - k)
      BY <1>3, <1>4, <2>4, <2>5
    <3>. QED  BY ONLY <2>3, <2>5, <3>1, <3>2, <3>3, ListsAdvance
  <2>9. Newest(u.table.receiveList) = n
    BY <1>3, <2>4, <2>5
  <2>10. CallBuffer(u, d, e)
    BY <1>3, <2>4 DEF CallBuffer
  <2>11. SUFFICES /\ t \in CallType /\ t.table.sendList = u.table.sendList
                  /\ t.table.receiveList = u.table.receiveList /\ CallBuffer(t, d, e)
    <3>1. t.table.sendList = u.table.sendList /\ t.table.receiveList = u.table.receiveList
          => ListsTrue(t.table, d, e, k)
      BY <2>8, SameLists
    <3>. QED  BY <2>9, <3>1 DEF CallTrue
  <2>12. t \in IF s.table.validBuffer.send.length < MAX_INITIAL_CALCULATION
               THEN {Initialize(u, e, new, u.table.sendList, x, RECEIVER, {i - 1})}
               ELSE Calculate(u, A1, RECEIVER)
    <3>. QED  BY <1>8, <2>1 DEF processTx, u, new
  <2>13. CASE s.table.validBuffer.send.length < MAX_INITIAL_CALCULATION
    <3>1. t = Initialize(u, e, new, u.table.sendList, x, RECEIVER, {i - 1})
      BY <2>12, <2>13
    <3>2. ASSUME Short, NEW b2 \in Rows, NEW a3 \in Rows, NEW B2, NEW A3,
                 B2 = u.table.sendList.row[b2], A3 = new.row[a3],
                 IsFull(A1), IsFull(B2), IsFull(A3), B2.tx < A1.rx, A3.rx < B2.tx
          PROVE  Joined(RECEIVER, A1, B2, d, e) /\ Joined(RECEIVER, A3, B2, d, e)
      <4>1. IsTrue(B2, d, e) /\ B2 \in RowType
        BY <2>6, <3>2, RowFacts DEF ListType
      <4>2. /\ ReceiveRow(A3, d, e) /\ A3 \in RowType
            /\ Arrived(<<e, d>>, A3.localSeq) /\ A3.rx = heardAt[<<e, d>>][A3.localSeq]
            /\ A3.remoteSeq = A3.localSeq => IsTrue(A3, e, d)
        BY <2>6, <3>2, RowFacts
      <4>3. A3.rx < A1.rx
        <5>. HIDE DEF A1
        <5>1. A1.rx \in Nat /\ B2.tx \in Nat /\ A3.rx \in Nat
          BY <2>7, <4>1, <4>2 DEF RowType
        <5>. QED  BY <3>2, <5>1
      <4>4. A3.localSeq < q /\ A3.localSeq \in Nat /\ A3.localSeq # NULL_SEQ
        <5>. HIDE DEF A1
        <5>1. heardAt[<<e, d>>][A3.localSeq] < heardAt[<<e, d>>][q]
          BY <2>7, <4>2, <4>3
        <5>2. A3.localSeq < q
          BY <1>1, <2>7, <4>2, <5>1, HeardOrder
        <5>3. A3.localSeq \in 1..Len(heardAt[<<e, d>>])
          BY <4>2 DEF Arrived
        <5>. QED  BY <5>2, <5>3 DEF NULL_SEQ
      <4>5. \/ A3.localSeq \in {NULL_SEQ, n}
            \/ A3.remoteSeq = A3.localSeq
            \/ A3.localSeq >= n - MESSAGE_HEAD_TX_SIZE + k
        BY <2>4, <2>8, <2>9, <3>2 DEF ListsTrue, Complete
      <4>6. A3.remoteSeq = A3.localSeq
        BY <1>1, <1>4, <2>1, <4>4, <4>5, Sizes
      <4>. QED  BY <2>7, <4>1, <4>2, <4>6 DEF Joined, SENDER, RECEIVER
    <3>3. RECEIVER # SENDER /\ RECEIVER \in {SENDER, RECEIVER}
      BY DEF SENDER, RECEIVER
    <3>4. Short => RowChoices(new, u.table.sendList, x, RECEIVER, d, e)
      BY <3>2 DEF RowChoices
    <3>5. u.table.validBuffer.send.length < MAX_INITIAL_CALCULATION
      BY <2>4, <2>13
    <3>. HIDE DEF A1
    <3>6. LET z == Initialize(u, e, new, u.table.sendList, x, RECEIVER, {i - 1})
          IN  /\ z \in CallType /\ z.table.sendList = u.table.sendList
              /\ z.table.receiveList = u.table.receiveList /\ CallBuffer(z, d, e)
      <4>1. TypeOK /\ Histories /\ d \in Drones /\ e \in Drones /\ d # e
        BY <1>1
      <4>2. u \in CallType /\ u.table.sendList \in ListType
        BY <2>4, <2>6
      <4>. QED  BY ONLY <2>2, <2>3, <2>10, <3>3, <3>4, <3>5, <4>1, <4>2, InitializeStays
    <3>. QED  BY <3>1, <3>6
  <2>14. CASE ~(s.table.validBuffer.send.length < MAX_INITIAL_CALCULATION)
    <3>1. t \in Calculate(u, A1, RECEIVER)
      BY <2>12, <2>14
    <3>2. u.table.validBuffer.send.length >= MAX_INITIAL_CALCULATION
      <4>1. u.table.validBuffer.send.length \in Nat
        <5>1. u.table.validBuffer \in BufferType
          BY <2>4, CallFields
        <5>. QED  BY <5>1 DEF BufferType, RingType
      <4>. QED  BY <2>4, <2>14, <4>1, Sizes
    <3>3. RECEIVER # SENDER /\ RECEIVER \in {SENDER, RECEIVER}
      BY DEF SENDER, RECEIVER
    <3>. HIDE DEF A1
    <3>. QED  BY <1>1, <2>4, <2>7, <2>10, <3>1, <3>2, <3>3, CalculateStays
  <2>. QED  BY <2>13, <2>14
<1>. QED  BY <1>7, <1>8
-----------------------------------------------------------------------------
(* A time of the body unit.                                                *)

\* findLocalSendBuffer finds the time the message left.
LEMMA FindLocal ==
  ASSUME TypeOK, LocalBuffers, NEW d \in Drones, NEW seq \in Nat \ {0},
         NEW i, i = findLocalSendBuffer(localSendBuffer[d], seq)
  PROVE  i = NULL_INDEX \/ (i \in Rows /\ localSendBuffer[d].slot[i].timestamp = sentAt[d][seq])
<1>. DEFINE buffer == localSendBuffer[d]
            found  == {k \in Rows : /\ buffer.slot[k].seqNumber = seq
                                    /\ \A j \in Rows :
                                         Back(buffer.top, j, RANGING_LIST_SIZE)
                                           < Back(buffer.top, k, RANGING_LIST_SIZE) =>
                                         buffer.slot[j].seqNumber # NULL_SEQ}
<1>1. i = IF found = {} THEN NULL_INDEX ELSE Nearest(found, buffer.top, RANGING_LIST_SIZE)
  BY DEF findLocalSendBuffer
<1>2. found \in SUBSET (0..RANGING_LIST_SIZE - 1)
      /\ buffer.top \in 0..RANGING_LIST_SIZE - 1 \cup {NULL_INDEX}
  BY RowsSize DEF TypeOK
<1>3. found # {} => Nearest(found, buffer.top, RANGING_LIST_SIZE) \in found
  <2>. HIDE DEF found, buffer
  <2>. QED  BY <1>2, RowsSize, NearestIn
<1>4. ASSUME NEW k \in found
      PROVE  k \in Rows /\ buffer.slot[k].timestamp = sentAt[d][seq]
  <2>1. k \in Rows /\ buffer.slot[k].seqNumber = seq
    OBVIOUS
  <2>2. buffer.slot[k] # NoTime
    BY <2>1 DEF NoTime, NULL_SEQ
  <2>3. PICK s \in 1..Len(sentAt[d]) : buffer.slot[k] = TimeOf(d, s)
    BY <2>1, <2>2 DEF LocalBuffers
  <2>. QED  BY <2>1, <2>3 DEF TimeOf
<1>. HIDE DEF found
<1>. QED  BY <1>1, <1>3, <1>4

\* What processRx does once the row is added: A1 is the row of message seq.
LEMMA RxRow ==
  ASSUME TypeOK, Histories, NEW d \in Drones, NEW e \in Drones, d # e,
         NEW n \in Nat \ {0}, NEW seq \in Nat \ {0},
         Arrived(<<e, d>>, n), sentAt[d][seq] < heardAt[<<e, d>>][n],
         NEW u \in CallType, CallBuffer(u, d, e),
         ListsTrue(u.table, d, e, MESSAGE_HEAD_TX_SIZE), Newest(u.table.receiveList) = n,
         NEW full, full = u.table.sendList, NEW i \in Rows,
         NEW A1, A1 = full.row[i], IsTrue(A1, d, e), A1.localSeq = seq,
         NEW t, t \in IF u.table.validBuffer.receive.length < MAX_INITIAL_CALCULATION
                      THEN {Initialize(u, e, full, u.table.receiveList, i, SENDER, Records)}
                      ELSE Calculate(u, A1, SENDER)
  PROVE  /\ t \in CallType /\ t.table.sendList = u.table.sendList
         /\ t.table.receiveList = u.table.receiveList /\ CallBuffer(t, d, e)
<1>1. /\ full \in ListType /\ u.table.receiveList \in ListType /\ A1 \in RowType
      /\ u.table.validBuffer \in BufferType
  BY CallFields DEF ListType
<1>2. /\ u.table.validBuffer.send.length \in Nat /\ u.table.validBuffer.receive.length \in Nat
      /\ \/ u.table.validBuffer.send.length = u.table.validBuffer.receive.length
         \/ /\ u.table.validBuffer.send.length >= MAX_INITIAL_CALCULATION
            /\ u.table.validBuffer.receive.length >= MAX_INITIAL_CALCULATION
  BY <1>1 DEF BufferType, RingType, CallBuffer, BufferTrue
<1>3. SENDER # RECEIVER /\ SENDER \in {SENDER, RECEIVER}
  BY DEF SENDER, RECEIVER
<1>4. CASE u.table.validBuffer.receive.length < MAX_INITIAL_CALCULATION
  <2>1. t = Initialize(u, e, full, u.table.receiveList, i, SENDER, Records)
    BY <1>4
  <2>2. u.table.validBuffer.send.length < MAX_INITIAL_CALCULATION
    BY <1>2, <1>4, Sizes
  <2>3. ASSUME Short, NEW b2 \in Rows, NEW a3 \in Rows, NEW B2, NEW A3,
               B2 = u.table.receiveList.row[b2], A3 = full.row[a3],
               IsFull(A1), IsFull(B2), IsFull(A3), B2.rx < A1.tx
        PROVE  Joined(SENDER, A1, B2, d, e) /\ Joined(SENDER, A3, B2, d, e)
    <3>1. SendRow(A3, d, e) /\ A3 \in RowType
      BY <1>1, <2>3 DEF ListsTrue, ListType
    <3>2. IsTrue(A3, d, e)
      BY <2>3, <3>1, RowFacts
    <3>3. /\ ReceiveRow(B2, d, e) /\ B2 \in RowType
          /\ \/ B2.localSeq \in {NULL_SEQ, n}
             \/ B2.remoteSeq = B2.localSeq
             \/ B2.localSeq >= n - MESSAGE_HEAD_TX_SIZE + MESSAGE_HEAD_TX_SIZE
          /\ B2.localSeq <= n
      BY <1>1, <2>3 DEF ListsTrue, Complete, ListType
    <3>4. /\ Arrived(<<e, d>>, B2.localSeq) /\ B2.rx = heardAt[<<e, d>>][B2.localSeq]
          /\ B2.remoteSeq = B2.localSeq => IsTrue(B2, e, d)
      <4>1. ReceiveRow(B2, d, e) /\ IsFull(B2)
        BY <2>3, <3>3
      <4>. QED  BY ONLY <4>1, RowFacts
    <3>5. B2.rx \in Nat /\ B2.localSeq \in Nat /\ B2.localSeq # NULL_SEQ
      BY <3>3, <3>4 DEF RowType, Arrived, NULL_SEQ
    <3>6. B2.localSeq # n
      <4>1. A1.tx = sentAt[d][seq] /\ A1.tx \in Nat
        BY <1>1 DEF IsTrue, RowType
      <4>2. B2.localSeq = n => B2.rx = heardAt[<<e, d>>][n]
        BY <3>4
      <4>3. B2.rx < sentAt[d][seq] /\ sentAt[d][seq] \in Nat
        BY <2>3, <4>1
      <4>. QED  BY <3>5, <4>2, <4>3
    <3>7. B2.remoteSeq = B2.localSeq
      BY <3>3, <3>5, <3>6, Sizes
    <3>. QED  BY <3>2, <3>4, <3>7 DEF Joined
  <2>4. Short => RowChoices(full, u.table.receiveList, i, SENDER, d, e)
    BY <2>3 DEF RowChoices
  <2>5. LET z == Initialize(u, e, full, u.table.receiveList, i, SENDER, Records)
        IN  /\ z \in CallType /\ z.table.sendList = u.table.sendList
            /\ z.table.receiveList = u.table.receiveList /\ CallBuffer(z, d, e)
    BY <1>1, <1>3, <2>2, <2>4, InitializeStays
  <2>. QED  BY <2>1, <2>5
<1>5. CASE ~(u.table.validBuffer.receive.length < MAX_INITIAL_CALCULATION)
  <2>1. t \in Calculate(u, A1, SENDER)
    BY <1>5
  <2>2. u.table.validBuffer.send.length >= MAX_INITIAL_CALCULATION
    BY <1>2, <1>5, Sizes
  <2>. QED  BY <1>1, <1>3, <2>1, <2>2, CalculateStays
<1>. QED  BY <1>4, <1>5

\* What a time of the body unit of message n of e says.
RxTrue(Rx, d, e, n) ==
  /\ Rx.seqNumber \in Nat /\ Rx.timestamp \in Nat
  /\ Rx.seqNumber # NULL_SEQ =>
       /\ Arrived(<<d, e>>, Rx.seqNumber) /\ Rx.timestamp = heardAt[<<d, e>>][Rx.seqNumber]
       /\ sentAt[d][Rx.seqNumber] < heardAt[<<e, d>>][n]

\* The state of a call for message n of e, when the header is processed.
NumberTrue(s, d, e, n) ==
  /\ s \in CallType /\ CallBuffer(s, d, e)
  /\ ListsTrue(s.table, d, e, MESSAGE_HEAD_TX_SIZE) /\ Newest(s.table.receiveList) = n

\* A true time of a body unit
LEMMA RxTime ==
  ASSUME TypeOK, Histories, LocalBuffers, NEW d \in Drones, NEW e \in Drones, d # e,
         NEW n \in Nat \ {0}, Arrived(<<e, d>>, n), NEW unit, NEW j, RxTrue(unit.Rx[j], d, e, n),
         NEW s, NumberTrue(s, d, e, n), NEW t \in processRx(s, d, e, unit, j)
  PROVE  NumberTrue(t, d, e, n)
<1>. PICK seq, rx : seq = unit.Rx[j].seqNumber /\ rx = unit.Rx[j].timestamp
  OBVIOUS
<1>0. /\ seq \in Nat /\ rx \in Nat
      /\ seq # NULL_SEQ => /\ Arrived(<<d, e>>, seq) /\ rx = heardAt[<<d, e>>][seq]
                           /\ sentAt[d][seq] < heardAt[<<e, d>>][n]
      /\ s \in CallType /\ CallBuffer(s, d, e)
      /\ ListsTrue(s.table, d, e, MESSAGE_HEAD_TX_SIZE) /\ Newest(s.table.receiveList) = n
  BY DEF RxTrue, NumberTrue
<1>1. SUFFICES ASSUME t # s  PROVE NumberTrue(t, d, e, n)
  OBVIOUS
<1>. DEFINE list == s.table.sendList
            i    == findLocalSendBuffer(localSendBuffer[d], seq)
            tx   == localSendBuffer[d].slot[i].timestamp
            full == AddFull(list, seq, tx, rx)
            u    == [s EXCEPT !.table.sendList = full]
            A1   == full.row[full.top]
<1>2. /\ seq # NULL_SEQ /\ i # NULL_INDEX
      /\ t \in IF s.table.validBuffer.receive.length < MAX_INITIAL_CALCULATION
               THEN {Initialize(u, e, full, u.table.receiveList, full.top, SENDER, Records)}
               ELSE Calculate(u, A1, SENDER)
  BY <1>1 DEF processRx
<1>3. list \in ListType
  BY <1>0, CallFields
<1>. HIDE DEF list
<1>4. i \in Rows /\ tx = sentAt[d][seq]
  BY <1>0, <1>2, FindLocal, ZenonT(60) DEF NULL_SEQ
<1>. HIDE DEF i
<1>5. tx \in Nat
  <2>1. localSendBuffer[d].slot[i] \in TimeType
    BY <1>4 DEF TypeOK
  <2>. QED  BY <2>1 DEF TimeType
<1>. HIDE DEF tx
<1>6. /\ full \in ListType /\ full.top \in Rows
      /\ A1 = [tx |-> tx, rx |-> rx, localSeq |-> seq, remoteSeq |-> seq]
      /\ \A l \in Rows \ {full.top} : full.row[l] = list.row[l]
  <2>1. \A l : l = AddFull(list, seq, tx, rx) =>
           /\ l \in ListType /\ l.top \in Rows
           /\ l.row[l.top] = [tx |-> tx, rx |-> rx, localSeq |-> seq, remoteSeq |-> seq]
           /\ \A k \in Rows \ {l.top} : l.row[k] = list.row[k]
    <3>. QED  BY ONLY <1>0, <1>3, <1>5, FullRows
  <2>. HIDE DEF full
  <2>2. full = AddFull(list, seq, tx, rx)
    BY DEF full
  <2>. QED  BY <2>1, <2>2
<1>. HIDE DEF full
<1>7. /\ u \in CallType /\ u.sum = s.sum /\ u.table.validBuffer = s.table.validBuffer
      /\ u.table.sendList = full /\ u.table.receiveList = s.table.receiveList
  <2>1. u = [s EXCEPT !.table.sendList = full] /\ s \in CallType
    BY <1>0 DEF u
  <2>. HIDE DEF u
  <2>. QED  BY ONLY <1>6, <2>1 DEF CallType, TableType
<1>. HIDE DEF u
<1>8. IsTrue(A1, d, e) /\ A1.localSeq = seq
  BY <1>0, <1>2, <1>4, <1>6 DEF IsTrue, Arrived
<1>9. \A l \in Rows : SendRow(full.row[l], d, e)
  <2>1. \A l \in Rows : SendRow(list.row[l], d, e)
    BY <1>0 DEF ListsTrue, list
  <2>. QED  BY <1>6, <1>8, <2>1 DEF SendRow
<1>10. ListsTrue(u.table, d, e, MESSAGE_HEAD_TX_SIZE)
  BY <1>0, <1>7, <1>9 DEF ListsTrue
<1>11. CallBuffer(u, d, e) /\ Newest(u.table.receiveList) = n
  BY <1>0, <1>7 DEF CallBuffer
<1>12. t \in IF u.table.validBuffer.receive.length < MAX_INITIAL_CALCULATION
             THEN {Initialize(u, e, full, u.table.receiveList, full.top, SENDER, Records)}
             ELSE Calculate(u, A1, SENDER)
  BY <1>2, <1>7
<1>13. /\ t \in CallType /\ t.table.sendList = u.table.sendList
       /\ t.table.receiveList = u.table.receiveList /\ CallBuffer(t, d, e)
  <2>. HIDE DEF A1
  <2>1. A1 = full.row[full.top] /\ full = u.table.sendList /\ full.top \in Rows
    BY <1>6, <1>7 DEF A1
  <2>2. sentAt[d][seq] < heardAt[<<e, d>>][n] /\ seq \in Nat \ {0}
    BY <1>0, <1>2 DEF NULL_SEQ
  <2>. QED  BY <1>7, <1>8, <1>10, <1>11, <1>12, <2>1, <2>2, RxRow
<1>14. ListsTrue(t.table, d, e, MESSAGE_HEAD_TX_SIZE)
  BY <1>10, <1>13, SameLists
<1>. QED  BY <1>11, <1>13, <1>14 DEF NumberTrue

\* A turn for it
LEMMA RxTurn ==
  ASSUME TypeOK, Histories, LocalBuffers, NEW d \in Drones,
         NEW task \in TaskType, TaskTrue(task, d), NEW m, m = task.message,
         NEW k \in 1..Len(m.bodyUnits), m.bodyUnits[k].dest = d, NEW j \in 1..MESSAGE_BODY_RX_SIZE,
         NEW s, CallTrue(s, d, m, MESSAGE_HEAD_TX_SIZE),
         NEW t \in processRx(s, d, m.srcAddress, m.bodyUnits[k], j)
  PROVE  CallTrue(t, d, m, MESSAGE_HEAD_TX_SIZE)
<1>1. m \in MessageType /\ MessageTrue(m) /\ m.srcAddress # d
  BY DEF TaskType, TaskTrue
<1>2. m.msgSequence \in Nat /\ m.srcAddress \in Drones
  BY <1>1 DEF MessageType
<1>3. m.bodyUnits[k].Rx[j].seqNumber \in Nat /\ m.bodyUnits[k].Rx[j].timestamp \in Nat
  BY <1>1, MessageUnits
<1>4. /\ s \in CallType /\ ListsTrue(s.table, d, m.srcAddress, MESSAGE_HEAD_TX_SIZE)
      /\ Newest(s.table.receiveList) = m.msgSequence /\ CallBuffer(s, d, m.srcAddress)
  BY DEF CallTrue
<1>5. Arrived(<<m.srcAddress, d>>, m.msgSequence) /\ m.msgSequence \in Nat \ {0}
  BY <1>2 DEF TaskTrue, Arrived
<1>6. m.bodyUnits[k].Rx[j].seqNumber # NULL_SEQ =>
        /\ Arrived(<<d, m.srcAddress>>, m.bodyUnits[k].Rx[j].seqNumber)
        /\ m.bodyUnits[k].Rx[j].timestamp
             = heardAt[<<d, m.srcAddress>>][m.bodyUnits[k].Rx[j].seqNumber]
        /\ sentAt[d][m.bodyUnits[k].Rx[j].seqNumber]
             < heardAt[<<m.srcAddress, d>>][m.msgSequence]
  BY <1>1 DEF MessageTrue, UnitTrue, TaskTrue
<1>7. NumberTrue(t, d, m.srcAddress, m.msgSequence)
  <2>1. RxTrue(m.bodyUnits[k].Rx[j], d, m.srcAddress, m.msgSequence)
    BY <1>3, <1>6 DEF RxTrue
  <2>2. NumberTrue(s, d, m.srcAddress, m.msgSequence)
    BY <1>4 DEF NumberTrue
  <2>. QED  BY <1>1, <1>2, <1>5, <2>1, <2>2, RxTime
<1>. QED  BY <1>7 DEF CallTrue, NumberTrue
-----------------------------------------------------------------------------
(* The call as a whole.                                                    *)

\* A new table.
LEMMA EmptyTrue ==
  /\ EmptyTable \in TableType
  /\ \A i \in Rows : EmptyTable.sendList.row[i] = NullRow /\ EmptyTable.receiveList.row[i] = NullRow
  /\ EmptyTable.validBuffer = EmptyBuffer /\ EmptyBuffer \in BufferType
<1>1. NullRow \in RowType
  BY DEF NullRow, RowType, NULL_TIMESTAMP, NULL_SEQ
<1>2. EmptyList \in ListType
  BY <1>1 DEF EmptyList, ListType
<1>3. NullRecord \in RecordType
  BY DEF NullRecord, RecordType, HalfType, SumType, Half, NullRow, InitialSum,
         NULL_TIMESTAMP, NULL_SEQ
<1>4. 0 \in 0..RANGING_BUFFER_SIZE
  BY RowsSize
<1>5. EmptyBuffer \in BufferType
  BY <1>3, <1>4 DEF EmptyBuffer, BufferType, EmptyRing, RingType
<1>. QED  BY <1>2, <1>5 DEF EmptyTable, TableType, EmptyList

\* A ring without records
LEMMA EmptyHeld == Held(EmptyRing) = {}
<1>1. ASSUME NEW i \in Records
      PROVE  ~(Back(NULL_INDEX, i, RANGING_BUFFER_SIZE) < 0)
  <2>1. SUFFICES (NULL_INDEX - i + RANGING_BUFFER_SIZE) % RANGING_BUFFER_SIZE \in Nat
    BY DEF Back
  <2>2. NULL_INDEX - i + RANGING_BUFFER_SIZE \in Nat /\ RANGING_BUFFER_SIZE \in Nat \ {0}
    BY RowsSize DEF NULL_INDEX
  <2>. QED  BY <2>2
<1>. QED  BY <1>1 DEF Held, EmptyRing

\* is true.
LEMMA EmptyBufferTrue ==
  ASSUME NEW d, NEW e
  PROVE  BufferTrue(EmptyBuffer, d, e) /\ (Single => SumOf(<<>>, EmptyBuffer, e))
<1>1. \A h \in {SENDER, RECEIVER} : EmptyBuffer[h] = EmptyRing
  BY DEF EmptyBuffer, SENDER, RECEIVER
<1>2. Held(EmptyRing) = {}
  BY EmptyHeld
<1>3. BufferOK(EmptyBuffer)
  BY <1>1, EmptyTrue DEF BufferOK, RingOK, EmptyRing
<1>4. BufferTrue(EmptyBuffer, d, e)
  BY <1>1, <1>2, <1>3 DEF BufferTrue, EmptyBuffer
<1>5. SumOf(<<>>, EmptyBuffer, e)
  BY Sizes DEF SumOf, EmptyBuffer, EmptyRing
<1>. QED  BY <1>4, <1>5

\* The arrival of the message the call is for.
Started(old, n, rx) == [old EXCEPT !.receiveList = AddArrival(@, n, rx)]

\* A call begins in a true state.
LEMMA StartTrue ==
  ASSUME TypeOK, Histories, NEW d \in Drones, NEW e \in Drones, d # e,
         NEW n \in Nat \ {0}, NEW rx \in Nat, Arrived(<<e, d>>, n), rx = heardAt[<<e, d>>][n],
         NEW old \in TableType,
         \/ old = EmptyTable
         \/ /\ ListsTrue(old, d, e, MESSAGE_HEAD_TX_SIZE) /\ Newest(old.receiveList) < n
            /\ Short => Newest(old.receiveList) >= n - MESSAGE_HEAD_TX_SIZE,
         NEW t, t = Started(old, n, rx)
  PROVE  /\ t \in TableType /\ t.validBuffer = old.validBuffer
         /\ Newest(t.receiveList) = n /\ ListsTrue(t, d, e, 0)
<1>. DEFINE list == old.receiveList
            new  == AddArrival(list, n, rx)
            x    == new.top
<1>1. list \in ListType /\ old.sendList \in ListType
  BY DEF TableType
<1>2. /\ new \in ListType /\ x \in Rows
      /\ new.row[x] = [tx |-> list.row[x].tx, rx |-> rx, localSeq |-> n, remoteSeq |-> NULL_SEQ]
      /\ \A i \in Rows \ {x} : new.row[i] = list.row[i]
  <2>. HIDE DEF list
  <2>. QED  BY <1>1, ArrivalRows
<1>3. t = [old EXCEPT !.receiveList = new]
  BY DEF Started
<1>. HIDE DEF new
<1>4. t \in TableType /\ t.validBuffer = old.validBuffer /\ t.sendList = old.sendList
      /\ t.receiveList = new
  BY <1>2, <1>3 DEF TableType
<1>5. \A i \in Rows : /\ SendRow(old.sendList.row[i], d, e) /\ ReceiveRow(list.row[i], d, e)
                      /\ list.row[i].localSeq < n /\ list.row[i].localSeq \in Nat
  <2>1. CASE old = EmptyTable
    <3>1. \A i \in Rows : old.sendList.row[i] = NullRow /\ list.row[i] = NullRow
      BY <2>1, EmptyTrue
    <3>. QED  BY <3>1 DEF SendRow, ReceiveRow, NullRow, NULL_SEQ
  <2>2. CASE /\ ListsTrue(old, d, e, MESSAGE_HEAD_TX_SIZE) /\ Newest(list) < n
    <3>1. \A i \in Rows : list.row[i].localSeq <= Newest(list)
      BY <2>2 DEF ListsTrue
    <3>2. list.top \in Rows
      BY <2>2 DEF ListsTrue
    <3>3. \A i \in Rows : list.row[i].localSeq \in Nat
      BY <1>1 DEF ListType, RowType
    <3>4. Newest(list) \in Nat
      BY <3>2, <3>3 DEF Newest
    <3>5. \A i \in Rows : list.row[i].localSeq < n
      BY <2>2, <3>1, <3>3, <3>4
    <3>. QED  BY <2>2, <3>3, <3>5 DEF ListsTrue
  <2>. QED  BY <2>1, <2>2
<1>6. Newest(new) = n /\ NULL_SEQ = 0
  BY <1>2 DEF Newest, NULL_SEQ
<1>7. \A i \in Rows : ReceiveRow(new.row[i], d, e)
  BY <1>2, <1>5 DEF ReceiveRow
<1>8. \A i \in Rows : /\ new.row[i].localSeq \in Nat /\ new.row[i].localSeq <= n
                      /\ i # x => new.row[i].localSeq < n
  BY <1>2, <1>5
<1>9. \A i, j \in Rows : new.row[i].localSeq = new.row[j].localSeq
                         /\ new.row[i].localSeq # NULL_SEQ => i = j
  <2>1. \A i, j \in Rows : list.row[i].localSeq = list.row[j].localSeq
                           /\ list.row[i].localSeq # NULL_SEQ => i = j
    <3>1. CASE old = EmptyTable
      BY <3>1, EmptyTrue DEF NullRow
    <3>2. CASE ListsTrue(old, d, e, MESSAGE_HEAD_TX_SIZE)
      BY <3>2 DEF ListsTrue
    <3>. QED  BY <3>1, <3>2
  <2>. QED  BY <1>2, <1>8, <2>1
<1>10. Redundant(new, 0)
  <2>1. SUFFICES ASSUME NEW i \in Rows, NEW j \in Rows, NEW seq, NEW later,
                        seq = new.row[i].localSeq, later = new.row[j].localSeq,
                        seq # NULL_SEQ, later \in seq + 1..seq + MESSAGE_HEAD_TX_SIZE,
                        later = n => seq < n - MESSAGE_HEAD_TX_SIZE + 0
                 PROVE  new.row[i].remoteSeq = seq
    BY <1>6 DEF Redundant
  <2>2. seq \in Nat /\ later \in Nat /\ later <= n
    BY <1>8, <2>1
  <2>3. later # n
    BY <2>1, <2>2, Sizes
  <2>4. j # x /\ i # x
    BY <1>2, <1>8, <2>1, <2>2, <2>3
  <2>5. list.row[i] = new.row[i] /\ list.row[j] = new.row[j]
    BY <1>2, <2>4
  <2>6. CASE old = EmptyTable
    BY <2>1, <2>5, <2>6, EmptyTrue DEF NullRow
  <2>7. CASE ListsTrue(old, d, e, MESSAGE_HEAD_TX_SIZE)
    <3>1. Newest(list) \in Nat
      <4>1. list.top \in Rows
        BY <2>7 DEF ListsTrue
      <4>. QED  BY <1>5, <4>1 DEF Newest
    <3>2. later = Newest(list) => seq < Newest(list) - MESSAGE_HEAD_TX_SIZE + MESSAGE_HEAD_TX_SIZE
      BY <2>1, <2>2, <3>1, Sizes
    <3>. QED  BY <2>1, <2>5, <2>7, <3>2 DEF ListsTrue, Redundant
  <2>. QED  BY <2>6, <2>7
<1>11. Short => Complete(new, 0)
  <2>1. SUFFICES ASSUME Short, NEW i \in Rows, NEW seq, seq = new.row[i].localSeq,
                        seq # NULL_SEQ, seq # n
                 PROVE  new.row[i].remoteSeq = seq \/ seq >= n - MESSAGE_HEAD_TX_SIZE + 0
    BY <1>6 DEF Complete
  <2>2. list.row[i] = new.row[i] /\ seq \in Nat
    BY <1>2, <1>8, <2>1
  <2>3. CASE old = EmptyTable
    BY <2>1, <2>2, <2>3, EmptyTrue DEF NullRow
  <2>4. CASE old # EmptyTable
    <3>1. /\ ListsTrue(old, d, e, MESSAGE_HEAD_TX_SIZE)
          /\ Newest(list) >= n - MESSAGE_HEAD_TX_SIZE
      BY <2>1, <2>4
    <3>2. Newest(list) \in Nat
      <4>1. list.top \in Rows
        BY <3>1 DEF ListsTrue
      <4>. QED  BY <1>5, <4>1 DEF Newest
    <3>3. \/ seq \in {NULL_SEQ, Newest(list)}
          \/ list.row[i].remoteSeq = seq
          \/ seq >= Newest(list) - MESSAGE_HEAD_TX_SIZE + MESSAGE_HEAD_TX_SIZE
      BY <2>1, <2>2, <3>1 DEF ListsTrue, Complete
    <3>. QED  BY <2>1, <2>2, <3>1, <3>2, <3>3, Sizes
  <2>. QED  BY <2>3, <2>4
<1>12. ListsTrue(t, d, e, 0)
  BY <1>2, <1>4, <1>5, <1>6, <1>7, <1>8, <1>9, <1>10, <1>11 DEF ListsTrue
<1>. QED  BY <1>4, <1>6, <1>12

\* The states of a call, turn by turn.
LEMMA TurnsAre ==
  ASSUME NEW s, NEW d, NEW m
  PROVE  LET f == turns(s, d, m)
         IN  /\ f[0] = {s}
             /\ \A k \in 1..Turns : f[k] = UNION {processTime(t, d, m, k) : t \in f[k - 1]}
<1>. DEFINE Turn(T, k) == UNION {processTime(t, d, m, k) : t \in T}
            Step(f, k) == IF k = 0 THEN {s} ELSE Turn(f[k - 1], k)
            S == {n \in 0..Turns : \E f : f = [k \in 0..n |-> Step(f, k)]}
            F == CHOOSE f : f = [k \in 0..Turns |-> Step(f, k)]
<1>0. Turns \in Nat
  BY Sizes DEF Turns
<1>1. turns(s, d, m) = F
  BY DEF turns
<1>. HIDE DEF Turn
<1>2. Turns \in S
  <2>1. 0 \in S
    <3>. DEFINE g == [k \in 0..0 |-> {s}]
    <3>1. g = [k \in 0..0 |-> Step(g, k)]
      <4>1. \A k \in 0..0 : Step(g, k) = {s}
        OBVIOUS
      <4>. HIDE DEF Step
      <4>. QED  BY <4>1
    <3>. HIDE DEF g, Step
    <3>. QED  BY <1>0, <3>1
  <2>2. ASSUME NEW k \in 0..Turns - 1, k \in S  PROVE k + 1 \in S
    <3>1. PICK f : f = [i \in 0..k |-> Step(f, i)]
      BY <2>2
    <3>. DEFINE g == [i \in 0..k + 1 |-> IF i = k + 1 THEN Turn(f[k], k + 1) ELSE f[i]]
    <3>2. g = [i \in 0..k + 1 |-> Step(g, i)]
      <4>1. ASSUME NEW i \in 0..k + 1  PROVE g[i] = Step(g, i)
        <5>1. CASE i = 0
          BY <3>1, <5>1
        <5>2. CASE i = k + 1
          BY <5>2
        <5>3. CASE i \in 1..k
          <6>1. g[i] = f[i] /\ g[i - 1] = f[i - 1]
            BY <5>3
          <6>2. f[i] = Step(f, i)
            <7>. HIDE DEF Step
            <7>. QED  BY <5>3, <3>1
          <6>. HIDE DEF g
          <6>. QED  BY <5>3, <6>1, <6>2
        <5>. QED  BY <5>1, <5>2, <5>3
      <4>. HIDE DEF Step
      <4>. QED  BY <4>1
    <3>3. k + 1 \in 0..Turns
      BY <1>0
    <3>. HIDE DEF g, Step
    <3>. QED  BY <3>2, <3>3
  <2>. HIDE DEF S
  <2>. QED  BY <1>0, <2>1, <2>2, NatInd
<1>3. F = [k \in 0..Turns |-> Step(F, k)]
  <2>. HIDE DEF Step
  <2>. QED  BY <1>2
<1>. HIDE DEF F
<1>4. F[0] = Step(F, 0) /\ \A k \in 1..Turns : F[k] = Step(F, k)
  <2>. HIDE DEF Step
  <2>. QED  BY <1>0, <1>3
<1>5. \A k \in 1..Turns : Step(F, k) = Turn(F[k - 1], k)
  OBVIOUS
<1>. QED  BY <1>1, <1>4, <1>5 DEF Turn

\* One turn.
After(k) == IF k <= MESSAGE_HEAD_TX_SIZE THEN k ELSE MESSAGE_HEAD_TX_SIZE

\* One turn.
LEMMA TurnTrue ==
  ASSUME TypeOK, Histories, LocalBuffers, NEW d \in Drones,
         NEW task \in TaskType, TaskTrue(task, d), NEW m, m = task.message,
         NEW k \in 1..Turns, NEW s, CallTrue(s, d, m, After(k - 1)),
         NEW t \in processTime(s, d, m, k)
  PROVE  CallTrue(t, d, m, After(k))
<1>1. m \in MessageType /\ MessageTrue(m) /\ m.srcAddress # d
  BY DEF TaskType, TaskTrue
<1>2. CASE k <= MESSAGE_HEAD_TX_SIZE
  <2>1. k \in 1..MESSAGE_HEAD_TX_SIZE /\ After(k) = k /\ After(k - 1) = k - 1
    BY <1>2, Sizes DEF Turns, After
  <2>2. t \in processTx(s, m, MESSAGE_HEAD_TX_SIZE + 1 - k)
    BY <1>2 DEF processTime
  <2>. QED  BY <1>1, <2>1, <2>2, TxTurn
<1>3. CASE ~(k <= MESSAGE_HEAD_TX_SIZE)
  <2>1. After(k) = MESSAGE_HEAD_TX_SIZE /\ After(k - 1) = MESSAGE_HEAD_TX_SIZE
        /\ Turns + 1 - k \in 1..MESSAGE_BODY_RX_SIZE
    BY <1>3, Sizes DEF Turns, After
  <2>2. CASE unitsFor(m, d) = {}
    BY <1>3, <2>1, <2>2 DEF processTime
  <2>3. CASE unitsFor(m, d) # {}
    <3>. DEFINE x == CHOOSE k1 \in unitsFor(m, d) : \A n \in unitsFor(m, d) : k1 <= n
    <3>1. unitsFor(m, d) \in SUBSET Nat
      <4>1. m.bodyUnits \in Seq([dest : Drones, Rx : [1..MESSAGE_BODY_RX_SIZE -> TimeType]])
        BY <1>1 DEF MessageType
      <4>. QED  BY <4>1 DEF unitsFor
    <3>2. \E k1 \in unitsFor(m, d) : \A n \in unitsFor(m, d) : k1 <= n
      BY <2>3, <3>1, Least
    <3>3. x \in unitsFor(m, d)
      BY <3>2
    <3>4. unitFor(m, d) = m.bodyUnits[x]
      BY DEF unitFor
    <3>. HIDE DEF x
    <3>5. x \in 1..Len(m.bodyUnits) /\ m.bodyUnits[x].dest = d
      <4>1. m.bodyUnits \in Seq([dest : Drones, Rx : [1..MESSAGE_BODY_RX_SIZE -> TimeType]])
        BY <1>1 DEF MessageType
      <4>. QED  BY <3>3, <4>1 DEF unitsFor
    <3>6. t \in processRx(s, d, m.srcAddress, m.bodyUnits[x], Turns + 1 - k)
      BY <1>3, <2>3, <3>4 DEF processTime
    <3>7. CallTrue(s, d, m, MESSAGE_HEAD_TX_SIZE)
      BY <2>1
    <3>8. CallTrue(t, d, m, MESSAGE_HEAD_TX_SIZE)
      BY <2>1, <3>5, <3>6, <3>7, RxTurn
    <3>. QED  BY <2>1, <3>8
  <2>. QED  BY <2>2, <2>3
<1>. QED  BY <1>2, <1>3

\* All turns.
LEMMA CallEnds ==
  ASSUME TypeOK, Histories, LocalBuffers, NEW d \in Drones,
         NEW task \in TaskType, TaskTrue(task, d), NEW m, m = task.message,
         NEW s, CallTrue(s, d, m, 0), NEW t \in turns(s, d, m)[Turns]
  PROVE  CallTrue(t, d, m, MESSAGE_HEAD_TX_SIZE)
<1>. DEFINE f == turns(s, d, m)
            S == {k \in 0..Turns : \A u \in f[k] : CallTrue(u, d, m, After(k))}
<1>1. Turns \in Nat /\ Turns >= MESSAGE_HEAD_TX_SIZE
  BY Sizes DEF Turns
<1>2. /\ f[0] = {s}
      /\ \A k \in 1..Turns : f[k] = UNION {processTime(u, d, m, k) : u \in f[k - 1]}
  BY TurnsAre
<1>3. t \in f[Turns]
  OBVIOUS
<1>. HIDE DEF f
<1>4. 0 \in S
  <2>1. After(0) = 0
    BY Sizes DEF After
  <2>. QED  BY <1>1, <1>2, <2>1
<1>5. ASSUME NEW k \in 0..Turns - 1, k \in S
      PROVE  k + 1 \in S
  <2>1. k + 1 \in 1..Turns /\ k + 1 \in 0..Turns /\ k + 1 - 1 = k
    BY <1>1
  <2>2. ASSUME NEW u \in f[k + 1]
        PROVE  CallTrue(u, d, m, After(k + 1))
    <3>1. f[k + 1] = UNION {processTime(v, d, m, k + 1) : v \in f[k]}
      BY <1>2, <2>1
    <3>2. PICK v \in f[k] : u \in processTime(v, d, m, k + 1)
      BY <2>2, <3>1
    <3>3. CallTrue(v, d, m, After(k))
      BY <1>5
    <3>4. \A l : l = k + 1 => l \in 1..Turns /\ CallTrue(v, d, m, After(l - 1))
                             /\ u \in processTime(v, d, m, l)
      BY <2>1, <3>2, <3>3
    <3>5. \A l : l = k + 1 => CallTrue(u, d, m, After(l))
      BY <3>4, TurnTrue
    <3>. QED  BY <3>5
  <2>. QED  BY <2>1, <2>2
<1>6. Turns \in S
  <2>. HIDE DEF S
  <2>. QED  BY <1>1, <1>4, <1>5, NatInd
<1>7. CallTrue(t, d, m, After(Turns))
  BY <1>3, <1>6
<1>8. After(Turns) = MESSAGE_HEAD_TX_SIZE
  BY <1>1, Sizes DEF After
<1>. QED  BY <1>7, <1>8
-----------------------------------------------------------------------------
(* The step that processes a task.                                         *)

\* A set of tables of drone d.
SetType == [address : Seq(Drones), queue : Seq(Nat), table : Seq(TableType)]

SetOK(set, d) ==
  /\ set \in SetType
  /\ Len(set.address) <= TABLE_SET_NEIGHBOR_NUM
  /\ Len(set.table) = Len(set.address) /\ Len(set.queue) = Len(set.address)
  /\ Distinct(set.address) /\ \A i \in 1..Len(set.address) : set.address[i] # d
  /\ \A j \in 1..Len(set.queue) : set.queue[j] \in 1..Len(set.address)

\* Set `new' is `old' but for the table i, of e.
Serves(old, new, i, e) ==
  /\ i \in 1..Len(new.address) /\ new.address[i] = e
  /\ \A k \in 1..Len(old.address) : k \in 1..Len(new.address) /\ new.address[k] = old.address[k]
  /\ \A k \in 1..Len(new.address) : k # i => /\ k \in 1..Len(old.address)
                                             /\ new.address[k] = old.address[k]
                                             /\ new.table[k] = old.table[k]

\* There was a table of e, or there was room for one.
Before(set, i, e, table) ==
  \/ i \in 1..Len(set.address) /\ set.address[i] = e /\ table = set.table[i]
  \/ /\ \A k \in 1..Len(set.address) : set.address[k] # e
     /\ Len(set.address) < TABLE_SET_NEIGHBOR_NUM /\ table = EmptyTable

NewSet(set, address, i, table, t) ==
  [address |-> address,
   queue   |-> updatePriority(set.queue, Len(address), i),
   table   |-> [table EXCEPT ![i] = t]]

Allocated(set, i) == IF i <= Len(set.table) THEN set.table ELSE Append(set.table, EmptyTable)

\* The table set after the call.
LEMMA ServedSet ==
  ASSUME NEW d, NEW e \in Drones, e # d, NEW set, SetOK(set, d),
         NEW address, address = registerRangingTable(set.address, e),
         NEW i, i = findRangingTable(address, e), i # 0,
         NEW table, table = Allocated(set, i),
         NEW t \in TableType,
         NEW new, new = NewSet(set, address, i, table, t)
  PROVE  /\ SetOK(new, d) /\ Serves(set, new, i, e) /\ new.table[i] = t
         /\ Before(set, i, e, table[i])
<1>. DEFINE s == set.address
            n == Len(s)
<1>0. table = (IF i <= Len(set.table) THEN set.table ELSE Append(set.table, EmptyTable))
  BY DEF Allocated
<1>1. /\ s \in Seq(Drones) /\ set.queue \in Seq(Nat) /\ set.table \in Seq(TableType)
      /\ n \in Nat /\ n <= TABLE_SET_NEIGHBOR_NUM /\ Len(set.table) = n /\ Len(set.queue) = n
      /\ Distinct(s) /\ \A k \in 1..n : s[k] # d
      /\ \A j \in 1..n : set.queue[j] \in 1..n
  BY DEF SetOK, SetType
<1>2. \/ address = s /\ i \in 1..n /\ s[i] = e
      \/ /\ address = Append(s, e) /\ i = n + 1 /\ n < TABLE_SET_NEIGHBOR_NUM
         /\ \A k \in 1..n : s[k] # e
         /\ Distinct(address)
  BY <1>1, Register
<1>. DEFINE c == Len(address)
<1>3. /\ address \in Seq(Drones) /\ c \in Nat /\ c <= TABLE_SET_NEIGHBOR_NUM /\ n <= c
      /\ Distinct(address) /\ i \in 1..c /\ address[i] = e
      /\ \A k \in 1..n : k \in 1..c /\ address[k] = s[k]
      /\ \A k \in 1..c : k # i => k \in 1..n
      /\ c = n \/ (c = n + 1 /\ i = c)
  <2>1. CASE address = s /\ i \in 1..n /\ s[i] = e
    BY <1>1, <2>1
  <2>2. CASE /\ address = Append(s, e) /\ i = n + 1 /\ n < TABLE_SET_NEIGHBOR_NUM
             /\ Distinct(address)
    <3>1. /\ Append(s, e) \in Seq(Drones) /\ Len(Append(s, e)) = n + 1 /\ Append(s, e)[n + 1] = e
          /\ \A k \in 1..n : Append(s, e)[k] = s[k]
      <4>. HIDE DEF s
      <4>. QED  BY <1>1, Appended
    <3>2. n + 1 <= TABLE_SET_NEIGHBOR_NUM
      BY <1>1, <2>2, TableAssumption
    <3>. QED  BY <1>1, <2>2, <3>1, <3>2
  <2>. QED  BY <1>2, <2>1, <2>2
<1>4. /\ table \in Seq(TableType) /\ Len(table) = c
      /\ \A k \in 1..n : table[k] = set.table[k]
      /\ c = n + 1 /\ i = c => table[i] = EmptyTable
  <2>1. CASE c = n
    BY <1>0, <1>1, <1>3, <2>1
  <2>2. CASE c = n + 1 /\ i = c
    <3>. DEFINE q == set.table
    <3>1. q \in Seq(TableType) /\ EmptyTable \in TableType /\ n = Len(q) /\ n \in Nat
      BY <1>1, EmptyTrue
    <3>2. table = Append(q, EmptyTable)
      BY <1>0, <1>1, <2>2
    <3>. HIDE DEF q
    <3>3. /\ table \in Seq(TableType) /\ Len(table) = n + 1 /\ table[n + 1] = EmptyTable
          /\ \A k \in 1..n : table[k] = q[k]
      <4>. HIDE DEF n
      <4>. QED  BY ONLY <3>1, <3>2, Appended
    <3>. QED  BY <2>2, <3>3 DEF q
  <2>. QED  BY <1>3, <2>1, <2>2
<1>5. /\ [table EXCEPT ![i] = t] \in Seq(TableType) /\ Len([table EXCEPT ![i] = t]) = c
      /\ [table EXCEPT ![i] = t][i] = t
      /\ \A k \in 1..c : k # i => [table EXCEPT ![i] = t][k] = table[k]
  <2>1. /\ table \in Seq(TableType) /\ Len(table) = c /\ i \in 1..c /\ t \in TableType
        /\ c \in Nat
    BY <1>3, <1>4
  <2>. HIDE DEF c
  <2>2. table \in [1..c -> TableType] /\ c \in Nat
    BY ONLY <2>1
  <2>3. \A u : u = [table EXCEPT ![i] = t] =>
          /\ u \in [1..c -> TableType] /\ u[i] = t /\ \A k \in 1..c : k # i => u[k] = table[k]
    BY ONLY <2>1, <2>2
  <2>4. \A u \in [1..c -> TableType] : u \in Seq(TableType) /\ Len(u) = c
    BY ONLY <2>2
  <2>. QED  BY <2>3, <2>4
<1>6. /\ updatePriority(set.queue, c, i) \in Seq(1..c)
      /\ Len(updatePriority(set.queue, c, i)) = c
  <2>1. \A k \in 1..Len(set.queue) : set.queue[k] \in 1..c
    BY <1>1, <1>3
  <2>2. Len(set.queue) = c \/ (Len(set.queue) = c - 1 /\ i = c)
    BY <1>1, <1>3
  <2>. HIDE DEF c
  <2>. QED  BY <1>1, <1>3, <2>1, <2>2, Update
<1>7. /\ new.address = address /\ new.queue = updatePriority(set.queue, c, i)
      /\ new.table = [table EXCEPT ![i] = t]
  BY DEF NewSet
<1>8. \A k \in 1..c : address[k] # d
  BY <1>1, <1>3
<1>9. /\ new.queue \in Seq(Nat) /\ Len(new.queue) = c
      /\ \A j \in 1..Len(new.queue) : new.queue[j] \in 1..c
  <2>. DEFINE q == updatePriority(set.queue, c, i)
  <2>1. q \in Seq(1..c) /\ Len(q) = c /\ new.queue = q /\ c \in Nat
    BY <1>3, <1>6, <1>7
  <2>. HIDE DEF c, q
  <2>2. q \in Seq(Nat) /\ \A j \in 1..Len(q) : q[j] \in 1..c
    BY <2>1
  <2>. QED  BY <2>1, <2>2
<1>10. SetOK(new, d)
  <2>1. new \in SetType
    <3>. DEFINE q == updatePriority(set.queue, c, i)
                u == [table EXCEPT ![i] = t]
    <3>1. new = [address |-> address, queue |-> q, table |-> u]
      BY DEF NewSet
    <3>2. q \in Seq(Nat) /\ u \in Seq(TableType) /\ address \in Seq(Drones)
      BY <1>3, <1>5, <1>7, <1>9
    <3>. HIDE DEF q, u
    <3>. QED  BY ONLY <3>1, <3>2 DEF SetType
  <2>. QED  BY ONLY <1>3, <1>5, <1>7, <1>8, <1>9, <2>1 DEF SetOK
<1>11. Serves(set, new, i, e)
  <2>1. \A k \in 1..c : k # i => new.table[k] = set.table[k]
    BY <1>3, <1>4, <1>5, <1>7
  <2>2. Len(new.address) = c /\ Len(set.address) = n
    BY <1>7
  <2>. QED  BY ONLY <1>3, <1>7, <2>1, <2>2 DEF Serves
<1>12. Before(set, i, e, table[i])
  <2>1. CASE address = s /\ i \in 1..n /\ s[i] = e
    BY <1>4, <2>1 DEF Before
  <2>2. CASE /\ address = Append(s, e) /\ i = n + 1 /\ n < TABLE_SET_NEIGHBOR_NUM
             /\ \A k \in 1..n : s[k] # e
    <3>1. c = n + 1 /\ i = c
      BY <1>1, <1>3, <2>2
    <3>. QED  BY <1>4, <2>2, <3>1 DEF Before
  <2>. QED  BY <1>2, <2>1, <2>2
<1>. QED  BY <1>5, <1>7, <1>10, <1>11, <1>12

\* The table sets of a state.
LEMMA SetsOK ==
  ASSUME TypeOK, TableSets, NEW d \in Drones
  PROVE  SetOK(tableSet[d], d)
<1>. DEFINE set == tableSet[d]
<1>1. /\ set \in SetType
      /\ Len(set.address) <= TABLE_SET_NEIGHBOR_NUM /\ Len(set.table) = Len(set.address)
  BY DEF TypeOK, SetType
<1>. QED  BY <1>1 DEF TableSets, SetOK

\* With one neighbour at most, its table is the first, or there is none.
LEMMA OneNeighbour ==
  ASSUME Single, NEW d \in Drones, NEW e \in Drones, e # d, NEW set, SetOK(set, d)
  PROVE  /\ \A i \in 1..Len(set.address) : i = 1
         /\ (\A k \in 1..Len(set.address) : set.address[k] # e)
            /\ Len(set.address) < TABLE_SET_NEIGHBOR_NUM => set.address = <<>>
<1>1. /\ set.address \in Seq(Drones) /\ Len(set.address) \in Nat
      /\ Len(set.address) <= TABLE_SET_NEIGHBOR_NUM
      /\ \A i, j \in 1..Len(set.address) : set.address[i] = set.address[j] => i = j
      /\ \A i \in 1..Len(set.address) : set.address[i] \in Drones /\ set.address[i] # d
  BY DEF SetOK, SetType, Distinct
<1>2. CASE TABLE_SET_NEIGHBOR_NUM = 1
  BY <1>1, <1>2
<1>3. CASE \A x, y, z \in Drones : x = y \/ y = z \/ x = z
  <2>1. \A i \in 1..Len(set.address) : set.address[i] = e
    BY <1>1, <1>3
  <2>2. \A i \in 1..Len(set.address) : i = 1
    <3>1. \A i \in 1..Len(set.address) : 1 \in 1..Len(set.address)
      BY <1>1
    <3>. QED  BY <1>1, <2>1, <3>1
  <2>3. set.address # <<>> => 1 \in 1..Len(set.address)
    BY <1>1
  <2>. QED  BY <2>1, <2>2, <2>3
<1>. QED  BY <1>2, <1>3 DEF Single

\* The state a call begins in.
CallStart(d, m, RxTimestamp, old) ==
  [table |-> Started(old, m.msgSequence, RxTimestamp), sum |-> initTofSum[d], valid |-> FALSE]

\* The call begins with what is true, of the table there was or of a new one.
LEMMA CallBegins ==
  ASSUME IInv, NEW d \in Drones, inbox[d] # <<>>, NEW task, task = inbox[d][1],
         NEW m, m = task.message, NEW i, NEW old, Before(tableSet[d], i, m.srcAddress, old),
         NEW start, start = CallStart(d, m, task.RxTimestamp, old)
  PROVE  /\ CallTrue(start, d, m, 0) /\ task \in TaskType /\ TaskTrue(task, d)
         /\ old \in TableType /\ m.msgSequence \in Nat \ {0} /\ task.RxTimestamp \in Nat
         /\ \/ old = EmptyTable
            \/ old.receiveList.top \in Rows /\ Newest(old.receiveList) < m.msgSequence
<1>. DEFINE e == m.srcAddress
            n == m.msgSequence
            set == tableSet[d]
<1>1. /\ TypeOK /\ Histories /\ LocalBuffers /\ Messages /\ TableSets /\ TablesTrue /\ Sums
      /\ InOrder /\ NoGap
  BY DEF IInv
<1>2. 1 \in 1..Len(inbox[d])
  <2>1. inbox[d] \in Seq(TaskType)
    BY <1>1 DEF TypeOK
  <2>. QED  BY <2>1
<1>3. /\ task \in TaskType /\ TaskTrue(task, d) /\ e = From(d, 1) /\ n = Number(d, 1)
      /\ e \in Drones /\ e # d /\ n \in Nat \ {0} /\ Arrived(<<e, d>>, n)
      /\ task.RxTimestamp = heardAt[<<e, d>>][n] /\ task.RxTimestamp \in Nat
  <2>1. /\ task \in TaskType /\ TaskTrue(task, d) /\ e = From(d, 1) /\ n = Number(d, 1)
        /\ e \in Drones /\ e # d /\ n \in Nat /\ Arrived(<<e, d>>, n)
    BY <1>1, <1>2, TaskFacts DEF From, Number
  <2>2. n # 0
    BY <2>1, LengthsAre DEF Arrived, Links
  <2>3. task.RxTimestamp = heardAt[<<e, d>>][n]
    BY <2>1 DEF TaskTrue
  <2>4. task.RxTimestamp \in Nat
    BY <2>1 DEF TaskType
  <2>. QED  BY <2>1, <2>2, <2>3, <2>4
<1>4. /\ old \in TableType /\ BufferTrue(old.validBuffer, d, e)
      /\ Single => SumOf(initTofSum[d], old.validBuffer, e)
      /\ \/ old = EmptyTable
         \/ /\ ListsTrue(old, d, e, MESSAGE_HEAD_TX_SIZE) /\ Newest(old.receiveList) < n
            /\ Short => Newest(old.receiveList) >= n - MESSAGE_HEAD_TX_SIZE
  <2>0. SetOK(set, d) /\ set.address \in Seq(Drones)
    BY <1>1, SetsOK DEF TypeOK
  <2>1. CASE i \in 1..Len(set.address) /\ set.address[i] = e /\ old = set.table[i]
    <3>1. old \in TableType /\ ListsTrue(old, d, e, MESSAGE_HEAD_TX_SIZE)
          /\ BufferTrue(old.validBuffer, d, e)
      BY <1>1, <2>1, TableFacts
    <3>2. Newest(old.receiveList) < n
      BY <1>1, <1>2, <1>3, <2>1 DEF InOrder
    <3>3. Short => Newest(old.receiveList) >= n - MESSAGE_HEAD_TX_SIZE
      <4>1. Short => Reaches(d, e, 1 - 1, n - MESSAGE_HEAD_TX_SIZE)
        BY <1>1, <1>2, <1>3 DEF NoGap
      <4>. QED  BY <2>1, <4>1 DEF Reaches
    <3>4. Single => SumOf(initTofSum[d], old.validBuffer, e)
      <4>1. Single => i = 1 /\ set.address # <<>>
        BY <1>3, <2>0, <2>1, OneNeighbour
      <4>. QED  BY <1>1, <2>1, <4>1 DEF Sums
    <3>. QED  BY <3>1, <3>2, <3>3, <3>4
  <2>2. CASE /\ \A k \in 1..Len(set.address) : set.address[k] # e
             /\ Len(set.address) < TABLE_SET_NEIGHBOR_NUM /\ old = EmptyTable
    <3>1. Single => initTofSum[d] = <<>>
      <4>1. Single => set.address = <<>>
        BY <1>3, <2>0, <2>2, OneNeighbour
      <4>. QED  BY <1>1, <4>1 DEF Sums
    <3>. QED  BY <2>2, <3>1, EmptyTrue, EmptyBufferTrue
  <2>. QED  BY <2>1, <2>2 DEF Before
<1>. DEFINE t == Started(old, n, task.RxTimestamp)
<1>5. /\ t \in TableType /\ t.validBuffer = old.validBuffer
      /\ Newest(t.receiveList) = n /\ ListsTrue(t, d, e, 0)
  <2>. HIDE DEF e, n
  <2>1. \A z : z = Started(old, n, task.RxTimestamp) =>
           /\ z \in TableType /\ z.validBuffer = old.validBuffer
           /\ Newest(z.receiveList) = n /\ ListsTrue(z, d, e, 0)
    <3>1. /\ TypeOK /\ Histories /\ d \in Drones /\ e \in Drones /\ d # e
          /\ n \in Nat \ {0} /\ task.RxTimestamp \in Nat /\ Arrived(<<e, d>>, n)
          /\ task.RxTimestamp = heardAt[<<e, d>>][n] /\ old \in TableType
      BY <1>1, <1>3, <1>4
    <3>2. \/ old = EmptyTable
          \/ /\ ListsTrue(old, d, e, MESSAGE_HEAD_TX_SIZE) /\ Newest(old.receiveList) < n
             /\ Short => Newest(old.receiveList) >= n - MESSAGE_HEAD_TX_SIZE
      BY <1>4
    <3>. QED  BY ONLY <3>1, <3>2, StartTrue
  <2>. QED  BY <2>1
<1>6. start = [table |-> t, sum |-> initTofSum[d], valid |-> FALSE]
  BY DEF CallStart
<1>. HIDE DEF t
<1>7. CallTrue(start, d, m, 0)
  <2>1. initTofSum[d] \in Seq(Drones) /\ FALSE \in BOOLEAN
    BY <1>1 DEF TypeOK
  <2>2. start \in CallType /\ start.table = t /\ start.sum = initTofSum[d]
    BY <1>5, <1>6, <2>1 DEF CallType
  <2>3. CallBuffer(start, d, e)
    BY <1>4, <1>5, <2>2 DEF CallBuffer
  <2>. QED  BY <1>5, <2>2, <2>3 DEF CallTrue
<1>8. \/ old = EmptyTable
      \/ old.receiveList.top \in Rows /\ Newest(old.receiveList) < n
  BY <1>4 DEF ListsTrue
<1>. HIDE DEF e
<1>. QED  BY <1>3, <1>4, <1>7, <1>8

\* And what it leaves is true.
LEMMA CallOutcome ==
  ASSUME IInv, NEW d \in Drones, inbox[d] # <<>>, NEW task, task = inbox[d][1],
         NEW m, m = task.message, NEW i, NEW old, Before(tableSet[d], i, m.srcAddress, old),
         NEW s \in processed(d, m, task.RxTimestamp, old)
  PROVE  CallTrue(s, d, m, MESSAGE_HEAD_TX_SIZE)
<1>. PICK start : start = CallStart(d, m, task.RxTimestamp, old)
  OBVIOUS
<1>1. CallTrue(start, d, m, 0) /\ task \in TaskType /\ TaskTrue(task, d)
  BY CallBegins
<1>2. s \in turns(start, d, m)[Turns]
  BY DEF processed, CallStart, Started
<1>3. TypeOK /\ Histories /\ LocalBuffers
  BY DEF IInv
<1>. QED  BY <1>1, <1>2, <1>3, CallEnds

\* What Process does to the tables of d.
Processed(d, e, m) ==
  \/ UNCHANGED tables /\ \A i \in 1..Len(tableSet[d].address) : tableSet[d].address[i] # e
  \/ \E i, s, new, old :
       /\ Before(tableSet[d], i, e, old) /\ s \in processed(d, m, inbox[d][1].RxTimestamp, old)
       /\ CallTrue(s, d, m, MESSAGE_HEAD_TX_SIZE)
       /\ SetOK(new, d) /\ Serves(tableSet[d], new, i, e) /\ new.table[i] = s.table
       /\ tableSet' = [tableSet EXCEPT ![d] = new]
       /\ initTofSum' = [initTofSum EXCEPT ![d] = s.sum]
       /\ lastD' = [lastD EXCEPT ![d] = IF s.valid THEN e ELSE @]

\* Process is one of the two.
LEMMA ProcessServes ==
  ASSUME IInv, NEW d \in Drones, Process(d), NEW m, m = inbox[d][1].message,
         NEW e, e = m.srcAddress
  PROVE  Processed(d, e, m)
<1>. DEFINE set     == tableSet[d]
            time    == inbox[d][1].RxTimestamp
            address == registerRangingTable(set.address, e)
            i       == findRangingTable(address, e)
            table   == Allocated(set, i)
            New(t)  == NewSet(set, address, i, table, t)
<1>1. TypeOK /\ TableSets /\ Messages
  BY DEF IInv
<1>2. inbox[d] # <<>> /\ inbox[d] \in Seq(TaskType)
  BY <1>1 DEF Process, TypeOK
<1>3. 1 \in 1..Len(inbox[d]) /\ Head(inbox[d]) = inbox[d][1]
  BY <1>2
<1>4. e \in Drones /\ e # d
  BY <1>1, <1>3, TaskFacts DEF From
<1>5. SetOK(set, d)
  BY <1>1, SetsOK
<1>6. IF i = 0 THEN UNCHANGED tables
      ELSE \E s \in processed(d, m, time, table[i]) :
             /\ tableSet' = [tableSet EXCEPT ![d] = New(s.table)]
             /\ initTofSum' = [initTofSum EXCEPT ![d] = s.sum]
             /\ lastD' = [lastD EXCEPT ![d] = IF s.valid THEN e ELSE @]
  BY <1>3 DEF Process, NewSet, Allocated
<1>7. CASE i = 0
  <2>1. UNCHANGED tables
    BY <1>6, <1>7
  <2>2. \A k \in 1..Len(set.address) : set.address[k] # e
    <3>1. /\ set.address \in Seq(Drones) /\ Distinct(set.address)
          /\ Len(set.address) <= TABLE_SET_NEIGHBOR_NUM
      BY <1>5 DEF SetOK, SetType
    <3>2. ~(i \in 1..Len(set.address)) /\ Len(set.address) + 1 # 0
      BY <1>7, <3>1
    <3>3. \/ i \in 1..Len(set.address)
          \/ i = Len(set.address) + 1
          \/ \A k \in 1..Len(set.address) : set.address[k] # e
      BY <1>4, <3>1, Register
    <3>. QED  BY <1>7, <3>2, <3>3
  <2>. QED  BY <2>1, <2>2 DEF Processed
<1>8. CASE i # 0
  <2>1. PICK s \in processed(d, m, time, table[i]) :
             /\ tableSet' = [tableSet EXCEPT ![d] = New(s.table)]
             /\ initTofSum' = [initTofSum EXCEPT ![d] = s.sum]
             /\ lastD' = [lastD EXCEPT ![d] = IF s.valid THEN e ELSE @]
    BY <1>6, <1>8
  <2>2. \A t \in TableType : \A new : new = New(t) =>
          /\ SetOK(new, d) /\ Serves(set, new, i, e) /\ new.table[i] = t
          /\ Before(set, i, e, table[i])
    <3>2. PICK a, j, b : a = address /\ j = i /\ b = table
      OBVIOUS
    <3>3. /\ a = registerRangingTable(set.address, e) /\ j = findRangingTable(a, e) /\ j # 0
          /\ b = Allocated(set, j)
      BY <1>8, <3>2
    <3>4. \A t \in TableType : \A new :
            new = NewSet(set, a, j, b, t) =>
            /\ SetOK(new, d) /\ Serves(set, new, j, e) /\ new.table[j] = t
            /\ Before(set, j, e, b[j])
      <4>. HIDE DEF set
      <4>. QED  BY ONLY <1>4, <1>5, <3>3, ServedSet
    <3>5. \A t : New(t) = NewSet(set, a, j, b, t)
      BY <3>2
    <3>. HIDE DEF New, table, i, address, set
    <3>. QED  BY <3>2, <3>4, <3>5
  <2>. HIDE DEF New, table, i, address
  <2>3. Before(set, i, e, table[i])
    <3>1. EmptyTable \in TableType
      BY EmptyTrue
    <3>. QED  BY <2>2, <3>1
  <2>4. CallTrue(s, d, m, MESSAGE_HEAD_TX_SIZE)
    <3>1. \A task : task = inbox[d][1] => m = task.message /\ time = task.RxTimestamp
      OBVIOUS
    <3>2. s \in processed(d, m, time, table[i])
      OBVIOUS
    <3>3. \A old : old = table[i] => CallTrue(s, d, m, MESSAGE_HEAD_TX_SIZE)
      BY <1>2, <2>3, <3>1, <3>2, CallOutcome
    <3>. QED  BY <3>3
  <2>5. s.table \in TableType
    BY <2>4, CallFields DEF CallTrue
  <2>6. \E j, t, new, old :
          /\ Before(set, j, e, old) /\ t \in processed(d, m, time, old)
          /\ CallTrue(t, d, m, MESSAGE_HEAD_TX_SIZE)
          /\ SetOK(new, d) /\ Serves(set, new, j, e) /\ new.table[j] = t.table
          /\ tableSet' = [tableSet EXCEPT ![d] = new]
          /\ initTofSum' = [initTofSum EXCEPT ![d] = t.sum]
          /\ lastD' = [lastD EXCEPT ![d] = IF t.valid THEN e ELSE @]
    <3>1. PICK new : new = New(s.table)
      OBVIOUS
    <3>2. SetOK(new, d) /\ Serves(set, new, i, e) /\ new.table[i] = s.table
      BY <2>2, <2>5, <3>1
    <3>3. s \in processed(d, m, time, table[i])
      BY <2>1
    <3>. QED  BY <2>1, <2>3, <2>4, <3>1, <3>2, <3>3
  <2>. QED  BY <2>6 DEF Processed
<1>. QED  BY <1>7, <1>8

\* Every table after the step is the one of e, true of message n, or as before.
TablesAfter(d, e, n) ==
  \A x \in Drones : \A k \in 1..Len(tableSet'[x].address) :
    \/ /\ x = d /\ tableSet'[x].address[k] = e
       /\ ListsTrue(tableSet'[x].table[k], d, e, MESSAGE_HEAD_TX_SIZE)
       /\ BufferTrue(tableSet'[x].table[k].validBuffer, d, e)
       /\ Newest(tableSet'[x].table[k].receiveList) = n
    \/ /\ k \in 1..Len(tableSet[x].address)
       /\ tableSet'[x].address[k] = tableSet[x].address[k]
       /\ tableSet'[x].table[k] = tableSet[x].table[k]
       /\ ~(x = d /\ tableSet[x].address[k] = e)

\* What it does to all tables.
LEMMA ProcessTables ==
  ASSUME IInv, NEW d \in Drones, NEW m, NEW e, e = m.srcAddress, NEW n, n = m.msgSequence,
         e \in Drones, Processed(d, e, m)
  PROVE  /\ tableSet' \in [Drones -> SetType]
         /\ \A x \in Drones : SetOK(tableSet'[x], x)
         /\ initTofSum' \in [Drones -> Seq(Drones)] /\ lastD' \in [Drones -> Drones \cup {NULL_ADDR}]
         /\ TablesAfter(d, e, n)
         /\ Single => \A x \in Drones :
              IF tableSet'[x].address = <<>> THEN initTofSum'[x] = <<>>
              ELSE SumOf(initTofSum'[x], tableSet'[x].table[1].validBuffer, tableSet'[x].address[1])
<1>1. /\ TypeOK /\ TableSets /\ TablesTrue /\ Sums
  BY DEF IInv
<1>2. /\ tableSet \in [Drones -> SetType]
      /\ initTofSum \in [Drones -> Seq(Drones)] /\ lastD \in [Drones -> Drones \cup {NULL_ADDR}]
      /\ \A x \in Drones : SetOK(tableSet[x], x)
  BY <1>1, SetsOK DEF TypeOK, SetType
<1>3. CASE UNCHANGED tables /\ \A i \in 1..Len(tableSet[d].address) : tableSet[d].address[i] # e
  <2>1. tableSet' = tableSet /\ initTofSum' = initTofSum /\ lastD' = lastD
    BY <1>3 DEF tables
  <2>2. TablesAfter(d, e, n)
    BY <1>3, <2>1 DEF TablesAfter
  <2>. QED  BY <1>1, <1>2, <2>1, <2>2 DEF Sums
<1>4. CASE \E i, s, new : /\ CallTrue(s, d, m, MESSAGE_HEAD_TX_SIZE)
                          /\ SetOK(new, d) /\ Serves(tableSet[d], new, i, e)
                          /\ new.table[i] = s.table
                          /\ tableSet' = [tableSet EXCEPT ![d] = new]
                          /\ initTofSum' = [initTofSum EXCEPT ![d] = s.sum]
                          /\ lastD' = [lastD EXCEPT ![d] = IF s.valid THEN e ELSE @]
  <2>1. PICK i, s, z : /\ CallTrue(s, d, m, MESSAGE_HEAD_TX_SIZE)
                       /\ SetOK(z, d) /\ Serves(tableSet[d], z, i, e)
                       /\ z.table[i] = s.table
                       /\ tableSet' = [tableSet EXCEPT ![d] = z]
                       /\ initTofSum' = [initTofSum EXCEPT ![d] = s.sum]
                       /\ lastD' = [lastD EXCEPT ![d] = IF s.valid THEN e ELSE @]
    BY <1>4
  <2>2. /\ tableSet'[d] = z /\ \A x \in Drones \ {d} : tableSet'[x] = tableSet[x]
        /\ initTofSum'[d] = s.sum /\ \A x \in Drones \ {d} : initTofSum'[x] = initTofSum[x]
    BY <1>2, <2>1
  <2>3. tableSet' \in [Drones -> SetType]
    BY <1>2, <2>1 DEF SetOK
  <2>4. /\ s \in CallType /\ s.sum \in Seq(Drones) /\ s.valid \in BOOLEAN
        /\ ListsTrue(s.table, d, e, MESSAGE_HEAD_TX_SIZE) /\ Newest(s.table.receiveList) = n
        /\ BufferTrue(s.table.validBuffer, d, e)
        /\ Single => SumOf(s.sum, s.table.validBuffer, e)
    BY <2>1, CallFields DEF CallTrue, CallBuffer
  <2>5. initTofSum' \in [Drones -> Seq(Drones)] /\ lastD' \in [Drones -> Drones \cup {NULL_ADDR}]
    BY <1>2, <2>1, <2>4
  <2>6. \A x \in Drones : SetOK(tableSet'[x], x)
    BY <1>2, <2>1, <2>2
  <2>7. /\ i \in 1..Len(z.address) /\ z.address[i] = e
        /\ \A k \in 1..Len(z.address) : k # i =>
             /\ k \in 1..Len(tableSet[d].address)
             /\ z.address[k] = tableSet[d].address[k] /\ z.table[k] = tableSet[d].table[k]
    BY <2>1 DEF Serves
  <2>8. TablesAfter(d, e, n)
    <3>1. \A k \in 1..Len(z.address) : k # i => z.address[k] # e
      BY <2>1, <2>7 DEF SetOK, SetType, Distinct
    <3>2. ASSUME NEW x \in Drones, x # d, NEW k \in 1..Len(tableSet'[x].address)
          PROVE  /\ k \in 1..Len(tableSet[x].address)
                 /\ tableSet'[x].address[k] = tableSet[x].address[k]
                 /\ tableSet'[x].table[k] = tableSet[x].table[k]
      BY <2>2, <3>2
    <3>3. ASSUME NEW k \in 1..Len(tableSet'[d].address), k # i
          PROVE  /\ k \in 1..Len(tableSet[d].address)
                 /\ tableSet'[d].address[k] = tableSet[d].address[k]
                 /\ tableSet'[d].table[k] = tableSet[d].table[k]
                 /\ tableSet[d].address[k] # e
      BY <2>2, <2>7, <3>1, <3>3
    <3>4. /\ tableSet'[d].address[i] = e /\ tableSet'[d].table[i] = s.table
      BY <2>1, <2>2, <2>7
    <3>. QED  BY <2>4, <3>2, <3>3, <3>4 DEF TablesAfter
  <2>9. ASSUME Single, NEW x \in Drones
        PROVE  IF tableSet'[x].address = <<>> THEN initTofSum'[x] = <<>>
               ELSE SumOf(initTofSum'[x], tableSet'[x].table[1].validBuffer, tableSet'[x].address[1])
    <3>1. CASE x = d
      <4>1. z.address \in Seq(Drones) /\ e # d
        BY <2>1, <2>7 DEF SetOK, SetType
      <4>2. i = 1 /\ z.address # <<>>
        BY <2>1, <2>7, <2>9, <4>1, OneNeighbour
      <4>3. SumOf(s.sum, s.table.validBuffer, e)
        BY <2>4, <2>9
      <4>. QED  BY <2>1, <2>2, <2>7, <3>1, <4>2, <4>3
    <3>2. CASE x # d
      BY <1>1, <2>2, <2>9, <3>2 DEF Sums
    <3>. QED  BY <3>1, <3>2
  <2>. QED  BY <2>3, <2>5, <2>6, <2>8, <2>9
<1>. QED  BY <1>3, <1>4 DEF Processed

\* A sequence without its head.
LEMMA Removed ==
  ASSUME NEW S, NEW q \in Seq(S), q # <<>>
  PROVE  /\ Tail(q) \in Seq(S) /\ Len(q) \in Nat \ {0} /\ Len(Tail(q)) = Len(q) - 1
         /\ \A i \in 1..Len(Tail(q)) : i + 1 \in 1..Len(q) /\ Tail(q)[i] = q[i + 1]
  OBVIOUS

\* processFromQueue
LEMMA ProcessInv ==
  ASSUME IInv, NEW d \in Drones, Process(d)
  PROVE  IInv'
<1>. PICK m, e, n, c :
       m = inbox[d][1].message /\ e = m.srcAddress /\ n = m.msgSequence /\ c = Len(inbox[d])
  OBVIOUS
<1>1. /\ TypeOK /\ Histories /\ LocalBuffers /\ Messages /\ TableSets /\ TablesTrue /\ Sums
      /\ InOrder /\ NoGap
  BY DEF IInv
<1>2. /\ inbox[d] # <<>> /\ inbox' = [inbox EXCEPT ![d] = Tail(@)]
      /\ clock' = clock /\ localSendSeqNumber' = localSendSeqNumber
      /\ localSendBuffer' = localSendBuffer /\ outgoing' = outgoing /\ link' = link /\ lost' = lost
      /\ sentAt' = sentAt /\ heardAt' = heardAt
  BY DEF Process, local
<1>3. inbox \in [Drones -> Seq(TaskType)]
  BY <1>1 DEF TypeOK
<1>4. /\ c \in Nat \ {0} /\ 1 \in 1..c /\ Len(inbox'[d]) = c - 1
      /\ \A i \in 1..Len(inbox'[d]) : i + 1 \in 1..c /\ inbox'[d][i] = inbox[d][i + 1]
      /\ \A x \in Drones \ {d} : inbox'[x] = inbox[x]
      /\ inbox' \in [Drones -> Seq(TaskType)]
  <2>. DEFINE q == inbox[d]
  <2>1. q \in Seq(TaskType) /\ q # <<>> /\ c = Len(q) /\ inbox'[d] = Tail(q)
    BY <1>2, <1>3
  <2>. HIDE DEF q
  <2>2. /\ Tail(q) \in Seq(TaskType) /\ c \in Nat \ {0} /\ Len(Tail(q)) = c - 1
        /\ \A i \in 1..Len(Tail(q)) : i + 1 \in 1..c /\ Tail(q)[i] = q[i + 1]
    BY <2>1, Removed
  <2>3. 1 \in 1..c
    BY <2>2
  <2>. QED  BY <1>2, <1>3, <2>1, <2>2, <2>3 DEF q
<1>5. /\ e \in Drones /\ e # d /\ n \in Nat /\ e = From(d, 1) /\ n = Number(d, 1)
  BY <1>1, <1>4, TaskFacts DEF From, Number
<1>6. Processed(d, e, m)
  BY ProcessServes
<1>7. /\ tableSet' \in [Drones -> SetType] /\ \A x \in Drones : SetOK(tableSet'[x], x)
      /\ initTofSum' \in [Drones -> Seq(Drones)] /\ lastD' \in [Drones -> Drones \cup {NULL_ADDR}]
      /\ TablesAfter(d, e, n)
      /\ Single => \A x \in Drones :
           IF tableSet'[x].address = <<>> THEN initTofSum'[x] = <<>>
           ELSE SumOf(initTofSum'[x], tableSet'[x].table[1].validBuffer, tableSet'[x].address[1])
  BY <1>5, <1>6, ProcessTables
<1>8. Extends
  BY <1>1, <1>2, LengthsAre DEF Extends
<1>9. TypeOK'
  <2>1. \A x \in Drones : Len(inbox'[x]) <= QUEUE_TASK_LENGTH
    <3>1. c <= QUEUE_TASK_LENGTH
      BY <1>1 DEF TypeOK
    <3>2. c - 1 <= QUEUE_TASK_LENGTH
      BY <1>4, <3>1, RangingAssumption
    <3>3. \A x \in Drones : Len(inbox[x]) <= QUEUE_TASK_LENGTH
      BY <1>1 DEF TypeOK
    <3>. QED  BY <1>4, <3>2, <3>3
  <2>2. \A x \in Drones : /\ Len(tableSet'[x].address) <= TABLE_SET_NEIGHBOR_NUM
                          /\ Len(tableSet'[x].table) = Len(tableSet'[x].address)
    BY <1>7 DEF SetOK
  <2>. QED  BY <1>1, <1>2, <1>4, <1>7, <2>1, <2>2 DEF TypeOK, SetType
<1>10. Histories' /\ LocalBuffers'
  <2>1. Histories'
    BY <1>1, <1>2 DEF Histories
  <2>2. LocalBuffers'
    BY <1>1, <1>2 DEF LocalBuffers, TimeOf
  <2>. QED  BY <2>1, <2>2
<1>11. Messages'
  <2>1. ASSUME NEW x \in Drones, NEW j \in 1..Len(inbox'[x]), NEW o, o = inbox'[x][j]
        PROVE  TaskTrue(o, x)'
    <3>1. \E i \in 1..Len(inbox[x]) : o = inbox[x][i]
      <4>1. CASE x = d
        BY <1>4, <2>1, <4>1
      <4>2. CASE x # d
        BY <1>4, <2>1, <4>2
      <4>. QED  BY <4>1, <4>2
    <3>2. o \in TaskType /\ TaskTrue(o, x)
      BY <1>1, <3>1, TaskFacts
    <3>. QED  BY <1>1, <1>8, <1>9, <3>2, StillTask
  <2>2. \A o : o \in MessageType /\ MessageTrue(o) => MessageTrue(o)'
    BY <1>1, <1>8, <1>9, StillMessage
  <2>3. \A x \in Drones : \A j \in 1..Len(outgoing[x]) : \A o : o = outgoing[x][j] =>
          o \in MessageType /\ MessageTrue(o) /\ o.srcAddress = x /\ o.msgSequence = Len(sentAt[x]) + 1
    BY <1>1, SMTT(30) DEF Messages, TypeOK
  <2>4. \A k \in Links : \A j \in 1..Len(link[k]) : \A o : o = link[k][j] =>
          o \in MessageType /\ MessageTrue(o) /\ o.srcAddress = k[1]
          /\ o.msgSequence = Len(heardAt[k]) + j
    BY <1>1 DEF Messages, TypeOK
  <2>5. \A x \in Drones : \A j \in 1..Len(outgoing'[x]) : \A o : o = outgoing'[x][j] =>
          MessageTrue(o)' /\ o.srcAddress = x /\ o.msgSequence = Len(sentAt'[x]) + 1
    BY <1>2, <2>2, <2>3
  <2>6. \A k \in Links : \A j \in 1..Len(link'[k]) : \A o : o = link'[k][j] =>
          MessageTrue(o)' /\ o.srcAddress = k[1] /\ o.msgSequence = Len(heardAt'[k]) + j
    BY <1>2, <2>2, <2>4
  <2>7. \A x \in Drones : \A j \in 1..Len(inbox'[x]) : TaskTrue(inbox[x][j], x)'
    BY <2>1
  <2>8. \A x \in Drones : \A j \in 1..Len(outgoing'[x]) :
          /\ MessageTrue(outgoing[x][j])' /\ outgoing'[x][j].srcAddress = x
          /\ outgoing'[x][j].msgSequence = Len(sentAt'[x]) + 1
    BY <2>5
  <2>9. \A k \in Links : \A j \in 1..Len(link'[k]) :
          /\ MessageTrue(link[k][j])' /\ link'[k][j].srcAddress = k[1]
          /\ link'[k][j].msgSequence = Len(heardAt'[k]) + j
    BY <2>6
  <2>. QED  BY <2>7, <2>8, <2>9 DEF Messages
<1>12. TableSets'
  BY <1>7 DEF TableSets, SetOK
<1>13. ASSUME NEW x \in Drones, NEW k \in 1..Len(tableSet'[x].address)
       PROVE  \/ /\ x = d /\ tableSet'[x].address[k] = e
                 /\ ListsTrue(tableSet'[x].table[k], d, e, MESSAGE_HEAD_TX_SIZE)
                 /\ BufferTrue(tableSet'[x].table[k].validBuffer, d, e)
                 /\ Newest(tableSet'[x].table[k].receiveList) = n
              \/ /\ k \in 1..Len(tableSet[x].address)
                 /\ tableSet'[x].address[k] = tableSet[x].address[k]
                 /\ tableSet'[x].table[k] = tableSet[x].table[k]
                 /\ ~(x = d /\ tableSet[x].address[k] = e)
  BY <1>7 DEF TablesAfter
<1>14. TablesTrue'
  <2>1. ASSUME NEW x \in Drones, NEW k \in 1..Len(tableSet'[x].address), NEW t, NEW f,
               t = tableSet'[x].table[k], f = tableSet'[x].address[k]
        PROVE  ListsTrue(t, x, f, MESSAGE_HEAD_TX_SIZE)' /\ BufferTrue(t.validBuffer, x, f)'
    <3>1. /\ ListsTrue(t, x, f, MESSAGE_HEAD_TX_SIZE) /\ BufferTrue(t.validBuffer, x, f)
          /\ f \in Drones /\ f # x
      <4>1. CASE /\ x = d /\ tableSet'[x].address[k] = e
                 /\ ListsTrue(tableSet'[x].table[k], d, e, MESSAGE_HEAD_TX_SIZE)
                 /\ BufferTrue(tableSet'[x].table[k].validBuffer, d, e)
        BY <1>5, <2>1, <4>1
      <4>2. CASE /\ k \in 1..Len(tableSet[x].address)
                 /\ tableSet'[x].address[k] = tableSet[x].address[k]
                 /\ tableSet'[x].table[k] = tableSet[x].table[k]
        BY <1>1, <2>1, <4>2, TableFacts
      <4>. QED  BY <1>13, <4>1, <4>2
    <3>. QED  BY <1>1, <1>8, <1>9, <3>1, StillLists, StillBuffer
  <2>. QED  BY <2>1 DEF TablesTrue
<1>15. Sums'
  BY <1>7 DEF Sums, Single, SumOf
<1>16. \A j \in 1..Len(inbox'[d]) : From(d, j)' = From(d, j + 1) /\ Number(d, j)' = Number(d, j + 1)
  BY <1>4 DEF From, Number
<1>17. \A x \in Drones \ {d} : \A j : From(x, j)' = From(x, j) /\ Number(x, j)' = Number(x, j)
  BY <1>4 DEF From, Number
<1>18. \A x \in Drones : \A j \in 1..Len(inbox[x]) : Number(x, j) \in Nat
  BY <1>1, TaskFacts
<1>19. InOrder'
  <2>1. ASSUME NEW j \in 1..Len(inbox'[d])
        PROVE  /\ \A i \in 1..j - 1 : From(d, i)' = From(d, j)' => Number(d, i)' < Number(d, j)'
               /\ \A i \in 1..Len(tableSet'[d].address) : tableSet'[d].address[i] = From(d, j)' =>
                    Newest(tableSet'[d].table[i].receiveList) < Number(d, j)'
    <3>1. /\ j + 1 \in 1..c /\ j \in 1..c - 1 /\ From(d, j)' = From(d, j + 1)
          /\ Number(d, j)' = Number(d, j + 1)
      BY <1>4, <1>16
    <3>2. /\ \A i \in 1..j + 1 - 1 : From(d, i) = From(d, j + 1) => Number(d, i) < Number(d, j + 1)
          /\ \A i \in 1..Len(tableSet[d].address) : tableSet[d].address[i] = From(d, j + 1) =>
               Newest(tableSet[d].table[i].receiveList) < Number(d, j + 1)
      BY <1>1, <3>1 DEF InOrder
    <3>3. ASSUME NEW i \in 1..j - 1, From(d, i)' = From(d, j)'
          PROVE  Number(d, i)' < Number(d, j)'
      <4>1. i + 1 \in 1..j + 1 - 1 /\ i \in 1..Len(inbox'[d])
        BY <1>4, <3>1
      <4>. QED  BY <1>16, <3>1, <3>2, <3>3, <4>1
    <3>4. From(d, 1) = From(d, j + 1) => Number(d, 1) < Number(d, j + 1)
      <4>1. 1 \in 1..j + 1 - 1
        BY <3>1
      <4>. QED  BY <3>2, <4>1
    <3>5. ASSUME NEW i \in 1..Len(tableSet'[d].address), tableSet'[d].address[i] = From(d, j)'
          PROVE  Newest(tableSet'[d].table[i].receiveList) < Number(d, j)'
      BY <1>5, <1>13, <3>1, <3>2, <3>4, <3>5
    <3>. QED  BY <3>3, <3>5
  <2>2. ASSUME NEW x \in Drones \ {d}, NEW j \in 1..Len(inbox'[x])
        PROVE  /\ \A i \in 1..j - 1 : From(x, i)' = From(x, j)' => Number(x, i)' < Number(x, j)'
               /\ \A i \in 1..Len(tableSet'[x].address) : tableSet'[x].address[i] = From(x, j)' =>
                    Newest(tableSet'[x].table[i].receiveList) < Number(x, j)'
    <3>1. j \in 1..Len(inbox[x])
      BY <1>4
    <3>2. /\ \A i \in 1..j - 1 : From(x, i) = From(x, j) => Number(x, i) < Number(x, j)
          /\ \A i \in 1..Len(tableSet[x].address) : tableSet[x].address[i] = From(x, j) =>
               Newest(tableSet[x].table[i].receiveList) < Number(x, j)
      BY <1>1, <3>1 DEF InOrder
    <3>3. \A l \in 1..Len(tableSet'[x].address) :
            /\ l \in 1..Len(tableSet[x].address) /\ tableSet'[x].address[l] = tableSet[x].address[l]
            /\ tableSet'[x].table[l] = tableSet[x].table[l]
      BY <1>13
    <3>. QED  BY <1>17, <3>2, <3>3
  <2>3. \A x \in Drones : \A j \in 1..Len(inbox'[x]) :
          /\ \A i \in 1..j - 1 : From(x, i)' = From(x, j)' => Number(x, i)' < Number(x, j)'
          /\ \A i \in 1..Len(tableSet'[x].address) : tableSet'[x].address[i] = From(x, j)' =>
               Newest(tableSet'[x].table[i].receiveList) < Number(x, j)'
    BY <2>1, <2>2
  <2>. QED  BY <2>3 DEF InOrder, Newest
<1>20. ASSUME NEW f, NEW j \in 0..c - 1, NEW i, i = j + 1, NEW s \in Int, Reaches(d, f, i, s)
       PROVE  Reaches(d, f, j, s)'
  <2>1. /\ j \in Nat /\ i \in 1..c
        /\ \A k \in 1..j : k \in 1..Len(inbox'[d]) /\ k + 1 \in 1..i
        /\ \A k \in 1..i : k = 1 \/ (k - 1 \in 1..j /\ k - 1 + 1 = k)
    BY <1>4, <1>20
  <2>2. \A k \in 1..j : From(d, k)' = From(d, k + 1) /\ Number(d, k)' = Number(d, k + 1)
    BY <1>16, <2>1
  <2>3. CASE \E k \in 1..i : From(d, k) = f /\ Number(d, k) >= s
    <3>1. PICK k \in 1..i : From(d, k) = f /\ Number(d, k) >= s
      BY <2>3
    <3>2. CASE k # 1
      <4>1. \E l \in 1..j : From(d, l)' = f /\ Number(d, l)' >= s
        BY <2>1, <2>2, <3>1, <3>2
      <4>. QED  BY <4>1 DEF Reaches
    <3>3. CASE k = 1 /\ \E l \in 1..j : From(d, l)' = f
      <4>1. PICK l \in 1..j : From(d, l)' = f
        BY <3>3
      <4>2. l + 1 \in 1..c /\ 1 \in 1..l + 1 - 1
        BY <1>4, <2>1
      <4>3. Number(d, 1) < Number(d, l + 1)
        BY <1>1, <2>2, <3>1, <3>3, <4>1, <4>2 DEF InOrder
      <4>4. Number(d, l + 1) >= s
        <5>1. Number(d, 1) \in Nat /\ Number(d, l + 1) \in Nat /\ Number(d, 1) >= s
          BY <1>4, <1>18, <3>1, <3>3, <4>2
        <5>. QED  BY <4>3, <5>1
      <4>5. \E h \in 1..j : From(d, h)' = f /\ Number(d, h)' >= s
        BY <2>2, <4>1, <4>4
      <4>. QED  BY <4>5 DEF Reaches
    <3>4. CASE k = 1 /\ \A l \in 1..j : From(d, l)' # f
      <4>1. f = e /\ n >= s
        BY <1>5, <3>1, <3>4
      <4>2. \A l \in 1..Len(tableSet'[d].address) : tableSet'[d].address[l] = f =>
              Newest(tableSet'[d].table[l].receiveList) >= s
        BY <1>13, <4>1
      <4>. QED  BY <3>4, <4>2 DEF Reaches, Newest
    <3>. QED  BY <3>2, <3>3, <3>4
  <2>4. CASE /\ \A k \in 1..i : From(d, k) # f
             /\ \A k \in 1..Len(tableSet[d].address) : tableSet[d].address[k] = f =>
                  Newest(tableSet[d].table[k].receiveList) >= s
    <3>1. \A k \in 1..j : From(d, k)' # f
      BY <2>1, <2>2, <2>4
    <3>2. f # e
      <4>1. 1 \in 1..i
        BY <2>1
      <4>. QED  BY <1>5, <2>4, <4>1
    <3>3. \A l \in 1..Len(tableSet'[d].address) : tableSet'[d].address[l] = f =>
            Newest(tableSet'[d].table[l].receiveList) >= s
      BY <1>13, <2>4, <3>2
    <3>. QED  BY <3>1, <3>3 DEF Reaches, Newest
  <2>. QED  BY <1>20, <2>3, <2>4 DEF Reaches
<1>21. ASSUME NEW x \in Drones \ {d}, NEW f, NEW j, NEW s, Reaches(x, f, j, s)
       PROVE  Reaches(x, f, j, s)'
  <2>1. \A l \in 1..Len(tableSet'[x].address) :
          /\ l \in 1..Len(tableSet[x].address) /\ tableSet'[x].address[l] = tableSet[x].address[l]
          /\ tableSet'[x].table[l] = tableSet[x].table[l]
    BY <1>13
  <2>. QED  BY <1>17, <1>21, <2>1 DEF Reaches, Newest
<1>22. NoGap'
  <2>. SUFFICES ASSUME Short
                PROVE  /\ \A x \in Drones : \A j \in 1..Len(inbox'[x]) : \A f, i, s :
                            f = From(x, j)' /\ i = j - 1 /\ s = Number(x, j)' - MESSAGE_HEAD_TX_SIZE
                            => Reaches(x, f, i, s)'
                       /\ \A k \in Links : \A i, s :
                            i = Len(inbox'[k[2]]) /\ s = Len(heardAt'[k]) - lost'[k]
                            => Reaches(k[2], k[1], i, s)'
    BY DEF NoGap, Short
  <2>1. /\ \A x \in Drones : \A j \in 1..Len(inbox[x]) :
             Reaches(x, From(x, j), j - 1, Number(x, j) - MESSAGE_HEAD_TX_SIZE)
        /\ \A k \in Links : Reaches(k[2], k[1], Len(inbox[k[2]]), Len(heardAt[k]) - lost[k])
    BY <1>1 DEF NoGap
  <2>2. ASSUME NEW j \in 1..Len(inbox'[d]), NEW f, NEW i, NEW s,
               f = From(d, j)', i = j - 1, s = Number(d, j)' - MESSAGE_HEAD_TX_SIZE
        PROVE  Reaches(d, f, i, s)'
    <3>1. j + 1 \in 1..c /\ i \in 0..c - 1 /\ j + 1 - 1 = j /\ j = i + 1
      BY <1>4, <2>2
    <3>2. f = From(d, j + 1) /\ s = Number(d, j + 1) - MESSAGE_HEAD_TX_SIZE
      BY <1>16, <2>2
    <3>3. s \in Int
      BY <1>18, <3>1, <3>2, Sizes
    <3>4. Reaches(d, f, j, s)
      BY <2>1, <3>1, <3>2
    <3>. QED  BY <1>20, <3>1, <3>3, <3>4
  <2>3. ASSUME NEW x \in Drones \ {d}, NEW j \in 1..Len(inbox'[x]), NEW f, NEW i, NEW s,
               f = From(x, j)', i = j - 1, s = Number(x, j)' - MESSAGE_HEAD_TX_SIZE
        PROVE  Reaches(x, f, i, s)'
    <3>1. j \in 1..Len(inbox[x])
      BY <1>4
    <3>2. Reaches(x, f, i, s)
      BY <1>17, <2>1, <2>3, <3>1
    <3>. QED  BY <1>21, <3>2
  <2>4. ASSUME NEW k \in Links, NEW i, NEW s,
               i = Len(inbox'[k[2]]), s = Len(heardAt'[k]) - lost'[k]
        PROVE  Reaches(k[2], k[1], i, s)'
    <3>1. k[2] \in Drones /\ k[1] \in Drones
      BY LinkEnds
    <3>2. Reaches(k[2], k[1], Len(inbox[k[2]]), s)
      BY <1>2, <2>1, <2>4
    <3>3. s \in Int
      <4>1. Len(heardAt[k]) \in Nat
        BY <1>1, LengthsAre
      <4>2. lost[k] \in 0..MaxConsecutiveLoss
        BY <1>1 DEF TypeOK
      <4>. QED  BY <1>2, <2>4, <4>1, <4>2
    <3>4. CASE k[2] = d
      <4>1. i \in 0..c - 1 /\ c = i + 1
        BY <1>4, <2>4, <3>4
      <4>2. Reaches(d, k[1], c, s)
        BY <3>2, <3>4
      <4>. QED  BY <1>20, <3>3, <3>4, <4>1, <4>2
    <3>5. CASE k[2] # d
      <4>1. i = Len(inbox[k[2]])
        BY <1>4, <2>4, <3>1, <3>5
      <4>. QED  BY <1>21, <3>1, <3>2, <3>5, <4>1
    <3>. QED  BY <3>4, <3>5
  <2>. QED  BY <2>2, <2>3, <2>4
<1>. QED  BY <1>9, <1>10, <1>11, <1>12, <1>14, <1>15, <1>19, <1>22 DEF IInv

\* Every step keeps the invariant.
LEMMA StepInv == IInv /\ [Next]_vars => IInv'
<1>. SUFFICES ASSUME IInv, [Next]_vars  PROVE IInv'
  OBVIOUS
<1>1. ASSUME UNCHANGED vars  PROVE IInv'
  <2>1. /\ TypeOK /\ Histories /\ LocalBuffers /\ Messages /\ TableSets /\ TablesTrue /\ Sums
        /\ InOrder /\ NoGap
    BY DEF IInv
  <2>. USE <1>1 DEF vars, local, tables
  <2>2. TypeOK'
    BY <2>1 DEF TypeOK
  <2>3. Extends
    BY <2>1, LengthsAre DEF Extends
  <2>4. Histories' /\ LocalBuffers' /\ TableSets' /\ Sums'
    <3>1. Histories'
      BY <2>1 DEF Histories
    <3>2. LocalBuffers'
      BY <2>1 DEF LocalBuffers, TimeOf
    <3>3. TableSets' /\ Sums'
      BY <2>1 DEF TableSets, Sums, SumOf, Single
    <3>. QED  BY <3>1, <3>2, <3>3
  <2>5. TablesTrue'
    BY <2>1, <2>2, <2>3, StillTables
  <2>6. Messages'
    <3>1. \A o : o \in MessageType /\ MessageTrue(o) => MessageTrue(o)'
      BY <2>1, <2>2, <2>3, StillMessage
    <3>2. \A x \in Drones : \A o : o \in TaskType /\ TaskTrue(o, x) => TaskTrue(o, x)'
      BY <2>1, <2>2, <2>3, StillTask
    <3>3. \A x \in Drones : \A j \in 1..Len(inbox'[x]) : \A o : o = inbox'[x][j] => TaskTrue(o, x)'
      BY <2>1, <3>2, TaskFacts
    <3>4. \A x \in Drones : \A j \in 1..Len(outgoing'[x]) : \A o : o = outgoing'[x][j] =>
            MessageTrue(o)' /\ o.srcAddress = x /\ o.msgSequence = Len(sentAt'[x]) + 1
      BY <2>1, <3>1 DEF Messages, TypeOK
    <3>5. \A k \in Links : \A j \in 1..Len(link'[k]) : \A o : o = link'[k][j] =>
            MessageTrue(o)' /\ o.srcAddress = k[1] /\ o.msgSequence = Len(heardAt'[k]) + j
      BY <2>1, <3>1 DEF Messages, TypeOK
    <3>. QED  BY <3>3, <3>4, <3>5 DEF Messages
  <2>7. InOrder'
    BY <2>1 DEF InOrder, From, Number, Newest
  <2>8. NoGap'
    BY <2>1, StillNoGap
  <2>. QED  BY <2>2, <2>4, <2>5, <2>6, <2>7, <2>8 DEF IInv
<1>2. ASSUME NEW d \in Drones, Generate(d)  PROVE IInv'
  BY <1>2, GenerateInv
<1>3. ASSUME NEW d \in Drones, Send(d)  PROVE IInv'
  BY <1>3, SendInv
<1>4. ASSUME NEW d \in Drones, Process(d)  PROVE IInv'
  BY <1>4, ProcessInv
<1>5. ASSUME NEW l \in Links, Receive(l)  PROVE IInv'
  BY <1>5, ReceiveInv
<1>6. ASSUME NEW l \in Links, Lose(l)  PROVE IInv'
  BY <1>6, LoseInv
<1>. QED  BY <1>1, <1>2, <1>3, <1>4, <1>5, <1>6 DEF Next, Finished
-----------------------------------------------------------------------------
(* The tables of a drone are those of Neighbors.                           *)

\* In the initial state the tables of a drone are those of Neighbors.
LEMMA KeepsInit ==
  ASSUME Init, NEW d \in Drones
  PROVE  TablesOf(d)!Init /\ Refused(d) = {}
<1>1. /\ heardAt = [l \in Links |-> <<>>]
      /\ tableSet[d] = [address |-> <<>>, queue |-> <<>>, table |-> <<>>]
  BY DEF Init
<1>2. \A e \in Drones \ {d} : <<e, d>> \in Links /\ heardAt[<<e, d>>] = <<>>
  BY <1>1 DEF Links
<1>3. Refused(d) = {}
  BY <1>2 DEF Refused, Handled
<1>. QED  BY <1>1, <1>3 DEF TablesOf!Init, LastServed

\* A step that leaves the tables of d alone, and the numbers it has processed.
LEMMA KeepsStutter ==
  ASSUME NEW d \in Drones, tableSet'[d] = tableSet[d],
         \A e \in Drones \ {d} : Handled(d, e)' = Handled(d, e)
  PROVE  UNCHANGED TablesOf(d)!vars /\ Refused(d)' = Refused(d)
<1>1. Refused(d)' = Refused(d)
  BY DEF Refused
<1>2. LastServed(d)' = LastServed(d)
  BY DEF LastServed
<1>. QED  BY <1>1, <1>2 DEF TablesOf!vars

\* d has processed the messages of e that are neither lost nor in a task.
LEMMA HandledIs ==
  ASSUME NEW d, NEW e
  PROVE  Handled(d, e) = {s \in 1..Len(heardAt[<<e, d>>]) :
           /\ heardAt[<<e, d>>][s] # NULL_TIMESTAMP
           /\ \A j \in 1..Len(inbox[d]) : ~(From(d, j) = e /\ Number(d, j) = s)}
  BY DEF Handled, From, Number

\* Losing a message leaves its receiver where it was.
LEMMA LoseHandled ==
  ASSUME IInv, NEW l \in Links, Lose(l), NEW d \in Drones, NEW e \in Drones \ {d}
  PROVE  Handled(d, e)' = Handled(d, e)
<1>1. /\ heardAt' = [heardAt EXCEPT ![l] = Append(@, NULL_TIMESTAMP)] /\ inbox' = inbox
  BY DEF Lose
<1>2. heardAt \in [Links -> Seq(Nat)] /\ <<e, d>> \in Links
  BY DEF IInv, TypeOK, Links
<1>3. PICK q, r : q = heardAt[<<e, d>>] /\ r = heardAt'[<<e, d>>]
  OBVIOUS
<1>4. q \in Seq(Nat) /\ (r = q \/ r = Append(q, NULL_TIMESTAMP))
  BY <1>1, <1>2, <1>3
<1>5. \A s : s \in 1..Len(r) /\ r[s] # NULL_TIMESTAMP
               <=> s \in 1..Len(q) /\ q[s] # NULL_TIMESTAMP
  <2>1. CASE r = q
    BY <2>1
  <2>2. CASE r = Append(q, NULL_TIMESTAMP)
    <3>1. /\ Len(q) \in Nat /\ Len(r) = Len(q) + 1 /\ r[Len(q) + 1] = NULL_TIMESTAMP
          /\ \A s \in 1..Len(q) : r[s] = q[s]
      BY <1>4, <2>2 DEF NULL_TIMESTAMP
    <3>. QED  BY <3>1
  <2>. QED  BY <1>4, <2>1, <2>2
<1>6. \A j \in 1..Len(inbox[d]) : From(d, j)' = From(d, j) /\ Number(d, j)' = Number(d, j)
  BY <1>1 DEF From, Number
<1>7. Handled(d, e)' = {s \in 1..Len(r) :
           /\ r[s] # NULL_TIMESTAMP
           /\ \A j \in 1..Len(inbox[d]) : ~(From(d, j) = e /\ Number(d, j) = s)}
  BY <1>1, <1>3, <1>6, HandledIs DEF Handled, From, Number
<1>8. Handled(d, e) = {s \in 1..Len(q) :
           /\ q[s] # NULL_TIMESTAMP
           /\ \A j \in 1..Len(inbox[d]) : ~(From(d, j) = e /\ Number(d, j) = s)}
  BY <1>3, HandledIs
<1>9. ASSUME NEW s  PROVE s \in Handled(d, e)' <=> s \in Handled(d, e)
  BY <1>5, <1>7, <1>8
<1>. QED  BY <1>9

\* A message that arrives waits in a task.
LEMMA ReceiveHandled ==
  ASSUME IInv, NEW l \in Links, Receive(l), NEW d \in Drones, NEW e \in Drones \ {d}
  PROVE  Handled(d, e)' = Handled(d, e)
<1>. PICK x, v, task, q, r, b, c :
       /\ x = l[2] /\ v = clock[x] + 1
       /\ task = [message |-> Head(link[l]), RxTimestamp |-> v]
       /\ q = heardAt[<<e, d>>] /\ r = heardAt'[<<e, d>>]
       /\ b = inbox[d] /\ c = inbox'[d]
  OBVIOUS
<1>1. /\ TypeOK /\ Messages
  BY DEF IInv
<1>2. /\ heardAt \in [Links -> Seq(Nat)] /\ <<e, d>> \in Links /\ x \in Drones
      /\ inbox \in [Drones -> Seq(TaskType)] /\ v \in Nat
      /\ link \in [Links -> Seq(MessageType)] /\ clock \in [Drones -> Nat]
  <2>1. x \in Drones
    BY LinkEnds
  <2>2. clock[x] \in Nat
    BY <1>1, <2>1 DEF TypeOK
  <2>3. <<e, d>> \in Links
    BY DEF Links
  <2>4. /\ heardAt \in [Links -> Seq(Nat)] /\ inbox \in [Drones -> Seq(TaskType)]
        /\ link \in [Links -> Seq(MessageType)] /\ clock \in [Drones -> Nat]
    BY <1>1 DEF TypeOK
  <2>5. v \in Nat
    BY <2>2
  <2>. QED  BY <2>1, <2>3, <2>4, <2>5
<1>3. /\ heardAt' = [heardAt EXCEPT ![l] = Append(@, v)] /\ link[l] # <<>>
      /\ inbox' = [inbox EXCEPT ![x] = Append(@, task)]
  <2>1. clock'[x] = v
    BY <1>2 DEF Receive
  <2>. QED  BY <2>1 DEF Receive
<1>4. /\ Head(link[l]) = link[l][1] /\ 1 \in 1..Len(link[l]) /\ link[l][1] \in MessageType
  <2>1. link[l] \in Seq(MessageType) /\ link[l] # <<>>
    BY <1>2, <1>3
  <2>. QED  BY ONLY <2>1
<1>5. /\ task.message.srcAddress = l[1] /\ task.message.msgSequence = Len(heardAt[l]) + 1
      /\ task \in TaskType
  <2>1. link[l][1].srcAddress = l[1] /\ link[l][1].msgSequence = Len(heardAt[l]) + 1
    BY <1>1, <1>4 DEF Messages
  <2>. QED  BY <1>2, <1>4, <2>1 DEF TaskType
<1>6. /\ q \in Seq(Nat) /\ b \in Seq(TaskType)
  BY <1>2
<1>7. CASE l = <<e, d>>
  <2>1. x = d /\ r = Append(q, v) /\ c = Append(b, task)
    BY <1>2, <1>3, <1>7
  <2>2. /\ Len(q) \in Nat /\ Len(r) = Len(q) + 1 /\ \A s \in 1..Len(q) : r[s] = q[s]
        /\ Len(b) \in Nat /\ Len(c) = Len(b) + 1 /\ c[Len(b) + 1] = task
        /\ \A j \in 1..Len(b) : c[j] = b[j]
    <3>1. Len(q) \in Nat /\ Len(b) \in Nat
      BY <1>6
    <3>. QED  BY <1>2, <1>5, <1>6, <2>1, <3>1, Appended
  <2>3. task.message.srcAddress = e /\ task.message.msgSequence = Len(q) + 1
    BY <1>5, <1>7
  <2>4. ASSUME NEW s \in 1..Len(q)
        PROVE  (\A j \in 1..Len(c) : ~(c[j].message.srcAddress = e /\ c[j].message.msgSequence = s))
               <=> \A j \in 1..Len(b) : ~(b[j].message.srcAddress = e /\ b[j].message.msgSequence = s)
    <3>1. Len(q) + 1 # s
      BY <2>2
    <3>2. \A j \in 1..Len(c) : j \in 1..Len(b) \/ j = Len(b) + 1
      BY <2>2
    <3>3. \A j \in 1..Len(b) : j \in 1..Len(c)
      BY <2>2
    <3>4. ~(task.message.srcAddress = e /\ task.message.msgSequence = s)
      BY <2>3, <3>1
    <3>5. /\ \A j \in 1..Len(b) : c[j] = b[j]
          /\ c[Len(b) + 1] = task
      BY <2>2
    <3>. QED  BY ONLY <3>2, <3>3, <3>4, <3>5, Zenon
  <2>5. ~ \A j \in 1..Len(c) : ~(c[j].message.srcAddress = e /\ c[j].message.msgSequence = Len(q) + 1)
    <3>1. Len(b) + 1 \in 1..Len(c)
      BY <2>2
    <3>. QED  BY <2>2, <2>3, <3>1
  <2>6. \A s \in 1..Len(r) : s \in 1..Len(q) \/ s = Len(q) + 1
    BY <2>2
  <2>7. \A s \in 1..Len(q) : s \in 1..Len(r)
    BY <2>2
  <2>8. ASSUME NEW s  PROVE s \in Handled(d, e)' <=> s \in Handled(d, e)
    <3>1. Handled(d, e)' = {z \in 1..Len(r) : /\ r[z] # NULL_TIMESTAMP
             /\ \A j \in 1..Len(c) : ~(c[j].message.srcAddress = e /\ c[j].message.msgSequence = z)}
      BY DEF Handled
    <3>2. Handled(d, e) = {z \in 1..Len(q) : /\ q[z] # NULL_TIMESTAMP
             /\ \A j \in 1..Len(b) : ~(b[j].message.srcAddress = e /\ b[j].message.msgSequence = z)}
      BY DEF Handled
    <3>3. \A z \in 1..Len(q) : r[z] = q[z]
      BY <2>2
    <3>4. CASE s \in 1..Len(q)
      BY ONLY <2>4, <2>7, <3>1, <3>2, <3>3, <3>4, Zenon
    <3>5. CASE s \notin 1..Len(q)
      BY ONLY <2>5, <2>6, <3>1, <3>2, <3>5, Zenon
    <3>. QED  BY <3>4, <3>5
  <2>. QED  BY <2>8
<1>8. CASE l # <<e, d>>
  <2>1. r = q
    BY <1>2, <1>3, <1>8
  <2>2. \/ c = b
        \/ c = Append(b, task) /\ task.message.srcAddress # e
    <3>1. l = <<l[1], l[2]>>
      BY DEF Links
    <3>2. CASE x = d
      <4>1. l[1] # e
        BY <1>8, <3>1, <3>2
      <4>. QED  BY <1>2, <1>3, <1>5, <3>2, <4>1
    <3>3. CASE x # d
      BY <1>2, <1>3, <3>3
    <3>. QED  BY <3>2, <3>3
  <2>3. CASE c = b
    BY <2>1, <2>3 DEF Handled
  <2>4. CASE c = Append(b, task) /\ task.message.srcAddress # e
    <3>1. /\ Len(b) \in Nat /\ Len(c) = Len(b) + 1 /\ c[Len(b) + 1] = task
          /\ \A j \in 1..Len(b) : c[j] = b[j]
      BY <1>5, <1>6, <2>4
    <3>. QED  BY <2>1, <2>4, <3>1 DEF Handled
  <2>. QED  BY <2>2, <2>3, <2>4
<1>. QED  BY <1>7, <1>8

\* Processing a task leaves the other neighbours where they were.
LEMMA ProcessHandled ==
  ASSUME IInv, NEW d \in Drones, Process(d), NEW e, e = From(d, 1)
  PROVE  /\ e \in Drones \ {d} /\ Handled(d, e)' # {}
         /\ \A x \in Drones \ {d, e} : Handled(d, x)' = Handled(d, x)
         /\ \A x \in Drones \ {d} : /\ tableSet'[x] = tableSet[x]
                                    /\ \A y \in Drones : Handled(x, y)' = Handled(x, y)
<1>. PICK n, c, b : n = Number(d, 1) /\ b = inbox[d] /\ c = inbox'[d]
  OBVIOUS
<1>1. /\ TypeOK /\ Messages /\ InOrder
  BY DEF IInv
<1>2. /\ inbox[d] # <<>> /\ inbox' = [inbox EXCEPT ![d] = Tail(@)] /\ heardAt' = heardAt
      /\ inbox \in [Drones -> Seq(TaskType)] /\ tableSet \in [Drones -> SetType]
  BY <1>1 DEF Process, TypeOK, SetType
<1>3. /\ c = Tail(b) /\ b \in Seq(TaskType) /\ b # <<>>
      /\ \A x \in Drones \ {d} : inbox'[x] = inbox[x]
  BY <1>2
<1>4. /\ Len(b) \in Nat \ {0} /\ Len(c) = Len(b) - 1
      /\ \A i \in 1..Len(c) : i + 1 \in 1..Len(b) /\ c[i] = b[i + 1]
  BY <1>3, Removed
<1>5. /\ 1 \in 1..Len(b) /\ \A j \in 1..Len(b) : j # 1 => j - 1 \in 1..Len(c) /\ b[j] = c[j - 1]
  BY <1>4
<1>6. e \in Drones /\ e # d /\ n \in Nat /\ Arrived(<<e, d>>, n)
  BY <1>1, <1>5, TaskFacts
<1>7. \A i \in 1..Len(c) : From(d, i)' = From(d, i + 1) /\ Number(d, i)' = Number(d, i + 1)
  BY <1>4 DEF From, Number
<1>8. n \in Handled(d, e)'
  <2>1. ASSUME NEW i \in 1..Len(c), From(d, i)' = e  PROVE Number(d, i)' # n
    <3>1. /\ i + 1 \in 1..Len(b) /\ From(d, i + 1) = e /\ Number(d, i)' = Number(d, i + 1)
          /\ 1 \in 1..(i + 1) - 1
      BY <1>4, <1>7, <2>1
    <3>2. n < Number(d, i + 1)
      BY <1>1, <3>1 DEF InOrder
    <3>3. Number(d, i + 1) \in Nat
      BY <1>1, <3>1, TaskFacts
    <3>. QED  BY <1>6, <3>1, <3>2, <3>3
  <2>. QED  BY <1>2, <1>6, <2>1 DEF Handled, From, Number, Arrived
<1>9. ASSUME NEW x \in Drones \ {d, e}  PROVE Handled(d, x)' = Handled(d, x)
  <2>1. b[1].message.srcAddress # x
    BY <1>9 DEF From
  <2>2. \A s : (\A j \in 1..Len(b) : ~(b[j].message.srcAddress = x /\ b[j].message.msgSequence = s))
           <=> (\A j \in 1..Len(c) : ~(c[j].message.srcAddress = x /\ c[j].message.msgSequence = s))
    <3>1. \A i \in 1..Len(c) : i + 1 \in 1..Len(b) /\ c[i] = b[i + 1]
      BY <1>4
    <3>2. \A j \in 1..Len(b) : j = 1 \/ (j - 1 \in 1..Len(c) /\ b[j] = c[j - 1])
      BY <1>5
    <3>. QED  BY ONLY <2>1, <3>1, <3>2, Zenon
  <2>. QED  BY <1>2, <2>2 DEF Handled
<1>10. ASSUME NEW x \in Drones \ {d}
       PROVE  /\ tableSet'[x] = tableSet[x]
              /\ \A y \in Drones : Handled(x, y)' = Handled(x, y)
  <2>1. UNCHANGED tables \/ \E new : tableSet' = [tableSet EXCEPT ![d] = new]
    BY DEF Process
  <2>2. tableSet'[x] = tableSet[x]
    BY <1>2, <2>1 DEF tables
  <2>. QED  BY <1>2, <1>3, <2>2 DEF Handled
<1>. QED  BY <1>6, <1>8, <1>9, <1>10

\* The operators are those of the instance.
LEMMA SameOperators ==
  ASSUME NEW d, NEW s, NEW a, NEW q, NEW n, NEW i
  PROVE  /\ TablesOf(d)!findRangingTable(s, a) = findRangingTable(s, a)
         /\ TablesOf(d)!registerRangingTable(s, a) = registerRangingTable(s, a)
         /\ TablesOf(d)!updatePriority(q, n, i) = updatePriority(q, n, i)
<1>1. \A t, e : TablesOf(d)!findRangingTable(t, e) = findRangingTable(t, e)
  BY DEF TablesOf!findRangingTable, findRangingTable
<1>2. TablesOf(d)!registerRangingTable(s, a) = registerRangingTable(s, a)
  BY <1>1 DEF TablesOf!registerRangingTable, registerRangingTable
<1>. QED  BY <1>1, <1>2 DEF TablesOf!updatePriority, updatePriority

\* A neighbour is only refused when the tables are full.
RefusedFull(d) ==
  Refused(d) # {} => Len(tableSet[d].address) = TABLE_SET_NEIGHBOR_NUM

\* Processing a task is a step of Neighbors.
LEMMA ProcessKeeps ==
  ASSUME IInv, NEW d \in Drones, RefusedFull(d), Process(d)
  PROVE  TablesOf(d)!Next /\ RefusedFull(d)'
<1>. PICK set, e, address, i, new :
       /\ set = tableSet[d] /\ e = From(d, 1)
       /\ address = registerRangingTable(set.address, e)
       /\ i = findRangingTable(address, e) /\ new = tableSet'[d]
  OBVIOUS
<1>1. /\ e \in Drones \ {d} /\ Handled(d, e)' # {}
      /\ \A x \in Drones \ {d, e} : Handled(d, x)' = Handled(d, x)
  BY ProcessHandled
<1>2. SetOK(set, d)
  BY SetsOK DEF IInv
<1>3. /\ set.address \in Seq(Drones) /\ Distinct(set.address)
      /\ Len(set.address) <= TABLE_SET_NEIGHBOR_NUM
      /\ set.queue \in Seq(Nat) /\ Len(set.queue) = Len(set.address)
      /\ \A j \in 1..Len(set.queue) : set.queue[j] \in 1..Len(set.address)
  BY <1>2 DEF SetOK, SetType
<1>4. \/ address = set.address /\ i \in 1..Len(set.address) /\ set.address[i] = e
      \/ /\ address = Append(set.address, e) /\ i = Len(set.address) + 1
         /\ Len(set.address) < TABLE_SET_NEIGHBOR_NUM
         /\ \A k \in 1..Len(set.address) : set.address[k] # e
      \/ /\ address = set.address /\ i = 0 /\ Len(set.address) = TABLE_SET_NEIGHBOR_NUM
         /\ \A k \in 1..Len(set.address) : set.address[k] # e
  <2>. PICK s : s = set.address
    OBVIOUS
  <2>1. /\ s \in Seq(Drones) /\ e \in Drones /\ Distinct(s) /\ Len(s) <= TABLE_SET_NEIGHBOR_NUM
        /\ address = registerRangingTable(s, e) /\ i = findRangingTable(address, e)
    BY <1>1, <1>3
  <2>2. \/ address = s /\ i \in 1..Len(s) /\ s[i] = e
        \/ /\ address = Append(s, e) /\ i = Len(s) + 1
           /\ Len(s) < TABLE_SET_NEIGHBOR_NUM
           /\ \A k \in 1..Len(s) : s[k] # e
        \/ /\ address = s /\ i = 0 /\ Len(s) = TABLE_SET_NEIGHBOR_NUM
           /\ \A k \in 1..Len(s) : s[k] # e
    BY ONLY <2>1, Register
  <2>. QED  BY <2>2, Zenon
<1>5. /\ i = 0 => new = set
      /\ i # 0 => new.address = address /\ new.queue = updatePriority(set.queue, Len(address), i)
  <2>1. /\ inbox[d] \in Seq(TaskType) /\ inbox[d] # <<>> /\ tableSet \in [Drones -> SetType]
    BY DEF Process, IInv, TypeOK, SetType
  <2>2. Head(inbox[d]).message.srcAddress = e
    BY <2>1 DEF From
  <2>3. /\ i = 0 => UNCHANGED tables
        /\ i # 0 => \E t : tableSet' = [tableSet EXCEPT ![d] =
                      [address |-> address, queue |-> updatePriority(set.queue, Len(address), i),
                       table |-> t]]
    BY <2>2 DEF Process
  <2>. QED  BY <2>1, <2>3 DEF tables
<1>6. \A x \in Drones \ {d, e} :
        (\A k \in 1..Len(new.address) : new.address[k] # x)
        <=> (\A k \in 1..Len(set.address) : set.address[k] # x)
  <2>1. \/ new.address = set.address
        \/ new.address = Append(set.address, e)
    BY <1>4, <1>5
  <2>2. CASE new.address = Append(set.address, e)
    <3>1. /\ Len(set.address) \in Nat /\ Len(new.address) = Len(set.address) + 1
          /\ new.address[Len(set.address) + 1] = e
          /\ \A k \in 1..Len(set.address) : new.address[k] = set.address[k]
      BY <1>1, <1>3, <2>2, Appended
    <3>2. \A k \in 1..Len(new.address) : k \in 1..Len(set.address) \/ k = Len(set.address) + 1
      BY <3>1
    <3>3. \A k \in 1..Len(set.address) : k \in 1..Len(new.address)
      BY <3>1
    <3>. QED  BY <3>1, <3>2, <3>3, Zenon
  <2>. QED  BY <2>1, <2>2
<1>7. \A x \in Drones \ {d, e} : x \in Refused(d)' <=> x \in Refused(d)
  BY <1>1, <1>6 DEF Refused
<1>8. CASE i = 0
  <2>1. new = set /\ address = set.address /\ Len(set.address) = TABLE_SET_NEIGHBOR_NUM
        /\ \A k \in 1..Len(set.address) : set.address[k] # e
    <3>1. i \notin 1..Len(set.address) /\ i # Len(set.address) + 1
      BY <1>3, <1>8
    <3>. QED  BY <1>4, <1>5, <1>8, <3>1, Zenon
  <2>2. e \in Refused(d)'
    BY <1>1, <2>1 DEF Refused
  <2>3. Refused(d)' = Refused(d) \cup {e}
    <3>1. ASSUME NEW x  PROVE x \in Refused(d)' <=> x \in Refused(d) \cup {e}
      BY <1>7, <2>2 DEF Refused
    <3>. QED  BY <3>1
  <2>4. LastServed(d)' = LastServed(d)
    BY <2>1 DEF LastServed
  <2>5. TablesOf(d)!Refuse(e)
    BY <1>8, <2>1, <2>3, <2>4, SameOperators DEF TablesOf!Refuse
  <2>. QED  BY <1>1, <2>1, <2>5 DEF TablesOf!Next, RefusedFull
<1>9. CASE i # 0
  <2>. PICK n : n = Len(address)
    OBVIOUS
  <2>1. /\ address \in Seq(Drones) /\ n \in Nat /\ i \in 1..n /\ address[i] = e
        /\ Len(set.queue) = n \/ (Len(set.queue) = n - 1 /\ i = n)
        /\ \A j \in 1..Len(set.queue) : set.queue[j] \in 1..n
    <3>1. CASE address = set.address /\ i \in 1..Len(set.address) /\ set.address[i] = e
      BY <1>3, <3>1
    <3>2. CASE address = Append(set.address, e) /\ i = Len(set.address) + 1
      <4>1. /\ address \in Seq(Drones) /\ Len(set.address) \in Nat /\ n = Len(set.address) + 1
            /\ address[i] = e
        <5>1. set.address \in Seq(Drones) /\ Len(set.address) \in Nat /\ e \in Drones
          BY <1>1, <1>3
        <5>2. Len(address) = n
          OBVIOUS
        <5>. QED  BY ONLY <3>2, <5>1, <5>2, Appended
      <4>2. n - 1 = Len(set.address) /\ n \in Nat /\ i = n /\ i \in 1..n
        BY <3>2, <4>1
      <4>3. \A j \in 1..Len(set.address) : j \in 1..n
        BY <4>1
      <4>. QED  BY <1>3, <4>1, <4>2, <4>3
    <3>. QED  BY <1>4, <1>9, <3>1, <3>2
  <2>2. new.queue \in Seq(1..n) /\ Len(new.queue) = n /\ new.queue[n] = i /\ new.address = address
    <3>. PICK q : q = set.queue
      OBVIOUS
    <3>1. /\ q \in Seq(Nat) /\ n \in Nat /\ i \in 1..n
          /\ \A k \in 1..Len(q) : q[k] \in 1..n
          /\ Len(q) = n \/ (Len(q) = n - 1 /\ i = n)
      BY <1>3, <2>1
    <3>2. new.queue = updatePriority(q, n, i) /\ new.address = address
      BY <1>5, <1>9
    <3>3. LET u == updatePriority(q, n, i)
          IN  u \in Seq(1..n) /\ Len(u) = n /\ u[n] = i
      BY ONLY <3>1, Update, SMTT(40)
    <3>. QED  BY <3>2, <3>3
  <2>3. LastServed(d)' = e
    BY <2>1, <2>2 DEF LastServed
  <2>4. e \notin Refused(d)' /\ e \notin Refused(d)
    <3>1. e \notin Refused(d)'
      <4>1. i \in 1..Len(tableSet'[d].address) /\ tableSet'[d].address[i] = e
        BY <2>1, <2>2
      <4>2. ~ \A k \in 1..Len(tableSet'[d].address) : tableSet'[d].address[k] # e
        BY ONLY <4>1
      <4>3. \A x : x \in Refused(d)' =>
              \A k \in 1..Len(tableSet'[d].address) : tableSet'[d].address[k] # x
        BY ONLY TRUE DEF Refused
      <4>. QED  BY ONLY <4>2, <4>3, Zenon
    <3>2. CASE i \in 1..Len(set.address) /\ set.address[i] = e
      <4>1. ~ \A k \in 1..Len(tableSet[d].address) : tableSet[d].address[k] # e
        BY <3>2
      <4>2. \A x : x \in Refused(d) =>
              \A k \in 1..Len(tableSet[d].address) : tableSet[d].address[k] # x
        BY ONLY TRUE DEF Refused
      <4>. QED  BY ONLY <3>1, <4>1, <4>2, Zenon
    <3>3. CASE Len(set.address) < TABLE_SET_NEIGHBOR_NUM
      <4>1. Len(set.address) # TABLE_SET_NEIGHBOR_NUM
        BY <1>3, <3>3, TableAssumption
      <4>. QED  BY <3>1, <4>1 DEF RefusedFull
    <3>. QED  BY <1>4, <1>9, <3>1, <3>2, <3>3
  <2>5. Refused(d)' = Refused(d)
    <3>1. ASSUME NEW x  PROVE x \in Refused(d)' <=> x \in Refused(d)
      BY <1>7, <2>4 DEF Refused
    <3>. QED  BY <3>1
  <2>6. TablesOf(d)!Hear(e)
    BY <1>5, <1>9, <2>2, <2>3, <2>5, SameOperators DEF TablesOf!Hear
  <2>7. Refused(d) # {} => Len(new.address) = TABLE_SET_NEIGHBOR_NUM
    <3>1. CASE Len(set.address) = TABLE_SET_NEIGHBOR_NUM
      <4>1. ~(Len(set.address) < TABLE_SET_NEIGHBOR_NUM)
        BY <3>1, TableAssumption
      <4>. QED  BY <1>4, <1>5, <1>9, <3>1, <4>1
    <3>2. CASE Len(set.address) # TABLE_SET_NEIGHBOR_NUM
      BY <3>2 DEF RefusedFull
    <3>. QED  BY <3>1, <3>2
  <2>. QED  BY <1>1, <2>5, <2>6, <2>7 DEF TablesOf!Next, RefusedFull
<1>. QED  BY <1>8, <1>9
\* Every step is one of Neighbors for each drone, or leaves its tables alone.
LEMMA StepKeeps ==
  ASSUME IInv, \A d \in Drones : RefusedFull(d), [Next]_vars, NEW d \in Drones
  PROVE  [TablesOf(d)!Next]_(TablesOf(d)!vars) /\ RefusedFull(d)'
<1>1. ASSUME tableSet'[d] = tableSet[d], \A e \in Drones \ {d} : Handled(d, e)' = Handled(d, e)
      PROVE  UNCHANGED TablesOf(d)!vars /\ RefusedFull(d)'
  BY <1>1, KeepsStutter DEF RefusedFull
<1>2. CASE tableSet' = tableSet /\ heardAt' = heardAt /\ inbox' = inbox
  <2>1. \A e \in Drones \ {d} : Handled(d, e)' = Handled(d, e)
    BY <1>2 DEF Handled
  <2>. QED  BY <1>1, <1>2, <2>1
<1>3. ASSUME NEW x \in Drones, Generate(x) \/ Send(x)
      PROVE  tableSet' = tableSet /\ heardAt' = heardAt /\ inbox' = inbox
  BY <1>3 DEF Generate, Send, tables
<1>4. CASE Process(d)
  BY <1>4, ProcessKeeps
<1>5. ASSUME NEW x \in Drones, x # d, Process(x)
      PROVE  tableSet'[d] = tableSet[d] /\ \A e \in Drones \ {d} : Handled(d, e)' = Handled(d, e)
  BY <1>5, ProcessHandled
<1>6. ASSUME NEW l \in Links, Receive(l) \/ Lose(l)
      PROVE  tableSet'[d] = tableSet[d] /\ \A e \in Drones \ {d} : Handled(d, e)' = Handled(d, e)
  <2>1. tableSet' = tableSet
    BY <1>6 DEF Receive, Lose, tables
  <2>. QED  BY <1>6, <2>1, ReceiveHandled, LoseHandled
<1>7. CASE Finished \/ UNCHANGED vars
  BY <1>2, <1>7 DEF Finished, vars, tables
<1>. QED  BY <1>1, <1>2, <1>3, <1>4, <1>5, <1>6, <1>7 DEF Next
-----------------------------------------------------------------------------
(* The results.                                                            *)

\* Every time a drone holds or sends is that of the message it is kept for, in
\* every reachable state, whatever is lost and however the drones interleave.
THEOREM Invariance == Spec => []IInv
  BY InitInv, StepInv, PTL DEF Spec

\* Every variable keeps its type, every queue and table set its bound.
THEOREM TypeCorrect == Spec => []TypeOK
<1>1. IInv => TypeOK
  BY DEF IInv
<1>. QED  BY <1>1, Invariance, PTL

\* What the invariant says of a table.
LEMMA TableTrue ==
  ASSUME IInv, NEW d \in Drones, NEW i \in 1..Len(tableSet[d].address)
  PROVE  /\ ListsTrue(tableSet[d].table[i], d, tableSet[d].address[i], MESSAGE_HEAD_TX_SIZE)
         /\ BufferTrue(tableSet[d].table[i].validBuffer, d, tableSet[d].address[i])
         /\ tableSet[d].table[i] \in TableType
         /\ tableSet[d].address[i] \in Drones /\ tableSet[d].address[i] # d
  BY TableFacts DEF IInv

\* addRangingList(SENDER) joins the two times of one message, for any loss.
THEOREM SendRows == Spec => []SendRowsTrue
<1>1. IInv => SendRowsTrue
  <2>1. SUFFICES ASSUME IInv, NEW d \in Drones, NEW i \in 1..Len(tableSet[d].address),
                        NEW k \in Rows, NEW row, row = tableSet[d].table[i].sendList.row[k],
                        row.localSeq # NULL_SEQ
                 PROVE  IsTrue(row, d, tableSet[d].address[i])
    BY DEF SendRowsTrue, ForTables
  <2>2. SendRow(row, d, tableSet[d].address[i])
    BY <2>1, TableTrue DEF ListsTrue
  <2>. QED  BY <2>1, <2>2 DEF SendRow, NullRow
<1>. QED  BY <1>1, Invariance, PTL

\* addRangingList(RECEIVER) joins the two times of one message, for any loss.
THEOREM ReceiveRows == Spec => []ReceiveRowsTrue
<1>1. IInv => ReceiveRowsTrue
  <2>1. SUFFICES ASSUME IInv, NEW d \in Drones, NEW i \in 1..Len(tableSet[d].address),
                        NEW k \in Rows, NEW row, row = tableSet[d].table[i].receiveList.row[k],
                        row.remoteSeq # NULL_SEQ
                 PROVE  IsTrue(row, tableSet[d].address[i], d)
    BY DEF ReceiveRowsTrue, ForTables
  <2>2. ReceiveRow(row, d, tableSet[d].address[i])
    BY <2>1, TableTrue DEF ListsTrue
  <2>3. row # NullRow
    BY <2>1 DEF NullRow
  <2>4. /\ Arrived(<<tableSet[d].address[i], d>>, row.localSeq)
        /\ row.rx = heardAt[<<tableSet[d].address[i], d>>][row.localSeq]
        /\ row.tx = sentAt[tableSet[d].address[i]][row.localSeq]
    BY <2>1, <2>2, <2>3 DEF ReceiveRow
  <2>. QED  BY <2>4 DEF IsTrue, Arrived
<1>. QED  BY <1>1, Invariance, PTL

\* The header of MESSAGE_HEAD_TX_SIZE times makes up for every shorter loss.
THEOREM Redundancy == Spec => []HeaderRedundancy
<1>1. IInv => HeaderRedundancy
  <2>0. SUFFICES ASSUME IInv, NEW d \in Drones, NEW x \in 1..Len(tableSet[d].address),
                        NEW i \in Rows, NEW j \in Rows
                 PROVE  LET list == tableSet[d].table[x].receiveList
                        IN  /\ list.row[i].localSeq # NULL_SEQ
                            /\ list.row[j].localSeq \in
                                 list.row[i].localSeq + 1..list.row[i].localSeq + MESSAGE_HEAD_TX_SIZE
                            => list.row[i].remoteSeq = list.row[i].localSeq
    BY DEF HeaderRedundancy, ForTables
  <2>1. SUFFICES ASSUME NEW list, list = tableSet[d].table[x].receiveList,
                        NEW seq, seq = list.row[i].localSeq,
                        NEW later, later = list.row[j].localSeq,
                        seq # NULL_SEQ, later \in seq + 1..seq + MESSAGE_HEAD_TX_SIZE
                 PROVE  list.row[i].remoteSeq = seq
    OBVIOUS
  <2>2. Redundant(list, MESSAGE_HEAD_TX_SIZE) /\ list \in ListType
    BY <2>0, <2>1, TableTrue DEF ListsTrue, TableType
  <2>3. seq \in Nat
    BY <2>1, <2>2 DEF ListType, RowType
  <2>4. MESSAGE_HEAD_TX_SIZE \in Nat
    BY Sizes
  <2>5. PICK h : h = MESSAGE_HEAD_TX_SIZE
    OBVIOUS
  <2>6. later \in Nat /\ seq < later /\ later <= seq + h
    <3>1. h \in Nat /\ later \in seq + 1..seq + h
      BY <2>1, <2>4, <2>5
    <3>. QED  BY ONLY <3>1, <2>3
  <2>7. PICK newest : newest = Newest(list)
    OBVIOUS
  <2>8. later = newest => seq < newest - h + h
    <3>1. h \in Nat
      BY <2>4, <2>5
    <3>. QED  BY ONLY <3>1, <2>3, <2>6
  <2>9. later = Newest(list) =>
          seq < Newest(list) - MESSAGE_HEAD_TX_SIZE + MESSAGE_HEAD_TX_SIZE
    BY <2>5, <2>7, <2>8
  <2>. QED  BY <2>0, <2>1, <2>2, <2>9 DEF Redundant
<1>. QED  BY <1>1, Invariance, PTL

\* The two rings of the valid buffer end the initialization in one step.
THEOREM Together == Spec => []FinishTogether
<1>1. IInv => FinishTogether
  <2>1. SUFFICES ASSUME IInv, NEW d \in Drones, NEW i \in 1..Len(tableSet[d].address),
                        NEW b, b = tableSet[d].table[i].validBuffer
                 PROVE  b.send.length >= MAX_INITIAL_CALCULATION
                        <=> b.receive.length >= MAX_INITIAL_CALCULATION
    BY DEF FinishTogether, ForTables
  <2>2. \/ b.send.length = b.receive.length
        \/ b.send.length >= MAX_INITIAL_CALCULATION /\ b.receive.length >= MAX_INITIAL_CALCULATION
    BY <2>1, TableTrue DEF BufferTrue
  <2>. QED  BY <2>2
<1>. QED  BY <1>1, Invariance, PTL

\* ... and of its records.
LEMMA RecordFacts ==
  ASSUME IInv, Short, NEW d \in Drones, NEW i \in 1..Len(tableSet[d].address),
         NEW h \in {SENDER, RECEIVER}, NEW ring, ring = tableSet[d].table[i].validBuffer[h],
         NEW k \in Held(ring)
  PROVE  RecordTrue(ring.rec[k], h, d, tableSet[d].address[i])
  BY TableTrue DEF BufferTrue

\* Where no more messages in a row are lost than the header makes up for,
\* initializeCalculateTof and calculateTof only pair times of one message.
THEOREM PairsOfOne ==
  ASSUME Short
  PROVE  Spec => []RecordsTrue
<1>1. IInv => RecordsTrue
  BY RecordFacts, ZenonT(60) DEF RecordsTrue, ForTables, RecordTrue
<1>. QED  BY <1>1, Invariance, PTL

\* And the sign of classicTof refuses every pair that crossed on the way.
THEOREM Ordered ==
  ASSUME Short
  PROVE  Spec => []InitOrdered
<1>1. IInv => InitOrdered
  BY RecordFacts DEF InitOrdered, ForTables, RecordTrue
<1>. QED  BY <1>1, Invariance, PTL

\* For a drone with one neighbour at most, initTofSum is the sum of exactly the
\* calculations of the initialization when this ends.
THEOREM Average ==
  ASSUME Single
  PROVE  Spec => InitialAverage
<1>1. IInv' => \A d \in Drones : \A i \in 1..Len(tableSet'[d].table) : Finishes(d, i) =>
                 initTofSum'[d] = [k \in 1..MAX_INITIAL_CALCULATION |-> tableSet'[d].address[i]]
  <2>1. SUFFICES ASSUME IInv', NEW d \in Drones, NEW i \in 1..Len(tableSet'[d].table),
                        tableSet'[d].table[i].validBuffer.send.length >= MAX_INITIAL_CALCULATION
                 PROVE  initTofSum'[d] = [k \in 1..MAX_INITIAL_CALCULATION |->
                                            tableSet'[d].address[i]]
    BY DEF Finishes
  <2>2. PICK set, sum, b, e : /\ set = tableSet'[d] /\ sum = initTofSum'[d]
                              /\ b = set.table[1].validBuffer /\ e = set.address[1]
    OBVIOUS
  <2>3. /\ set \in SetType /\ Len(set.table) = Len(set.address)
        /\ Len(set.address) <= TABLE_SET_NEIGHBOR_NUM
        /\ sum \in Seq(Drones) /\ i \in 1..Len(set.address)
    BY <2>1, <2>2 DEF IInv, TypeOK, SetType
  <2>4. /\ Distinct(set.address) /\ \A k \in 1..Len(set.address) : set.address[k] # d
        /\ Len(set.queue) = Len(set.address)
        /\ \A k \in 1..Len(set.queue) : set.queue[k] \in 1..Len(set.address)
    BY <2>1, <2>2 DEF IInv, TableSets
  <2>5. SetOK(set, d)
    BY <2>3, <2>4 DEF SetOK
  <2>6. i = 1 /\ set.address # <<>>
    <3>1. set.address \in Seq(Drones)
      BY <2>3 DEF SetType
    <3>2. set.address[i] \in Drones /\ set.address[i] # d
      BY <2>3, <2>4, <3>1
    <3>. QED  BY <2>3, <2>5, <3>1, <3>2, OneNeighbour
  <2>7. SumOf(sum, b, e)
    BY <2>1, <2>2, <2>6 DEF IInv, Sums, Single, SumOf
  <2>8. /\ set.table[1].validBuffer.send.length >= MAX_INITIAL_CALCULATION
        /\ b.send.length \in Nat
    <3>1. set.table[1] \in TableType
      BY <2>3, <2>6 DEF SetType
    <3>. QED  BY <2>1, <2>2, <2>6, <3>1 DEF TableType, BufferType, RingType
  <2>9. Len(sum) = MAX_INITIAL_CALCULATION /\ \A k \in 1..Len(sum) : sum[k] = e
    BY <2>2, <2>7, <2>8, Sizes, SMTT(30) DEF SumOf
  <2>10. sum = [k \in 1..MAX_INITIAL_CALCULATION |-> e]
    BY <2>3, <2>9
  <2>. QED  BY <2>2, <2>6, <2>10
<1>. QED  BY <1>1, Invariance, PTL DEF InitialAverage

\* The tables of every drone are as Neighbors says, whatever the interleaving of
\* arrivals, losses and processing.
THEOREM Keeps == Spec => KeepsNeighbors
<1>. DEFINE Full == \A d \in Drones : RefusedFull(d)
<1>1. Init => Full /\ \A d \in Drones : TablesOf(d)!Init
  BY KeepsInit DEF RefusedFull
<1>2. IInv /\ Full /\ [Next]_vars => Full'
  BY StepKeeps
<1>3. IInv /\ Full /\ [Next]_vars
        => \A d \in Drones : [TablesOf(d)!Next]_(TablesOf(d)!vars)
  BY StepKeeps
<1>. HIDE DEF Full
<1>. QED  BY <1>1, <1>2, <1>3, Invariance, PTL DEF Spec, KeepsNeighbors
=============================================================================
