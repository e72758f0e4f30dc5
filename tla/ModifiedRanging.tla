--------------------------- MODULE ModifiedRanging ---------------------------
(***************************************************************************)
(* The ranging protocol of modified_ranging.c between drones that run      *)
(* drone.c.  Every drone sends numbered messages to all others; a message  *)
(* carries, for the last messages of its sender, when they were sent and,  *)
(* for the neighbours it serves, when their last messages arrived.  From   *)
(* what it hears a drone completes its lists of sent and received messages *)
(* and pairs them into the records of the valid buffer of the neighbour.   *)
(*                                                                         *)
(* The control center only relays: there is a first-in first-out link from *)
(* each drone to each other one.  A message is dropped when the task queue *)
(* of its receiver is full, on a failing malloc, or by PACKET_LOSS.        *)
(***************************************************************************)
EXTENDS RangingStruct, TableSet, FiniteSets, FiniteSetsExt

CONSTANTS
  Drones,                   \* the drones; a drone is its address
  NULL_ADDR,
  MESSAGE_HEAD_TX_SIZE,
  MESSAGE_BODY_RX_SIZE,
  MAX_INITIAL_CALCULATION,
  QUEUE_TASK_LENGTH,
  MaxSeq,                   \* bound: messages a drone sends
  MaxUnderWay,              \* bound: messages on all links and in all queues
  MaxConsecutiveLoss        \* bound: messages lost in a row on a link

ASSUME RangingAssumption ==
  /\ NULL_ADDR \notin Drones
  /\ MESSAGE_HEAD_TX_SIZE \in 1..RANGING_BUFFER_SIZE
  /\ MESSAGE_HEAD_TX_SIZE <= RANGING_LIST_SIZE
  /\ MESSAGE_BODY_RX_SIZE \in 1..RANGING_LIST_SIZE
  /\ MAX_INITIAL_CALCULATION \in 1..RANGING_BUFFER_SIZE
  /\ QUEUE_TASK_LENGTH \in Nat \ {0}
  /\ MaxSeq \in Nat /\ MaxUnderWay \in Nat /\ MaxConsecutiveLoss \in Nat

VARIABLES
  clock,            \* drone -> the last timestamp it has taken
  localSendSeqNumber,
  localSendBuffer,  \* drone -> ring of the messages it has sent
  tableSet,         \* drone -> registered addresses, priority queue, tables
  initTofSum,       \* drone -> neighbours the sum has a term of, in order
  lastD,            \* drone -> neighbour the last distance is of
  outgoing,         \* drone -> the message generated and not yet sent, if any
  inbox,            \* drone -> messages in its task queue, with Rx timestamps
  link,             \* <<from, to>> -> messages under way
  lost,             \* <<from, to>> -> messages lost since one arrived
  sentAt,           \* history: drone -> when its messages left
  heardAt           \* history: <<from, to>> -> arrival times, 0 when lost

local == <<clock, localSendSeqNumber, localSendBuffer>>
tables == <<tableSet, initTofSum, lastD>>
vars == <<local, tables, outgoing, inbox, link, lost, sentAt, heardAt>>

Links  == {l \in Drones \X Drones : l[1] # l[2]}
NoTime == [seqNumber |-> NULL_SEQ, timestamp |-> NULL_TIMESTAMP]

\* initRangingTable
EmptyTable == [sendList |-> EmptyList, receiveList |-> EmptyList,
               validBuffer |-> EmptyBuffer]

\* initRangingTableSet, initQueueTaskLock
Init ==
  /\ clock = [d \in Drones |-> NULL_TIMESTAMP]
  /\ localSendSeqNumber = [d \in Drones |-> 1]
  /\ localSendBuffer = [d \in Drones |-> [top |-> 0, slot |-> [i \in Rows |-> NoTime]]]
  /\ tableSet = [d \in Drones |-> [address |-> <<>>, queue |-> <<>>, table |-> <<>>]]
  /\ initTofSum = [d \in Drones |-> <<>>]
  /\ lastD = [d \in Drones |-> NULL_ADDR]
  /\ outgoing = [d \in Drones |-> <<>>]
  /\ inbox = [d \in Drones |-> <<>>]
  /\ link = [l \in Links |-> <<>>]
  /\ lost = [l \in Links |-> 0]
  /\ sentAt = [d \in Drones |-> <<>>]
  /\ heardAt = [l \in Links |-> <<>>]
-----------------------------------------------------------------------------
(* Sending: QueueTaskTx with send_to_center.                               *)

\* The body unit for a neighbour: the last arrivals from it, newest first.
bodyUnit(table, dest) ==
  LET list == table.receiveList
      Row(k) == list.row[(list.top - k + 1 + RANGING_LIST_SIZE) % RANGING_LIST_SIZE]
  IN  [dest |-> dest,
       Rx   |-> [k \in 1..MESSAGE_BODY_RX_SIZE |->
                   [seqNumber |-> Row(k).localSeq, timestamp |-> Row(k).rx]]]

\* Mutant: the last message sent is left out.
headerWithoutLast(buffer) ==
  LET Slot(k) == buffer.slot[(buffer.top - k + RANGING_LIST_SIZE) % RANGING_LIST_SIZE]
  IN  [k \in 1..MESSAGE_HEAD_TX_SIZE |->
         IF \A n \in 1..k : Slot(n) # NoTime THEN Slot(k) ELSE NoTime]

\* The header times: the last messages sent, newest first.  A free slot ends
\* them: the scan does not go past it.
headerTx(buffer) ==
  LET Slot(k) == buffer.slot[(buffer.top - k + 1 + RANGING_LIST_SIZE) % RANGING_LIST_SIZE]
  IN  [k \in 1..MESSAGE_HEAD_TX_SIZE |->
         IF \A n \in 1..k : Slot(n) # NoTime THEN Slot(k) ELSE NoTime]

generateRangingMessage(d) ==
  LET set    == tableSet[d]
      tablesServed == served(set.queue, Len(set.address))
  IN  [srcAddress  |-> d,
       msgSequence |-> localSendSeqNumber[d],
       Tx          |-> headerTx(localSendBuffer[d]),
       bodyUnits   |-> [k \in 1..Len(tablesServed) |->
                          bodyUnit(set.table[tablesServed[k]],
                                   set.address[tablesServed[k]])]]

\* Mutant: localSendSeqNumber, updated before, is taken for the number sent.
addWithNextSeq(buffer, seq, time) ==
  LET i == (buffer.top + 1) % RANGING_LIST_SIZE
  IN  [top  |-> i,
       slot |-> [buffer.slot EXCEPT ![i] = [seqNumber |-> seq + 1, timestamp |-> time]]]

\* addLocalSendBuffer
addLocalSendBuffer(buffer, seq, time) ==
  LET i == (buffer.top + 1) % RANGING_LIST_SIZE
  IN  [top  |-> i,
       slot |-> [buffer.slot EXCEPT ![i] = [seqNumber |-> seq, timestamp |-> time]]]

\* The messages made and not yet lost or processed, one for each receiver.
UnderWay == MapThenSumSet(LAMBDA l : Len(outgoing[l[1]]) + Len(link[l]), Links)
            + MapThenSumSet(LAMBDA d : Len(inbox[d]), Drones)

\* QueueTaskTx makes the message, with mutex held ...
Generate(d) ==
  /\ outgoing[d] = <<>>
  /\ localSendSeqNumber[d] <= MaxSeq
  /\ UnderWay + Cardinality(Drones) - 1 <= MaxUnderWay
  /\ outgoing' = [outgoing EXCEPT ![d] = <<generateRangingMessage(d)>>]
  /\ localSendSeqNumber' = [localSendSeqNumber EXCEPT ![d] = @ + 1]
  /\ UNCHANGED <<clock, localSendBuffer, tables, inbox, link, lost, sentAt, heardAt>>

\* ... and send_to_center sends it, without: to the center, which relays it to
\* all other drones.
Send(d) ==
  /\ outgoing[d] # <<>>
  /\ outgoing' = [outgoing EXCEPT ![d] = <<>>]
  /\ clock' = [clock EXCEPT ![d] = @ + 1]
  /\ localSendBuffer' = [localSendBuffer EXCEPT ![d] =
       addLocalSendBuffer(@, localSendSeqNumber[d] - 1, clock'[d])]
  /\ link' = [l \in Links |-> IF l[1] = d THEN link[l] \o outgoing[d] ELSE link[l]]
  /\ sentAt' = [sentAt EXCEPT ![d] = Append(@, clock'[d])]
  /\ UNCHANGED <<localSendSeqNumber, tables, inbox, lost, heardAt>>
-----------------------------------------------------------------------------
(* Receiving: receive_from_center with QueueTaskRx.                        *)

Receive(l) ==
  /\ link[l] # <<>>
  /\ Len(inbox[l[2]]) < QUEUE_TASK_LENGTH
  /\ clock' = [clock EXCEPT ![l[2]] = @ + 1]
  /\ inbox' = [inbox EXCEPT ![l[2]] =
       Append(@, [message |-> Head(link[l]), RxTimestamp |-> clock'[l[2]]])]
  /\ link' = [link EXCEPT ![l] = Tail(@)]
  /\ lost' = [lost EXCEPT ![l] = 0]
  /\ heardAt' = [heardAt EXCEPT ![l] = Append(@, clock'[l[2]])]
  /\ UNCHANGED <<localSendSeqNumber, localSendBuffer, tables, outgoing, sentAt>>

\* The queue is full, malloc fails or PACKET_LOSS drops the message.
Lose(l) ==
  /\ link[l] # <<>>
  /\ lost[l] < MaxConsecutiveLoss
  /\ link' = [link EXCEPT ![l] = Tail(@)]
  /\ lost' = [lost EXCEPT ![l] = @ + 1]
  /\ heardAt' = [heardAt EXCEPT ![l] = Append(@, NULL_TIMESTAMP)]
  /\ UNCHANGED <<local, tables, outgoing, inbox, sentAt>>
-----------------------------------------------------------------------------
(***************************************************************************)
(* Processing: processRangingMessage.  The state of a call is the table of *)
(* the sender, the terms added to initTofSum and whether a distance was    *)
(* computed; the loops over header and body times, oldest first, take the  *)
(* set of the states the call can be in from turn to turn.                 *)
(***************************************************************************)

\* Mutant: a refused calculation is summed, too.
sumAlways(sum, from, added) == Append(sum, from)

\* initTofSum += classicTof
sumWith(sum, from, added) == IF added THEN Append(sum, from) ELSE sum

\* initializeCalculateTof and, when it fills the buffers, the end of the
\* initialization: the sums at the slots `averaged' become the average.
Initialize(s, from, listA, listB, i, status, averaged) ==
  LET r     == initializeCalculateTof(listA, listB, i, s.table.validBuffer, status)
      other == Opposite(status)
      ended == r.added /\ r.buffer[other].length >= MAX_INITIAL_CALCULATION
      Averaged(ring) ==
        [ring EXCEPT !.rec = [k \in Records |->
           IF ended /\ k \in averaged THEN [@[k] EXCEPT !.sumTof = InitialSum] ELSE @[k]]]
  IN  [s EXCEPT !.table.validBuffer = [r.buffer EXCEPT ![other] = Averaged(@)],
                !.sum = sumWith(@, from, r.added)]

\* calculateTof
Calculate(s, row, status) ==
  {[s EXCEPT !.table.validBuffer = r.buffer, !.valid = (@ \/ r.added)] :
     r \in calculateTof(s.table.validBuffer, row, status)}

\* The i-th Tx time of the header.
processTx(s, m, i) ==
  LET Tx == m.Tx[i]
      receiveListIndex == findLocalSeqIndex(s.table.receiveList, Tx.seqNumber)
      filled == FillDeparture(s.table.receiveList, receiveListIndex,
                              Tx.seqNumber, Tx.timestamp)
      t == [s EXCEPT !.table.receiveList = filled]
  IN  IF Tx.seqNumber = NULL_SEQ \/ receiveListIndex \in {NULL_INDEX, NULL_DONE_INDEX}
      THEN {s}
      ELSE IF s.table.validBuffer.send.length < MAX_INITIAL_CALCULATION
      THEN {Initialize(t, m.srcAddress, filled, t.table.sendList, receiveListIndex,
                       RECEIVER, {i - 1})}
      ELSE Calculate(t, filled.row[receiveListIndex], RECEIVER)

\* findLocalSendBuffer: the scan back ends at a free slot.
findLocalSendBuffer(buffer, seq) ==
  LET Age(i) == Back(buffer.top, i, RANGING_LIST_SIZE)
      found  == {i \in Rows : /\ buffer.slot[i].seqNumber = seq
                              /\ \A j \in Rows : Age(j) < Age(i) =>
                                   buffer.slot[j].seqNumber # NULL_SEQ}
  IN  IF found = {} THEN NULL_INDEX ELSE Nearest(found, buffer.top, RANGING_LIST_SIZE)

\* The j-th Rx time of the body unit for d.  The search of the local send buffer
\* and the reads of the entry it finds are one step: no message is added between
\* them.  SendBuffer justifies this while the ring keeps the entry; one that is a
\* full ring old may be overwritten between them, which is not modelled here.
processRx(s, d, from, unit, j) ==
  LET Rx == unit.Rx[j]
      i  == findLocalSendBuffer(localSendBuffer[d], Rx.seqNumber)
      full == AddFull(s.table.sendList, Rx.seqNumber,
                      localSendBuffer[d].slot[i].timestamp, Rx.timestamp)
      t == [s EXCEPT !.table.sendList = full]
  IN  IF \/ Rx.seqNumber = NULL_SEQ
         \/ findLocalSeqIndex(s.table.sendList, Rx.seqNumber) = NULL_DONE_INDEX
         \/ i = NULL_INDEX
      THEN {s}
      ELSE IF s.table.validBuffer.receive.length < MAX_INITIAL_CALCULATION
      THEN {Initialize(t, from, full, t.table.receiveList, full.top, SENDER, Records)}
      ELSE Calculate(t, full.row[full.top], SENDER)

\* Mutant: the first body unit is taken, whoever it is for.
anyUnits(m, d) == DOMAIN m.bodyUnits

\* The places of the body units of m for d; the first one is processed.
unitsFor(m, d) == {k \in DOMAIN m.bodyUnits : m.bodyUnits[k].dest = d}

unitFor(m, d) ==
  m.bodyUnits[CHOOSE k \in unitsFor(m, d) : \A n \in unitsFor(m, d) : k <= n]

\* The turns of the two loops: the times of the header, then those of the body
\* unit for d, each from the oldest to the newest.
Turns == MESSAGE_HEAD_TX_SIZE + MESSAGE_BODY_RX_SIZE

processTime(s, d, m, k) ==
  IF k <= MESSAGE_HEAD_TX_SIZE THEN processTx(s, m, MESSAGE_HEAD_TX_SIZE + 1 - k)
  ELSE IF unitsFor(m, d) = {} THEN {s}
  ELSE processRx(s, d, m.srcAddress, unitFor(m, d), Turns + 1 - k)

\* The states a call that begins in s can be in after each turn.
turns(s, d, m) ==
  LET after[k \in 0..Turns] ==
        IF k = 0 THEN {s}
        ELSE UNION {processTime(t, d, m, k) : t \in after[k - 1]}
  IN  after

\* The states processRangingMessage can leave the table in.
processed(d, m, RxTimestamp, table) ==
  LET s == [table |-> [table EXCEPT !.receiveList =
                         AddArrival(@, m.msgSequence, RxTimestamp)],
            sum |-> initTofSum[d], valid |-> FALSE]
  IN  turns(s, d, m)[Turns]

\* processFromQueue: the task at the head is processed and removed.
Process(d) ==
  /\ inbox[d] # <<>>
  /\ inbox' = [inbox EXCEPT ![d] = Tail(@)]
  /\ LET m     == Head(inbox[d]).message
         set   == tableSet[d]
         address == registerRangingTable(set.address, m.srcAddress)
         i     == findRangingTable(address, m.srcAddress)
         table == IF i <= Len(set.table) THEN set.table ELSE Append(set.table, EmptyTable)
     IN  IF i = 0 THEN UNCHANGED tables
         ELSE \E s \in processed(d, m, Head(inbox[d]).RxTimestamp, table[i]) :
                /\ tableSet' = [tableSet EXCEPT ![d] =
                     [address |-> address,
                      queue   |-> updatePriority(set.queue, Len(address), i),
                      table   |-> [table EXCEPT ![i] = s.table]]]
                /\ initTofSum' = [initTofSum EXCEPT ![d] = s.sum]
                /\ lastD' = [lastD EXCEPT ![d] = IF s.valid THEN m.srcAddress ELSE @]
  /\ UNCHANGED <<local, outgoing, link, lost, sentAt, heardAt>>
-----------------------------------------------------------------------------
\* The bound on sequence numbers is reached and nothing is under way.
AllProcessed ==
  /\ \A d \in Drones : localSendSeqNumber[d] > MaxSeq
  /\ UnderWay = 0

Finished == AllProcessed /\ UNCHANGED vars

Next ==
  \/ \E d \in Drones : Generate(d) \/ Send(d) \/ Process(d)
  \/ \E l \in Links : Receive(l) \/ Lose(l)
  \/ Finished

Spec == Init /\ [][Next]_vars
-----------------------------------------------------------------------------
(* Properties.                                                             *)

TimeType    == [seqNumber : Nat, timestamp : Nat]
MessageType == [srcAddress : Drones, msgSequence : Nat,
                Tx : [1..MESSAGE_HEAD_TX_SIZE -> TimeType],
                bodyUnits : Seq([dest : Drones, Rx : [1..MESSAGE_BODY_RX_SIZE -> TimeType]])]
TaskType    == [message : MessageType, RxTimestamp : Nat]
TableType   == [sendList : ListType, receiveList : ListType, validBuffer : BufferType]

\* Every variable keeps its type, and every queue and table set its bound.
TypeOK ==
  /\ clock \in [Drones -> Nat]
  /\ localSendSeqNumber \in [Drones -> 1..MaxSeq + 1]
  /\ localSendBuffer \in [Drones -> [top : Rows, slot : [Rows -> TimeType]]]
  /\ tableSet \in [Drones -> [address : Seq(Drones), queue : Seq(Nat), table : Seq(TableType)]]
  /\ initTofSum \in [Drones -> Seq(Drones)]
  /\ lastD \in [Drones -> Drones \cup {NULL_ADDR}]
  /\ outgoing \in [Drones -> Seq(MessageType)]
  /\ inbox \in [Drones -> Seq(TaskType)]
  /\ link \in [Links -> Seq(MessageType)]
  /\ lost \in [Links -> 0..MaxConsecutiveLoss]
  /\ sentAt \in [Drones -> Seq(Nat)]
  /\ heardAt \in [Links -> Seq(Nat)]
  /\ \A d \in Drones :
       /\ Len(outgoing[d]) <= 1
       /\ Len(inbox[d]) <= QUEUE_TASK_LENGTH
       /\ Len(tableSet[d].address) <= TABLE_SET_NEIGHBOR_NUM
       /\ Len(tableSet[d].table) = Len(tableSet[d].address)

\* P(d, e, t) for the table t each drone d has of each neighbour e.
ForTables(P(_, _, _)) ==
  \A d \in Drones : \A i \in 1..Len(tableSet[d].address) :
    P(d, tableSet[d].address[i], tableSet[d].table[i])

\* The times of a row or of half a record are those of one message, from a to b.
IsTrue(row, a, b) ==
  /\ row.localSeq \in 1..Len(heardAt[<<a, b>>])
  /\ row.tx = sentAt[a][row.localSeq]
  /\ row.rx = heardAt[<<a, b>>][row.localSeq]

\* A row of the send list joins the time a message left, from the local send
\* buffer, with the time the neighbour reports to have received this very
\* message, whatever was lost, reported twice or overwritten meanwhile.
SendRowsTrue ==
  LET Good(d, e, t) == \A i \in Rows : LET row == t.sendList.row[i]
                       IN  row.localSeq # NULL_SEQ => IsTrue(row, d, e)
  IN  ForTables(Good)

\* A row of the receive list marked as done joins the time a message arrived
\* with the time its sender says this very message left.
ReceiveRowsTrue ==
  LET Good(d, e, t) == \A i \in Rows : LET row == t.receiveList.row[i]
                       IN  row.remoteSeq # NULL_SEQ => IsTrue(row, e, d)
  IN  ForTables(Good)

\* The valid buffer is only filled with communications that took place: no
\* interval of a time of flight runs between the times of two messages.
RecordsTrue ==
  LET Good(d, e, t) ==
        \A h \in {SENDER, RECEIVER} : \A k \in Held(t.validBuffer[h]) :
          LET record == t.validBuffer[h].rec[k]
          IN  IsTrue(record.send, d, e) /\ IsTrue(record.receive, e, d)
  IN  ForTables(Good)

\* The communications of a record follow each other: the received one before
\* the sent one in sendBuffer, the sent one before the received one in
\* receiveBuffer, as the diagram of ranging_struct.h has it.
Follows(h, record) == IF h = SENDER THEN record.receive.rx < record.send.tx
                                    ELSE record.send.rx < record.receive.tx

\* The initialization never accepts two messages that crossed on the way: the
\* sign of classicTof is enough to tell.
InitOrdered ==
  LET Good(d, e, t) ==
        \A h \in {SENDER, RECEIVER} : \A k \in Held(t.validBuffer[h]) :
          LET record == t.validBuffer[h].rec[k]
          IN  record.sumTof.kind = "classic" => Follows(h, record)
  IN  ForTables(Good)

\* The two directions finish the initialization together: no distance is
\* computed from one buffer while the other still collects.
FinishTogether ==
  LET Good(d, e, t) == t.validBuffer.send.length >= MAX_INITIAL_CALCULATION
                       <=> t.validBuffer.receive.length >= MAX_INITIAL_CALCULATION
  IN  ForTables(Good)

\* A message whose time of departure is unknown is one after which
\* MESSAGE_HEAD_TX_SIZE messages in a row did not arrive: the header makes up
\* for every shorter loss.
HeaderRedundancy ==
  LET Good(d, e, t) == \A i, j \in Rows :
        LET seq == t.receiveList.row[i].localSeq
            later == t.receiveList.row[j].localSeq
        IN  seq # NULL_SEQ /\ later \in seq + 1..seq + MESSAGE_HEAD_TX_SIZE
              => t.receiveList.row[i].remoteSeq = seq
  IN  ForTables(Good)

\* This step ends the initialization of the i-th table of d.
Finishes(d, i) ==
  /\ tableSet'[d].table[i].validBuffer.send.length >= MAX_INITIAL_CALCULATION
  /\ i \in 1..Len(tableSet[d].table)
  /\ tableSet[d].table[i].validBuffer.send.length < MAX_INITIAL_CALCULATION

\* The average that ends the initialization is that of the
\* MAX_INITIAL_CALCULATION successful calculations for the neighbour.
InitialAverage ==
  [][\A d \in Drones : \A i \in 1..Len(tableSet'[d].table) : Finishes(d, i) =>
       initTofSum'[d] = [k \in 1..MAX_INITIAL_CALCULATION |->
                           tableSet'[d].address[i]]]_vars

\* However often a message is reported, its times enter the send list once, and
\* calculateTof makes one record from them: no distance is computed from one
\* communication twice.
EnteredOnce ==
  LET Good(d, e, t) ==
        /\ \A i, j \in Rows :
             LET seq == t.sendList.row[i].localSeq
             IN  seq # NULL_SEQ /\ t.sendList.row[j].localSeq = seq => i = j
        /\ \A h \in {SENDER, RECEIVER} : \A k, n \in Held(t.validBuffer[h]) :
             LET rec == t.validBuffer[h].rec
             IN  /\ rec[k].sumTof.kind = "modified" /\ rec[n].sumTof.kind = "modified"
                 /\ rec[k][h].localSeq = rec[n][h].localSeq
                 => k = n
  IN  ForTables(Good)
-----------------------------------------------------------------------------
(***************************************************************************)
(* The tables of a drone are those of Neighbors: what is promised there of *)
(* any order of messages holds of the order the links and queues make.     *)
(***************************************************************************)

\* The messages of e that arrived at d and are no longer in its task queue.
Handled(d, e) ==
  {s \in 1..Len(heardAt[<<e, d>>]) :
     /\ heardAt[<<e, d>>][s] # NULL_TIMESTAMP
     /\ \A j \in 1..Len(inbox[d]) : LET m == inbox[d][j].message
                                   IN  ~(m.srcAddress = e /\ m.msgSequence = s)}

\* The neighbours whose messages d processed without a table for them.
Refused(d) ==
  {e \in Drones \ {d} : /\ Handled(d, e) # {}
                        /\ \A i \in 1..Len(tableSet[d].address) : tableSet[d].address[i] # e}

\* The neighbour at the tail of the priority queue of d.
LastServed(d) ==
  LET set == tableSet[d]
  IN  IF set.queue = <<>> THEN NULL_ADDR ELSE set.address[set.queue[Len(set.queue)]]

TablesOf(d) == INSTANCE Neighbors WITH
  Addresses <- Drones \ {d},
  address   <- tableSet[d].address,
  queue     <- tableSet[d].queue,
  lastHeard <- LastServed(d),
  refused   <- Refused(d)

\* Each drone keeps its tables as Neighbors says: no interleaving of arrivals,
\* losses and processing gives a neighbour a table, refuses one, or moves one in
\* the queue in a way that the messages alone, one after the other, do not.
KeepsNeighbors ==
  /\ \A d \in Drones : TablesOf(d)!Init
  /\ [][\A d \in Drones : [TablesOf(d)!Next]_(TablesOf(d)!vars)]_vars
=============================================================================
