--------------------------- MODULE EnteredProofs ---------------------------
(***************************************************************************)
(* The proof that no message is entered twice, for any set of drones, any  *)
(* size of the lists, buffers, messages and queues, and any loss.          *)
(*                                                                         *)
(* A body unit reports the last arrivals again and again, and the send     *)
(* list keeps only the last ones: that no message enters it twice needs    *)
(* the order of the lists, and that what a neighbour reports moves on,     *)
(* from message to message under way, like a window of which the send list *)
(* has all that it goes back to (Fits).  OnceInv says this of the messages *)
(* on the links, the tasks and the tables.                                 *)
(***************************************************************************)
EXTENDS RangingProofs

\* The numbers a body unit reports.
Reported(unit) == {unit.Rx[j].seqNumber : j \in 1..MESSAGE_BODY_RX_SIZE} \ {NULL_SEQ}

UnitDescends(unit) == \A k, n \in 1..MESSAGE_BODY_RX_SIZE :
  k < n /\ unit.Rx[n].seqNumber # NULL_SEQ => unit.Rx[n].seqNumber < unit.Rx[k].seqNumber

\* Message x has left the local send buffer of d.
Gone(d, x) == x + RANGING_LIST_SIZE <= Len(sentAt[d])

\* The send list has what window W has of the past, but for messages that were
\* gone when they were reported.
Fits(list, W, d) ==
  /\ Covers(Listed(list), W)
  /\ \A y \in W : y <= SeqAt(list, 1) => y \in Listed(list) \/ Gone(d, y)

\* The rows of the lists are in the order of their numbers, those of the send
\* list are done.
ListsOnce(t) ==
  /\ Descends(t.sendList) /\ Descends(t.receiveList)
  /\ \A i \in Rows : t.sendList.row[i].remoteSeq = t.sendList.row[i].localSeq
  /\ t.sendList.top = NULL_INDEX => Listed(t.sendList) = {}

\* The records calculateTof made are of messages no record will be made of.
BuffersOnce(t) ==
  /\ \A h \in {SENDER, RECEIVER} : MadeOnce(t.validBuffer[h], h)
  /\ \A q \in Made(t.validBuffer[SENDER], SENDER) : q <= SeqAt(t.sendList, 1)
  /\ \A q \in Made(t.validBuffer[RECEIVER], RECEIVER) :
       /\ q <= SeqAt(t.receiveList, 1)
       /\ \A i \in Rows : t.receiveList.row[i].localSeq = q => t.receiveList.row[i].remoteSeq = q

\* findLocalSendBuffer finds a message among the last ones, and no other.
LEMMA FindSlot ==
  ASSUME NEW buffer, buffer.top \in Rows \cup {NULL_INDEX}, NEW n \in Nat, NEW x \in 1..n,
         \A k \in 1..RANGING_LIST_SIZE :
           buffer.slot[At(buffer.top, k)].seqNumber = IF k <= n THEN n + 1 - k ELSE NULL_SEQ
  PROVE  findLocalSendBuffer(buffer, x) = NULL_INDEX <=> x + RANGING_LIST_SIZE <= n
<1>. DEFINE Age(i) == Back(buffer.top, i, RANGING_LIST_SIZE)
            found == {i \in Rows : /\ buffer.slot[i].seqNumber = x
                                   /\ \A j \in Rows : Age(j) < Age(i) =>
                                        buffer.slot[j].seqNumber # NULL_SEQ}
            i == findLocalSendBuffer(buffer, x)
<1>0. PICK N \in Nat \ {0} : N = RANGING_LIST_SIZE
  BY RowsSize
<1>1. i = IF found = {} THEN NULL_INDEX ELSE Nearest(found, buffer.top, RANGING_LIST_SIZE)
  BY DEF findLocalSendBuffer
<1>2. \A j \in Rows : Age(j) + 1 \in 1..N /\ At(buffer.top, Age(j) + 1) = j
  BY <1>0, AtBack
<1>3. \A k \in 1..N : At(buffer.top, k) \in Rows /\ Age(At(buffer.top, k)) = k - 1
  BY <1>0, AtSlot, BackAt
<1>4. \A j \in Rows : Age(j) \in 0..N - 1
  BY <1>0, RowsSize, BackSteps
<1>5. found # {} => i # NULL_INDEX
  <2>1. found \in SUBSET (0..RANGING_LIST_SIZE - 1)
    BY RowsSize
  <2>2. found # {} => Nearest(found, buffer.top, RANGING_LIST_SIZE) \in found
    <3>. HIDE DEF found
    <3>. QED  BY <2>1, RowsSize, NearestIn
  <2>3. \A j \in found : j # NULL_INDEX
    BY RowsSize DEF NULL_INDEX
  <2>. HIDE DEF found, i
  <2>. QED  BY <1>1, <2>2, <2>3
<1>. HIDE DEF Age
<1>6. \A j \in Rows : buffer.slot[j].seqNumber =
                        IF Age(j) + 1 <= n THEN n - Age(j) ELSE NULL_SEQ
  <2>1. SUFFICES ASSUME NEW j \in Rows
                 PROVE  buffer.slot[j].seqNumber = IF Age(j) + 1 <= n THEN n - Age(j) ELSE NULL_SEQ
    OBVIOUS
  <2>2. PICK k \in 1..N : k = Age(j) + 1 /\ At(buffer.top, k) = j
    BY <1>2
  <2>3. buffer.slot[j].seqNumber = IF k <= n THEN n + 1 - k ELSE NULL_SEQ
    BY <1>0, <2>2
  <2>. QED  BY <1>4, <2>2, <2>3
<1>7. ASSUME x + N <= n
      PROVE  found = {}
  <2>1. SUFFICES ASSUME NEW j \in Rows, buffer.slot[j].seqNumber = x  PROVE FALSE
    OBVIOUS
  <2>2. PICK a \in 0..N - 1 : a = Age(j)
    BY <1>4
  <2>3. x = IF a + 1 <= n THEN n - a ELSE NULL_SEQ
    BY <1>6, <2>1, <2>2
  <2>. QED  BY <1>7, <2>3 DEF NULL_SEQ
<1>8. ASSUME ~(x + N <= n)
      PROVE  found # {}
  <2>1. PICK k \in 1..N : k = n + 1 - x /\ k <= n
    BY <1>8
  <2>2. PICK s \in Rows : s = At(buffer.top, k) /\ Age(s) = k - 1
    BY <1>3
  <2>3. buffer.slot[s].seqNumber = x
    BY <1>6, <2>1, <2>2
  <2>4. ASSUME NEW j \in Rows, Age(j) < Age(s)
        PROVE  buffer.slot[j].seqNumber # NULL_SEQ
    <3>1. PICK a \in 0..N - 1 : a = Age(j)
      BY <1>4
    <3>2. a + 1 <= n /\ n - a # 0
      BY <2>1, <2>2, <2>4, <3>1
    <3>. QED  BY <1>6, <3>1, <3>2 DEF NULL_SEQ
  <2>. QED  BY <2>3, <2>4
<1>. HIDE DEF found, i
<1>9. i = NULL_INDEX <=> x + N <= n
  BY <1>1, <1>5, <1>7, <1>8
<1>. QED  BY <1>0, <1>9 DEF i

\* That is, every message that is not gone.
LEMMA FindGone ==
  ASSUME TypeOK, LocalBuffers, NEW d \in Drones, NEW x \in 1..Len(sentAt[d])
  PROVE  findLocalSendBuffer(localSendBuffer[d], x) = NULL_INDEX <=> Gone(d, x)
<1>1. PICK buffer, n : buffer = localSendBuffer[d] /\ n = Len(sentAt[d])
  OBVIOUS
<1>2. buffer.top \in Rows \cup {NULL_INDEX} /\ n \in Nat /\ x \in 1..n
  BY <1>1, LengthsAre DEF TypeOK
<1>3. \A k \in 1..RANGING_LIST_SIZE :
        buffer.slot[At(buffer.top, k)] = IF k <= n THEN TimeOf(d, n + 1 - k) ELSE NoTime
  BY <1>1 DEF LocalBuffers
<1>4. \A k \in 1..RANGING_LIST_SIZE :
        buffer.slot[At(buffer.top, k)].seqNumber = IF k <= n THEN n + 1 - k ELSE NULL_SEQ
  <2>1. ASSUME NEW k \in 1..RANGING_LIST_SIZE
        PROVE  buffer.slot[At(buffer.top, k)].seqNumber = IF k <= n THEN n + 1 - k ELSE NULL_SEQ
    <3>1. PICK time : time = buffer.slot[At(buffer.top, k)]
      OBVIOUS
    <3>2. time = IF k <= n THEN TimeOf(d, n + 1 - k) ELSE NoTime
      BY <1>3, <3>1
    <3>. QED  BY <3>1, <3>2 DEF TimeOf, NoTime
  <2>. QED  BY <2>1
<1>5. findLocalSendBuffer(buffer, x) = NULL_INDEX <=> x + RANGING_LIST_SIZE <= n
  BY <1>2, <1>4, FindSlot
<1>. QED  BY <1>1, <1>5 DEF Gone
-----------------------------------------------------------------------------
(* What one call does to the records.                                      *)

\* Table t has the lists of the table before, and records calculateTof made that
\* this had or that are new: of status, and of message q.
Gained(t, before, status, q) ==
  /\ t.sendList = before.sendList /\ t.receiveList = before.receiveList
  /\ \A h \in {SENDER, RECEIVER} :
       /\ MadeOnce(t.validBuffer[h], h)
       /\ \A p \in Made(t.validBuffer[h], h) :
            p \in Made(before.validBuffer[h], h) \/ (h = status /\ p = q)

\* No two records calculateTof made are of one communication.
TableOnce(t) == \A h \in {SENDER, RECEIVER} : MadeOnce(t.validBuffer[h], h)

\* The initialization makes none.
LEMMA InitializeOnce ==
  ASSUME NEW s \in CallType, BufferOK(s.table.validBuffer), TableOnce(s.table),
         NEW e, NEW listA \in ListType, NEW listB \in ListType, NEW i \in Rows,
         NEW status \in {SENDER, RECEIVER}, NEW averaged,
         NEW t, t = Initialize(s, e, listA, listB, i, status, averaged), NEW q
  PROVE  Gained(t.table, s.table, status, q)
<1>. PICK b : b = s.table.validBuffer
  OBVIOUS
<1>. SUFFICES ASSUME NEW h \in {SENDER, RECEIVER}
              PROVE  /\ t.table.sendList = s.table.sendList
                     /\ t.table.receiveList = s.table.receiveList
                     /\ MadeOnce(t.table.validBuffer[h], h)
                     /\ Made(t.table.validBuffer[h], h) \in SUBSET Made(b[h], h)
  BY DEF Gained
<1>. DEFINE r     == initializeCalculateTof(listA, listB, i, b, status)
            other == Opposite(status)
            ended == r.added /\ r.buffer[other].length >= MAX_INITIAL_CALCULATION
            S     == {k \in Records : ended /\ k \in averaged}
            c     == [r.buffer EXCEPT ![other] = AveragedAt(@, S)]
<1>1. \/ r.buffer = b
      \/ \E b2, a3 \in Rows :
           r.buffer = AddPair(b, status, listA.row[a3], listB.row[b2], listA.row[i])
  BY InitializeAdds
<1>2. b[h] \in RingType
  BY DEF BufferOK, BufferType, SENDER, RECEIVER
<1>3. \A x \in Rows : listA.row[x] \in RowType /\ listB.row[x] \in RowType
  BY DEF ListType
<1>4. /\ r.buffer[h] \in RingType /\ MadeOnce(r.buffer[h], h)
      /\ Made(r.buffer[h], h) \in SUBSET Made(b[h], h)
      /\ DOMAIN r.buffer = {SENDER, RECEIVER}
  <2>1. PICK old, new : old = b /\ new = r.buffer
    OBVIOUS
  <2>2. /\ BufferOK(old) /\ old[h] \in RingType /\ MadeOnce(old[h], h)
        /\ DOMAIN old = {SENDER, RECEIVER}
    BY <1>2, <2>1 DEF BufferOK, BufferType, SENDER, RECEIVER, TableOnce
  <2>3. CASE new = old
    BY <2>1, <2>2, <2>3
  <2>4. CASE \E b2, a3 \in Rows :
               new = AddPair(old, status, listA.row[a3], listB.row[b2], listA.row[i])
    <3>1. PICK b2, a3 \in Rows :
            new = AddPair(old, status, listA.row[a3], listB.row[b2], listA.row[i])
      BY <2>4
    <3>2. DOMAIN new = {SENDER, RECEIVER}
      BY <3>1 DEF AddPair
    <3>3. /\ new[h] \in RingType /\ MadeOnce(new[h], h)
          /\ Made(new[h], h) \in SUBSET Made(old[h], h)
      <4>1. PICK own, opposite \in RowType :
              own = (IF h = status THEN listA.row[i] ELSE listA.row[a3]) /\ opposite = listB.row[b2]
        BY <1>3
      <4>2. new[h] = AddRecord(old[h], Record(status, own, opposite, "classic", opposite))
        BY <3>1, <4>1 DEF AddPair
      <4>3. PICK ring : ring = old[h]
        OBVIOUS
      <4>4. ring \in RingType /\ RingOK(ring) /\ MadeOnce(ring, h)
        BY <2>2, <4>3 DEF BufferOK
      <4>5. PICK result : result = AddRecord(ring, Record(status, own, opposite, "classic", opposite))
        OBVIOUS
      <4>6. result \in RingType /\ MadeOnce(result, h) /\ Made(result, h) \in SUBSET Made(ring, h)
        BY <4>4, <4>5, PairMade
      <4>. QED  BY <4>2, <4>3, <4>5, <4>6
    <3>. QED  BY <2>1, <3>2, <3>3
  <2>5. new = old \/ \E b2, a3 \in Rows :
               new = AddPair(old, status, listA.row[a3], listB.row[b2], listA.row[i])
    <3>. HIDE DEF r
    <3>. QED  BY <1>1, <2>1
  <2>. QED  BY <2>3, <2>4, <2>5
<1>5. t = [s EXCEPT !.table.validBuffer = c, !.sum = sumWith(@, e, r.added)]
  BY DEF Initialize, AveragedAt
<1>. HIDE DEF r, S
<1>6. c[h] = r.buffer[h] \/ c[h] = AveragedAt(r.buffer[h], S)
  BY <1>4
<1>7. MadeOnce(c[h], h) /\ Made(c[h], h) \in SUBSET Made(r.buffer[h], h)
  <2>1. MadeOnce(AveragedAt(r.buffer[h], S), h)
        /\ Made(AveragedAt(r.buffer[h], S), h) \in SUBSET Made(r.buffer[h], h)
    <3>1. PICK ring : ring = r.buffer[h]
      OBVIOUS
    <3>2. ring \in RingType /\ MadeOnce(ring, h)
      BY <1>4, <3>1
    <3>3. MadeOnce(AveragedAt(ring, S), h) /\ Made(AveragedAt(ring, S), h) \in SUBSET Made(ring, h)
      BY <3>2, AverageMade
    <3>. QED  BY <3>1, <3>3
  <2>. HIDE DEF c
  <2>. QED  BY <1>4, <1>6, <2>1
<1>. HIDE DEF c
<1>8. /\ t.table.validBuffer = c
      /\ t.table.sendList = s.table.sendList /\ t.table.receiveList = s.table.receiveList
  BY <1>5 DEF CallType, TableType
<1>. QED  BY <1>4, <1>7, <1>8

\* A distance makes one at most, of its row.
LEMMA CalculateOnce ==
  ASSUME NEW s \in CallType, BufferOK(s.table.validBuffer), TableOnce(s.table),
         NEW row \in RowType, NEW status \in {SENDER, RECEIVER}, NEW t \in Calculate(s, row, status),
         row.localSeq \notin Made(s.table.validBuffer[status], status),
         NEW q, q = row.localSeq
  PROVE  Gained(t.table, s.table, status, q)
<1>. PICK b : b = s.table.validBuffer
  OBVIOUS
<1>1. PICK r \in calculateTof(b, row, status) :
        t = [s EXCEPT !.table.validBuffer = r.buffer, !.valid = (@ \/ r.added)]
  BY DEF Calculate
<1>2. /\ t.table.validBuffer = r.buffer
      /\ t.table.sendList = s.table.sendList /\ t.table.receiveList = s.table.receiveList
  BY <1>1 DEF CallType, TableType
<1>3. ASSUME NEW h \in {SENDER, RECEIVER}
      PROVE  /\ MadeOnce(r.buffer[h], h)
             /\ Made(r.buffer[h], h) \in SUBSET (Made(b[h], h) \cup {row.localSeq})
             /\ h # status => r.buffer[h] = b[h]
  <2>1. BufferOK(b) /\ MadeOnce(b[h], h) /\ (h = status => row.localSeq \notin Made(b[h], h))
    BY DEF TableOnce
  <2>. QED  BY <2>1, CalculateMade, SMTT(40)
<1>. QED  BY <1>2, <1>3 DEF Gained
-----------------------------------------------------------------------------
(* What the times of one message do.                                       *)

\* W is of no more numbers than a body unit reports.
Window(W) == W \in SUBSET (Nat \ {0}) /\ \E w : W \in SUBSET {w[j] : j \in 1..MESSAGE_BODY_RX_SIZE}

\* The numbers a body unit reports from its j-th time on, and that came after all
\* in the list, were gone.
Passed(list, unit, j, d) == \A k \in j..MESSAGE_BODY_RX_SIZE :
  unit.Rx[k].seqNumber > SeqAt(list, 1) => Gone(d, unit.Rx[k].seqNumber)

\* A row added for the j-th time of a unit, not in the list and not gone.
LEMMA RowFits ==
  ASSUME NEW new, NEW old, NEW x \in Nat \ {0}, RowAdded(new, old, x), Descends(old),
         SeqAt(old, 1) < x, NEW d, NEW unit,
         \A k \in 1..MESSAGE_BODY_RX_SIZE : unit.Rx[k].seqNumber \in Nat,
         UnitDescends(unit), NEW j \in 1..MESSAGE_BODY_RX_SIZE, x = unit.Rx[j].seqNumber,
         Passed(old, unit, j + 1, d),
         NEW W, Window(W), MovedOn(Reported(unit), W), Fits(old, W, d)
  PROVE  Fits(new, W, d)
<1>1. /\ SeqAt(new, 1) = x /\ Descends(new) /\ Listed(new) \in SUBSET (Listed(old) \cup {x})
      /\ old \in ListType /\ new \in ListType /\ SeqAt(old, 1) \in Nat /\ x \in Listed(new)
  <2>1. old \in ListType /\ new \in ListType
    BY DEF RowAdded
  <2>2. SeqAt(new, 1) = x /\ SeqAt(old, 1) \in Nat /\ 1 \in 1..RANGING_LIST_SIZE
    BY <2>1, AddedSeqs, SeqAtNat
  <2>3. x \in Listed(new)
    BY <2>1, <2>2, SeqListed DEF NULL_SEQ
  <2>. QED  BY <2>1, <2>2, <2>3, AddedDescends
<1>2. x \in Reported(unit)
  BY DEF Reported, NULL_SEQ
<1>3. Covers(Listed(new), W)
  <2>1. Covers(Listed(old), W) /\ Covers(Reported(unit), W)
    BY DEF Fits, MovedOn
  <2>. QED  BY <1>1, <1>2, <2>1 DEF Covers
<1>4. ASSUME NEW y \in W, y <= x
      PROVE  y \in Listed(new) \/ Gone(d, y)
  <2>1. y \in Nat \ {0}
    BY DEF Window
  <2>2. CASE y = x
    BY <1>1, <2>2
  <2>3. CASE y <= SeqAt(old, 1)
    <3>1. y \in Listed(old) \/ Gone(d, y)
      BY <2>3 DEF Fits
    <3>2. ASSUME y \in Listed(old)  PROVE y \in Listed(new)
      <4>1. PICK w : W \in SUBSET {w[k] : k \in 1..MESSAGE_BODY_RX_SIZE}
        BY DEF Window
      <4>2. MESSAGE_BODY_RX_SIZE \in 1..RANGING_LIST_SIZE /\ x \in Nat
        BY Sizes
      <4>. QED  BY <1>3, <3>2, <4>1, <4>2, Replaced
    <3>. QED  BY <3>1, <3>2
  <2>4. CASE SeqAt(old, 1) < y /\ y < x
    <3>1. y \in Reported(unit)
      BY <1>2, <2>1, <2>4 DEF MovedOn
    <3>2. PICK k \in 1..MESSAGE_BODY_RX_SIZE : y = unit.Rx[k].seqNumber
      BY <3>1 DEF Reported
    <3>3. ~(k < j) /\ k # j
      BY <2>1, <2>4, <3>2 DEF UnitDescends, NULL_SEQ
    <3>4. k \in j + 1..MESSAGE_BODY_RX_SIZE
      BY <3>3, Sizes
    <3>. QED  BY <2>4, <3>2, <3>4 DEF Passed
  <2>. QED  BY <1>1, <1>4, <2>1, <2>2, <2>3, <2>4
<1>. QED  BY <1>1, <1>3, <1>4 DEF Fits

\* And then it has passed the j-th time.
LEMMA RowPassed ==
  ASSUME NEW new, NEW old, NEW x \in Nat \ {0}, RowAdded(new, old, x), NEW d, NEW unit,
         UnitDescends(unit), \A k \in 1..MESSAGE_BODY_RX_SIZE : unit.Rx[k].seqNumber \in Nat,
         NEW j \in 1..MESSAGE_BODY_RX_SIZE, x = unit.Rx[j].seqNumber
  PROVE  Passed(new, unit, j, d)
<1>1. SeqAt(new, 1) = x
  BY AddedSeqs
<1>2. ASSUME NEW k \in j..MESSAGE_BODY_RX_SIZE
      PROVE  ~(unit.Rx[k].seqNumber > x)
  <2>1. k \in 1..MESSAGE_BODY_RX_SIZE /\ (k = j \/ j < k)
    BY Sizes
  <2>2. unit.Rx[k].seqNumber = NULL_SEQ \/ k = j \/ unit.Rx[k].seqNumber < x
    BY <2>1 DEF UnitDescends
  <2>. QED  BY <2>1, <2>2 DEF NULL_SEQ
<1>. QED  BY <1>1, <1>2 DEF Passed

\* The header of a message completes rows of the list, in place.
LEMMA FillKeeps ==
  ASSUME NEW list \in ListType, NEW x \in Rows, NEW q \in Nat \ {0}, NEW tx \in Nat,
         list.row[x].localSeq = q, Descends(list),
         NEW new, new = FillDeparture(list, x, q, tx)
  PROVE  /\ new \in ListType /\ Descends(new) /\ \A n : LastOf(new, n) = LastOf(list, n) \/ ~(n \in 1..RANGING_LIST_SIZE)
         /\ SeqAt(new, 1) = SeqAt(list, 1) /\ q <= SeqAt(new, 1)
         /\ \A i \in Rows : new.row[i].localSeq = q => new.row[i].remoteSeq = q
         /\ \A i \in Rows : new.row[i].localSeq # q => new.row[i] = list.row[i]
         /\ new.row[x].localSeq = q
<1>1. /\ new \in ListType /\ new.top = list.top
      /\ new.row[x] = [tx |-> tx, rx |-> list.row[x].rx,
                       localSeq |-> list.row[x].localSeq, remoteSeq |-> q]
      /\ \A j \in Rows \ {x} : new.row[j] = list.row[j]
  BY DepartureRows
<1>2. \A j \in Rows : new.row[j].localSeq = list.row[j].localSeq
  BY <1>1
<1>3. list.top \in Rows \cup {NULL_INDEX}
  BY DEF ListType
<1>4. \A k \in 1..RANGING_LIST_SIZE : SeqAt(new, k) = SeqAt(list, k)
  BY <1>1, <1>2, <1>3, AtSlot DEF SeqAt
<1>5. 1 \in 1..RANGING_LIST_SIZE
  BY RowsSize
<1>6. Descends(new)
  BY <1>4 DEF Descends
<1>7. \A n : LastOf(new, n) = LastOf(list, n) \/ ~(n \in 1..RANGING_LIST_SIZE)
  <2>1. SUFFICES ASSUME NEW n \in 1..RANGING_LIST_SIZE  PROVE LastOf(new, n) = LastOf(list, n)
    OBVIOUS
  <2>2. \A k \in 1..n : SeqAt(new, k) = SeqAt(list, k)
    BY <1>4, RowsSize
  <2>. QED  BY <2>2 DEF LastOf
<1>8. q <= SeqAt(list, 1)
  <2>1. q \in Listed(list)
    BY DEF Listed, NULL_SEQ
  <2>. QED  BY <2>1, TopGreatest
<1>9. \A j \in Rows : list.row[j].localSeq = q => j = x
  BY TopGreatest DEF NULL_SEQ
<1>. QED  BY <1>1, <1>2, <1>4, <1>5, <1>6, <1>7, <1>8, <1>9

\* The records made are of numbers.
LEMMA MadeNat ==
  ASSUME NEW ring \in RingType, NEW h \in {SENDER, RECEIVER}
  PROVE  Made(ring, h) \in SUBSET Nat
<1>1. ASSUME NEW k \in Held(ring)
      PROVE  ring.rec[k][h].localSeq \in Nat
  <2>1. ring.rec[k] \in RecordType
    BY DEF Held, RingType
  <2>. QED  BY <2>1 DEF RecordType, HalfType, SENDER, RECEIVER
<1>. QED  BY <1>1 DEF Made

\* What BuffersOnce says of a table and its lists.
LEMMA OnceBuffer ==
  ASSUME NEW t, BuffersOnce(t), NEW b, b = t.validBuffer
  PROVE  /\ TableOnce(t)
         /\ \A q \in Made(b[SENDER], SENDER) : q <= SeqAt(t.sendList, 1)
         /\ \A q \in Made(b[RECEIVER], RECEIVER) :
              /\ q <= SeqAt(t.receiveList, 1)
              /\ \A i \in Rows : t.receiveList.row[i].localSeq = q =>
                                 t.receiveList.row[i].remoteSeq = q
  BY DEF BuffersOnce, TableOnce

\* A time of the header.
LEMMA TxOnce ==
  ASSUME NEW d, NEW m \in MessageType, NEW k, NEW s, CallTrue(s, d, m, k),
         ListsOnce(s.table), BuffersOnce(s.table), NEW i \in 1..MESSAGE_HEAD_TX_SIZE,
         NEW t \in processTx(s, m, i)
  PROVE  /\ ListsOnce(t.table) /\ BuffersOnce(t.table)
         /\ t.table.sendList = s.table.sendList
         /\ LastOf(t.table.receiveList, MESSAGE_BODY_RX_SIZE)
              = LastOf(s.table.receiveList, MESSAGE_BODY_RX_SIZE)
<1>. PICK list, b, Tx, x :
       /\ list = s.table.receiveList /\ b = s.table.validBuffer
       /\ Tx = m.Tx[i] /\ x = findLocalSeqIndex(list, Tx.seqNumber)
  OBVIOUS
<1>1. /\ s \in CallType /\ list \in ListType /\ BufferOK(b) /\ Tx \in TimeType
      /\ s.table.sendList \in ListType
  BY CallFields DEF CallTrue, CallBuffer, BufferTrue, MessageType
<1>2. CASE Tx.seqNumber = NULL_SEQ \/ x \in {NULL_INDEX, NULL_DONE_INDEX}
  <2>1. t = s
    BY <1>2 DEF processTx
  <2>. QED  BY <2>1
<1>3. CASE ~(Tx.seqNumber = NULL_SEQ \/ x \in {NULL_INDEX, NULL_DONE_INDEX})
  <2>. PICK q, tx : q = Tx.seqNumber /\ tx = Tx.timestamp
    OBVIOUS
  <2>1. q \in Nat \ {0} /\ tx \in Nat
    BY <1>1, <1>3 DEF TimeType, NULL_SEQ
  <2>2. x \in Rows /\ list.row[x].localSeq = q /\ list.row[x].remoteSeq # q
    BY <1>1, <1>3, <2>1, FindRow
  <2>. PICK new : new = FillDeparture(list, x, q, tx)
    OBVIOUS
  <2>. PICK u : u = [s EXCEPT !.table.receiveList = new]
    OBVIOUS
  <2>3. Descends(list)
    BY DEF ListsOnce
  <2>0. /\ list \in ListType /\ x \in Rows /\ q \in Nat \ {0} /\ tx \in Nat
        /\ list.row[x].localSeq = q /\ Descends(list) /\ new = FillDeparture(list, x, q, tx)
    BY <1>1, <2>1, <2>2, <2>3
  <2>4. /\ new \in ListType /\ Descends(new)
        /\ LastOf(new, MESSAGE_BODY_RX_SIZE) = LastOf(list, MESSAGE_BODY_RX_SIZE)
        /\ SeqAt(new, 1) = SeqAt(list, 1) /\ q <= SeqAt(new, 1)
        /\ \A j \in Rows : new.row[j].localSeq = q => new.row[j].remoteSeq = q
        /\ \A j \in Rows : new.row[j].localSeq # q => new.row[j] = list.row[j]
        /\ new.row[x].localSeq = q
    <3>1. LET n == MESSAGE_BODY_RX_SIZE
          IN  LastOf(new, n) = LastOf(list, n) \/ ~(n \in 1..RANGING_LIST_SIZE)
      BY ONLY <2>0, FillKeeps
    <3>2. /\ new \in ListType /\ Descends(new)
          /\ SeqAt(new, 1) = SeqAt(list, 1) /\ q <= SeqAt(new, 1)
          /\ \A j \in Rows : new.row[j].localSeq = q => new.row[j].remoteSeq = q
          /\ \A j \in Rows : new.row[j].localSeq # q => new.row[j] = list.row[j]
          /\ new.row[x].localSeq = q
      BY ONLY <2>0, FillKeeps
    <3>. QED  BY <3>1, <3>2, Sizes
  <2>5. /\ u \in CallType /\ u.table.validBuffer = b
        /\ u.table.sendList = s.table.sendList /\ u.table.receiveList = new
    <3>1. /\ s \in CallType /\ new \in ListType /\ u = [s EXCEPT !.table.receiveList = new]
          /\ b = s.table.validBuffer
      BY <1>1, <2>4
    <3>. QED  BY ONLY <3>1 DEF CallType, TableType
  <2>6. /\ TableOnce(s.table)
        /\ \A p \in Made(b[SENDER], SENDER) : p <= SeqAt(s.table.sendList, 1)
        /\ \A p \in Made(b[RECEIVER], RECEIVER) :
             /\ p <= SeqAt(list, 1)
             /\ \A j \in Rows : list.row[j].localSeq = p => list.row[j].remoteSeq = p
    BY OnceBuffer
  <2>7. q \notin Made(b[RECEIVER], RECEIVER)
    BY <2>2, <2>6
  <2>8. Gained(t.table, u.table, RECEIVER, q)
    <3>. PICK status : status = RECEIVER
      OBVIOUS
    <3>1. /\ u \in CallType /\ BufferOK(u.table.validBuffer) /\ TableOnce(u.table)
          /\ status \in {SENDER, RECEIVER}
      BY <1>1, <2>5, <2>6 DEF TableOnce
    <3>2. CASE b.send.length < MAX_INITIAL_CALCULATION
      <4>1. PICK e, sent, averaged :
              e = m.srcAddress /\ sent = u.table.sendList /\ averaged = {i - 1}
        OBVIOUS
      <4>2. t = Initialize(u, e, new, sent, x, status, averaged)
        BY <1>3, <3>2, <4>1, <2>5 DEF processTx
      <4>3. new \in ListType /\ sent \in ListType /\ x \in Rows
        BY <1>1, <2>2, <2>4, <2>5, <4>1
      <4>4. Gained(t.table, u.table, status, q)
        BY ONLY <3>1, <4>2, <4>3, InitializeOnce
      <4>. QED  BY <4>4
    <3>3. CASE ~(b.send.length < MAX_INITIAL_CALCULATION)
      <4>1. PICK row : row = new.row[x]
        OBVIOUS
      <4>2. t \in Calculate(u, row, status)
        BY <1>3, <3>3, <4>1 DEF processTx
      <4>3. /\ row \in RowType /\ q = row.localSeq
            /\ row.localSeq \notin Made(u.table.validBuffer[status], status)
        BY <2>2, <2>4, <2>5, <2>7, <4>1 DEF ListType
      <4>4. Gained(t.table, u.table, status, q)
        BY ONLY <3>1, <4>2, <4>3, CalculateOnce
      <4>. QED  BY <4>4
    <3>. QED  BY <3>2, <3>3
  <2>9. /\ t.table.sendList = s.table.sendList /\ t.table.receiveList = new /\ TableOnce(t.table)
        /\ \A p \in Made(t.table.validBuffer[SENDER], SENDER) : p \in Made(b[SENDER], SENDER)
        /\ \A p \in Made(t.table.validBuffer[RECEIVER], RECEIVER) :
             p \in Made(b[RECEIVER], RECEIVER) \/ p = q
    <3>1. SENDER \in {SENDER, RECEIVER} /\ RECEIVER \in {SENDER, RECEIVER} /\ SENDER # RECEIVER
      BY DEF SENDER, RECEIVER
    <3>. QED  BY <2>5, <2>8, <3>1 DEF Gained, TableOnce
  <2>10. BuffersOnce(t.table)
    <3>1. \A p \in Made(t.table.validBuffer[RECEIVER], RECEIVER) :
            /\ p <= SeqAt(new, 1)
            /\ \A j \in Rows : new.row[j].localSeq = p => new.row[j].remoteSeq = p
      <4>1. ASSUME NEW p \in Made(t.table.validBuffer[RECEIVER], RECEIVER)
            PROVE  /\ p <= SeqAt(new, 1)
                   /\ \A j \in Rows : new.row[j].localSeq = p => new.row[j].remoteSeq = p
        <5>1. CASE p = q
          BY <2>4, <5>1
        <5>2. CASE p # q
          <6>1. p \in Made(b[RECEIVER], RECEIVER)
            BY <2>9, <5>2
          <6>2. p <= SeqAt(list, 1)
                /\ \A j \in Rows : list.row[j].localSeq = p => list.row[j].remoteSeq = p
            BY <2>6, <6>1
          <6>. QED  BY <2>4, <5>2, <6>2, ZenonT(40)
        <5>. QED  BY <5>1, <5>2
      <4>. QED  BY <4>1
    <3>2. \A p \in Made(t.table.validBuffer[SENDER], SENDER) : p <= SeqAt(s.table.sendList, 1)
      BY <2>6, <2>9
    <3>. QED  BY <2>5, <2>9, <3>1, <3>2 DEF BuffersOnce, TableOnce
  <2>11. ListsOnce(t.table)
    BY <2>4, <2>9 DEF ListsOnce
  <2>. QED  BY <2>4, <2>9, <2>10, <2>11
<1>. QED  BY <1>2, <1>3

\* A body unit for d: what it reports was sent, in the order it names it.
GoodUnit(unit, d) ==
  /\ \A k \in 1..MESSAGE_BODY_RX_SIZE :
       /\ unit.Rx[k].seqNumber \in Nat /\ unit.Rx[k].timestamp \in Nat
       /\ unit.Rx[k].seqNumber # NULL_SEQ => unit.Rx[k].seqNumber \in 1..Len(sentAt[d])
  /\ UnitDescends(unit)

\* What a good unit reports is a window.
LEMMA UnitWindow ==
  ASSUME NEW d, NEW unit, GoodUnit(unit, d)
  PROVE  Window(Reported(unit))
<1>. DEFINE w == [j \in 1..MESSAGE_BODY_RX_SIZE |-> unit.Rx[j].seqNumber]
<1>1. Reported(unit) \in SUBSET {w[j] : j \in 1..MESSAGE_BODY_RX_SIZE}
  BY DEF Reported
<1>2. Reported(unit) \in SUBSET (Nat \ {0})
  BY DEF Reported, GoodUnit, NULL_SEQ
<1>. HIDE DEF w
<1>. QED  BY <1>1, <1>2 DEF Window

\* Before the j-th time of the unit is processed, those after it are.
Serving(t, d, unit, W, j) ==
  /\ ListsOnce(t) /\ BuffersOnce(t)
  /\ Fits(t.sendList, W, d) /\ Fits(t.sendList, Reported(unit), d)
  /\ Passed(t.sendList, unit, j, d)

\* A time of the body unit.
LEMMA RxOnce ==
  ASSUME TypeOK, LocalBuffers, NEW d \in Drones, NEW e, NEW unit, GoodUnit(unit, d),
         NEW W, Window(W), MovedOn(Reported(unit), W),
         NEW s \in CallType, BufferOK(s.table.validBuffer), NEW j \in 1..MESSAGE_BODY_RX_SIZE,
         Serving(s.table, d, unit, W, j + 1), NEW t \in processRx(s, d, e, unit, j)
  PROVE  Serving(t.table, d, unit, W, j) /\ t.table.receiveList = s.table.receiveList
<1>. PICK list, x, rx, i :
       /\ list = s.table.sendList /\ x = unit.Rx[j].seqNumber /\ rx = unit.Rx[j].timestamp
       /\ i = findLocalSendBuffer(localSendBuffer[d], x)
  OBVIOUS
<1>1. /\ list \in ListType /\ x \in Nat /\ rx \in Nat
      /\ x # NULL_SEQ => x \in 1..Len(sentAt[d]) /\ x \in Nat \ {0}
      /\ SeqAt(list, 1) \in Nat
      /\ \A k \in 1..MESSAGE_BODY_RX_SIZE : unit.Rx[k].seqNumber \in Nat
      /\ UnitDescends(unit)
  <2>1. list \in ListType
    BY CallFields
  <2>. QED  BY <2>1, SeqAtNat DEF GoodUnit, NULL_SEQ
<1>2. /\ Descends(list) /\ \A l \in Rows : list.row[l].remoteSeq = list.row[l].localSeq
      /\ list.top = NULL_INDEX => Listed(list) = {}
      /\ Fits(list, W, d) /\ Fits(list, Reported(unit), d) /\ Passed(list, unit, j + 1, d)
  BY DEF Serving, ListsOnce
<1>3. x # NULL_SEQ => (i = NULL_INDEX <=> Gone(d, x))
  BY <1>1, FindGone
\* The time is not processed.
<1>4. ASSUME x = NULL_SEQ \/ findLocalSeqIndex(list, x) = NULL_DONE_INDEX \/ i = NULL_INDEX
      PROVE  Serving(t.table, d, unit, W, j) /\ t.table.receiveList = s.table.receiveList
  <2>1. t = s
    BY <1>4 DEF processRx
  <2>2. x > SeqAt(list, 1) => Gone(d, x)
    <3>1. CASE x = NULL_SEQ
      BY <1>1, <3>1 DEF NULL_SEQ
    <3>2. CASE x # NULL_SEQ /\ findLocalSeqIndex(list, x) = NULL_DONE_INDEX
      <4>1. NULL_DONE_INDEX \notin Rows /\ NULL_INDEX # NULL_DONE_INDEX
        BY RowsSize DEF NULL_INDEX, NULL_DONE_INDEX
      <4>2. PICK l \in Rows : list.row[l].remoteSeq = x
        BY <1>1, <3>2, <4>1, FindRow
      <4>3. x \in Listed(list)
        BY <1>2, <3>2, <4>2 DEF Listed
      <4>. QED  BY <1>1, <1>2, <4>3, TopGreatest
    <3>3. CASE x # NULL_SEQ /\ i = NULL_INDEX
      BY <1>3, <3>3
    <3>. QED  BY <1>4, <3>1, <3>2, <3>3
  <2>3. Passed(list, unit, j, d)
    <3>1. \A k \in j..MESSAGE_BODY_RX_SIZE : k = j \/ k \in j + 1..MESSAGE_BODY_RX_SIZE
      BY Sizes
    <3>. QED  BY <1>2, <2>2, <3>1 DEF Passed
  <2>. QED  BY <2>1, <2>3 DEF Serving
\* It adds a row.
<1>5. ASSUME ~(x = NULL_SEQ \/ findLocalSeqIndex(list, x) = NULL_DONE_INDEX \/ i = NULL_INDEX)
      PROVE  Serving(t.table, d, unit, W, j) /\ t.table.receiveList = s.table.receiveList
  <2>. PICK tx : tx = localSendBuffer[d].slot[i].timestamp
    OBVIOUS
  <2>. PICK new : new = AddFull(list, x, tx, rx)
    OBVIOUS
  <2>1. x \in Nat \ {0} /\ tx \in Nat
    <3>1. i \in Rows
      BY <1>1, <1>5, FindLocal, ZenonT(60)
    <3>2. localSendBuffer[d].slot[i] \in TimeType
      BY <3>1 DEF TypeOK
    <3>. QED  BY <1>1, <1>5, <3>2 DEF TimeType
  <2>2. /\ new \in ListType /\ new.top \in Rows /\ new.row[new.top].localSeq = x
        /\ \A l \in Rows : new.row[l].remoteSeq = new.row[l].localSeq
        /\ RowAdded(new, list, x)
    <3>1. list \in ListType /\ rx \in Nat /\ new = AddFull(list, x, tx, rx)
          /\ \A l \in Rows : list.row[l].remoteSeq = list.row[l].localSeq
      BY <1>1, <1>2
    <3>2. /\ new \in ListType /\ new.top \in Rows
          /\ new.row[new.top] = [tx |-> tx, rx |-> rx, localSeq |-> x, remoteSeq |-> x]
          /\ \A l \in Rows \ {new.top} : new.row[l] = list.row[l]
      BY ONLY <2>1, <3>1, FullRows
    <3>3. new.top = (list.top + 1) % RANGING_LIST_SIZE
      BY ONLY <3>1 DEF AddFull
    <3>. QED  BY ONLY <3>1, <3>2, <3>3 DEF RowAdded
  <2>3. RowAdded(new, list, x)
    BY <2>2
  <2>4. x \notin Listed(list)
    <3>1. SUFFICES ASSUME x \in Listed(list)  PROVE FALSE
      OBVIOUS
    <3>2. PICK l \in Rows : list.row[l].localSeq = x
      BY <3>1 DEF Listed
    <3>3. list.top # NULL_INDEX
      BY <1>2, <3>1
    <3>4. findLocalSeqIndex(list, x) \in Rows =>
            list.row[findLocalSeqIndex(list, x)].localSeq = x
            /\ list.row[findLocalSeqIndex(list, x)].remoteSeq # x
      BY <1>1, <1>5, <3>2, <3>3, FindRow
    <3>5. findLocalSeqIndex(list, x) \in Rows
      BY <1>1, <1>5, <3>2, <3>3, FindRow
    <3>. QED  BY <1>2, <3>4, <3>5
  <2>5. SeqAt(list, 1) < x
    <3>1. x \in Reported(unit)
      BY <2>1 DEF Reported, NULL_SEQ
    <3>2. ~Gone(d, x)
      BY <1>3, <1>5
    <3>3. ~(x <= SeqAt(list, 1))
      BY <1>2, <2>4, <3>1, <3>2 DEF Fits
    <3>. QED  BY <1>1, <3>3
  <2>6. Fits(new, W, d) /\ Fits(new, Reported(unit), d)
    <3>1. Window(Reported(unit)) /\ MovedOn(Reported(unit), Reported(unit))
      BY UnitWindow, MovedOnSelf DEF Window
    <3>2. \A X : Window(X) /\ MovedOn(Reported(unit), X) /\ Fits(list, X, d) => Fits(new, X, d)
      BY <1>1, <1>2, <2>1, <2>3, <2>5, RowFits
    <3>. QED  BY <1>2, <3>1, <3>2
  <2>7. Passed(new, unit, j, d)
    BY <1>1, <2>1, <2>3, RowPassed
  <2>8. /\ Descends(new) /\ SeqAt(new, 1) = x
        /\ \A l \in Rows : new.row[l].remoteSeq = new.row[l].localSeq
        /\ new.top # NULL_INDEX
    <3>1. Descends(new) /\ SeqAt(new, 1) = x
      <4>1. x \in Nat
        BY <2>1
      <4>. QED  BY ONLY <1>2, <2>3, <2>5, <4>1, AddedDescends, AddedSeqs
    <3>2. new.top # NULL_INDEX
      <4>1. NULL_INDEX \notin Rows
        BY ONLY RowsSize DEF NULL_INDEX
      <4>. QED  BY <2>2, <4>1
    <3>. QED  BY <2>2, <3>1, <3>2
  <2>. PICK u : u = [s EXCEPT !.table.sendList = new]
    OBVIOUS
  <2>9. /\ u \in CallType /\ u.table.validBuffer = s.table.validBuffer
        /\ u.table.sendList = new /\ u.table.receiveList = s.table.receiveList
    <3>1. new \in ListType /\ s \in CallType /\ u = [s EXCEPT !.table.sendList = new]
      BY <2>2
    <3>. QED  BY ONLY <3>1 DEF CallType, TableType
  <2>10. /\ TableOnce(s.table)
         /\ \A q \in Made(s.table.validBuffer[SENDER], SENDER) : q <= SeqAt(list, 1)
         /\ \A q \in Made(s.table.validBuffer[RECEIVER], RECEIVER) :
              /\ q <= SeqAt(s.table.receiveList, 1)
              /\ \A l \in Rows : s.table.receiveList.row[l].localSeq = q =>
                                 s.table.receiveList.row[l].remoteSeq = q
    BY OnceBuffer DEF Serving
  <2>11. Gained(t.table, u.table, SENDER, x)
    <3>. PICK status : status = SENDER
      OBVIOUS
    <3>1. /\ u \in CallType /\ BufferOK(u.table.validBuffer) /\ TableOnce(u.table)
          /\ status \in {SENDER, RECEIVER}
      BY <2>9, <2>10 DEF TableOnce
    <3>2. CASE s.table.validBuffer.receive.length < MAX_INITIAL_CALCULATION
      <4>1. PICK received, averaged, top :
              received = u.table.receiveList /\ averaged = Records /\ top = new.top
        OBVIOUS
      <4>2. t = Initialize(u, e, new, received, top, status, averaged)
        BY <1>5, <3>2, <4>1, <2>9 DEF processRx
      <4>3. new \in ListType /\ received \in ListType /\ top \in Rows
        BY <2>2, <2>9, <4>1, CallFields
      <4>4. Gained(t.table, u.table, status, x)
        BY ONLY <3>1, <4>2, <4>3, InitializeOnce
      <4>. QED  BY <4>4
    <3>3. CASE ~(s.table.validBuffer.receive.length < MAX_INITIAL_CALCULATION)
      <4>1. PICK row : row = new.row[new.top]
        OBVIOUS
      <4>2. t \in Calculate(u, row, status)
        BY <1>5, <3>3, <4>1 DEF processRx
      <4>3. row \in RowType /\ x = row.localSeq
        BY <2>2, <4>1 DEF ListType
      <4>4. row.localSeq \notin Made(u.table.validBuffer[status], status)
        <5>1. x \notin Made(s.table.validBuffer[SENDER], SENDER)
          <6>1. x \in Nat /\ SeqAt(list, 1) \in Nat
            BY <1>1
          <6>. QED  BY ONLY <2>5, <2>10, <6>1
        <5>. QED  BY <2>9, <4>3, <5>1
      <4>5. Gained(t.table, u.table, status, x)
        BY ONLY <3>1, <4>2, <4>3, <4>4, CalculateOnce
      <4>. QED  BY <4>5
    <3>. QED  BY <3>2, <3>3
  <2>12. /\ t.table.sendList = new /\ t.table.receiveList = s.table.receiveList
         /\ TableOnce(t.table)
         /\ \A q \in Made(t.table.validBuffer[SENDER], SENDER) :
              q \in Made(s.table.validBuffer[SENDER], SENDER) \/ q = x
         /\ \A q \in Made(t.table.validBuffer[RECEIVER], RECEIVER) :
              q \in Made(s.table.validBuffer[RECEIVER], RECEIVER)
    <3>1. SENDER \in {SENDER, RECEIVER} /\ RECEIVER \in {SENDER, RECEIVER} /\ SENDER # RECEIVER
      BY DEF SENDER, RECEIVER
    <3>. QED  BY <2>9, <2>11, <3>1 DEF Gained, TableOnce
  <2>13. BuffersOnce(t.table)
    <3>1. \A q \in Made(t.table.validBuffer[SENDER], SENDER) : q <= x
      <4>1. Made(s.table.validBuffer[SENDER], SENDER) \in SUBSET Nat
        <5>1. s.table.validBuffer[SENDER] \in RingType
          BY DEF BufferOK, BufferType, SENDER
        <5>. QED  BY <5>1, MadeNat
      <4>2. ASSUME NEW q \in Made(t.table.validBuffer[SENDER], SENDER)
            PROVE  q <= x
        <5>1. CASE q = x
          BY ONLY <1>1, <5>1
        <5>2. CASE q # x
          <6>1. q \in Made(s.table.validBuffer[SENDER], SENDER)
            BY <2>12, <5>2
          <6>2. q <= SeqAt(list, 1) /\ q \in Nat
            BY <2>10, <4>1, <6>1
          <6>3. x \in Nat /\ SeqAt(list, 1) \in Nat
            BY <1>1
          <6>. QED  BY ONLY <2>5, <6>2, <6>3
        <5>. QED  BY <5>1, <5>2
      <4>. QED  BY <4>2
    <3>. QED  BY <2>8, <2>10, <2>12, <3>1 DEF BuffersOnce, TableOnce
  <2>14. ListsOnce(t.table)
    <3>1. Descends(s.table.receiveList)
      BY DEF Serving, ListsOnce
    <3>. QED  BY <2>8, <2>12, <3>1 DEF ListsOnce
  <2>. QED  BY <2>6, <2>7, <2>12, <2>13, <2>14 DEF Serving
<1>. QED  BY <1>4, <1>5

\* A row for the message processed, after all those before it.
LEMMA ArrivalAdds ==
  ASSUME NEW list \in ListType, NEW n \in Nat \ {0}, NEW rx \in Nat, SeqAt(list, 1) < n,
         Descends(list), NEW new, new = AddArrival(list, n, rx)
  PROVE  /\ new \in ListType /\ Descends(new) /\ SeqAt(new, 1) = n
         /\ \A i \in Rows : new.row[i].localSeq = n \/ new.row[i] = list.row[i]
         /\ MovedOn(LastOf(list, MESSAGE_BODY_RX_SIZE), LastOf(new, MESSAGE_BODY_RX_SIZE))
<1>1. /\ new \in ListType /\ new.top \in Rows
      /\ new.row[new.top] = [tx |-> list.row[new.top].tx, rx |-> rx, localSeq |-> n,
                             remoteSeq |-> NULL_SEQ]
      /\ \A i \in Rows \ {new.top} : new.row[i] = list.row[i]
  BY ArrivalRows
<1>2. new.top = (list.top + 1) % RANGING_LIST_SIZE
  BY DEF AddArrival
<1>3. RowAdded(new, list, n)
  BY <1>1, <1>2 DEF RowAdded
<1>4. Descends(new) /\ SeqAt(new, 1) = n
  BY <1>3, AddedDescends, AddedSeqs
<1>5. MovedOn(LastOf(list, MESSAGE_BODY_RX_SIZE), LastOf(new, MESSAGE_BODY_RX_SIZE))
  BY <1>3, Sizes, WindowMoves
<1>. QED  BY <1>1, <1>4, <1>5

\* The row for the message processed.
LEMMA StartOnce ==
  ASSUME NEW old \in TableType, ListsOnce(old), BuffersOnce(old),
         NEW n \in Nat \ {0}, NEW rx \in Nat, SeqAt(old.receiveList, 1) < n,
         NEW t, t = Started(old, n, rx)
  PROVE  /\ ListsOnce(t) /\ BuffersOnce(t) /\ t.sendList = old.sendList
         /\ MovedOn(LastOf(old.receiveList, MESSAGE_BODY_RX_SIZE),
                    LastOf(t.receiveList, MESSAGE_BODY_RX_SIZE))
<1>. PICK list, new : list = old.receiveList /\ new = AddArrival(list, n, rx)
  OBVIOUS
<1>1. /\ t.sendList = old.sendList /\ t.validBuffer = old.validBuffer /\ t.receiveList = new
      /\ list \in ListType
  BY DEF Started, TableType
<1>2. Descends(list)
  BY DEF ListsOnce
<1>3. /\ new \in ListType /\ Descends(new) /\ SeqAt(new, 1) = n
      /\ \A i \in Rows : new.row[i].localSeq = n \/ new.row[i] = list.row[i]
      /\ MovedOn(LastOf(list, MESSAGE_BODY_RX_SIZE), LastOf(new, MESSAGE_BODY_RX_SIZE))
  BY <1>1, <1>2, ArrivalAdds
<1>4. SeqAt(list, 1) \in Nat
  BY <1>1, SeqAtNat
<1>. PICK b : b = old.validBuffer
  OBVIOUS
<1>5. Made(b[RECEIVER], RECEIVER) \in SUBSET Nat
  <2>1. b[RECEIVER] \in RingType /\ RECEIVER \in {SENDER, RECEIVER}
    BY DEF TableType, BufferType, SENDER, RECEIVER
  <2>. QED  BY <2>1, MadeNat
<1>6. /\ TableOnce(old)
      /\ \A q \in Made(b[SENDER], SENDER) : q <= SeqAt(old.sendList, 1)
      /\ \A q \in Made(b[RECEIVER], RECEIVER) :
           q <= SeqAt(list, 1) /\ \A i \in Rows : list.row[i].localSeq = q => list.row[i].remoteSeq = q
  BY OnceBuffer
<1>7. ASSUME NEW q \in Made(b[RECEIVER], RECEIVER)
      PROVE  q <= n /\ \A i \in Rows : new.row[i].localSeq = q => new.row[i].remoteSeq = q
  <2>1. q < n
    BY <1>4, <1>5, <1>6
  <2>2. \A i \in Rows : new.row[i].localSeq = q => new.row[i] = list.row[i]
    BY <1>3, <2>1
  <2>3. \A i \in Rows : list.row[i].localSeq = q => list.row[i].remoteSeq = q
    BY <1>6
  <2>4. q <= n
    BY <1>5, <2>1
  <2>. QED  BY ONLY <2>2, <2>3, <2>4
<1>8. BuffersOnce(t)
  BY <1>1, <1>3, <1>6, <1>7 DEF BuffersOnce, TableOnce
<1>9. ListsOnce(t)
  BY <1>1, <1>3 DEF ListsOnce
<1>. QED  BY <1>1, <1>3, <1>8, <1>9
-----------------------------------------------------------------------------
(* The turns of a call.                                                    *)

\* Table t after k turns of a call for message m: its lists and buffers are as
\* before, window V of its receive list is, and it has what W and the unit of m
\* for d have of the past.
Turned(t, d, m, V, W, k) ==
  /\ ListsOnce(t) /\ BuffersOnce(t)
  /\ LastOf(t.receiveList, MESSAGE_BODY_RX_SIZE) = V /\ Fits(t.sendList, W, d)
  /\ unitsFor(m, d) # {} =>
       /\ Fits(t.sendList, Reported(unitFor(m, d)), d)
       /\ k >= MESSAGE_HEAD_TX_SIZE => Passed(t.sendList, unitFor(m, d), Turns + 1 - k, d)

\* The unit of m for d is good, and W follows it.
Precedes(m, d, W) ==
  unitsFor(m, d) # {} => GoodUnit(unitFor(m, d), d) /\ MovedOn(Reported(unitFor(m, d)), W)

\* One turn.
LEMMA TurnOnce ==
  ASSUME TypeOK, LocalBuffers, NEW d \in Drones, NEW m \in MessageType, NEW k \in 1..Turns,
         NEW s, CallTrue(s, d, m, After(k - 1)), NEW V, NEW W, Window(W), Precedes(m, d, W),
         Turned(s.table, d, m, V, W, k - 1), NEW t \in processTime(s, d, m, k)
  PROVE  Turned(t.table, d, m, V, W, k)
<1>1. /\ ListsOnce(s.table) /\ BuffersOnce(s.table)
      /\ LastOf(s.table.receiveList, MESSAGE_BODY_RX_SIZE) = V /\ Fits(s.table.sendList, W, d)
  BY DEF Turned
<1>2. CASE k <= MESSAGE_HEAD_TX_SIZE
  <2>1. MESSAGE_HEAD_TX_SIZE + 1 - k \in 1..MESSAGE_HEAD_TX_SIZE
    BY <1>2, Sizes DEF Turns
  <2>2. t \in processTx(s, m, MESSAGE_HEAD_TX_SIZE + 1 - k)
    BY <1>2 DEF processTime
  <2>3. /\ ListsOnce(t.table) /\ BuffersOnce(t.table) /\ t.table.sendList = s.table.sendList
        /\ LastOf(t.table.receiveList, MESSAGE_BODY_RX_SIZE) = V
    BY <1>1, <2>1, <2>2, TxOnce
  <2>4. ASSUME k >= MESSAGE_HEAD_TX_SIZE, NEW unit
        PROVE  Passed(t.table.sendList, unit, Turns + 1 - k, d)
    <3>1. Turns + 1 - k = MESSAGE_BODY_RX_SIZE + 1
      BY <1>2, <2>4, Sizes DEF Turns
    <3>2. Turns + 1 - k..MESSAGE_BODY_RX_SIZE = {}
      BY <3>1, Sizes
    <3>. QED  BY <3>2 DEF Passed
  <2>. QED  BY <1>1, <2>3, <2>4 DEF Turned
<1>3. CASE ~(k <= MESSAGE_HEAD_TX_SIZE) /\ unitsFor(m, d) = {}
  <2>1. t = s
    BY <1>3 DEF processTime
  <2>. QED  BY <1>1, <1>3, <2>1 DEF Turned
<1>4. CASE ~(k <= MESSAGE_HEAD_TX_SIZE) /\ unitsFor(m, d) # {}
  <2>. PICK unit, j : unit = unitFor(m, d) /\ j = Turns + 1 - k
    OBVIOUS
  <2>1. /\ j \in 1..MESSAGE_BODY_RX_SIZE /\ j + 1 = Turns + 1 - (k - 1)
        /\ k - 1 >= MESSAGE_HEAD_TX_SIZE
    BY <1>4, Sizes DEF Turns
  <2>2. Serving(s.table, d, unit, W, j + 1)
    BY <1>4, <2>1 DEF Turned, Serving
  <2>3. s \in CallType /\ BufferOK(s.table.validBuffer)
    BY DEF CallTrue, CallBuffer, BufferTrue
  <2>4. GoodUnit(unit, d) /\ MovedOn(Reported(unit), W)
    BY <1>4 DEF Precedes
  <2>5. t \in processRx(s, d, m.srcAddress, unit, j)
    BY <1>4 DEF processTime
  <2>6. Serving(t.table, d, unit, W, j) /\ t.table.receiveList = s.table.receiveList
    BY <2>1, <2>2, <2>3, <2>4, <2>5, RxOnce
  <2>. QED  BY <1>1, <2>6 DEF Turned, Serving
<1>. QED  BY <1>2, <1>3, <1>4

\* All turns.
LEMMA TurnsOnce ==
  ASSUME TypeOK, Histories, LocalBuffers, NEW d \in Drones,
         NEW task \in TaskType, TaskTrue(task, d), NEW m, m = task.message,
         NEW V, NEW W, Window(W), Precedes(m, d, W),
         NEW s, CallTrue(s, d, m, 0), Turned(s.table, d, m, V, W, 0), NEW t \in turns(s, d, m)[Turns]
  PROVE  Turned(t.table, d, m, V, W, Turns)
<1>. DEFINE f == turns(s, d, m)
            S == {k \in 0..Turns : \A u \in f[k] :
                    CallTrue(u, d, m, After(k)) /\ Turned(u.table, d, m, V, W, k)}
<1>1. Turns \in Nat /\ Turns >= MESSAGE_HEAD_TX_SIZE
  BY Sizes DEF Turns
<1>2. /\ f[0] = {s}
      /\ \A k \in 1..Turns : f[k] = UNION {processTime(u, d, m, k) : u \in f[k - 1]}
  BY TurnsAre
<1>3. t \in f[Turns]
  OBVIOUS
<1>. HIDE DEF f
<1>4. 0 \in S
  <2>1. After(0) = 0
    BY Sizes DEF After
  <2>. QED  BY <1>1, <1>2, <2>1
<1>5. ASSUME NEW k \in 0..Turns - 1, k \in S
      PROVE  k + 1 \in S
  <2>1. k + 1 \in 1..Turns /\ k + 1 \in 0..Turns /\ k + 1 - 1 = k
    BY <1>1
  <2>2. ASSUME NEW u \in f[k + 1]
        PROVE  CallTrue(u, d, m, After(k + 1)) /\ Turned(u.table, d, m, V, W, k + 1)
    <3>1. f[k + 1] = UNION {processTime(v, d, m, k + 1) : v \in f[k]}
      BY <1>2, <2>1
    <3>2. PICK v \in f[k] : u \in processTime(v, d, m, k + 1)
      BY <2>2, <3>1
    <3>3. CallTrue(v, d, m, After(k)) /\ Turned(v.table, d, m, V, W, k)
      BY <1>5
    <3>4. \A l : l = k + 1 => l \in 1..Turns /\ CallTrue(v, d, m, After(l - 1))
                             /\ Turned(v.table, d, m, V, W, l - 1) /\ u \in processTime(v, d, m, l)
      BY <2>1, <3>2, <3>3
    <3>5. m \in MessageType
      BY DEF TaskType
    <3>6. \A l : l = k + 1 => CallTrue(u, d, m, After(l))
      BY <3>4, TurnTrue
    <3>7. \A l : l = k + 1 => Turned(u.table, d, m, V, W, l)
      BY <3>4, <3>5, TurnOnce
    <3>. QED  BY <3>6, <3>7
  <2>. QED  BY <2>1, <2>2
<1>6. Turns \in S
  <2>. HIDE DEF S
  <2>. QED  BY <1>1, <1>4, <1>5, NatInd
<1>. QED  BY <1>3, <1>6

\* The table of a new neighbour.
LEMMA EmptyOnce ==
  /\ ListsOnce(EmptyTable) /\ BuffersOnce(EmptyTable) /\ SeqAt(EmptyList, 1) = 0
  /\ \A W, d : Window(W) => Fits(EmptyList, W, d)
<1>1. EmptyList \in ListType
  BY EmptyTrue DEF TableType, EmptyTable
<1>2. \A i \in Rows : EmptyList.row[i] = NullRow
  BY DEF EmptyList
<1>3. \A k \in 1..RANGING_LIST_SIZE : SeqAt(EmptyList, k) = 0
  <2>1. \A k \in 1..RANGING_LIST_SIZE : At(EmptyList.top, k) \in Rows
    BY <1>1, AtSlot DEF ListType
  <2>. QED  BY <1>2, <2>1 DEF SeqAt, NullRow, NULL_SEQ
<1>4. Listed(EmptyList) = {}
  BY <1>2 DEF Listed, NullRow
<1>5. Descends(EmptyList)
  BY <1>3 DEF Descends, NULL_SEQ
<1>6. ListsOnce(EmptyTable)
  BY <1>2, <1>4, <1>5 DEF ListsOnce, EmptyTable, NullRow
<1>7. Held(EmptyRing) = {}
  BY EmptyHeld
<1>8. /\ EmptyBuffer[SENDER] = EmptyRing /\ EmptyBuffer[RECEIVER] = EmptyRing
  BY DEF EmptyBuffer, SENDER, RECEIVER
<1>9. \A h : MadeOnce(EmptyRing, h) /\ Made(EmptyRing, h) = {}
  BY <1>7 DEF MadeOnce, Made
<1>10. BuffersOnce(EmptyTable)
  BY <1>8, <1>9 DEF BuffersOnce, EmptyTable
<1>11. ASSUME NEW W, NEW d, Window(W)
       PROVE  Fits(EmptyList, W, d)
  <2>1. \A y \in W : ~(y <= SeqAt(EmptyList, 1))
    BY <1>3, <1>11, RowsSize DEF Window
  <2>. QED  BY <1>4, <2>1 DEF Fits, Covers
<1>. QED  BY <1>3, <1>6, <1>10, <1>11, RowsSize

\* A whole call.
LEMMA CallOnce ==
  ASSUME IInv, NEW d \in Drones, inbox[d] # <<>>, NEW task, task = inbox[d][1],
         NEW m, m = task.message, NEW i, NEW old, Before(tableSet[d], i, m.srcAddress, old),
         NEW s \in processed(d, m, task.RxTimestamp, old),
         ListsOnce(old), BuffersOnce(old), NEW W, Window(W), Precedes(m, d, W),
         Fits(old.sendList, W, d),
         unitsFor(m, d) # {} => Fits(old.sendList, Reported(unitFor(m, d)), d)
  PROVE  /\ ListsOnce(s.table) /\ BuffersOnce(s.table) /\ Fits(s.table.sendList, W, d)
         /\ MovedOn(LastOf(old.receiveList, MESSAGE_BODY_RX_SIZE),
                    LastOf(s.table.receiveList, MESSAGE_BODY_RX_SIZE))
<1>. PICK start, n, rx, t :
       /\ start = CallStart(d, m, task.RxTimestamp, old) /\ n = m.msgSequence
       /\ rx = task.RxTimestamp /\ t = Started(old, n, rx)
  OBVIOUS
<1>1. /\ CallTrue(start, d, m, 0) /\ task \in TaskType /\ TaskTrue(task, d)
      /\ old \in TableType /\ n \in Nat \ {0} /\ rx \in Nat
      /\ \/ old = EmptyTable
         \/ old.receiveList.top \in Rows /\ Newest(old.receiveList) < n
  BY CallBegins
<1>2. SeqAt(old.receiveList, 1) < n
  <2>1. CASE old = EmptyTable
    BY <1>1, <2>1, EmptyOnce DEF EmptyTable
  <2>2. CASE old.receiveList.top \in Rows /\ Newest(old.receiveList) < n
    <3>1. \A top \in Rows : At(top, 1) = top
      BY AtRow, RowsSize
    <3>. QED  BY <2>2, <3>1 DEF SeqAt, Newest
  <2>. QED  BY <1>1, <2>1, <2>2
<1>3. /\ ListsOnce(t) /\ BuffersOnce(t) /\ t.sendList = old.sendList
      /\ MovedOn(LastOf(old.receiveList, MESSAGE_BODY_RX_SIZE),
                 LastOf(t.receiveList, MESSAGE_BODY_RX_SIZE))
  BY <1>1, <1>2, StartOnce
<1>. PICK V : V = LastOf(t.receiveList, MESSAGE_BODY_RX_SIZE)
  OBVIOUS
<1>4. start.table = t /\ s \in turns(start, d, m)[Turns]
  BY DEF processed, CallStart, Started
<1>5. Turned(start.table, d, m, V, W, 0)
  <2>1. ~(0 >= MESSAGE_HEAD_TX_SIZE)
    BY Sizes
  <2>. QED  BY <1>3, <1>4, <2>1 DEF Turned
<1>6. TypeOK /\ Histories /\ LocalBuffers
  BY DEF IInv
<1>7. Turned(s.table, d, m, V, W, Turns)
  BY <1>1, <1>4, <1>5, <1>6, TurnsOnce
<1>. QED  BY <1>3, <1>7 DEF Turned
-----------------------------------------------------------------------------
(* The messages and tables of all drones.                                  *)

\* The body units of m for d.
UnitsOf(m, d) == {m.bodyUnits[k] : k \in unitsFor(m, d)}

\* The messages of e not yet processed by d, or lost.
Pending(e, d) ==
  {outgoing[e][j] : j \in 1..Len(outgoing[e])}
  \cup {link[<<e, d>>][j] : j \in 1..Len(link[<<e, d>>])}
  \cup {inbox[d][j].message : j \in {j \in 1..Len(inbox[d]) : From(d, j) = e}}

\* What e will report to d next, with its tables in set.
HeardIn(set, d) == UNION {LastOf(set.table[i].receiveList, MESSAGE_BODY_RX_SIZE) :
                            i \in {i \in 1..Len(set.address) : set.address[i] = d}}
Heard(e, d) == HeardIn(tableSet[e], d)

\* Of two reports the later one moves on from the earlier, and what will be
\* reported next from both.
ReportsOnce == \A e \in Drones : \A d \in Drones \ {e} : \A m \in Pending(e, d) :
  \A unit \in UnitsOf(m, d) :
    /\ UnitDescends(unit) /\ MovedOn(Reported(unit), Heard(e, d))
    /\ \A n \in Pending(e, d) : m.msgSequence < n.msgSequence =>
         \A later \in UnitsOf(n, d) : MovedOn(Reported(unit), Reported(later))

\* The send list has what they report of the past.
FitsAll(list, d, e) ==
  /\ Fits(list, Heard(e, d), d)
  /\ \A m \in Pending(e, d) : \A unit \in UnitsOf(m, d) : Fits(list, Reported(unit), d)

TablesOnce == \A d \in Drones : \A i \in 1..Len(tableSet[d].address) :
  LET t == tableSet[d].table[i]
  IN  ListsOnce(t) /\ BuffersOnce(t) /\ FitsAll(t.sendList, d, tableSet[d].address[i])

OnceInv == ReportsOnce /\ TablesOnce

\* What has its order on the way.
LEMMA PendingFacts ==
  ASSUME TypeOK, Histories, Messages, NEW e \in Drones, NEW d \in Drones, e # d,
         NEW m \in Pending(e, d)
  PROVE  /\ m \in MessageType /\ MessageTrue(m) /\ m.srcAddress = e /\ m.msgSequence \in Nat
         /\ outgoing[e] = <<>> => m.msgSequence <= Len(sentAt[e])
<1>0. <<e, d>> \in Links /\ Len(sentAt[e]) \in Nat /\ Len(heardAt[<<e, d>>]) \in Nat
  BY LengthsAre DEF Links
<1>1. CASE m \in {outgoing[e][j] : j \in 1..Len(outgoing[e])}
  <2>1. PICK j \in 1..Len(outgoing[e]) : m = outgoing[e][j]
    BY <1>1
  <2>2. outgoing[e] \in Seq(MessageType)
    BY DEF TypeOK
  <2>3. m \in MessageType /\ outgoing[e] # <<>>
    BY <2>1, <2>2
  <2>4. MessageTrue(m) /\ m.srcAddress = e
    BY <2>1 DEF Messages
  <2>. QED  BY <2>3, <2>4 DEF MessageType
<1>2. CASE m \in {link[<<e, d>>][j] : j \in 1..Len(link[<<e, d>>])}
  <2>1. PICK q : q = link[<<e, d>>]
    OBVIOUS
  <2>2. PICK j \in 1..Len(q) : m = q[j]
    BY <1>2, <2>1
  <2>3. q \in Seq(MessageType)
    BY <1>0, <2>1 DEF TypeOK
  <2>4. m \in MessageType /\ Len(q) \in Nat /\ j \in Nat
    BY <2>2, <2>3
  <2>5. MessageTrue(m) /\ m.srcAddress = e /\ m.msgSequence = Len(heardAt[<<e, d>>]) + j
    <3>1. \A l \in Links : \A k \in 1..Len(link[l]) : \A n : n = link[l][k] =>
            MessageTrue(n) /\ n.srcAddress = l[1] /\ n.msgSequence = Len(heardAt[l]) + k
      BY DEF Messages
    <3>. QED  BY <1>0, <2>1, <2>2, <3>1
  <2>6. Len(heardAt[<<e, d>>]) + Len(q) = Len(sentAt[e])
    BY <1>0, <2>1 DEF Histories
  <2>7. PICK a, b, c \in Nat : a = Len(heardAt[<<e, d>>]) /\ b = Len(q) /\ c = Len(sentAt[e])
    BY <1>0, <2>4
  <2>8. a + j <= c
    BY <2>2, <2>4, <2>6, <2>7
  <2>. QED  BY <2>4, <2>5, <2>7, <2>8 DEF MessageType
<1>3. CASE m \in {inbox[d][j].message : j \in {j \in 1..Len(inbox[d]) : From(d, j) = e}}
  <2>1. PICK j \in 1..Len(inbox[d]) : m = inbox[d][j].message /\ From(d, j) = e
    BY <1>3
  <2>2. PICK task : task = inbox[d][j]
    OBVIOUS
  <2>3. task \in TaskType /\ TaskTrue(task, d) /\ m = task.message /\ m.srcAddress = e
    BY <2>1, <2>2, TaskFacts DEF From
  <2>4. m \in MessageType /\ MessageTrue(m) /\ Arrived(<<e, d>>, m.msgSequence)
    BY <2>3 DEF TaskTrue, TaskType
  <2>5. m.msgSequence \in 1..Len(sentAt[e])
    BY <2>4, HeardWereSent DEF Arrived
  <2>. QED  BY <1>0, <2>3, <2>4, <2>5
<1>. QED  BY <1>1, <1>2, <1>3 DEF Pending

\* What a body unit of a true message reports was sent.
LEMMA UnitFacts ==
  ASSUME TypeOK, Histories, NEW e \in Drones, NEW d \in Drones, e # d,
         NEW m \in MessageType, MessageTrue(m), m.srcAddress = e, NEW unit \in UnitsOf(m, d)
  PROVE  /\ unit.dest = d
         /\ \A k \in 1..MESSAGE_BODY_RX_SIZE :
              /\ unit.Rx[k].seqNumber \in Nat /\ unit.Rx[k].timestamp \in Nat
              /\ unit.Rx[k].seqNumber # NULL_SEQ => unit.Rx[k].seqNumber \in 1..Len(sentAt[d])
         /\ UnitDescends(unit) => GoodUnit(unit, d)
<1>1. PICK u \in 1..Len(m.bodyUnits) : unit = m.bodyUnits[u] /\ unit.dest = d
  <2>1. m.bodyUnits \in Seq([dest : Drones, Rx : [1..MESSAGE_BODY_RX_SIZE -> TimeType]])
    BY DEF MessageType
  <2>2. DOMAIN m.bodyUnits = 1..Len(m.bodyUnits)
    BY <2>1
  <2>. QED  BY <2>2 DEF UnitsOf, unitsFor
<1>2. \A k \in 1..MESSAGE_BODY_RX_SIZE : unit.Rx[k].seqNumber \in Nat /\ unit.Rx[k].timestamp \in Nat
  BY <1>1, MessageUnits
<1>3. UnitTrue(unit, e)
  BY <1>1 DEF MessageTrue
<1>4. ASSUME NEW k \in 1..MESSAGE_BODY_RX_SIZE, unit.Rx[k].seqNumber # NULL_SEQ
      PROVE  unit.Rx[k].seqNumber \in 1..Len(sentAt[d])
  <2>1. unit.Rx[k].seqNumber \in 1..Len(heardAt[<<d, e>>])
    BY <1>1, <1>3, <1>4 DEF UnitTrue, Arrived
  <2>. QED  BY <2>1, HeardWereSent
<1>. QED  BY <1>1, <1>2, <1>4 DEF GoodUnit

\* The unit processed is one for d.
LEMMA UnitForIn ==
  ASSUME NEW m \in MessageType, NEW d, unitsFor(m, d) # {}
  PROVE  unitFor(m, d) \in UnitsOf(m, d)
<1>. DEFINE x == CHOOSE k \in unitsFor(m, d) : \A n \in unitsFor(m, d) : k <= n
<1>1. unitsFor(m, d) \in SUBSET Nat
  <2>1. m.bodyUnits \in Seq([dest : Drones, Rx : [1..MESSAGE_BODY_RX_SIZE -> TimeType]])
    BY DEF MessageType
  <2>. QED  BY <2>1 DEF unitsFor
<1>2. \E k \in unitsFor(m, d) : \A n \in unitsFor(m, d) : k <= n
  BY <1>1, Least
<1>3. x \in unitsFor(m, d)
  BY <1>2
<1>4. unitFor(m, d) = m.bodyUnits[x]
  BY DEF unitFor
<1>. HIDE DEF x
<1>. QED  BY <1>3, <1>4 DEF UnitsOf

\* There is one table of each neighbour.
LEMMA HeardInIs ==
  ASSUME NEW e, NEW set, SetOK(set, e), NEW d
  PROVE  /\ \A i \in 1..Len(set.address) : set.address[i] = d =>
              HeardIn(set, d) = LastOf(set.table[i].receiveList, MESSAGE_BODY_RX_SIZE)
         /\ (\A i \in 1..Len(set.address) : set.address[i] # d) => HeardIn(set, d) = {}
         /\ Window(HeardIn(set, d))
<1>. DEFINE I == {i \in 1..Len(set.address) : set.address[i] = d}
            L(i) == LastOf(set.table[i].receiveList, MESSAGE_BODY_RX_SIZE)
<1>1. HeardIn(set, d) = UNION {L(i) : i \in I}
  BY DEF HeardIn
<1>2. \A i, j \in I : i = j
  BY DEF SetOK, Distinct
<1>3. ASSUME NEW i \in I
      PROVE  Window(L(i))
  <2>1. PICK list : list = set.table[i].receiveList
    OBVIOUS
  <2>2. list \in ListType
    <3>1. set.table \in Seq(TableType) /\ Len(set.table) = Len(set.address)
      BY DEF SetOK, SetType
    <3>2. set.table[i] \in TableType
      BY <3>1
    <3>. QED  BY <2>1, <3>2 DEF TableType
  <2>3. \A k \in 1..MESSAGE_BODY_RX_SIZE : SeqAt(list, k) \in Nat
    BY <2>2, SeqAtNat, Sizes
  <2>. DEFINE W == LastOf(list, MESSAGE_BODY_RX_SIZE)
              w == [k \in 1..MESSAGE_BODY_RX_SIZE |-> SeqAt(list, k)]
  <2>4. W \in SUBSET {w[k] : k \in 1..MESSAGE_BODY_RX_SIZE} /\ W \in SUBSET (Nat \ {0})
    BY <2>3 DEF LastOf, NULL_SEQ
  <2>. HIDE DEF w, W
  <2>5. Window(W)
    BY <2>4 DEF Window
  <2>. QED  BY <2>1, <2>5 DEF W
<1>. HIDE DEF L
<1>4. \A i \in I : HeardIn(set, d) = L(i)
  BY <1>1, <1>2
<1>5. I = {} => HeardIn(set, d) = {}
  BY <1>1
<1>6. Window({})
  BY DEF Window
<1>7. Window(HeardIn(set, d))
  <2>. HIDE DEF I
  <2>. QED  BY <1>3, <1>4, <1>5, <1>6
<1>. QED  BY <1>4, <1>5, <1>7 DEF L

\* For the tables of a state.
LEMMA HeardIs ==
  ASSUME TypeOK, TableSets, NEW e \in Drones, NEW d
  PROVE  /\ \A i \in 1..Len(tableSet[e].address) : tableSet[e].address[i] = d =>
              Heard(e, d) = LastOf(tableSet[e].table[i].receiveList, MESSAGE_BODY_RX_SIZE)
         /\ (\A i \in 1..Len(tableSet[e].address) : tableSet[e].address[i] # d) => Heard(e, d) = {}
         /\ Window(Heard(e, d))
<1>1. SetOK(tableSet[e], e)
  BY SetsOK
<1>. QED  BY <1>1, HeardInIs DEF Heard

\* Only messages of d are gone, and only by what d sends.
Grows == \A d \in Drones : Len(sentAt[d]) <= Len(sentAt'[d])

\* A list goes on to fit windows that move on.
LEMMA StillFits ==
  ASSUME TypeOK, TypeOK', Grows, NEW d \in Drones, NEW list \in ListType, Descends(list),
         NEW V, NEW W, Window(V), Window(W), Fits(list, V, d), MovedOn(V, W)
  PROVE  Fits(list, W, d) /\ Fits(list, W, d)'
<1>1. /\ V \in SUBSET Nat /\ W \in SUBSET Nat /\ Listed(list) \in SUBSET Nat
      /\ \A w \in W : w \in Nat \ {0}
  BY SeqAtNat DEF Window
<1>2. Covers(Listed(list), W)
  BY <1>1, CoversAgain DEF Fits
<1>3. ASSUME NEW y \in W, y <= SeqAt(list, 1)
      PROVE  y \in Listed(list) \/ Gone(d, y)
  <2>1. CASE y \in V
    BY <1>3, <2>1 DEF Fits
  <2>2. CASE y \notin V
    <3>1. PICK x : x = SeqAt(list, 1)
      OBVIOUS
    <3>2. x \in Nat /\ x # 0 /\ 1 \in 1..RANGING_LIST_SIZE
      BY <1>1, <1>3, <3>1, SeqAtNat
    <3>3. x \in Listed(list)
      BY <3>1, <3>2, SeqListed DEF NULL_SEQ
    <3>4. PICK v \in V : x <= v
      BY <3>3 DEF Fits, Covers
    <3>5. v < y
      BY <2>2 DEF MovedOn
    <3>. QED  BY <1>1, <1>3, <3>1, <3>2, <3>4, <3>5
  <2>. QED  BY <2>1, <2>2
<1>4. \A y \in W : Gone(d, y) => Gone(d, y)'
  <2>1. \A y \in W : y \in Nat
    BY <1>1
  <2>2. Len(sentAt[d]) \in Nat /\ Len(sentAt'[d]) \in Nat /\ Len(sentAt[d]) <= Len(sentAt'[d])
    BY LengthsAre, NewLengthsAre DEF Grows
  <2>3. RANGING_LIST_SIZE \in Nat
    BY Sizes
  <2>. QED  BY <2>1, <2>2, <2>3 DEF Gone
<1>. QED  BY <1>2, <1>3, <1>4 DEF Fits

\* What the invariant says of a unit under way.
LEMMA Reports ==
  ASSUME IInv, ReportsOnce, NEW e \in Drones, NEW d \in Drones, e # d,
         NEW m \in Pending(e, d), NEW unit \in UnitsOf(m, d)
  PROVE  /\ GoodUnit(unit, d) /\ Window(Reported(unit)) /\ UnitDescends(unit)
         /\ MovedOn(Reported(unit), Heard(e, d)) /\ MovedOn(Reported(unit), Reported(unit))
<1>1. TypeOK /\ Histories /\ Messages
  BY DEF IInv
<1>2. m \in MessageType /\ MessageTrue(m) /\ m.srcAddress = e
  BY <1>1, PendingFacts
<1>3. UnitDescends(unit) /\ MovedOn(Reported(unit), Heard(e, d))
  BY DEF ReportsOnce
<1>4. GoodUnit(unit, d)
  BY <1>1, <1>2, <1>3, UnitFacts
<1>5. Window(Reported(unit))
  BY <1>4, UnitWindow
<1>6. MovedOn(Reported(unit), Reported(unit))
  BY <1>5, MovedOnSelf DEF Window
<1>. QED  BY <1>3, <1>4, <1>5, <1>6

\* A step that changes no table and makes no message.
LEMMA StillOnce ==
  ASSUME IInv, TypeOK', Grows, tableSet' = tableSet, OnceInv,
         \A e \in Drones : \A d \in Drones \ {e} : Pending(e, d)' \in SUBSET Pending(e, d)
  PROVE  OnceInv'
<1>1. TypeOK /\ TableSets /\ TablesTrue /\ ReportsOnce /\ TablesOnce
  BY DEF IInv, OnceInv
<1>2. \A e, d : Heard(e, d)' = Heard(e, d)
  BY DEF Heard
<1>3. ReportsOnce'
  <2>1. ASSUME NEW e \in Drones, NEW d \in Drones \ {e}, NEW m \in Pending(e, d)',
               NEW unit \in UnitsOf(m, d)
        PROVE  /\ UnitDescends(unit) /\ MovedOn(Reported(unit), Heard(e, d))
               /\ \A n \in Pending(e, d)' : m.msgSequence < n.msgSequence =>
                    \A later \in UnitsOf(n, d) : MovedOn(Reported(unit), Reported(later))
    <3>1. m \in Pending(e, d) /\ \A n \in Pending(e, d)' : n \in Pending(e, d)
      BY <2>1
    <3>. QED  BY <1>1, <3>1 DEF ReportsOnce
  <2>. QED  BY <1>2, <2>1 DEF ReportsOnce
<1>4. ASSUME NEW d \in Drones, NEW i \in 1..Len(tableSet[d].address),
             NEW t, t = tableSet[d].table[i], NEW e, e = tableSet[d].address[i]
      PROVE  ListsOnce(t) /\ BuffersOnce(t) /\ FitsAll(t.sendList, d, e)'
  <2>1. t \in TableType /\ e \in Drones /\ e # d
    BY <1>1, <1>4, TableFacts
  <2>2. ListsOnce(t) /\ BuffersOnce(t) /\ FitsAll(t.sendList, d, e)
    BY <1>1, <1>4 DEF TablesOnce
  <2>. PICK list : list = t.sendList
    OBVIOUS
  <2>3. list \in ListType /\ Descends(list) /\ FitsAll(list, d, e)
    BY <2>1, <2>2 DEF TableType, ListsOnce
  <2>4. ASSUME NEW W, Window(W), Fits(list, W, d)
        PROVE  Fits(list, W, d)'
    <3>1. MovedOn(W, W)
      BY <2>4, MovedOnSelf DEF Window
    <3>. QED  BY <1>1, <2>3, <2>4, <3>1, StillFits
  <2>5. Fits(list, Heard(e, d), d)'
    <3>1. PICK W : W = Heard(e, d)
      OBVIOUS
    <3>2. Window(W) /\ Fits(list, W, d)
      BY <1>1, <2>1, <2>3, <3>1, HeardIs DEF FitsAll
    <3>3. Fits(list, W, d)'
      BY <2>4, <3>2
    <3>4. Heard(e, d)' = W
      BY <1>2, <3>1
    <3>. QED  BY <3>3, <3>4
  <2>6. ASSUME NEW m \in Pending(e, d)', NEW unit \in UnitsOf(m, d)
        PROVE  Fits(list, Reported(unit), d)'
    <3>1. m \in Pending(e, d)
      BY <2>1, <2>6
    <3>2. Window(Reported(unit)) /\ Fits(list, Reported(unit), d)
      BY <1>1, <2>1, <2>3, <3>1, Reports DEF FitsAll
    <3>. QED  BY <2>4, <3>2
  <2>7. FitsAll(list, d, e)'
    BY <2>5, <2>6 DEF FitsAll
  <2>. QED  BY <2>2, <2>7
<1>5. TablesOnce'
  <2>1. \A d \in Drones : \A i \in 1..Len(tableSet[d].address) :
          /\ ListsOnce(tableSet[d].table[i]) /\ BuffersOnce(tableSet[d].table[i])
          /\ \A list, e : list = tableSet[d].table[i].sendList /\ e = tableSet[d].address[i] =>
                          FitsAll(list, d, e)'
    BY <1>4
  <2>. QED  BY <2>1 DEF TablesOnce
<1>. QED  BY <1>3, <1>5 DEF OnceInv

\* Histories only grow.
LEMMA StepGrows ==
  ASSUME TypeOK, [Next]_vars
  PROVE  Grows
<1>1. ASSUME sentAt' = sentAt  PROVE Grows
  BY <1>1, LengthsAre DEF Grows
<1>2. ASSUME NEW x \in Drones, Send(x)  PROVE Grows
  <2>1. ASSUME NEW d \in Drones  PROVE Len(sentAt[d]) <= Len(sentAt'[d])
    <3>1. PICK q, t : q = sentAt[d] /\ t = clock'[x]
      OBVIOUS
    <3>2. q \in Seq(Nat) /\ Len(q) \in Nat /\ Len(Append(q, t)) = Len(q) + 1
      BY <3>1, LengthsAre
    <3>3. sentAt'[d] = q \/ sentAt'[d] = Append(q, t)
      BY <1>2, <3>1 DEF Send, TypeOK
    <3>. QED  BY <3>1, <3>2, <3>3
  <2>. QED  BY <2>1 DEF Grows
<1>3. sentAt' = sentAt \/ \E x \in Drones : Send(x)
  BY DEF Next, Finished, vars, Generate, Process, Receive, Lose
<1>. QED  BY <1>1, <1>2, <1>3

\* Messages on their way are those of before, but for the one Generate makes.
LEMMA SendPending ==
  ASSUME IInv, NEW x \in Drones, Send(x), NEW e \in Drones, NEW d \in Drones, e # d
  PROVE  Pending(e, d)' \in SUBSET Pending(e, d)
<1>1. TypeOK
  BY DEF IInv
<1>2. SUFFICES ASSUME NEW m \in Pending(e, d)'  PROVE m \in Pending(e, d)
  OBVIOUS
<1>. PICK out, q : out = outgoing[e] /\ q = link[<<e, d>>]
  OBVIOUS
<1>3. /\ <<e, d>> \in Links /\ q \in Seq(MessageType) /\ out \in Seq(MessageType)
      /\ inbox' = inbox /\ outgoing'[e] = (IF e = x THEN <<>> ELSE out)
      /\ link'[<<e, d>>] = IF e = x THEN q \o out ELSE q
  BY <1>1 DEF TypeOK, Send, Links
<1>4. CASE m \in {outgoing'[e][j] : j \in 1..Len(outgoing'[e])}
  <2>1. e # x
    BY <1>3, <1>4
  <2>. QED  BY <1>3, <1>4, <2>1 DEF Pending
<1>5. CASE m \in {link'[<<e, d>>][j] : j \in 1..Len(link'[<<e, d>>])}
  <2>1. PICK p : p = link'[<<e, d>>]
    OBVIOUS
  <2>2. PICK j \in 1..Len(p) : m = p[j]
    BY <1>5, <2>1
  <2>3. CASE e # x
    BY <1>3, <2>1, <2>2, <2>3 DEF Pending
  <2>4. CASE e = x
    <3>1. out # <<>> /\ Len(out) <= 1
      BY <1>1, <2>4 DEF TypeOK, Send
    <3>2. Len(out) = 1 /\ out = <<out[1]>> /\ out[1] \in MessageType
      BY <1>3, <3>1, SeqOne
    <3>3. p = q \o <<out[1]>>
      BY <1>3, <2>1, <2>4, <3>2
    <3>4. (\E k \in 1..Len(q) : m = q[k]) \/ m = out[1]
      BY <1>3, <2>2, <3>2, <3>3
    <3>5. 1 \in 1..Len(out)
      BY <3>2
    <3>6. m \in {out[k] : k \in 1..Len(out)} \/ m \in {q[k] : k \in 1..Len(q)}
      BY <3>4, <3>5
    <3>. QED  BY <3>6 DEF Pending
  <2>. QED  BY <2>3, <2>4
<1>6. CASE m \in {inbox'[d][j].message : j \in {j \in 1..Len(inbox'[d]) : From(d, j)' = e}}
  BY <1>3, <1>6 DEF Pending, From
<1>. QED  BY <1>2, <1>4, <1>5, <1>6 DEF Pending

\* receive_from_center leaves them under way,
LEMMA ReceivePending ==
  ASSUME IInv, NEW l \in Links, Receive(l), NEW e \in Drones, NEW d \in Drones, e # d
  PROVE  Pending(e, d)' \in SUBSET Pending(e, d)
<1>1. TypeOK /\ Messages
  BY DEF IInv
<1>2. SUFFICES ASSUME NEW m \in Pending(e, d)'  PROVE m \in Pending(e, d)
  OBVIOUS
<1>. PICK q, p, k, task :
       /\ q = link[<<e, d>>] /\ p = inbox[d] /\ k = link[l]
       /\ task = [message |-> Head(k), RxTimestamp |-> clock'[l[2]]]
  OBVIOUS
<1>3. /\ <<e, d>> \in Links /\ q \in Seq(MessageType) /\ p \in Seq(TaskType)
      /\ outgoing' = outgoing /\ link'[<<e, d>>] = (IF l = <<e, d>> THEN Tail(q) ELSE q)
      /\ inbox'[d] = (IF l[2] = d THEN Append(p, task) ELSE p)
  BY <1>1, LinkEnds DEF TypeOK, Receive, Links
<1>4. k # <<>> /\ k \in Seq(MessageType)
  BY <1>1 DEF TypeOK, Receive
<1>5. Head(k) = k[1] /\ 1 \in 1..Len(k) /\ Head(k).srcAddress = l[1]
  <2>1. Head(k) = k[1] /\ 1 \in 1..Len(k)
    BY <1>4
  <2>. QED  BY <1>1, <2>1 DEF Messages
<1>6. CASE m \in {outgoing'[e][j] : j \in 1..Len(outgoing'[e])}
  BY <1>3, <1>6 DEF Pending
<1>7. CASE m \in {link'[<<e, d>>][j] : j \in 1..Len(link'[<<e, d>>])}
  <2>1. CASE l = <<e, d>>
    <3>1. q = k
      BY <2>1
    <3>2. \A j \in 1..Len(Tail(q)) : j + 1 \in 1..Len(q) /\ Tail(q)[j] = q[j + 1]
      BY <1>3, <1>4, <3>1, Removed
    <3>3. \E j \in 1..Len(q) : m = q[j]
      BY <1>3, <1>7, <2>1, <3>2, SMTT(40)
    <3>. QED  BY <3>3 DEF Pending
  <2>2. CASE l # <<e, d>>
    BY <1>3, <1>7, <2>2 DEF Pending
  <2>. QED  BY <2>1, <2>2
<1>8. CASE m \in {inbox'[d][j].message : j \in {j \in 1..Len(inbox'[d]) : From(d, j)' = e}}
  <2>1. PICK r : r = inbox'[d]
    OBVIOUS
  <2>2. PICK j \in 1..Len(r) : m = r[j].message /\ m.srcAddress = e
    BY <1>8, <2>1 DEF From
  <2>3. \/ j \in 1..Len(p) /\ r[j] = p[j]
        \/ l[2] = d /\ r[j] = task
    <3>1. CASE l[2] = d
      <4>1. r = Append(p, task) /\ Len(p) \in Nat
        BY <1>3, <2>1, <3>1
      <4>. QED  BY <1>3, <2>2, <3>1, <4>1
    <3>2. CASE l[2] # d
      BY <1>3, <2>1, <2>2, <3>2
    <3>. QED  BY <3>1, <3>2
  <2>4. CASE j \in 1..Len(p) /\ r[j] = p[j]
    BY <2>2, <2>4 DEF Pending, From
  <2>5. CASE l[2] = d /\ r[j] = task
    <3>1. m = Head(k)
      BY <2>2, <2>5
    <3>2. l = <<e, d>>
      BY <1>5, <2>2, <2>5, <3>1, LinkEnds
    <3>. QED  BY <1>5, <3>1, <3>2 DEF Pending
  <2>. QED  BY <2>3, <2>4, <2>5
<1>. QED  BY <1>2, <1>6, <1>7, <1>8 DEF Pending

\* and a message lost is under way no more.
LEMMA LosePending ==
  ASSUME IInv, NEW l \in Links, Lose(l), NEW e \in Drones, NEW d \in Drones, e # d
  PROVE  Pending(e, d)' \in SUBSET Pending(e, d)
<1>1. SUFFICES ASSUME NEW m \in Pending(e, d)'  PROVE m \in Pending(e, d)
  OBVIOUS
<1>. PICK q : q = link[<<e, d>>]
  OBVIOUS
<1>2. /\ <<e, d>> \in Links /\ q \in Seq(MessageType) /\ outgoing' = outgoing /\ inbox' = inbox
      /\ link'[<<e, d>>] = (IF l = <<e, d>> THEN Tail(q) ELSE q)
      /\ l = <<e, d>> => q # <<>>
  BY DEF IInv, TypeOK, Lose, Links
<1>3. ASSUME NEW j \in 1..Len(link'[<<e, d>>])
      PROVE  \E k \in 1..Len(q) : link'[<<e, d>>][j] = q[k]
  <2>1. CASE l = <<e, d>>
    BY <1>2, <2>1, Removed
  <2>2. CASE l # <<e, d>>
    BY <1>2, <2>2
  <2>. QED  BY <2>1, <2>2
<1>. QED  BY <1>1, <1>2, <1>3 DEF Pending, From

\* The body unit made for a neighbour reports what is heard of it.
LEMMA UnitReports ==
  ASSUME IInv, TablesOnce, NEW e \in Drones, NEW d \in Drones, NEW m,
         m = generateRangingMessage(e), NEW unit \in UnitsOf(m, d)
  PROVE  UnitDescends(unit) /\ Reported(unit) = Heard(e, d)
<1>. PICK set : set = tableSet[e]
  OBVIOUS
<1>. PICK s : s = served(set.queue, Len(set.address))
  OBVIOUS
<1>1. TypeOK /\ TableSets
  BY DEF IInv
<1>2. /\ set.table \in Seq(TableType) /\ Len(set.table) = Len(set.address)
      /\ Len(set.queue) = Len(set.address) /\ Len(set.address) \in Nat
      /\ \A j \in 1..Len(set.queue) : set.queue[j] \in 1..Len(set.address)
  <2>1. SetOK(set, e)
    BY <1>1, SetsOK
  <2>. QED  BY <2>1 DEF SetOK, SetType
<1>3. Len(s) \in Nat /\ Len(s) <= Len(set.address) /\ \A k \in 1..Len(s) : s[k] = set.queue[k]
  <2>. PICK c, q : c = Len(set.address) /\ q = set.queue
    OBVIOUS
  <2>. DEFINE x == IF c < MESSAGE_BODY_UNIT_SIZE THEN c ELSE MESSAGE_BODY_UNIT_SIZE
  <2>1. x \in Nat /\ x <= c
    BY <1>2, TableAssumption
  <2>2. s = [k \in 1..x |-> q[k]]
    BY DEF served
  <2>. HIDE DEF x
  <2>3. Len(s) = x
    BY <2>1, <2>2
  <2>. QED  BY <2>1, <2>2, <2>3
<1>4. m.bodyUnits = [k \in 1..Len(s) |-> bodyUnit(set.table[s[k]], set.address[s[k]])]
  BY DEF generateRangingMessage
<1>5. PICK k \in 1..Len(s) : unit = m.bodyUnits[k] /\ unit.dest = d
  <2>1. DOMAIN m.bodyUnits = 1..Len(s)
    BY <1>4
  <2>. QED  BY <2>1 DEF UnitsOf, unitsFor
<1>. PICK i : i = s[k]
  OBVIOUS
<1>6. i \in 1..Len(set.address) /\ unit = bodyUnit(set.table[i], set.address[i])
  <2>1. i \in 1..Len(set.address)
    BY <1>2, <1>3
  <2>2. m.bodyUnits[k] = bodyUnit(set.table[s[k]], set.address[s[k]])
    BY <1>4
  <2>. QED  BY <1>5, <2>1, <2>2
<1>. PICK list : list = set.table[i].receiveList
  OBVIOUS
<1>7. set.address[i] = d
  <2>1. bodyUnit(set.table[i], set.address[i]).dest = set.address[i]
    BY DEF bodyUnit
  <2>2. unit.dest = d /\ unit = bodyUnit(set.table[i], set.address[i])
    BY ONLY <1>5, <1>6
  <2>. QED  BY ONLY <2>1, <2>2
<1>8. Descends(list)
  <2>1. ListsOnce(set.table[i])
    BY <1>6 DEF TablesOnce
  <2>. QED  BY <2>1 DEF ListsOnce
<1>9. \A j \in 1..MESSAGE_BODY_RX_SIZE : unit.Rx[j].seqNumber = SeqAt(list, j)
  <2>. DEFINE Row(j) == list.row[At(list.top, j)]
  <2>1. unit.Rx = [j \in 1..MESSAGE_BODY_RX_SIZE |->
                     [seqNumber |-> Row(j).localSeq, timestamp |-> Row(j).rx]]
    BY <1>6 DEF bodyUnit, At
  <2>2. \A j : Row(j).localSeq = SeqAt(list, j)
    BY DEF SeqAt
  <2>. HIDE DEF Row
  <2>. QED  BY <2>1, <2>2
<1>10. Reported(unit) = LastOf(list, MESSAGE_BODY_RX_SIZE)
  BY <1>9 DEF Reported, LastOf
<1>11. UnitDescends(unit)
  <2>1. \A j \in 1..MESSAGE_BODY_RX_SIZE : j \in 1..RANGING_LIST_SIZE
    BY Sizes
  <2>. QED  BY <1>8, <1>9, <2>1 DEF UnitDescends, Descends
<1>12. Heard(e, d) = LastOf(list, MESSAGE_BODY_RX_SIZE)
  BY <1>1, <1>6, <1>7, HeardIs
<1>. QED  BY <1>10, <1>11, <1>12

\* QueueTaskTx
LEMMA GenerateOnce ==
  ASSUME IInv, OnceInv, TypeOK', NEW x \in Drones, Generate(x)
  PROVE  OnceInv'
<1>. PICK g : g = generateRangingMessage(x)
  OBVIOUS
<1>1. /\ TypeOK /\ Histories /\ LocalBuffers /\ Messages /\ TableSets /\ TablesTrue
      /\ ReportsOnce /\ TablesOnce
  BY DEF IInv, OnceInv
<1>2. /\ outgoing[x] = <<>> /\ outgoing' = [outgoing EXCEPT ![x] = <<g>>]
      /\ inbox' = inbox /\ link' = link /\ tableSet' = tableSet /\ sentAt' = sentAt
  BY DEF Generate, tables
<1>3. g.msgSequence = Len(sentAt[x]) + 1
  <2>1. Len(sentAt[x]) \in Nat /\ localSendSeqNumber[x] \in 1..MaxSeq + 1
    BY <1>1 DEF TypeOK
  <2>2. Len(sentAt[x]) + Len(outgoing[x]) = localSendSeqNumber[x] - 1 /\ Len(outgoing[x]) = 0
    BY <1>1, <1>2 DEF Histories
  <2>3. localSendSeqNumber[x] = Len(sentAt[x]) + 1
    BY <2>1, <2>2, RangingAssumption
  <2>. QED  BY <2>3 DEF generateRangingMessage
<1>4. \A e, d : Heard(e, d)' = Heard(e, d)
  BY <1>2 DEF Heard
<1>5. ASSUME NEW e \in Drones, NEW d \in Drones, e # d, NEW m \in Pending(e, d)'
      PROVE  m \in Pending(e, d) \/ (e = x /\ m = g)
  <2>1. outgoing'[e] = IF e = x THEN <<g>> ELSE outgoing[e]
    BY <1>1, <1>2 DEF TypeOK
  <2>2. CASE m \in {outgoing'[e][j] : j \in 1..Len(outgoing'[e])}
    <3>1. CASE e = x
      <4>1. \A j \in 1..Len(<<g>>) : <<g>>[j] = g
        OBVIOUS
      <4>. QED  BY <2>1, <2>2, <3>1, <4>1
    <3>2. CASE e # x
      <4>1. PICK p : p = outgoing'[e] /\ p = outgoing[e]
        BY <2>1, <3>2
      <4>2. PICK j \in 1..Len(p) : m = p[j]
        BY <2>2, <4>1
      <4>. QED  BY <4>1, <4>2 DEF Pending
    <3>. QED  BY <3>1, <3>2
  <2>3. CASE m \in {link'[<<e, d>>][j] : j \in 1..Len(link'[<<e, d>>])}
    <3>1. PICK p : p = link'[<<e, d>>] /\ p = link[<<e, d>>]
      BY <1>2
    <3>2. PICK j \in 1..Len(p) : m = p[j]
      BY <2>3, <3>1
    <3>. QED  BY <3>1, <3>2 DEF Pending
  <2>4. CASE m \in {inbox'[d][j].message : j \in {j \in 1..Len(inbox'[d]) : From(d, j)' = e}}
    <3>1. PICK p : p = inbox'[d] /\ p = inbox[d]
      BY <1>2
    <3>2. PICK j \in 1..Len(p) : m = p[j].message /\ p[j].message.srcAddress = e
      BY <2>4, <3>1 DEF From
    <3>. QED  BY <3>1, <3>2 DEF Pending, From
  <2>. QED  BY <1>5, <2>2, <2>3, <2>4 DEF Pending
<1>6. ASSUME NEW d \in Drones, x # d
      PROVE  /\ \A n \in Pending(x, d) : n.msgSequence \in Nat /\ n.msgSequence <= Len(sentAt[x])
             /\ \A unit \in UnitsOf(g, d) : UnitDescends(unit) /\ Reported(unit) = Heard(x, d)
  BY <1>1, <1>2, <1>6, PendingFacts, UnitReports
<1>7. ASSUME NEW e \in Drones, NEW d \in Drones \ {e}, NEW m \in Pending(e, d)',
             NEW unit \in UnitsOf(m, d)
      PROVE  /\ UnitDescends(unit) /\ MovedOn(Reported(unit), Heard(e, d))
             /\ \A n \in Pending(e, d)' : m.msgSequence < n.msgSequence =>
                  \A later \in UnitsOf(n, d) : MovedOn(Reported(unit), Reported(later))
  <2>1. Window(Heard(e, d)) /\ Len(sentAt[e]) \in Nat
    BY <1>1, HeardIs, LengthsAre
  <2>2. CASE m \in Pending(e, d)
    <3>1. /\ UnitDescends(unit) /\ MovedOn(Reported(unit), Heard(e, d))
          /\ \A n \in Pending(e, d) : m.msgSequence < n.msgSequence =>
               \A later \in UnitsOf(n, d) : MovedOn(Reported(unit), Reported(later))
      BY <1>1, <1>7, <2>2 DEF ReportsOnce
    <3>2. ASSUME NEW n \in Pending(e, d)', m.msgSequence < n.msgSequence, NEW later \in UnitsOf(n, d)
          PROVE  MovedOn(Reported(unit), Reported(later))
      <4>1. n \in Pending(e, d) \/ (e = x /\ n = g)
        BY <1>5, <3>2
      <4>. QED  BY <1>6, <3>1, <3>2, <4>1
    <3>. QED  BY <3>1, <3>2
  <2>3. CASE m \notin Pending(e, d)
    <3>1. e = x /\ m = g
      BY <1>5, <2>3
    <3>2. UnitDescends(unit) /\ Reported(unit) = Heard(e, d)
      BY <1>6, <1>7, <3>1
    <3>3. MovedOn(Heard(e, d), Heard(e, d))
      BY <2>1, MovedOnSelf DEF Window
    <3>4. \A n \in Pending(e, d)' : ~(m.msgSequence < n.msgSequence)
      <4>1. ASSUME NEW n \in Pending(e, d)'  PROVE ~(m.msgSequence < n.msgSequence)
        <5>1. n \in Pending(e, d) \/ n = g
          BY <1>5, <4>1
        <5>. QED  BY <1>3, <1>6, <2>1, <3>1, <5>1
      <4>. QED  BY <4>1
    <3>. QED  BY <3>2, <3>3, <3>4
  <2>. QED  BY <2>2, <2>3
<1>8. ReportsOnce'
  BY <1>4, <1>7 DEF ReportsOnce
<1>9. ASSUME NEW list, NEW W, NEW d, Fits(list, W, d)
      PROVE  Fits(list, W, d)'
  BY <1>2, <1>9 DEF Fits, Gone
<1>10. ASSUME NEW d \in Drones, NEW i \in 1..Len(tableSet[d].address),
              NEW t, t = tableSet[d].table[i], NEW e, e = tableSet[d].address[i]
       PROVE  ListsOnce(t) /\ BuffersOnce(t) /\ FitsAll(t.sendList, d, e)'
  <2>1. e \in Drones /\ e # d
    BY <1>1, <1>10, TableFacts
  <2>2. ListsOnce(t) /\ BuffersOnce(t) /\ FitsAll(t.sendList, d, e)
    BY <1>1, <1>10 DEF TablesOnce
  <2>. PICK list, W : list = t.sendList /\ W = Heard(e, d)
    OBVIOUS
  <2>3. Fits(list, Heard(e, d), d)'
    <3>1. Fits(list, W, d)'
      BY <1>9, <2>2 DEF FitsAll
    <3>2. Heard(e, d)' = W
      BY <1>4
    <3>. QED  BY <3>1, <3>2
  <2>4. ASSUME NEW m \in Pending(e, d)', NEW unit \in UnitsOf(m, d)
        PROVE  Fits(list, Reported(unit), d)'
    <3>1. Fits(list, Reported(unit), d)
      <4>1. m \in Pending(e, d) \/ (e = x /\ m = g)
        BY <1>5, <2>1, <2>4
      <4>. QED  BY <1>6, <2>1, <2>2, <2>4, <4>1 DEF FitsAll
    <3>. QED  BY <1>9, <3>1
  <2>5. FitsAll(list, d, e)'
    BY <2>3, <2>4 DEF FitsAll
  <2>. QED  BY <2>2, <2>5
<1>11. TablesOnce'
  <2>1. \A d \in Drones : \A i \in 1..Len(tableSet[d].address) :
          /\ ListsOnce(tableSet[d].table[i]) /\ BuffersOnce(tableSet[d].table[i])
          /\ \A list, e : list = tableSet[d].table[i].sendList /\ e = tableSet[d].address[i] =>
                          FitsAll(list, d, e)'
    BY <1>10
  <2>. QED  BY <1>2, <2>1 DEF TablesOnce
<1>. QED  BY <1>8, <1>11 DEF OnceInv

\* What a call changes of what d will report: only what it reports to e, which
\* moves on.
LEMMA ServedHeard ==
  ASSUME NEW d, NEW set, SetOK(set, d), NEW new, SetOK(new, d), NEW e, NEW i, Serves(set, new, i, e),
         NEW old, Before(set, i, e, old),
         MovedOn(LastOf(old.receiveList, MESSAGE_BODY_RX_SIZE),
                 LastOf(new.table[i].receiveList, MESSAGE_BODY_RX_SIZE))
  PROVE  /\ MovedOn(HeardIn(set, e), HeardIn(new, e))
         /\ \A b : b # e => HeardIn(new, b) = HeardIn(set, b)
<1>. PICK V, W : V = LastOf(old.receiveList, MESSAGE_BODY_RX_SIZE)
                 /\ W = LastOf(new.table[i].receiveList, MESSAGE_BODY_RX_SIZE)
  OBVIOUS
<1>1. i \in 1..Len(new.address) /\ new.address[i] = e
  BY DEF Serves
<1>2. HeardIn(new, e) = W
  BY <1>1, HeardInIs
<1>3. MovedOn(HeardIn(set, e), HeardIn(new, e))
  <2>1. CASE i \in 1..Len(set.address) /\ set.address[i] = e /\ old = set.table[i]
    <3>1. HeardIn(set, e) = V
      BY <2>1, HeardInIs
    <3>. QED  BY <1>2, <3>1
  <2>2. CASE \A k \in 1..Len(set.address) : set.address[k] # e
    <3>1. HeardIn(set, e) = {}
      BY <2>2, HeardInIs
    <3>. QED  BY <3>1 DEF MovedOn, Covers
  <2>. QED  BY <2>1, <2>2 DEF Before
<1>4. ASSUME NEW b, b # e
      PROVE  HeardIn(new, b) = HeardIn(set, b)
  <2>1. CASE \E k \in 1..Len(new.address) : new.address[k] = b
    <3>1. PICK k \in 1..Len(new.address) : new.address[k] = b
      BY <2>1
    <3>2. k # i
      BY <1>1, <1>4, <3>1
    <3>3. k \in 1..Len(set.address) /\ set.address[k] = b /\ new.table[k] = set.table[k]
      BY <3>1, <3>2 DEF Serves
    <3>4. PICK U : U = LastOf(new.table[k].receiveList, MESSAGE_BODY_RX_SIZE)
      OBVIOUS
    <3>5. HeardIn(new, b) = U
      BY <3>1, <3>4, HeardInIs
    <3>6. HeardIn(set, b) = U
      BY <3>3, <3>4, HeardInIs
    <3>. QED  BY <3>5, <3>6
  <2>2. CASE \A k \in 1..Len(new.address) : new.address[k] # b
    <3>1. \A k \in 1..Len(set.address) : set.address[k] # b
      BY <2>2 DEF Serves
    <3>. QED  BY <2>2, <3>1, HeardInIs
  <2>. QED  BY <2>1, <2>2
<1>. QED  BY <1>3, <1>4

\* The message processed is the first one under way.
LEMMA ProcessPending ==
  ASSUME IInv, NEW d \in Drones, Process(d), NEW m, m = inbox[d][1].message,
         NEW x, x = m.srcAddress
  PROVE  /\ x \in Drones /\ x # d /\ m \in MessageType /\ m \in Pending(x, d)
         /\ \A n \in Pending(x, d)' : m.msgSequence < n.msgSequence
         /\ \A e \in Drones : \A y \in Drones \ {e} : Pending(e, y)' \in SUBSET Pending(e, y)
<1>. PICK p : p = inbox[d]
  OBVIOUS
<1>1. TypeOK /\ Histories /\ Messages /\ InOrder
  BY DEF IInv
<1>2. /\ p # <<>> /\ p \in Seq(TaskType) /\ inbox'[d] = Tail(p) /\ 1 \in 1..Len(p)
      /\ \A y \in Drones \ {d} : inbox'[y] = inbox[y]
      /\ outgoing' = outgoing /\ link' = link
  <2>1. /\ p # <<>> /\ p \in Seq(TaskType) /\ inbox'[d] = Tail(p)
        /\ \A y \in Drones \ {d} : inbox'[y] = inbox[y]
        /\ outgoing' = outgoing /\ link' = link
    BY <1>1 DEF TypeOK, Process
  <2>. QED  BY <2>1
<1>3. \A i \in 1..Len(Tail(p)) : i + 1 \in 1..Len(p) /\ Tail(p)[i] = p[i + 1]
  BY <1>2, Removed
<1>4. /\ x \in Drones /\ x # d /\ m \in MessageType /\ <<x, d>> \in Links
      /\ m.msgSequence \in Nat /\ m.msgSequence <= Len(heardAt[<<x, d>>])
  <2>1. /\ From(d, 1) \in Drones /\ From(d, 1) # d /\ <<From(d, 1), d>> \in Links
        /\ Arrived(<<From(d, 1), d>>, Number(d, 1)) /\ inbox[d][1] \in TaskType
    BY <1>1, <1>2, TaskFacts
  <2>2. m \in MessageType
    BY <2>1 DEF TaskType
  <2>. QED  BY <2>1, <2>2 DEF From, Number, Arrived, MessageType
<1>5. m \in Pending(x, d)
  BY <1>2 DEF Pending, From
<1>6. \A e \in Drones : \A y \in Drones \ {e} : Pending(e, y)' \in SUBSET Pending(e, y)
  <2>1. SUFFICES ASSUME NEW e \in Drones, NEW y \in Drones \ {e}, NEW n \in Pending(e, y)'
                 PROVE  n \in Pending(e, y)
    OBVIOUS
  <2>2. CASE n \in {inbox'[y][j].message : j \in {j \in 1..Len(inbox'[y]) : From(y, j)' = e}}
    <3>1. PICK r : r = inbox'[y]
      OBVIOUS
    <3>2. PICK j \in 1..Len(r) : n = r[j].message /\ n.srcAddress = e
      BY <2>2, <3>1 DEF From
    <3>3. CASE y = d
      <4>1. j + 1 \in 1..Len(p) /\ n = p[j + 1].message
        BY <1>2, <1>3, <3>1, <3>2, <3>3
      <4>. QED  BY <3>2, <3>3, <4>1 DEF Pending, From
    <3>4. CASE y # d
      BY <1>2, <3>1, <3>2, <3>4 DEF Pending, From
    <3>. QED  BY <3>3, <3>4
  <2>3. CASE n \notin {inbox'[y][j].message : j \in {j \in 1..Len(inbox'[y]) : From(y, j)' = e}}
    BY <1>2, <2>1, <2>3 DEF Pending
  <2>. QED  BY <2>2, <2>3
<1>7. ASSUME NEW n \in Pending(x, d)'
      PROVE  m.msgSequence < n.msgSequence
  <2>. PICK h, c : h = Len(heardAt[<<x, d>>]) /\ c = Len(sentAt[x])
    OBVIOUS
  <2>. PICK v : v = m.msgSequence
    OBVIOUS
  <2>0. v \in Nat /\ v <= h
    BY <1>4
  <2>1. h \in Nat /\ c \in Nat /\ h <= c
    <3>1. PICK l \in Links : l = <<x, d>> /\ l[1] = x
      BY <1>4
    <3>2. PICK k : k = Len(link[l])
      OBVIOUS
    <3>3. h \in Nat /\ k \in Nat /\ c \in Nat /\ h + k = c
      BY <1>1, <3>1, <3>2, LinkSums
    <3>. QED  BY <3>3
  <2>2. CASE n \in {outgoing'[x][j] : j \in 1..Len(outgoing'[x])}
    <3>1. PICK q : q = outgoing[x]
      OBVIOUS
    <3>2. PICK j \in 1..Len(q) : n = q[j]
      BY <1>2, <2>2, <3>1
    <3>3. n.msgSequence = c + 1
      <4>1. \A y \in Drones : \A k \in 1..Len(outgoing[y]) : \A a : a = outgoing[y][k] =>
              a.msgSequence = Len(sentAt[y]) + 1
        BY <1>1 DEF Messages
      <4>2. \A k \in 1..Len(q) : \A a : a = q[k] => a.msgSequence = c + 1
        BY <1>4, <3>1, <4>1
      <4>. QED  BY <3>2, <4>2
    <3>4. v < c + 1
      BY ONLY <2>0, <2>1
    <3>. QED  BY <3>3, <3>4
  <2>3. CASE n \in {link'[<<x, d>>][j] : j \in 1..Len(link'[<<x, d>>])}
    <3>1. PICK q : q = link[<<x, d>>]
      OBVIOUS
    <3>2. PICK j \in 1..Len(q) : n = q[j]
      BY <1>2, <2>3, <3>1
    <3>3. j \in Nat /\ j >= 1
      BY <1>1, <1>4, <3>1, LinkSums
    <3>4. n.msgSequence = h + j
      <4>1. \A l \in Links : \A k \in 1..Len(link[l]) : \A a : a = link[l][k] =>
              a.msgSequence = Len(heardAt[l]) + k
        BY <1>1 DEF Messages
      <4>. QED  BY <1>4, <3>1, <3>2, <4>1
    <3>5. v < h + j
      BY ONLY <2>0, <2>1, <3>3
    <3>. QED  BY <3>4, <3>5
  <2>4. CASE n \in {inbox'[d][j].message : j \in {j \in 1..Len(inbox'[d]) : From(d, j)' = x}}
    <3>1. PICK r : r = inbox'[d]
      OBVIOUS
    <3>2. PICK j \in 1..Len(r) : n = r[j].message /\ n.srcAddress = x
      BY <2>4, <3>1 DEF From
    <3>3. j + 1 \in 1..Len(p) /\ n = p[j + 1].message /\ 1 \in 1..j + 1 - 1
      BY <1>2, <1>3, <3>1, <3>2
    <3>4. From(d, 1) = From(d, j + 1) => Number(d, 1) < Number(d, j + 1)
      BY <1>1, <3>3 DEF InOrder
    <3>. QED  BY <3>2, <3>3, <3>4 DEF From, Number
  <2>. QED  BY <1>7, <2>2, <2>3, <2>4 DEF Pending
<1>. QED  BY <1>4, <1>5, <1>6, <1>7

\* processFromQueue
LEMMA ProcessOnce ==
  ASSUME IInv, OnceInv, TypeOK', NEW d \in Drones, Process(d)
  PROVE  OnceInv'
<1>. PICK task : task = inbox[d][1]
  OBVIOUS
<1>. PICK m : m = task.message
  OBVIOUS
<1>. PICK e : e = m.srcAddress
  OBVIOUS
<1>1. /\ TypeOK /\ TableSets /\ TablesTrue /\ ReportsOnce /\ TablesOnce
  BY DEF IInv, OnceInv
<1>2. inbox[d] # <<>> /\ sentAt' = sentAt
  BY DEF Process
<1>3. /\ e \in Drones /\ e # d /\ m \in MessageType /\ m \in Pending(e, d)
      /\ \A n \in Pending(e, d)' : m.msgSequence < n.msgSequence
      /\ \A a \in Drones : \A b \in Drones \ {a} : Pending(a, b)' \in SUBSET Pending(a, b)
  BY ProcessPending
<1>4. Grows
  BY <1>1, <1>2, LengthsAre DEF Grows
<1>5. CASE UNCHANGED tables
  <2>1. tableSet' = tableSet
    BY <1>5 DEF tables
  <2>. QED  BY <1>3, <1>4, <2>1, StillOnce
<1>6. CASE \E i, s, new, old :
             /\ Before(tableSet[d], i, e, old) /\ s \in processed(d, m, task.RxTimestamp, old)
             /\ SetOK(new, d) /\ Serves(tableSet[d], new, i, e) /\ new.table[i] = s.table
             /\ tableSet' = [tableSet EXCEPT ![d] = new]
  <2>. PICK i, s, new, old :
         /\ Before(tableSet[d], i, e, old) /\ s \in processed(d, m, task.RxTimestamp, old)
         /\ SetOK(new, d) /\ Serves(tableSet[d], new, i, e) /\ new.table[i] = s.table
         /\ tableSet' = [tableSet EXCEPT ![d] = new]
    BY <1>6
  <2>1. tableSet'[d] = new /\ \A x \in Drones \ {d} : tableSet'[x] = tableSet[x]
    BY <1>1 DEF TypeOK
  <2>2. SetOK(tableSet[d], d)
    BY <1>1, SetsOK
  <2>3. Window(Heard(e, d)) /\ \A n \in Pending(e, d) : \A u \in UnitsOf(n, d) : Window(Reported(u))
    BY <1>1, <1>3, HeardIs, Reports
  <2>4. ListsOnce(old) /\ BuffersOnce(old) /\ FitsAll(old.sendList, d, e)
    <3>1. CASE i \in 1..Len(tableSet[d].address) /\ tableSet[d].address[i] = e /\ old = tableSet[d].table[i]
      BY <1>1, <3>1 DEF TablesOnce
    <3>2. CASE old = EmptyTable
      <4>1. old.sendList = EmptyList
        BY <3>2 DEF EmptyTable
      <4>. QED  BY <2>3, <3>2, <4>1, EmptyOnce DEF FitsAll
    <3>. QED  BY <3>1, <3>2 DEF Before
  <2>5. unitsFor(m, d) # {} =>
          /\ unitFor(m, d) \in UnitsOf(m, d) /\ GoodUnit(unitFor(m, d), d)
          /\ MovedOn(Reported(unitFor(m, d)), Heard(e, d))
          /\ Fits(old.sendList, Reported(unitFor(m, d)), d)
          /\ \A n \in Pending(e, d)' : \A u \in UnitsOf(n, d) :
               MovedOn(Reported(unitFor(m, d)), Reported(u))
    <3>1. SUFFICES ASSUME unitsFor(m, d) # {}, NEW unit, unit = unitFor(m, d)
                   PROVE  /\ unit \in UnitsOf(m, d) /\ GoodUnit(unit, d)
                          /\ MovedOn(Reported(unit), Heard(e, d))
                          /\ Fits(old.sendList, Reported(unit), d)
                          /\ \A n \in Pending(e, d)' : \A u \in UnitsOf(n, d) :
                               MovedOn(Reported(unit), Reported(u))
      OBVIOUS
    <3>2. unit \in UnitsOf(m, d)
      BY <1>3, <3>1, UnitForIn
    <3>3. GoodUnit(unit, d) /\ MovedOn(Reported(unit), Heard(e, d))
      BY <1>1, <1>3, <3>2, Reports
    <3>4. Fits(old.sendList, Reported(unit), d)
      BY <1>3, <2>4, <3>2 DEF FitsAll
    <3>5. ASSUME NEW n \in Pending(e, d)', NEW u \in UnitsOf(n, d)
          PROVE  MovedOn(Reported(unit), Reported(u))
      <4>1. n \in Pending(e, d) /\ m.msgSequence < n.msgSequence
        BY <1>3, <3>5
      <4>. QED  BY <1>1, <1>3, <3>2, <3>5, <4>1 DEF ReportsOnce
    <3>. QED  BY <3>2, <3>3, <3>4, <3>5
  <2>6. ASSUME NEW W, Window(W), Fits(old.sendList, W, d), Precedes(m, d, W)
        PROVE  /\ ListsOnce(s.table) /\ BuffersOnce(s.table) /\ Fits(s.table.sendList, W, d)
               /\ MovedOn(LastOf(old.receiveList, MESSAGE_BODY_RX_SIZE),
                          LastOf(s.table.receiveList, MESSAGE_BODY_RX_SIZE))
    BY <1>2, <2>4, <2>5, <2>6, CallOnce
  <2>7. /\ ListsOnce(s.table) /\ BuffersOnce(s.table) /\ Fits(s.table.sendList, Heard(e, d), d)
        /\ MovedOn(LastOf(old.receiveList, MESSAGE_BODY_RX_SIZE),
                   LastOf(s.table.receiveList, MESSAGE_BODY_RX_SIZE))
    <3>1. Precedes(m, d, Heard(e, d)) /\ Fits(old.sendList, Heard(e, d), d)
      BY <2>4, <2>5 DEF Precedes, FitsAll
    <3>. QED  BY <2>3, <2>6, <3>1
  <2>8. ASSUME NEW n \in Pending(e, d)', NEW u \in UnitsOf(n, d)
        PROVE  Fits(s.table.sendList, Reported(u), d)
    <3>1. n \in Pending(e, d)
      BY <1>3, <2>8
    <3>2. Precedes(m, d, Reported(u)) /\ Fits(old.sendList, Reported(u), d)
      BY <2>4, <2>5, <2>8, <3>1 DEF Precedes, FitsAll
    <3>. QED  BY <2>3, <2>6, <2>8, <3>1, <3>2
  <2>9. /\ MovedOn(HeardIn(tableSet[d], e), HeardIn(new, e))
        /\ \A b : b # e => HeardIn(new, b) = HeardIn(tableSet[d], b)
    BY <2>2, <2>7, ServedHeard
  <2>10. ASSUME NEW a \in Drones, NEW b \in Drones
         PROVE  MovedOn(Heard(a, b), Heard(a, b)') /\ Window(Heard(a, b)) /\ Window(Heard(a, b)')
    <3>1. Window(Heard(a, b))
      BY <1>1, HeardIs
    <3>2. MovedOn(Heard(a, b), Heard(a, b))
      BY <3>1, MovedOnSelf DEF Window
    <3>3. CASE a = d
      <4>1. Heard(a, b)' = HeardIn(new, b) /\ Heard(a, b) = HeardIn(tableSet[d], b)
        BY <2>1, <3>3 DEF Heard
      <4>2. Window(HeardIn(new, b))
        BY HeardInIs
      <4>. QED  BY <2>9, <3>1, <3>2, <4>1, <4>2
    <3>4. CASE a # d
      <4>1. tableSet'[a] = tableSet[a]
        BY <2>1, <3>4
      <4>2. Heard(a, b)' = Heard(a, b)
        BY <4>1 DEF Heard, HeardIn
      <4>. QED  BY <3>1, <3>2, <4>2
    <3>. QED  BY <3>3, <3>4
  <2>11. ReportsOnce'
    <3>1. ASSUME NEW a \in Drones, NEW b \in Drones \ {a}, NEW n \in Pending(a, b)',
                 NEW unit \in UnitsOf(n, b)
          PROVE  /\ UnitDescends(unit) /\ MovedOn(Reported(unit), Heard(a, b)')
                 /\ \A l \in Pending(a, b)' : n.msgSequence < l.msgSequence =>
                      \A later \in UnitsOf(l, b) : MovedOn(Reported(unit), Reported(later))
      <4>1. n \in Pending(a, b) /\ \A l \in Pending(a, b)' : l \in Pending(a, b)
        BY <1>3, <3>1
      <4>2. /\ UnitDescends(unit) /\ MovedOn(Reported(unit), Heard(a, b))
            /\ \A l \in Pending(a, b)' : n.msgSequence < l.msgSequence =>
                 \A later \in UnitsOf(l, b) : MovedOn(Reported(unit), Reported(later))
        BY <1>1, <3>1, <4>1 DEF ReportsOnce
      <4>3. Window(Reported(unit))
        BY <1>1, <3>1, <4>1, Reports
      <4>4. PICK U, V, W : U = Reported(unit) /\ V = Heard(a, b) /\ W = Heard(a, b)'
        OBVIOUS
      <4>5. MovedOn(V, W) /\ Window(V) /\ Window(W) /\ Window(U) /\ MovedOn(U, V)
        BY <2>10, <4>2, <4>3, <4>4
      <4>6. MovedOn(U, W)
        BY <4>5, MovedOnAgain DEF Window
      <4>. QED  BY <4>2, <4>4, <4>6
    <3>. QED  BY <3>1 DEF ReportsOnce
  <2>12. ASSUME NEW x \in Drones, NEW k \in 1..Len(tableSet[x].address),
                ~(x = d /\ tableSet[x].address[k] = e),
                NEW t, t = tableSet[x].table[k], NEW a, a = tableSet[x].address[k]
         PROVE  ListsOnce(t) /\ BuffersOnce(t) /\ FitsAll(t.sendList, x, a)'
    <3>1. t \in TableType /\ a \in Drones /\ a # x
      BY <1>1, <2>12, TableFacts
    <3>2. ListsOnce(t) /\ BuffersOnce(t) /\ FitsAll(t.sendList, x, a)
      BY <1>1, <2>12 DEF TablesOnce
    <3>. PICK list : list = t.sendList
      OBVIOUS
    <3>3. list \in ListType /\ Descends(list)
      BY <3>1, <3>2 DEF TableType, ListsOnce
    <3>4. Fits(list, Heard(a, x), x)'
      <4>1. PICK V, W : V = Heard(a, x) /\ W = Heard(a, x)'
        OBVIOUS
      <4>2. Window(V) /\ Window(W) /\ MovedOn(V, W) /\ Fits(list, V, x)
        BY <2>10, <3>1, <3>2, <4>1 DEF FitsAll
      <4>3. Fits(list, W, x)'
        BY <1>1, <1>4, <3>3, <4>2, StillFits
      <4>. QED  BY <4>1, <4>3
    <3>5. ASSUME NEW n \in Pending(a, x)', NEW unit \in UnitsOf(n, x)
          PROVE  Fits(list, Reported(unit), x)'
      <4>1. n \in Pending(a, x)
        BY <1>3, <3>1, <3>5
      <4>2. PICK W : W = Reported(unit)
        OBVIOUS
      <4>3. Window(W) /\ MovedOn(W, W) /\ Fits(list, W, x)
        BY <1>1, <3>1, <3>2, <3>5, <4>1, <4>2, Reports DEF FitsAll
      <4>4. Fits(list, W, x)'
        BY <1>1, <1>4, <3>3, <4>3, StillFits
      <4>. QED  BY <4>2, <4>4
    <3>6. FitsAll(list, x, a)'
      BY <3>4, <3>5 DEF FitsAll
    <3>. QED  BY <3>2, <3>6
  <2>13. FitsAll(s.table.sendList, d, e)'
    <3>1. ASSUME NEW list, NEW W, Fits(list, W, d)
          PROVE  Fits(list, W, d)'
      BY <1>2, <3>1 DEF Fits, Gone
    <3>. PICK list : list = s.table.sendList
      OBVIOUS
    <3>. PICK W : W = Heard(e, d)
      OBVIOUS
    <3>2. Fits(list, Heard(e, d), d)'
      <4>1. tableSet'[e] = tableSet[e]
        BY <1>3, <2>1
      <4>2. Heard(e, d)' = Heard(e, d)
        BY ONLY <4>1 DEF Heard
      <4>3. Fits(list, W, d)
        BY <2>7
      <4>4. Fits(list, W, d)'
        BY ONLY <3>1, <4>3
      <4>. QED  BY <4>2, <4>4
    <3>3. ASSUME NEW n \in Pending(e, d)', NEW unit \in UnitsOf(n, d)
          PROVE  Fits(list, Reported(unit), d)'
      <4>1. Fits(list, Reported(unit), d)
        BY <2>8, <3>3
      <4>. QED  BY <3>1, <4>1
    <3>4. FitsAll(list, d, e)'
      BY <3>2, <3>3 DEF FitsAll
    <3>. QED  BY <3>4
  <2>14. ASSUME NEW x \in Drones, NEW k \in 1..Len(tableSet'[x].address),
                NEW t, t = tableSet'[x].table[k], NEW a, a = tableSet'[x].address[k]
         PROVE  ListsOnce(t) /\ BuffersOnce(t) /\ FitsAll(t.sendList, x, a)'
    <3>1. i \in 1..Len(new.address) /\ new.address[i] = e
      BY DEF Serves
    <3>2. CASE x = d /\ k = i
      <4>1. t = s.table /\ a = e
        BY <2>1, <2>14, <3>1, <3>2
      <4>. QED  BY <2>7, <2>13, <3>2, <4>1
    <3>3. CASE x = d /\ k # i
      <4>1. k \in 1..Len(new.address) /\ t = new.table[k] /\ a = new.address[k]
        BY <2>1, <2>14, <3>3
      <4>2. /\ k \in 1..Len(tableSet[d].address) /\ a = tableSet[d].address[k]
            /\ t = tableSet[d].table[k]
        BY <3>3, <4>1 DEF Serves
      <4>3. a # e
        BY <3>1, <3>3, <4>1 DEF SetOK, Distinct
      <4>. QED  BY <2>12, <3>3, <4>2, <4>3
    <3>4. CASE x # d
      <4>1. tableSet'[x] = tableSet[x]
        BY <2>1, <3>4
      <4>2. /\ k \in 1..Len(tableSet[x].address) /\ a = tableSet[x].address[k]
            /\ t = tableSet[x].table[k]
        BY <2>14, <4>1
      <4>. QED  BY <2>12, <3>4, <4>2
    <3>. QED  BY <3>2, <3>3, <3>4
  <2>15. TablesOnce'
    <3>1. \A x \in Drones : \A k \in 1..Len(tableSet'[x].address) :
            /\ ListsOnce(tableSet'[x].table[k]) /\ BuffersOnce(tableSet'[x].table[k])
            /\ \A list, a : list = tableSet'[x].table[k].sendList /\ a = tableSet'[x].address[k] =>
                            FitsAll(list, x, a)'
      BY <2>14
    <3>. QED  BY <3>1 DEF TablesOnce
  <2>. QED  BY <2>11, <2>15 DEF OnceInv
<1>7. Processed(d, e, m)
  BY ProcessServes
<1>. QED  BY <1>5, <1>6, <1>7 DEF Processed

\* At first nothing is under way.
LEMMA InitOnce == Init => OnceInv
<1>. SUFFICES ASSUME Init  PROVE OnceInv
  OBVIOUS
<1>1. ReportsOnce
  <2>1. ASSUME NEW e \in Drones, NEW d \in Drones \ {e}
        PROVE  Pending(e, d) = {}
    <3>1. outgoing[e] = <<>> /\ link[<<e, d>>] = <<>> /\ inbox[d] = <<>>
      BY <2>1 DEF Init, Links
    <3>2. Len(<<>>) = 0 /\ 1..0 = {}
      OBVIOUS
    <3>. QED  BY <3>1, <3>2 DEF Pending
  <2>. QED  BY <2>1 DEF ReportsOnce
<1>2. TablesOnce
  BY DEF Init, TablesOnce
<1>. QED  BY <1>1, <1>2 DEF OnceInv

\* Every step keeps the order.
LEMMA OnceStep == IInv /\ OnceInv /\ [Next]_vars => OnceInv'
<1>. SUFFICES ASSUME IInv, OnceInv, [Next]_vars  PROVE OnceInv'
  OBVIOUS
<1>1. TypeOK' /\ Grows
  <2>1. IInv'
    BY StepInv
  <2>. QED  BY <2>1, StepGrows DEF IInv
<1>2. ASSUME NEW d \in Drones, Generate(d)  PROVE OnceInv'
  BY <1>1, <1>2, GenerateOnce
<1>3. ASSUME NEW d \in Drones, Send(d)  PROVE OnceInv'
  <2>1. tableSet' = tableSet
    BY <1>3 DEF Send, tables
  <2>. QED  BY <1>1, <1>3, <2>1, SendPending, StillOnce
<1>4. ASSUME NEW d \in Drones, Process(d)  PROVE OnceInv'
  BY <1>1, <1>4, ProcessOnce
<1>5. ASSUME NEW l \in Links, Receive(l)  PROVE OnceInv'
  <2>1. tableSet' = tableSet
    BY <1>5 DEF Receive, tables
  <2>. QED  BY <1>1, <1>5, <2>1, ReceivePending, StillOnce
<1>6. ASSUME NEW l \in Links, Lose(l)  PROVE OnceInv'
  <2>1. tableSet' = tableSet
    BY <1>6 DEF Lose, tables
  <2>. QED  BY <1>1, <1>6, <2>1, LosePending, StillOnce
<1>7. ASSUME UNCHANGED vars  PROVE OnceInv'
  <2>1. tableSet' = tableSet /\ outgoing' = outgoing /\ link' = link /\ inbox' = inbox
    BY <1>7 DEF vars, tables
  <2>2. ASSUME NEW e, NEW d  PROVE Pending(e, d)' = Pending(e, d)
    BY <2>1 DEF Pending, From
  <2>. QED  BY <1>1, <2>1, <2>2, StillOnce
<1>. QED  BY <1>2, <1>3, <1>4, <1>5, <1>6, <1>7 DEF Next, Finished
-----------------------------------------------------------------------------
(* The result.                                                             *)

\* However often a message is reported, its times enter the send list once, and
\* calculateTof makes one record from them.
THEOREM Entered == Spec => []EnteredOnce
<1>1. OnceInv /\ IInv => EnteredOnce
  <2>1. ASSUME OnceInv, IInv, NEW d \in Drones, NEW i \in 1..Len(tableSet[d].address),
               NEW t, t = tableSet[d].table[i]
        PROVE  /\ \A k, n \in Rows :
                    t.sendList.row[k].localSeq # NULL_SEQ
                    /\ t.sendList.row[n].localSeq = t.sendList.row[k].localSeq => k = n
               /\ \A h \in {SENDER, RECEIVER} : MadeOnce(t.validBuffer[h], h)
    <3>1. ListsOnce(t) /\ BuffersOnce(t) /\ t \in TableType
      BY <2>1, TableTrue DEF OnceInv, TablesOnce
    <3>2. t.sendList \in ListType /\ Descends(t.sendList)
      BY <3>1 DEF ListsOnce, TableType
    <3>. QED  BY <3>1, <3>2, TopGreatest DEF BuffersOnce
  <2>2. ASSUME OnceInv, IInv, NEW d \in Drones, NEW i \in 1..Len(tableSet[d].address)
        PROVE  LET t == tableSet[d].table[i]
               IN  /\ \A k, n \in Rows :
                        LET seq == t.sendList.row[k].localSeq
                        IN  seq # NULL_SEQ /\ t.sendList.row[n].localSeq = seq => k = n
                   /\ \A h \in {SENDER, RECEIVER} : \A k, n \in Held(t.validBuffer[h]) :
                        LET rec == t.validBuffer[h].rec
                        IN  /\ rec[k].sumTof.kind = "modified" /\ rec[n].sumTof.kind = "modified"
                            /\ rec[k][h].localSeq = rec[n][h].localSeq
                            => k = n
    BY <2>1, <2>2, Zenon DEF MadeOnce
  <2>. QED  BY <2>2, Zenon DEF EnteredOnce, ForTables
<1>2. Spec => []OnceInv
  BY Invariance, InitOnce, OnceStep, PTL DEF Spec
<1>. QED  BY <1>1, <1>2, Invariance, PTL
=============================================================================
