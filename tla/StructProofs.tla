---------------------------- MODULE StructProofs ----------------------------
(***************************************************************************)
(* Proofs about the operators of RangingStruct and TableSet, for every     *)
(* size of the lists and of the buffers and any number of tables: what     *)
(* they find and what they leave alone.                                    *)
(***************************************************************************)
EXTENDS RangingStruct, TableSet, WellFoundedInduction, FiniteSetTheorems, TLAPS

\* Induction, without an operator as a parameter: over sets of numbers.
LEMMA Least ==
  ASSUME NEW T \in SUBSET Nat, T # {}
  PROVE  \E x \in T : \A y \in T : x <= y
<1>. DEFINE R == {p \in Nat \X Nat : p[1] < p[2]}
<1>1. IsWellFoundedOn(R, Nat)
  BY NatLessThanWellFounded DEF OpToRel
<1>. HIDE DEF R
<1>2. PICK x \in T : \A y \in T : <<y, x>> \notin R
  BY <1>1, WFMin
<1>3. ASSUME NEW y \in T  PROVE x <= y
  <2>1. x \in Nat /\ y \in Nat /\ <<y, x>> \notin R
    BY <1>2
  <2>2. ~(y < x)
    BY <2>1 DEF R
  <2>. QED  BY <2>1, <2>2
<1>. QED  BY <1>3

\* Induction up to a bound, for a set of numbers.
LEMMA NatInd ==
  ASSUME NEW n \in Nat, NEW S, 0 \in S, \A k \in 0..n - 1 : k \in S => k + 1 \in S
  PROVE  n \in S
<1>. DEFINE T == {k \in 0..n : k \notin S}
<1>1. SUFFICES ASSUME n \notin S  PROVE FALSE
  OBVIOUS
<1>2. T \in SUBSET Nat /\ T # {}
  BY <1>1
<1>. HIDE DEF T
<1>3. PICK x \in T : \A y \in T : x <= y
  BY <1>2, Least
<1>. USE DEF T
<1>4. x # 0 /\ x - 1 \in 0..n - 1 /\ x - 1 \notin T
  BY <1>3
<1>. QED  BY <1>3, <1>4
-----------------------------------------------------------------------------
(* Rings.                                                                  *)

\* Steps on a ring, without the remainder: SMT reasons about them.
LEMMA Wrap ==
  ASSUME NEW N \in Nat \ {0}, NEW a \in Nat, a < N + N
  PROVE  a % N = IF a < N THEN a ELSE a - N
<1>1. CASE a < N
  BY <1>1
<1>2. CASE a >= N
  <2>1. a \div N = 1
    BY <1>2
  <2>2. a = N * (a \div N) + (a % N)
    OBVIOUS
  <2>. QED  BY <1>2, <2>1, <2>2
<1>. QED  BY <1>1, <1>2

\* The place after a place of a ring.
LEMMA RingNext ==
  ASSUME NEW N \in Nat \ {0}, NEW top \in 0..N - 1 \cup {NULL_INDEX}
  PROVE  (top + 1) % N = IF top = N - 1 THEN 0 ELSE top + 1
<1>. DEFINE a == top + 1
<1>1. a \in Nat /\ a < N + N /\ top \in -1..N - 1
  BY DEF NULL_INDEX
<1>2. a % N = IF a < N THEN a ELSE a - N
  <2>. HIDE DEF a
  <2>. QED  BY <1>1, Wrap
<1>. QED  BY <1>1, <1>2

\* The way back from top to a place.
LEMMA BackSteps ==
  ASSUME NEW N \in Nat \ {0}, NEW top \in 0..N - 1 \cup {NULL_INDEX}, NEW i \in 0..N - 1
  PROVE  /\ Back(top, i, N) = IF i <= top THEN top - i ELSE top - i + N
         /\ Back(top, i, N) \in 0..N - 1
<1>. DEFINE a == top - i + N
<1>1. a \in Nat /\ a < N + N
  BY DEF NULL_INDEX
<1>2. a % N = IF a < N THEN a ELSE a - N
  BY <1>1, Wrap
<1>. QED  BY <1>2 DEF Back, NULL_INDEX

\* A scan from top meets the slots one after the other.
LEMMA BackApart ==
  ASSUME NEW N \in Nat \ {0}, NEW top \in 0..N - 1 \cup {NULL_INDEX},
         NEW i \in 0..N - 1, NEW j \in 0..N - 1, Back(top, i, N) = Back(top, j, N)
  PROVE  i = j
<1>1. /\ Back(top, i, N) = IF i <= top THEN top - i ELSE top - i + N
      /\ Back(top, j, N) = IF j <= top THEN top - j ELSE top - j + N
  BY BackSteps
<1>2. top \in -1..N - 1
  BY DEF NULL_INDEX
<1>. DEFINE x == Back(top, i, N)
            y == Back(top, j, N)
<1>3. x = y /\ (x = top - i \/ x = top - i + N) /\ (y = top - j \/ y = top - j + N)
  BY <1>1
<1>. HIDE DEF x, y
<1>. QED  BY <1>2, <1>3

\* With the next slot as top, the other slots are one step further back.
LEMMA BackNext ==
  ASSUME NEW N \in Nat \ {0}, NEW top \in 0..N - 1 \cup {NULL_INDEX},
         NEW i \in 0..N - 1, i # (top + 1) % N
  PROVE  Back(top, i, N) = Back((top + 1) % N, i, N) - 1
<1>. DEFINE next == (top + 1) % N
<1>1. next = IF top = N - 1 THEN 0 ELSE top + 1
  BY RingNext
<1>2. next \in 0..N - 1 /\ top \in -1..N - 1
  BY <1>1 DEF NULL_INDEX
<1>. HIDE DEF next
<1>3. /\ Back(top, i, N) = IF i <= top THEN top - i ELSE top - i + N
      /\ Back(next, i, N) = IF i <= next THEN next - i ELSE next - i + N
  BY <1>2, BackSteps
<1>4. i # next
  BY DEF next
<1>. DEFINE x == Back(top, i, N)
            y == Back(next, i, N)
<1>5. /\ x = IF i <= top THEN top - i ELSE top - i + N
      /\ y = IF i <= next THEN next - i ELSE next - i + N
  BY <1>3
<1>. HIDE DEF x, y
<1>6. x = y - 1
  BY <1>1, <1>2, <1>4, <1>5
<1>. QED  BY <1>6 DEF x, y, next

\* Every set of slots has a nearest one.
LEMMA NearestIn ==
  ASSUME NEW N \in Nat \ {0}, NEW top \in 0..N - 1 \cup {NULL_INDEX},
         NEW S \in SUBSET (0..N - 1), S # {}
  PROVE  /\ Nearest(S, top, N) \in S
         /\ \A j \in S : Back(top, Nearest(S, top, N), N) <= Back(top, j, N)
<1>. DEFINE T == {Back(top, i, N) : i \in S}
<1>1. T \in SUBSET Nat /\ T # {}
  <2>1. \A i \in S : Back(top, i, N) \in Nat
    BY BackSteps
  <2>. QED  BY <2>1
<1>2. PICK x \in T : \A y \in T : x <= y
  <2>. HIDE DEF T
  <2>. QED  BY <1>1, Least
<1>3. \E i \in S : \A j \in S : Back(top, i, N) <= Back(top, j, N)
  BY <1>2
<1>. QED  BY <1>3 DEF Nearest

\* Greatest finds a slot of the set, whose key no other slot exceeds.
LEMMA GreatestIn ==
  ASSUME NEW N \in Nat \ {0}, NEW top \in 0..N - 1 \cup {NULL_INDEX},
         NEW S \in SUBSET (0..N - 1), NEW key, NEW bound \in Nat,
         \A i \in S : key[i] \in Nat /\ key[i] < bound
  PROVE  LET g == Greatest(S, key, top, N)
         IN  IF S = {} THEN g = NULL_INDEX
             ELSE g \in S /\ \A j \in S : key[j] <= key[g]
<1>1. CASE S = {}
  BY <1>1 DEF Greatest
<1>2. CASE S # {}
  <2>. DEFINE T == {bound - key[i] : i \in S}
              M == {i \in S : \A j \in S : key[j] <= key[i]}
  <2>1. T \in SUBSET Nat /\ T # {}
    <3>1. \A i \in S : bound - key[i] \in Nat
      OBVIOUS
    <3>. QED  BY <1>2, <3>1
  <2>2. PICK x \in T : \A y \in T : x <= y
    <3>. HIDE DEF T
    <3>. QED  BY <2>1, Least
  <2>3. PICK i \in S : x = bound - key[i]
    BY <2>2
  <2>4. \A j \in S : key[j] <= key[i]
    <3>1. \A j \in S : bound - key[i] <= bound - key[j]
      BY <2>2, <2>3
    <3>. QED  BY <3>1
  <2>5. M \in SUBSET (0..N - 1) /\ M # {}
    BY <2>4
  <2>6. Nearest(M, top, N) \in M
    <3>. HIDE DEF M
    <3>. QED  BY <2>5, NearestIn
  <2>. QED  BY <1>2, <2>6 DEF Greatest
<1>. QED  BY <1>1, <1>2
-----------------------------------------------------------------------------
(* Ranging lists.                                                          *)

\* The rows of a list.
LEMMA RowsSize ==
  /\ Rows = 0..RANGING_LIST_SIZE - 1 /\ RANGING_LIST_SIZE \in Nat \ {0}
  /\ Records = 0..RANGING_BUFFER_SIZE - 1 /\ RANGING_BUFFER_SIZE \in Nat \ {0}
  BY StructAssumption DEF Rows, Records

\* The row after a row.
LEMMA NextRow ==
  ASSUME NEW top \in Rows \cup {NULL_INDEX}
  PROVE  (top + 1) % RANGING_LIST_SIZE \in Rows
  BY RowsSize, RingNext DEF NULL_INDEX

\* addRangingList on the arrival of a message writes the next row only.
LEMMA ArrivalRows ==
  ASSUME NEW list \in ListType, NEW seq \in Nat, NEW rx \in Nat
  PROVE  LET new == AddArrival(list, seq, rx)
         IN  /\ new \in ListType /\ new.top \in Rows
             /\ new.row[new.top] = [tx |-> list.row[new.top].tx, rx |-> rx,
                                    localSeq |-> seq, remoteSeq |-> NULL_SEQ]
             /\ \A i \in Rows \ {new.top} : new.row[i] = list.row[i]
<1>. DEFINE top == (list.top + 1) % RANGING_LIST_SIZE
<1>1. top \in Rows
  BY NextRow DEF ListType
<1>. HIDE DEF top
<1>. DEFINE row == [tx |-> list.row[top].tx, rx |-> rx, localSeq |-> seq, remoteSeq |-> NULL_SEQ]
<1>2. row \in RowType
  BY <1>1 DEF ListType, RowType, NULL_SEQ
<1>3. AddArrival(list, seq, rx) = [top |-> top, row |-> [list.row EXCEPT ![top] = row]]
  BY DEF AddArrival, top
<1>. HIDE DEF row
<1>4. /\ AddArrival(list, seq, rx) \in ListType
      /\ AddArrival(list, seq, rx).top = top
      /\ AddArrival(list, seq, rx).row[top] = row
      /\ \A i \in Rows \ {top} : AddArrival(list, seq, rx).row[i] = list.row[i]
  BY <1>1, <1>2, <1>3 DEF ListType
<1>. QED  BY <1>1, <1>4 DEF row

\* A departure that is told completes its row, and no other.
LEMMA DepartureRows ==
  ASSUME NEW list \in ListType, NEW i \in Rows, NEW seq \in Nat, NEW tx \in Nat
  PROVE  LET new == FillDeparture(list, i, seq, tx)
         IN  /\ new \in ListType /\ new.top = list.top
             /\ new.row[i] = [tx |-> tx, rx |-> list.row[i].rx,
                              localSeq |-> list.row[i].localSeq, remoteSeq |-> seq]
             /\ \A j \in Rows \ {i} : new.row[j] = list.row[j]
  BY DEF FillDeparture, ListType, RowType

\* A reported arrival writes the next row of the list of sent messages only.
LEMMA FullRows ==
  ASSUME NEW list \in ListType, NEW seq \in Nat, NEW tx \in Nat, NEW rx \in Nat
  PROVE  LET new == AddFull(list, seq, tx, rx)
         IN  /\ new \in ListType /\ new.top \in Rows
             /\ new.row[new.top] = [tx |-> tx, rx |-> rx, localSeq |-> seq, remoteSeq |-> seq]
             /\ \A i \in Rows \ {new.top} : new.row[i] = list.row[i]
<1>. DEFINE top == (list.top + 1) % RANGING_LIST_SIZE
<1>1. top \in Rows
  BY NextRow DEF ListType
<1>. HIDE DEF top
<1>2. AddFull(list, seq, tx, rx) =
        [top |-> top, row |-> [list.row EXCEPT ![top] =
           [tx |-> tx, rx |-> rx, localSeq |-> seq, remoteSeq |-> seq]]]
  BY DEF AddFull, top
<1>. QED  BY <1>1, <1>2 DEF ListType, RowType

\* searchRangingList finds a full row, before the time it is given.
LEMMA SearchRow ==
  ASSUME NEW list \in ListType, NEW time \in Nat, NEW status \in {SENDER, RECEIVER}
  PROVE  LET i == searchRangingList(list, time, status)
         IN  \/ i = NULL_INDEX
             \/ /\ i \in Rows /\ IsFull(list.row[i])
                /\ status = SENDER => list.row[i].rx < time
                /\ status = RECEIVER => list.row[i].tx < time
<1>. DEFINE key == [i \in Rows |-> IF status = SENDER THEN list.row[i].rx ELSE list.row[i].tx]
            S == {i \in Rows : IsFull(list.row[i]) /\ key[i] < time}
<1>1. \A i \in Rows : key[i] \in Nat
  BY DEF ListType, RowType
<1>2. S \in SUBSET (0..RANGING_LIST_SIZE - 1)
  BY RowsSize
<1>3. list.top \in 0..RANGING_LIST_SIZE - 1 \cup {NULL_INDEX}
  BY RowsSize DEF ListType
<1>4. \A i \in S : key[i] \in Nat /\ key[i] < time
  BY <1>1
<1>5. \/ Greatest(S, key, list.top, RANGING_LIST_SIZE) = NULL_INDEX
      \/ Greatest(S, key, list.top, RANGING_LIST_SIZE) \in S
  <2>. HIDE DEF key, S
  <2>. QED  BY <1>2, <1>3, <1>4, RowsSize, GreatestIn
<1>. QED  BY <1>5 DEF searchRangingList, SENDER, RECEIVER

\* findLocalSeqIndex finds a row of the message that is not done, or tells why
\* there is none.
LEMMA FindRow ==
  ASSUME NEW list \in ListType, NEW seq \in Nat
  PROVE  LET i == findLocalSeqIndex(list, seq)
         IN  \/ /\ i = NULL_INDEX
                /\ \/ list.top = NULL_INDEX
                   \/ \A j \in Rows : list.row[j].localSeq # seq
             \/ i = NULL_DONE_INDEX /\ \E j \in Rows : list.row[j].remoteSeq = seq
             \/ i \in Rows /\ list.row[i].localSeq = seq /\ list.row[i].remoteSeq # seq
<1>. DEFINE found == {i \in Rows : seq \in {list.row[i].localSeq, list.row[i].remoteSeq}}
            n == Nearest(found, list.top, RANGING_LIST_SIZE)
<1>1. CASE list.top = NULL_INDEX \/ found = {}
  BY <1>1 DEF findLocalSeqIndex
<1>2. CASE ~(list.top = NULL_INDEX \/ found = {})
  <2>1. found \in SUBSET (0..RANGING_LIST_SIZE - 1)
    BY RowsSize
  <2>2. list.top \in 0..RANGING_LIST_SIZE - 1 \cup {NULL_INDEX}
    BY RowsSize DEF ListType
  <2>3. n \in found
    <3>. HIDE DEF found
    <3>. QED  BY <1>2, <2>1, <2>2, RowsSize, NearestIn
  <2>4. findLocalSeqIndex(list, seq) = IF list.row[n].remoteSeq = seq THEN NULL_DONE_INDEX ELSE n
    BY <1>2 DEF findLocalSeqIndex
  <2>. HIDE DEF n
  <2>. QED  BY <2>3, <2>4
<1>. QED  BY <1>1, <1>2
-----------------------------------------------------------------------------
(* Ranging buffers.                                                        *)

\* A ring that holds no record has none counted.
RingOK(ring) == ring.top = NULL_INDEX => ring.length = 0

\* addRangingBuffer writes the next record only, and counts up to the size.
LEMMA NewRecord ==
  ASSUME NEW ring \in RingType, RingOK(ring), NEW record \in RecordType
  PROVE  LET new == AddRecord(ring, record)
         IN  /\ new \in RingType /\ new.top \in Records /\ RingOK(new)
             /\ new.length = IF ring.length < RANGING_BUFFER_SIZE THEN ring.length + 1
                             ELSE RANGING_BUFFER_SIZE
             /\ new.rec[new.top] = record
             /\ \A k \in Held(new) : k = new.top \/ (k \in Held(ring) /\ new.rec[k] = ring.rec[k])
<1>. DEFINE new == AddRecord(ring, record)
            top == (ring.top + 1) % RANGING_BUFFER_SIZE
            length == IF ring.length < RANGING_BUFFER_SIZE THEN ring.length + 1
                      ELSE RANGING_BUFFER_SIZE
<1>1. ring.top \in 0..RANGING_BUFFER_SIZE - 1 \cup {NULL_INDEX}
  BY RowsSize DEF RingType
<1>2. top = IF ring.top = RANGING_BUFFER_SIZE - 1 THEN 0 ELSE ring.top + 1
  BY <1>1, RowsSize, RingNext
<1>3. top \in Records
  BY <1>1, <1>2, RowsSize DEF NULL_INDEX
<1>4. length \in 0..RANGING_BUFFER_SIZE
  BY RowsSize DEF RingType
<1>5. new = [top |-> top, length |-> length, rec |-> [ring.rec EXCEPT ![top] = record]]
  BY DEF AddRecord
<1>. HIDE DEF new, top, length
<1>6. /\ new \in RingType /\ new.top = top /\ new.length = length
      /\ new.rec[top] = record
      /\ \A k \in Records \ {top} : new.rec[k] = ring.rec[k]
  BY <1>3, <1>4, <1>5 DEF RingType
<1>7. RingOK(new)
  BY <1>3, <1>6, RowsSize DEF RingOK, NULL_INDEX
<1>8. ASSUME NEW k \in Held(new), k # top
      PROVE  k \in Held(ring)
  <2>1. k \in 0..RANGING_BUFFER_SIZE - 1 /\ Back(top, k, RANGING_BUFFER_SIZE) < length
    BY <1>6, RowsSize DEF Held
  <2>. DEFINE x == Back(top, k, RANGING_BUFFER_SIZE)
              y == Back(ring.top, k, RANGING_BUFFER_SIZE)
  <2>2. y = x - 1
    BY <1>1, <1>8, <2>1, RowsSize, BackNext DEF top
  <2>3. x \in 0..RANGING_BUFFER_SIZE - 1 /\ y \in 0..RANGING_BUFFER_SIZE - 1
    <3>1. top \in 0..RANGING_BUFFER_SIZE - 1 \cup {NULL_INDEX}
      BY <1>3, RowsSize
    <3>. QED  BY <1>1, <2>1, <3>1, RowsSize, BackSteps
  <2>4. ring.length \in 0..RANGING_BUFFER_SIZE /\ x < length
    BY <2>1 DEF RingType
  <2>. HIDE DEF x, y
  <2>5. y < ring.length
    BY <2>2, <2>3, <2>4, RowsSize DEF length
  <2>. QED  BY <2>1, <2>5, RowsSize DEF Held, y
<1>9. \A k \in Held(new) : k \in Records
  BY DEF Held
<1>. QED  BY <1>3, <1>6, <1>7, <1>8, <1>9 DEF new, length

\* The other direction.
LEMMA OppositeStatus ==
  ASSUME NEW status \in {SENDER, RECEIVER}
  PROVE  /\ Opposite(status) \in {SENDER, RECEIVER}
         /\ Opposite(status) # status
         /\ Opposite(Opposite(status)) = status
         /\ {SENDER, RECEIVER} = {status, Opposite(status)}
  BY DEF Opposite, SENDER, RECEIVER

\* searchRangingBuffer finds a record that is held, below the number it is given.
LEMMA SearchRecord ==
  ASSUME NEW buffer \in BufferType, NEW seq \in Nat, NEW status \in {SENDER, RECEIVER}
  PROVE  LET i    == searchRangingBuffer(buffer, seq, status)
             ring == buffer[Opposite(status)]
         IN  \/ i = NULL_INDEX
             \/ i \in Held(ring) /\ i \in Records /\ ring.rec[i][status].localSeq < seq
<1>. DEFINE ring == buffer[Opposite(status)]
            key  == [i \in Records |-> ring.rec[i][status].localSeq]
            S    == {i \in Held(ring) : key[i] < seq}
<1>1. ring \in RingType
  BY OppositeStatus DEF BufferType, SENDER, RECEIVER
<1>. HIDE DEF ring
<1>2. \A i \in Records : key[i] \in Nat /\ key[i] = ring.rec[i][status].localSeq
  BY <1>1 DEF RingType, RecordType, HalfType, SENDER, RECEIVER
<1>3. S \in SUBSET (0..RANGING_BUFFER_SIZE - 1)
  BY RowsSize DEF Held
<1>4. ring.top \in 0..RANGING_BUFFER_SIZE - 1 \cup {NULL_INDEX}
  BY <1>1, RowsSize DEF RingType
<1>5. \A i \in S : key[i] \in Nat /\ key[i] < seq
  BY <1>2 DEF Held
<1>6. \/ Greatest(S, key, ring.top, RANGING_BUFFER_SIZE) = NULL_INDEX
      \/ Greatest(S, key, ring.top, RANGING_BUFFER_SIZE) \in S
  <2>. HIDE DEF key, S
  <2>. QED  BY <1>3, <1>4, <1>5, RowsSize, GreatestIn
<1>7. \A i \in S : i \in Held(ring) /\ i \in Records /\ ring.rec[i][status].localSeq < seq
  BY <1>2 DEF Held
<1>8. searchRangingBuffer(buffer, seq, status) = Greatest(S, key, ring.top, RANGING_BUFFER_SIZE)
  BY DEF searchRangingBuffer, ring
<1>. HIDE DEF S, key
<1>. QED  BY <1>6, <1>7, <1>8 DEF ring

\* Both rings of a buffer.
BufferOK(buffer) == buffer \in BufferType /\ \A h \in {SENDER, RECEIVER} : RingOK(buffer[h])

\* A row or a half record has the times and the number of a communication.
Timed(row) == row.tx \in Nat /\ row.rx \in Nat /\ row.localSeq \in Nat

\* A half with both its times.
LEMMA TimedHalf ==
  /\ \A row \in RowType : Timed(row)
  /\ \A row \in HalfType : Timed(row)
  /\ \A row : Timed(row) => Half(row) \in HalfType
  /\ \A row : /\ Half(row).tx = row.tx /\ Half(row).rx = row.rx
              /\ Half(row).localSeq = row.localSeq
  BY DEF Timed, RowType, HalfType, Half

\* A record has its own communication in the half of its status.
LEMMA RecordHalves ==
  ASSUME NEW status \in {SENDER, RECEIVER}, NEW own, NEW opposite, NEW summed,
         Timed(own), Timed(opposite), Timed(summed),
         NEW kind \in {"classic", "modified", "initial"}
  PROVE  LET record == Record(status, own, opposite, kind, summed)
         IN  /\ record \in RecordType
             /\ record[status] = Half(own) /\ record[Opposite(status)] = Half(opposite)
             /\ record.sumTof.kind = kind
             /\ record.send = Half(IF status = SENDER THEN own ELSE opposite)
             /\ record.receive = Half(IF status = SENDER THEN opposite ELSE own)
<1>1. Half(own) \in HalfType /\ Half(opposite) \in HalfType
  BY TimedHalf
<1>2. CASE status = SENDER
  BY <1>1, <1>2 DEF Record, RecordType, SumType, Timed, Opposite, SENDER, RECEIVER
<1>3. CASE status = RECEIVER
  BY <1>1, <1>3 DEF Record, RecordType, SumType, Timed, Opposite, SENDER, RECEIVER
<1>. QED  BY <1>2, <1>3

\* The initialization changes the buffer only for three communications found
\* one before the other, and then adds one record in each direction.
LEMMA InitializeAdds ==
  ASSUME NEW listA \in ListType, NEW listB \in ListType, NEW indexA \in Rows,
         NEW buffer, NEW status \in {SENDER, RECEIVER}
  PROVE  LET r  == initializeCalculateTof(listA, listB, indexA, buffer, status)
             A1 == listA.row[indexA]
         IN  \/ r = [buffer |-> buffer, added |-> FALSE]
             \/ \E b2, a3 \in Rows : LET B2 == listB.row[b2]
                                         A3 == listA.row[a3]
                IN  /\ IsFull(A1) /\ IsFull(B2) /\ IsFull(A3)
                    /\ status = SENDER => B2.rx < A1.tx /\ A3.tx < B2.rx
                    /\ status = RECEIVER => B2.tx < A1.rx /\ A3.rx < B2.tx
                    /\ ~Negative(A3, B2, A1)
                    /\ r = [buffer |-> AddPair(buffer, status, A3, B2, A1), added |-> TRUE]
<1>. DEFINE A1 == listA.row[indexA]
            b2 == searchRangingList(listB, IF status = SENDER THEN A1.tx ELSE A1.rx, status)
            B2 == listB.row[b2]
            a3 == searchRangingList(listA, IF status = SENDER THEN B2.rx ELSE B2.tx,
                                    Opposite(status))
            A3 == listA.row[a3]
            r  == initializeCalculateTof(listA, listB, indexA, buffer, status)
<1>1. \/ r = [buffer |-> buffer, added |-> FALSE]
      \/ /\ r = [buffer |-> AddPair(buffer, status, A3, B2, A1), added |-> TRUE]
         /\ IsFull(A1) /\ b2 # NULL_INDEX /\ a3 # NULL_INDEX /\ ~Negative(A3, B2, A1)
  BY DEF initializeCalculateTof
<1>2. SUFFICES ASSUME r # [buffer |-> buffer, added |-> FALSE]
               PROVE  \E i, j \in Rows :
                        /\ IsFull(A1) /\ IsFull(listB.row[i]) /\ IsFull(listA.row[j])
                        /\ status = SENDER => listB.row[i].rx < A1.tx
                                              /\ listA.row[j].tx < listB.row[i].rx
                        /\ status = RECEIVER => listB.row[i].tx < A1.rx
                                                /\ listA.row[j].rx < listB.row[i].tx
                        /\ ~Negative(listA.row[j], listB.row[i], A1)
                        /\ r = [buffer |-> AddPair(buffer, status, listA.row[j],
                                                   listB.row[i], A1), added |-> TRUE]
  BY DEF Negative
<1>3. A1 \in RowType
  BY DEF ListType
<1>4. /\ b2 \in Rows /\ IsFull(B2)
      /\ status = SENDER => B2.rx < A1.tx
      /\ status = RECEIVER => B2.tx < A1.rx
  <2>. DEFINE time == IF status = SENDER THEN A1.tx ELSE A1.rx
  <2>1. time \in Nat
    BY <1>3 DEF RowType
  <2>. HIDE DEF time
  <2>2. \/ searchRangingList(listB, time, status) = NULL_INDEX
        \/ LET i == searchRangingList(listB, time, status)
           IN  /\ i \in Rows /\ IsFull(listB.row[i])
               /\ status = SENDER => listB.row[i].rx < time
               /\ status = RECEIVER => listB.row[i].tx < time
    BY <2>1, SearchRow
  <2>. QED  BY <1>1, <1>2, <2>2 DEF time, SENDER, RECEIVER
<1>5. B2 \in RowType
  BY <1>4 DEF ListType
<1>6. /\ a3 \in Rows /\ IsFull(A3)
      /\ status = SENDER => A3.tx < B2.rx
      /\ status = RECEIVER => A3.rx < B2.tx
  <2>. HIDE DEF b2
  <2>. DEFINE time == IF status = SENDER THEN B2.rx ELSE B2.tx
  <2>1. time \in Nat
    BY <1>5 DEF RowType
  <2>. HIDE DEF time
  <2>2. \/ searchRangingList(listA, time, Opposite(status)) = NULL_INDEX
        \/ LET i == searchRangingList(listA, time, Opposite(status))
           IN  /\ i \in Rows /\ IsFull(listA.row[i])
               /\ Opposite(status) = SENDER => listA.row[i].rx < time
               /\ Opposite(status) = RECEIVER => listA.row[i].tx < time
    BY <2>1, SearchRow, OppositeStatus
  <2>. QED  BY <1>1, <1>2, <2>2 DEF time, Opposite, SENDER, RECEIVER
<1>. HIDE DEF b2, a3, A1, r
<1>. QED  BY <1>1, <1>2, <1>4, <1>6

\* Every outcome of calculateTof leaves the buffer, or adds one record of the row
\* and of a communication the opposite ring holds.
LEMMA CalculateAdds ==
  ASSUME NEW buffer \in BufferType, NEW row \in RowType, NEW status \in {SENDER, RECEIVER},
         NEW r \in calculateTof(buffer, row, status)
  PROVE  LET rec == buffer[Opposite(status)].rec
         IN  \/ r = [buffer |-> buffer, added |-> FALSE]
             \/ \E i \in Held(buffer[Opposite(status)]), j \in Records :
                  r = [added  |-> TRUE,
                       buffer |-> [buffer EXCEPT ![status] =
                         AddRecord(@, Record(status, row, rec[i][Opposite(status)],
                                             "modified", rec[j][Opposite(status)]))]]
<1>. DEFINE rec   == buffer[Opposite(status)].rec
            last  == searchRangingBuffer(buffer, row.localSeq, status)
            retry == searchRangingBuffer(buffer, rec[last][status].localSeq, status)
            Stored(i) ==
              [added  |-> TRUE,
               buffer |-> [buffer EXCEPT ![status] =
                 AddRecord(@, Record(status, row, rec[last][Opposite(status)],
                                     "modified", rec[i][Opposite(status)]))]]
            failed == [buffer |-> buffer, added |-> FALSE]
<1>1. \/ r = failed
      \/ last # NULL_INDEX /\ r = Stored(last)
      \/ last # NULL_INDEX /\ retry # NULL_INDEX /\ r = Stored(retry)
  <2>. HIDE DEF last, retry
  <2>. QED  BY DEF calculateTof, last, retry
<1>2. last # NULL_INDEX => last \in Held(buffer[Opposite(status)]) /\ last \in Records
  <2>1. row.localSeq \in Nat
    BY DEF RowType
  <2>. QED  BY <2>1, SearchRecord
<1>3. last # NULL_INDEX /\ retry # NULL_INDEX => retry \in Records
  <2>. HIDE DEF last
  <2>. SUFFICES ASSUME last # NULL_INDEX  PROVE retry # NULL_INDEX => retry \in Records
    OBVIOUS
  <2>1. rec[last] \in RecordType
    BY <1>2, OppositeStatus DEF BufferType, RingType, SENDER, RECEIVER
  <2>2. rec[last][status].localSeq \in Nat
    BY <2>1 DEF RecordType, HalfType, SENDER, RECEIVER
  <2>. QED  BY <2>2, SearchRecord
<1>. HIDE DEF last, retry
<1>. QED  BY <1>1, <1>2, <1>3
-----------------------------------------------------------------------------
(* The rows of a list back from its last.                                  *)

\* The k-th slot of a ring back from top.
At(top, k) == (top - k + 1 + RANGING_LIST_SIZE) % RANGING_LIST_SIZE

\* The slots the scans back from top read.
LEMMA AtSlot ==
  ASSUME NEW top \in Rows \cup {NULL_INDEX}, NEW k \in 1..RANGING_LIST_SIZE
  PROVE  At(top, k) \in Rows
         /\ At(top, k) = IF k <= top + 1 THEN top - k + 1 ELSE top - k + 1 + RANGING_LIST_SIZE
<1>. DEFINE a == top - k + 1 + RANGING_LIST_SIZE
            N == RANGING_LIST_SIZE
<1>1. a \in Nat /\ a < N + N /\ N \in Nat \ {0} /\ top \in -1..N - 1
  BY RowsSize DEF NULL_INDEX
<1>2. a % N = IF a < N THEN a ELSE a - N
  <2>. HIDE DEF a
  <2>. QED  BY <1>1, Wrap
<1>. QED  BY <1>1, <1>2, RowsSize DEF At

\* Every slot is one of them.
LEMMA AtBack ==
  ASSUME NEW top \in Rows \cup {NULL_INDEX}, NEW i \in Rows
  PROVE  LET k == Back(top, i, RANGING_LIST_SIZE) + 1
         IN  k \in 1..RANGING_LIST_SIZE /\ At(top, k) = i
<1>. DEFINE N == RANGING_LIST_SIZE
            b == Back(top, i, N)
<1>1. N \in Nat \ {0} /\ top \in 0..N - 1 \cup {NULL_INDEX} /\ i \in 0..N - 1
  BY RowsSize
<1>2. (b = IF i <= top THEN top - i ELSE top - i + N) /\ b \in 0..N - 1
  BY <1>1, BackSteps
<1>3. top \in -1..N - 1
  BY <1>1 DEF NULL_INDEX
<1>. HIDE DEF b
<1>4. b + 1 \in 1..N
  BY <1>1, <1>2
<1>5. At(top, b + 1) = IF b + 1 <= top + 1 THEN top - (b + 1) + 1 ELSE top - (b + 1) + 1 + N
  BY <1>4, AtSlot
<1>6. At(top, b + 1) = i
  BY <1>1, <1>2, <1>3, <1>5
<1>. QED  BY <1>4, <1>6 DEF b

\* And each only once.
LEMMA BackAt ==
  ASSUME NEW top \in Rows \cup {NULL_INDEX}, NEW k \in 1..RANGING_LIST_SIZE
  PROVE  Back(top, At(top, k), RANGING_LIST_SIZE) = k - 1
<1>. DEFINE N == RANGING_LIST_SIZE
            i == At(top, k)
            b == Back(top, i, N)
<1>1. /\ i \in Rows
      /\ i = IF k <= top + 1 THEN top - k + 1 ELSE top - k + 1 + N
  BY AtSlot
<1>2. N \in Nat \ {0} /\ top \in 0..N - 1 \cup {NULL_INDEX} /\ i \in 0..N - 1
  BY <1>1, RowsSize
<1>3. top \in -1..N - 1
  BY <1>2 DEF NULL_INDEX
<1>. HIDE DEF i
<1>4. (b = IF i <= top THEN top - i ELSE top - i + N) /\ b \in 0..N - 1
  BY <1>2, BackSteps
<1>. HIDE DEF b
<1>5. b = k - 1
  BY <1>1, <1>2, <1>3, <1>4
<1>. QED  BY <1>5 DEF b, i

\* With the next slot as top, the slots are one step further back.
LEMMA AtAfter ==
  ASSUME NEW top \in Rows \cup {NULL_INDEX}, NEW next, next = (top + 1) % RANGING_LIST_SIZE
  PROVE  /\ next \in Rows /\ At(next, 1) = next
         /\ \A k \in 2..RANGING_LIST_SIZE : At(next, k) = At(top, k - 1) /\ At(next, k) # next
<1>. DEFINE N == RANGING_LIST_SIZE
<1>1. N \in Nat \ {0} /\ top \in 0..N - 1 \cup {NULL_INDEX} /\ top \in -1..N - 1 /\ Rows = 0..N - 1
  BY RowsSize DEF NULL_INDEX
<1>2. next = IF top = N - 1 THEN 0 ELSE top + 1
  BY <1>1, RingNext
<1>3. next \in Rows
  BY <1>1, <1>2
<1>4. \A k \in 1..N : At(next, k) = IF k <= next + 1 THEN next - k + 1 ELSE next - k + 1 + N
  BY <1>3, AtSlot
<1>5. \A k \in 1..N : At(top, k) = IF k <= top + 1 THEN top - k + 1 ELSE top - k + 1 + N
  BY AtSlot
<1>6. At(next, 1) = next
  BY <1>1, <1>3, <1>4
<1>7. ASSUME NEW k \in 2..N
      PROVE  At(next, k) = At(top, k - 1) /\ At(next, k) # next
  <2>1. At(next, k) = IF k <= next + 1 THEN next - k + 1 ELSE next - k + 1 + N
    BY <1>1, <1>4
  <2>2. k - 1 \in 1..N
    BY <1>1
  <2>3. At(top, k - 1) = IF k - 1 <= top + 1 THEN top - (k - 1) + 1 ELSE top - (k - 1) + 1 + N
    BY <1>5, <2>2
  <2>. DEFINE x == At(next, k)
              y == At(top, k - 1)
  <2>4. /\ x = IF k <= next + 1 THEN next - k + 1 ELSE next - k + 1 + N
        /\ y = IF k - 1 <= top + 1 THEN top - (k - 1) + 1 ELSE top - (k - 1) + 1 + N
    BY <2>1, <2>3
  <2>. HIDE DEF x, y
  <2>5. x = y /\ x # next
    <3>1. CASE top = N - 1
      BY <1>1, <1>2, <2>4, <3>1
    <3>2. CASE top # N - 1
      BY <1>1, <1>2, <2>4, <3>2
    <3>. QED  BY <3>1, <3>2
  <2>. QED  BY <2>5 DEF x, y
<1>. QED  BY <1>3, <1>6, <1>7
-----------------------------------------------------------------------------
(* The order of a list.                                                    *)

\* The number in the k-th row back from the last one.
SeqAt(list, k) == list.row[At(list.top, k)].localSeq

\* The numbers of a list, and those of its last n rows.
Listed(list) == {list.row[i].localSeq : i \in Rows} \ {NULL_SEQ}
LastOf(list, n) == {SeqAt(list, k) : k \in 1..n} \ {NULL_SEQ}

\* The numbers fall from row to row, and free rows are the last.
Descends(list) == \A k, n \in 1..RANGING_LIST_SIZE :
  k < n /\ SeqAt(list, n) # NULL_SEQ => SeqAt(list, n) < SeqAt(list, k)

\* The numbers of a list are numbers.
LEMMA SeqAtNat ==
  ASSUME NEW list \in ListType
  PROVE  /\ \A k \in 1..RANGING_LIST_SIZE : SeqAt(list, k) \in Nat
         /\ \A i \in Rows : list.row[i].localSeq \in Nat
         /\ 1 \in 1..RANGING_LIST_SIZE
         /\ Listed(list) \in SUBSET (Nat \ {0})
<1>1. list.top \in Rows \cup {NULL_INDEX} /\ \A i \in Rows : list.row[i].localSeq \in Nat
  BY DEF ListType, RowType
<1>2. \A k \in 1..RANGING_LIST_SIZE : At(list.top, k) \in Rows
  BY <1>1, AtSlot
<1>. QED  BY <1>1, <1>2, RowsSize DEF SeqAt, Listed, NULL_SEQ

\* Every row is found on the way back from the last,
LEMMA SeqOfRow ==
  ASSUME NEW list \in ListType, NEW i \in Rows
  PROVE  \E k \in 1..RANGING_LIST_SIZE : At(list.top, k) = i /\ SeqAt(list, k) = list.row[i].localSeq
<1>1. list.top \in Rows \cup {NULL_INDEX}
  BY DEF ListType
<1>. QED  BY <1>1, AtBack DEF SeqAt

\* so the numbers of a list are those found on it.
LEMMA SeqListed ==
  ASSUME NEW list \in ListType
  PROVE  /\ \A x \in Listed(list) : \E k \in 1..RANGING_LIST_SIZE : SeqAt(list, k) = x
         /\ \A k \in 1..RANGING_LIST_SIZE : SeqAt(list, k) # NULL_SEQ => SeqAt(list, k) \in Listed(list)
<1>1. \A k \in 1..RANGING_LIST_SIZE : At(list.top, k) \in Rows
  BY AtSlot DEF ListType
<1>2. \A x \in Listed(list) : \E k \in 1..RANGING_LIST_SIZE : SeqAt(list, k) = x
  BY SeqOfRow DEF Listed
<1>. QED  BY <1>1, <1>2 DEF SeqAt, Listed

\* The last row has the greatest number, and no number is in two rows.
LEMMA TopGreatest ==
  ASSUME NEW list \in ListType, Descends(list)
  PROVE  /\ \A x \in Listed(list) : x <= SeqAt(list, 1)
         /\ \A i, j \in Rows : list.row[i].localSeq # NULL_SEQ
                               /\ list.row[i].localSeq = list.row[j].localSeq => i = j
<1>1. ASSUME NEW x \in Listed(list)
      PROVE  x <= SeqAt(list, 1)
  <2>1. PICK k \in 1..RANGING_LIST_SIZE : SeqAt(list, k) = x
    BY SeqListed
  <2>2. x # NULL_SEQ /\ x \in Nat /\ SeqAt(list, 1) \in Nat /\ 1 \in 1..RANGING_LIST_SIZE
    BY SeqAtNat DEF Listed
  <2>3. k = 1 \/ 1 < k
    BY <2>1
  <2>. QED  BY <2>1, <2>2, <2>3 DEF Descends
<1>2. ASSUME NEW i \in Rows, NEW j \in Rows, list.row[i].localSeq # NULL_SEQ,
             list.row[i].localSeq = list.row[j].localSeq
      PROVE  i = j
  <2>1. PICK k \in 1..RANGING_LIST_SIZE : At(list.top, k) = i /\ SeqAt(list, k) = list.row[i].localSeq
    BY SeqOfRow
  <2>2. PICK n \in 1..RANGING_LIST_SIZE : At(list.top, n) = j /\ SeqAt(list, n) = list.row[j].localSeq
    BY SeqOfRow
  <2>3. SeqAt(list, k) \in Nat /\ SeqAt(list, n) \in Nat /\ SeqAt(list, k) = SeqAt(list, n)
    BY <1>2, <2>1, <2>2, SeqAtNat
  <2>4. ~(k < n) /\ ~(n < k)
    BY <1>2, <2>1, <2>2, <2>3 DEF Descends
  <2>5. k = n
    BY <2>4
  <2>. QED  BY <2>1, <2>2, <2>5
<1>. QED  BY <1>1, <1>2

\* List `new' is `old' with a row of number x after the last.
RowAdded(new, old, x) ==
  /\ new \in ListType /\ old \in ListType
  /\ new.top = (old.top + 1) % RANGING_LIST_SIZE
  /\ new.row[new.top].localSeq = x
  /\ \A i \in Rows \ {new.top} : new.row[i] = old.row[i]

\* What the way back from the new row finds.
LEMMA AddedSeqs ==
  ASSUME NEW new, NEW old, NEW x \in Nat, RowAdded(new, old, x)
  PROVE  /\ new.top \in Rows /\ SeqAt(new, 1) = x
         /\ \A k \in 2..RANGING_LIST_SIZE : SeqAt(new, k) = SeqAt(old, k - 1)
<1>1. old.top \in Rows \cup {NULL_INDEX} /\ new.top = (old.top + 1) % RANGING_LIST_SIZE
  BY DEF RowAdded, ListType
<1>2. /\ new.top \in Rows /\ At(new.top, 1) = new.top
      /\ \A k \in 2..RANGING_LIST_SIZE :
           At(new.top, k) = At(old.top, k - 1) /\ At(new.top, k) # new.top
  BY <1>1, AtAfter
<1>3. \A k \in 2..RANGING_LIST_SIZE : At(new.top, k) \in Rows
  <2>1. \A k \in 2..RANGING_LIST_SIZE : k \in 1..RANGING_LIST_SIZE
    BY RowsSize
  <2>. QED  BY <1>2, <2>1, AtSlot
<1>. QED  BY <1>2, <1>3 DEF RowAdded, SeqAt

\* A number above all others keeps the order.
LEMMA AddedDescends ==
  ASSUME NEW new, NEW old, NEW x \in Nat, RowAdded(new, old, x),
         Descends(old), SeqAt(old, 1) < x
  PROVE  /\ Descends(new) /\ Listed(new) \in SUBSET (Listed(old) \cup {x})
         /\ \A y \in Listed(old) : y < x
<1>1. /\ SeqAt(new, 1) = x
      /\ \A k \in 2..RANGING_LIST_SIZE : SeqAt(new, k) = SeqAt(old, k - 1)
  BY AddedSeqs
<1>2. old \in ListType /\ new \in ListType
  BY DEF RowAdded
<1>3. /\ \A k \in 1..RANGING_LIST_SIZE : SeqAt(old, k) \in Nat
      /\ Listed(old) \in SUBSET (Nat \ {0}) /\ 1 \in 1..RANGING_LIST_SIZE
  BY <1>2, SeqAtNat
<1>4. \A y \in Listed(old) : y < x
  <2>1. \A y \in Listed(old) : y <= SeqAt(old, 1) /\ y \in Nat
    BY <1>2, <1>3, TopGreatest
  <2>. QED  BY <1>3, <2>1
<1>5. \A k \in 1..RANGING_LIST_SIZE : SeqAt(old, k) < x
  <2>1. \A k \in 1..RANGING_LIST_SIZE : SeqAt(old, k) # NULL_SEQ => SeqAt(old, k) < x
    BY <1>2, <1>4, SeqListed
  <2>. QED  BY <1>3, <2>1 DEF NULL_SEQ
<1>6. Descends(new)
  <2>1. SUFFICES ASSUME NEW k \in 1..RANGING_LIST_SIZE, NEW n \in 1..RANGING_LIST_SIZE, k < n,
                        SeqAt(new, n) # NULL_SEQ
                 PROVE  SeqAt(new, n) < SeqAt(new, k)
    BY DEF Descends
  <2>2. n \in 2..RANGING_LIST_SIZE /\ n - 1 \in 1..RANGING_LIST_SIZE
    BY <2>1, RowsSize
  <2>3. CASE k = 1
    BY <1>1, <1>5, <2>2, <2>3
  <2>4. CASE k # 1
    <3>1. k \in 2..RANGING_LIST_SIZE /\ k - 1 \in 1..RANGING_LIST_SIZE /\ k - 1 < n - 1
      BY <2>1, <2>4, RowsSize
    <3>. QED  BY <1>1, <2>1, <2>2, <3>1 DEF Descends
  <2>. QED  BY <2>3, <2>4
<1>7. Listed(new) \in SUBSET (Listed(old) \cup {x})
  BY DEF RowAdded, Listed
<1>. QED  BY <1>4, <1>6, <1>7
-----------------------------------------------------------------------------
(* Windows of numbers: the last n rows of a list, as reported.             *)

\* Window W reaches beyond the numbers of S, and has those it goes back to.
Covers(S, W) == \A x \in S : (\E w \in W : x <= w) /\ \A w \in W : w <= x => x \in W

\* Window W is window U some rows later.
MovedOn(U, W) == Covers(U, W) /\ \A w \in W, x \in U : w \in U \/ x < w

\* A window that stays has moved on,
LEMMA MovedOnSelf ==
  ASSUME NEW U \in SUBSET Nat
  PROVE  MovedOn(U, U)
  BY DEF MovedOn, Covers

\* and one that moves on twice.
LEMMA MovedOnAgain ==
  ASSUME NEW U \in SUBSET Nat, NEW V \in SUBSET Nat, NEW W \in SUBSET Nat,
         MovedOn(U, V), MovedOn(V, W)
  PROVE  MovedOn(U, W)
<1>1. ASSUME NEW x \in U
      PROVE  \E w \in W : x <= w
  <2>1. PICK v \in V : x <= v
    BY DEF MovedOn, Covers
  <2>2. PICK w \in W : v <= w
    BY DEF MovedOn, Covers
  <2>. QED  BY <2>1, <2>2
<1>2. ASSUME NEW x \in U, NEW w \in W, w <= x
      PROVE  x \in W
  <2>1. PICK v \in V : x <= v
    BY DEF MovedOn, Covers
  <2>2. w \in V
    <3>1. ~(v < w)
      BY <1>2, <2>1
    <3>. QED  BY <3>1 DEF MovedOn
  <2>3. x \in V
    BY <1>2, <2>2 DEF MovedOn, Covers
  <2>. QED  BY <1>2, <2>3 DEF MovedOn, Covers
<1>3. ASSUME NEW w \in W, NEW x \in U, w \notin U
      PROVE  x < w
  <2>1. PICK v \in V : x <= v
    BY DEF MovedOn, Covers
  <2>2. CASE w \in V
    BY <1>3, <2>2 DEF MovedOn
  <2>3. CASE w \notin V
    <3>1. v < w
      BY <2>3 DEF MovedOn
    <3>. QED  BY <2>1, <3>1
  <2>. QED  BY <2>2, <2>3
<1>. QED  BY <1>1, <1>2, <1>3 DEF MovedOn, Covers

\* A window goes on to cover a set.
LEMMA CoversAgain ==
  ASSUME NEW S \in SUBSET Nat, NEW V \in SUBSET Nat, NEW W \in SUBSET Nat,
         Covers(S, V), MovedOn(V, W)
  PROVE  Covers(S, W)
<1>1. SUFFICES ASSUME NEW x \in S
               PROVE  (\E w \in W : x <= w) /\ \A w \in W : w <= x => x \in W
  BY DEF Covers
<1>2. PICK v \in V : x <= v
  BY DEF Covers
<1>3. \E w \in W : x <= w
  <2>1. PICK w \in W : v <= w
    BY DEF MovedOn, Covers
  <2>. QED  BY <1>2, <2>1
<1>4. ASSUME NEW w \in W, w <= x
      PROVE  x \in W
  <2>1. w \in V
    <3>1. ~(v < w)
      BY <1>2, <1>4
    <3>. QED  BY <3>1 DEF MovedOn
  <2>2. x \in V
    BY <1>4, <2>1 DEF Covers
  <2>. QED  BY <1>4, <2>2 DEF MovedOn, Covers
<1>. QED  BY <1>3, <1>4

\* A new row moves the window of a list.
LEMMA WindowMoves ==
  ASSUME NEW new, NEW old, NEW x \in Nat, RowAdded(new, old, x),
         Descends(old), SeqAt(old, 1) < x, NEW n \in 1..RANGING_LIST_SIZE
  PROVE  /\ LastOf(old, n) \in SUBSET Nat /\ LastOf(new, n) \in SUBSET Nat
         /\ MovedOn(LastOf(old, n), LastOf(new, n))
<1>. DEFINE V == LastOf(old, n)
            W == LastOf(new, n)
<1>1. /\ SeqAt(new, 1) = x
      /\ \A k \in 2..RANGING_LIST_SIZE : SeqAt(new, k) = SeqAt(old, k - 1)
  BY AddedSeqs
<1>2. old \in ListType /\ new \in ListType
  BY DEF RowAdded
<1>3. /\ \A k \in 1..RANGING_LIST_SIZE : SeqAt(old, k) \in Nat /\ SeqAt(new, k) \in Nat
      /\ 1 \in 1..n /\ \A k \in 1..n : k \in 1..RANGING_LIST_SIZE
      /\ x # NULL_SEQ
  <2>1. SeqAt(old, 1) \in Nat
    BY <1>2, SeqAtNat
  <2>. QED  BY <1>2, <2>1, SeqAtNat, RowsSize DEF NULL_SEQ
<1>4. V \in SUBSET Nat /\ W \in SUBSET Nat
  BY <1>3 DEF LastOf
<1>5. \A v \in V : v < x
  <2>1. \A v \in V : v \in Listed(old)
    BY <1>2, <1>3, SeqListed DEF LastOf
  <2>. QED  BY <2>1, AddedDescends
<1>6. x \in W
  BY <1>1, <1>3 DEF LastOf
<1>7. ASSUME NEW w \in W, w # x
      PROVE  \E k \in 1..n : k + 1 \in 1..n /\ SeqAt(old, k) = w /\ w # NULL_SEQ
  <2>1. PICK k \in 1..n : SeqAt(new, k) = w /\ w # NULL_SEQ
    BY DEF LastOf
  <2>2. k # 1 /\ k \in 2..RANGING_LIST_SIZE
    BY <1>1, <1>3, <1>7, <2>1
  <2>3. k - 1 \in 1..n /\ (k - 1) + 1 = k
    BY <2>2
  <2>. QED  BY <1>1, <2>1, <2>2, <2>3
<1>8. ASSUME NEW v \in V, NEW w \in W, w <= v
      PROVE  v \in W
  <2>1. w # x /\ w \in Nat /\ v \in Nat
    BY <1>4, <1>5, <1>8
  <2>2. PICK k \in 1..n : k + 1 \in 1..n /\ SeqAt(old, k) = w /\ w # NULL_SEQ
    BY <1>7, <2>1
  <2>3. PICK l \in 1..n : SeqAt(old, l) = v /\ v # NULL_SEQ
    BY DEF LastOf
  <2>4. ~(k < l)
    BY <1>3, <1>8, <2>1, <2>2, <2>3 DEF Descends
  <2>5. l + 1 \in 1..n /\ l + 1 \in 2..RANGING_LIST_SIZE /\ (l + 1) - 1 = l
    BY <1>3, <2>2, <2>4
  <2>6. SeqAt(new, l + 1) = v
    BY <1>1, <2>3, <2>5
  <2>. QED  BY <2>3, <2>5, <2>6 DEF LastOf
<1>9. \A w \in W, v \in V : w \in V \/ v < w
  <2>1. \A w \in W : w # x => w \in V
    BY <1>7 DEF LastOf
  <2>. QED  BY <1>5, <2>1
<1>10. \A v \in V : \E w \in W : v <= w
  BY <1>4, <1>5, <1>6
<1>. HIDE DEF V, W
<1>11. MovedOn(V, W)
  BY <1>8, <1>9, <1>10 DEF MovedOn, Covers
<1>. QED  BY <1>4, <1>11 DEF V, W
-----------------------------------------------------------------------------
\* A window of no more numbers than the list has rows, which covers the list with
\* its new row, has not the number the new row replaced.
LEMMA Replaced ==
  ASSUME NEW new, NEW old, NEW x \in Nat, RowAdded(new, old, x),
         Descends(old), SeqAt(old, 1) < x, NEW n \in 1..RANGING_LIST_SIZE,
         NEW w, NEW W, W \in SUBSET {w[j] : j \in 1..n}, Covers(Listed(new), W),
         NEW y \in W, y \in Listed(old)
  PROVE  y \in Listed(new)
<1>. DEFINE N == RANGING_LIST_SIZE
            J(z) == CHOOSE j \in 1..n : w[j] = z
            z(i) == IF i = N THEN y ELSE new.row[i].localSeq
            f == [i \in 0..N |-> J(z(i))]
<1>1. SUFFICES ASSUME y \notin Listed(new)  PROVE FALSE
  OBVIOUS
<1>2. /\ old \in ListType /\ new \in ListType /\ Descends(new) /\ \A v \in Listed(old) : v < x
      /\ N \in Nat \ {0} /\ Rows = 0..N - 1 /\ y # NULL_SEQ /\ y \in Nat
  <2>1. old \in ListType /\ new \in ListType
    BY DEF RowAdded
  <2>. QED  BY <2>1, AddedDescends, RowsSize, SeqAtNat DEF NULL_SEQ
<1>3. /\ SeqAt(new, 1) = x /\ \A k \in 2..N : SeqAt(new, k) = SeqAt(old, k - 1)
      /\ \A k \in 1..N : SeqAt(old, k) \in Nat
  BY <1>2, AddedSeqs, SeqAtNat
<1>4. SeqAt(old, N) = y
  <2>1. PICK k \in 1..N : SeqAt(old, k) = y
    BY <1>2, SeqListed
  <2>2. k < N => k + 1 \in 2..N /\ k + 1 \in 1..N /\ (k + 1) - 1 = k
    BY <1>2
  <2>3. k < N => SeqAt(new, k + 1) = y /\ SeqAt(new, k + 1) \in Listed(new)
    BY <1>2, <1>3, <2>1, <2>2, SeqListed
  <2>. QED  BY <1>1, <1>2, <2>1, <2>3
<1>5. ASSUME NEW k \in 1..N
      PROVE  y < SeqAt(new, k)
  <2>1. CASE k = 1
    BY <1>2, <1>3, <2>1
  <2>2. CASE k # 1
    <3>1. k \in 2..N /\ k - 1 \in 1..N /\ k - 1 < N /\ N \in 1..N
      BY <1>2, <2>2
    <3>. QED  BY <1>2, <1>3, <1>4, <3>1 DEF Descends
  <2>. QED  BY <2>1, <2>2
<1>6. ASSUME NEW i \in Rows
      PROVE  y < new.row[i].localSeq /\ new.row[i].localSeq \in W
             /\ new.row[i].localSeq # NULL_SEQ /\ new.row[i].localSeq \in Nat
  <2>1. PICK k \in 1..N : SeqAt(new, k) = new.row[i].localSeq
    BY <1>2, SeqOfRow
  <2>2. y < new.row[i].localSeq /\ new.row[i].localSeq \in Nat
    BY <1>2, <1>5, <2>1, SeqAtNat
  <2>3. new.row[i].localSeq # NULL_SEQ
    BY <1>2, <2>2 DEF NULL_SEQ
  <2>4. new.row[i].localSeq \in Listed(new)
    BY <2>3 DEF Listed
  <2>5. y <= new.row[i].localSeq
    BY <1>2, <2>2
  <2>. QED  BY <2>2, <2>3, <2>4, <2>5 DEF Covers
<1>7. \A i \in 0..N : z(i) \in W
  BY <1>2, <1>6
<1>8. \A v \in W : J(v) \in 1..n /\ w[J(v)] = v
  BY DEF J
<1>9. f \in [0..N -> 1..n] /\ \A i \in 0..N : w[f[i]] = z(i)
  <2>. HIDE DEF J, z
  <2>. QED  BY <1>7, <1>8
<1>10. \A i, j \in 0..N : i # j => z(i) # z(j)
  <2>1. \A i, j \in Rows : i # j => new.row[i].localSeq # new.row[j].localSeq
    BY <1>2, <1>6, TopGreatest
  <2>2. \A i \in 0..N : i = N \/ i \in Rows
    BY <1>2
  <2>3. \A i \in Rows : y # new.row[i].localSeq /\ i # N
    BY <1>2, <1>6
  <2>. QED  BY <2>1, <2>2, <2>3
<1>11. /\ IsFiniteSet(0..N) /\ IsFiniteSet(1..n) /\ Cardinality(0..N) = N + 1
       /\ Cardinality(1..n) = n
  <2>1. n \in Int /\ N \in Int /\ 0 \in Int /\ 1 \in Int /\ n >= 1 /\ N >= 0
    BY <1>2
  <2>. HIDE DEF N
  <2>2. Cardinality(0..N) = N - 0 + 1 /\ Cardinality(1..n) = n - 1 + 1
    BY <2>1, FS_Interval
  <2>3. IsFiniteSet(0..N) /\ IsFiniteSet(1..n)
    BY <2>1, FS_Interval
  <2>. QED  BY <2>1, <2>2, <2>3
<1>12. Cardinality(1..n) < Cardinality(0..N)
  BY <1>2, <1>11
<1>. HIDE DEF f, z, N
<1>13. PICK i, j \in 0..N : i # j /\ f[i] = f[j]
  <2>1. \A S, T : IsFiniteSet(S) /\ IsFiniteSet(T) /\ Cardinality(T) < Cardinality(S)
                 /\ f \in [S -> T] => \E i, j \in S : i # j /\ f[i] = f[j]
    BY FS_PigeonHole
  <2>2. f \in [0..N -> 1..n]
    BY <1>9
  <2>. QED  BY <1>11, <1>12, <2>1, <2>2
<1>. QED  BY <1>9, <1>10, <1>13
-----------------------------------------------------------------------------
(* The records calculateTof made.                                          *)

\* The own numbers of the records calculateTof has made of status h.
Made(ring, h) ==
  {ring.rec[k][h].localSeq : k \in {k \in Held(ring) : ring.rec[k].sumTof.kind = "modified"}}

\* No two of these records are of one communication.
MadeOnce(ring, h) == \A k, n \in Held(ring) :
  /\ ring.rec[k].sumTof.kind = "modified" /\ ring.rec[n].sumTof.kind = "modified"
  /\ ring.rec[k][h].localSeq = ring.rec[n][h].localSeq
  => k = n

\* One more record, of a communication no record was made of.
LEMMA RecordMade ==
  ASSUME NEW ring \in RingType, RingOK(ring), NEW record \in RecordType, NEW h, MadeOnce(ring, h),
         record.sumTof.kind = "modified" => record[h].localSeq \notin Made(ring, h)
  PROVE  LET new == AddRecord(ring, record)
         IN  /\ MadeOnce(new, h)
             /\ Made(new, h) \in SUBSET (Made(ring, h) \cup {record[h].localSeq})
             /\ record.sumTof.kind # "modified" => Made(new, h) \in SUBSET Made(ring, h)
<1>. DEFINE new == AddRecord(ring, record)
<1>1. /\ new.rec[new.top] = record
      /\ \A k \in Held(new) : k = new.top \/ (k \in Held(ring) /\ new.rec[k] = ring.rec[k])
  BY NewRecord
<1>. HIDE DEF new
<1>2. MadeOnce(new, h)
  BY <1>1 DEF MadeOnce, Made
<1>3. /\ Made(new, h) \in SUBSET (Made(ring, h) \cup {record[h].localSeq})
      /\ record.sumTof.kind # "modified" => Made(new, h) \in SUBSET Made(ring, h)
  BY <1>1 DEF Made
<1>. QED  BY <1>2, <1>3 DEF new

\* The ring when the sums at the slots of S have become the average.
AveragedAt(ring, S) ==
  [ring EXCEPT !.rec = [k \in Records |->
     IF k \in S THEN [ring.rec[k] EXCEPT !.sumTof = InitialSum] ELSE ring.rec[k]]]

\* They are of no such record any more.
LEMMA AverageMade ==
  ASSUME NEW ring \in RingType, NEW S, NEW h \in {SENDER, RECEIVER}, MadeOnce(ring, h)
  PROVE  LET new == AveragedAt(ring, S)
         IN  MadeOnce(new, h) /\ Made(new, h) \in SUBSET Made(ring, h)
<1>. DEFINE rec == [k \in Records |-> IF k \in S THEN [ring.rec[k] EXCEPT !.sumTof = InitialSum]
                                      ELSE ring.rec[k]]
            new == [ring EXCEPT !.rec = rec]
<1>1. ASSUME NEW k \in Records
      PROVE  /\ rec[k][h] = ring.rec[k][h]
             /\ rec[k].sumTof.kind = "modified" => ring.rec[k].sumTof.kind = "modified"
  <2>1. ring.rec[k] \in RecordType
    BY DEF RingType
  <2>2. InitialSum.kind # "modified"
    BY DEF InitialSum
  <2>. QED  BY <2>1, <2>2 DEF RecordType, SENDER, RECEIVER
<1>. HIDE DEF rec
<1>2. new.top = ring.top /\ new.length = ring.length /\ new.rec = rec
  BY DEF RingType
<1>. HIDE DEF new
<1>3. Held(new) = Held(ring) /\ \A k \in Held(ring) : k \in Records
  BY <1>2 DEF Held
<1>4. MadeOnce(new, h) /\ Made(new, h) \in SUBSET Made(ring, h)
  BY <1>1, <1>2, <1>3 DEF MadeOnce, Made
<1>. QED  BY <1>4 DEF new, rec, AveragedAt

\* The initialization makes no such record.
LEMMA PairMade ==
  ASSUME NEW ring \in RingType, RingOK(ring), NEW status \in {SENDER, RECEIVER},
         NEW own \in RowType, NEW opposite \in RowType, NEW h, MadeOnce(ring, h)
  PROVE  LET new == AddRecord(ring, Record(status, own, opposite, "classic", opposite))
         IN  new \in RingType /\ MadeOnce(new, h) /\ Made(new, h) \in SUBSET Made(ring, h)
<1>. DEFINE record == Record(status, own, opposite, "classic", opposite)
<1>1. record \in RecordType /\ record.sumTof.kind # "modified"
  <2>1. Timed(own) /\ Timed(opposite)
    BY TimedHalf
  <2>. QED  BY <2>1, RecordHalves
<1>. HIDE DEF record
<1>2. /\ AddRecord(ring, record) \in RingType /\ MadeOnce(AddRecord(ring, record), h)
      /\ Made(AddRecord(ring, record), h) \in SUBSET Made(ring, h)
  BY <1>1, RecordMade, NewRecord
<1>. QED  BY <1>2 DEF record

\* calculateTof makes one of its row, at most.
LEMMA CalculateMade ==
  ASSUME NEW buffer, BufferOK(buffer), NEW row \in RowType, NEW status \in {SENDER, RECEIVER},
         NEW r \in calculateTof(buffer, row, status), NEW h \in {SENDER, RECEIVER},
         MadeOnce(buffer[h], h), h = status => row.localSeq \notin Made(buffer[h], h)
  PROVE  /\ MadeOnce(r.buffer[h], h)
         /\ Made(r.buffer[h], h) \in SUBSET (Made(buffer[h], h) \cup {row.localSeq})
         /\ h # status => r.buffer[h] = buffer[h]
<1>. DEFINE rec == buffer[Opposite(status)].rec
<1>1. CASE r = [buffer |-> buffer, added |-> FALSE]
  BY <1>1
<1>2. CASE \E i \in Held(buffer[Opposite(status)]), j \in Records :
             r = [added  |-> TRUE,
                  buffer |-> [buffer EXCEPT ![status] =
                    AddRecord(@, Record(status, row, rec[i][Opposite(status)],
                                        "modified", rec[j][Opposite(status)]))]]
  <2>1. PICK i \in Held(buffer[Opposite(status)]), j \in Records :
             r = [added  |-> TRUE,
                  buffer |-> [buffer EXCEPT ![status] =
                    AddRecord(@, Record(status, row, rec[i][Opposite(status)],
                                        "modified", rec[j][Opposite(status)]))]]
    BY <1>2
  <2>. DEFINE record == Record(status, row, rec[i][Opposite(status)], "modified",
                               rec[j][Opposite(status)])
  <2>2. buffer[Opposite(status)] \in RingType /\ buffer[h] \in RingType /\ RingOK(buffer[h])
    BY OppositeStatus DEF BufferOK, BufferType, SENDER, RECEIVER
  <2>3. rec[i] \in RecordType /\ rec[j] \in RecordType
    BY <2>2 DEF RingType, Held
  <2>4. record \in RecordType /\ record[status].localSeq = row.localSeq
    <3>1. Timed(row) /\ Timed(rec[i][Opposite(status)]) /\ Timed(rec[j][Opposite(status)])
      BY <2>3, TimedHalf, OppositeStatus DEF RecordType, SENDER, RECEIVER
    <3>2. record \in RecordType /\ record[status] = Half(row)
      BY <3>1, RecordHalves
    <3>. QED  BY <3>2, TimedHalf
  <2>5. r.buffer[h] = IF h = status THEN AddRecord(buffer[h], record) ELSE buffer[h]
    BY <2>1 DEF BufferOK, BufferType, SENDER, RECEIVER
  <2>. HIDE DEF record
  <2>6. CASE h = status
    BY <2>2, <2>4, <2>5, <2>6, RecordMade
  <2>7. CASE h # status
    BY <2>5, <2>7
  <2>. QED  BY <2>6, <2>7
<1>3. buffer \in BufferType
  BY DEF BufferOK
<1>. QED  BY <1>1, <1>2, <1>3, CalculateAdds

-----------------------------------------------------------------------------
(* The operators of TableSet.                                              *)

\* findRangingTable finds a table of the address, when there is just one.
LEMMA FindFound ==
  ASSUME NEW A, NEW s \in Seq(A), NEW a, NEW k \in 1..Len(s), s[k] = a,
         \A i, j \in 1..Len(s) : s[i] = s[j] => i = j
  PROVE  findRangingTable(s, a) = k
<1>1. \A i \in 1..Len(s) :
        (s[i] = a /\ \A j \in 1..i - 1 : s[j] # a) <=> i = k
  OBVIOUS
<1>. QED  BY <1>1 DEF findRangingTable

\* It returns 0 just when there is no table of the address.
LEMMA FindNone ==
  ASSUME NEW A, NEW s \in Seq(A), NEW a, \A i \in 1..Len(s) : s[i] # a
  PROVE  findRangingTable(s, a) = 0
  BY DEF findRangingTable

\* No address has two tables, and there are at most TABLE_SET_NEIGHBOR_NUM.
Distinct(s) == \A i, j \in 1..Len(s) : s[i] = s[j] => i = j

\* A registered address has its table, or a new one after all others while one
\* is left.
LEMMA Register ==
  ASSUME NEW A, NEW s \in Seq(A), NEW a \in A, Distinct(s), Len(s) <= TABLE_SET_NEIGHBOR_NUM
  PROVE  LET r == registerRangingTable(s, a)
             t == findRangingTable(r, a)
         IN  \/ /\ r = s /\ t \in 1..Len(s) /\ s[t] = a
             \/ /\ r = Append(s, a) /\ t = Len(s) + 1
                /\ Len(s) < TABLE_SET_NEIGHBOR_NUM
                /\ \A i \in 1..Len(s) : s[i] # a
                /\ Distinct(r)
             \/ /\ r = s /\ t = 0
                /\ Len(s) = TABLE_SET_NEIGHBOR_NUM
                /\ \A i \in 1..Len(s) : s[i] # a
<1>. DEFINE r == registerRangingTable(s, a)
            t == findRangingTable(r, a)
<1>1. CASE \E k \in 1..Len(s) : s[k] = a
  <2>1. PICK k \in 1..Len(s) : s[k] = a
    BY <1>1
  <2>2. findRangingTable(s, a) = k
    BY <2>1, FindFound DEF Distinct
  <2>3. r = s
    BY <2>2 DEF registerRangingTable
  <2>. QED  BY <2>1, <2>2, <2>3
<1>2. CASE ~\E k \in 1..Len(s) : s[k] = a
  <2>1. findRangingTable(s, a) = 0
    BY <1>2, FindNone
  <2>2. CASE Len(s) = TABLE_SET_NEIGHBOR_NUM
    BY <1>2, <2>1, <2>2 DEF registerRangingTable
  <2>3. CASE Len(s) # TABLE_SET_NEIGHBOR_NUM
    <3>1. r = Append(s, a)
      BY <2>1, <2>3 DEF registerRangingTable
    <3>. DEFINE u == Append(s, a)
                n == Len(s) + 1
    <3>2. /\ u \in Seq(A) /\ Len(u) = n /\ u[n] = a /\ n \in 1..Len(u)
          /\ \A i \in 1..Len(s) : u[i] = s[i]
      OBVIOUS
    <3>3. \A i, j \in 1..Len(u) : u[i] = u[j] => i = j
      BY <1>2, <3>2 DEF Distinct
    <3>4. findRangingTable(u, a) = n
      <4>. HIDE DEF u, n
      <4>. QED  BY <3>2, <3>3, FindFound
    <3>5. Len(s) < TABLE_SET_NEIGHBOR_NUM
      BY <2>3, TableAssumption
    <3>6. Distinct(u)
      BY <3>3 DEF Distinct
    <3>. QED  BY <1>2, <3>1, <3>4, <3>5, <3>6
  <2>. QED  BY <2>2, <2>3
<1>. QED  BY <1>1, <1>2

\* updatePriority keeps a queue of valid tables, for one that was in use and
\* for a new one, and puts the table at the tail.
LEMMA Update ==
  ASSUME NEW q \in Seq(Nat), NEW n \in Nat, NEW i \in 1..n,
         \A k \in 1..Len(q) : q[k] \in 1..n,
         Len(q) = n \/ (Len(q) = n - 1 /\ i = n)
  PROVE  LET u == updatePriority(q, n, i)
         IN  u \in Seq(1..n) /\ Len(u) = n /\ u[n] = i
<1>. DEFINE u == updatePriority(q, n, i)
            E(j) == IF j < i THEN j ELSE IF j < n THEN q[j + 1] ELSE i
<1>1. u = [j \in 1..n |-> E(j)]
  BY DEF updatePriority
<1>2. \A j \in 1..n : E(j) \in 1..n
  OBVIOUS
<1>3. u \in [1..n -> 1..n]
  BY <1>1, <1>2
<1>4. u \in Seq(1..n) /\ Len(u) = n
  <2>. HIDE DEF u
  <2>. QED  BY <1>3
<1>5. u[n] = i
  BY <1>1
<1>. QED  BY <1>4, <1>5
=============================================================================
