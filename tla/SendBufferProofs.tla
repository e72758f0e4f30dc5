------------------------- MODULE SendBufferProofs -------------------------
(***************************************************************************)
(* Proofs about the local send buffer, for every size of the ring, range   *)
(* of sequence numbers and number of messages.                             *)
(***************************************************************************)
EXTENDS SendBuffer, TLAPS

LEMMA DivMod ==
  ASSUME NEW a \in Nat, NEW N \in Nat \ {0}
  PROVE  /\ a = N * (a \div N) + (a % N)
         /\ a % N \in 0..N - 1
         /\ a \div N \in Nat
OBVIOUS

LEMMA Multiples ==
  ASSUME NEW N \in Nat \ {0}, NEW p \in Nat, NEW q \in Nat, p < q
  PROVE  N * p + N <= N * q
<1>1. N * (p + 1) <= N * q
  OBVIOUS
<1> QED BY <1>1

\* Numbers less than N apart have different remainders.
LEMMA Apart ==
  ASSUME NEW a \in Nat, NEW b \in Nat, NEW N \in Nat \ {0},
         a < b, b - a < N
  PROVE  a % N # b % N
<1> SUFFICES ASSUME a % N = b % N PROVE FALSE
  OBVIOUS
<1> DEFINE p == a \div N
           q == b \div N
<1>1. /\ a = N * p + (a % N) /\ b = N * q + (b % N)
      /\ a % N \in 0..N - 1 /\ b % N \in 0..N - 1
      /\ p \in Nat /\ q \in Nat
  BY DivMod
<1> HIDE DEF p, q
<1>2. CASE p < q
  <2>1. N * p + N <= N * q /\ N * p \in Nat /\ N * q \in Nat
    BY <1>1, <1>2, Multiples
  <2> QED BY <1>1, <2>1
<1>3. CASE q < p
  <2>1. N * q + N <= N * p /\ N * p \in Nat /\ N * q \in Nat
    BY <1>1, <1>3, Multiples
  <2> QED BY <1>1, <2>1
<1>4. CASE p = q
  BY <1>1, <1>4
<1> QED BY <1>1, <1>2, <1>3, <1>4

LEMMA Remainder ==
  ASSUME NEW N \in Nat \ {0}, NEW q \in Nat, NEW r \in 0..N - 1
  PROVE  (N * q + r) % N = r
<1>1. N * q \in Nat
  OBVIOUS
<1> DEFINE c == N * q + r
<1>2. c \in Nat /\ c >= r
  BY <1>1
<1> QED OBVIOUS

LEMMA Around ==
  ASSUME NEW a \in Nat, NEW N \in Nat \ {0}
  PROVE  (a + N) % N = a % N
<1> DEFINE q == a \div N
           r == a % N
<1>1. a = N * q + r /\ r \in 0..N - 1 /\ q \in Nat
  BY DivMod
<1> HIDE DEF q, r
<1>2. a + N = N * (q + 1) + r /\ q + 1 \in Nat
  BY <1>1
<1>3. (N * (q + 1) + r) % N = r
  BY <1>1, <1>2, Remainder
<1>4. (a + N) % N = r
  BY <1>2, <1>3
<1> QED BY <1>4 DEF r
-----------------------------------------------------------------------------
\* Slots and sequence numbers: messages less than a round apart have slots of
\* their own, messages at most a round apart sequence numbers of their own.
LEMMA Slots ==
  /\ \A a, b \in Nat : a < b /\ b - a < LOCAL_SEND_BUFFER_SIZE => Slot(a) # Slot(b)
  /\ \A a, b \in Nat : a < b /\ b - a <= LOCAL_SEND_BUFFER_SIZE => Seq(a) # Seq(b)
  /\ \A a \in Nat : Slot(a + LOCAL_SEND_BUFFER_SIZE) = Slot(a)
  /\ \A a \in Nat : Slot(a) \in Indices /\ Seq(a) \in 0..SeqRange - 1
<1> USE SendBufferAssumption
<1>1. SeqRange \in Nat \ {0}
  OBVIOUS
<1>2. \A a, b \in Nat : a < b /\ b - a < LOCAL_SEND_BUFFER_SIZE => Slot(a) # Slot(b)
  BY Apart DEF Slot
<1>3. \A a, b \in Nat : a < b /\ b - a <= LOCAL_SEND_BUFFER_SIZE => Seq(a) # Seq(b)
  <2> SUFFICES ASSUME NEW a \in Nat, NEW b \in Nat,
                      a < b, b - a <= LOCAL_SEND_BUFFER_SIZE
               PROVE  Seq(a) # Seq(b)
    OBVIOUS
  <2>1. b - a < SeqRange
    OBVIOUS
  <2> QED BY <1>1, <2>1, Apart DEF Seq
<1>4. \A a \in Nat : Slot(a + LOCAL_SEND_BUFFER_SIZE) = Slot(a)
  BY Around DEF Slot
<1>5. \A a \in Nat : Slot(a) \in Indices /\ Seq(a) \in 0..SeqRange - 1
  BY <1>1, DivMod DEF Slot, Seq, Indices
<1> QED BY <1>2, <1>3, <1>4, <1>5

LEMMA BeforeIndex ==
  ASSUME NEW i \in Indices
  PROVE  /\ Before(i) \in Indices /\ (i + 1) % LOCAL_SEND_BUFFER_SIZE \in Indices
         /\ Before(i) = IF i = 0 THEN LOCAL_SEND_BUFFER_SIZE - 1 ELSE i - 1
         /\ Slot(i) = i
<1> USE SendBufferAssumption DEF Indices
<1>1. Before(i) \in Indices /\ (i + 1) % LOCAL_SEND_BUFFER_SIZE \in Indices
  BY DivMod DEF Before
<1>2. Slot(i) = i
  BY DEF Slot
<1>3. CASE i = 0
  BY <1>1, <1>2, <1>3 DEF Before
<1>4. CASE i # 0
  <2> DEFINE j == i - 1
  <2>1. j \in Nat /\ j \in 0..LOCAL_SEND_BUFFER_SIZE - 1
    BY <1>4
  <2>2. j % LOCAL_SEND_BUFFER_SIZE = j
    BY <2>1
  <2>3. (j + LOCAL_SEND_BUFFER_SIZE) % LOCAL_SEND_BUFFER_SIZE = j
    BY <2>1, <2>2, Around
  <2> QED BY <1>1, <1>2, <1>4, <2>3 DEF Before
<1> QED BY <1>1, <1>2, <1>3, <1>4

\* Every slot is that of some message of the round that begins with message a,
\* and Before steps from the slot of a message to that of the one before it.
LEMMA Rounds ==
  ASSUME NEW a \in Nat
  PROVE  /\ \A i \in Indices : \E d \in 0..LOCAL_SEND_BUFFER_SIZE - 1 : Slot(a + d) = i
         /\ Before(Slot(a + 1)) = Slot(a)
<1> USE SendBufferAssumption
<1> DEFINE N == LOCAL_SEND_BUFFER_SIZE
           q == a \div N
           r == a % N
<1>1. a = N * q + r /\ r \in 0..N - 1 /\ q \in Nat
  BY DivMod
<1> HIDE DEF q, r
<1>2. \A j \in 0..N - 1 : Slot(N * q + j) = j /\ Slot(N * (q + 1) + j) = j
  BY <1>1, Remainder DEF Slot
<1>3. N * q \in Nat /\ N * (q + 1) = N * q + N
  BY <1>1
<1> HIDE DEF N
<1>4. N = LOCAL_SEND_BUFFER_SIZE
  BY DEF N
<1>5. ASSUME NEW i \in 0..N - 1
      PROVE  \E d \in 0..N - 1 : Slot(a + d) = i
  <2>1. CASE i >= r
    <3>1. a + (i - r) = N * q + i /\ i - r \in 0..N - 1
      BY <2>1, <1>1, <1>3, <1>4
    <3> QED BY <3>1, <1>2
  <2>2. CASE i < r
    <3>1. a + (i - r + N) = N * (q + 1) + i /\ i - r + N \in 0..N - 1
      BY <2>2, <1>1, <1>3, <1>4
    <3> QED BY <3>1, <1>2
  <2> QED BY <1>1, <1>4, <2>1, <2>2
<1>6. Before(Slot(a + 1)) = Slot(a)
  <2>1. Slot(a) = r
    BY <1>1, <1>2
  <2>2. CASE r = N - 1
    <3>1. a + 1 = N * (q + 1) + 0
      BY <2>2, <1>1, <1>3, <1>4
    <3>2. Slot(a + 1) = 0
      BY <3>1, <1>2, <1>4
    <3> QED BY <2>1, <2>2, <3>2, <1>4, BeforeIndex DEF Indices
  <2>3. CASE r # N - 1
    <3>1. a + 1 = N * q + (r + 1) /\ r + 1 \in 0..N - 1
      BY <2>3, <1>1, <1>3, <1>4
    <3>2. Slot(a + 1) = r + 1
      BY <3>1, <1>2, <1>4
    <3>3. Before(r + 1) = (r + 1) - 1
      BY <3>1, <1>1, <1>4, BeforeIndex DEF Indices
    <3> QED BY <2>1, <3>2, <3>3, <1>1
  <2> QED BY <2>2, <2>3
<1> QED BY <1>4, <1>5, <1>6 DEF Indices
-----------------------------------------------------------------------------
\* The entries of the messages kept, complete or as far as they are stored.
Stored ==
  /\ \A m \in 1..sent : Kept(m) => localSendBuffer[Slot(m)] = Entry(m)
  /\ stores # {} => \A f \in Fields \ stores :
                      localSendBuffer[Slot(sent + 1)][f] = Entry(sent + 1)[f]

\* Every sequence number in the ring is that of a message no older than a round
\* in the slot of that message, or, before the first round ends, of message 0.
Numbered ==
  \A i \in Indices : \E m \in 0..latest :
    /\ localSendBuffer[i].seqNumber = Seq(m)
    /\ m = 0 \/ Slot(m) = i
    /\ m + LOCAL_SEND_BUFFER_SIZE > sent

\* The search ends at the slot of the message, if that is still kept.
Searched ==
  /\ phase = "idle" => wanted = 0
  /\ phase # "idle" => wanted \in 1..sent /\ Seq(wanted) # NULL_SEQ
  /\ phase = "found" => loads = {}
  /\ phase \in {"load", "found"} /\ Kept(wanted) =>
       /\ index = Slot(wanted)
       /\ \A f \in Fields \ loads : FullNode[f] = Entry(wanted)[f]

\* While the message is kept, the search has not passed its slot.
NotPassed ==
  phase \in {"test", "compare"} /\ Kept(wanted) =>
    \E d \in Nat : /\ d + count < LOCAL_SEND_BUFFER_SIZE
                   /\ index = Slot(wanted + d)

IInv == TypeOK /\ Stored /\ Numbered /\ Searched /\ NotPassed /\ KeptEntryFound

LEMMA InitInv == Init => IInv
<1> SUFFICES ASSUME Init PROVE IInv
  OBVIOUS
<1> USE SendBufferAssumption DEF Init
<1>1. Entry(0) \in [seqNumber : 0..SeqRange - 1, timestamp : Nat, TxCoordinate : Nat]
  BY Slots DEF Entry
<1>2. TypeOK
  BY <1>1 DEF TypeOK, Indices
<1>3. Stored /\ Searched /\ NotPassed /\ KeptEntryFound
  BY DEF Stored, Searched, NotPassed, KeptEntryFound
<1>4. Numbered
  BY DEF Numbered, latest, Entry
<1> QED BY <1>2, <1>3, <1>4 DEF IInv

\* What an entry holds, field by field.
LEMMA EntryFields ==
  ASSUME NEW m \in Nat
  PROVE  /\ Entry(m) \in [seqNumber : 0..SeqRange - 1, timestamp : Nat, TxCoordinate : Nat]
         /\ Entry(m)["seqNumber"] = Seq(m)
         /\ \A e \in [seqNumber : 0..SeqRange - 1, timestamp : Nat, TxCoordinate : Nat] :
              (\A f \in Fields : e[f] = Entry(m)[f]) => e = Entry(m)
BY Slots DEF Entry, Fields

LEMMA AddBeginInv == IInv /\ AddBegin => IInv'
<1> SUFFICES ASSUME IInv, AddBegin PROVE IInv'
  OBVIOUS
<1> USE SendBufferAssumption DEF IInv, AddBegin, reader, TypeOK
<1>1. TypeOK'
  BY DEF Fields
<1>2. latest = sent /\ latest' = sent + 1
  BY DEF latest
<1>3. Stored'
  BY <1>2 DEF Stored, Kept
<1>4. Numbered'
  BY <1>2 DEF Numbered
<1>5. Searched' /\ NotPassed'
  BY <1>2 DEF Searched, NotPassed, Kept
<1>6. KeptEntryFound'
  BY <1>2 DEF KeptEntryFound, Kept
<1> QED BY <1>1, <1>3, <1>4, <1>5, <1>6

LEMMA AddStoreInv ==
  ASSUME IInv, NEW f \in Fields \cup {"top"}, AddStore(f)
  PROVE  IInv'
<1> USE SendBufferAssumption DEF IInv, AddStore, reader, TypeOK
<1> DEFINE here == Slot(sent + 1)
<1>1. sent + 1 \in Nat /\ here \in Indices
  BY Slots
<1>2. /\ latest = sent + 1 /\ latest' = sent + 1
      /\ sent' = sent \/ (sent' = sent + 1 /\ stores' = {})
      /\ stores' # {} => sent' = sent
  BY DEF latest
<1>3. /\ \A i \in Indices \ {here} : localSendBuffer'[i] = localSendBuffer[i]
      /\ \A g \in Fields \ {f} : localSendBuffer'[here][g] = localSendBuffer[here][g]
      /\ f # "top" => localSendBuffer'[here][f] = Entry(sent + 1)[f]
      /\ localSendBuffer' \in
           [Indices -> [seqNumber : 0..SeqRange - 1, timestamp : Nat, TxCoordinate : Nat]]
  <2>1. /\ Entry(sent + 1).seqNumber \in 0..SeqRange - 1
        /\ Entry(sent + 1).timestamp \in Nat
        /\ Entry(sent + 1).TxCoordinate \in Nat
    BY <1>1, EntryFields
  <2>2. CASE f = "top"
    BY <2>2
  <2>3. CASE f = "seqNumber"
    BY <2>1, <2>3, <1>1 DEF Fields
  <2>4. CASE f = "timestamp"
    BY <2>1, <2>4, <1>1 DEF Fields
  <2>5. CASE f = "TxCoordinate"
    BY <2>1, <2>5, <1>1 DEF Fields
  <2> QED BY <2>2, <2>3, <2>4, <2>5 DEF Fields
<1>4. TypeOK'
  BY <1>2, <1>3, BeforeIndex DEF Fields
<1>5. \A g \in Fields \ stores' : localSendBuffer'[here][g] = Entry(sent + 1)[g]
  BY <1>3 DEF Stored, Fields
<1>6. Stored'
  <2>1. ASSUME NEW m \in 1..sent', Kept(m)'
        PROVE  localSendBuffer'[Slot(m)] = Entry(m)
    <3>1. CASE m \in 1..sent
      <4>1. Kept(m)
        BY <2>1, <1>2 DEF Kept
      <4>2. m \in Nat /\ m < sent + 1 /\ (sent + 1) - m < LOCAL_SEND_BUFFER_SIZE
        BY <3>1, <4>1, <1>2 DEF Kept
      <4>3. Slot(m) # here /\ Slot(m) \in Indices
        BY <4>2, <1>1, Slots
      <4> QED BY <3>1, <4>1, <4>3, <1>3 DEF Stored
    <3>2. CASE m = sent + 1
      <4>1. stores' = {}
        BY <3>2, <1>2
      <4> QED BY <3>2, <4>1, <1>1, <1>3, <1>5, EntryFields
    <3> QED BY <3>1, <3>2, <1>2
  <2> QED BY <2>1, <1>2, <1>5 DEF Stored
<1>7. Numbered'
  <2> SUFFICES ASSUME NEW i \in Indices
               PROVE  \E m \in 0..latest' :
                        /\ localSendBuffer'[i].seqNumber = Seq(m)
                        /\ m = 0 \/ Slot(m) = i
                        /\ m + LOCAL_SEND_BUFFER_SIZE > sent'
    BY DEF Numbered
  <2>1. PICK m \in 0..latest :
          /\ localSendBuffer[i].seqNumber = Seq(m)
          /\ m = 0 \/ Slot(m) = i
          /\ m + LOCAL_SEND_BUFFER_SIZE > sent
    BY DEF Numbered
  <2>2. CASE i # here
    <3>1. localSendBuffer'[i] = localSendBuffer[i]
      BY <2>2, <1>3
    <3>2. CASE m + LOCAL_SEND_BUFFER_SIZE > sent'
      BY <2>1, <3>1, <3>2, <1>2
    <3>3. CASE m + LOCAL_SEND_BUFFER_SIZE = sent + 1 /\ m # 0
      <4>1. Slot(m + LOCAL_SEND_BUFFER_SIZE) = Slot(m)
        BY <1>2, Slots
      <4> QED BY <2>1, <2>2, <3>3, <4>1
    <3>4. CASE LOCAL_SEND_BUFFER_SIZE = sent + 1 /\ m = 0
      \* The first round ends: the message of slot i is number i.
      <4>1. i # 0
        <5>1. Slot(0 + LOCAL_SEND_BUFFER_SIZE) = Slot(0) /\ Slot(0) = 0
          BY Slots, BeforeIndex DEF Indices
        <5> QED BY <5>1, <2>2, <3>4
      <4>2. i \in 1..sent /\ Slot(i) = i /\ Kept(i)
        BY <4>1, <3>4, <1>2, BeforeIndex DEF Indices, Kept
      <4>3. localSendBuffer[i].seqNumber = Seq(i)
        BY <4>2, EntryFields DEF Stored
      <4> QED BY <4>2, <4>3, <3>1, <3>4, <1>2
    <3> QED BY <2>1, <3>2, <3>3, <3>4, <1>2
  <2>3. CASE i = here /\ "seqNumber" \notin stores'
    <3>1. localSendBuffer'[i].seqNumber = Seq(sent + 1)
      BY <2>3, <1>1, <1>5, EntryFields DEF Fields
    <3> QED BY <2>3, <3>1, <1>2
  <2>4. CASE i = here /\ "seqNumber" \in stores'
    <3>1. localSendBuffer'[i].seqNumber = localSendBuffer[i].seqNumber /\ sent' = sent
      BY <2>4, <1>2, <1>3 DEF Fields
    <3> QED BY <2>1, <3>1, <1>2
  <2> QED BY <2>2, <2>3, <2>4
<1>8. Searched' /\ NotPassed'
  BY <1>2 DEF Searched, NotPassed, Kept
<1>9. KeptEntryFound'
  BY <1>2 DEF KeptEntryFound, Kept
<1> QED BY <1>4, <1>6, <1>7, <1>8, <1>9

\* A step of the search does not pass the slot of the message, and ends without
\* it only at NULL_SEQ.
LEMMA FindAhead ==
  ASSUME IInv, Find, UNCHANGED writer, latest' = latest, latest \in {sent, sent + 1}
  PROVE  NotPassed' /\ KeptEntryFound'
<1> USE SendBufferAssumption DEF IInv, TypeOK, Kept, writer
<1>1. ASSUME NEW m \in 1..sent, FindBegin(m)
      PROVE  NotPassed' /\ KeptEntryFound'
  <2> USE <1>1 DEF FindBegin
  <2>0. m \in Nat
    OBVIOUS
  <2>1. PICK d \in 0..LOCAL_SEND_BUFFER_SIZE - 1 : Slot(m + d) = topLocalSendBuffer
    <3>1. \A i \in Indices : \E d \in 0..LOCAL_SEND_BUFFER_SIZE - 1 : Slot(m + d) = i
      BY <2>0, Rounds
    <3> QED BY <3>1
  <2>2. phase' = "test" /\ wanted' = m /\ index' = topLocalSendBuffer /\ count' = 0
    OBVIOUS
  <2> QED BY <2>1, <2>2 DEF NotPassed, KeptEntryFound
<1>2. CASE FindNone
  <2> USE <1>2 DEF FindNone
  <2>1. NotPassed'
    BY DEF NotPassed
  <2>2. ASSUME Kept(wanted)
        PROVE  \E m \in known + 1 - LOCAL_SEND_BUFFER_SIZE..latest : Seq(m) = NULL_SEQ
    <3>1. count < LOCAL_SEND_BUFFER_SIZE
      BY <2>2 DEF NotPassed
    <3>2. localSendBuffer[index].seqNumber = NULL_SEQ
      BY <3>1
    <3>3. PICK m \in 0..latest : /\ localSendBuffer[index].seqNumber = Seq(m)
                                 /\ m + LOCAL_SEND_BUFFER_SIZE > sent
      BY DEF Numbered
    <3> QED BY <3>2, <3>3
  <2> QED BY <2>1, <2>2 DEF KeptEntryFound
<1>3. CASE FindTest
  BY <1>3 DEF FindTest, NotPassed, KeptEntryFound
<1>4. CASE FindCompare
  <2> USE <1>4 DEF FindCompare
  <2>1. KeptEntryFound'
    BY DEF KeptEntryFound
  <2>2. ASSUME phase' = "test", Kept(wanted)
        PROVE  \E d \in Nat : /\ d + count' < LOCAL_SEND_BUFFER_SIZE
                              /\ index' = Slot(wanted + d)
    <3>1. /\ localSendBuffer[index].seqNumber # Seq(wanted)
          /\ index' = Before(index) /\ count' = count + 1
          /\ wanted \in 1..sent
      BY <2>2 DEF Searched
    <3>2. PICK d \in Nat : /\ d + count < LOCAL_SEND_BUFFER_SIZE
                           /\ index = Slot(wanted + d)
      BY <2>2 DEF NotPassed
    <3>3. d # 0
      BY <2>2, <3>1, <3>2, EntryFields DEF Stored
    <3>4. d - 1 \in Nat /\ wanted + (d - 1) \in Nat /\ (wanted + (d - 1)) + 1 = wanted + d
      BY <3>3, <3>1
    <3>5. Before(Slot((wanted + (d - 1)) + 1)) = Slot(wanted + (d - 1))
      BY <3>4, Rounds
    <3>6. index' = Slot(wanted + (d - 1)) /\ (d - 1) + count' < LOCAL_SEND_BUFFER_SIZE
      BY <3>1, <3>2, <3>4, <3>5
    <3> QED BY <3>4, <3>6
  <2> QED BY <2>1, <2>2 DEF NotPassed
<1>5. CASE \E f \in Fields : LoadEntry(f)
  BY <1>5 DEF LoadEntry, NotPassed, KeptEntryFound
<1>6. CASE Use
  BY <1>6 DEF Use, NotPassed, KeptEntryFound
<1> QED BY <1>1, <1>2, <1>3, <1>4, <1>5, <1>6 DEF Find

LEMMA FindInv == IInv /\ Find => IInv'
<1> SUFFICES ASSUME IInv, Find PROVE IInv'
  OBVIOUS
<1> USE SendBufferAssumption DEF IInv, TypeOK
<1>1. UNCHANGED writer
  BY DEF Find, FindBegin, FindNone, FindTest, FindCompare, LoadEntry, Use
<1>2. latest' = latest /\ latest \in {sent, sent + 1}
  BY <1>1 DEF latest, writer
<1>3. Stored' /\ Numbered'
  BY <1>1, <1>2 DEF Stored, Numbered, Kept, writer
<1>10. NotPassed' /\ KeptEntryFound'
  BY <1>1, <1>2, FindAhead
<1> SUFFICES TypeOK' /\ Searched'
  BY <1>3, <1>10
<1> USE <1>1, <1>2 DEF Searched, Kept, writer
<1>4. ASSUME NEW m \in 1..sent, FindBegin(m)
      PROVE  TypeOK' /\ Searched'
  BY <1>4 DEF FindBegin
<1>5. CASE FindNone
  BY <1>5 DEF FindNone
<1>6. CASE FindTest
  BY <1>6 DEF FindTest
<1>7. CASE FindCompare
  <2> USE <1>7 DEF FindCompare
  <2>1. Before(index) \in Indices
    BY BeforeIndex
  <2>2. TypeOK'
    BY <2>1
  <2>3. CASE localSendBuffer[index].seqNumber # Seq(wanted)
    <3>1. phase = "compare" /\ phase' = "test" /\ wanted' = wanted
      BY <2>3
    <3> QED BY <2>2, <3>1
  <2>4. CASE localSendBuffer[index].seqNumber = Seq(wanted)
    <3>1. phase' = "load" /\ loads' = Fields
      BY <2>4
    <3>2. ASSUME Kept(wanted)
          PROVE  index = Slot(wanted)
      <4>1. PICK m \in 0..latest :
              /\ localSendBuffer[index].seqNumber = Seq(m)
              /\ m = 0 \/ (Slot(m) = index /\ m + LOCAL_SEND_BUFFER_SIZE > sent)
        BY DEF Numbered
      <4>2. Seq(m) = Seq(wanted) /\ Seq(0) = NULL_SEQ /\ Seq(wanted) # NULL_SEQ
        BY <2>4, <4>1 DEF Seq, NULL_SEQ
      <4>3. m \in Nat /\ wanted \in Nat /\ m # 0
        BY <4>1, <4>2
      <4>4. CASE m < wanted
        <5>1. wanted - m <= LOCAL_SEND_BUFFER_SIZE
          BY <4>1, <4>3
        <5> QED BY <4>2, <4>3, <4>4, <5>1, Slots
      <4>5. CASE wanted < m
        <5>1. m - wanted <= LOCAL_SEND_BUFFER_SIZE
          BY <4>1, <4>3, <3>2
        <5> QED BY <4>2, <4>3, <4>5, <5>1, Slots
      <4> QED BY <4>1, <4>3, <4>4, <4>5
    <3> QED BY <3>1, <3>2, <2>2
  <2> QED BY <2>2, <2>3, <2>4
<1>8. ASSUME NEW f \in Fields, LoadEntry(f)
      PROVE  TypeOK' /\ Searched'
  <2> USE <1>8 DEF LoadEntry
  <2>1. localSendBuffer[index] \in
          [seqNumber : 0..SeqRange - 1, timestamp : Nat, TxCoordinate : Nat]
    OBVIOUS
  <2>2. /\ FullNode' \in [seqNumber : 0..SeqRange - 1, timestamp : Nat, TxCoordinate : Nat]
        /\ FullNode'[f] = localSendBuffer[index][f]
        /\ \A g \in Fields \ {f} : FullNode'[g] = FullNode[g]
    <3>1. CASE f = "seqNumber"
      BY <2>1, <3>1 DEF Fields
    <3>2. CASE f = "timestamp"
      BY <2>1, <3>2 DEF Fields
    <3>3. CASE f = "TxCoordinate"
      BY <2>1, <3>3 DEF Fields
    <3> QED BY <3>1, <3>2, <3>3 DEF Fields
  <2>3. TypeOK'
    BY <2>2
  <2>4. ASSUME Kept(wanted)
        PROVE  /\ index = Slot(wanted)
               /\ localSendBuffer[index] = Entry(wanted)
    BY <2>4 DEF Stored
  <2>5. ASSUME Kept(wanted)', NEW g \in Fields \ loads'
        PROVE  FullNode'[g] = Entry(wanted)[g] /\ index = Slot(wanted)
    BY <2>2, <2>4, <2>5
  <2> QED BY <2>3, <2>5
<1>9. CASE Use
  <2> USE <1>9 DEF Use
  <2>1. FullNode' \in [seqNumber : 0..SeqRange - 1, timestamp : Nat, TxCoordinate : Nat]
    BY EntryFields
  <2>2. 0 \in Indices /\ phase' = "idle" /\ wanted' = 0 /\ index' = 0 /\ count' = 0 /\ known' = 0
    BY DEF Indices
  <2> QED BY <2>1, <2>2
<1> QED
  BY <1>4, <1>5, <1>6, <1>7, <1>8, <1>9 DEF Find

LEMMA Invariant == Spec => []IInv
<1>1. IInv /\ [Next]_vars => IInv'
  <2> SUFFICES ASSUME IInv, [Next]_vars PROVE IInv'
    OBVIOUS
  <2>1. CASE UNCHANGED vars
    BY <2>1 DEF vars, writer, reader, IInv, TypeOK, Stored, Numbered, Searched,
                NotPassed, KeptEntryFound, Kept, latest
  <2> QED
    BY <2>1, AddBeginInv, AddStoreInv, FindInv DEF Next, Add
<1> QED BY <1>1, InitInv, PTL DEF Spec

\* Every variable keeps its type; no index leaves the ring.
THEOREM TypeCorrect == Spec => []TypeOK
<1>1. IInv => TypeOK
  BY DEF IInv
<1> QED BY <1>1, Invariant, PTL

\* A search that finds a message whose entry is kept returns that entry, in any
\* interleaving with the thread that adds entries, and after any wrap of the
\* ring and of the sequence numbers.
THEOREM FoundIsTrue == Spec => []KeptEntryTrue
<1>1. IInv => KeptEntryTrue
  <2> SUFFICES ASSUME IInv, phase = "found", Kept(wanted)
               PROVE  FullNode = Entry(wanted)
    BY DEF KeptEntryTrue
  <2>1. /\ wanted \in Nat /\ loads = {}
        /\ FullNode \in [seqNumber : 0..SeqRange - 1, timestamp : Nat, TxCoordinate : Nat]
        /\ \A f \in Fields : FullNode[f] = Entry(wanted)[f]
    BY DEF IInv, TypeOK, Searched
  <2> QED BY <2>1, EntryFields
<1> QED BY <1>1, Invariant, PTL

\* A search misses a message whose entry is kept only when it met NULL_SEQ.
THEOREM KeptIsFound == Spec => []KeptEntryFound
<1>1. IInv => KeptEntryFound
  BY DEF IInv
<1> QED BY <1>1, Invariant, PTL
=============================================================================
