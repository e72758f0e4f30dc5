----------------------------- MODULE SendBuffer -----------------------------
(***************************************************************************)
(* The local send buffer (modified_ranging.c) between two threads: the     *)
(* main thread adds the entry of a message just before it leaves, with no  *)
(* lock held; the process thread looks up the messages that neighbours     *)
(* report, under the mutex of the task queue.  Nothing orders the accesses *)
(* of one thread for the other, so the stores of an entry, and the loads   *)
(* of one that was found, take place in any order.                         *)
(*                                                                         *)
(* Message m is the m-th message; its entry is [seqNumber |-> m modulo     *)
(* SeqRange, timestamp |-> m, TxCoordinate |-> m], so that an entry of one *)
(* message can be told from a mixture.                                     *)
(***************************************************************************)
EXTENDS Integers

CONSTANTS
  LOCAL_SEND_BUFFER_SIZE,
  SeqRange,     \* sequence numbers are unsigned 16-bit integers: 2^16
  MaxMessages   \* bound: messages sent

ASSUME SendBufferAssumption ==
  /\ LOCAL_SEND_BUFFER_SIZE \in Nat \ {0}
  /\ SeqRange \in Nat /\ SeqRange > LOCAL_SEND_BUFFER_SIZE
  /\ MaxMessages \in Nat

VARIABLES
  localSendBuffer,    \* index -> entry
  topLocalSendBuffer,
  sent,         \* messages with a complete entry: localSendSeqNumber is one more
  stores,       \* the stores addLocalSendBuffer has not made yet
  phase,        \* what the process thread does next
  wanted,       \* the message it looks for, by its sequence number
  index, count, \* local variables of findLocalSendBuffer
  loads,        \* the fields of the entry it has not loaded yet
  FullNode,     \* what it has loaded
  known         \* history: `sent' when the search began

writer == <<localSendBuffer, topLocalSendBuffer, sent, stores>>
reader == <<phase, wanted, index, count, loads, FullNode, known>>
vars   == <<writer, reader>>

NULL_SEQ == 0
Indices  == 0..LOCAL_SEND_BUFFER_SIZE - 1
Fields   == {"seqNumber", "timestamp", "TxCoordinate"}

Seq(m)   == m % SeqRange
Slot(m)  == m % LOCAL_SEND_BUFFER_SIZE
Entry(m) == [seqNumber |-> Seq(m), timestamp |-> m, TxCoordinate |-> m]

\* The last message whose entry is complete or being stored.
latest == IF stores = {} THEN sent ELSE sent + 1

\* Mutants: an index that stays at the first slot, and one that leaves the ring.
beforeFirst(i) == IF i = 0 THEN 0 ELSE i - 1
beforeAny(i)   == i - 1

\* The index before i, around the ring.
Before(i) == (i - 1 + LOCAL_SEND_BUFFER_SIZE) % LOCAL_SEND_BUFFER_SIZE

\* initRangingTableSet: the null entry equals Entry(0).
Init ==
  /\ localSendBuffer = [i \in Indices |-> Entry(0)]
  /\ topLocalSendBuffer = 0
  /\ sent = 0 /\ stores = {}
  /\ phase = "idle" /\ wanted = 0 /\ index = 0 /\ count = 0
  /\ loads = {} /\ FullNode = Entry(0) /\ known = 0
-----------------------------------------------------------------------------
(* addLocalSendBuffer, by the main thread.                                 *)

AddBegin ==
  /\ stores = {} /\ sent < MaxMessages
  /\ stores' = Fields \cup {"top"}
  /\ UNCHANGED <<localSendBuffer, topLocalSendBuffer, sent, reader>>

\* The call returns after the last of its stores; then the message leaves.
AddStore(f) ==
  /\ f \in stores
  /\ stores' = stores \ {f}
  /\ sent' = IF stores' = {} THEN sent + 1 ELSE sent
  /\ \/ /\ f = "top"
        /\ topLocalSendBuffer' = (topLocalSendBuffer + 1) % LOCAL_SEND_BUFFER_SIZE
        /\ UNCHANGED localSendBuffer
     \/ /\ f # "top"
        /\ localSendBuffer' = [localSendBuffer EXCEPT ![Slot(sent + 1)][f] = Entry(sent + 1)[f]]
        /\ UNCHANGED topLocalSendBuffer
  /\ UNCHANGED reader

Add == AddBegin \/ \E f \in Fields \cup {"top"} : AddStore(f)
-----------------------------------------------------------------------------
(* findLocalSendBuffer and the use of its result, by the process thread.   *)

\* A neighbour reports message m.  NULL_SEQ is no report.
FindBegin(m) ==
  /\ phase = "idle" /\ Seq(m) # NULL_SEQ
  /\ phase' = "test"
  /\ wanted' = m /\ index' = topLocalSendBuffer /\ count' = 0
  /\ known' = sent
  /\ UNCHANGED <<writer, loads, FullNode>>

\* The condition of the loop fails: NULL_INDEX.
FindNone ==
  /\ phase = "test"
  /\ localSendBuffer[index].seqNumber = NULL_SEQ \/ count >= LOCAL_SEND_BUFFER_SIZE
  /\ phase' = "missed"
  /\ UNCHANGED <<writer, wanted, index, count, loads, FullNode, known>>

FindTest ==
  /\ phase = "test"
  /\ localSendBuffer[index].seqNumber # NULL_SEQ /\ count < LOCAL_SEND_BUFFER_SIZE
  /\ phase' = "compare"
  /\ UNCHANGED <<writer, wanted, index, count, loads, FullNode, known>>

\* The body of the loop, with a load of its own.
FindCompare ==
  /\ phase = "compare"
  /\ \/ /\ localSendBuffer[index].seqNumber = Seq(wanted)
        /\ phase' = "load" /\ loads' = Fields
        /\ UNCHANGED <<index, count>>
     \/ /\ localSendBuffer[index].seqNumber # Seq(wanted)
        /\ phase' = "test" /\ index' = Before(index) /\ count' = count + 1
        /\ UNCHANGED loads
  /\ UNCHANGED <<writer, wanted, FullNode, known>>

\* processRangingMessage copies the entry into FullNode, field by field.
LoadEntry(f) ==
  /\ phase = "load" /\ f \in loads
  /\ FullNode' = [FullNode EXCEPT ![f] = localSendBuffer[index][f]]
  /\ loads' = loads \ {f}
  /\ phase' = IF loads' = {} THEN "found" ELSE "load"
  /\ UNCHANGED <<writer, wanted, index, count, known>>

\* The row is made or the report is dropped, and the next report comes.
Use ==
  /\ phase \in {"found", "missed"}
  /\ phase' = "idle"
  /\ wanted' = 0 /\ index' = 0 /\ count' = 0 /\ known' = 0 /\ FullNode' = Entry(0)
  /\ UNCHANGED <<writer, loads>>

\* Mutant: a message leaves before its entry is added, and may be reported.
FindSentEarly ==
  \/ \E m \in 1..latest : FindBegin(m)
  \/ FindNone \/ FindTest \/ FindCompare
  \/ \E f \in Fields : LoadEntry(f)
  \/ Use

Find == \/ \E m \in 1..sent : FindBegin(m)
        \/ FindNone \/ FindTest \/ FindCompare
        \/ \E f \in Fields : LoadEntry(f)
        \/ Use

Next == Add \/ Find

Spec == Init /\ [][Next]_vars
-----------------------------------------------------------------------------
TypeOK ==
  /\ localSendBuffer \in [Indices -> [seqNumber : 0..SeqRange - 1,
                                      timestamp : Nat, TxCoordinate : Nat]]
  /\ topLocalSendBuffer \in Indices
  /\ sent \in Nat /\ stores \subseteq Fields \cup {"top"}
  /\ phase \in {"idle", "test", "compare", "load", "found", "missed"}
  /\ wanted \in 0..sent /\ index \in Indices /\ count \in Nat
  /\ loads \subseteq Fields
  /\ FullNode \in [seqNumber : 0..SeqRange - 1, timestamp : Nat, TxCoordinate : Nat]
  /\ known \in 0..sent

\* The ring has not come round to the slot of m again.
Kept(m) == latest < m + LOCAL_SEND_BUFFER_SIZE

\* What the process thread makes of a report is the entry of the message that
\* was reported, though the buffer is read while it is written: only the slot
\* of the oldest message can be torn.
KeptEntryTrue == phase = "found" /\ Kept(wanted) => FullNode = Entry(wanted)

\* A message whose entry is kept is found, unless the search met NULL_SEQ: in
\* a slot not filled yet, which counts as the entry of message 0, or in that of
\* a message whose sequence number wrapped to it.
KeptEntryFound ==
  phase = "missed" /\ Kept(wanted) =>
    \E m \in known + 1 - LOCAL_SEND_BUFFER_SIZE..latest : Seq(m) = NULL_SEQ
=============================================================================
