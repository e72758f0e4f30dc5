----------------------------- MODULE TaskQueue -----------------------------
(***************************************************************************)
(* The task queue of a drone (lock.c) and the three threads that use it    *)
(* (drone.c): the main thread calls QueueTaskTx in its send loop, the      *)
(* receive thread calls QueueTaskRx for every message, and the process     *)
(* thread calls processFromQueue for ever.  `mutex' guards the ranging     *)
(* tables, `countMutex' the ring of slots.  A step is what a thread does   *)
(* between two points where another thread can see the difference.         *)
(*                                                                         *)
(* A message is its number of arrival; the payload is left to the ranging  *)
(* modules.  NULL is the null data pointer of an empty slot.               *)
(***************************************************************************)
EXTENDS Integers, Sequences

CONSTANTS
  QUEUE_TASK_LENGTH,    \* slots of queueTask
  MaxArrivals,          \* bound: messages the receive thread gets
  MaxMallocFailures     \* bound: failing mallocs, in each of the two callers

ASSUME QueueAssumption ==
  /\ QUEUE_TASK_LENGTH \in Nat \ {0}
  /\ MaxArrivals \in Nat
  /\ MaxMallocFailures \in Nat

VARIABLES
  queueTask,    \* slot -> data pointer
  head, tail, count,
  mutex,        \* the thread that holds mutex, or "none"
  countMutex,   \* the thread that holds countMutex, or "none"
  pc,           \* thread -> what it does next
  current,      \* the task processFromQueue is processing
  arrivals,     \* how many calls of QueueTaskRx have stored or lost a message
  delivered,    \* history: the last task processed and freed
  rxFailures,   \* history: messages lost to malloc in QueueTaskRx
  txFailures    \* history: sends given up for malloc in QueueTaskTx

ring    == <<queueTask, head, tail, count>>
history == <<arrivals, delivered, rxFailures, txFailures>>
vars    == <<ring, mutex, countMutex, pc, current, history>>

NULL    == 0
Slots   == 0..QUEUE_TASK_LENGTH - 1
Tasks   == 1..MaxArrivals
Threads == {"main", "receive", "process"}

\* The slot after i; the code steps head and tail around the ring with it.
After(i) == (i + 1) % QUEUE_TASK_LENGTH

\* initQueueTaskLock; the threads start before their first call.
Init ==
  /\ queueTask = [i \in Slots |-> NULL]
  /\ head = 0 /\ tail = 0 /\ count = 0
  /\ mutex = "none" /\ countMutex = "none"
  /\ pc = [t \in Threads |-> "idle"]
  /\ current = NULL
  /\ arrivals = 0 /\ delivered = 0 /\ rxFailures = 0 /\ txFailures = 0

Goto(t, from, to) == pc[t] = from /\ pc' = [pc EXCEPT ![t] = to]

LockMutex(t)        == mutex = "none" /\ mutex' = t
LockCountMutex(t)   == countMutex = "none" /\ countMutex' = t
UnlockMutex         == mutex' = "none"
UnlockCountMutex    == countMutex' = "none"
-----------------------------------------------------------------------------
(* QueueTaskTx, by the main thread.                                        *)

\* Mutant: the tables are read without mutex.
TxLockWithoutMutex ==
  /\ Goto("main", "idle", "generate")
  /\ UNCHANGED <<ring, mutex, countMutex, current, history>>

TxLock ==
  /\ Goto("main", "idle", "generate")
  /\ LockMutex("main")
  /\ UNCHANGED <<ring, countMutex, current, history>>

\* The malloc succeeds and generateRangingMessage reads the tables.
TxGenerate ==
  /\ Goto("main", "generate", "unlock")
  /\ UNCHANGED <<ring, mutex, countMutex, current, history>>

\* The malloc fails: unlock and return without sending.
TxMallocFailed ==
  /\ txFailures < MaxMallocFailures
  /\ Goto("main", "generate", "idle")
  /\ UnlockMutex
  /\ txFailures' = txFailures + 1
  /\ UNCHANGED <<ring, countMutex, current, arrivals, delivered, rxFailures>>

TxUnlock ==
  /\ Goto("main", "unlock", "send")
  /\ UnlockMutex
  /\ UNCHANGED <<ring, countMutex, current, history>>

\* The callback send_to_center runs with no lock held.
TxSend ==
  /\ Goto("main", "send", "idle")
  /\ UNCHANGED <<ring, mutex, countMutex, current, history>>

Tx == TxLock \/ TxGenerate \/ TxMallocFailed \/ TxUnlock \/ TxSend
-----------------------------------------------------------------------------
(* QueueTaskRx, by the receive thread.                                     *)

RxLock ==
  /\ arrivals < MaxArrivals
  /\ Goto("receive", "idle", "check")
  /\ LockCountMutex("receive")
  /\ UNCHANGED <<ring, mutex, current, history>>

\* Mutant: one slot is never used.
RxMissedEarly ==
  /\ count >= QUEUE_TASK_LENGTH - 1
  /\ Goto("receive", "check", "idle")
  /\ UnlockCountMutex
  /\ arrivals' = arrivals + 1
  /\ UNCHANGED <<ring, mutex, current, delivered, rxFailures, txFailures>>

\* The queue is full: the message is missed.
RxMissed ==
  /\ count = QUEUE_TASK_LENGTH
  /\ Goto("receive", "check", "idle")
  /\ UnlockCountMutex
  /\ arrivals' = arrivals + 1
  /\ UNCHANGED <<ring, mutex, current, delivered, rxFailures, txFailures>>

\* Mutant: the return for a failing malloc forgets to unlock.
RxMallocFailedLocked ==
  /\ count # QUEUE_TASK_LENGTH
  /\ rxFailures < MaxMallocFailures
  /\ Goto("receive", "check", "idle")
  /\ arrivals' = arrivals + 1
  /\ rxFailures' = rxFailures + 1
  /\ UNCHANGED <<ring, mutex, countMutex, current, delivered, txFailures>>

RxMallocFailed ==
  /\ count # QUEUE_TASK_LENGTH
  /\ rxFailures < MaxMallocFailures
  /\ Goto("receive", "check", "idle")
  /\ UnlockCountMutex
  /\ arrivals' = arrivals + 1
  /\ rxFailures' = rxFailures + 1
  /\ UNCHANGED <<ring, mutex, current, delivered, txFailures>>

\* Mutant: a full queue is overwritten.
RxStoreUnchecked ==
  /\ Goto("receive", "check", "commit")
  /\ queueTask' = [queueTask EXCEPT ![tail] = arrivals + 1]
  /\ UNCHANGED <<head, tail, count, mutex, countMutex, current, history>>

\* The data is copied to the slot at tail ...
RxStore ==
  /\ count # QUEUE_TASK_LENGTH
  /\ Goto("receive", "check", "commit")
  /\ queueTask' = [queueTask EXCEPT ![tail] = arrivals + 1]
  /\ UNCHANGED <<head, tail, count, mutex, countMutex, current, history>>

\* ... and tail and count make it part of the queue.
RxCommit ==
  /\ Goto("receive", "commit", "unlock")
  /\ tail' = After(tail)
  /\ count' = count + 1
  /\ arrivals' = arrivals + 1
  /\ UNCHANGED <<queueTask, head, mutex, countMutex, current,
                 delivered, rxFailures, txFailures>>

RxUnlock ==
  /\ Goto("receive", "unlock", "idle")
  /\ UnlockCountMutex
  /\ UNCHANGED <<ring, mutex, current, history>>

Rx == RxLock \/ RxMissed \/ RxMallocFailed \/ RxStore \/ RxCommit \/ RxUnlock
-----------------------------------------------------------------------------
(* processFromQueue, by the process thread.                                *)

GetLockMutex ==
  /\ Goto("process", "idle", "lockCount")
  /\ LockMutex("process")
  /\ UNCHANGED <<ring, countMutex, current, history>>

GetLockCount ==
  /\ Goto("process", "lockCount", "get")
  /\ LockCountMutex("process")
  /\ UNCHANGED <<ring, mutex, current, history>>

\* Mutant: a queue with one task is taken for an empty one.
GetEmptyOffByOne ==
  /\ count <= 1
  /\ Goto("process", "get", "emptyUnlock")
  /\ UnlockMutex
  /\ UNCHANGED <<ring, countMutex, current, history>>

\* Mutant: the process thread waits for a task with mutex held.
GetEmptyBusy ==
  /\ count = 0
  /\ Goto("process", "get", "lockCount")
  /\ UnlockCountMutex
  /\ UNCHANGED <<ring, mutex, current, history>>

\* Nothing to do: mutex is released first, then countMutex, then a sleep.
GetEmpty ==
  /\ count = 0
  /\ Goto("process", "get", "emptyUnlock")
  /\ UnlockMutex
  /\ UNCHANGED <<ring, countMutex, current, history>>

GetEmptyUnlock ==
  /\ Goto("process", "emptyUnlock", "idle")
  /\ UnlockCountMutex
  /\ UNCHANGED <<ring, mutex, current, history>>

\* Mutant: the queue is not checked.
ProcessUnchecked ==
  /\ Goto("process", "get", "processing")
  /\ current' = queueTask[head]
  /\ UNCHANGED <<ring, mutex, countMutex, history>>

\* processRangingMessage starts on the data at head, with both locks held.
Process ==
  /\ count # 0
  /\ Goto("process", "get", "processing")
  /\ current' = queueTask[head]
  /\ UNCHANGED <<ring, mutex, countMutex, history>>

\* Mutant: the freed pointer stays in its slot.
RetireDangling ==
  /\ Goto("process", "processing", "unlockCount")
  /\ head' = After(head)
  /\ count' = count - 1
  /\ current' = NULL
  /\ delivered' = current
  /\ UNCHANGED <<queueTask, tail, mutex, countMutex, arrivals, rxFailures, txFailures>>

\* It returns: free, clear the slot, step head.
Retire ==
  /\ Goto("process", "processing", "unlockCount")
  /\ queueTask' = [queueTask EXCEPT ![head] = NULL]
  /\ head' = After(head)
  /\ count' = count - 1
  /\ current' = NULL
  /\ delivered' = current
  /\ UNCHANGED <<tail, mutex, countMutex, arrivals, rxFailures, txFailures>>

ProcessUnlockCount ==
  /\ Goto("process", "unlockCount", "unlockMutex")
  /\ UnlockCountMutex
  /\ UNCHANGED <<ring, mutex, current, history>>

ProcessUnlockMutex ==
  /\ Goto("process", "unlockMutex", "idle")
  /\ UnlockMutex
  /\ UNCHANGED <<ring, countMutex, current, history>>

Proc ==
  \/ GetLockMutex \/ GetLockCount \/ GetEmpty \/ GetEmptyUnlock
  \/ Process \/ Retire \/ ProcessUnlockCount \/ ProcessUnlockMutex
-----------------------------------------------------------------------------
Next == Tx \/ Rx \/ Proc

Spec == Init /\ [][Next]_vars

(***************************************************************************)
(* A thread that holds a lock goes on (weak fairness of its steps).  The   *)
(* steps that take a lock are strongly fair: between two critical sections *)
(* every other thread blocks in local_sleep or recv, so the lock is free   *)
(* for most of the time and a waiting thread is the only one to ask for    *)
(* it.  The receive thread need not get another message: no fairness for   *)
(* RxLock.                                                                 *)
(***************************************************************************)
Fairness ==
  /\ SF_vars(TxLock) /\ SF_vars(GetLockMutex) /\ SF_vars(GetLockCount)
  /\ WF_vars(TxGenerate) /\ WF_vars(TxUnlock) /\ WF_vars(TxSend)
  /\ WF_vars(RxMissed) /\ WF_vars(RxStore) /\ WF_vars(RxCommit)
  /\ WF_vars(RxUnlock)
  /\ WF_vars(GetEmpty) /\ WF_vars(GetEmptyUnlock)
  /\ WF_vars(Process) /\ WF_vars(Retire)
  /\ WF_vars(ProcessUnlockCount) /\ WF_vars(ProcessUnlockMutex)

FairSpec == Spec /\ Fairness
-----------------------------------------------------------------------------
(* Properties.                                                             *)

\* Every variable keeps its type; lock.c declares count, head and tail uint8.
TypeOK ==
  /\ queueTask \in [Slots -> Tasks \cup {NULL}]
  /\ head \in Slots /\ tail \in Slots /\ count \in 0..QUEUE_TASK_LENGTH
  /\ mutex \in {"none", "main", "process"}
  /\ countMutex \in {"none", "receive", "process"}
  /\ DOMAIN pc = Threads
  /\ pc["main"] \in {"idle", "generate", "unlock", "send"}
  /\ pc["receive"] \in {"idle", "check", "commit", "unlock"}
  /\ pc["process"] \in {"idle", "lockCount", "get", "emptyUnlock", "processing",
                        "unlockCount", "unlockMutex"}
  /\ current \in Tasks \cup {NULL}
  /\ arrivals \in 0..MaxArrivals /\ delivered \in Tasks \cup {NULL}
  /\ rxFailures \in Nat /\ txFailures \in Nat

\* A lock is held by a thread exactly while the thread is between its lock and
\* unlock calls, on every path through the three functions: no early return
\* keeps a lock and no path releases the lock of another thread.
LockDiscipline ==
  /\ mutex = "main" <=> pc["main"] \in {"generate", "unlock"}
  /\ mutex = "process" <=>
       pc["process"] \in {"lockCount", "get", "processing", "unlockCount",
                         "unlockMutex"}
  /\ countMutex = "receive" <=> pc["receive"] \in {"check", "commit", "unlock"}
  /\ countMutex = "process" <=>
       pc["process"] \in {"get", "emptyUnlock", "processing", "unlockCount"}

\* Between its store and its commit the receive thread owns a free slot at tail.
Filling ==
  /\ pc["receive"] \in {"check", "commit"} => arrivals < MaxArrivals
  /\ pc["receive"] = "commit" =>
       count # QUEUE_TASK_LENGTH /\ queueTask[tail] = arrivals + 1

\* The slot of the k-th task in the queue.
Slot(k) == (head + k - 1) % QUEUE_TASK_LENGTH

\* The tasks in the queue, oldest first.
Pending == [k \in 1..count |-> queueTask[Slot(k)]]

\* How far slot i is behind head.
Offset(i) == IF i >= head THEN i - head ELSE i - head + QUEUE_TASK_LENGTH

\* The count slots from head on hold tasks and no other slot does, but for the
\* one the receive thread has just filled: head, tail and count, which the two
\* threads step separately, never disagree on where the queue is.
RingConsistent ==
  /\ Offset(tail) = IF count = QUEUE_TASK_LENGTH THEN 0 ELSE count
  /\ \A i \in Slots :
       (queueTask[i] # NULL) <=>
         (Offset(i) < count \/ (pc["receive"] = "commit" /\ i = tail))

\* processRangingMessage never gets a null pointer, and the task it works on is
\* neither overwritten nor moved while it runs: free() gets the same pointer.
TaskHeld ==
  pc["process"] = "processing" => current # NULL /\ current = queueTask[head]

\* generateRangingMessage and processRangingMessage, which share the ranging
\* tables, never run at the same time.
TablesExclusive == ~(pc["main"] = "generate" /\ pc["process"] = "processing")

\* The inductive invariant of the queue: what each step keeps of the locks and
\* of the ring, and the reason TaskHeld and TablesExclusive hold.
IInv ==
  TypeOK /\ LockDiscipline /\ Filling /\ RingConsistent /\ TaskHeld

\* The ring with its locks implements the bounded first-in first-out channel:
\* no task is lost, doubled or overtaken, and a message is missed only when the
\* queue is full or malloc failed.
Channel ==
  INSTANCE TaskChannel
    WITH Capacity <- QUEUE_TASK_LENGTH, failures <- rxFailures,
         pending <- Pending

ChannelSpec == Channel!Spec

\* Every task accepted by QueueTaskRx is processed in the end, whatever the
\* main thread does with mutex.
EveryTaskDelivered == Channel!EveryTaskDelivered

\* The send loop is never locked out of mutex for ever by the process thread,
\* which takes it every ten milliseconds even when there is nothing to do.
SendsForEver == []<>(pc["main"] = "send")
=============================================================================
