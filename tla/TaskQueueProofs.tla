-------------------------- MODULE TaskQueueProofs --------------------------
(***************************************************************************)
(* Proofs about the task queue, for every number of slots, of messages and *)
(* of failing mallocs.                                                     *)
(***************************************************************************)
EXTENDS TaskQueue, TLAPS

\* Stepping around the ring, without the remainder: SMT reasons about it.
LEMMA RingStep ==
  ASSUME NEW i \in Slots
  PROVE  /\ After(i) \in Slots
         /\ After(i) = IF i = QUEUE_TASK_LENGTH - 1 THEN 0 ELSE i + 1
<1>1. CASE i = QUEUE_TASK_LENGTH - 1
  BY <1>1, QueueAssumption DEF Slots, After
<1>2. CASE i # QUEUE_TASK_LENGTH - 1
  BY <1>2, QueueAssumption DEF Slots, After
<1> QED BY <1>1, <1>2

\* The initial state satisfies the inductive invariant.
LEMMA InitInv == Init => IInv
BY QueueAssumption
DEF Init, IInv, TypeOK, LockDiscipline, Filling, RingConsistent, TaskHeld,
    Slots, Tasks, Threads, Offset, NULL

\* Every step keeps the inductive invariant.
LEMMA StepInv == IInv /\ [Next]_vars => IInv'
<1> SUFFICES ASSUME IInv, [Next]_vars PROVE IInv'
  OBVIOUS
<1> USE QueueAssumption
<1> USE DEF IInv, TypeOK, LockDiscipline, Filling, RingConsistent, TaskHeld,
            Slots, Tasks, Threads, Offset, NULL, ring, history, Goto,
            LockMutex, LockCountMutex, UnlockMutex, UnlockCountMutex
<1>1. CASE TxLock
  BY <1>1 DEF TxLock
<1>2. CASE TxGenerate
  BY <1>2 DEF TxGenerate
<1>3. CASE TxMallocFailed
  BY <1>3 DEF TxMallocFailed
<1>4. CASE TxUnlock
  BY <1>4 DEF TxUnlock
<1>5. CASE TxSend
  BY <1>5 DEF TxSend
<1>6. CASE RxLock
  BY <1>6 DEF RxLock
<1>7. CASE RxMissed
  BY <1>7 DEF RxMissed
<1>8. CASE RxMallocFailed
  BY <1>8 DEF RxMallocFailed
<1>9. CASE RxUnlock
  BY <1>9 DEF RxUnlock
<1>10. CASE GetLockMutex
  BY <1>10 DEF GetLockMutex
<1>11. CASE GetLockCount
  BY <1>11 DEF GetLockCount
<1>12. CASE GetEmpty
  BY <1>12 DEF GetEmpty
<1>13. CASE GetEmptyUnlock
  BY <1>13 DEF GetEmptyUnlock
<1>14. CASE Process
  BY <1>14 DEF Process
<1>15. CASE ProcessUnlockCount
  BY <1>15 DEF ProcessUnlockCount
<1>16. CASE ProcessUnlockMutex
  BY <1>16 DEF ProcessUnlockMutex
<1>17. CASE RxStore
  BY <1>17, RingStep DEF RxStore
<1>18. CASE RxCommit
  <2> USE DEF RxCommit
  <2>1. /\ tail' = IF tail = QUEUE_TASK_LENGTH - 1 THEN 0 ELSE tail + 1
        /\ tail' \in Slots
    BY <1>18, RingStep
  <2>2. TypeOK' /\ LockDiscipline' /\ Filling' /\ TaskHeld'
    BY <1>18, <2>1
  <2>3. Offset(tail) = count
    BY <1>18
  <2>4. Offset(tail)' = IF count' = QUEUE_TASK_LENGTH THEN 0 ELSE count'
    BY <1>18, <2>1, <2>3
  <2>5. ASSUME NEW i \in Slots
        PROVE  queueTask'[i] # NULL <=> Offset(i)' < count'
    <3>1. Offset(i) = count <=> i = tail
      BY <2>3
    <3> QED BY <1>18, <3>1
  <2> QED BY <1>18, <2>2, <2>4, <2>5
<1>19. CASE Retire
  <2> USE DEF Retire
  <2>1. count # 0 /\ pc["receive"] = "idle"
    BY <1>19
  <2>2. TypeOK'
    BY <1>19, <2>1, RingStep
  <2>3. LockDiscipline' /\ Filling' /\ TaskHeld'
    BY <1>19, <2>1
  <2>4. After(head) = IF head = QUEUE_TASK_LENGTH - 1 THEN 0 ELSE head + 1
    BY RingStep
  <2>5. ASSUME NEW i \in Slots
        PROVE  Offset(i)' = IF i = head THEN QUEUE_TASK_LENGTH - 1 ELSE Offset(i) - 1
    BY <1>19, <2>4
  <2>6. RingConsistent'
    <3>1. Offset(tail)' = IF count' = QUEUE_TASK_LENGTH THEN 0 ELSE count'
      <4>1. tail = head <=> count = QUEUE_TASK_LENGTH
        BY <2>1
      <4>2. tail \in Slots /\ tail' = tail /\ count' = count - 1
        BY <1>19
      <4>3. Offset(tail)' = IF tail = head THEN QUEUE_TASK_LENGTH - 1
                                          ELSE Offset(tail) - 1
        BY <2>5, <4>2
      <4> QED BY <2>1, <4>1, <4>2, <4>3
    <3>2. ASSUME NEW i \in Slots
          PROVE  queueTask'[i] # NULL <=> Offset(i)' < count'
      BY <1>19, <2>1, <2>5
    <3> QED BY <1>19, <2>1, <3>1, <3>2
  <2> QED BY <2>2, <2>3, <2>6
<1>20. CASE UNCHANGED vars
  BY <1>20 DEF vars
<1> QED
  BY <1>1, <1>2, <1>3, <1>4, <1>5, <1>6, <1>7, <1>8, <1>9, <1>10, <1>11, <1>12, <1>13, <1>14, <1>15, <1>16, <1>17, <1>18, <1>19, <1>20
  DEF Next, Tx, Rx, Proc

\* The inductive invariant holds in every state of every behaviour.
THEOREM Invariance == Spec => []IInv
BY InitInv, StepInv, PTL DEF Spec

\* Every variable keeps its type, for every size of the queue.
THEOREM Typed == Spec => []TypeOK
<1>1. IInv => TypeOK
  BY DEF IInv
<1> QED BY Invariance, <1>1, PTL

\* The ring never disagrees with its counters, for every size of the queue.
THEOREM Consistent == Spec => []RingConsistent
<1>1. IInv => RingConsistent
  BY DEF IInv
<1> QED BY Invariance, <1>1, PTL

\* processFromQueue frees the task it processed: no other takes its slot in
\* between.
THEOREM Held == Spec => []TaskHeld
<1>1. IInv => TaskHeld
  BY DEF IInv
<1> QED BY Invariance, <1>1, PTL

\* Generating and processing never overlap on the ranging tables.
THEOREM Exclusive == Spec => []TablesExclusive
<1>1. IInv => TablesExclusive
  BY DEF IInv, LockDiscipline, TablesExclusive
<1> QED BY Invariance, <1>1, PTL
-----------------------------------------------------------------------------
(* The ring implements the bounded channel.                                *)

\* The k-th slot from slot h on, without the remainder.
LEMMA Wrap ==
  ASSUME NEW h \in Slots, NEW k \in 1..QUEUE_TASK_LENGTH
  PROVE  /\ (h + k - 1) % QUEUE_TASK_LENGTH \in Slots
         /\ (h + k - 1) % QUEUE_TASK_LENGTH
              = IF h + k - 1 >= QUEUE_TASK_LENGTH
                  THEN h + k - 1 - QUEUE_TASK_LENGTH ELSE h + k - 1
<1>1. CASE h + k - 1 >= QUEUE_TASK_LENGTH
  BY <1>1, QueueAssumption DEF Slots
<1>2. CASE h + k - 1 < QUEUE_TASK_LENGTH
  BY <1>2, QueueAssumption DEF Slots
<1> QED BY <1>1, <1>2, QueueAssumption DEF Slots

\* Both queues start empty.
LEMMA InitRefines == Init => Channel!Init
BY DEF Init, Channel!Init, Pending

\* Every step of a thread is a step of the channel or leaves it alone.
LEMMA StepRefines == IInv /\ [Next]_vars => [Channel!Next]_(Channel!vars)
<1> SUFFICES ASSUME IInv, [Next]_vars PROVE [Channel!Next]_(Channel!vars)
  OBVIOUS
<1> USE QueueAssumption
<1>0. TypeOK /\ IInv'
  BY StepInv DEF IInv
<1>a. /\ Pending \in Seq(Tasks \cup {NULL})
      /\ Len(Pending) = count
  BY <1>0, Wrap DEF Slot, TypeOK, Pending
<1>1. CASE TxLock
  BY <1>1 DEF TxLock, ring, history, Channel!vars, Pending, Slot
<1>2. CASE TxGenerate
  BY <1>2 DEF TxGenerate, ring, history, Channel!vars, Pending, Slot
<1>3. CASE TxMallocFailed
  BY <1>3 DEF TxMallocFailed, ring, history, Channel!vars, Pending, Slot
<1>4. CASE TxUnlock
  BY <1>4 DEF TxUnlock, ring, history, Channel!vars, Pending, Slot
<1>5. CASE TxSend
  BY <1>5 DEF TxSend, ring, history, Channel!vars, Pending, Slot
<1>6. CASE RxLock
  BY <1>6 DEF RxLock, ring, history, Channel!vars, Pending, Slot
<1>7. CASE RxUnlock
  BY <1>7 DEF RxUnlock, ring, history, Channel!vars, Pending, Slot
<1>8. CASE GetLockMutex
  BY <1>8 DEF GetLockMutex, ring, history, Channel!vars, Pending, Slot
<1>9. CASE GetLockCount
  BY <1>9 DEF GetLockCount, ring, history, Channel!vars, Pending, Slot
<1>10. CASE GetEmpty
  BY <1>10 DEF GetEmpty, ring, history, Channel!vars, Pending, Slot
<1>11. CASE GetEmptyUnlock
  BY <1>11 DEF GetEmptyUnlock, ring, history, Channel!vars, Pending, Slot
<1>12. CASE Process
  BY <1>12 DEF Process, ring, history, Channel!vars, Pending, Slot
<1>13. CASE ProcessUnlockCount
  BY <1>13 DEF ProcessUnlockCount, ring, history, Channel!vars, Pending, Slot
<1>14. CASE ProcessUnlockMutex
  BY <1>14 DEF ProcessUnlockMutex, ring, history, Channel!vars, Pending, Slot
<1>15. CASE RxMissed
  BY <1>15, <1>0, <1>a
  DEF RxMissed, Goto, TypeOK, Filling, IInv, ring, history,
      Pending, Slot, Channel!vars, Channel!Next,
      Channel!Miss, Channel!Offer
<1>16. CASE RxMallocFailed
  BY <1>16, <1>0, <1>a
  DEF RxMallocFailed, Goto, TypeOK, Filling, IInv, ring, history,
      Pending, Slot, Channel!vars, Channel!Next,
      Channel!Fail, Channel!Offer
<1>17. CASE RxStore
  <2> USE DEF RxStore
  <2>1. ASSUME NEW k \in 1..count
        PROVE  queueTask'[Slot(k)] = queueTask[Slot(k)]
    <3>1. Slot(k) # tail
      BY <1>17, <1>0, Wrap DEF Slot, IInv, TypeOK, RingConsistent, Offset, Slots
    <3> QED BY <1>17, <1>0, <3>1, Wrap DEF Slot, TypeOK, Slots
  <2>2. Pending' = Pending
    BY <1>17, <2>1 DEF Pending, Slot
  <2> QED BY <1>17, <2>2 DEF history, Channel!vars
<1>18. CASE RxCommit
  <2> USE DEF RxCommit
  <2>1. count < QUEUE_TASK_LENGTH /\ queueTask[tail] = arrivals + 1
    BY <1>18, <1>0 DEF IInv, TypeOK, Filling, Goto
  <2>2. Slot(count + 1) = tail
    <3>1. Offset(tail) = count
      BY <2>1, <1>0 DEF IInv, RingConsistent
    <3>2. head \in Slots /\ count + 1 \in 1..QUEUE_TASK_LENGTH
      BY <2>1, <1>0 DEF TypeOK
    <3>3. Slot(count + 1) = IF head + (count + 1) - 1 >= QUEUE_TASK_LENGTH
                              THEN head + (count + 1) - 1 - QUEUE_TASK_LENGTH
                              ELSE head + (count + 1) - 1
      BY <3>2, Wrap DEF Slot
    <3> QED BY <1>0, <3>1, <3>3 DEF TypeOK, Offset, Slots
  <2>3. Pending' = Append(Pending, arrivals + 1)
    BY <1>18, <1>0, <1>a, <2>1, <2>2 DEF Pending, Slot, TypeOK
  <2>4. Channel!Accept
    BY <1>18, <1>0, <1>a, <2>1, <2>3
    DEF Channel!Accept, Channel!Offer, IInv, Filling, Goto
  <2> QED BY <2>4 DEF Channel!Next
<1>19. CASE Retire
  <2> USE DEF Retire
  <2>1. count > 0 /\ current = queueTask[head]
    BY <1>19, <1>0
    DEF IInv, TypeOK, TaskHeld, RingConsistent, LockDiscipline, Offset, Goto, Slots
  <2>2. Head(Pending) = current /\ Pending # <<>>
    <3>1. Slot(1) = head
      BY <1>0, Wrap DEF Slot, TypeOK, Slots
    <3> QED BY <1>0, <1>a, <2>1, <3>1 DEF Pending, TypeOK
  <2>3. ASSUME NEW k \in 1..count - 1
        PROVE  Slot(k)' = Slot(k + 1) /\ Slot(k + 1) # head
    <3>1. head' = IF head = QUEUE_TASK_LENGTH - 1 THEN 0 ELSE head + 1
      BY <1>19, <1>0, RingStep DEF TypeOK
    <3>2. k \in 1..QUEUE_TASK_LENGTH /\ k + 1 \in 1..QUEUE_TASK_LENGTH
      BY <1>0 DEF TypeOK
    <3>3. head' \in Slots
      BY <1>19, <1>0, RingStep DEF TypeOK
    <3>4. Slot(k)' = IF head' + k - 1 >= QUEUE_TASK_LENGTH
                       THEN head' + k - 1 - QUEUE_TASK_LENGTH ELSE head' + k - 1
      BY <3>2, <3>3, Wrap DEF Slot
    <3> QED BY <1>0, <3>1, <3>2, <3>4, Wrap DEF Slot, TypeOK, Slots
  <2>4. ASSUME NEW k \in 1..count - 1
        PROVE  queueTask'[Slot(k)'] = queueTask[Slot(k + 1)]
    <3>1. Slot(k + 1) \in Slots
      <4>1. head \in Slots /\ k + 1 \in 1..QUEUE_TASK_LENGTH
        BY <1>0 DEF TypeOK
      <4> QED BY <4>1, Wrap DEF Slot
    <3> QED BY <1>19, <1>0, <2>3, <3>1 DEF TypeOK
  <2>5. Pending' = Tail(Pending)
    BY <1>19, <1>0, <1>a, <2>1, <2>4 DEF Pending, TypeOK
  <2>6. Channel!Deliver
    BY <1>19, <2>2, <2>5 DEF Channel!Deliver
  <2> QED BY <2>6 DEF Channel!Next
<1>20. CASE UNCHANGED vars
  BY <1>20 DEF vars, ring, history, Channel!vars, Pending, Slot
<1> QED
  BY <1>1, <1>2, <1>3, <1>4, <1>5, <1>6, <1>7, <1>8, <1>9, <1>10,
     <1>11, <1>12, <1>13, <1>14, <1>15, <1>16, <1>17, <1>18, <1>19, <1>20
  DEF Next, Tx, Rx, Proc

\* The task queue of lock.c implements the bounded first-in first-out channel:
\* tasks are processed once each and in the order of arrival.
THEOREM Implements == Spec => ChannelSpec
<1>1. Init => Channel!Init
  BY InitRefines
<1>2. IInv /\ [Next]_vars => [Channel!Next]_(Channel!vars)
  BY StepRefines
<1> QED BY <1>1, <1>2, Invariance, PTL DEF Spec, ChannelSpec, Channel!Spec
=============================================================================
