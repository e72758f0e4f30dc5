# A formal model of the modified ranging test environment

This directory holds TLA+ modules that model the drone simulator of this
repository, the TLC configurations that check them on small instances, and
theorems about them that TLAPS checks.

## 1. The system

Drones exchange numbered ranging messages through a control center. From the
times messages left and arrived, which the messages themselves report later, a
drone computes times of flight and so its distance to each neighbour.

| Component | State | Operations | Talks to |
|---|---|---|---|
| task queue and locks (`lock.c`) | ring of tasks, `head`, `tail`, `count`, `mutex`, `countMutex` | `QueueTaskTx`, `QueueTaskRx`, `processFromQueue` | called by the three threads of `drone.c`; calls `generateRangingMessage`, `processRangingMessage`, `send_to_center` |
| neighbour table and priority queue (`modified_ranging.c`) | addresses, `neighborPriorityQueue`, `counter` | `findRangingTable`, `registerRangingTable`, `updatePriority` | decides who gets a body unit in a message |
| local send buffer (`modified_ranging.c`) | ring of the last messages sent | `addLocalSendBuffer`, `findLocalSendBuffer` | written by the main thread, read by the process thread |
| ranging lists and buffers (`ranging_struct.c`) | for each neighbour a send list, a receive list and the valid buffer (two rings); `initTofSum` | `addRangingList`, `searchRangingList`, `findLocalSeqIndex`, `addRangingBuffer`, `searchRangingBuffer`, `initializeCalculateTof`, `calculateTof` | used by `processRangingMessage` |
| ranging protocol (`modified_ranging.c`) | `localSendSeqNumber`, `lastD`, the above | `generateRangingMessage`, `processRangingMessage` | between drones, by messages |
| drone (`drone.c`) | socket, three threads | `send_to_center`, `receive_from_center`, `process_messages`, `main` | control center over TCP |
| control center (`center_control.c`) | `nodes`, `node_count`, `worldBaseTime`, `nodes_mutex` | registration, reject, broadcast, disconnection | one thread for each drone |
| local host (`local_host.c`) | clock base, `last_time`, position, velocity | `get_current_milliseconds`, `modifyLocation`, ... | called by two threads of a drone |
| data processing (`data_process.py`) | none | reads the log and plots it | the log |

What makes it hard: three threads with two locks that cover different things; a
buffer that is read under a lock and written without it; times that arrive late,
repeated, out of step or not at all; rings that overwrite what is still awaited;
messages that cross; a two-phase algorithm (initialization, then calculation) of
which each phase runs in two directions and in two places of the code; a
priority queue that mixes places and indices; a lock-free clock that is pushed
ahead of the real one; a center whose threads send, and may block or be killed,
with the lock on the table held.

What makes each part correct:

* *task queue*: first-in first-out, loss only when full or out of memory, the
  task being processed is not touched, every accepted task is processed, the
  tables are used by one thread at a time;
* *local send buffer*: what is read without a lock is not torn as long as it is
  kept, and what is kept is found;
* *neighbours*: one table for each address, a queue of tables in use, in which
  the neighbour just heard moves to the tail;
* *lists*: both times of a row belong to the same message;
* *buffers*: a record is two communications that took place, one after the
  other, with the sum of the times of flight it was computed from;
* *protocol*: the header makes up for loss, the two directions change phase
  together, the average that ends the initialization is that of the neighbour;
* *control center*: the table is that of the registered drones, all of which have
  one base time and get it before anything else; the messages reach all drones in
  one order; a drone that reads slowly holds up the others for a while only;
* *local host*: times increase, every call for the time returns, and a drone
  stays near its area.

`PROJECT.json` lists the hazards at their lines, with the properties that cover
them.

## 2. Modules

| Module | What it is | Code |
|---|---|---|
| `TaskChannel` | abstract: a bounded first-in first-out channel | what `lock.c` promises |
| `TaskQueue` | the three threads on the ring, one step between any two points where another thread sees a difference | `lock.c`, the loops of `drone.c` |
| `TaskQueueProofs` | theorems about `TaskQueue` | |
| `TableSet` | neighbour table and priority queue as operators | `modified_ranging.c:40-108` |
| `Neighbors` | `TableSet` under every order of messages | `modified_ranging.c:296-310` |
| `NeighborsProofs` | theorems about `Neighbors` | |
| `SendBuffer` | the local send buffer between a writer and a reader, access by access | `modified_ranging.c:59-79`, `:374-416`, `drone.c:29-43` |
| `SendBufferProofs` | theorems about `SendBuffer` | |
| `RangingStruct` | lists and buffers as values and operators | `ranging_struct.c` |
| `StructProofs` | lemmas about the operators of `RangingStruct` and `TableSet` | |
| `ModifiedRanging` | the protocol between drones; composes `RangingStruct` and `TableSet`, and implements `Neighbors` | `modified_ranging.c`, `drone.c` |
| `RangingProofs` | theorems about `ModifiedRanging` | |
| `EnteredProofs` | the theorem that `ModifiedRanging` enters no communication twice | |
| `Relay` | abstract: a total order broadcast with members that join late | what the center promises |
| `ControlCenter` | the handlers of the center, the drones' main and receive threads, and the streams between them | `center_control.c`, `drone.c` |
| `CenterProofs` | theorems about `ControlCenter` | |
| `Clock` | `get_current_milliseconds`, access by access | `local_host.c:4-21` |
| `Motion` | the flight of a drone along one axis | `local_host.c:33-103` |
| `LocalHost` | composes `Clock` and `Motion`: the main thread flies between its calls | `local_host.c`, `drone.c:219-232` |
| `LocalHostProofs` | theorems about `LocalHost` | |
| `MCNeighbors`, `MCRanging`, `MCCenter` | model values, symmetry and bounds for TLC | |

No module is recursive in the sense of `RECURSIVE`, so that all can be proved
about. Definitions marked *Mutant* are changed forms of the definition that
follows them, each with a mistake one could make there. No specification uses
them; each property was checked to fail when its mutant takes the place of the
definition.

### TaskQueue

The variables are the fields of `QueueTaskLock_t`, a holder for each mutex, a
program counter for each thread and the task `processFromQueue` works on. A
message is its number of arrival. Malloc may fail a bounded number of times.
`TxGenerate` and `Process` stand for the calls of `generateRangingMessage` and
`processRangingMessage`; what they do to the tables is in `ModifiedRanging`.

`RingConsistent` says where the ring holds tasks; `Filling` is the one place
where slots and `count` disagree, between the store and the commit of the receive
thread, which holds `countMutex` meanwhile. The refinement maps the ring to the
sequence of tasks from `head` on (`Pending`); a store is a stutter and the commit
is the `Accept` of the channel.

### Neighbors

Indices are those of the code plus one. The queue is kept for the first
`counter` entries: `updatePriority` writes all of them, and no function reads
the others. The body of `updatePriority` is one function expression, as the
loops over a prefix have a closed form: places before the table's get their own
index, the following entries move up, the last is the table.

`MovesToTail` is what the comment at `updatePriority` says, and fails.
`EarlierMovesToTail` says how much of it is left: when a message comes from a
neighbour registered before the one heard last (`lastHeard`), its own entry is the
one taken out, and all others keep their order. So a neighbour is pushed out of
the queue only by one that is heard twice in a row, or after one registered before
it. Nothing better holds: with two neighbours the second is out after two messages
of the first, and the neighbour heard last may be at the head of the queue, too.

### SendBuffer

`addLocalSendBuffer` is four stores, to `topLocalSendBuffer` and to the three
fields of the slot, which neither a lock nor an atomic orders for the other
thread: `AddStore` makes them in any order. The process thread reads the entry in
the condition of the loop, again in its body, and field by field when it is found
(`FindTest`, `FindCompare`, `LoadEntry`), so that any store may come in between.
Only sent messages are reported, and a neighbour may report any of them, however
old. An entry holds the number of its message modulo `SeqRange` and twice the
message itself, for the time and the place, so that a mixture of two shows.

The `seqNumber` and the slot are both functions of the message (`Entry`, `Slot`):
the code advances `topLocalSendBuffer` once for each message, from its initial
place, and the theorem below includes that the two agree. This module justifies
that `ModifiedRanging` takes the buffer as read and written in one step.

### ControlCenter

For each drone there is the program counter of its main thread (`main`), its
receive thread (`receiver`), the program counter of its handler in the center
(`handler`), and the two streams of the connection (`up`, `down`). The lock of
the table is explicit where it is held over several steps, in
`broadcast_to_nodes`: `LockBroadcast`, then `SendNext` for each entry, which
waits while the stream is full, then `UnlockBroadcast`. Registration, refusal and
removal hold it too but cannot block, so that each is one step that needs the
mutex to be free. What blocks and what kills is in the model: a `send` on a full
stream waits; one to a drone that has gone is lost (`SendLost`) or raises
SIGPIPE, which ends the center (`SendKills`) or a drone (`SendKilled`).

The streams carry whole messages, with one exception that the code makes certain:
a refused drone takes the first eight bytes of the reject message for its base
time, and finds the `Rest` in the place of the next message.

`worldBaseTime` counts how often it was set: the clock of the center advances
between two settings. `Relay` is refined with the history variables `log`, the
messages in the order in which their broadcast got the mutex, and `join`, its
length at each registration: `LockBroadcast` is `RelayNext`, `Register` is
`Join`, `Receive` is `Deliver`, everything else is a stutter. `RelayNext` says
that the numbers of a member in the log are those up to `n - 1` when its message
`n` comes, so that it is each message once and in its turn. A drone that
reconnects is a new process, so another member of `Drones`.

The links of `ModifiedRanging` keep the order of the messages of one drone to
another only, which is weaker than what `Relay` gives: `ModifiedRanging` checks
more behaviours than the center allows.

### Clock, Motion and LocalHost

A call for the time reads the clock, loads `last_time`, and loops over an exchange
that may fail spuriously, as the weak form may; every call ends in a store, also
one that has just exchanged. Overlapping calls may return equal times, since the
store of a slow one sets `last_time` back; `overlapped` and `serial` record which
calls the order is promised for. In `ModifiedRanging` the times of the messages
one drone sends and receives are taken to increase: `SerialCallsIncrease` gives
this for calls of its two threads that do not overlap.

`Motion` is one axis, as each axis of the code moves by itself and by the same
rule. The conversions are those of C: the velocity becomes unsigned, the
coordinate is the sum modulo 2^16. A failed send returns a delay of zero, for
which the drone stays where it is but is reversed again when it is outside.

### RangingStruct and ModifiedRanging

The code writes each case twice, for SENDER and RECEIVER, with the fields
exchanged; the statuses are here the names of the two halves of a record, which
leaves one case. Lists and buffers are rings with the index of the last entry, as
in the code, and searches go back from there.

A timestamp is a reading of the clock of the drone that takes it. Each drone has
its own clock, which it advances when it sends or receives: clocks of two drones
are never compared, by the code or by the model, and on one clock only the order
matters. The intervals are taken modulo `UWB_MAX_TIMESTAMP`, so that a negative
one becomes about 2^40. From this follows what decides:

* `initializeCalculateTof` accepts when the numerator `Ra*Rb - Da*Db` is not
  negative. With the three communications in order, `Ra >= Db` and `Rb >= Da`;
  `Ra` and `Rb` are never negative, by the way the rows are searched for; when
  `Da` or `Db` is, it is about 2^40 and the numerator is negative.
* `calculateTof` stores when the distance is in range. With ordered
  communications it is (`RangeCheck` is TRUE, or anything when `OrderedMayFail`,
  as the sum it starts from may be inexact); with just one of `Da` and `Db`
  negative it is not; in all other cases the check may go either way.

A sum of times of flight is known by what it was computed from: classic, modified
(with the two messages) or the average that ends the initialization. `initTofSum`
is the sequence of the neighbours its terms are of. Coordinates, log output and
the compensation of the printed distance are left out; `lastD` remembers whose
distance it is.

`Generate` and `Send` are the two halves of `QueueTaskTx`, with `mutex` held and
without: tasks may be processed in between. `Receive` takes the timestamp and
enters the queue; `Lose` is a message dropped for a full queue, a failing malloc
or `PACKET_LOSS`. `Process` is the whole of `processRangingMessage`: arrival,
header from the oldest time to the newest, then the first body unit for this
drone. The times of the two loops are the *turns* of the call, each from the
oldest to the newest (`processTime`); as `RangeCheck` may leave a choice, `turns`
is the set of the states the call can be in after each of them. The center is the link between each two drones:
first-in first-out, as TCP and the single broadcast lock keep the order.

The history variables `sentAt` and `heardAt` record when each message left and
arrived; the properties compare lists and buffers with them.

`Neighbors` is the abstract specification of the tables of one drone: it hears
whole messages, one after the other, from anybody. `KeepsNeighbors` says that the
tables of each drone of `ModifiedRanging` implement it (`TablesOf(d)`): the
addresses and the queue are mapped to those of the drone, its `lastHeard` to the
neighbour at the tail of the queue, and its `refused` to the neighbours of which a
message was processed although they have no table, which the history tells
(`Handled`). Every `Process` is then a step of `Neighbors`, everything else a
stutter. So what is proved of `Neighbors` holds of the tables of each drone,
whatever is lost, queued and under way.

## 3. Runs

| Run | Question | Bounds | Result |
|---|---|---|---|
| `TaskQueue.cfg` | safety, refinement and liveness of the queue | 3 slots (as configured), 6 arrivals, 1 failing malloc in each caller | 7 740 states, holds |
| `Neighbors.cfg` | tables and queue; when does the queue move the right table? | 5 addresses, 4 tables | 114 states (symmetry), holds |
| `NeighborsOrder.cfg` | does `updatePriority` move the table to the tail? | 5 addresses, 2 tables | violated |
| `RangingLoss.cfg` | rows, records, phases and header under loss | 2 drones, 4 messages each, 2 under way, one loss in a row | 794 542 states, holds |
| `RangingRetry.cfg` | records after the second try of `calculateTof`; what is reported several times enters once; the initial average | 2 drones, 4 messages each, 3 under way, no loss, range checks fail at will | 571 766 states, holds |
| `RangingFull.cfg` | a third drone when there is one table; body units for other drones; does each drone keep its tables as `Neighbors` says? | 3 drones, 2 messages each, 1 table | 126 983 states, holds |
| `RangingSharedSum.cfg` | the initial average with two neighbours | 3 drones, 2 tables | violated |
| `RangingLongLoss.cfg` | more losses in a row than the header repeats | header of 1, two losses in a row, list of 2 | violated |
| `SendBuffer.cfg` | is an entry torn or missed while the buffer is written? | ring of 3, numbers modulo 5, 12 messages | 345 271 states, holds |
| `ControlCenter.cfg` | table, base time, order, and progress in spite of blocking sends | 3 drones, table of 2, streams of 1, three messages, one and none, 1 drone stops | 178 692 states, holds |
| `CenterRefused.cfg` | does a refused drone exit? | as above, no messages | violated |
| `LocalHost.cfg` | times, progress of the lock-free loop, the flight of a drone | 2 threads, 4 calls, area 6 to 9, steps of up to 2, 2 failed sends | 360 360 states, holds |

Why the bounds are enough to be interesting: lists have two or three rows and
drones send up to four messages, so that lists and local send buffers wrap;
buffers have two records and the initialization takes two, so that both phases
are reached and records are overwritten; two or three messages under way, each in
a link or a queue of its own, give every way in which the messages of two drones
cross. `MaxSeq` bounds `localSendSeqNumber`, `MaxUnderWay` the messages made and
not processed, `MaxConsecutiveLoss` the losses in a row, `MaxArrivals` and
`MaxMallocFailures` the steps of the queue. A ranging run ends in `Finished`, a
stutter allowed only when all messages are sent and processed; every other
state without a successor is reported as a deadlock. Runs with symmetry have
drones that are only compared.

`SendBuffer` writes each slot four times, and numbers pass `NULL_SEQ` twice; the
reader holds an index over more than a round of the ring. `ControlCenter`:
three messages of one drone fill its own stream to the center, its handler and
its stream back, which is what a deadlock of the blocking sends would need; a
second drone that talks makes two handlers wait for the mutex, the third is
refused or takes the place of the one that has left (`MaxLeaves`). Nothing makes
drones connect or send, so all smaller numbers of both are included.
`LocalHost`: two calls overlap, with one call before and one after them; the area
is wider than one step, and failed sends turn a drone away from it at both ends.

`QUEUE_TASK_LENGTH` is one in the ranging runs: a longer queue only lengthens the
first-in first-out way of a message, which the link has already. In the runs with
`MaxConsecutiveLoss = 0` a message waits on its link when the queue is full.

`KeepsNeighbors` is checked with one table for each drone, where the priority
queue has one place only, and without loss: the run shows registration and
refusal, and when a message counts as processed. `Neighbors.cfg` has the queue with four places, and
the theorem has every number of both and every loss.

### What is violated

Each of these runs states what a comment or a diagram of the code says and ends
in a counterexample (details in `PROJECT.json`, `findings`):

1. `updatePriority` takes place for index, and loses neighbours from the queue
   (`MovesToTail`; `EarlierMovesToTail` holds);
2. a reused row of the receive list keeps the departure time of an older
   message: with more consecutive losses than the header repeats, a record pairs
   times of two messages (`RecordsTrue` holds within the header's reach and fails
   beyond it);
3. `initTofSum` is shared by all neighbours, and so is the average that ends the
   initialization (`InitialAverage` holds with one neighbour);
4. a refused drone takes the reject message for its base time, misses the rest,
   and goes on sending (`RefusedDroneExits`).

Two things the code does are in the model without a property against them, as
its comments leave open what is meant. The second try of `calculateTof` stores
the sum of one pair of communications with the communications of another: mostly
of an older pair, but during the initialization the rings are filled out of order,
and with longer lists than those of `RangingRetry.cfg` the pair can be a newer
one. And the end of the initialization gives its average to some of the records
only.

## 4. Fairness

`FairSpec` of `TaskQueue` has weak fairness for the steps of a thread inside a
call, as the scheduler runs it, and strong fairness for the steps that take a
lock: between two critical sections the process thread sleeps ten milliseconds,
the main thread sleeps a ranging period, and the receive thread waits in `recv`,
so that a lock is free again and again for long enough that a waiting thread gets
it. There is no fairness for `RxLock` (messages need not come) or for malloc
failures. `EveryTaskDelivered` and `SendsForEver` are checked under it.

`FairSpec` of `LocalHost` has weak fairness for the steps of a thread inside a
call, and for the turns of the send loop. Calls need not begin and the clock need
not tick. A failed exchange leaves the loop unless another thread has stored a
time that is not below that of the call (a spurious failure leaves it too), so
that `EveryCallReturns` is about interference: every further round needs a store
of another thread in between, and there are `MaxCalls` calls. For `ComesBack` the
send loop must go on, which it does as long as the process lives.

`FairSpec` of `ControlCenter` has weak fairness for the main thread's wait for
the base time, for the receive thread, and for each handler. Weak fairness is
enough to get `nodes_mutex`, as `MaxMessages` bounds how often others take it;
in the code a handler waits in `recv` between two broadcasts. Nothing makes a
drone connect, send or leave.

The other modules have no liveness property.

## 5. Proofs

`TaskQueueProofs` proves, for every number of slots, arrivals and failing
mallocs: the inductive invariant `IInv`, and from it type correctness, the
consistency of the ring, mutual exclusion on the tables, and that the ring
implements `TaskChannel`. `RingConsistent` alone is not inductive: that the two
threads step `count` one at a time needs `LockDiscipline` (who is inside which
critical section, for both mutexes on all paths), and the slot that is stored and
not yet counted needs `Filling`. `IInv` is also checked by TLC. The remainder
operation of the ring is replaced by a case distinction in one lemma (`RingStep`,
and `Wrap` for two positions), after which all steps are linear arithmetic.

`NeighborsProofs` proves the four invariants of `Neighbors` and the action
property `EarlierMovesToTail`, for any number of tables and any set of addresses.
The invariants hold together: `findRangingTable` returns
the first table of an address, and `OneTableEach` is what makes it the only one;
`QueueValid` bounds the entries that `updatePriority` moves. For the action
property they are strengthened by `PlacesOwn`: each message puts the tables before
that of its sender back at their own places, so that place and index are the same
there until the next one. The lemmas
`FindFound`, `FindNone`, `Register` and `Update` of `StructProofs` say what the
four operators of `TableSet` return.

`SendBufferProofs` proves type correctness, `KeptEntryTrue` and `KeptEntryFound`
for every size of the ring, every range of numbers larger than it, and every
number of messages. The invariant says of each slot which message it belongs to
by now, from the number of messages sent, with only the slot of the message being
added in between; the search is then at a known distance from where it began,
and a slot it has passed does not hold the message it wants. Without
`SeqRange > LOCAL_SEND_BUFFER_SIZE` two entries of the ring could have one number.

`CenterProofs` proves for any finite or infinite set of drones, any table and any
room on the streams: the inductive invariant `IInv`, and from it type
correctness, `NodesRegistered`, `SameBase` and `BaseFirst`. The last two are not
inductive: the base time of a registered drone may still be on its stream, and a
drone that has not registered must have nothing there. `Stage` says this, for
each drone, of its main thread, its handler and the stream between them. A step
of one drone touches the stream of another only in `SendNext`, to a registered
one, behind what is already there; and `worldBaseTime` changes only when the
table is empty, so that no registered drone has the old one. The proof has one
lemma for each part of `IInv`, and in it one step for each action.

It also proves that the center implements `Relay`. For this `Flow` follows the
messages: of each drone, those on its stream, the one with its handler and those
in the log have consecutive numbers (`Upward`); and what a registered drone has
got and what is on its stream make up the log from where it joined, up to its
end, or to the one before when a broadcast has not reached its place in the table
yet (`Downward`).

`LocalHostProofs` proves for any set of threads, any clock and any flight area
that meets `MotionAssumption`: type correctness, `SerialCallsIncrease`,
`AheadOfClock` and `WithinReach`. The order of the times rests on this: when a
call without overlap has stored its time, `last_time` never falls below it
again, as every later call only stores what is above the `last_time` it saw. The
reach rests on the direction: a drone outside its area has made its last step
away from it with a failed send, each of which is counted.

`RangingProofs` proves all invariants of `ModifiedRanging` and the action
property `InitialAverage`, for any set of drones, any size of lists,
buffers, header, body unit and queues, any number of messages and tables, and any
loss. The parts of its inductive invariant say, of every place that holds a time,
which message the time is of:

* `Histories`: the history grows with the messages, and times on one clock do;
* `LocalBuffers`, `Messages`: the slots of the local send buffer, the header and
  the body units of every message under way, and every task in a queue;
* `TableSets`: one table for each address, as in `NeighborsProofs`;
* `TablesTrue`: rows, records and lengths of the two rings of each table. Rows of
  the receive list are those of the last arrivals, newest at the top, and whether
  a departure time is missing depends on how many later messages have arrived
  (`Redundant`, `Complete`);
* `InOrder`: the tasks of one neighbour are processed in the order it sent them;
* `NoGap`: no run of lost messages is longer than `MaxConsecutiveLoss`;
* `Sums`: the terms of `initTofSum` are as many as the records of the
  initialization.

None of the properties is inductive: what enters a list was in a message, what is
in a message was in a list or buffer of another drone, and when a task is
processed its message is older than both. The step that processes a message is the
long one: each turn of its loops keeps `CallTrue`, and what the call leaves is put
in the place of one table. Induction over the turns is by the least turn that
breaks it (`Least`, `NatInd` of `StructProofs`, for a set in the place of an
operator). `RecordsTrue` and `InitOrdered` are proved under `Short`, that fewer
messages in a row are lost than the header repeats: without it they fail, as
`RangingLongLoss.cfg` shows. `InitialAverage` is proved under `Single`, one
neighbour for each drone: `RangingSharedSum.cfg` shows it fail without. All others
need neither.

`RangingProofs` also proves that the tables of each drone implement `Neighbors`
(`Keeps`), for any number of tables and drones. A step of `Neighbors` may refuse a
neighbour only when the tables are full, so that the mapping needs an invariant of
its own, `RefusedFull`: where a processed message has no table, all are in use.
That exactly one neighbour's set of processed messages changes in a `Process`, and
none in a `Receive`, rests on the parts of `IInv` about tasks: a task is of a
message that arrived, and no other task is of the same one.

`EnteredProofs` proves `EnteredOnce`, for the same sizes and any loss. It
needs a second invariant, `OnceInv`, on top of the first. A message
is reported in several body units, and the send list forgets its oldest rows: a
report that went back behind what the list still has would enter a message again.
`ReportsOnce` says that this does not happen on the way: what a unit reports is a
window of the arrivals, and each later unit, and what will be reported next
(`Heard`), has moved on from it (`MovedOn`): it is as new, and has all of the
earlier window that it goes back to. `TablesOnce` says that each send list has
what every window under way goes back to (`Fits`), but for messages that had
already left the local send buffer when they were reported, which
`findLocalSendBuffer` will not find; that the rows of both lists are in the order
of their numbers (`ListsOnce`); and that `calculateTof` will make no second record
of the messages it has made one of (`BuffersOnce`). The call that processes
a unit serves it from its oldest time to the newest, and keeps the list fitting
every other window (`CallOnce`).

`StructProofs` says what the operators of `RangingStruct` and `TableSet` return: where a ring is
filled next, how far back a slot is, what the searches find, and which halves the
records of `initializeCalculateTof` and `calculateTof` are made of; what it means
that a list is in order, and how windows of it move on.

The assumptions are those the modules declare: positive sizes, Boolean switches,
a null address that is no address, `Nobody` that is no drone, more sequence
numbers than slots, and an area whose surroundings do not wrap
(`MotionAssumption`; with the configured numbers 1400 below 5000 and 41400 below
65536).

The lists of `ModifiedRanging` have at least as many rows as a header
or a body unit has times (`RangingAssumption`): the defaults of
`modified_ranging_defconfig.h` are 3 times and 10 rows.

Only model-checked is all liveness, as fairness is out of the prover's reach; every
safety property of a passing run is proved, action properties and refinements
included. Nothing is said about `ENABLED`: that a ranging run does not stop before
`Finished` is TLC's deadlock check.

## 6. Not modelled

* Reading the log (`data_process.py`): it reads the log of a finished run.
* `DYNAMIC_RANGING_FREQUENCY_ENABLE`, which is switched off, and the compensation
  of the printed distance.
* Messages that `recv` returns in parts: streams carry whole messages.
* Failing `accept`, `pthread_create` and `socket` calls, which end or skip a
  connection and keep no state.
* Two names with one hash, and coordinates torn by a thread that reads them while
  the drone moves: only the log shows these.
* Plots, log output, build files and constants have no state.
* In `ModifiedRanging` sequence numbers do not wrap and the local send buffer is
  read and written in one step; `SendBuffer` has both. It shows that the one step
  is right for an entry the ring keeps. A neighbour may report a message that is a
  full ring old just when `send_to_center` overwrites its entry, between the search
  and the reads (`modified_ranging.c:374`, `:383`): a torn read of such an entry is
  in neither. `SendRowsTrue`, `RecordsTrue` and `EnteredOnce`, with their theorems,
  are about the runs without one.
* The end of the center by SIGPIPE (`SendKills`) is in the model but not against a
  property: `RelaySpec` says that what the drones have got by then is in order, and
  `EverySentIsHeard` is about a center that runs.
* The numbers of the formulas are not in the model; only their signs are.

## 7. Plan

Done, in this order: `TaskChannel`, `TaskQueue` and their proofs; `TableSet`,
`Neighbors` and their proofs; `RangingStruct`; `ModifiedRanging`; `LocalHost`,
`SendBuffer`, `ControlCenter` and their proofs; the proofs about `TableSet`,
`RangingStruct` and `ModifiedRanging`; the refinement of `Relay`; `EnteredOnce`;
the refinement of `Neighbors` by the table sets of `ModifiedRanging`.

To do, most important first:

1. messages that `recv` splits, in the streams of `ControlCenter`;
2. the dynamic period and the compensation of the distance by `lastD`;
3. how `read_data` assembles entries from lines of the log that do not match.
