# MPIPCL in TLA+

MPIPCL implements MPI-4 style partitioned point-to-point communication on top
of persistent MPI requests. A buffer is split into *partitions* by the user and
into *messages* by the library; threads of the user mark partitions ready
(`MPIP_Pready`), the library starts a message when all partitions in it are
ready, and the receiver asks for single partitions (`MPIP_Parrived`). The number
of messages is fixed by an info key or learnt from the other side by a
background thread, so that the init call does not block.

This directory holds TLA+ modules for that library, TLC configurations that
check them on small instances, and TLAPS proofs for every instance.
`PROJECT.json` lists the runs, the source lines behind every definition, the
mutants that show each property can fail, the hazards and the theorems.

## Inventory

| Part | State | Operations | Interaction |
|---|---|---|---|
| Request lifetime (`setup.c`, `MPIP_Psend_init.c`, `MPIP_Precv_init.c`, `MPIP_Start.c`, `MPIP_Wait.c`, `MPIP_Test.c`, `MPIP_Request_free.c`) | `state`, `threaded`, `parts`, `size`, `request[]`, lock | init, start, wait, test, free | main thread; creates and joins the background thread |
| Negotiation (`sync.c`, `sync_driver` in `setup.c`) | the same fields; the message with tag 990 | `sync_hard`, `sync_side`, `threaded_sync_driver` | writes the request while the user's threads use it; catches up under the lock |
| Send side (`send.c`, `MPIP_Pready*.c`) | `local_status[]`, `internal_status[]` | `MPIP_Pready`, `_list`, `_range`, `general_send`, `send_ready` | many threads and the background thread count on the same atomic counters |
| Receive side (`send.c`, `MPIP_Parrived.c`) | `local_status[]` as a cache | `MPIP_Parrived`, `map_recv_buffer` | many threads poll and consume the same MPI requests |
| Partition map (`send.c`, `sync_hard`) | none | threshold, first and last message of a partition | used by both sides |
| Array operations (`MPIP_Startall.c`, `MPIP_Waitall.c`, `MPIP_Waitany.c`, `MPIP_Waitsome.c`, `MPIP_Testall.c`, `MPIP_Testany.c`, `MPIP_Testsome.c`) | loop index, flag, indices | loops over start, wait, test | consume completions of several requests while their threads run |
| Several requests on one communicator (`sync.c`, `internal_setup` in `setup.c`) | none; the matching of MPI | tag 990 for every negotiation, `tag + i` for data, a blocking `MPI_Send` in the init call | requests of two ranks meet in MPI's queues only |

What is hard in this code, and what makes each part correct:

* *Send side*: a partition must be counted once for each of its messages,
  although both the thread that marks it and the background thread may do it,
  and neither knows of the other but through `threaded`. Each message must be
  started once, not before its partitions are ready, and not never.
* *Receive side*: the receives must be posted once, by `MPIP_Start` or by the
  background thread; a poll may be answered from a cache which other polls
  overwrite without a lock.
* *Lifetime*: `parts` and `request[]` are written by the background thread
  without the lock; everybody else must stay away until `threaded` says so.
  `MPIP_Wait` must return, and only when the data is out.
* *Partition map and modes*: two sides with different partitionings must agree
  on the messages; truncating divisions must not lose elements or reach past
  the buffer; a missing info key must not leave the choice to the stack.
* *Array operations*: testing a request consumes its completion, so every loop
  must report what it consumed, and report it in the same call; loops that wait
  must not wait for what nobody will complete.
* *Several requests*: each request must get its own numbers and its own data out
  of a matching that knows only tags; init calls that block must not block each
  other.

## Modules

| Module | Models |
|---|---|
| `PartitionMap` | `sync_hard`, threshold and range of messages of a partition as operators; the reference relation and the elements of a set of blocks by the layout of the buffer |
| `MPIPRequest` | the fields of `MPIP_Request`, the main thread, the first half of `threaded_sync_driver`; common to both sides |
| `SendRequest` | `MPIPRequest` with `MPIP_Pready` and its list and range forms, `general_send`, `send_ready` |
| `RecvRequest` | `MPIPRequest` with `MPI_Startall`, `MPIP_Parrived`, `map_recv_buffer` |
| `Channel` | both sides of one channel: info decoding, `sync_driver`, `sync_side`, one activation of data; calls are atomic, geometries vary |
| `Partitioned` | abstract: elements become ready, then move, then are reported; an activation completes when all have moved |
| `Completion` | the seven array operations over several requests |
| `Negotiation` | several channels between two ranks: init calls, threads, MPI's matching by tag |
| `PartitionMapProofs`, `SendRequestProofs`, `SendCountingProofs`, `SendReadyProofs`, `RecvRequestProofs`, `ChannelProofs`, `CompletionProofs`, `NegotiationProofs` | theorems, each about the module it is named after; the three `Send` modules extend one another in this order |
| `MCSendRequest`, `MCRecvRequest`, `MCChannel`, `MCNegotiation` | symmetry sets, info objects and channels for TLC |

### State and steps

The variables have the names of the fields of `MPIP_Request`. `local_status` is
the set of partitions whose flag reads true, `request[i]` the state of the i-th
persistent MPI request: `null`, `inactive`, `active`, `complete` (completed, not
yet seen by a test or a wait). `main` and `sync` are the places of the main and
of the background thread, `pc[t]` that of thread `t` in a Pready or Parrived
call. `round`, `ready`, `added`, `starts`, `answered` and `delivered` are history
variables that only the properties read.

A step is what no other thread can see half done: an access to a shared field,
an atomic increment, an MPI call, a locked section. Locked sections that only
read `threaded` (and store `state`) are single steps, enabled while the lock is
free. The catch-up of the background thread holds the lock for long,
exactly while `sync = "catchup"`. So `MPIP_Pready` is `PreadyMark`
(store the flag, without the lock), `PreadyRead` (read `threaded` under it) and,
in `general_send`, one `GeneralSendAdd` and possibly one `GeneralSendStart` for
each message. The receive side's catch-up is one `MPI_Startall` and is one step.

In `Completion` a call to `MPIP_Start`, `MPIP_Wait` or `MPIP_Test` is one step and
a request is a receive with one message: what goes on inside such a call is the
subject of `RecvRequest`. An action is one turn of a loop over the array;
negotiations end and messages arrive between turns. `index` holds what the code
has stored in `*index` or `array_of_indices`. `round`, `arrived` and `before`
(the requests active when the operation was called) are history.

In `Negotiation` each rank makes its init calls in the order of its program.
`wire[k]` and `posted[k]` are the messages on their way to rank `k` and the
receives it has posted, each in order; `Match` pairs the first of each with equal
tags, which is MPI's non-overtaking rule for one pair of ranks. `MPI_Send` may
return at once (buffered) or only when matched; both are behaviours, and only the
second is fair. Background threads call `MPI_Recv` in any order. What a request
got as its numbers decides how many messages it starts or posts afterwards.

The default build type is RELEASE, which compiles the assertions out; the models
follow the code as it runs without them.

### Windows

Some schedules and calling orders break the negotiated path (see the violations below). The
constant `Windows` opens them one by one, so that the other properties can be
checked without them and each break is shown by itself:

* `"outrun"`: the background thread may reach its lock before the init call has
  stored `RUNNING`. A schedule of the operating system, not a user's error.
* `"early"`: the main thread may call `MPIP_Wait` or `MPIP_Test` before the other
  threads have marked all partitions.

`HeapGarbage` is the set of flags that may read true in the memory `malloc`
returns. Assumed of the caller throughout, as in MPI-4: a partition is marked at
most once in an activation and while the request is active; start and free are
called on an inactive request while no Pready or Parrived call is running. A
request may be freed unused, in particular while its negotiation still runs.

## Runs

Passing:

| Run | Instance | Shows |
|---|---|---|
| `SendDirect` | 4 partitions in 2 messages, no thread, garbage flags, 2 threads, 2 activations | the counters start every message once, in time, as `Partitioned` says |
| `SendNegotiated` | 2 partitions in 4 messages, background thread, clean flags, 2 threads, 2 activations | nothing is lost between the marking threads and the catch-up; `Partitioned` implemented; wait returns; liveness |
| `RecvNegotiated` | 2 partitions in 4 messages, background thread, 2 polling threads, 2 activations | one side posts, polls stay off half-built arrays, answers are sound and not taken back; liveness |
| `ChannelAll` | all geometries of up to 4 partitions and 8 elements, exact or not; all modes, SET in -1..4; any key missing, with any mode and the number 0 or 2 on the stack in its place | no message reaches past the buffer, indices in range but for a remainder, both sides agree with the keys given; on exact geometries end-to-end delivery, everything arrives, `Partitioned` implemented |
| `NegotiationCrossed` | 3 channels, init calls in crossed, compatible orders (A: 2, 1, 3; B: 3, 2, 1; A drives 2 and 3); the two channels with one driver have different numbers, which their threads may swap | each request takes the numbers of one channel, no two of a rank the same; own data; every init call returns; all data arrives where nothing was swapped |
| `Completion` | 3 requests, one negotiated, 2 activations each, any sequence of operations | completions are reported once and by the call that consumed them; waits return |

Two threads suffice for every pairwise race of the code, and the background and
main thread come on top of them; two activations show what leaks from one to the
next; four messages and four partitions give both branches of the partition map
with a threshold and a range larger than one. Three requests are the fewest with
one before, at and after the place where a loop stops, and three channels the
fewest with two behind one driver and one behind the other. The bounds are
`MaxRounds`, `MaxParts` and `MaxElements`; nothing else is cut. The worker symmetry is used in
runs without liveness only.

Violations, each a place where the code does not do what its documentation says:

| Run | Property | What happens |
|---|---|---|
| `SendDoubleCount` | `NoPrematureSend` | flag stored before the catch-up, `FINISHED` read after it: counted twice, sent with a partition missing |
| `SendGarbageFlags` | `NoPrematureSend` | flags of `malloc` sent by the catch-up; `MPIP_Parrived` answers from the same flags |
| `SendOutrun` | `CompletionMeansSent` | `RUNNING` stored over `FINISHED` |
| `ChannelUneven` | `EndToEnd` | receiver with 3 partitions and 2 messages: partition 1 is tested against message 1 only and reported before its first elements arrived |
| `NegotiationSharedTag` | `BytesEqual` | two requests with one driver: their threads receive each other's numbers, as both use tag 990 |
| `CompletionTestall` | `TestallReports` | a request made inactive by one call makes every later `MPIP_Testall` return 0 |

`findings` in `PROJECT.json` quotes the sentence each of them contradicts.

Further limits of the code, on which the properties of the passing runs are
conditioned or which show when a constant of a run is changed:

* *Wait or test before the last mark* (`"early"` in `Windows`): a persistent request
  never started counts as complete, and `CompletionMeansSent` fails.
* *Free before the first activation*: `MPIP_Request_free.c:31` says "clean up hanging
  threads", but no thread is joined; freed in the middle of its negotiation, the
  request leaves a thread that goes on to use what was freed. `FreedMeansQuiet`
  speaks of requests that have completed an activation.
* *Ranges with a remainder*: with 2 partitions and 3 messages, message 2 belongs to no
  partition (`send.c:44`) and is never started, and the wait returns without it; a
  buffer SET does not divide has a tail in no message (`sync.c:12`), although
  `mpipcl.h:141` says that `local_parts * local_size` should equal `parts * size`.
  `Channel` goes through these geometries; `EndToEndRegular`, `EverythingArrives`
  and the refinement are stated for `Regular` channels.
* *Missing keys*: without PMODE, or with HARD and without SET, the mode or the number is
  what the stack of the init call held (`setup.c:70`, `setup.c:76`), not the single
  message of README line 72, and the two sides may disagree. `Agreement` is stated
  with `KeysGiven`; `MessagesInBuffer` and `IndexInRange` hold all the same.
* *Garbage flags on the receiver*: a poll after a negotiated first start may be answered
  by a flag nobody stored (`ParrivedSound` with `HeapGarbage`).
* *Neighbouring tags*: message `i` uses `tag + i`. With tags 0 and 1 and two messages each,
  message 1 of one channel matches receive 0 of the other; a tag that reaches 990
  meets the negotiations (`DataMatches` with such a `Tag`).
* *Init calls that block each other*: two ranks that each begin with a channel they
  drive both stay in `MPI_Send` unless MPI buffers (`sync.c:27`); see `Compatible` below.
* *No active request*: `MPIP_Waitany` and `MPIP_Waitsome` then spin for ever;
  `WaitsReturn` is stated with an active request.

### Fairness

Weak fairness on every step of a call that has been made (the scheduler runs
every thread), on the background thread, and on MPI's delivery of what was
started. In `SyncStep` this includes the arrival of the other side's numbers:
the other side makes its init call. Nothing obliges the user to make another
call; `EveryPartitionGoesOut` and `WaitReturns` therefore speak of what was
asked for. The lock needs no strong fairness: it is held for long only once in
a request's life. In `Channel` both sides make their init call and the receiver
keeps polling. In `Completion` a loop that was entered runs on, negotiations end
and messages arrive; nobody need call again. In `Negotiation` both programs make
their init calls and start their requests, threads run and MPI matches what it
can; `MPI_Send` is fair only once its message is matched, so nothing rests on
buffering. `ChannelsComplete` is stated for `Compatible` orders of init calls: there
are no two channels such that each rank calls first for the one it drives. That is
enough. Suppose both ranks stay in `MPI_Send`, A in its call for c and B in its call
for d. Any thread may take any rank's numbers, so A waits because B has yet to call
for some channel A drives and has called for, c or an earlier one; the same holds of
B. These two channels are a pair that `Compatible` excludes. The instance is crossed,
and A drives channels both before and after the one B drives.

### Refinement

`Partitioned` says what the documentation promises of a partitioned request,
without messages, counters, modes or threads. `SendRequest` maps `active` to the
state, `ready` to the elements of the marked partitions and `moved` to the
elements of the messages that were started; it reports nothing. `Channel` is one
activation: `moved` are the elements of the messages delivered and `reported`
those of the partitions `MPIP_Parrived` answered for; a channel that is not `Regular`
promises nothing and maps to empty sets. Both refinements are checked
by TLC and proved. `Partitioned` has no fairness:
what must happen is stated by the liveness properties of the two modules.

## Proofs

`tlapm` checks all theorems; there is no unproved step. They hold for every
number of partitions, messages, threads, activations, requests and channels, and
every safety property of the passing runs is one of them: invariants, action
properties and both refinements. Each inductive invariant was checked with TLC,
on the instance of its run, before it was proved.

* `PartitionMapProofs`: `MapInRange`, `MapIsExact`, `ThresholdIsExact`. The
  code's ranges and threshold are exactly those of the buffer layout when
  `Exact` holds: both sides describe the same number of elements and one count
  divides the other. Its lemmas on elements (`MessagesCover`, `CarriedOf`,
  `MovedInReady`, `ReportedInMoved`: an element of a partition is in one of the
  partition's messages, an element of a message in one of the partitions it
  carries) serve the theorems of both sides and of the channel.
* `SendRequestProofs`: `IInv` is inductive when `"early"` is shut. `StartedOnce`
  alone is not: that a counter passes its threshold once says nothing unless
  threads about to start a message are tied to the counter and a restart finds
  everything quiet. `IInv` adds `Lifecycle` (which combinations of `main`, `sync`,
  `threaded` and `state` occur), `Arrays` (where the arrays exist), `ThreadsInv`
  (who may be in `general_send` when), `Counting` (a counter below the threshold
  has started nothing; a thread about to start a message finds its counter at or
  above the threshold and the message not started, and is alone in this) and
  `Requests` (a request is active or complete only if it was started). From it:
  `TypeCorrect`, `StartsOnce`, `ArraysSeen`, `WaitsSeeArrays`, `FreeIsQuiet` (for a
  request freed after an activation). These do not need exact geometries, clean flags or even
  single counting: `StartsOnce` holds although `SendDoubleCount` happens.
* `SendCountingProofs`: `CompletionSends`, that a completed activation has sent
  every element; for `Exact` geometries with `"early"` and `"outrun"` shut. `CInv`
  says that a marked partition is counted for a message, or still in the call
  that will count it, or left to a catch-up that has not passed it; that a
  counter is at least the number of partitions counted; and that a counter at or
  above its threshold has its message started or a thread about to start it.
  Together they turn "all marked" into "all counted" and that into "all started".
* `SendReadyProofs`: `NothingEarly`, that no message goes out before its
  partitions are ready, for exact geometries when nothing is negotiated, or when
  flags start clean and no message gathers several partitions (`SafeCatchUp`).
  The runs `SendDoubleCount` and `SendGarbageFlags` show that neither condition
  can be dropped. `RInv` says that only ready partitions are counted, and, where a
  threshold above one could notice, none twice. `SendRefines`: `Spec` implements
  `Partitioned`, under the assumptions of `NothingEarly` and `CompletionSends`. Each
  step of the send side is a start, a mark, a move or a completion, or changes
  none of the mapped variables (`StepShape`). A move is allowed because a message's
  elements belong to marked partitions, a completion because all messages are
  started (from `CInv`) and together are the buffer (`WholeBuffer`).
* `RecvRequestProofs`: `IInv` is inductive with every window open. Its parts are
  `Lifecycle` and `Arrays` as above, `Posting` (whoever finds the negotiation over
  finds every receive posted, nobody posts before the thread does), `Receipts` (a
  request that was posted and is not active has its data, which is what makes a
  positive `MPI_Testall` mean something although it also succeeds on requests that
  were never started) and `Polls` (a poll looks at requests only once they are set
  up). From it: `TypeCorrect`, `PollsSeeArrays`, `WaitsSeeArrays` and `FreeIsQuiet`.
  With `"outrun"` shut, `threaded` is no longer `RUNNING` once the thread has ended
  (`Ended`), and so `PostsOnce` (with the thread ahead of its creator nobody
  would post) and `CompletionArrives` (also exact geometries) hold. `AInv` adds that flags cached or about to be cached, and answers
  given, are backed by messages received in this activation. It needs the flags of a
  negotiated request to start clean (`CleanFlags`; `ParrivedSound` fails
  otherwise, as said under Runs) and gives `ParrivedIsSound` for exact
  geometries and `AnswersAreStable` for all geometries in range: a flag that is
  overwritten without a lock is only ever overwritten by what is true.
* `ChannelProofs`: no theorem has a hypothesis; they are for every geometry, any key
  missing, anything on the stack. `Shape` bounds the local numbers and `Offered`
  says of what a side has set up, and of a message with tag 990, that it fits the
  buffer; a truncated quotient does, and the two buffers are equally long. These
  give `MessagesStayInside`, `TypeCorrect` and, with `MapInRange`, `IndicesInRange`.
  `SidesAgree`: sides agree in the end because they
  agree throughout with what the arguments of the init calls determine: with the
  keys given, `Mode`, `Msgs` and `MsgSize` are functions of the info object and the
  local numbers (`Decided`). `DeliversEndToEnd` and `ChannelRefines` state
  properties of `Regular` channels, those with the keys given and an exact geometry
  (`ChannelUneven` shows why). There `CInv` is invariant, which adds that the numbers
  are exact for both sides (`Geometry`), that counters are the numbers of
  marked partitions, what was sent carries marked partitions only and what was
  reported was received (`Moved`). A channel is `Regular` throughout or never
  (`RegularKept`), so one that is not maps to a behaviour that only stutters. `ChannelRefines`
  takes the lemmas on elements to the mapping: marks are `Ready`, deliveries
  `Move`, positive polls `Report`, and the init calls stutter since nothing is
  delivered before the receiver is set up (`SetupIsQuiet`).
* `CompletionProofs`: without any assumption but that the array is not empty.
  `IInv` says what is behind a request (`Behind`: nothing while its thread runs; then,
  in an active request, a posted receive, complete only if the message
  arrived), that nothing becomes active during a call other than `MPIP_Startall`
  (`Begun`), and what the turns so far have established: a prefix inactive for
  `Waitall`, found complete by this call for `Testall` with its flag still 1
  (`All`), nothing consumed for `Waitany` and `Testany` (`Any`), as many indices stored as
  requests consumed, and the same ones, for `Waitsome` and `Testsome` (`Some`). From
  it: `TypeCorrect` (the caller's array of indices is not overrun), `AllIsAll`,
  `NothingIsLost`, `CompletionArrives`.
* `NegotiationProofs`: any number of channels, numbers, orders of init calls and
  threads, under `TagsApart`: no data uses tag 990 and the channels of one sender do
  not share tags, whichever numbers with their driver they may have got (`Reach`).
  `NInv` says which messages may be on their way to a rank (`Arriving`) and which
  receives it may have posted (`Awaited`); `MatchKeeps` shows that an equal tag then
  leaves one channel and one message number, or the numbers of a channel with the
  same driver. `Ledger` keeps account of the negotiations: a channel is called for
  once (its place in `Order`), so its numbers are on the wire once and only after
  its driver sent them, its thread waits in one place, and a request that has its
  numbers waits nowhere while the numbers it took are on no wire. From it:
  `TypeCorrect`, `NumbersOnce`, `DataIsMatched`. That the numbers are those of the
  request's own channel is not a theorem: `NegotiationSharedTag`.

The assumptions on constants are `ParamAssumption`, `InRangeAssumption` (the index
into the arrays stays in range, which `MapInRange` justifies), `ThreadAssumption`,
`InfoAssumption`, `CompletionAssumption` and `NegotiationAssumption`; conditions a
theorem needs beyond them are in its statement.

Only model-checked: the liveness properties `EveryPartitionGoesOut`,
`ReceivesGetPosted`, `WaitReturns`, `EverythingArrives`, `ChannelsComplete` and
`WaitsReturn`, as fairness is out of the prover's reach; and the violations, which
are counterexamples of one instance each.

## Not modelled

* Memory order: models are sequentially consistent, the code uses plain fields
  and relaxed increments. What a weaker order allows depends on the compiler and
  the processor; the models do not speak of it.
* What a write past the arrays does: with more partitions than messages and a
  remainder the code indexes out of range (`send.c:71`). `InRangeAssumption` excludes
  these geometries from the request modules; `Channel` has them, `IndexInRange` names
  them, and no other property speaks of what such a request moves.
* 32-bit overflow of `local_parts * local_size` (`sync.c:12`) and the truncation of an
  `MPI_Count` to an `int` (`setup.c:24`): one expression each, far from the
  instances. Statuses, which the array operations do not fill in; datatypes and offsets in bytes;
  concurrent `MPI_Testall` on one request inside MPI, which is taken as atomic.
* Debug output, build files, tests, examples. The README line on `RECEIVER`
  ("external partitions at the sender") is a slip: the code uses the receiver's.

## Plan

1. Done: all parts of the inventory; the abstract specification with its two
   refinements; a theorem for every safety property of the passing runs.
2. State, as invariants, what the liveness properties rest on (a call that is
   waiting finds somebody who will end the wait), and prove those.
3. Weaken what the theorems assume where the code allows more: `SafeCatchUp` for
   messages with several partitions when no mark races with the catch-up, and
   own numbers for channels whose threads are ordered by the caller.
