# A verification project for the ARL hierarchical multiscale framework

The framework lets a macro-scale program evaluate micro-scale models on other
machines. The program ships *model packages* to a *broker*, which runs a child
process for each of them on the resources it manages and ships the values back.
An *adaptive sampling* module may stand in between, answering some packages
from an interpolation database. This directory holds TLA+ modules that model
this code, TLC configurations that check them on small instances, and theorems
about them that TLAPS has proved. All paths below are relative to `src/`.

Contents: [inventory](#inventory) · [modules](#modules) · [runs](#runs) ·
[bounds](#bounds) · [fairness](#fairness) · [proofs](#proofs) ·
[disagreements found](#disagreements-between-code-and-comments) ·
[not modelled](#not-modelled) · [plan](#plan)

## Inventory

| Part | State | Operations | Talks to |
|---|---|---|---|
| Broker loop (`broker/BasicBroker.cc`) | the queues, a command counter, the packages of the current pass | `run()`: receive, create commands, schedule, monitor, apply output filters, retry, ship, serve load queries; an exception handler around it | warehouse, scheduler, monitor, resource manager; child processes |
| State database (`base/StateDB.cc`, `base/Queue_t.cc`) | `queued`, `running`, `completed` lists of commands | add, pop, clear, sort | scheduler and monitor change it in place |
| Resource manager (`base/ResourceManager.cc`, `base/ResourceList.cc`) | a list of free resources per type; each command holds a list of its own | checkOut, checkIn, hasResourcesAvailable, getNumberFreeResources | scheduler, monitor |
| Basic scheduler (`scheduler/BasicScheduler.cc`) | `d_isSpeculative` | `processQueue`: start what fits, or preempt speculative commands | called from three places of the loop |
| Batch queue scheduler, PBS command (`scheduler/BatchQueueScheduler.cc`, `base/PBSCommand.cc`) | an iterator that outlives the command it points to | submit everything queued; take a job for completed when its output file exists | an external batch system |
| Load queries (`scheduler/LoadQuery.cc`, `adaptive_sampling/AdaptiveSamplingLoadScheduler.cc`) | the answers gathered so far | ask every broker, sort by load, assign packages | brokers, on the connections of the packages |
| Basic monitor (`monitor/BasicMonitor.cc`) | none | `processQueue`: poll the running commands | child processes through `getStatus` |
| MPI command (`base/MPICommand.cc`) | the pid of a child process | execute, getStatus, terminate, setResources | the operating system |
| Warehouse (`warehouse/Warehouse_t.cc`) | a vector of communicators | receive from all of them, ship to one | broker and adaptive sampling own one or more |
| Communicators (`comm/`) | socket: a bucket of bytes, a connected flag, three locks, a receive thread; MPI: a process-wide lock | send, receive | the other process |
| Model package (`base/ModelPackage.cc`) | priority, number of evaluations, value, a stack of communicator ids | addCommunicator, popCommunicator | travels through everything |
| Adaptive sampling (`adaptive_sampling/AdaptiveSampling.cc`) | piles of packages, counters of evaluations, a database, two warehouses | threads: one receives, N sample, one evaluates, one processes values | algorithm and brokers |
| Interpolation databases (`adaptive_sampling/*InterpolationDatabase.cc`) | the models; a read-write lock, or a mutex and the lock of Python | interpolate, insert, addNewModel, printStatistics | all threads of adaptive sampling |
| Launcher (`comm/Launcher.cc`, `comm/SSHTunnel.cc`) | none that lasts | start modules, compute the ranks of connections | MPI, ssh |
| Start-up (`adaptive_sampling/AdaptiveSamplingLauncher.cc`, `AdaptiveSamplingFactory.cc`, `broker/BrokerFactory.cc`) | what has been exchanged | send and acknowledge filters, build the objects | launcher, communicators |
| Cleanup policies (`broker/CleanupPolicy*.cc`) | a window of directories | remove directories | file system |

What is hard in this code:

- **Concurrency around a sequential loop.** The broker has one thread, but child
  processes exit and packages arrive between any two of its steps, and clients
  leave while their packages are being evaluated. A socket communicator has a
  receive thread and possibly several sending threads.
- **Moving ownership.** A package passes through eight containers; a resource
  through the manager's list and a command's list. Each move is two or three
  statements, each a chance to lose or duplicate.
- **Iterators over lists that shrink and grow under them**, in the preemption
  loop, the start loop, the monitor and the warehouse.
- **Indices kept longer than the layout they index** (the communicator stamps).
- **Error paths**: exceptions pass through code that holds locks, running
  processes and half-finished batches.
- **Counters and piles shared by threads**, tested without the lock under which they
  change, and changed in two critical sections with work in between.
- **Two sides that must compute the same thing**: the ranks of connections, who waits
  for whom in a handshake, which kind of message comes next on a connection.
- **Progress**: retries, requests that are skipped because they do not fit, and a
  threshold below which the scheduler only preempts.

What makes each part correct: the loop neither loses nor duplicates a package and
answers everything it gets; resources are conserved; no process outlives its
command; the queue is in priority order when walked; the retry limit is kept; a
communicator delivers whole objects in order and reports the end of the
connection after the last of them; a warehouse sends answers back to their
owners, keeps the communicators of those who stay and stops when all have gone;
adaptive sampling answers each request once, keeps its counters exact and its limits
within what the race allows, and all its threads end; the two sides of a launch agree
on their connections; a result gets into a database that others always read.
`PROJECT.json` lists the hazards with the line at which each bites and the
properties that cover it, or a note on what no property covers.

## Modules

| Module | Models |
|---|---|
| `EvaluationService` | abstract: what a broker promises, with no queues, resources or processes |
| `Broker` | `BasicBroker::run` with state database, resource manager, basic scheduler, basic monitor and MPI commands, one client |
| `MCBroker` | instances of `Broker` for TLC |
| `QueueLemmas` | what appending, removing, concatenating and rearranging do to the elements of a queue |
| `BrokerProofs` | the theorems about the invariants of `Broker` |
| `ServiceProofs` | the theorems about what its client sees: `Broker` implements `EvaluationService` |
| `Warehouse`, `MCWarehouse` | `Warehouse::receive` and `ship` over several clients that may leave |
| `WarehouseProofs` | the theorems about every invariant of `Warehouse` |
| `SocketChannel`, `MCSocketChannel` | one direction of a socket connection with its threads and locks |
| `SocketChannelProofs` | the theorems about its stream: objects arrive whole and in order |
| `AdaptiveSampling`, `MCAdaptiveSampling` | the threads of adaptive sampling, with the algorithm and the brokers around them |
| `SamplingTypes` | its types, and where each thread is, proved for every step |
| `AdaptiveSamplingProofs` | the theorems about its counters, stencils and limits, and that it implements `EvaluationService` |
| `Launching` | `Launcher::launchModule` and the set-up of communicators on both sides |
| `SamplingStart` | the handshake of the algorithm's launcher with the factory of adaptive sampling |
| `DatabaseAccess` | the locks of the interpolation databases |
| `MPIChannel` | MPI communicators of one process to several clients |
| `BatchBroker` | the broker loop over a batch system, with PBS commands and fixed cleanup |
| `LoadQueries` | load queries between the load scheduler and its brokers |
| `PerformanceScheduling` | the scheduler that learns how long evaluations take |
| `SmallParts`, `MCSmallParts` | the seven modules from `Launching` on, side by side |
| `Sublists` | what a loop leaves that takes some elements of a list, without recursion |
| `SmallPartsProofs` | the theorems about the small modules |

### Broker

`pc` is the place in the loop of `run()`: `receive`, `check` (the communicator has
unlocked its bucket and is about to look whether the connection is up), `create`,
`schedule`, `preempt`/`start` (the two loops of `processQueue`), `collect`,
`monitor`, `filter`, `retry`, `ship`, `handler` (the catch clause), and `exited` or
`failed` at the end. `caller` remembers which of its three callers `processQueue`
returns to. `qi`, `ri` and `ci` are the iterators over the queued, running and
completed commands. One action is one iteration of one inner loop; an action
contains everything that iteration does (starting a command is check-out,
execute, add to running, pop from queued and the test for exhausted resources).
A package also stands for its command, which is sound because a package never has
two (`NothingLostOrDuplicated`).

`Pending` is the part of `completed` the filters have not read; `Places` lists the
containers a package can be in. The environment consists of `Send`, `Disconnect`
and `ProcessExit`. `Faults` says which kinds of failure an instance allows: the
client disconnecting, command creation, execution, timeouts, end predicates,
output filters.

The refinement of `EvaluationService` (`ImplementsService`) hides everything but
whether a package is submitted or answered, how often it was evaluated, its value
and whether the loop still serves.

### Warehouse

Objects are pairs of client and number. `slots` is the storage of the vector of
communicators and `size` how much of it is in use, because `ship` indexes the vector
without looking at its size. `receive` is split at each communicator, and between the
look at its bucket and the look at its connection. `held` is what the owner works on; it
ships any of it whenever it is not receiving.

### SocketChannel

The stream consists of units `<<m, k>>`, header first. Senders push a frame in pieces
of any size while holding `d_sendLock`; the receive thread takes pieces of any size up to
the buffer and appends them under `d_bucketLock`; the reader cuts objects off the bucket
under that lock, then unlocks, and only then looks at `d_isConnected`. Closing by
either end is possible at any moment. `Broker` and `Warehouse` use the result of
this module: objects arrive whole, in order, and the end is noticed between two
looks (`ReceiveNothing`, then `StillConnected` or `ReceiveTermination`).

### AdaptiveSampling

Every thread has a place of its own: `spc[t]` for the sampling threads, `epc` for the
evaluation thread, `vpc` for the value processing thread; the receive thread loops until it
clears `isConnected`. One action is one critical section or one look at
a shared variable, with what the thread does alone up to the next one: `PileUp` is
the look at the counter without its lock and the push that follows (two threads may both
look before either counts), `CountEvaluation` the increment under another lock. `pile`, `receivePile`, `answers`,
`numberEvaluations`, `numberSpeculative` and `additional` are the shared variables of
`AdaptiveSampling.h`. `work` and `held` are what a sampling thread has in hand and what it
holds back because of the limit. `uncounted` and `extra` are changes whose counter is
still to be brought up to date.

The sends of the evaluation thread are one action each pass (`SendPile`), since nobody
can see between them; the decrement for speculative results is merged with their
handling. Requests get their ids in the order in which they come and are not
`SPECULATIVE` (see below). The database is a choice: it says TRUE only
if it has a model (`hasModel`), and a stencil of samples is evaluated first to make
one, as `StencilSize` asks. `fault` picks one kind of fault in a behaviour: the algorithm
leaves, a broker ends, or a model cannot be built.

To the algorithm the module looks like a broker that never gives up:
`ImplementsService` maps it to `EvaluationService` with no failed evaluations.

### The small modules

They share no state, and a behaviour of `SmallParts` is one of any one of them: `part` picks it,
the others keep their initial states.

- `Launching`: `rankAt` follows each rank through `launchModule`, `moduleAt` each module
  through the constructors of its communicators. `CommunicatorRanks` is the formula of the
  launching side for what it tells a module, `IntercommunicatorRank` the one by which a
  rank chooses its own partner. Of sockets it keeps what can go wrong in setting them up: the name
  of a Unix socket, binding, listening, accepting, the order of printing the
  address and listening.
- `SamplingStart`: the filters, acknowledgements and first packages on each connection,
  in order; `build` goes through its communicators one by one, each rank goes on
  when it is done itself.
- `DatabaseAccess`: `callAt` is where each thread is in a call of the database. If one changes it
  while another is inside, nothing happens any more (`Conflict`), so that a failure of
  mutual exclusion shows as a call that does not end.
- `MPIChannel`: the receiving thread's steps between taking and leaving the mutex,
  which another thread of the process wants too; messages and termination notices have
  two tags, so they do not keep each other's order.
- `BatchBroker`: one pass of `run()` with the iterator of `processQueue`, which is incremented
  twice for each command (`IncrementedAt`), on a list where the step past the end
  leads to the first element, as in libstdc++. A command is a package with the number of its directory.
- `LoadQueries`: `receive<T>` takes everything that waits on a connection
  for what it was asked for; `misread` records that it was something else, which ends what
  the module says.
- `PerformanceScheduling`: packages with norms as arguments get brokers one at a time, by
  prediction if their bin has been measured; evaluations end in any order with any time. Norms and times
  are natural numbers, and a bin keeps one measurement, as the factory asks.

## Runs

| Run | Expectation | Shows |
|---|---|---|
| `broker_regular` | pass | four packages, two resource types, all faults, plain scheduler: conservation of packages and resources, the evaluation limit, values in answers, no priority inversion, the refinement, and that arrivals are answered and the loop ends |
| `broker_speculative` | pass | preemption of two speculative packages by two regular ones: no process left behind, the queue stays sorted, everything is answered (that nothing is lost and resources are conserved is checked in `broker_regular` and proved for every instance) |
| `warehouse_leaving` | pass | three clients that leave in any order: nothing dropped, doubled or reordered, the first departure removes the right communicator, the skipped neighbour is served in the next pass, the owner is told when all have gone |
| `socket_stream` | pass | whole objects in lock order, delivered without later traffic, the end is noticed, sends return |
| `sampling_requests` | pass | two sampling threads and the other three over shared piles: counters that never drift, limits exceeded by no more than the number of racing threads, stencils tracked exactly, every request answered once and with a value, all threads end, the refinement |
| `small_parts` | pass | the small modules: both sides of a launch agree and the handshake after it ends; MPI messages keep order and both users of the mutex get it; a package of the batch broker comes back although the queue is walked two by two; a scheduler gets its answers unless a message is misread; a result gets into a database that is always being read; predicted work stays balanced |
| `broker_starved`, `broker_hung`, `warehouse_misrouted`, `warehouse_wrongone`, `socket_lost`, `launcher_fanin` | violation | the disagreements described below |

Every property of a passing run is broken by a mutant: an operator defined right
before the action it replaces, with a plausible slip (`CheckInKeepingList`,
`PreemptWithoutTerminate`, `LockWithoutWaiting`, ...). `PROJECT.json` pairs them.

## Bounds

- `broker_regular` has an urgent package for an accelerator, a package that needs both
  processors, a speculative one and one that asks for three of two processors. So
  requests compete, are skipped, and are rejected; `MaxEvaluations` is 1 instead
  of 5, which gives one failure that is retried and one that is final. The loop has no
  counter but that one, so packages are the only bound on behaviour.
- `broker_speculative` has two of each kind on two processors with the threshold
  at 2 instead of 64: the preemption loop preempts none, one or two, meets the end of
  either list, and stops at a speculative command that is queued. The liveness
  property holds because the machine is not smaller than the threshold;
  `broker_starved` shows what happens when it is.
- `warehouse_leaving` has three clients because two departures in one pass shift the
  index past a third; the second client sends two objects (`MaxSent`), so that order
  matters.
- `socket_stream` has two threads, three objects, headers of two units and a receive
  buffer of three: every way of cutting headers and data in pieces occurs.
- `sampling_requests` has two sampling threads, because the race around the limit needs two;
  an evaluation limit and chunks of one, so that packages are held back; two brokers; a
  stencil of two samples around the first request and none around the others. One kind of fault
  occurs in a behaviour: where a model may fail there are three requests, where the
  algorithm leaves or a broker ends there is one, with one or two speculative evaluations
  (`MaxSent`, `MaxSpeculative`).
- `small_parts`: two ranks for two modules, two for four, one for two, three for one, and three for
  two, which is refused, each with the three transports; four for two, with two groups, over
  MPI. Two clients of a process with two and one messages. Three packages for the batch broker, of
  which the last is urgent, one retry, one directory kept: the iterator stops inside
  the list, at its end, and wraps. Two brokers with two amounts of work for load queries, whose
  loads include a total of zero, which the sort divides by. Two ranks with two packages each
  during the start of adaptive sampling; two sampling threads and a value thread
  at the database, each call of which lets go of Python's lock at most once. Five packages in four bins with
  times of 0, 1 and 2: three share a bin, so that a broker may be given more than
  the longest time in all.

No bound is built into an action of `Broker` or `SocketChannel`; `Warehouse` bounds
the objects a client sends (`MaxSent`), the others what arrives (`MaxSent`, `MaxSpeculative`,
`MaxMessages`, `NumPackages`, `FirstPackages`, `Amounts`).

## Fairness

- `Broker`: weak fairness of the broker's own steps (one thread that never blocks
  except on its own send lock, which is a stuttering state) and of each child's
  exit. The latter stands for an evaluation that ends, or is ended by a timeout
  predicate. Clients owe nothing: they may stop sending or leave, or not.
- `Warehouse`: weak fairness of `receive`, which both owners call in a loop. Nothing is
  assumed of clients, nor that the owner ever ships.
- `SocketChannel`: weak fairness of each thread, and strong fairness of the receive
  thread's append. The append waits for a lock the reader takes and releases for ever;
  a mutex that starves a waiter for ever would break it. The reader is away from the
  lock for the rest of its own loop, so a waiting thread finds it free; strong fairness
  states that this happens.
- `AdaptiveSampling`: weak fairness of each thread and of each broker's evaluation. No
  thread waits for a lock longer than a critical section, which is one action. The
  receive thread's end of a connection is its own; the algorithm need not send or leave.
- `SmallParts`: weak fairness of each broker and loop, of a job's end and of the end of a database call. In
  launching and in the handshake no step can be repeated, so that weak fairness of all
  their processes together already says that each of them goes on when it can. Strong
  fairness where a lock is taken and released for ever by another thread: for the two
  threads at the MPI mutex, and for the value thread at the mutex of the Pyas
  database. The read-write lock of the Kriging database gets weak fairness only: that a
  writer gets in is due to the attribute that prefers writers
  (`KrigingInterpolationDatabase.cc:132`), and fails without it (the mutant). A broker is
  also strongly fair in shipping all it has some time, so that its evaluations end.

## Proofs

Every invariant of a passing run, every action property that is not liveness, and both
refinements are theorems, for every value of the constants that the named assumptions of
the modules allow. Each is proved from an inductive invariant of its component.

| Component | Theorems |
|---|---|
| `Broker` | `TypeCorrect`, `NothingIsLostOrDuplicated`, `ResourcesAreConserved`, `NoProcessIsOrphaned`, `QueueStaysSorted`, `PrioritiesAreNotInverted`; `EvaluationsAreBounded`, `AnswersDoCarryValues`; `BrokerImplementsService`, the refinement |
| `Warehouse` | `WarehouseTypeCorrect`, `ObjectsStayInOrder`, `ObjectsAreNeitherLostNorDoubled`, `NobodyIsForgotten`, `UnshiftedAnswersAreOwn` |
| `SocketChannel` | `ChannelTypeCorrect`, `ObjectsAreDeliveredInOrder` |
| `AdaptiveSampling` | `SamplingTypeCorrect`, `EvaluationsAreCounted`, `LimitIsKept`, `SpeculationIsBounded`, `StencilsAreTracked`; `SamplingImplementsService`, the refinement |
| small modules | `PartsTypeCorrect`; `MessagesAreAccountedFor`, `WorkIsBalanced`, `DatabaseIsExclusive`, `HandshakeIsUnderstood`, `LoadsAreKnown`, `BatchLosesNothing`, `LaunchedSidesAgree` |

### Assumptions

- `Broker`: priorities are in range, the lists of resources of different types are disjoint and
  finite, parameters are natural numbers. Resource amounts may be any integer, since
  `RejectCommand` deals with those that make no sense.
- `Warehouse`: there is a client.
- `SocketChannel`: no object is in two programs or twice in one (which makes "the same object" a
  statement about one send), and objects, headers and the receive buffer have a length.
- `AdaptiveSampling`: finitely many sampling threads, one of which is the first; limits and
  chunks of at least one; at least one broker. Stencils may have any size, also none.
- `SmallParts`: at least one client, broker, bin, rank; the rest are natural numbers or lists of
  them. Launches may have any numbers of ranks and modules, even or not.

### Broker

`QueueLemmas` establishes, once, what each list operation does to
length, range and injectivity; nothing there is recursive. `NothingLostOrDuplicated` is
inductive together with `TypeOK` and a phase invariant (`received` is empty outside
the receiving phases, and completed commands without a look at their output exist only
between the monitor and the filters), which is needed because `receive` overwrites
`received` and `getCompletedCommands` clears the completed queue: without knowing that
they hold nothing of value, either could lose a package. The step lemma `Moved` covers the common case, in
which elements go from one place to another, and each action instantiates it.
`NoOrphanProcess` then needs the partition, to know that the command that leaves
`running` is not in it twice, and `ResourcesConserved` needs both, with the cardinality
of what a command holds.

`QueueSorted` is inductive with the types: `scheduleCommands` sorts what it leaves, removing
commands keeps it sorted, and what is appended behind without sorting has the lowest
priority, since only speculative commands are preempted. `NoPriorityInversion` needs `WalkInv` besides: the commands the walk has passed over
do not fit into what is free now. They did not fit when they were looked at, and
`free` only shrinks during a walk; that a smaller set is not larger needs
that sets of resources are finite, which is part of `Conserved`.

`EvaluationsBounded` and `AnswersCarryValues` are inductive
together with `OnlyAnswersHaveValues` (a package with a value is finished or answered, and
a speculative one without a value has not been evaluated): it tells, with the partition,
that the command whose filter is next has no value and attempts left. With that, each of
the few steps a client can notice (`NoticedSteps`) is a step of `EvaluationService` under
the mapping at the end of `Broker`, and all others are `Stop` or a stutter.

### Warehouse

`WarehouseInvariant` adds to the types: the communicator that `receive` is at is there
(`CheckedIsThere`); which communicators are left after none, one and more were erased, and that
iterator and index agree until the first one is (`ErasedHaveGone`), from which
`NobodyForgotten` follows: after that they disagree, so that it says nothing of the second one; while
nobody but the last client has gone, stamps are right (`Unshifted`). For order, `InOrder` of what the owner holds
is not inductive: an object is moved twice before it gets there, so `PlacesInOrder` orders the
places as well. `EachObjectOnce` is `AllAccounted`, the partition of what was sent
into what is answered and what waits somewhere.

### SocketChannel

`DeliveredInOrder` relates what the reader gets to `log`, the order in which senders got the
lock, though the stream is cut up three times in between. The inductive invariant places
everything on one stream: there are positions at which the frames of
`log` start, one behind the other, such that what is in the bucket, in the buffer and on the wire
are consecutive stretches of it, from what was found so far to what was pushed so far
(`StreamInOrder`). It needs the holder of the lock to be sending the last frame of
`log` (`HolderSendsLast`), and that between two calls the reader is at the start of the bucket
(`NothingHalfRead`). So the reader always cuts at the start of a frame, by the length
it reads there.

### AdaptiveSampling

`SamplingTypes` proves types together with where threads can be, for each action. On top of that,
`SamplingInvariant` says that a package is in one place and there once (`WaitingOnce`, `EvaluatingOnce`,
`ShippingOnce`, `OneValue`), that it has a value from the moment it is evaluated, and that
a stencil that is open has its request waiting for it and its samples under evaluation
(`StencilsOpen`). With places disjoint, the counters can be compared to cardinalities: `Balance`
(the counter, with the threads that have pushed and not yet counted, without what has
completed and not yet been subtracted) equals the number of regular packages under
evaluation. `LimitKept` follows from that at `PileUp`: the counter that was read is below the limit, and at
most all other threads are between push and count.

For the refinement, a request and its result are one package wherever it is
(`OneRequest`). `Valued` says when the mapping gives it a value, `Status` where the service
has it. `SendRequest` submits; evaluating a request, or interpolating it, is the attempt, which
succeeds; shipping is the delivery, as long as the algorithm has not left; all
other actions, of all threads, are stutters.

### The small modules

Each has an invariant of its own, preserved when any part behaves; `PartsTypeCorrect` collects
their types.

- `MPIChannel`: `MessagesAccounted` is inductive with `MPITypeOK` and `ReceivingOne`: a value of
  `returnValue` belongs to the communicator the receiving thread is at, which is in the warehouse while
  it receives. Without that, a message that moves from transit to `returnValue` could be credited to
  another client. `FollowingFacts` says where the warehouse's iterator goes next, `MoveOne` and
  `AppendBehind` that the concatenation stays in order.
- `PerformanceScheduling`: `WorkBalanced` is inductive with `PerformanceTypeOK`, which bounds
  what a bin predicts: the broker that gets a package had the least, so it ends at most one
  prediction above any other.
- `DatabaseAccess`: whoever changes the Kriging database is alone in it (`WriterAlone`), and only one
  thread is past the mutex of the Pyas database (`OneLock`); nobody runs Python without
  the interpreter's lock (`GILHeld`).
- `SamplingStart`: how far each rank is, with what is on its connection in both directions
  (`Handshake`). A rank behind the one the module is at can have sent its first
  filter and nothing else, which is why the next message is always of the kind that is read.
- `LoadQueries`: the queries under way, the answers under way and those counted add up to the
  brokers that were asked, each of them once (`QueriesCounted`). This is where `misread` comes in: a query that
  was read as a package is never answered, and nothing is claimed from then on.
- `BatchBroker`: a package is in one place (`EachPackageOnce`); the directories in the file system are
  those of the commands there are and of the completed ones the cleanup still keeps (`DirectoriesKept`); a running command
  has a job or its output (`JobsWatched`). That the iterator which is advanced twice stays
  on the queue is part of the type. The two lists the monitor and the filters make are given by
  the places they take (`Sublists`), and sorting by its result, because the prover has no
  access to recursion.
- `Launching`: the two formulas of `Launcher.cc` are two ways to compute one relation
  (`FormulasAgree`): if the connections can be divided, one side has one connection per
  process, and then a place in the list of one side has the number of the other (`PlaceOf`).
  `Spawned` carries that through the steps; the types need that every address a rank gets is of a socket
  that some module has bound (`AddressesExist`).

### Only model-checked

All liveness properties, which are beyond the prover: `ArrivalsAnswered` and `LoopEnds` of the broker;
`SentIsReceived` and `ShutsDown` of the warehouse; `CompletedIsDelivered`, `ClosingIsNoticed` and
`SendsReturn` of the socket; `RequestsAnswered` and `ThreadsEnd` of adaptive sampling; `ModulesStart`,
`MessagesReceived`, `PackagesReturned`, `PackagesScheduled` and `ResultsGetIn` of the small modules. The
refinements are proved for the specifications without fairness, whose abstract counterpart has
none either. Also left to TLC is what needs ENABLED, induction over data or a RECURSIVE operator.

## Disagreements between code and comments

- `scheduler/BasicScheduler.cc:199`: with fewer than 64 free resources the speculative
  scheduler returns without starting anything. On a machine with fewer than 64 in
  all, nothing ever starts (`broker_starved`).
- `comm/SocketCommunicator.cc:667`: a failed send throws with `d_sendLock` locked. The
  broker's handler sends on the same communicator and blocks (`broker_hung`).
- `warehouse/Warehouse_t.cc:122`: erasing a communicator shifts the ones behind it, while
  objects already received keep the old index (`warehouse_misrouted`).
- the same line: after the first erase of a pass `iter` lags behind `communicatorId`,
  and a second erase removes a communicator whose client is still there
  (`warehouse_wrongone`).
- `comm/SocketCommunicator.cc:783`: `d_isConnected` is read after the bucket was unlocked; an
  object and the end of the connection that arrive in between lead to an exception
  with the object still in the bucket (`socket_lost`).
- `comm/Launcher.cc:779`: with more ranks than modules over sockets, the ranks that did not
  launch are all sent the first address of the module, which accepts each connection on a new
  one; the comment two lines above says "read address from pipe". They wait for ever or
  the program is killed (`launcher_fanin`). The comment at line 624 knows that fan-in
  is broken, so `ModulesStart` excludes it.

Met while modelling, part of the modules and needing no run of their own:
`comm/MPICommunicator.cc:389` throws its termination exception with the mutex of all MPI
communicators locked, after which no other thread of the process sends (`MessagesReceived`
ends there); a message that arrives between the two probes of `receiveSerialized`
is left in MPI when the notice is found, although the comment at line 344 has the
termination handled once there are no messages (`MessagesAccounted` speaks of registered clients); load queries and packages are told
apart by nothing, since the test of the type is commented out
(`comm/Communicator_t.cc:77`), so a query may be read as a package (`misread`); and
a `SPECULATIVE` request of the algorithm itself would be taken for one of the
module's own and never answered (`adaptive_sampling/AdaptiveSampling.cc:959`), which is why the
modelled requests are not `SPECULATIVE`. `KrigingInterpolationDatabase::printStatistics`
takes no lock, though the value thread may still insert when the receive thread calls it.

Met while reading and plain enough to need no run: the comment at
`broker/BasicBroker.cc:473` speaks of 500 failures where the code allows 5; the one at
`scheduler/BasicScheduler.cc:115` of no resources where the code tests for fewer than 64;
and `ship` indexes the vector of communicators after the only one was erased
(`ShipKills` in `Broker`).

## Not modelled

- `python/HMSPython.cc` (38% of all lines) is generated binding code. The rest of what is
  outside the map is mostly tests, examples, headers and the reading of configuration.
- The numerics of databases, filters and generators: floating point. `KDEGenerator` is never
  built: its line in the factory is commented out (`adaptive_sampling/AdaptiveSamplingFactory.cc:444`), and
  a configuration that asks for it leaves a null pointer. Its `update` would be called by two threads
  without a lock. `outputDatabase` of the databases has no caller.
- The log of the load scheduler; the broker's reports of its load, which are any of a set; bins with
  more than one measurement in the performance scheduler, which nothing asks for.
- In the launcher: tunnels and hosts (`comm/SSHTunnel.cc`), the exchange of addresses
  for work stealing, configuration files. In the factories: everything but communicators, filters
  and brokers.
- `PBSCommand::terminate` and the shell commands that ask the batch system, which nothing
  in the loop waits for; user-defined cleanup.
- Use of memory after it was freed (the receive thread after the destructor, a reference the
  monitor uses after the pop at `monitor/BasicMonitor.cc:149`, vfork's child throwing):
  undefined behaviour that would need a model of memory. A signal from a broken pipe kills the
  process; what its children then do is not modelled.
- `AdaptiveSampling` takes the pass of the receive thread that erases a communicator and the one
  that throws as one action (`Receive`), and represents the erasing, which `ship` may meet without
  a lock, only by `left`: what a race on the vector's memory does is undefined.
- `Warehouse` still counts objects in the inbox of an erased communicator as on their way.
- Finite instances cannot show waiting that others cause for ever: a wide request that endless
  narrow ones overtake (`scheduler/BasicScheduler.cc:317`), a sampling thread that loses every free
  place to others (`adaptive_sampling/AdaptiveSampling.cc:254`).
- In `LoadQueries`: the order `std::sort` makes of loads of which one is 0 / 0 (the comparator is
  then no order, and a broker that another beats may come first). That some broker is always
  chosen is what `PackagesScheduled` shows.
- In `Broker`, a send after the client closed succeeds into the kernel's buffer, throws or kills;
  what the client's end loses that way is not counted, since nobody is there to read it.
- In `Broker`: output filters that throw something other than `IOError`, which go the way of
  `GiveUp`; packages without an output filter, which are answered with an empty value.

## Plan

In this order; what is done is marked.

1. `Broker` with `EvaluationService`, checked, proved conserving and proved to implement it.
   **Done.**
2. `Warehouse`: several clients, stamps, erasure. **Done.**
3. `SocketChannel`: threads, locks, pieces, closing. **Done.**
4. `AdaptiveSampling`: the threads over piles and counters, with `EvaluationService` as its
   abstract counterpart. **Done.**
5. `LoadQueries`: queries and packages on one connection, the load scheduler. **Done.**
6. `MPIChannel`: the process-wide mutex and the exception that keeps it. **Done**, with the
   proof of `MessagesAccounted`.
7. `BatchBroker`: the loop that advances twice, completion by file, fixed cleanup. **Done.**
8. `Launching`, `SamplingStart`, `DatabaseAccess`, `PerformanceScheduling`: the rank formulas, the
   handshake, the locks, the predictions. **Done.** Open: tunnels.
9. Proofs of every invariant that a run checks, and of both refinements. **Done.**
10. Open: an abstract channel (objects whole and in order, then the end) that `SocketChannel`
   implements, so that what `Broker` and `Warehouse` use of it is a refinement and not an
   argument; that `misread` stays false where the schedulers ask for no loads while
   packages are under way; in `Launching` over sockets, that accepted ranks are those that
   hold a communicator to the module; tunnels.
