------------------------------- MODULE Broker -------------------------------
(***************************************************************************)
(* The evaluation loop of a broker: broker/BasicBroker.cc run(), with the  *)
(* StateDB, ResourceManager, BasicScheduler and BasicMonitor it drives.    *)
(* The broker is one thread; around it run the client that sends packages  *)
(* and the child processes that evaluate them.  One action is one          *)
(* iteration of one of the loop's inner loops, so that a process may exit  *)
(* and a package may arrive between any two of them.                       *)
(*                                                                         *)
(* A package stands for the command built from it: each evaluation builds  *)
(* a new command, and a package has at most one (NothingLostOrDuplicated). *)
(* The broker has one client, on a socket, every package has an output     *)
(* filter, and the broker does not serve load queries.                     *)
(*                                                                         *)
(* Some actions follow a variant with a slip in it (CheckInKeepingList     *)
(* before CheckIn): no behaviour uses it, it shows that the properties     *)
(* would notice.                                                           *)
(***************************************************************************)
EXTENDS Integers, Sequences, FiniteSets, Functions, SequencesExt

CONSTANTS
    Packages,        \* the model packages the client may send
    Priority,        \* package -> SPECULATIVE (0) .. HIGHEST (5)
    ResourceAmount,  \* package -> number of resources its command asks for
    ResourceType,    \* package -> their type
    Resources,       \* the resources of the machine
    Types,           \* the types the resource manager has a list for
    Inventory,       \* type -> the resources of that list
    IsSpeculative,   \* d_isSpeculative of the scheduler
    Threshold,       \* free resources below which it preempts (64)
    MaxEvaluations,  \* failed output filters it tolerates (5)
    Faults           \* what the environment of the broker may do wrong

SPECULATIVE == 0
HIGHEST == 5

ASSUME PackagesAssumption ==
    /\ Priority \in [Packages -> SPECULATIVE .. HIGHEST]
    /\ ResourceAmount \in [Packages -> Int]
    /\ DOMAIN ResourceType = Packages
ASSUME InventoryAssumption ==
    /\ Inventory \in [Types -> SUBSET Resources]
    /\ \A t \in Types : IsFiniteSet(Inventory[t])
    /\ \A t, u \in Types : t # u => Inventory[t] \cap Inventory[u] = {}
ASSUME SchedulerAssumption ==
    /\ IsSpeculative \in BOOLEAN
    /\ Threshold \in Nat
    /\ MaxEvaluations \in Nat
ASSUME FaultsAssumption ==
    Faults \subseteq {"disconnect", "create", "execute", "timeout", "endPredicate", "filter"}

VARIABLES
    \* the client and its connection
    unsent,      \* packages the client has not sent
    inbox,       \* packages that arrived on the connection, not received yet
    connected,   \* the client's end is open (the communicator's d_isConnected)
    registered,  \* the warehouse still has the client's communicator
    outbox,      \* packages sent back to the client
    notified,    \* the client was sent the exception that stopped the broker
    sendLocked,  \* the broker's thread holds d_sendLock of the communicator
    \* control: the loop's phase, who called processQueue, and the iterators
    pc, caller,
    qi, ri, ci,  \* positions in queued, running and completed
    \* locals of run()
    received,    \* modelPackages
    failed,      \* failedModelPackages
    finished,    \* completedModelPackages not shipped yet
    \* d_stateDB
    queued, running, completed,
    \* d_resourceManager, and the resource list each command holds
    free, held,
    \* the packages and their commands' processes
    proc,        \* package -> "none", "running" or "exited"
    evals,       \* package -> numberEvaluations
    value        \* package -> "none", "value" or "empty"

client    == <<unsent, inbox, connected, registered, outbox, notified, sendLocked>>
iterators == <<qi, ri, ci>>
locals    == <<received, failed, finished>>
stateDB   == <<queued, running, completed>>
resources == <<free, held>>
packages  == <<proc, evals, value>>
vars == <<client, pc, caller, iterators, locals, stateDB, resources, packages>>

Stopped == pc \in {"exited", "failed"}
Dying   == pc \in {"handler", "failed"}

Init ==
    /\ unsent = Packages /\ inbox = <<>> /\ outbox = <<>>
    /\ connected = TRUE /\ registered = TRUE /\ notified = FALSE /\ sendLocked = FALSE
    /\ pc = "receive" /\ caller = "initial"
    /\ qi = 1 /\ ri = 1 /\ ci = 1
    /\ received = <<>> /\ failed = <<>> /\ finished = <<>>
    /\ queued = <<>> /\ running = <<>> /\ completed = <<>>
    /\ free = Inventory
    /\ held = [p \in Packages |-> {}]
    /\ proc = [p \in Packages |-> "none"]
    /\ evals = [p \in Packages |-> 0]
    /\ value = [p \in Packages |-> "none"]

-----------------------------------------------------------------------------
(* The environment *)

(* The client sends a package, which arrives whole in the bucket of the    *)
(* broker's communicator.                                                  *)
Send(p) ==
    /\ connected /\ ~Stopped
    /\ p \in unsent
    /\ unsent' = unsent \ {p}
    /\ inbox' = Append(inbox, p)
    /\ UNCHANGED <<connected, registered, outbox, notified, sendLocked>>
    /\ UNCHANGED <<pc, caller, iterators, locals, stateDB, resources, packages>>

(* The client ends, or dies: its end of the connection closes.             *)
Disconnect ==
    /\ "disconnect" \in Faults
    /\ connected
    /\ connected' = FALSE
    /\ UNCHANGED <<unsent, inbox, registered, outbox, notified, sendLocked>>
    /\ UNCHANGED <<pc, caller, iterators, locals, stateDB, resources, packages>>

(* The child process of a command exits by itself.                         *)
ProcessExit(p) ==
    /\ proc[p] = "running"
    /\ proc' = [proc EXCEPT ![p] = "exited"]
    /\ UNCHANGED <<client, pc, caller, iterators, locals, stateDB, resources, evals, value>>

-----------------------------------------------------------------------------
(* The resource manager *)

Total(t) == Cardinality(Inventory[t])
HasResourcesAvailable(pool) == \E t \in Types : pool[t] # {}
NumberFreeResources == Cardinality(UNION {free[t] : t \in Types})

(* ResourceList::checkOut hands out the amount asked for if that many are  *)
(* free.  None of its callers depends on which of them it picks.           *)
Fits(p) == ResourceAmount[p] <= Cardinality(free[ResourceType[p]])
CheckOut(p) ==
    \E s \in SUBSET free[ResourceType[p]] :
        /\ Cardinality(s) = ResourceAmount[p]
        /\ free' = [free EXCEPT ![ResourceType[p]] = @ \ s]
        /\ held' = [held EXCEPT ![p] = s]

(* A command's resources go back to their list, and the command's own list *)
(* is cleared.                                                             *)
CheckInKeepingList(p) ==
    /\ free' = [t \in Types |-> IF t = ResourceType[p] THEN free[t] \cup held[p] ELSE free[t]]
    /\ UNCHANGED held
CheckIn(p) ==
    /\ free' = [t \in Types |-> IF t = ResourceType[p] THEN free[t] \cup held[p] ELSE free[t]]
    /\ held' = [held EXCEPT ![p] = {}]

(* What checkOut and processQueue do not object to.                        *)
IsValidRequest(p) ==
    /\ ResourceAmount[p] >= 1
    /\ ResourceType[p] \in Types
    /\ ResourceAmount[p] <= Total(ResourceType[p])

-----------------------------------------------------------------------------
(* Receiving packages and queueing commands for them *)

(* An exception leaves the loop for the handler of run().                  *)
Throw == pc' = "handler"

(* Warehouse::receive with the client's communicator registered: all that  *)
(* has arrived is taken, whether the client is still there or not.         *)
ReceivePackages ==
    /\ pc = "receive" /\ registered
    /\ inbox # <<>>
    /\ received' = inbox
    /\ inbox' = <<>>
    /\ pc' = "create"
    /\ UNCHANGED <<unsent, connected, registered, outbox, notified, sendLocked>>
    /\ UNCHANGED <<caller, iterators, failed, finished, stateDB, resources, packages>>

(* Nothing has arrived.  The communicator unlocks its bucket, and looks    *)
(* then whether the connection is still up.                                *)
ReceiveNothing ==
    /\ pc = "receive" /\ registered
    /\ inbox = <<>>
    /\ pc' = "check"
    /\ UNCHANGED <<client, caller, iterators, locals, stateDB, resources, packages>>

StillConnected ==
    /\ pc = "check" /\ connected
    /\ pc' = "create"
    /\ UNCHANGED <<client, caller, iterators, locals, stateDB, resources, packages>>

(* The client has gone: its communicator is removed, and the loop goes on  *)
(* with what it has.  What arrived since ReceiveNothing is lost.           *)
ReceiveTerminationAndForget ==
    /\ pc = "check" /\ ~connected
    /\ pc' = "create"
    /\ UNCHANGED <<client, caller, iterators, locals, stateDB, resources, packages>>
ReceiveTermination ==
    /\ pc = "check" /\ ~connected
    /\ registered' = FALSE
    /\ pc' = "create"
    /\ UNCHANGED <<unsent, inbox, connected, outbox, notified, sendLocked>>
    /\ UNCHANGED <<caller, iterators, locals, stateDB, resources, packages>>

(* The warehouse has no communicator left: run() returns.                  *)
Exit ==
    /\ pc = "receive" /\ ~registered
    /\ pc' = "exited"
    /\ UNCHANGED <<client, caller, iterators, locals, stateDB, resources, packages>>

(* The results of std::list::sort with compareCommandPriority: a stable    *)
(* rearrangement by decreasing priority.                                   *)
StableSortsIncreasing(s) ==
    {[i \in DOMAIN s |-> s[f[i]]] : f \in
        {f \in Bijection(DOMAIN s, DOMAIN s) :
            \A i, j \in DOMAIN s : i < j =>
                \/ Priority[s[f[i]]] < Priority[s[f[j]]]
                \/ Priority[s[f[i]]] = Priority[s[f[j]]] /\ f[i] < f[j]}}
StableSorts(s) ==
    {[i \in DOMAIN s |-> s[f[i]]] : f \in
        {f \in Bijection(DOMAIN s, DOMAIN s) :
            \A i, j \in DOMAIN s : i < j =>
                \/ Priority[s[f[i]]] > Priority[s[f[j]]]
                \/ Priority[s[f[i]]] = Priority[s[f[j]]] /\ f[i] < f[j]}}

(* commandsFromModelPackages, then scheduleCommands.                       *)
ScheduleUnsorted(new) == queued' = queued \o new
Schedule(new) ==
    IF new = <<>> THEN queued' = queued ELSE queued' \in StableSorts(queued \o new)

CreateCommands ==
    /\ pc = "create"
    /\ Schedule(received)
    /\ received' = <<>>
    /\ pc' = "schedule" /\ caller' = "initial"
    /\ UNCHANGED <<client, iterators, failed, finished, running, completed, resources, packages>>

(* The failed packages are turned into commands once more.                 *)
RetryFailed ==
    /\ pc = "retry"
    /\ Schedule(failed)
    /\ failed' = <<>>
    /\ pc' = "schedule" /\ caller' = "retry"
    /\ UNCHANGED <<client, iterators, received, finished, running, completed, resources, packages>>

(* mkdir, the command factory or an input filter throws: none of the       *)
(* commands built so far has been queued.                                  *)
CreateFails ==
    /\ "create" \in Faults
    /\ \/ pc = "create" /\ received # <<>>
       \/ pc = "retry"
    /\ Throw
    /\ UNCHANGED <<client, caller, iterators, locals, stateDB, resources, packages>>

-----------------------------------------------------------------------------
(* BasicScheduler::processQueue, called from three places *)

(* Where run() goes on when processQueue returns.                          *)
ReturnToRunBeforeBegin ==
    /\ pc' = CASE caller = "initial" -> "collect"
               [] caller = "completed" -> "filter"
               [] caller = "retry" -> "ship"
    /\ qi' = 0 /\ ri' = 0
ReturnToRun ==
    /\ pc' = CASE caller = "initial" -> "collect"
               [] caller = "completed" -> "filter"
               [] caller = "retry" -> "ship"
    /\ qi' = 1 /\ ri' = 1

(* The test at the start: with nothing free return at once, or, with a     *)
(* speculative scheduler and little free, only preempt.                    *)
MustPreemptUpToThreshold == NumberFreeResources <= Threshold
MustPreempt == NumberFreeResources < Threshold
ProcessQueue ==
    /\ pc = "schedule"
    /\ \/ ~IsSpeculative /\ ~HasResourcesAvailable(free) /\ ReturnToRun
       \/ ~IsSpeculative /\ HasResourcesAvailable(free) /\ pc' = "start" /\ UNCHANGED <<qi, ri>>
       \/ IsSpeculative /\ MustPreempt /\ pc' = "preempt" /\ UNCHANGED <<qi, ri>>
       \/ IsSpeculative /\ ~MustPreempt /\ pc' = "start" /\ UNCHANGED <<qi, ri>>
    /\ UNCHANGED <<client, caller, ci, locals, stateDB, resources, packages>>

(* The queued command at qi is regular, and asks for a preemption.         *)
MayPreempt ==
    /\ qi <= Len(queued)
    /\ Priority[queued[qi]] # SPECULATIVE

(* Commands that are not speculative are passed over.                      *)
KeepRegular ==
    /\ pc = "preempt" /\ MayPreempt
    /\ ri <= Len(running) /\ Priority[running[ri]] # SPECULATIVE
    /\ ri' = ri + 1
    /\ UNCHANGED <<client, pc, caller, qi, ci, locals, stateDB, resources, packages>>

(* The next speculative command is killed and goes to the end of the       *)
(* queue; its resources are checked in.  The pass ends when no running     *)
(* command is left behind it.                                              *)
PreemptWithoutTerminate ==
    /\ pc = "preempt" /\ MayPreempt
    /\ ri <= Len(running) /\ Priority[running[ri]] = SPECULATIVE
    /\ queued' = Append(queued, running[ri])
    /\ CheckIn(running[ri])
    /\ running' = RemoveAt(running, ri)
    /\ IF ri > Len(running') THEN ReturnToRun ELSE qi' = qi + 1 /\ UNCHANGED <<pc, ri>>
    /\ UNCHANGED <<client, caller, ci, locals, completed, packages>>
Preempt ==
    /\ pc = "preempt" /\ MayPreempt
    /\ ri <= Len(running) /\ Priority[running[ri]] = SPECULATIVE
    /\ proc' = [proc EXCEPT ![running[ri]] = "none"]
    /\ queued' = Append(queued, running[ri])
    /\ CheckIn(running[ri])
    /\ running' = RemoveAt(running, ri)
    /\ IF ri > Len(running') THEN ReturnToRun ELSE qi' = qi + 1 /\ UNCHANGED <<pc, ri>>
    /\ UNCHANGED <<client, caller, ci, locals, completed, evals, value>>

(* processQueue returns after the preemptions: it starts nothing.          *)
EndPreempt ==
    /\ pc = "preempt"
    /\ ~MayPreempt \/ ri > Len(running)
    /\ ReturnToRun
    /\ UNCHANGED <<client, caller, ci, locals, stateDB, resources, packages>>

(* The command at qi gets its resources, is executed, and moves to the     *)
(* running queue; with nothing left to hand out processQueue returns.      *)
StartCommand ==
    /\ pc = "start" /\ qi <= Len(queued)
    /\ IsValidRequest(queued[qi])
    /\ CheckOut(queued[qi])
    /\ proc' = [proc EXCEPT ![queued[qi]] = "running"]
    /\ running' = Append(running, queued[qi])
    /\ queued' = RemoveAt(queued, qi)
    /\ IF HasResourcesAvailable(free') THEN UNCHANGED <<pc, qi, ri>> ELSE ReturnToRun
    /\ UNCHANGED <<client, caller, ci, locals, completed, evals, value>>

(* Too few are free for the command at qi: it stays, and the commands      *)
(* behind it are tried.                                                    *)
SkipCommand ==
    /\ pc = "start" /\ qi <= Len(queued)
    /\ IsValidRequest(queued[qi])
    /\ ~Fits(queued[qi])
    /\ qi' = qi + 1
    /\ UNCHANGED <<client, pc, caller, ri, ci, locals, stateDB, resources, packages>>

EndStart ==
    /\ pc = "start" /\ qi > Len(queued)
    /\ ReturnToRun
    /\ UNCHANGED <<client, caller, ci, locals, stateDB, resources, packages>>

(* The amount is below 1, the type is not managed, or there are fewer      *)
(* resources of it than asked for: an exception, and the broker dies.      *)
RejectCommand ==
    /\ pc = "start" /\ qi <= Len(queued)
    /\ ~IsValidRequest(queued[qi])
    /\ Throw
    /\ UNCHANGED <<client, caller, iterators, locals, stateDB, resources, packages>>

(* setResources or execute throws: the command keeps what it was given.    *)
ExecuteFails ==
    /\ "execute" \in Faults
    /\ pc = "start" /\ qi <= Len(queued)
    /\ IsValidRequest(queued[qi])
    /\ CheckOut(queued[qi])
    /\ Throw
    /\ UNCHANGED <<client, caller, iterators, locals, stateDB, packages>>

-----------------------------------------------------------------------------
(* getCompletedCommands and BasicMonitor::processQueue *)

BeginMonitorKeepingCompleted ==
    /\ pc = "collect"
    /\ ci' = 1
    /\ pc' = "monitor"
    /\ UNCHANGED <<client, caller, qi, ri, locals, stateDB, resources, packages>>
BeginMonitor ==
    /\ pc = "collect"
    /\ completed' = <<>> /\ ci' = 1
    /\ pc' = "monitor"
    /\ UNCHANGED <<client, caller, qi, ri, locals, queued, running, resources, packages>>

(* What MPICommand::getStatus may return.  A process that still runs is    *)
(* killed when a status predicate (a timeout) says so; once the process is *)
(* gone the end predicates tell COMPLETED from ERROR.                      *)
Statuses(p) ==
    (IF proc[p] = "running" THEN {"RUNNING"} ELSE {})
    \cup (IF proc[p] # "running" \/ "timeout" \in Faults
            THEN {"COMPLETED"} \cup (IF "endPredicate" \in Faults THEN {"ERROR"} ELSE {})
            ELSE {})

StillRunning ==
    /\ pc = "monitor" /\ ri <= Len(running)
    /\ "RUNNING" \in Statuses(running[ri])
    /\ ri' = ri + 1
    /\ UNCHANGED <<client, pc, caller, qi, ci, locals, stateDB, resources, packages>>

CompleteCommand ==
    /\ pc = "monitor" /\ ri <= Len(running)
    /\ "COMPLETED" \in Statuses(running[ri])
    /\ proc' = [proc EXCEPT ![running[ri]] = "none"]
    /\ completed' = Append(completed, running[ri])
    /\ running' = RemoveAt(running, ri)
    /\ CheckIn(running[ri])
    /\ UNCHANGED <<client, pc, caller, iterators, locals, queued, evals, value>>

CommandError ==
    /\ pc = "monitor" /\ ri <= Len(running)
    /\ "ERROR" \in Statuses(running[ri])
    /\ proc' = [proc EXCEPT ![running[ri]] = "none"]
    /\ Throw
    /\ UNCHANGED <<client, caller, iterators, locals, stateDB, resources, evals, value>>

(* If some have completed, new commands are started before their output is *)
(* looked at.                                                              *)
EndMonitor ==
    /\ pc = "monitor" /\ ri > Len(running)
    /\ ri' = 1
    /\ IF completed = <<>>
        THEN pc' = "filter" /\ UNCHANGED caller
        ELSE pc' = "schedule" /\ caller' = "completed"
    /\ UNCHANGED <<client, qi, ci, locals, stateDB, resources, packages>>

-----------------------------------------------------------------------------
(* applyOutputFilters: one completed command after the other *)

Counted(p) == evals' = [evals EXCEPT ![p] = @ + 1]
Finish(p, v) ==
    /\ value' = [value EXCEPT ![p] = v]
    /\ finished' = Append(finished, p)

AcceptOutput ==
    /\ pc = "filter" /\ ci <= Len(completed)
    /\ Counted(completed[ci])
    /\ Finish(completed[ci], "value")
    /\ ci' = ci + 1
    /\ UNCHANGED <<client, pc, caller, qi, ri, received, failed, stateDB, resources, proc>>

(* The filter of a speculative evaluation fails: it is answered all the    *)
(* same, with an empty value.                                              *)
IgnoreFailureOfAny ==
    /\ "filter" \in Faults
    /\ pc = "filter" /\ ci <= Len(completed)
    /\ Counted(completed[ci])
    /\ Finish(completed[ci], "empty")
    /\ ci' = ci + 1
    /\ UNCHANGED <<client, pc, caller, qi, ri, received, failed, stateDB, resources, proc>>
IgnoreFailure ==
    /\ "filter" \in Faults
    /\ pc = "filter" /\ ci <= Len(completed)
    /\ Priority[completed[ci]] = SPECULATIVE
    /\ Counted(completed[ci])
    /\ Finish(completed[ci], "empty")
    /\ ci' = ci + 1
    /\ UNCHANGED <<client, pc, caller, qi, ri, received, failed, stateDB, resources, proc>>

(* The filter of a regular evaluation fails, not for the last time.        *)
RecordFailureOffByOne ==
    /\ "filter" \in Faults
    /\ pc = "filter" /\ ci <= Len(completed)
    /\ Priority[completed[ci]] # SPECULATIVE
    /\ evals[completed[ci]] <= MaxEvaluations
    /\ Counted(completed[ci])
    /\ failed' = Append(failed, completed[ci])
    /\ ci' = ci + 1
    /\ UNCHANGED <<client, pc, caller, qi, ri, received, finished, stateDB, resources, proc, value>>
RecordFailure ==
    /\ "filter" \in Faults
    /\ pc = "filter" /\ ci <= Len(completed)
    /\ Priority[completed[ci]] # SPECULATIVE
    /\ evals[completed[ci]] + 1 <= MaxEvaluations
    /\ Counted(completed[ci])
    /\ failed' = Append(failed, completed[ci])
    /\ ci' = ci + 1
    /\ UNCHANGED <<client, pc, caller, qi, ri, received, finished, stateDB, resources, proc, value>>

(* ... and for the last time: the exception is passed on, and the results  *)
(* of the commands before it are never shipped.                            *)
GiveUp ==
    /\ "filter" \in Faults
    /\ pc = "filter" /\ ci <= Len(completed)
    /\ Priority[completed[ci]] # SPECULATIVE
    /\ evals[completed[ci]] + 1 > MaxEvaluations
    /\ Counted(completed[ci])
    /\ Throw
    /\ UNCHANGED <<client, caller, iterators, locals, stateDB, resources, proc, value>>

EndFilterWithoutRetry ==
    /\ pc = "filter" /\ ci > Len(completed)
    /\ pc' = "ship"
    /\ UNCHANGED <<client, caller, iterators, locals, stateDB, resources, packages>>
EndFilter ==
    /\ pc = "filter" /\ ci > Len(completed)
    /\ pc' = IF failed = <<>> THEN "ship" ELSE "retry"
    /\ UNCHANGED <<client, caller, iterators, locals, stateDB, resources, packages>>

-----------------------------------------------------------------------------
(* Warehouse::ship *)

(* A send succeeds once the kernel has taken the bytes, which it may do     *)
(* although the client has gone; nobody will read them.                     *)
Ship ==
    /\ pc = "ship" /\ finished # <<>>
    /\ registered
    /\ outbox' = Append(outbox, Head(finished))
    /\ finished' = Tail(finished)
    /\ UNCHANGED <<unsent, inbox, connected, registered, notified, sendLocked>>
    /\ UNCHANGED <<pc, caller, iterators, received, failed, stateDB, resources, packages>>

(* The client has gone.  If its communicator has been removed as well,     *)
(* ship reads past the end of d_communicators: it finds the communicator   *)
(* that was there, or no pointer at all.  The broker is killed by SIGPIPE  *)
(* or by the null pointer ...                                              *)
ShipKills ==
    /\ pc = "ship" /\ finished # <<>>
    /\ ~connected
    /\ pc' = "failed"
    /\ UNCHANGED <<client, caller, iterators, locals, stateDB, resources, packages>>

(* ... or the send returns an error: sendSerialized throws, and does not   *)
(* unlock d_sendLock.                                                      *)
ShipThrows ==
    /\ pc = "ship" /\ finished # <<>>
    /\ ~connected
    /\ sendLocked' = TRUE
    /\ Throw
    /\ UNCHANGED <<unsent, inbox, connected, registered, outbox, notified>>
    /\ UNCHANGED <<caller, iterators, locals, stateDB, resources, packages>>

EndShip ==
    /\ pc = "ship" /\ finished = <<>>
    /\ pc' = "receive"
    /\ UNCHANGED <<client, caller, iterators, locals, stateDB, resources, packages>>

(* The handler sends the client a copy of the exception, if it is still    *)
(* there to receive one, and the broker dies.  It needs d_sendLock first.  *)
HandleException ==
    /\ pc = "handler" /\ ~sendLocked
    /\ notified' = connected
    /\ pc' = "failed"
    /\ UNCHANGED <<unsent, inbox, connected, registered, outbox, sendLocked>>
    /\ UNCHANGED <<caller, iterators, locals, stateDB, resources, packages>>

(* A broker that has stopped stays as it is, and so does one whose thread  *)
(* waits for the lock it holds.                                            *)
SelfLocked == pc = "handler" /\ sendLocked
Rest == (Stopped \/ SelfLocked) /\ UNCHANGED vars

-----------------------------------------------------------------------------
Run ==
    \/ ReceivePackages \/ ReceiveNothing \/ StillConnected \/ ReceiveTermination \/ Exit
    \/ CreateCommands \/ RetryFailed \/ CreateFails
    \/ ProcessQueue
    \/ KeepRegular \/ Preempt \/ EndPreempt
    \/ StartCommand \/ ExecuteFails \/ SkipCommand \/ EndStart \/ RejectCommand
    \/ BeginMonitor \/ StillRunning \/ CompleteCommand \/ CommandError \/ EndMonitor
    \/ AcceptOutput \/ IgnoreFailure \/ RecordFailure \/ GiveUp \/ EndFilter
    \/ Ship \/ ShipKills \/ ShipThrows \/ EndShip
    \/ HandleException

Next ==
    \/ \E p \in Packages : Send(p) \/ ProcessExit(p)
    \/ Disconnect
    \/ Run
    \/ Rest

Spec == Init /\ [][Next]_vars

(* The broker's thread keeps running, and a child process exits in the end *)
(* (a timeout predicate kills one that does not).  Clients owe nothing.    *)
FairSpec == Spec /\ WF_vars(Run) /\ \A p \in Packages : WF_vars(ProcessExit(p))

-----------------------------------------------------------------------------
(* Properties *)

Phases == {"receive", "check", "create", "schedule", "preempt", "start", "collect",
           "monitor", "filter", "retry", "ship", "handler", "exited", "failed"}

ClientTypeOK ==
    /\ unsent \subseteq Packages
    /\ inbox \in Seq(Packages) /\ outbox \in Seq(Packages)
    /\ connected \in BOOLEAN /\ registered \in BOOLEAN
    /\ notified \in BOOLEAN /\ sendLocked \in BOOLEAN
LoopTypeOK ==
    /\ pc \in Phases
    /\ caller \in {"initial", "completed", "retry"}
    /\ qi \in Nat \ {0} /\ ri \in Nat \ {0} /\ ci \in 1 .. Len(completed) + 1
    /\ received \in Seq(Packages) /\ failed \in Seq(Packages) /\ finished \in Seq(Packages)
QueueTypeOK ==
    queued \in Seq(Packages) /\ running \in Seq(Packages) /\ completed \in Seq(Packages)
ResourceTypeOK ==
    free \in [Types -> SUBSET Resources] /\ held \in [Packages -> SUBSET Resources]
PackageTypeOK ==
    /\ proc \in [Packages -> {"none", "running", "exited"}]
    /\ evals \in [Packages -> Nat]
    /\ value \in [Packages -> {"none", "value", "empty"}]

(* Every variable of the loop keeps its type, and the position of the      *)
(* output filters never leaves the completed commands.                     *)
TypeOK ==
    ClientTypeOK /\ LoopTypeOK /\ QueueTypeOK /\ ResourceTypeOK /\ PackageTypeOK

(* The completed commands whose output has not been looked at.             *)
Pending == SubSeq(completed, ci, Len(completed))

(* The places a package can be in, from the client's program and back.     *)
Places == <<inbox, received, queued, running, Pending, failed, finished, outbox>>

(* The sequences of P and the set rest have each package exactly once.     *)
IsPartition(rest, P) ==
    /\ \A k \in DOMAIN P :
        /\ IsInjective(P[k])
        /\ Range(P[k]) \cap rest = {}
        /\ \A l \in DOMAIN P : k # l => Range(P[k]) \cap Range(P[l]) = {}
    /\ Packages = rest \cup UNION {Range(P[k]) : k \in DOMAIN P}

(* Each package is in exactly one place, once: no step of the loop loses a *)
(* package, evaluates it twice at a time, or answers it twice.             *)
NothingLostOrDuplicated == IsPartition(unsent, Places)

(* Each resource of the inventory is either free, in the list of its type, *)
(* or held by one running command that asked for that type, and a running  *)
(* command holds as many as it asked for: none leaks when a command        *)
(* completes or is preempted, and none is handed out twice.                *)
ResourcesConserved ==
    /\ \A t \in Types :
        free[t] \cup UNION {held[p] : p \in {q \in Packages : ResourceType[q] = t}}
            = Inventory[t]
    /\ \A p \in Packages : \A t \in Types : held[p] \cap free[t] = {}
    /\ \A p, q \in Packages : p # q => held[p] \cap held[q] = {}
    /\ \A p \in Range(running) : Cardinality(held[p]) = ResourceAmount[p]
    /\ ~Dying => \A p \in Packages : held[p] # {} => p \in Range(running)

(* A child process belongs to a running command, and every running command *)
(* has one, from execute until it is reaped or killed: a preempted or      *)
(* completed command leaves no process behind on resources it returned.    *)
NoOrphanProcess ==
    ~Dying => {p \in Packages : proc[p] # "none"} = Range(running)

(* The queue is in order of priority whenever the scheduler walks it, also *)
(* after preempted commands have been put at its end without a new sort.   *)
QueueSorted ==
    \A i, j \in DOMAIN queued : i < j => Priority[queued[i]] >= Priority[queued[j]]

(* A regular package is not evaluated more often than the limit and once   *)
(* more, and one whose last evaluation has failed stops the broker.        *)
EvaluationsBounded ==
    \A p \in Packages :
        /\ evals[p] <= MaxEvaluations + 1
        /\ Priority[p] = SPECULATIVE => evals[p] <= 1
        /\ evals[p] = MaxEvaluations + 1 /\ value[p] = "none" => Dying

(* An empty value is only ever shipped for a speculative package, and no   *)
(* package is shipped before its output has been read.                     *)
AnswersCarryValues ==
    \A p \in Range(finished) \cup Range(outbox) :
        /\ evals[p] > 0
        /\ value[p] # "none"
        /\ value[p] = "empty" => Priority[p] = SPECULATIVE

(* When a command is started no command of higher priority is queued that  *)
(* would have fitted into what was free.                                   *)
NoPriorityInversion ==
    [][\A p \in Range(queued) : p \in Range(running') =>
          \A q \in Range(queued) : Priority[q] > Priority[p] => ~Fits(q)]_vars

(* A package that arrives at the broker is answered, unless an exception   *)
(* or the client's leaving ends the loop first.                            *)
ArrivalsAnswered ==
    \A p \in Packages : p \in Range(inbox) ~> p \in Range(outbox) \/ Stopped \/ Dying

(* Once the client has gone the loop ends, whatever is queued or running.  *)
LoopEnds == ~connected ~> Stopped \/ Dying

(* What the comments of the code say of it.                                *)

(* BasicScheduler.cc:108: speculative jobs are cancelled to be able to     *)
(* replace them with real jobs, so a queued regular package gets its turn. *)
RegularsStart ==
    \A p \in Packages : Priority[p] # SPECULATIVE =>
        (p \in Range(queued) ~> p \in Range(running) \/ Stopped)

(* BasicBroker.cc:856: when the client has been told of the exception the  *)
(* broker is done, and the exception kills it.                             *)
ExceptionsKill == Dying ~> Stopped

-----------------------------------------------------------------------------
(* The loop implements the service of EvaluationService. *)

ServiceStatus == [p \in Packages |->
    IF p \in unsent THEN "unsubmitted"
    ELSE IF p \in Range(outbox) THEN "answered" ELSE "submitted"]
Serving == ~(Stopped \/ Dying)

Service == INSTANCE EvaluationService WITH
    Speculative <- {p \in Packages : Priority[p] = SPECULATIVE},
    status <- ServiceStatus, attempts <- evals, result <- value, serving <- Serving

(* Each step of the broker is a step of the service, or changes nothing    *)
(* the service's users can see.                                            *)
ImplementsService == Service!Spec

=============================================================================
