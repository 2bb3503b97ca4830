---------------------------- MODULE BrokerProofs ----------------------------
(* Theorems about Broker, for every set of packages, every inventory and   *)
(* every choice of the scheduler's parameters.                             *)
EXTENDS Broker, QueueLemmas, FiniteSetTheorems, TLAPS

-----------------------------------------------------------------------------
(* The type invariant *)

LEMMA CheckInType ==
    ASSUME TypeOK, NEW p \in Packages, CheckIn(p)
    PROVE  /\ free' \in [Types -> SUBSET Resources]
           /\ held' \in [Packages -> SUBSET Resources]
BY DEF TypeOK, ResourceTypeOK, CheckIn

LEMMA CheckOutType ==
    ASSUME TypeOK, NEW p \in Packages, ResourceType[p] \in Types, CheckOut(p)
    PROVE  /\ free' \in [Types -> SUBSET Resources]
           /\ held' \in [Packages -> SUBSET Resources]
BY DEF TypeOK, ResourceTypeOK, CheckOut

LEMMA ReturnType ==
    ASSUME TypeOK, ReturnToRun
    PROVE  pc' \in {"collect", "filter", "ship"} /\ qi' = 1 /\ ri' = 1
BY DEF TypeOK, LoopTypeOK, ReturnToRun

(* scheduleCommands leaves a queue of the old and the new commands.        *)
LEMMA ScheduleFacts ==
    ASSUME TypeOK, NEW new \in Seq(Packages), Schedule(new)
    PROVE  /\ queued' \in Seq(Packages)
           /\ Range(queued') = Range(queued) \cup Range(new)
           /\ IsInjective(queued) /\ IsInjective(new) /\ Range(queued) \cap Range(new) = {}
                => IsInjective(queued')
<1>1. queued \in Seq(Packages)
  BY DEF TypeOK, QueueTypeOK
<1>2. CASE new = <<>>
  <2>1. queued' = queued /\ Range(new) = {}
    BY <1>2 DEF Schedule, Range
  <2>2. QED
    BY <1>1, <2>1
<1>3. CASE new # <<>>
  <2> DEFINE s == queued \o new
  <2>1. queued' \in StableSorts(s)
    BY <1>3 DEF Schedule
  <2>2. PICK f \in Bijection(DOMAIN s, DOMAIN s) : queued' = [i \in DOMAIN s |-> s[f[i]]]
    BY <2>1 DEF StableSorts
  <2>3. /\ s \in Seq(Packages)
        /\ Range(s) = Range(queued) \cup Range(new)
        /\ IsInjective(queued) /\ IsInjective(new) /\ Range(queued) \cap Range(new) = {}
             => IsInjective(s)
    BY <1>1, ConcatFacts
  <2> HIDE DEF s
  <2>4. /\ queued' \in Seq(Packages)
        /\ Range(queued') = Range(s)
        /\ IsInjective(s) => IsInjective(queued')
    <3> DEFINE r == [i \in DOMAIN s |-> s[f[i]]]
    <3>1. r \in Seq(Packages) /\ Range(r) = Range(s) /\ (IsInjective(s) => IsInjective(r))
      BY <2>3, RearrangeFacts
    <3>2. queued' = r
      BY <2>2
    <3> HIDE DEF r
    <3>3. QED
      BY <3>1, <3>2
  <2>5. QED
    BY <2>3, <2>4
<1>4. QED
  BY <1>2, <1>3

(* The initial state has the types.                                        *)
LEMMA TypeInit == Init => TypeOK
<1> SUFFICES ASSUME Init PROVE TypeOK
  OBVIOUS
<1> USE DEF Init
<1>1. ClientTypeOK
  <2>1. connected \in BOOLEAN /\ registered \in BOOLEAN
       /\ notified \in BOOLEAN /\ sendLocked \in BOOLEAN
    BY Zenon
  <2>2. QED
    BY <2>1 DEF ClientTypeOK
<1>2. LoopTypeOK
  BY DEF LoopTypeOK, Phases
<1>3. QueueTypeOK
  BY DEF QueueTypeOK
<1>4. ResourceTypeOK
  BY InventoryAssumption DEF ResourceTypeOK
<1>5. PackageTypeOK
  BY DEF PackageTypeOK
<1>6. QED
  BY <1>1, <1>2, <1>3, <1>4, <1>5 DEF TypeOK

(* The type of what applyOutputFilters changes for the command at ci.      *)
LEMMA FilterCount ==
    ASSUME TypeOK, ci <= Len(completed), Counted(completed[ci])
    PROVE  completed[ci] \in Packages /\ evals' \in [Packages -> Nat]
<1>1. ci \in 1 .. Len(completed) + 1 /\ completed \in Seq(Packages) /\ evals \in [Packages -> Nat]
  BY DEF TypeOK, LoopTypeOK, QueueTypeOK, PackageTypeOK
<1>2. ci \in 1 .. Len(completed) /\ completed[ci] \in Packages
  BY <1>1, ElementOfSeq
<1>3. evals' = [evals EXCEPT ![completed[ci]] = @ + 1]
  BY DEF Counted
<1>4. QED
  BY <1>1, <1>2, <1>3

LEMMA FilterType ==
    ASSUME TypeOK, ci <= Len(completed),
           Counted(completed[ci]), ci' = ci + 1, completed' = completed
    PROVE  /\ completed[ci] \in Packages
           /\ evals' \in [Packages -> Nat]
           /\ ci' \in 1 .. Len(completed') + 1
<1>1. ci \in 1 .. Len(completed) + 1 /\ Len(completed) \in Nat
  BY DEF TypeOK, LoopTypeOK, QueueTypeOK
<1>2. ci' \in 1 .. Len(completed') + 1
  BY <1>1
<1>3. QED
  BY <1>2, FilterCount

(* Each step keeps the types; one step of the proof per action.            *)
LEMMA TypeNext == TypeOK /\ [Next]_vars => TypeOK'
<1> SUFFICES ASSUME TypeOK, [Next]_vars PROVE TypeOK'
  OBVIOUS
<1> USE DEF TypeOK, ClientTypeOK, LoopTypeOK, QueueTypeOK, ResourceTypeOK, PackageTypeOK, Phases
<1>1. ASSUME NEW p \in Packages, Send(p) PROVE TypeOK'
  BY <1>1, AppendFacts DEF Send, client, iterators, locals, stateDB, resources, packages, Throw
<1>2. ASSUME NEW p \in Packages, ProcessExit(p) PROVE TypeOK'
  BY <1>2 DEF ProcessExit, client, iterators, locals, stateDB, resources, packages, Throw
<1>3. CASE Disconnect
  BY <1>3 DEF Disconnect, client, iterators, locals, stateDB, resources, packages, Throw
<1>4. CASE ReceivePackages
  BY <1>4 DEF ReceivePackages, client, iterators, locals, stateDB, resources, packages, Throw
<1>5. CASE ReceiveTermination
  BY <1>5 DEF ReceiveTermination, client, iterators, locals, stateDB, resources, packages, Throw
<1>5a. CASE ReceiveNothing
  BY <1>5a DEF ReceiveNothing, client, iterators, locals, stateDB, resources, packages, Throw
<1>5b. CASE StillConnected
  BY <1>5b DEF StillConnected, client, iterators, locals, stateDB, resources, packages, Throw
<1>6. CASE Exit
  BY <1>6 DEF Exit, client, iterators, locals, stateDB, resources, packages, Throw
<1>7. CASE CreateCommands
  <2>1. queued' \in Seq(Packages)
    BY <1>7, ScheduleFacts DEF CreateCommands
  <2>2. QED
    BY <1>7, <2>1, EmptySeq DEF CreateCommands, client, iterators, locals, stateDB, resources, packages, Throw
<1>8. CASE RetryFailed
  <2>1. queued' \in Seq(Packages)
    BY <1>8, ScheduleFacts DEF RetryFailed
  <2>2. QED
    BY <1>8, <2>1, EmptySeq DEF RetryFailed, client, iterators, locals, stateDB, resources, packages, Throw
<1>9. CASE CreateFails
  BY <1>9 DEF CreateFails, client, iterators, locals, stateDB, resources, packages, Throw
<1>10. CASE ProcessQueue
  <2>1. CASE ReturnToRun
    BY <1>10, <2>1, ReturnType DEF ProcessQueue, client, iterators, locals, stateDB, resources, packages, Throw
  <2>2. CASE pc' \in {"start", "preempt"} /\ UNCHANGED <<qi, ri>>
    BY <1>10, <2>2 DEF ProcessQueue, client, iterators, locals, stateDB, resources, packages, Throw
  <2>3. QED
    BY <1>10, <2>1, <2>2 DEF ProcessQueue
<1>11. CASE KeepRegular
  <2>1. ri' = ri + 1 /\ UNCHANGED <<client, pc, caller, qi, ci, locals, stateDB, resources, packages>>
    BY <1>11, Zenon DEF KeepRegular
  <2>2. ri' \in Nat \ {0}
    BY <2>1
  <2>3. QED
    BY <2>1, <2>2 DEF client, locals, stateDB, resources, packages
<1>12. CASE Preempt
  <2> DEFINE p == running[ri]
  <2>1. ri \in 1 .. Len(running) /\ p \in Packages
    BY <1>12, ElementOfSeq DEF Preempt
  <2>2. running' \in Seq(Packages) /\ queued' \in Seq(Packages)
    BY <1>12, <2>1, RemoveAtFacts, AppendFacts DEF Preempt
  <2>3. ResourceTypeOK'
    BY <1>12, <2>1, CheckInType DEF Preempt
  <2>4. /\ pc' \in Phases /\ qi' \in Nat \ {0} /\ ri' \in Nat \ {0}
    <3>1. CASE ReturnToRun
      BY <3>1, ReturnType
    <3>2. CASE qi' = qi + 1 /\ UNCHANGED <<pc, ri>>
      BY <3>2
    <3>3. QED
      BY <1>12, <3>1, <3>2 DEF Preempt
  <2>5. proc' \in [Packages -> {"none", "running", "exited"}]
    BY <1>12, <2>1 DEF Preempt
  <2>6. QED
    BY <1>12, <2>2, <2>3, <2>4, <2>5 DEF Preempt, client, iterators, locals, stateDB, resources, packages, Throw
<1>13. CASE EndPreempt
  <2>1. ReturnToRun /\ UNCHANGED <<client, caller, ci, locals, stateDB, resources, packages>>
    BY <1>13, Zenon DEF EndPreempt
  <2>2. pc' \in {"collect", "filter", "ship"} /\ qi' = 1 /\ ri' = 1
    BY <2>1, ReturnType
  <2>3. QED
    BY <2>1, <2>2 DEF client, locals, stateDB, resources, packages
<1>14. CASE StartCommand
  <2> DEFINE p == queued[qi]
  <2>1. qi \in 1 .. Len(queued) /\ p \in Packages /\ ResourceType[p] \in Types
    BY <1>14, ElementOfSeq DEF StartCommand, IsValidRequest
  <2>2. running' \in Seq(Packages) /\ queued' \in Seq(Packages)
    BY <1>14, <2>1, RemoveAtFacts, AppendFacts DEF StartCommand
  <2>3. ResourceTypeOK'
    BY <1>14, <2>1, CheckOutType DEF StartCommand
  <2>4. /\ pc' \in Phases /\ qi' \in Nat \ {0} /\ ri' \in Nat \ {0}
    <3>1. CASE ReturnToRun
      BY <3>1, ReturnType
    <3>2. CASE UNCHANGED <<pc, qi, ri>>
      BY <3>2
    <3>3. QED
      BY <1>14, <3>1, <3>2 DEF StartCommand
  <2>5. proc' \in [Packages -> {"none", "running", "exited"}]
    BY <1>14, <2>1 DEF StartCommand
  <2>6. QED
    BY <1>14, <2>2, <2>3, <2>4, <2>5 DEF StartCommand, client, iterators, locals, stateDB, resources, packages, Throw
<1>15. CASE ExecuteFails
  <2>1. queued[qi] \in Packages /\ ResourceType[queued[qi]] \in Types
    BY <1>15, ElementOfSeq DEF ExecuteFails, IsValidRequest
  <2>2. ResourceTypeOK'
    BY <1>15, <2>1, CheckOutType DEF ExecuteFails
  <2>3. QED
    BY <1>15, <2>2 DEF ExecuteFails, client, iterators, locals, stateDB, resources, packages, Throw
<1>16. CASE SkipCommand
  <2>1. qi' = qi + 1
        /\ UNCHANGED <<client, pc, caller, ri, ci, locals, stateDB, resources, packages>>
    BY <1>16, Zenon DEF SkipCommand
  <2>2. qi' \in Nat \ {0}
    BY <2>1
  <2>3. QED
    BY <2>1, <2>2 DEF client, locals, stateDB, resources, packages
<1>17. CASE EndStart
  <2>1. ReturnToRun /\ UNCHANGED <<client, caller, ci, locals, stateDB, resources, packages>>
    BY <1>17, Zenon DEF EndStart
  <2>2. pc' \in {"collect", "filter", "ship"} /\ qi' = 1 /\ ri' = 1
    BY <2>1, ReturnType
  <2>3. QED
    BY <2>1, <2>2 DEF client, locals, stateDB, resources, packages
<1>18. CASE RejectCommand
  BY <1>18 DEF RejectCommand, client, iterators, locals, stateDB, resources, packages, Throw
<1>19. CASE BeginMonitor
  BY <1>19 DEF BeginMonitor, client, iterators, locals, stateDB, resources, packages, Throw
<1>20. CASE StillRunning
  <2>1. ri' = ri + 1
        /\ UNCHANGED <<client, pc, caller, qi, ci, locals, stateDB, resources, packages>>
    BY <1>20, Zenon DEF StillRunning
  <2>2. ri' \in Nat \ {0}
    BY <2>1
  <2>3. QED
    BY <2>1, <2>2 DEF client, locals, stateDB, resources, packages
<1>21. CASE CompleteCommand
  <2> DEFINE p == running[ri]
  <2>1. ri \in 1 .. Len(running) /\ p \in Packages
    BY <1>21, ElementOfSeq DEF CompleteCommand
  <2>2. /\ running' \in Seq(Packages)
        /\ completed' \in Seq(Packages) /\ Len(completed') = Len(completed) + 1
    BY <1>21, <2>1, RemoveAtFacts, AppendFacts DEF CompleteCommand
  <2>3. ResourceTypeOK'
    BY <1>21, <2>1, CheckInType DEF CompleteCommand
  <2>4. ci' \in 1 .. Len(completed') + 1
    BY <1>21, <2>2 DEF CompleteCommand, iterators
  <2>5. proc' \in [Packages -> {"none", "running", "exited"}]
    BY <1>21, <2>1 DEF CompleteCommand
  <2>6. QED
    BY <1>21, <2>2, <2>3, <2>4, <2>5 DEF CompleteCommand, client, iterators, locals, stateDB, resources, packages, Throw
<1>22. CASE CommandError
  BY <1>22 DEF CommandError, client, iterators, locals, stateDB, resources, packages, Throw
<1>23. CASE EndMonitor
  <2>1. pc' \in Phases /\ caller' \in {"initial", "completed", "retry"}
    BY <1>23 DEF EndMonitor
  <2>2. QED
    BY <1>23, <2>1 DEF EndMonitor, client, iterators, locals, stateDB, resources, packages, Throw
<1>24. CASE AcceptOutput
  <2>1. /\ ci <= Len(completed) /\ Counted(completed[ci])
        /\ ci' = ci + 1 /\ completed' = completed
        /\ UNCHANGED <<client, pc, caller, qi, ri, received, stateDB, resources, proc>>
    BY <1>24, Zenon DEF AcceptOutput, stateDB
  <2>2. completed[ci] \in Packages /\ evals' \in [Packages -> Nat] /\ ci' \in 1 .. Len(completed') + 1
    BY <2>1, FilterType
  <2>3. finished' \in Seq(Packages) /\ UNCHANGED failed
    BY <1>24, <2>2, AppendFacts DEF AcceptOutput, Finish
  <2>4. value' \in [Packages -> {"none", "value", "empty"}]
    BY <1>24, <2>2 DEF AcceptOutput, Finish
  <2>5. QED
    BY <2>1, <2>2, <2>3, <2>4 DEF client, stateDB, resources
<1>25. CASE IgnoreFailure
  <2>1. /\ ci <= Len(completed) /\ Counted(completed[ci])
        /\ ci' = ci + 1 /\ completed' = completed
        /\ UNCHANGED <<client, pc, caller, qi, ri, received, stateDB, resources, proc>>
    BY <1>25, Zenon DEF IgnoreFailure, stateDB
  <2>2. completed[ci] \in Packages /\ evals' \in [Packages -> Nat] /\ ci' \in 1 .. Len(completed') + 1
    BY <2>1, FilterType
  <2>3. finished' \in Seq(Packages) /\ UNCHANGED failed
    BY <1>25, <2>2, AppendFacts DEF IgnoreFailure, Finish
  <2>4. value' \in [Packages -> {"none", "value", "empty"}]
    BY <1>25, <2>2 DEF IgnoreFailure, Finish
  <2>5. QED
    BY <2>1, <2>2, <2>3, <2>4 DEF client, stateDB, resources
<1>26. CASE RecordFailure
  <2>1. /\ ci <= Len(completed) /\ Counted(completed[ci])
        /\ ci' = ci + 1 /\ completed' = completed
        /\ UNCHANGED <<client, pc, caller, qi, ri, received, stateDB, resources, proc>>
    BY <1>26, Zenon DEF RecordFailure, stateDB
  <2>2. completed[ci] \in Packages /\ evals' \in [Packages -> Nat] /\ ci' \in 1 .. Len(completed') + 1
    BY <2>1, FilterType
  <2>3. failed' \in Seq(Packages) /\ UNCHANGED <<finished, value>>
    BY <1>26, <2>2, AppendFacts DEF RecordFailure
  <2>4. QED
    BY <2>1, <2>2, <2>3 DEF client, stateDB, resources
<1>27. CASE GiveUp
  <2>1. /\ ci <= Len(completed) /\ Counted(completed[ci])
        /\ pc' = "handler"
        /\ UNCHANGED <<client, caller, iterators, locals, stateDB, resources, proc, value>>
    BY <1>27, Zenon DEF GiveUp, Throw
  <2>2. completed[ci] \in Packages
    BY <2>1, ElementOfSeq
  <2>3. evals' \in [Packages -> Nat]
    BY <2>1, FilterCount
  <2>4. QED
    BY <2>1, <2>3 DEF client, iterators, locals, stateDB, resources
<1>28. CASE EndFilter
  BY <1>28 DEF EndFilter, client, iterators, locals, stateDB, resources, packages, Throw
<1>29. CASE Ship
  <2>1. /\ finished # <<>> /\ outbox' = Append(outbox, Head(finished))
        /\ finished' = Tail(finished)
        /\ UNCHANGED <<unsent, inbox, connected, registered, notified, sendLocked>>
        /\ UNCHANGED <<pc, caller, iterators, received, failed, stateDB, resources, packages>>
    BY <1>29, Zenon DEF Ship
  <2>2. outbox' \in Seq(Packages) /\ finished' \in Seq(Packages)
    BY <2>1, AppendFacts, TailFacts
  <2>3. QED
    BY <2>1, <2>2 DEF iterators, stateDB, resources, packages
<1>30. CASE ShipKills
  BY <1>30 DEF ShipKills, client, iterators, locals, stateDB, resources, packages
<1>30a. CASE ShipThrows
  BY <1>30a DEF ShipThrows, client, iterators, locals, stateDB, resources, packages, Throw
<1>30b. CASE HandleException
  BY <1>30b DEF HandleException, client, iterators, locals, stateDB, resources, packages
<1>31. CASE EndShip
  BY <1>31 DEF EndShip, client, iterators, locals, stateDB, resources, packages, Throw
<1>32. CASE UNCHANGED vars
  BY <1>32 DEF vars, client, iterators, locals, stateDB, resources, packages, Throw
<1>33. QED
  BY <1>1, <1>2, <1>3, <1>4, <1>5, <1>5a, <1>5b, <1>6, <1>7, <1>8, <1>9, <1>10, <1>11, <1>12, <1>13, <1>14, <1>15, <1>16, <1>17, <1>18, <1>19, <1>20, <1>21, <1>22, <1>23, <1>24, <1>25, <1>26, <1>27, <1>28, <1>29, <1>30, <1>30a, <1>30b, <1>31, <1>32 DEF Next, Run, Rest

(* Every variable keeps its type, whatever the packages, the machine and   *)
(* the faults: in particular the loop of applyOutputFilters never leaves   *)
(* the completed queue that getCompletedCommands filled.                   *)
THEOREM TypeCorrect == Spec => []TypeOK
BY TypeInit, TypeNext, PTL DEF Spec

-----------------------------------------------------------------------------
(* Where the loop holds packages of its own: modelPackages only between    *)
(* receive and commandsFromModelPackages, and completed commands that have *)
(* not been filtered only until applyOutputFilters has seen them.  That is *)
(* why receive may overwrite modelPackages, and getCompletedCommands may   *)
(* clear the completed queue, without losing anything.                     *)
PhaseInv ==
    /\ received # <<>> => pc \in {"create", "handler", "failed"}
    /\ ci <= Len(completed) =>
         \/ pc \in {"monitor", "filter", "handler", "failed"}
         \/ pc \in {"schedule", "preempt", "start"} /\ caller = "completed"

LEMMA PhaseInit == Init => PhaseInv
BY DEF Init, PhaseInv

LEMMA ReturnPhase ==
    ASSUME ReturnToRun, caller = "completed"
    PROVE  pc' = "filter"
BY DEF ReturnToRun

LEMMA PhaseNext == TypeOK /\ PhaseInv /\ [Next]_vars => PhaseInv'
<1> SUFFICES ASSUME TypeOK, PhaseInv, [Next]_vars PROVE PhaseInv'
  OBVIOUS
<1> USE DEF PhaseInv, TypeOK, LoopTypeOK, QueueTypeOK, client, iterators, locals, stateDB, resources, packages, Throw
<1>1. ASSUME NEW p \in Packages, Send(p) \/ ProcessExit(p) PROVE PhaseInv'
  BY <1>1 DEF Send, ProcessExit
<1>2. CASE Disconnect
  BY <1>2 DEF Disconnect
<1>3. CASE ReceivePackages
  BY <1>3 DEF ReceivePackages
<1>4. CASE ReceiveTermination
  BY <1>4 DEF ReceiveTermination
<1>4a. CASE ReceiveNothing
  BY <1>4a DEF ReceiveNothing
<1>4b. CASE StillConnected
  BY <1>4b DEF StillConnected
<1>5. CASE Exit
  BY <1>5 DEF Exit
<1>6. CASE CreateCommands
  BY <1>6 DEF CreateCommands
<1>7. CASE RetryFailed
  BY <1>7 DEF RetryFailed
<1>8. CASE CreateFails
  BY <1>8 DEF CreateFails
<1>9. CASE ProcessQueue
  BY <1>9, ReturnPhase DEF ProcessQueue
<1>10. CASE KeepRegular
  BY <1>10 DEF KeepRegular
<1>11. CASE Preempt
  BY <1>11, ReturnPhase DEF Preempt
<1>12. CASE EndPreempt
  BY <1>12, ReturnPhase DEF EndPreempt
<1>13. CASE StartCommand
  BY <1>13, ReturnPhase DEF StartCommand
<1>14. CASE ExecuteFails
  BY <1>14 DEF ExecuteFails
<1>15. CASE SkipCommand
  BY <1>15 DEF SkipCommand
<1>16. CASE EndStart
  BY <1>16, ReturnPhase DEF EndStart
<1>17. CASE RejectCommand
  BY <1>17 DEF RejectCommand
<1>18. CASE BeginMonitor
  BY <1>18 DEF BeginMonitor
<1>19. CASE StillRunning
  BY <1>19 DEF StillRunning
<1>20. CASE CompleteCommand
  BY <1>20 DEF CompleteCommand
<1>21. CASE CommandError
  BY <1>21 DEF CommandError
<1>22. CASE EndMonitor
  BY <1>22 DEF EndMonitor
<1>23. CASE AcceptOutput
  BY <1>23 DEF AcceptOutput
<1>24. CASE IgnoreFailure
  BY <1>24 DEF IgnoreFailure
<1>25. CASE RecordFailure
  BY <1>25 DEF RecordFailure
<1>26. CASE GiveUp
  BY <1>26 DEF GiveUp
<1>27. CASE EndFilter
  BY <1>27 DEF EndFilter
<1>28. CASE Ship
  BY <1>28 DEF Ship
<1>29. CASE ShipKills
  BY <1>29 DEF ShipKills
<1>29a. CASE ShipThrows
  BY <1>29a DEF ShipThrows
<1>29b. CASE HandleException
  BY <1>29b DEF HandleException
<1>30. CASE EndShip
  BY <1>30 DEF EndShip
<1>31. CASE UNCHANGED vars
  BY <1>31 DEF vars
<1>32. QED
  BY <1>1, <1>2, <1>3, <1>4, <1>4a, <1>4b, <1>5, <1>6, <1>7, <1>8, <1>9, <1>10, <1>11, <1>12, <1>13, <1>14, <1>15, <1>16, <1>17, <1>18, <1>19, <1>20, <1>21, <1>22, <1>23, <1>24, <1>25, <1>26, <1>27, <1>28, <1>29, <1>29a, <1>29b, <1>30, <1>31 DEF Next, Run, Rest

-----------------------------------------------------------------------------
(* No package is lost or duplicated *)

LEMMA PlacesAre ==
    /\ DOMAIN Places = 1 .. 8
    /\ Places[1] = inbox /\ Places[2] = received /\ Places[3] = queued
    /\ Places[4] = running /\ Places[5] = Pending /\ Places[6] = failed
    /\ Places[7] = finished /\ Places[8] = outbox
BY DEF Places

LEMMA PlacesAreNext ==
    /\ DOMAIN Places' = 1 .. 8
    /\ Places'[1] = inbox' /\ Places'[2] = received' /\ Places'[3] = queued'
    /\ Places'[4] = running' /\ Places'[5] = Pending' /\ Places'[6] = failed'
    /\ Places'[7] = finished' /\ Places'[8] = outbox'
BY DEF Places

(* Packages that leave one place for another keep the partition.           *)
LEMMA Moved ==
    ASSUME NEW rest, NEW P, NEW Q, IsPartition(rest, P),
           DOMAIN Q = DOMAIN P,
           NEW a \in DOMAIN P, NEW b \in DOMAIN P, a # b,
           \A k \in DOMAIN P \ {a, b} : Q[k] = P[k],
           NEW S, S \subseteq Range(P[a]),
           Range(Q[a]) = Range(P[a]) \ S, IsInjective(Q[a]),
           Range(Q[b]) = Range(P[b]) \cup S, IsInjective(Q[b])
    PROVE  IsPartition(rest, Q)
<1> USE DEF IsPartition
<1>1. ASSUME NEW k \in DOMAIN Q
      PROVE  /\ IsInjective(Q[k])
             /\ Range(Q[k]) \cap rest = {}
             /\ \A l \in DOMAIN Q : k # l => Range(Q[k]) \cap Range(Q[l]) = {}
  <2> HIDE DEF IsPartition
  <2>1. \A l \in DOMAIN P :
          /\ l # a /\ l # b => Range(Q[l]) = Range(P[l]) /\ IsInjective(Q[l])
          /\ Range(P[l]) \cap rest = {}
    BY DEF IsPartition
  <2>2. \A l, m \in DOMAIN P : l # m => Range(P[l]) \cap Range(P[m]) = {}
    BY DEF IsPartition
  <2>3. IsInjective(Q[k]) /\ Range(Q[k]) \cap rest = {}
    BY <2>1
  <2>4. ASSUME NEW l \in DOMAIN Q, k # l PROVE Range(Q[k]) \cap Range(Q[l]) = {}
    <3>1. Range(P[a]) \cap Range(P[b]) = {}
      BY <2>2
    <3>2. CASE k = a
      BY <2>1, <2>2, <2>4, <3>1, <3>2
    <3>3. CASE k = b
      BY <2>1, <2>2, <2>4, <3>1, <3>3
    <3>4. CASE k # a /\ k # b
      BY <2>1, <2>2, <2>4, <3>1, <3>4
    <3>5. QED
      BY <3>2, <3>3, <3>4
  <2>5. QED
    BY <2>3, <2>4
<1>2. UNION {Range(Q[k]) : k \in DOMAIN Q} = UNION {Range(P[k]) : k \in DOMAIN P}
  <2>1. ASSUME NEW x, NEW k \in DOMAIN P, x \in Range(P[k])
        PROVE  \E l \in DOMAIN Q : x \in Range(Q[l])
    BY <2>1
  <2>2. ASSUME NEW x, NEW k \in DOMAIN Q, x \in Range(Q[k])
        PROVE  \E l \in DOMAIN P : x \in Range(P[l])
    BY <2>2
  <2>3. QED
    BY <2>1, <2>2
<1>3. QED
  BY <1>1, <1>2

(* A package that enters from outside keeps the partition.                 *)
LEMMA Entered ==
    ASSUME NEW rest, NEW P, NEW Q, IsPartition(rest, P),
           DOMAIN Q = DOMAIN P,
           NEW a \in DOMAIN P,
           \A k \in DOMAIN P \ {a} : Q[k] = P[k],
           NEW p \in rest,
           Range(Q[a]) = Range(P[a]) \cup {p}, IsInjective(Q[a])
    PROVE  IsPartition(rest \ {p}, Q)
<1>1. ASSUME NEW k \in DOMAIN Q
      PROVE  /\ IsInjective(Q[k])
             /\ Range(Q[k]) \cap (rest \ {p}) = {}
             /\ \A l \in DOMAIN Q : k # l => Range(Q[k]) \cap Range(Q[l]) = {}
  BY DEF IsPartition
<1>2. rest \cup UNION {Range(P[k]) : k \in DOMAIN P}
        = (rest \ {p}) \cup UNION {Range(Q[k]) : k \in DOMAIN Q}
  <2>1. ASSUME NEW x, NEW k \in DOMAIN P, x \in Range(P[k])
        PROVE  \E l \in DOMAIN Q : x \in Range(Q[l])
    BY <2>1
  <2>2. ASSUME NEW x, NEW k \in DOMAIN Q, x \in Range(Q[k])
        PROVE  x = p \/ \E l \in DOMAIN P : x \in Range(P[l])
    BY <2>2
  <2>3. p \in Range(Q[a])
    OBVIOUS
  <2>4. QED
    BY <2>1, <2>2, <2>3
<1>3. QED
  BY <1>1, <1>2 DEF IsPartition

LEMMA PartitionInit == Init => NothingLostOrDuplicated
<1> SUFFICES ASSUME Init PROVE IsPartition(unsent, Places)
  BY DEF NothingLostOrDuplicated
<1>1. Pending = <<>>
  BY SubSeqEmpty DEF Init, Pending
<1>2. \A k \in 1 .. 8 : Places[k] = <<>>
  BY <1>1, PlacesAre DEF Init
<1>3. IsInjective(<<>>) /\ Range(<<>>) = {}
  BY DEF IsInjective, Range
<1>4. QED
  BY <1>2, <1>3, PlacesAre DEF IsPartition, Init

(* The facts about the places each step of the next lemma starts from.     *)
LEMMA PartitionFacts ==
    ASSUME TypeOK, NothingLostOrDuplicated
    PROVE  /\ IsInjective(inbox) /\ IsInjective(received) /\ IsInjective(queued)
           /\ IsInjective(running) /\ IsInjective(Pending) /\ IsInjective(failed)
           /\ IsInjective(finished) /\ IsInjective(outbox)
           /\ \A k, l \in 1 .. 8 : k # l => Range(Places[k]) \cap Range(Places[l]) = {}
           /\ \A p \in unsent : \A k \in 1 .. 8 : p \notin Range(Places[k])
<1>1. \A k \in 1 .. 8 : IsInjective(Places[k])
  BY PlacesAre DEF NothingLostOrDuplicated, IsPartition
<1>2. \A k, l \in 1 .. 8 : k # l => Range(Places[k]) \cap Range(Places[l]) = {}
  BY PlacesAre DEF NothingLostOrDuplicated, IsPartition
<1>3. \A p \in unsent : \A k \in 1 .. 8 : p \notin Range(Places[k])
  BY PlacesAre DEF NothingLostOrDuplicated, IsPartition
<1>4. QED
  BY <1>1, <1>2, <1>3, PlacesAre

(* A step that touches no place.                                           *)
LEMMA PartitionStays ==
    ASSUME NothingLostOrDuplicated,
           UNCHANGED <<unsent, inbox, received, queued, running, completed, ci, failed, finished, outbox>>
    PROVE  NothingLostOrDuplicated'
<1>1. Pending' = Pending
  BY DEF Pending
<1>2. Places' = Places
  BY <1>1 DEF Places
<1>3. QED
  BY <1>2 DEF NothingLostOrDuplicated, IsPartition

(* The command at a position of the running or of the queued commands      *)
(* leaves it.                                                              *)
LEMMA Leaves ==
    ASSUME NEW s \in Seq(Packages), NEW i \in Nat \ {0}, i <= Len(s), IsInjective(s)
    PROVE  /\ s[i] \in Packages /\ s[i] \in Range(s)
           /\ Range(RemoveAt(s, i)) = Range(s) \ {s[i]}
           /\ IsInjective(RemoveAt(s, i))
<1>1. i \in 1 .. Len(s)
  BY LenProperties
<1>2. QED
  BY <1>1, RemoveAtFacts

(* Each step moves packages from one place to one other, or none.          *)
LEMMA PartitionNext ==
    TypeOK /\ PhaseInv /\ NothingLostOrDuplicated /\ [Next]_vars => NothingLostOrDuplicated'
<1> SUFFICES ASSUME TypeOK, PhaseInv, NothingLostOrDuplicated, [Next]_vars
             PROVE  NothingLostOrDuplicated'
  OBVIOUS
<1> USE DEF client, iterators, locals, stateDB, resources, packages, Throw
<1>a. /\ inbox \in Seq(Packages) /\ received \in Seq(Packages)
      /\ queued \in Seq(Packages) /\ running \in Seq(Packages)
      /\ completed \in Seq(Packages) /\ failed \in Seq(Packages)
      /\ finished \in Seq(Packages) /\ outbox \in Seq(Packages)
      /\ ci \in 1 .. Len(completed) + 1 /\ qi \in Nat \ {0} /\ ri \in Nat \ {0}
  BY DEF TypeOK, ClientTypeOK, LoopTypeOK, QueueTypeOK
<1>b. /\ Pending \in Seq(Packages)
      /\ ci <= Len(completed) => Pending # <<>> /\ Head(Pending) = completed[ci]
      /\ ci > Len(completed) => Pending = <<>>
      /\ UNCHANGED <<completed, ci>> => Pending' = Pending
  BY <1>a, SuffixFacts DEF Pending
<1>c. Range(<<>>) = {} /\ IsInjective(<<>>)
  BY DEF Range, IsInjective
<1>d. ASSUME unsent' = unsent,
             NEW a \in 1 .. 8, NEW b \in 1 .. 8, a # b,
             \A k \in (1 .. 8) \ {a, b} : Places'[k] = Places[k],
             NEW S, S \subseteq Range(Places[a]),
             Range(Places'[a]) = Range(Places[a]) \ S, IsInjective(Places'[a]),
             Range(Places'[b]) = Range(Places[b]) \cup S, IsInjective(Places'[b])
      PROVE  NothingLostOrDuplicated'
  <2>1. IsPartition(unsent, Places')
    <3> DEFINE P == Places
               Q == Places'
    <3>1. DOMAIN P = 1 .. 8 /\ DOMAIN Q = 1 .. 8
      BY PlacesAre, PlacesAreNext
    <3>2. /\ \A k \in (1 .. 8) \ {a, b} : Q[k] = P[k]
          /\ S \subseteq Range(P[a])
          /\ Range(Q[a]) = Range(P[a]) \ S /\ IsInjective(Q[a])
          /\ Range(Q[b]) = Range(P[b]) \cup S /\ IsInjective(Q[b])
      BY <1>d
    <3>3. IsPartition(unsent, P)
      BY DEF NothingLostOrDuplicated
    <3> HIDE DEF P, Q
    <3>4. IsPartition(unsent, Q)
      BY <1>d, <3>1, <3>2, <3>3, Moved
    <3>5. QED
      BY <3>4 DEF Q
  <2>2. QED
    BY <1>d, <2>1 DEF NothingLostOrDuplicated, IsPartition
<1>e. ASSUME NEW p \in Packages, completed' = Append(completed, p), ci' = ci
      PROVE  Pending' = Append(Pending, p)
  <2>1. completed \in Seq(Packages) /\ ci \in 1 .. Len(completed) + 1
    BY <1>a
  <2>2. \A e \in Packages :
          SubSeq(Append(completed, e), ci, Len(Append(completed, e)))
            = Append(SubSeq(completed, ci, Len(completed)), e)
    BY <2>1, SuffixFacts
  <2>3. QED
    BY <1>e, <2>2 DEF Pending
<1>f. ASSUME ci <= Len(completed), completed' = completed, ci' = ci + 1
      PROVE  /\ Pending # <<>> /\ Head(Pending) = completed[ci] /\ Pending' = Tail(Pending)
             /\ completed[ci] \in Packages /\ completed[ci] \in Range(Pending)
             /\ Range(Pending') = Range(Pending) \ {completed[ci]}
             /\ IsInjective(Pending')
  <2>1. SubSeq(completed, ci + 1, Len(completed)) = Tail(SubSeq(completed, ci, Len(completed)))
    BY <1>a, <1>f, SuffixFacts
  <2>2. Pending' = Tail(Pending)
    BY <1>f, <2>1 DEF Pending
  <2>3. IsInjective(Pending)
    BY PartitionFacts
  <2>4. Pending # <<>> /\ Head(Pending) = completed[ci]
    BY <1>b, <1>f
  <2>5. QED
    BY <1>b, <2>2, <2>3, <2>4, TailFacts
<1>1. ASSUME NEW p \in Packages, Send(p) PROVE NothingLostOrDuplicated'
  <2>1. p \in unsent /\ unsent' = unsent \ {p} /\ inbox' = Append(inbox, p)
    BY <1>1 DEF Send
  <2>2. Range(inbox') = Range(inbox) \cup {p} /\ IsInjective(inbox')
    BY <1>a, <2>1, AppendFacts, PartitionFacts, PlacesAre
  <2> DEFINE P == Places
             Q == Places'
  <2>3. DOMAIN P = 1 .. 8 /\ DOMAIN Q = 1 .. 8
    BY PlacesAre, PlacesAreNext
  <2>4. \A k \in (1 .. 8) \ {1} : Q[k] = P[k]
    BY <1>1, <1>b, PlacesAre, PlacesAreNext DEF Send
  <2>5. Range(Q[1]) = Range(P[1]) \cup {p} /\ IsInjective(Q[1])
    BY <2>2, PlacesAre, PlacesAreNext
  <2>6. IsPartition(unsent, P)
    BY DEF NothingLostOrDuplicated
  <2> HIDE DEF P, Q
  <2>7. IsPartition(unsent \ {p}, Q)
    BY <2>1, <2>3, <2>4, <2>5, <2>6, Entered
  <2>8. QED
    BY <2>1, <2>7 DEF Q, NothingLostOrDuplicated, IsPartition
<1>2. ASSUME NEW p \in Packages, ProcessExit(p) PROVE NothingLostOrDuplicated'
  BY <1>2, PartitionStays DEF ProcessExit
<1>3. CASE Disconnect
  BY <1>3, PartitionStays DEF Disconnect
<1>4. CASE ReceivePackages
  <2>1. received = <<>> /\ received' = inbox /\ inbox' = <<>>
    BY <1>4 DEF ReceivePackages, PhaseInv
  <2>2. /\ Range(inbox') = Range(inbox) \ Range(inbox) /\ IsInjective(inbox')
        /\ Range(received') = Range(received) \cup Range(inbox) /\ IsInjective(received')
    BY <1>c, <2>1, PartitionFacts
  <2>3. unsent' = unsent /\ \A k \in (1 .. 8) \ {1, 2} : Places'[k] = Places[k]
    BY <1>4, <1>b, PlacesAre, PlacesAreNext DEF ReceivePackages
  <2>4. /\ Range(inbox) \subseteq Range(Places[1])
        /\ Range(Places'[1]) = Range(Places[1]) \ Range(inbox) /\ IsInjective(Places'[1])
        /\ Range(Places'[2]) = Range(Places[2]) \cup Range(inbox) /\ IsInjective(Places'[2])
    BY <2>1, <2>2, PlacesAre, PlacesAreNext
  <2>5. QED
    BY <1>d, <2>3, <2>4
<1>5. CASE ReceiveTermination
  BY <1>5, PartitionStays DEF ReceiveTermination
<1>5a. CASE ReceiveNothing
  BY <1>5a, PartitionStays DEF ReceiveNothing
<1>5b. CASE StillConnected
  BY <1>5b, PartitionStays DEF StillConnected
<1>6. CASE Exit
  BY <1>6, PartitionStays DEF Exit
<1>7. CASE CreateCommands
  <2>1. Range(queued) \cap Range(received) = {}
    BY PartitionFacts, PlacesAre
  <2>2. /\ Range(queued') = Range(queued) \cup Range(received) /\ IsInjective(queued')
        /\ Range(received') = Range(received) \ Range(received) /\ IsInjective(received')
    BY <1>7, <1>a, <1>c, <2>1, ScheduleFacts, PartitionFacts DEF CreateCommands
  <2>3. unsent' = unsent /\ \A k \in (1 .. 8) \ {2, 3} : Places'[k] = Places[k]
    BY <1>7, <1>b, PlacesAre, PlacesAreNext DEF CreateCommands
  <2>4. /\ Range(received) \subseteq Range(Places[2])
        /\ Range(Places'[2]) = Range(Places[2]) \ Range(received) /\ IsInjective(Places'[2])
        /\ Range(Places'[3]) = Range(Places[3]) \cup Range(received) /\ IsInjective(Places'[3])
    BY <2>1, <2>2, PlacesAre, PlacesAreNext
  <2>5. QED
    BY <1>d, <2>3, <2>4
<1>8. CASE RetryFailed
  <2>1. Range(queued) \cap Range(failed) = {}
    BY PartitionFacts, PlacesAre
  <2>2. /\ Range(queued') = Range(queued) \cup Range(failed) /\ IsInjective(queued')
        /\ Range(failed') = Range(failed) \ Range(failed) /\ IsInjective(failed')
    BY <1>8, <1>a, <1>c, <2>1, ScheduleFacts, PartitionFacts DEF RetryFailed
  <2>3. unsent' = unsent /\ \A k \in (1 .. 8) \ {6, 3} : Places'[k] = Places[k]
    BY <1>8, <1>b, PlacesAre, PlacesAreNext DEF RetryFailed
  <2>4. /\ Range(failed) \subseteq Range(Places[6])
        /\ Range(Places'[6]) = Range(Places[6]) \ Range(failed) /\ IsInjective(Places'[6])
        /\ Range(Places'[3]) = Range(Places[3]) \cup Range(failed) /\ IsInjective(Places'[3])
    BY <2>1, <2>2, PlacesAre, PlacesAreNext
  <2>5. QED
    BY <1>d, <2>3, <2>4
<1>9. CASE CreateFails
  BY <1>9, PartitionStays DEF CreateFails
<1>10. CASE ProcessQueue
  BY <1>10, PartitionStays DEF ProcessQueue
<1>11. CASE KeepRegular
  BY <1>11, PartitionStays DEF KeepRegular
<1>12. CASE Preempt
  <2>1. running' = RemoveAt(running, ri) /\ ri <= Len(running)
    BY <1>12 DEF Preempt
  <2>2. /\ Range(running') = Range(running) \ {running[ri]} /\ IsInjective(running')
        /\ running[ri] \in Range(running) /\ running[ri] \in Packages
    BY <1>a, <2>1, Leaves, PartitionFacts
  <2>3. running[ri] \notin Range(queued)
    BY <2>2, PartitionFacts, PlacesAre
  <2>4. queued' = Append(queued, running[ri])
    BY <1>12 DEF Preempt
  <2>5. Range(queued') = Range(queued) \cup {running[ri]} /\ IsInjective(queued')
    BY <1>a, <1>b, <2>2, <2>3, <2>4, AppendFacts, PartitionFacts
  <2>6. unsent' = unsent /\ \A k \in (1 .. 8) \ {4, 3} : Places'[k] = Places[k]
    BY <1>12, <1>b, PlacesAre, PlacesAreNext DEF Preempt
  <2> DEFINE S == {running[ri]}
  <2>7. /\ S \subseteq Range(Places[4])
        /\ Range(Places'[4]) = Range(Places[4]) \ S /\ IsInjective(Places'[4])
        /\ Range(Places'[3]) = Range(Places[3]) \cup S /\ IsInjective(Places'[3])
    BY <2>1, <2>2, <2>3, <2>4, <2>5, PlacesAre, PlacesAreNext
  <2> HIDE DEF S
  <2>8. QED
    BY <1>d, <2>6, <2>7
<1>13. CASE EndPreempt
  BY <1>13, PartitionStays DEF EndPreempt
<1>14. CASE StartCommand
  <2>1. queued' = RemoveAt(queued, qi) /\ qi <= Len(queued)
    BY <1>14 DEF StartCommand
  <2>2. /\ Range(queued') = Range(queued) \ {queued[qi]} /\ IsInjective(queued')
        /\ queued[qi] \in Range(queued) /\ queued[qi] \in Packages
    BY <1>a, <2>1, Leaves, PartitionFacts
  <2>3. queued[qi] \notin Range(running)
    BY <2>2, PartitionFacts, PlacesAre
  <2>4. running' = Append(running, queued[qi])
    BY <1>14 DEF StartCommand
  <2>5. Range(running') = Range(running) \cup {queued[qi]} /\ IsInjective(running')
    BY <1>a, <1>b, <2>2, <2>3, <2>4, AppendFacts, PartitionFacts
  <2>6. unsent' = unsent /\ \A k \in (1 .. 8) \ {3, 4} : Places'[k] = Places[k]
    BY <1>14, <1>b, PlacesAre, PlacesAreNext DEF StartCommand
  <2> DEFINE S == {queued[qi]}
  <2>7. /\ S \subseteq Range(Places[3])
        /\ Range(Places'[3]) = Range(Places[3]) \ S /\ IsInjective(Places'[3])
        /\ Range(Places'[4]) = Range(Places[4]) \cup S /\ IsInjective(Places'[4])
    BY <2>1, <2>2, <2>3, <2>4, <2>5, PlacesAre, PlacesAreNext
  <2> HIDE DEF S
  <2>8. QED
    BY <1>d, <2>6, <2>7
<1>15. CASE ExecuteFails
  BY <1>15, PartitionStays DEF ExecuteFails
<1>16. CASE SkipCommand
  BY <1>16, PartitionStays DEF SkipCommand
<1>17. CASE EndStart
  BY <1>17, PartitionStays DEF EndStart
<1>18. CASE RejectCommand
  BY <1>18, PartitionStays DEF RejectCommand
<1>19. CASE BeginMonitor
  <2>1. Pending = <<>> /\ completed' = <<>> /\ ci' = 1
    BY <1>19, <1>a, <1>b DEF BeginMonitor, PhaseInv
  <2>2. Pending' = <<>>
    BY <2>1, SubSeqEmpty DEF Pending
  <2>3. Places' = Places /\ unsent' = unsent
    BY <1>19, <2>1, <2>2 DEF BeginMonitor, Places
  <2>4. QED
    BY <2>3 DEF NothingLostOrDuplicated, IsPartition
<1>20. CASE StillRunning
  BY <1>20, PartitionStays DEF StillRunning
<1>21. CASE CompleteCommand
  <2>1. running' = RemoveAt(running, ri) /\ ri <= Len(running)
    BY <1>21 DEF CompleteCommand
  <2>2. /\ Range(running') = Range(running) \ {running[ri]} /\ IsInjective(running')
        /\ running[ri] \in Range(running) /\ running[ri] \in Packages
    BY <1>a, <2>1, Leaves, PartitionFacts
  <2>3. running[ri] \notin Range(Pending)
    BY <2>2, PartitionFacts, PlacesAre
  <2>4. Pending' = Append(Pending, running[ri])
    BY <1>21, <1>e, <2>2 DEF CompleteCommand
  <2>5. Range(Pending') = Range(Pending) \cup {running[ri]} /\ IsInjective(Pending')
    BY <1>a, <1>b, <2>2, <2>3, <2>4, AppendFacts, PartitionFacts
  <2>6. unsent' = unsent /\ \A k \in (1 .. 8) \ {4, 5} : Places'[k] = Places[k]
    BY <1>21, <1>b, PlacesAre, PlacesAreNext DEF CompleteCommand
  <2> DEFINE S == {running[ri]}
  <2>7. /\ S \subseteq Range(Places[4])
        /\ Range(Places'[4]) = Range(Places[4]) \ S /\ IsInjective(Places'[4])
        /\ Range(Places'[5]) = Range(Places[5]) \cup S /\ IsInjective(Places'[5])
    BY <2>1, <2>2, <2>3, <2>4, <2>5, PlacesAre, PlacesAreNext
  <2> HIDE DEF S
  <2>8. QED
    BY <1>d, <2>6, <2>7
<1>22. CASE CommandError
  BY <1>22, PartitionStays DEF CommandError
<1>23. CASE EndMonitor
  BY <1>23, PartitionStays DEF EndMonitor
<1>24. CASE AcceptOutput
  <2>1. finished' = Append(finished, completed[ci])
    BY <1>24 DEF AcceptOutput, Finish
  <2>2. /\ Range(Pending') = Range(Pending) \ {completed[ci]} /\ IsInjective(Pending')
        /\ completed[ci] \in Range(Pending) /\ completed[ci] \in Packages
    BY <1>24, <1>f DEF AcceptOutput
  <2>3. completed[ci] \notin Range(finished)
    BY <2>2, PartitionFacts, PlacesAre
  <2>4. Range(finished') = Range(finished) \cup {completed[ci]} /\ IsInjective(finished')
    BY <1>a, <2>1, <2>2, <2>3, AppendFacts, PartitionFacts
  <2>5. unsent' = unsent /\ \A k \in (1 .. 8) \ {5, 7} : Places'[k] = Places[k]
    BY <1>24, <1>b, PlacesAre, PlacesAreNext DEF AcceptOutput
  <2> DEFINE S == {completed[ci]}
  <2>6. /\ S \subseteq Range(Places[5])
        /\ Range(Places'[5]) = Range(Places[5]) \ S /\ IsInjective(Places'[5])
        /\ Range(Places'[7]) = Range(Places[7]) \cup S /\ IsInjective(Places'[7])
    BY <2>1, <2>2, <2>3, <2>4, PlacesAre, PlacesAreNext
  <2> HIDE DEF S
  <2>7. QED
    BY <1>d, <2>5, <2>6
<1>25. CASE IgnoreFailure
  <2>1. finished' = Append(finished, completed[ci])
    BY <1>25 DEF IgnoreFailure, Finish
  <2>2. /\ Range(Pending') = Range(Pending) \ {completed[ci]} /\ IsInjective(Pending')
        /\ completed[ci] \in Range(Pending) /\ completed[ci] \in Packages
    BY <1>25, <1>f DEF IgnoreFailure
  <2>3. completed[ci] \notin Range(finished)
    BY <2>2, PartitionFacts, PlacesAre
  <2>4. Range(finished') = Range(finished) \cup {completed[ci]} /\ IsInjective(finished')
    BY <1>a, <2>1, <2>2, <2>3, AppendFacts, PartitionFacts
  <2>5. unsent' = unsent /\ \A k \in (1 .. 8) \ {5, 7} : Places'[k] = Places[k]
    BY <1>25, <1>b, PlacesAre, PlacesAreNext DEF IgnoreFailure
  <2> DEFINE S == {completed[ci]}
  <2>6. /\ S \subseteq Range(Places[5])
        /\ Range(Places'[5]) = Range(Places[5]) \ S /\ IsInjective(Places'[5])
        /\ Range(Places'[7]) = Range(Places[7]) \cup S /\ IsInjective(Places'[7])
    BY <2>1, <2>2, <2>3, <2>4, PlacesAre, PlacesAreNext
  <2> HIDE DEF S
  <2>7. QED
    BY <1>d, <2>5, <2>6
<1>26. CASE RecordFailure
  <2>1. failed' = Append(failed, completed[ci])
    BY <1>26 DEF RecordFailure
  <2>2. /\ Range(Pending') = Range(Pending) \ {completed[ci]} /\ IsInjective(Pending')
        /\ completed[ci] \in Range(Pending) /\ completed[ci] \in Packages
    BY <1>26, <1>f DEF RecordFailure
  <2>3. completed[ci] \notin Range(failed)
    BY <2>2, PartitionFacts, PlacesAre
  <2>4. Range(failed') = Range(failed) \cup {completed[ci]} /\ IsInjective(failed')
    BY <1>a, <2>1, <2>2, <2>3, AppendFacts, PartitionFacts
  <2>5. unsent' = unsent /\ \A k \in (1 .. 8) \ {5, 6} : Places'[k] = Places[k]
    BY <1>26, <1>b, PlacesAre, PlacesAreNext DEF RecordFailure
  <2> DEFINE S == {completed[ci]}
  <2>6. /\ S \subseteq Range(Places[5])
        /\ Range(Places'[5]) = Range(Places[5]) \ S /\ IsInjective(Places'[5])
        /\ Range(Places'[6]) = Range(Places[6]) \cup S /\ IsInjective(Places'[6])
    BY <2>1, <2>2, <2>3, <2>4, PlacesAre, PlacesAreNext
  <2> HIDE DEF S
  <2>7. QED
    BY <1>d, <2>5, <2>6
<1>27. CASE GiveUp
  BY <1>27, PartitionStays DEF GiveUp
<1>28. CASE EndFilter
  BY <1>28, PartitionStays DEF EndFilter
<1>29. CASE Ship
  <2>1. finished # <<>> /\ finished' = Tail(finished) /\ outbox' = Append(outbox, Head(finished))
    BY <1>29 DEF Ship
  <2>2. /\ Range(finished') = Range(finished) \ {Head(finished)} /\ IsInjective(finished')
        /\ Head(finished) \in Range(finished) /\ Head(finished) \in Packages
    BY <1>a, <2>1, TailFacts, PartitionFacts
  <2>3. Head(finished) \notin Range(outbox)
    BY <2>2, PartitionFacts, PlacesAre
  <2>4. Range(outbox') = Range(outbox) \cup {Head(finished)} /\ IsInjective(outbox')
    BY <1>a, <2>1, <2>2, <2>3, AppendFacts, PartitionFacts
  <2>5. unsent' = unsent /\ \A k \in (1 .. 8) \ {7, 8} : Places'[k] = Places[k]
    BY <1>29, <1>b, PlacesAre, PlacesAreNext DEF Ship
  <2> DEFINE S == {Head(finished)}
  <2>6. /\ S \subseteq Range(Places[7])
        /\ Range(Places'[7]) = Range(Places[7]) \ S /\ IsInjective(Places'[7])
        /\ Range(Places'[8]) = Range(Places[8]) \cup S /\ IsInjective(Places'[8])
    BY <2>1, <2>2, <2>3, <2>4, PlacesAre, PlacesAreNext
  <2> HIDE DEF S
  <2>7. QED
    BY <1>d, <2>5, <2>6
<1>30. CASE ShipKills
  BY <1>30, PartitionStays DEF ShipKills
<1>30a. CASE ShipThrows
  BY <1>30a, PartitionStays DEF ShipThrows
<1>30b. CASE HandleException
  BY <1>30b, PartitionStays DEF HandleException
<1>31. CASE EndShip
  BY <1>31, PartitionStays DEF EndShip
<1>32. CASE UNCHANGED vars
  BY <1>32, PartitionStays DEF vars
<1>33. QED
  BY <1>1, <1>2, <1>3, <1>4, <1>5, <1>5a, <1>5b, <1>6, <1>7, <1>8, <1>9, <1>10, <1>11, <1>12, <1>13, <1>14, <1>15, <1>16, <1>17, <1>18, <1>19, <1>20, <1>21, <1>22, <1>23, <1>24, <1>25, <1>26, <1>27, <1>28, <1>29, <1>30, <1>30a, <1>30b, <1>31, <1>32 DEF Next, Run, Rest

(* No step of the loop loses a package or duplicates one: each is in one   *)
(* place, once, from the client's program through the queues and back.     *)
THEOREM NothingIsLostOrDuplicated == Spec => []NothingLostOrDuplicated
<1>1. Init => TypeOK /\ PhaseInv /\ NothingLostOrDuplicated
  BY TypeInit, PhaseInit, PartitionInit
<1>2. TypeOK /\ PhaseInv /\ NothingLostOrDuplicated /\ [Next]_vars
        => (TypeOK /\ PhaseInv /\ NothingLostOrDuplicated)'
  BY TypeNext, PhaseNext, PartitionNext
<1>3. QED
  BY <1>1, <1>2, PTL DEF Spec

-----------------------------------------------------------------------------
(* Processes and resources *)

(* The rest of the loop: what none of the steps that start, preempt or     *)
(* complete a command, and none that throws, does.                         *)
Elsewhere ==
    /\ UNCHANGED <<running, free, held>>
    /\ \A p \in Packages : proc'[p] = "none" <=> proc[p] = "none"
    /\ Dying => Dying'

Dies == Dying' /\ UNCHANGED <<running, free, held>>

LEMMA Steps ==
    ASSUME TypeOK, [Next]_vars
    PROVE  Elsewhere \/ Dies \/ Preempt \/ StartCommand \/ ExecuteFails \/ CompleteCommand
<1> USE DEF client, iterators, locals, stateDB, resources, packages, Throw, Elsewhere, Dying
<1>1. ASSUME NEW p \in Packages, Send(p) PROVE Elsewhere
  BY <1>1 DEF Send, Stopped
<1>2. ASSUME NEW p \in Packages, ProcessExit(p) PROVE Elsewhere
  BY <1>2 DEF ProcessExit, TypeOK, PackageTypeOK
<1>3. CASE Disconnect
  BY <1>3 DEF Disconnect
<1>4. CASE ReceivePackages
  BY <1>4 DEF ReceivePackages
<1>5. CASE ReceiveTermination
  BY <1>5 DEF ReceiveTermination
<1>5a. CASE ReceiveNothing
  BY <1>5a DEF ReceiveNothing
<1>5b. CASE StillConnected
  BY <1>5b DEF StillConnected
<1>6. CASE Exit
  BY <1>6 DEF Exit
<1>7. CASE CreateCommands
  BY <1>7 DEF CreateCommands
<1>8. CASE RetryFailed
  BY <1>8 DEF RetryFailed
<1>9. CASE CreateFails
  BY <1>9 DEF CreateFails, Dies
<1>10. CASE ProcessQueue
  BY <1>10 DEF ProcessQueue
<1>11. CASE KeepRegular
  BY <1>11 DEF KeepRegular
<1>12. CASE EndPreempt
  BY <1>12 DEF EndPreempt
<1>13. CASE SkipCommand
  BY <1>13 DEF SkipCommand
<1>14. CASE EndStart
  BY <1>14 DEF EndStart
<1>15. CASE RejectCommand
  BY <1>15 DEF RejectCommand, Dies
<1>16. CASE BeginMonitor
  BY <1>16 DEF BeginMonitor
<1>17. CASE StillRunning
  BY <1>17 DEF StillRunning
<1>18. CASE CommandError
  BY <1>18 DEF CommandError, Dies
<1>19. CASE EndMonitor
  BY <1>19 DEF EndMonitor
<1>20. CASE AcceptOutput
  BY <1>20 DEF AcceptOutput
<1>21. CASE IgnoreFailure
  BY <1>21 DEF IgnoreFailure
<1>22. CASE RecordFailure
  BY <1>22 DEF RecordFailure
<1>23. CASE GiveUp
  BY <1>23 DEF GiveUp, Dies
<1>24. CASE EndFilter
  BY <1>24 DEF EndFilter
<1>25. CASE Ship
  BY <1>25 DEF Ship
<1>26. CASE ShipKills
  BY <1>26 DEF ShipKills, Dies
<1>26a. CASE ShipThrows
  BY <1>26a DEF ShipThrows, Dies
<1>26b. CASE HandleException
  BY <1>26b DEF HandleException, Dies
<1>27. CASE EndShip
  BY <1>27 DEF EndShip
<1>28. CASE UNCHANGED vars
  BY <1>28 DEF vars
<1>29. QED
  BY <1>1, <1>2, <1>3, <1>4, <1>5, <1>5a, <1>5b, <1>6, <1>7, <1>8, <1>9, <1>10, <1>11, <1>12, <1>13, <1>14, <1>15, <1>16, <1>17, <1>18, <1>19, <1>20, <1>21, <1>22, <1>23, <1>24, <1>25, <1>26, <1>26a, <1>26b, <1>27, <1>28 DEF Next, Run, Rest

(* What the two steps that end a command and the step that starts one do   *)
(* to the running commands, given that each package is in one place.       *)
LEMMA CommandLeaves ==
    ASSUME TypeOK, NothingLostOrDuplicated, Preempt \/ CompleteCommand
    PROVE  \E p \in Range(running) :
             /\ p \in Packages
             /\ proc' = [proc EXCEPT ![p] = "none"]
             /\ Range(running') = Range(running) \ {p}
             /\ CheckIn(p)
             /\ ~Dying
<1> DEFINE p == running[ri]
<1>1. ri \in Nat \ {0} /\ ri <= Len(running) /\ running \in Seq(Packages)
  BY DEF TypeOK, LoopTypeOK, QueueTypeOK, Preempt, CompleteCommand
<1>2. /\ p \in Range(running) /\ p \in Packages
      /\ Range(RemoveAt(running, ri)) = Range(running) \ {p}
  BY <1>1, Leaves, PartitionFacts
<1>3. /\ proc' = [proc EXCEPT ![p] = "none"]
      /\ running' = RemoveAt(running, ri)
      /\ CheckIn(p)
      /\ ~Dying
  BY DEF Preempt, CompleteCommand, Dying
<1>4. QED
  BY <1>2, <1>3

LEMMA CommandStarts ==
    ASSUME TypeOK, NothingLostOrDuplicated, StartCommand \/ ExecuteFails
    PROVE  \E p \in Packages :
             /\ p \notin Range(running)
             /\ CheckOut(p) /\ IsValidRequest(p)
             /\ ~Dying
             /\ \/ /\ StartCommand
                   /\ proc' = [proc EXCEPT ![p] = "running"]
                   /\ Range(running') = Range(running) \cup {p}
                \/ Dying' /\ running' = running
<1> DEFINE p == queued[qi]
<1>1. /\ qi \in Nat \ {0} /\ qi <= Len(queued)
      /\ queued \in Seq(Packages) /\ running \in Seq(Packages)
  BY DEF TypeOK, LoopTypeOK, QueueTypeOK, StartCommand, ExecuteFails
<1>2. p \in Range(queued) /\ p \in Packages
  BY <1>1, Leaves, PartitionFacts
<1>3. p \notin Range(running)
  BY <1>2, PartitionFacts, PlacesAre
<1>4. CheckOut(p) /\ IsValidRequest(p) /\ ~Dying
  BY DEF StartCommand, ExecuteFails, Dying
<1>5. CASE StartCommand
  <2>1. proc' = [proc EXCEPT ![p] = "running"] /\ running' = Append(running, p)
    BY <1>5 DEF StartCommand
  <2>2. Range(running') = Range(running) \cup {p}
    BY <1>1, <1>2, <2>1, AppendFacts
  <2>3. QED
    BY <1>2, <1>3, <1>4, <1>5, <2>1, <2>2
<1>6. CASE ExecuteFails
  <2>1. Dying' /\ running' = running
    BY <1>6 DEF ExecuteFails, Throw, Dying, stateDB
  <2>2. QED
    BY <1>2, <1>3, <1>4, <2>1
<1>7. QED
  BY <1>5, <1>6

LEMMA NoOrphanInit == Init => NoOrphanProcess
BY DEF Init, NoOrphanProcess, Range

LEMMA NoOrphanNext ==
    TypeOK /\ NothingLostOrDuplicated /\ NoOrphanProcess /\ [Next]_vars => NoOrphanProcess'
<1> SUFFICES ASSUME TypeOK, NothingLostOrDuplicated, NoOrphanProcess, [Next]_vars,
                    ~Dying'
             PROVE  {p \in Packages : proc'[p] # "none"} = Range(running')
  BY DEF NoOrphanProcess
<1>1. CASE Elsewhere
  BY <1>1 DEF Elsewhere, NoOrphanProcess, Range
<1>2. CASE Preempt \/ CompleteCommand
  <2>1. PICK p \in Range(running) :
          /\ p \in Packages
          /\ proc' = [proc EXCEPT ![p] = "none"]
          /\ Range(running') = Range(running) \ {p}
          /\ ~Dying
    BY <1>2, CommandLeaves
  <2>2. QED
    BY <2>1 DEF NoOrphanProcess, TypeOK, PackageTypeOK
<1>3. CASE StartCommand \/ ExecuteFails
  <2>1. PICK p \in Packages :
          /\ proc' = [proc EXCEPT ![p] = "running"]
          /\ Range(running') = Range(running) \cup {p}
          /\ ~Dying
    BY <1>3, CommandStarts
  <2>2. QED
    BY <2>1 DEF NoOrphanProcess, TypeOK, PackageTypeOK
<1>4. QED
  BY <1>1, <1>2, <1>3, Steps DEF Dies

(* ResourcesConserved, said of each resource instead of the sets.          *)
Conserved ==
    /\ \A t \in Types : \A r :
        r \in Inventory[t] <=>
            r \in free[t] \/ \E q \in Packages : ResourceType[q] = t /\ r \in held[q]
    /\ \A p \in Packages : \A t \in Types : held[p] \cap free[t] = {}
    /\ \A p, q \in Packages : p # q => held[p] \cap held[q] = {}
    /\ \A p \in Range(running) : Cardinality(held[p]) = ResourceAmount[p]
    /\ ~Dying => \A p \in Packages : held[p] # {} => p \in Range(running)

LEMMA ConservedMeans == ResourcesConserved <=> Conserved
<1>1. ASSUME NEW t \in Types
      PROVE  free[t] \cup UNION {held[p] : p \in {q \in Packages : ResourceType[q] = t}}
               = Inventory[t]
             <=> \A r : r \in Inventory[t] <=>
                  r \in free[t] \/ \E q \in Packages : ResourceType[q] = t /\ r \in held[q]
  <2> DEFINE U == UNION {held[p] : p \in {q \in Packages : ResourceType[q] = t}}
  <2>1. \A r : r \in U <=> \E q \in Packages : ResourceType[q] = t /\ r \in held[q]
    OBVIOUS
  <2> HIDE DEF U
  <2>2. free[t] \cup U = Inventory[t] <=> \A r : r \in Inventory[t] <=> r \in free[t] \/ r \in U
    BY Zenon
  <2>3. QED
    BY <2>1, <2>2 DEF U
<1>2. QED
  BY <1>1 DEF ResourcesConserved, Conserved

(* Resources are given back.                                               *)
LEMMA Released ==
    ASSUME TypeOK, Conserved, NEW p \in Range(running), p \in Packages, CheckIn(p),
           Range(running') = Range(running) \ {p}, ~Dying
    PROVE  Conserved'
<1>1. /\ \A t \in Types : free'[t] = IF t = ResourceType[p] THEN free[t] \cup held[p] ELSE free[t]
      /\ held'[p] = {}
      /\ \A q \in Packages : q # p => held'[q] = held[q]
  BY DEF CheckIn, TypeOK, ResourceTypeOK
<1>2. ASSUME NEW t \in Types, NEW r
      PROVE  r \in Inventory[t] <=>
               r \in free'[t] \/ \E q \in Packages : ResourceType[q] = t /\ r \in held'[q]
  <2>1. r \in Inventory[t] <=>
          r \in free[t] \/ \E q \in Packages : ResourceType[q] = t /\ r \in held[q]
    BY DEF Conserved
  <2>2. CASE t = ResourceType[p]
    BY <1>1, <2>1, <2>2
  <2>3. CASE t # ResourceType[p]
    BY <1>1, <2>1, <2>3
  <2>4. QED
    BY <2>2, <2>3
<1>3. \A q \in Packages : \A t \in Types : held'[q] \cap free'[t] = {}
  BY <1>1 DEF Conserved
<1>4. \A q, q2 \in Packages : q # q2 => held'[q] \cap held'[q2] = {}
  BY <1>1 DEF Conserved
<1>5. \A q \in Range(running') : Cardinality(held'[q]) = ResourceAmount[q]
  <2>1. \A q \in Range(running) : q \in Packages
    BY ElementOfSeq DEF TypeOK, QueueTypeOK, Range
  <2>2. QED
    BY <1>1, <2>1 DEF Conserved
<1>6. \A q \in Packages : held'[q] # {} => q \in Range(running')
  BY <1>1 DEF Conserved
<1>7. QED
  BY <1>2, <1>3, <1>4, <1>5, <1>6 DEF Conserved

(* Resources are handed out, to a command that has none.                   *)
LEMMA Granted ==
    ASSUME TypeOK, Conserved, NEW p \in Packages, p \notin Range(running),
           CheckOut(p), IsValidRequest(p), ~Dying,
           \/ Range(running') = Range(running) \cup {p}
           \/ Dying' /\ running' = running
    PROVE  Conserved'
<1>1. PICK s \in SUBSET free[ResourceType[p]] :
        /\ Cardinality(s) = ResourceAmount[p]
        /\ free' = [free EXCEPT ![ResourceType[p]] = @ \ s]
        /\ held' = [held EXCEPT ![p] = s]
  BY DEF CheckOut
<1>2. /\ ResourceType[p] \in Types
      /\ \A t \in Types : free'[t] = IF t = ResourceType[p] THEN free[t] \ s ELSE free[t]
      /\ held'[p] = s
      /\ \A q \in Packages : q # p => held'[q] = held[q]
  BY <1>1 DEF IsValidRequest, TypeOK, ResourceTypeOK
<1>3. held[p] = {}
  BY DEF Conserved
<1>4. \A t \in Types : t # ResourceType[p] => s \cap free[t] = {}
  <2>1. \A t \in Types : free[t] \subseteq Inventory[t]
    BY DEF Conserved
  <2>2. QED
    BY <1>1, <1>2, <2>1, InventoryAssumption
<1>5. ASSUME NEW t \in Types, NEW r
      PROVE  r \in Inventory[t] <=>
               r \in free'[t] \/ \E q \in Packages : ResourceType[q] = t /\ r \in held'[q]
  <2>1. r \in Inventory[t] <=>
          r \in free[t] \/ \E q \in Packages : ResourceType[q] = t /\ r \in held[q]
    BY DEF Conserved
  <2>2. CASE t = ResourceType[p]
    BY <1>1, <1>2, <1>3, <2>1, <2>2
  <2>3. CASE t # ResourceType[p]
    BY <1>2, <1>3, <2>1, <2>3
  <2>4. QED
    BY <2>2, <2>3
<1>6. \A q \in Packages : \A t \in Types : held'[q] \cap free'[t] = {}
  BY <1>1, <1>2, <1>4 DEF Conserved
<1>7. \A q, q2 \in Packages : q # q2 => held'[q] \cap held'[q2] = {}
  BY <1>1, <1>2 DEF Conserved
<1>8. \A q \in Range(running') : Cardinality(held'[q]) = ResourceAmount[q]
  <2>1. \A q \in Range(running) : q \in Packages
    BY ElementOfSeq DEF TypeOK, QueueTypeOK, Range
  <2>2. QED
    BY <1>1, <1>2, <2>1 DEF Conserved
<1>9. ~Dying' => \A q \in Packages : held'[q] # {} => q \in Range(running')
  BY <1>2 DEF Conserved
<1>10. QED
  BY <1>5, <1>6, <1>7, <1>8, <1>9 DEF Conserved

LEMMA ConservedInit == Init => Conserved
<1> SUFFICES ASSUME Init PROVE Conserved
  OBVIOUS
<1>1. free = Inventory /\ Range(running) = {} /\ \A p \in Packages : held[p] = {}
  BY DEF Init, Range
<1>2. QED
  BY <1>1 DEF Conserved

LEMMA ConservedNext ==
    TypeOK /\ NothingLostOrDuplicated /\ Conserved /\ [Next]_vars => Conserved'
<1> SUFFICES ASSUME TypeOK, NothingLostOrDuplicated, Conserved, [Next]_vars PROVE Conserved'
  OBVIOUS
<1>1. CASE Elsewhere \/ Dies
  BY <1>1 DEF Elsewhere, Dies, Conserved
<1>2. CASE Preempt \/ CompleteCommand
  BY <1>2, CommandLeaves, Released
<1>3. CASE StartCommand \/ ExecuteFails
  BY <1>3, CommandStarts, Granted
<1>4. QED
  BY <1>1, <1>2, <1>3, Steps

(* A resource is free or held by exactly one running command, whatever is  *)
(* started, preempted, completed, or fails to start.                       *)
THEOREM ResourcesAreConserved == Spec => []ResourcesConserved
<1> DEFINE Inv == TypeOK /\ PhaseInv /\ NothingLostOrDuplicated /\ Conserved
<1>1. Init => Inv
  BY TypeInit, PhaseInit, PartitionInit, ConservedInit
<1>2. Inv /\ [Next]_vars => Inv'
  BY TypeNext, PhaseNext, PartitionNext, ConservedNext
<1>3. Inv => ResourcesConserved
  BY ConservedMeans
<1>4. QED
  BY <1>1, <1>2, <1>3, PTL DEF Spec

(* No process outlives its command: what a preempted or a completed        *)
(* command was running on is idle when the next command gets it.           *)
THEOREM NoProcessIsOrphaned == Spec => []NoOrphanProcess
<1> DEFINE Inv == TypeOK /\ PhaseInv /\ NothingLostOrDuplicated /\ NoOrphanProcess
<1>1. Init => Inv
  BY TypeInit, PhaseInit, PartitionInit, NoOrphanInit
<1>2. Inv /\ [Next]_vars => Inv'
  BY TypeNext, PhaseNext, PartitionNext, NoOrphanNext
<1>3. Inv => NoOrphanProcess
  OBVIOUS
<1>4. QED
  BY <1>1, <1>2, <1>3, PTL DEF Spec

-----------------------------------------------------------------------------
(* The order of the queue, and who is started *)

LEMMA PriorityType == Priority \in [Packages -> Nat]
BY PackagesAssumption DEF SPECULATIVE, HIGHEST

(* scheduleCommands sorts what it leaves.                                  *)
LEMMA ScheduleSorts ==
    ASSUME TypeOK, QueueSorted, NEW new \in Seq(Packages), Schedule(new)
    PROVE  QueueSorted'
<1>1. queued \in Seq(Packages) /\ Priority \in [Packages -> Nat]
  BY PriorityType DEF TypeOK, QueueTypeOK
<1>2. CASE new = <<>>
  BY <1>2 DEF Schedule, QueueSorted
<1>3. CASE new # <<>>
  <2> DEFINE s == queued \o new
  <2>1. queued' \in StableSorts(s)
    BY <1>3 DEF Schedule
  <2>2. s \in Seq(Packages)
    BY <1>1, ConcatFacts
  <2> HIDE DEF s
  <2>3. PICK f \in Bijection(DOMAIN s, DOMAIN s) :
          /\ queued' = [i \in DOMAIN s |-> s[f[i]]]
          /\ \A i, j \in DOMAIN s : i < j =>
                \/ Priority[s[f[i]]] > Priority[s[f[j]]]
                \/ Priority[s[f[i]]] = Priority[s[f[j]]] /\ f[i] < f[j]
    BY <2>1 DEF StableSorts
  <2>4. \A i \in DOMAIN s : f[i] \in DOMAIN s /\ s[f[i]] \in Packages /\ Priority[s[f[i]]] \in Nat
    <3>1. f \in [DOMAIN s -> DOMAIN s]
      BY DEF Bijection, Injection
    <3>2. ASSUME NEW i \in DOMAIN s
          PROVE  f[i] \in DOMAIN s /\ s[f[i]] \in Packages /\ Priority[s[f[i]]] \in Nat
      <4>1. f[i] \in DOMAIN s /\ DOMAIN s = 1 .. Len(s)
        BY <2>2, <3>1
      <4>2. s[f[i]] \in Packages
        BY <2>2, <4>1, ElementOfSeq
      <4>3. QED
        BY <1>1, <4>1, <4>2
    <3>3. QED
      BY <3>2
  <2>5. ASSUME NEW i \in DOMAIN queued', NEW j \in DOMAIN queued', i < j
        PROVE  Priority[queued'[i]] >= Priority[queued'[j]]
    <3>1. DOMAIN queued' = DOMAIN s
      BY <2>3
    <3>2. queued'[i] = s[f[i]] /\ queued'[j] = s[f[j]]
      BY <2>3, <3>1
    <3>3. \/ Priority[s[f[i]]] > Priority[s[f[j]]]
          \/ Priority[s[f[i]]] = Priority[s[f[j]]]
      BY <2>3, <2>5, <3>1
    <3>4. Priority[s[f[i]]] \in Nat /\ Priority[s[f[j]]] \in Nat
      BY <2>4, <3>1
    <3>5. QED
      BY <3>2, <3>3, <3>4
  <2>6. QED
    BY <2>5 DEF QueueSorted
<1>4. QED
  BY <1>2, <1>3

(* A queue without one of its commands is in order as it was.              *)
LEMMA RemovalKeepsOrder ==
    ASSUME TypeOK, qi <= Len(queued), queued' = RemoveAt(queued, qi)
    PROVE  /\ QueueSorted => QueueSorted'
           /\ \A i \in DOMAIN queued' : i < qi => i \in DOMAIN queued /\ queued'[i] = queued[i]
<1>1. queued \in Seq(Packages) /\ qi \in 1 .. Len(queued)
  BY DEF TypeOK, QueueTypeOK, LoopTypeOK
<1>2. /\ queued' \in Seq(Packages) /\ Len(queued') = Len(queued) - 1
      /\ \A j \in 1 .. Len(queued) - 1 :
            queued'[j] = IF j < qi THEN queued[j] ELSE queued[j + 1]
  <2> DEFINE i == qi
             r == RemoveAt(queued, i)
  <2>1. i \in 1 .. Len(queued) /\ queued' = r
    BY <1>1
  <2>2. /\ r \in Seq(Packages) /\ Len(r) = Len(queued) - 1
        /\ \A j \in 1 .. Len(queued) - 1 : r[j] = IF j < i THEN queued[j] ELSE queued[j + 1]
    <3>1. queued \in Seq(Packages) /\ i \in 1 .. Len(queued)
      BY <1>1
    <3> HIDE DEF i
    <3>2. QED
      BY <3>1, RemoveAtFacts
  <2> HIDE DEF r
  <2>3. QED
    BY <2>1, <2>2
<1>3. DOMAIN queued = 1 .. Len(queued) /\ DOMAIN queued' = 1 .. Len(queued) - 1
      /\ Len(queued) \in Nat
  BY <1>1, <1>2
<1> DEFINE from(j) == IF j < qi THEN j ELSE j + 1
<1>4. \A j \in DOMAIN queued' : from(j) \in DOMAIN queued /\ queued'[j] = queued[from(j)]
  <2>1. ASSUME NEW j \in DOMAIN queued'
        PROVE  from(j) \in DOMAIN queued /\ queued'[j] = queued[from(j)]
    <3>1. j \in 1 .. Len(queued) - 1
      BY <1>3
    <3>2. from(j) \in DOMAIN queued
      BY <1>1, <1>3, <3>1
    <3>3. queued'[j] = IF j < qi THEN queued[j] ELSE queued[j + 1]
      BY <1>2, <3>1
    <3>4. QED
      BY <3>2, <3>3
  <2>2. QED
    BY <2>1
<1>5. \A i, j \in DOMAIN queued' : i < j => from(i) < from(j)
  BY <1>1, <1>3
<1>6. QueueSorted =>
        \A i, j \in DOMAIN queued' : i < j => Priority[queued'[i]] >= Priority[queued'[j]]
  <2> HIDE DEF from
  <2>1. QED
    BY <1>4, <1>5 DEF QueueSorted
<1>7. QED
  BY <1>1, <1>3, <1>4, <1>6 DEF QueueSorted

(* What a step does to the queue: new commands are sorted into it, one is  *)
(* put at its end that is of the lowest priority, or one is taken out.     *)
LEMMA QueueSteps ==
    ASSUME TypeOK, [Next]_vars
    PROVE  UNCHANGED queued \/ CreateCommands \/ RetryFailed \/ Preempt \/ StartCommand
<1> USE DEF client, iterators, locals, stateDB, resources, packages
<1>1. ASSUME NEW p \in Packages, Send(p) \/ ProcessExit(p) PROVE UNCHANGED queued
  BY <1>1 DEF Send, ProcessExit
<1>2. CASE Disconnect \/ ReceivePackages \/ ReceiveNothing \/ StillConnected \/ ReceiveTermination \/ Exit
  BY <1>2 DEF Disconnect, ReceivePackages, ReceiveNothing, StillConnected, ReceiveTermination, Exit
<1>3. CASE CreateFails \/ ProcessQueue \/ KeepRegular \/ EndPreempt
  BY <1>3 DEF CreateFails, ProcessQueue, KeepRegular, EndPreempt
<1>4. CASE ExecuteFails \/ SkipCommand \/ EndStart \/ RejectCommand
  BY <1>4 DEF ExecuteFails, SkipCommand, EndStart, RejectCommand
<1>5. CASE BeginMonitor \/ StillRunning \/ CompleteCommand \/ CommandError \/ EndMonitor
  BY <1>5 DEF BeginMonitor, StillRunning, CompleteCommand, CommandError, EndMonitor
<1>6. CASE AcceptOutput \/ IgnoreFailure \/ RecordFailure \/ GiveUp \/ EndFilter
  BY <1>6 DEF AcceptOutput, IgnoreFailure, RecordFailure, GiveUp, EndFilter
<1>7. CASE Ship \/ ShipKills \/ ShipThrows \/ EndShip \/ HandleException
  BY <1>7 DEF Ship, ShipKills, ShipThrows, EndShip, HandleException
<1>8. CASE UNCHANGED vars
  BY <1>8 DEF vars
<1>9. QED
  BY <1>1, <1>2, <1>3, <1>4, <1>5, <1>6, <1>7, <1>8 DEF Next, Run, Rest

LEMMA SortedInit == Init => QueueSorted
BY DEF Init, QueueSorted

LEMMA SortedNext == TypeOK /\ QueueSorted /\ [Next]_vars => QueueSorted'
<1> SUFFICES ASSUME TypeOK, QueueSorted, [Next]_vars PROVE QueueSorted'
  OBVIOUS
<1>1. CASE UNCHANGED queued
  BY <1>1 DEF QueueSorted
<1>2. CASE CreateCommands
  <2>1. received \in Seq(Packages) /\ Schedule(received)
    BY <1>2 DEF TypeOK, LoopTypeOK, CreateCommands
  <2>2. QED
    BY <2>1, ScheduleSorts
<1>3. CASE RetryFailed
  <2>1. failed \in Seq(Packages) /\ Schedule(failed)
    BY <1>3 DEF TypeOK, LoopTypeOK, RetryFailed
  <2>2. QED
    BY <2>1, ScheduleSorts
<1>4. CASE Preempt
  <2>1. /\ queued \in Seq(Packages) /\ running \in Seq(Packages) /\ ri \in 1 .. Len(running)
        /\ queued' = Append(queued, running[ri]) /\ Priority[running[ri]] = 0
    BY <1>4 DEF TypeOK, QueueTypeOK, LoopTypeOK, Preempt, SPECULATIVE
  <2>2. running[ri] \in Packages
    BY <2>1, ElementOfSeq
  <2>3. Priority \in [Packages -> Nat]
    BY PriorityType
  <2> DEFINE p == running[ri]
  <2> HIDE DEF p
  <2>4. p \in Packages /\ queued' = Append(queued, p) /\ Priority[p] = 0
    BY <2>1, <2>2 DEF p
  <2>5. /\ DOMAIN queued' = 1 .. Len(queued) + 1 /\ DOMAIN queued = 1 .. Len(queued)
        /\ Len(queued) \in Nat
        /\ queued'[Len(queued) + 1] = p
        /\ \A i \in 1 .. Len(queued) : queued'[i] = queued[i]
    BY <2>1, <2>4
  <2>6. ASSUME NEW i \in DOMAIN queued', NEW j \in DOMAIN queued', i < j
        PROVE  Priority[queued'[i]] >= Priority[queued'[j]]
    <3>1. i \in 1 .. Len(queued) /\ queued'[i] = queued[i] /\ queued[i] \in Packages
      BY <2>1, <2>5, <2>6, ElementOfSeq
    <3>2. CASE j = Len(queued) + 1
      BY <2>3, <2>4, <2>5, <3>1, <3>2
    <3>3. CASE j # Len(queued) + 1
      <4>1. j \in 1 .. Len(queued) /\ queued'[j] = queued[j]
        BY <2>5, <3>3
      <4>2. QED
        BY <2>5, <2>6, <3>1, <4>1 DEF QueueSorted
    <3>4. QED
      BY <3>2, <3>3
  <2>7. QED
    BY <2>6 DEF QueueSorted
<1>5. CASE StartCommand
  BY <1>5, RemovalKeepsOrder DEF StartCommand
<1>6. QED
  BY <1>1, <1>2, <1>3, <1>4, <1>5, QueueSteps

(* The queue is in order of priority whenever the scheduler walks it: what *)
(* is sorted in stays sorted, and a preempted command, put at the end, is  *)
(* of the lowest priority.                                                 *)
THEOREM QueueStaysSorted == Spec => []QueueSorted
<1>1. Init => TypeOK /\ QueueSorted
  BY TypeInit, SortedInit
<1>2. (TypeOK /\ QueueSorted) /\ [Next]_vars => (TypeOK /\ QueueSorted)'
  BY TypeNext, SortedNext
<1>3. QED
  BY <1>1, <1>2, PTL DEF Spec

(* Where the walk through the queue has got to: it starts from the front,  *)
(* and what it has passed over does not fit into what is free now.         *)
WalkInv ==
    /\ pc \notin {"preempt", "start", "handler", "failed"} => qi = 1
    /\ pc = "start" =>
         \A i \in DOMAIN queued : i < qi => IsValidRequest(queued[i]) /\ ~Fits(queued[i])

(* Of two finite sets the one within the other is not larger, so what did  *)
(* not fit does not fit either when a command has been given its share.    *)
LEMMA NothingFitsAnew ==
    ASSUME TypeOK, Conserved, NEW p \in Packages, CheckOut(p), ResourceType[p] \in Types,
           NEW q, IsValidRequest(q), ResourceAmount[q] \in Int, ~Fits(q)
    PROVE  ~Fits(q)'
<1> DEFINE t == ResourceType[q]
<1>1. t \in Types
  BY DEF IsValidRequest
<1>2. IsFiniteSet(free[t])
  <2>1. free[t] \subseteq Inventory[t] /\ IsFiniteSet(Inventory[t])
    BY <1>1, InventoryAssumption DEF Conserved
  <2>2. QED
    BY <2>1, FS_Subset
<1>3. free'[t] \subseteq free[t]
  <2>1. PICK s \in SUBSET free[ResourceType[p]] :
          free' = [free EXCEPT ![ResourceType[p]] = @ \ s]
    BY DEF CheckOut
  <2>2. QED
    BY <1>1, <2>1 DEF TypeOK, ResourceTypeOK
<1>4. Cardinality(free'[t]) <= Cardinality(free[t])
      /\ Cardinality(free[t]) \in Nat /\ Cardinality(free'[t]) \in Nat
  BY <1>2, <1>3, FS_Subset, FS_CardinalityType
<1>5. QED
  BY <1>4 DEF Fits

LEMMA WalkInit == Init => WalkInv
BY DEF Init, WalkInv

LEMMA WalkNext == TypeOK /\ Conserved /\ WalkInv /\ [Next]_vars => WalkInv'
<1> SUFFICES ASSUME TypeOK, Conserved, WalkInv, [Next]_vars PROVE WalkInv'
  OBVIOUS
<1> USE DEF client, iterators, locals, stateDB, resources, packages, Throw
<1>a. ASSUME qi' = 1, pc' # "start" PROVE WalkInv'
  BY <1>a DEF WalkInv
<1>b. ASSUME UNCHANGED <<pc, qi, queued, free>> PROVE WalkInv'
  BY <1>b DEF WalkInv, Fits, IsValidRequest, Total
<1>c. ASSUME pc' \in {"handler", "failed"} PROVE WalkInv'
  BY <1>c DEF WalkInv
<1>d. ASSUME pc # "start", UNCHANGED <<pc, qi>> PROVE WalkInv'
  BY <1>d DEF WalkInv
<1>e. ReturnToRun => qi' = 1 /\ pc' # "start"
  BY ReturnType
<1>1. ASSUME NEW p \in Packages, Send(p) \/ ProcessExit(p) PROVE WalkInv'
  BY <1>1, <1>b DEF Send, ProcessExit
<1>2. CASE Disconnect
  BY <1>2, <1>b DEF Disconnect
<1>3. CASE ReceivePackages \/ ReceiveNothing \/ StillConnected \/ ReceiveTermination \/ Exit
  BY <1>3, <1>a DEF ReceivePackages, ReceiveNothing, StillConnected, ReceiveTermination, Exit, WalkInv
<1>4. CASE CreateCommands \/ RetryFailed
  BY <1>4, <1>a DEF CreateCommands, RetryFailed, WalkInv
<1>5. CASE ProcessQueue
  <2>1. qi = 1
    BY <1>5 DEF ProcessQueue, WalkInv
  <2>2. CASE ReturnToRun
    BY <2>2, <1>a, <1>e
  <2>3. CASE pc' = "preempt"
    BY <2>3 DEF WalkInv
  <2>4. CASE pc' = "start" /\ UNCHANGED <<qi, queued>>
    <3>1. ~\E i \in DOMAIN queued' : i < qi'
      BY <2>1, <2>4 DEF TypeOK, QueueTypeOK
    <3>2. QED
      BY <2>4, <3>1 DEF WalkInv
  <2>5. QED
    BY <1>5, <2>2, <2>3, <2>4 DEF ProcessQueue
<1>6. CASE KeepRegular
  BY <1>6, <1>d DEF KeepRegular
<1>7. CASE Preempt
  <2>1. CASE ReturnToRun
    BY <2>1, <1>a, <1>e
  <2>2. CASE UNCHANGED pc
    BY <2>2, <1>7 DEF Preempt, WalkInv
  <2>3. QED
    BY <1>7, <2>1, <2>2 DEF Preempt
<1>8. CASE EndPreempt \/ EndStart
  BY <1>8, <1>a, <1>e DEF EndPreempt, EndStart
<1>9. CASE StartCommand
  <2>1. CASE ReturnToRun
    BY <2>1, <1>a, <1>e
  <2>2. CASE UNCHANGED <<pc, qi>>
    <3>1. /\ queued \in Seq(Packages) /\ qi \in 1 .. Len(queued) /\ pc = "start"
          /\ IsValidRequest(queued[qi]) /\ CheckOut(queued[qi])
      BY <1>9 DEF StartCommand, TypeOK, QueueTypeOK, LoopTypeOK
    <3>2. PICK p \in Packages : p = queued[qi]
      BY <3>1, ElementOfSeq
    <3>3. p \in Packages /\ CheckOut(p) /\ ResourceType[p] \in Types
      BY <3>1, <3>2 DEF IsValidRequest
    <3>4. queued' = RemoveAt(queued, qi)
      BY <1>9 DEF StartCommand
    <3>5. ASSUME NEW i \in DOMAIN queued', i < qi
          PROVE  IsValidRequest(queued'[i]) /\ ~Fits(queued[i])' /\ queued'[i] = queued[i]
      <4>1. i \in DOMAIN queued /\ queued'[i] = queued[i]
        BY <3>1, <3>4, <3>5, RemovalKeepsOrder
      <4>2. PICK q \in Packages : q = queued[i] /\ q = queued'[i]
        BY <3>1, <4>1, ElementOfSeq
      <4>3. IsValidRequest(q) /\ ~Fits(q) /\ ResourceAmount[q] \in Int
        BY <3>1, <3>5, <4>1, <4>2, PackagesAssumption DEF WalkInv
      <4>4. ~Fits(q)'
        BY <3>3, <4>3, NothingFitsAnew
      <4>5. QED
        BY <4>1, <4>2, <4>3, <4>4 DEF Fits
    <3>6. QED
      BY <2>2, <3>1, <3>5 DEF WalkInv, Fits, IsValidRequest, Total
  <2>3. QED
    BY <1>9, <2>1, <2>2 DEF StartCommand
<1>10. CASE SkipCommand
  <2>1. /\ queued \in Seq(Packages) /\ qi \in 1 .. Len(queued) /\ pc = "start" /\ pc' = "start"
        /\ IsValidRequest(queued[qi]) /\ ~Fits(queued[qi]) /\ qi' = qi + 1
        /\ UNCHANGED <<queued, free>>
    BY <1>10 DEF SkipCommand, TypeOK, QueueTypeOK, LoopTypeOK
  <2>2. ASSUME NEW i \in DOMAIN queued, i < qi'
        PROVE  IsValidRequest(queued[i]) /\ ~Fits(queued[i])
    <3>1. i < qi \/ i = qi
      BY <2>1, <2>2
    <3>2. QED
      BY <2>1, <3>1 DEF WalkInv
  <2>3. QED
    BY <2>1, <2>2 DEF WalkInv, Fits, IsValidRequest, Total
<1>11. CASE CreateFails \/ ExecuteFails \/ RejectCommand \/ CommandError \/ GiveUp
  BY <1>11, <1>c DEF CreateFails, ExecuteFails, RejectCommand, CommandError, GiveUp
<1>12. CASE ShipKills \/ ShipThrows \/ HandleException
  BY <1>12, <1>c DEF ShipKills, ShipThrows, HandleException
<1>13. CASE BeginMonitor \/ EndMonitor
  BY <1>13, <1>a DEF BeginMonitor, EndMonitor, WalkInv
<1>14. CASE StillRunning \/ CompleteCommand
  BY <1>14, <1>d DEF StillRunning, CompleteCommand
<1>15. CASE AcceptOutput \/ IgnoreFailure \/ RecordFailure
  BY <1>15, <1>d DEF AcceptOutput, IgnoreFailure, RecordFailure
<1>16. CASE EndFilter \/ EndShip
  BY <1>16, <1>a DEF EndFilter, EndShip, WalkInv
<1>17. CASE Ship
  BY <1>17, <1>d DEF Ship
<1>18. CASE UNCHANGED vars
  BY <1>18, <1>b DEF vars
<1>19. QED
  BY <1>1, <1>2, <1>3, <1>4, <1>5, <1>6, <1>7, <1>8, <1>9, <1>10, <1>11, <1>12, <1>13, <1>14, <1>15, <1>16, <1>17, <1>18 DEF Next, Run, Rest

(* A command that starts is the one the walk is at; the commands of higher *)
(* priority are in front of it and have been passed over.                  *)
LEMMA NobodyOvertakes ==
    ASSUME TypeOK, NothingLostOrDuplicated, QueueSorted, WalkInv, [Next]_vars,
           NEW p \in Range(queued), p \in Range(running'),
           NEW q \in Range(queued), Priority[q] > Priority[p]
    PROVE  ~Fits(q)
<1>1. p \in Packages /\ p \notin Range(running)
  <2>1. p \in Packages
    BY ElementOfSeq DEF TypeOK, QueueTypeOK, Range
  <2>2. Range(queued) \cap Range(running) = {}
    BY PlacesAre DEF NothingLostOrDuplicated, IsPartition
  <2>3. QED
    BY <2>1, <2>2
<1>2. StartCommand
  <2>1. CASE Elsewhere \/ Dies
    BY <1>1, <2>1 DEF Elsewhere, Dies
  <2>2. CASE Preempt \/ CompleteCommand
    BY <1>1, <2>2, CommandLeaves
  <2>3. CASE ExecuteFails
    BY <1>1, <2>3 DEF ExecuteFails, stateDB
  <2>4. QED
    BY <2>1, <2>2, <2>3, Steps
<1>3. /\ queued \in Seq(Packages) /\ qi \in 1 .. Len(queued) /\ pc = "start"
      /\ running \in Seq(Packages) /\ running' = Append(running, queued[qi])
  BY <1>2 DEF StartCommand, TypeOK, QueueTypeOK, LoopTypeOK
<1>4. queued[qi] \in Packages
  BY <1>3, ElementOfSeq
<1>5. p = queued[qi]
  <2>1. Range(Append(running, queued[qi])) = Range(running) \cup {queued[qi]}
    BY <1>3, <1>4, AppendFacts
  <2>2. QED
    BY <1>1, <1>3, <2>1
<1>6. PICK k \in DOMAIN queued : q = queued[k]
  BY DEF Range
<1>7. qi \in DOMAIN queued /\ k \in Nat /\ qi \in Nat
  BY <1>3
<1>8. Priority[p] \in Nat /\ Priority[q] \in Nat
  BY <1>1, <1>3, <1>6, PriorityType, ElementOfSeq
<1>9. k < qi
  <2>1. qi < k => Priority[p] >= Priority[q]
    BY <1>5, <1>6, <1>7 DEF QueueSorted
  <2>2. qi # k
    BY <1>5, <1>6, <1>8
  <2>3. QED
    BY <1>7, <1>8, <2>1, <2>2
<1>10. QED
  BY <1>3, <1>6, <1>9 DEF WalkInv

(* No command is started while one of higher priority is queued that would *)
(* have fitted into what was free.                                         *)
THEOREM PrioritiesAreNotInverted == Spec => NoPriorityInversion
<1> DEFINE Inv == TypeOK /\ PhaseInv /\ NothingLostOrDuplicated /\ Conserved /\ QueueSorted /\ WalkInv
<1>1. Init => Inv
  BY TypeInit, PhaseInit, PartitionInit, ConservedInit, SortedInit, WalkInit
<1>2. Inv /\ [Next]_vars => Inv'
  BY TypeNext, PhaseNext, PartitionNext, ConservedNext, SortedNext, WalkNext
<1>3. Inv /\ [Next]_vars =>
        [\A p \in Range(queued) : p \in Range(running') =>
             \A q \in Range(queued) : Priority[q] > Priority[p] => ~Fits(q)]_vars
  BY NobodyOvertakes
<1>4. QED
  BY <1>1, <1>2, <1>3, PTL DEF Spec, NoPriorityInversion
=============================================================================
