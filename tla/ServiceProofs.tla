---------------------------- MODULE ServiceProofs ----------------------------
(* Broker implements EvaluationService: what its client is promised holds  *)
(* for every set of packages, every machine and every fault.               *)
EXTENDS BrokerProofs

-----------------------------------------------------------------------------
(* The steps that a client, or the service it uses, can notice             *)

(* A step that neither sends, evaluates nor ships anything; once the loop  *)
(* has ended it stays ended.                                               *)
Quiet ==
    /\ UNCHANGED <<unsent, finished, outbox, evals, value>>
    /\ Dying => Dying'
    /\ ~Serving => ~Serving'

LEMMA NoticedSteps ==
    ASSUME TypeOK, [Next]_vars
    PROVE  \/ Quiet
           \/ \E p \in Packages : Send(p)
           \/ AcceptOutput \/ IgnoreFailure \/ RecordFailure \/ GiveUp
           \/ Ship
<1> USE DEF Quiet, Serving, Stopped, Dying, Throw
<1>1. ASSUME NEW p \in Packages, ProcessExit(p) PROVE Quiet
  BY <1>1 DEF ProcessExit, client, locals
<1>2. CASE Disconnect
  BY <1>2 DEF Disconnect, locals, packages
<1>3. CASE ReceivePackages \/ ReceiveNothing \/ StillConnected \/ ReceiveTermination \/ Exit
  BY <1>3 DEF ReceivePackages, ReceiveNothing, StillConnected, ReceiveTermination, Exit, client, locals, packages
<1>4. CASE CreateCommands \/ RetryFailed \/ CreateFails
  BY <1>4 DEF CreateCommands, RetryFailed, CreateFails, client, locals, packages
<1>5. CASE ProcessQueue \/ KeepRegular \/ SkipCommand \/ RejectCommand
  BY <1>5 DEF ProcessQueue, KeepRegular, SkipCommand, RejectCommand, client, locals, packages
<1>6. CASE Preempt
  BY <1>6 DEF Preempt, client, locals
<1>7. CASE EndPreempt \/ EndStart
  BY <1>7 DEF EndPreempt, EndStart, client, locals, packages
<1>8. CASE StartCommand
  BY <1>8 DEF StartCommand, client, locals
<1>9. CASE ExecuteFails
  BY <1>9 DEF ExecuteFails, client, locals, packages
<1>10. CASE BeginMonitor \/ StillRunning \/ EndMonitor
  BY <1>10 DEF BeginMonitor, StillRunning, EndMonitor, client, locals, packages
<1>11. CASE CompleteCommand \/ CommandError
  BY <1>11 DEF CompleteCommand, CommandError, client, locals
<1>12. CASE EndFilter \/ ShipKills \/ EndShip
  BY <1>12 DEF EndFilter, ShipKills, EndShip, client, locals, packages
<1>13. CASE ShipThrows \/ HandleException
  BY <1>13 DEF ShipThrows, HandleException, locals, packages
<1>14. CASE UNCHANGED vars
  BY <1>14 DEF vars, client, locals, packages
<1>15. QED
  BY <1>1, <1>2, <1>3, <1>4, <1>5, <1>6, <1>7, <1>8, <1>9, <1>10, <1>11, <1>12, <1>13, <1>14 DEF Next, Run, Rest

-----------------------------------------------------------------------------
(* Answers and evaluations *)

(* Only an answer has a value, and a speculative package without one has   *)
(* not been evaluated.                                                     *)
OnlyAnswersHaveValues ==
    \A p \in Packages :
        /\ value[p] # "none" => p \in Range(finished) \cup Range(outbox)
        /\ value[p] = "none" /\ Priority[p] = SPECULATIVE => evals[p] = 0

AnswersInv == AnswersCarryValues /\ EvaluationsBounded /\ OnlyAnswersHaveValues

(* Before the filter is applied to the command at ci its package has no    *)
(* value, and has evaluations left.                                        *)
LEMMA AtFilter ==
    ASSUME TypeOK, NothingLostOrDuplicated, AnswersInv,
           pc = "filter", ci <= Len(completed)
    PROVE  /\ completed[ci] \in Packages \ unsent
           /\ completed[ci] \notin Range(finished) \cup Range(outbox)
           /\ value[completed[ci]] = "none"
           /\ evals[completed[ci]] \in 0 .. MaxEvaluations
<1> DEFINE p == completed[ci]
<1>1. completed \in Seq(Packages) /\ ci \in 1 .. Len(completed) + 1 /\ evals \in [Packages -> Nat]
  BY DEF TypeOK, LoopTypeOK, QueueTypeOK, PackageTypeOK
<1>2. /\ Pending \in Seq(Packages) /\ Pending # <<>> /\ Head(Pending) = p
  BY <1>1, SuffixFacts DEF Pending
<1>3. p \in Packages /\ p \in Range(Pending)
  BY <1>2, TailFacts, PartitionFacts
<1>4. p \notin unsent /\ p \notin Range(finished) /\ p \notin Range(outbox)
  BY <1>3, PartitionFacts, PlacesAre
<1>5. value[p] = "none"
  BY <1>3, <1>4 DEF AnswersInv, OnlyAnswersHaveValues
<1>6. evals[p] \in Nat /\ evals[p] <= MaxEvaluations + 1 /\ evals[p] # MaxEvaluations + 1
  BY <1>1, <1>3, <1>5 DEF AnswersInv, EvaluationsBounded, Dying
<1>7. QED
  BY <1>3, <1>4, <1>5, <1>6, SchedulerAssumption

LEMMA AnswersInit == Init => AnswersInv
<1> SUFFICES ASSUME Init PROVE AnswersInv
  OBVIOUS
<1>1. Range(finished) = {} /\ Range(outbox) = {}
  BY DEF Init, Range
<1>2. \A p \in Packages : evals[p] = 0 /\ value[p] = "none"
  BY DEF Init
<1>3. 0 <= MaxEvaluations + 1 /\ 0 # MaxEvaluations + 1
  BY SchedulerAssumption
<1>4. QED
  BY <1>1, <1>2, <1>3 DEF AnswersInv, AnswersCarryValues, EvaluationsBounded, OnlyAnswersHaveValues

LEMMA AnswersNext ==
    TypeOK /\ NothingLostOrDuplicated /\ AnswersInv /\ [Next]_vars => AnswersInv'
<1> SUFFICES ASSUME TypeOK, NothingLostOrDuplicated, AnswersInv, [Next]_vars
             PROVE  AnswersInv'
  OBVIOUS
<1> DEFINE p == completed[ci]
<1> USE DEF AnswersInv, AnswersCarryValues, EvaluationsBounded, OnlyAnswersHaveValues
<1>a. /\ finished \in Seq(Packages) /\ outbox \in Seq(Packages)
      /\ evals \in [Packages -> Nat]
      /\ value \in [Packages -> {"none", "value", "empty"}]
      /\ MaxEvaluations \in Nat
  BY SchedulerAssumption DEF TypeOK, ClientTypeOK, LoopTypeOK, PackageTypeOK
<1>b. \A q \in Range(finished) \cup Range(outbox) : q \in Packages
  BY <1>a DEF Range
<1>1. CASE Quiet
  BY <1>1, <1>b DEF Quiet
<1>2. ASSUME NEW q \in Packages, Send(q) PROVE AnswersInv'
  BY <1>2, <1>b DEF Send, locals, packages, Dying
<1>3. ASSUME NEW v \in {"value", "empty"}, v = "empty" => Priority[p] = SPECULATIVE,
             pc = "filter", ci <= Len(completed),
             Counted(p), Finish(p, v), outbox' = outbox
      PROVE  AnswersInv'
  <2>1. /\ p \in Packages /\ evals[p] \in 0 .. MaxEvaluations
        /\ p \notin Range(finished) \cup Range(outbox) /\ value[p] = "none"
    BY <1>3, AtFilter
  <2>2. Range(finished') = Range(finished) \cup {p} /\ Range(outbox') = Range(outbox)
    BY <1>3, <1>a, <2>1, AppendFacts DEF Finish
  <2>3. \A q \in Packages : /\ q # p => evals'[q] = evals[q] /\ value'[q] = value[q]
                            /\ q = p => evals'[q] = evals[p] + 1 /\ value'[q] = v
    BY <1>3, <1>a, <2>1 DEF Counted, Finish
  <2>4. Priority[p] = SPECULATIVE => evals[p] = 0
    BY <2>1
  <2>5. ~Dying
    BY <1>3 DEF Dying
  <2> HIDE DEF p
  <2>6. AnswersCarryValues'
    BY <1>3, <1>a, <1>b, <2>1, <2>2, <2>3
  <2>7. EvaluationsBounded'
    BY <1>3, <1>a, <2>1, <2>3, <2>4, <2>5
  <2>8. OnlyAnswersHaveValues'
    BY <1>3, <2>1, <2>2, <2>3
  <2>9. QED
    BY <2>6, <2>7, <2>8
<1>4. CASE AcceptOutput
  <2>1. /\ pc = "filter" /\ ci <= Len(completed) /\ Counted(p) /\ Finish(p, "value")
        /\ outbox' = outbox
    BY <1>4 DEF AcceptOutput, client
  <2>2. QED
    BY <1>3, <2>1
<1>5. CASE IgnoreFailure
  <2>1. /\ pc = "filter" /\ ci <= Len(completed) /\ Counted(p) /\ Finish(p, "empty")
        /\ outbox' = outbox /\ Priority[p] = SPECULATIVE
    BY <1>5 DEF IgnoreFailure, client
  <2>2. QED
    BY <1>3, <2>1
<1>6. ASSUME pc = "filter", ci <= Len(completed), Priority[p] # SPECULATIVE, Counted(p),
             UNCHANGED <<finished, outbox, value>>,
             evals[p] + 1 <= MaxEvaluations \/ Dying'
      PROVE  AnswersInv'
  <2>1. /\ p \in Packages /\ evals[p] \in 0 .. MaxEvaluations
        /\ p \notin Range(finished) \cup Range(outbox)
    BY <1>6, AtFilter
  <2>2. \A q \in Packages : /\ q # p => evals'[q] = evals[q]
                            /\ q = p => evals'[q] = evals[p] + 1
    BY <1>6, <1>a, <2>1 DEF Counted
  <2>3. ~Dying
    BY <1>6 DEF Dying
  <2> HIDE DEF p
  <2>4. AnswersCarryValues'
    BY <1>6, <1>b, <2>1, <2>2
  <2>5. EvaluationsBounded'
    BY <1>6, <1>a, <2>1, <2>2, <2>3
  <2>6. OnlyAnswersHaveValues'
    BY <1>6, <2>2
  <2>7. QED
    BY <2>4, <2>5, <2>6
<1>7. CASE RecordFailure
  <2>1. /\ pc = "filter" /\ ci <= Len(completed) /\ Priority[p] # SPECULATIVE /\ Counted(p)
        /\ UNCHANGED <<finished, outbox, value>> /\ evals[p] + 1 <= MaxEvaluations
    BY <1>7 DEF RecordFailure, client
  <2>2. QED
    BY <1>6, <2>1
<1>8. CASE GiveUp
  <2>1. /\ pc = "filter" /\ ci <= Len(completed) /\ Priority[p] # SPECULATIVE /\ Counted(p)
        /\ UNCHANGED <<finished, outbox, value>> /\ Dying'
    BY <1>8 DEF GiveUp, client, locals, Throw, Dying
  <2>2. QED
    BY <1>6, <2>1
<1>9. CASE Ship
  <2>1. /\ finished # <<>> /\ outbox' = Append(outbox, Head(finished)) /\ finished' = Tail(finished)
        /\ UNCHANGED <<pc, evals, value>>
    BY <1>9 DEF Ship, packages
  <2>2. Head(finished) \in Packages /\ Head(finished) \in Range(finished)
        /\ Range(finished') = Range(finished) \ {Head(finished)}
    BY <1>a, <2>1, TailFacts, PartitionFacts
  <2>3. Range(outbox') = Range(outbox) \cup {Head(finished)}
    BY <1>a, <2>1, <2>2, AppendFacts
  <2>4. Range(finished') \cup Range(outbox') = Range(finished) \cup Range(outbox)
    BY <2>2, <2>3
  <2>5. QED
    BY <2>1, <2>4, <1>b DEF Dying
<1>10. QED
  BY <1>1, <1>2, <1>4, <1>5, <1>7, <1>8, <1>9, NoticedSteps

(* The retry limit is kept, by the last failure too, and a speculative     *)
(* package is evaluated once.                                              *)
THEOREM EvaluationsAreBounded == Spec => []EvaluationsBounded
<1>1. Init => TypeOK /\ PhaseInv /\ NothingLostOrDuplicated /\ AnswersInv
  BY TypeInit, PhaseInit, PartitionInit, AnswersInit
<1>2. TypeOK /\ PhaseInv /\ NothingLostOrDuplicated /\ AnswersInv /\ [Next]_vars
        => (TypeOK /\ PhaseInv /\ NothingLostOrDuplicated /\ AnswersInv)'
  BY TypeNext, PhaseNext, PartitionNext, AnswersNext
<1>3. AnswersInv => EvaluationsBounded
  BY DEF AnswersInv
<1>4. QED
  BY <1>1, <1>2, <1>3, PTL DEF Spec

(* What is shipped was evaluated, and is empty only if it is speculative.  *)
THEOREM AnswersDoCarryValues == Spec => []AnswersCarryValues
<1>1. Init => TypeOK /\ PhaseInv /\ NothingLostOrDuplicated /\ AnswersInv
  BY TypeInit, PhaseInit, PartitionInit, AnswersInit
<1>2. TypeOK /\ PhaseInv /\ NothingLostOrDuplicated /\ AnswersInv /\ [Next]_vars
        => (TypeOK /\ PhaseInv /\ NothingLostOrDuplicated /\ AnswersInv)'
  BY TypeNext, PhaseNext, PartitionNext, AnswersNext
<1>3. AnswersInv => AnswersCarryValues
  BY DEF AnswersInv
<1>4. QED
  BY <1>1, <1>2, <1>3, PTL DEF Spec

-----------------------------------------------------------------------------
(* The refinement *)

LEMMA ServiceInit == Init => Service!Init
<1> SUFFICES ASSUME Init PROVE Service!Init
  OBVIOUS
<1>1. ServiceStatus = [p \in Packages |-> "unsubmitted"]
  BY DEF Init, ServiceStatus
<1>2. Serving = TRUE
  BY DEF Init, Serving, Stopped, Dying
<1>3. evals = [p \in Packages |-> 0] /\ value = [p \in Packages |-> "none"]
  BY DEF Init
<1>4. QED
  BY <1>1, <1>2, <1>3 DEF Service!Init

(* The filter is applied to the command at ci, and the loop goes on.       *)
LEMMA FilterAttempts ==
    ASSUME TypeOK, NothingLostOrDuplicated, AnswersInv,
           pc = "filter", ci <= Len(completed), Counted(completed[ci]),
           UNCHANGED <<pc, unsent, outbox>>,
           \/ value' = [value EXCEPT ![completed[ci]] = "value"]
           \/ /\ Priority[completed[ci]] = SPECULATIVE
              /\ value' = [value EXCEPT ![completed[ci]] = "empty"]
           \/ /\ Priority[completed[ci]] # SPECULATIVE
              /\ evals[completed[ci]] + 1 <= MaxEvaluations
              /\ value' = value
    PROVE  completed[ci] \in Packages /\ Service!Attempt(completed[ci])
<1> DEFINE p == completed[ci]
<1>1. /\ p \in Packages \ unsent /\ p \notin Range(outbox)
      /\ value[p] = "none" /\ evals[p] \in 0 .. MaxEvaluations
  BY AtFilter
<1>2. evals \in [Packages -> Nat]
  BY DEF TypeOK, PackageTypeOK
<1>3. evals' = [evals EXCEPT ![p] = @ + 1] /\ evals'[p] = evals[p] + 1
  BY <1>1, <1>2 DEF Counted
<1>4. Serving /\ Serving' = Serving
  BY DEF Serving, Stopped, Dying
<1>5. ServiceStatus[p] = "submitted" /\ ServiceStatus' = ServiceStatus
  BY <1>1 DEF ServiceStatus
<1>6. evals[p] <= MaxEvaluations
  BY <1>1, SchedulerAssumption
<1>7. p \in {q \in Packages : Priority[q] = SPECULATIVE} <=> Priority[p] = SPECULATIVE
  BY <1>1
<1> HIDE DEF p
<1>8. p \in Packages /\ Service!Attempt(p)
  BY <1>1, <1>3, <1>4, <1>5, <1>6, <1>7 DEF Service!Attempt, p
<1>9. QED
  BY <1>8 DEF p

(* Each step of the loop is a step of the service, or leaves it as it is.  *)
LEMMA ServiceNext ==
    TypeOK /\ NothingLostOrDuplicated /\ AnswersInv /\ [Next]_vars
        => [Service!Next]_(Service!vars)
<1> SUFFICES ASSUME TypeOK, NothingLostOrDuplicated, AnswersInv, [Next]_vars
             PROVE  Service!Next \/ UNCHANGED Service!vars
  OBVIOUS
<1>1. CASE Quiet
  <2>1. UNCHANGED <<ServiceStatus, evals, value>>
    BY <1>1 DEF Quiet, ServiceStatus
  <2>2. CASE Serving' = Serving
    BY <2>1, <2>2 DEF Service!vars
  <2>3. CASE Serving /\ ~Serving'
    <3>1. Service!Stop
      BY <2>1, <2>3, Zenon DEF Service!Stop, Serving
    <3>2. QED
      BY <3>1 DEF Service!Next
  <2>4. QED
    BY <1>1, <2>2, <2>3 DEF Quiet, Serving
<1>2. ASSUME NEW p \in Packages, Send(p) PROVE Service!Next
  <2>1. p \in unsent /\ unsent' = unsent \ {p} /\ UNCHANGED <<outbox, pc, evals, value>>
    BY <1>2 DEF Send, packages
  <2>2. p \notin Range(outbox)
    BY <2>1, PartitionFacts, PlacesAre
  <2>3. ServiceStatus[p] = "unsubmitted"
        /\ ServiceStatus' = [ServiceStatus EXCEPT ![p] = "submitted"]
    BY <2>1, <2>2 DEF ServiceStatus
  <2>4. UNCHANGED <<evals, value, Serving>>
    BY <2>1 DEF Serving, Stopped, Dying
  <2>5. Service!Submit(p)
    BY <2>3, <2>4 DEF Service!Submit
  <2>6. QED
    BY <2>5 DEF Service!Next
<1>3. CASE AcceptOutput \/ IgnoreFailure \/ RecordFailure
  <2>1. completed[ci] \in Packages /\ Service!Attempt(completed[ci])
    <3>1. CASE AcceptOutput
      BY <3>1, FilterAttempts DEF AcceptOutput, Finish, client
    <3>2. CASE IgnoreFailure
      BY <3>2, FilterAttempts DEF IgnoreFailure, Finish, client
    <3>3. CASE RecordFailure
      BY <3>3, FilterAttempts DEF RecordFailure, client
    <3>4. QED
      BY <1>3, <3>1, <3>2, <3>3
  <2>2. QED
    BY <2>1 DEF Service!Next
<1>4. CASE GiveUp
  <2> DEFINE p == completed[ci]
  <2>1. /\ pc = "filter" /\ ci <= Len(completed) /\ Priority[p] # SPECULATIVE
        /\ evals[p] + 1 > MaxEvaluations /\ Counted(p) /\ pc' = "handler"
        /\ UNCHANGED <<unsent, outbox, value>>
    BY <1>4 DEF GiveUp, Throw, client, locals
  <2>2. /\ p \in Packages \ unsent /\ p \notin Range(outbox)
        /\ value[p] = "none" /\ evals[p] \in 0 .. MaxEvaluations
    BY <2>1, AtFilter
  <2>3. evals[p] = MaxEvaluations
    BY <2>1, <2>2, SchedulerAssumption
  <2>4. Serving /\ Serving' = FALSE
    BY <2>1 DEF Serving, Stopped, Dying
  <2>5. ServiceStatus[p] = "submitted" /\ ServiceStatus' = ServiceStatus
    BY <2>1, <2>2 DEF ServiceStatus
  <2>6. p \notin {q \in Packages : Priority[q] = SPECULATIVE}
    BY <2>1
  <2>7. evals' = [evals EXCEPT ![p] = @ + 1]
    BY <2>1 DEF Counted
  <2> HIDE DEF p
  <2>8. Service!GiveUp(p)
    BY <2>1, <2>2, <2>3, <2>4, <2>5, <2>6, <2>7 DEF Service!GiveUp
  <2>9. QED
    BY <2>2, <2>8 DEF Service!Next
<1>5. CASE Ship
  <2> DEFINE p == Head(finished)
  <2>1. /\ pc = "ship" /\ finished # <<>> /\ outbox' = Append(outbox, p)
        /\ UNCHANGED <<unsent, pc, evals, value>>
    BY <1>5 DEF Ship, packages
  <2>2. finished \in Seq(Packages) /\ outbox \in Seq(Packages)
    BY DEF TypeOK, ClientTypeOK, LoopTypeOK
  <2>3. p \in Packages /\ p \in Range(finished)
    BY <2>1, <2>2, TailFacts, PartitionFacts
  <2>4. p \notin unsent /\ p \notin Range(outbox)
    BY <2>3, PartitionFacts, PlacesAre
  <2>5. value[p] # "none"
    BY <2>3 DEF AnswersInv, AnswersCarryValues
  <2>6. Range(outbox') = Range(outbox) \cup {p}
    BY <2>1, <2>2, <2>3, AppendFacts
  <2>7. Serving /\ Serving' = Serving
    BY <2>1 DEF Serving, Stopped, Dying
  <2> HIDE DEF p
  <2>8. ServiceStatus[p] = "submitted"
        /\ ServiceStatus' = [ServiceStatus EXCEPT ![p] = "answered"]
    BY <2>1, <2>3, <2>4, <2>6 DEF ServiceStatus
  <2>9. Service!Deliver(p)
    BY <2>1, <2>5, <2>7, <2>8 DEF Service!Deliver
  <2>10. QED
    BY <2>3, <2>9 DEF Service!Next
<1>6. QED
  BY <1>1, <1>2, <1>3, <1>4, <1>5, NoticedSteps

(* The loop, with its queues, preemption, retries and failures, keeps the  *)
(* promises of EvaluationService.                                          *)
THEOREM BrokerImplementsService == Spec => ImplementsService
<1> DEFINE Inv == TypeOK /\ PhaseInv /\ NothingLostOrDuplicated /\ AnswersInv
<1>1. Init => Inv
  BY TypeInit, PhaseInit, PartitionInit, AnswersInit
<1>2. Inv /\ [Next]_vars => Inv'
  BY TypeNext, PhaseNext, PartitionNext, AnswersNext
<1>3. Inv /\ [Next]_vars => [Service!Next]_(Service!vars)
  BY ServiceNext
<1>4. QED
  BY <1>1, <1>2, <1>3, ServiceInit, PTL DEF Spec, ImplementsService, Service!Spec

=============================================================================
