----------------------------- MODULE BatchBroker -----------------------------
(***************************************************************************)
(* The broker loop (broker/BasicBroker.cc) over a batch system: the         *)
(* scheduler of scheduler/BatchQueueScheduler.cc submits all that is        *)
(* queued, base/PBSCommand.cc takes a job for completed when its output     *)
(* file exists, and broker/CleanupPolicyFixed.cc removes the directories    *)
(* of completed commands but for the last ones.                             *)
(*                                                                         *)
(* Packages are numbered in the order in which their one client sends them, *)
(* none is SPECULATIVE, and the client stays.  A command is a package and   *)
(* the number of its directory.  Incrementing the end of a std::list leads  *)
(* to its first element, as it does in libstdc++.  Some definitions follow  *)
(* a variant with a slip in it: no behaviour uses it.                       *)
(***************************************************************************)
EXTENDS Integers, Sequences, FiniteSets, SequencesExt, Functions, Sublists

CONSTANTS
    NumPackages,      \* packages the client sends
    PackagePriority,  \* package -> its priority
    Retries,          \* failed evaluations of a package that are repeated (5)
    NumberToKeep      \* d_numberToKeep of the cleanup policy

ASSUME BatchAssumption ==
    /\ NumPackages \in Nat
    /\ PackagePriority \in [1 .. NumPackages -> Nat]
    /\ Retries \in Nat /\ NumberToKeep \in Nat

VARIABLES
    brokerAt,              \* the place in run()
    submitter,             \* which call of processQueue it is in
    numberReceived,        \* packages received so far
    commandCounter,        \* d_commandCounter
    queued, running,       \* the queues of the state database
    iter,                  \* the iterator of processQueue
    completed,             \* completedCommands of this pass
    evaluations,           \* package -> numberEvaluations
    results,               \* completedModelPackages of this pass
    returned,              \* packages shipped back
    jobs,                  \* commands the batch system has and has not ended
    pbsOutput,             \* directories in which there is a pbs_output file
    directories,           \* directories that exist
    completedDirectories   \* d_completedDirectories

loop == <<brokerAt, submitter, iter>>
commands == <<numberReceived, commandCounter, queued, running>>
outcomes == <<completed, evaluations, results, returned>>
batchSystem == <<jobs, pbsOutput>>
files == <<directories, completedDirectories>>
batchVars == <<loop, commands, outcomes, batchSystem, files>>

BatchPackages == 1 .. NumPackages

BatchInit ==
    /\ brokerAt = "receive" /\ submitter = "arrivals" /\ iter = 1
    /\ numberReceived = 0 /\ commandCounter = 0
    /\ queued = <<>> /\ running = <<>>
    /\ completed = <<>> /\ results = <<>> /\ returned = <<>>
    /\ evaluations = [p \in BatchPackages |-> 0]
    /\ jobs = {} /\ pbsOutput = {}
    /\ directories = {} /\ completedDirectories = <<>>

At(place) == brokerAt = place

(* The batch system ends a job, whose output file appears then.             *)
EndJob ==
    /\ \E job \in jobs :
        /\ jobs' = jobs \ {job}
        /\ pbsOutput' = pbsOutput \cup ({job.directory} \cap directories)
    /\ UNCHANGED <<loop, commands, outcomes, files>>

-----------------------------------------------------------------------------
(* Commands for packages, in directories of their own, by priority          *)

(* A command that is repeated gets another directory.                       *)
CommandsByPackage(packages) ==
    [i \in DOMAIN packages |-> [package |-> packages[i], directory |-> packages[i] - 1]]
NewCommands(packages) ==
    [i \in DOMAIN packages |->
        [package |-> packages[i], directory |-> commandCounter + i - 1]]

(* What list::sort may leave, which is stable: there is one such list.     *)
HigherFirst(queue) ==
    {[i \in DOMAIN queue |-> queue[f[i]]] : f \in
        {f \in Bijection(DOMAIN queue, DOMAIN queue) :
            \A i, j \in DOMAIN queue : i < j =>
                LET m == PackagePriority[queue[f[i]].package]
                    n == PackagePriority[queue[f[j]].package]
                IN  m > n \/ (m = n /\ f[i] < f[j])}}

Schedule(packages, existing) ==
    LET new == NewCommands(packages) IN
    /\ IF new = <<>> THEN UNCHANGED queued ELSE queued' \in HigherFirst(queued \o new)
    /\ commandCounter' = commandCounter + Len(new)
    /\ directories' = existing \cup {new[i].directory : i \in DOMAIN new}

(* After every receive the scheduler is called, whatever was received.      *)
ReceivePackages ==
    /\ At("receive")
    /\ \E n \in 0 .. NumPackages - numberReceived :
        /\ numberReceived' = numberReceived + n
        /\ Schedule([i \in 1 .. n |-> numberReceived + i], directories)
    /\ brokerAt' = "submit" /\ submitter' = "arrivals" /\ iter' = 1
    /\ UNCHANGED <<running, outcomes, batchSystem, completedDirectories>>

(* No command can be made of a package without BatchQueueSettings, nor      *)
(* where its directory or its input fails, for a package received or for    *)
(* one to be evaluated again: the exception ends the loop, and nobody reads *)
(* what it leaves behind.                                                   *)
CreateFails ==
    /\ \/ At("receive") /\ numberReceived < NumPackages
       \/ /\ At("filter")
          /\ \E i \in DOMAIN completed : evaluations[completed[i].package] + 1 <= Retries
    /\ brokerAt' = "failed"
    /\ UNCHANGED <<submitter, iter, commands, outcomes, batchSystem, files>>

-----------------------------------------------------------------------------
(* BatchQueueScheduler::processQueue *)

EndOf(queue) == Len(queue) + 1

(* The iterator is incremented to pop the command, and once more.           *)
IncrementedPastEnd(i, queue) == i + 1
IncrementedAt(i, queue) == IF i = EndOf(queue) THEN 1 ELSE i + 1
SubmitCommand ==
    /\ At("submit") /\ iter # EndOf(queued)
    /\ LET c == queued[iter] IN
        /\ running' = Append(running, c)
        /\ jobs' = jobs \cup {c}
    /\ queued' = RemoveAt(queued, iter)
    /\ iter' = IncrementedAt(iter, queued')
    /\ UNCHANGED <<brokerAt, submitter, numberReceived, commandCounter, outcomes, pbsOutput, files>>

(* qsub fails, which is an exception that ends the loop.                    *)
SubmitFails ==
    /\ At("submit") /\ iter # EndOf(queued)
    /\ brokerAt' = "failed"
    /\ UNCHANGED <<submitter, iter, commands, outcomes, batchSystem, files>>

EndSubmit ==
    /\ At("submit") /\ iter = EndOf(queued)
    /\ brokerAt' = CASE submitter = "arrivals" -> "monitor"
                     [] submitter = "completions" -> "filter"
                     [] submitter = "retries" -> "ship"
    /\ UNCHANGED <<submitter, iter, commands, outcomes, batchSystem, files>>

-----------------------------------------------------------------------------
(* Monitor, output filters, cleanup policy, and what is shipped *)

CompletedPlaces == {i \in DOMAIN running : running[i].directory \in pbsOutput}
Monitor ==
    /\ At("monitor")
    /\ completed' = Selected(running, CompletedPlaces)
    /\ running' = Selected(running, DOMAIN running \ CompletedPlaces)
    /\ IF completed' = <<>>
       THEN brokerAt' = "filter" /\ UNCHANGED <<submitter, iter>>
       ELSE brokerAt' = "submit" /\ submitter' = "completions" /\ iter' = 1
    /\ UNCHANGED <<numberReceived, commandCounter, queued, evaluations, results, returned>>
    /\ UNCHANGED <<batchSystem, files>>

(* The policy takes all completed commands, failed ones included.           *)
Cleanup ==
    LET all == completedDirectories \o [i \in DOMAIN completed |-> completed[i].directory]
        n == Len(all) - NumberToKeep
    IN  IF n > 0
        THEN [kept |-> SubSeq(all, n + 1, Len(all)), removed |-> ToSet(SubSeq(all, 1, n))]
        ELSE [kept |-> all, removed |-> {}]

(* The filters of some commands fail, whose packages are evaluated again.   *)
PackagesOf(cs) == [i \in DOMAIN cs |-> cs[i].package]
FilterCompleted ==
    /\ At("filter")
    /\ \E bad \in SUBSET DOMAIN completed :
        LET again == PackagesOf(Selected(completed, bad)) IN
        /\ \A i \in bad : evaluations[completed[i].package] + 1 <= Retries
        /\ results' = PackagesOf(Selected(completed, DOMAIN completed \ bad))
        /\ Schedule(again, directories \ Cleanup.removed)
        /\ brokerAt' = IF again = <<>> THEN "ship" ELSE "submit"
    /\ evaluations' = [p \in BatchPackages |->
           IF \E i \in DOMAIN completed : completed[i].package = p
           THEN evaluations[p] + 1 ELSE evaluations[p]]
    /\ completedDirectories' = Cleanup.kept
    /\ completed' = <<>>
    /\ submitter' = "retries" /\ iter' = 1
    /\ pbsOutput' = pbsOutput \ Cleanup.removed
    /\ UNCHANGED <<numberReceived, running, returned, jobs>>

(* One has failed too often.                                                *)
GiveUp ==
    /\ At("filter")
    /\ \E i \in DOMAIN completed : evaluations[completed[i].package] + 1 > Retries
    /\ brokerAt' = "failed"
    /\ UNCHANGED <<submitter, iter, commands, outcomes, batchSystem, files>>

Ship ==
    /\ At("ship")
    /\ returned' = returned \o results
    /\ results' = <<>>
    /\ brokerAt' = "receive"
    /\ UNCHANGED <<submitter, iter, commands, completed, evaluations, batchSystem, files>>

BatchStep ==
    \/ ReceivePackages \/ CreateFails
    \/ SubmitCommand \/ SubmitFails \/ EndSubmit
    \/ Monitor \/ FilterCompleted \/ GiveUp \/ Ship
BatchNext == BatchStep \/ EndJob
-----------------------------------------------------------------------------
(* Properties *)

CommandType == [package : BatchPackages, directory : Nat]
BatchTypeOK ==
    /\ brokerAt \in {"receive", "submit", "monitor", "filter", "ship", "failed"}
    /\ submitter \in {"arrivals", "completions", "retries"}
    /\ iter \in 1 .. EndOf(queued)
    /\ numberReceived \in 0 .. NumPackages /\ commandCounter \in Nat
    /\ {queued, running, completed} \subseteq Seq(CommandType)
    /\ {results, returned} \subseteq Seq(BatchPackages)
    /\ evaluations \in [BatchPackages -> 0 .. Retries + 1]
    /\ jobs \subseteq CommandType /\ pbsOutput \subseteq directories
    /\ directories \subseteq 0 .. commandCounter - 1
    /\ completedDirectories \in Seq(directories)

(* A package that was received is shipped back, unless an error ends the    *)
(* broker: although a pass over the queue skips every other command and new *)
(* ones come before it, and although directories are removed while the jobs *)
(* of other commands, or of the same package again, run.                    *)
PackagesReturned ==
    \A p \in BatchPackages :
        numberReceived >= p ~> p \in ToSet(returned) \/ At("failed")
=============================================================================
