----------------------------- MODULE SmallParts -----------------------------
(***************************************************************************)
(* The parts of the system that work on their own, beside the broker and    *)
(* adaptive sampling: the launch of modules, the MPI communicators of a     *)
(* process, the broker over a batch system, load queries, the start of      *)
(* adaptive sampling, its threads' use of the database, and its performance *)
(* scheduler.  They share no state; a behaviour is one of any one of them.  *)
(***************************************************************************)
EXTENDS Launching, MPIChannel, BatchBroker, LoadQueries, SamplingStart, DatabaseAccess,
        PerformanceScheduling

CONSTANT Parts    \* the parts to look at
ASSUME PartsAssumption ==
    Parts \subseteq {"launch", "mpi", "batch", "load", "start", "database", "performance"}

VARIABLE part     \* the one that behaves

vars == <<part, launchVars, mpiVars, batchVars, loadVars, startVars, databaseVars,
          performanceVars>>

(* A part that does not behave has one initial state.                       *)
Init ==
    /\ part \in Parts
    /\ LaunchInit /\ MPIInit /\ BatchInit /\ LoadInit /\ StartInit /\ DatabaseInit
    /\ PerformanceInit
    /\ part # "launch" =>
           /\ <<size, modules, transport>> = CHOOSE l \in Launches : TRUE
           /\ sharedWorld
    /\ part # "database" => database = "Kriging"

Next ==
    \/ /\ part = "launch" /\ LaunchNext
       /\ UNCHANGED <<part, mpiVars, batchVars, loadVars, startVars, databaseVars, performanceVars>>
    \/ /\ part = "mpi" /\ MPINext
       /\ UNCHANGED <<part, launchVars, batchVars, loadVars, startVars, databaseVars, performanceVars>>
    \/ /\ part = "batch" /\ BatchNext
       /\ UNCHANGED <<part, launchVars, mpiVars, loadVars, startVars, databaseVars, performanceVars>>
    \/ /\ part = "load" /\ LoadNext
       /\ UNCHANGED <<part, launchVars, mpiVars, batchVars, startVars, databaseVars, performanceVars>>
    \/ /\ part = "start" /\ StartNext
       /\ UNCHANGED <<part, launchVars, mpiVars, batchVars, loadVars, databaseVars, performanceVars>>
    \/ /\ part = "database" /\ DatabaseNext
       /\ UNCHANGED <<part, launchVars, mpiVars, batchVars, loadVars, startVars, performanceVars>>
    \/ /\ part = "performance" /\ PerformanceNext
       /\ UNCHANGED <<part, launchVars, mpiVars, batchVars, loadVars, startVars, databaseVars>>

-----------------------------------------------------------------------------
(* Fairness: every process and thread goes on when it can.  In launching    *)
(* and in the start of adaptive sampling no step can be repeated, so it is  *)
(* enough that one of the processes does.  The threads that share the MPI   *)
(* mutex get it some time (SF), a job ends, and a broker has evaluated all  *)
(* it has some time.  A call of the database ends, and the value processing *)
(* thread gets the mutex of the Pyas database some time (SF); nothing like  *)
(* that is asked of the Kriging database's lock.                            *)

LaunchFairness == WF_launchVars(part = "launch" /\ LaunchNext)
MPIFairness ==
    /\ SF_mpiVars(part = "mpi" /\ Receiver)
    /\ SF_mpiVars(part = "mpi" /\ Shipper)
BatchFairness ==
    /\ WF_batchVars(part = "batch" /\ BatchStep)
    /\ WF_batchVars(part = "batch" /\ EndJob)
LoadFairness ==
    /\ WF_loadVars(part = "load" /\ ScheduleStep)
    /\ \A b \in LoadBrokers :
        /\ WF_loadVars(part = "load" /\ BrokerStep(b))
        /\ SF_loadVars(part = "load" /\ ShipResults(b) /\ evaluating'[b] = {})
        /\ WF_loadVars(part = "load" /\ ReceiveValues(b))
StartFairness == WF_startVars(part = "start" /\ StartNext)
DatabaseFairness ==
    /\ \A t \in DBThreads : WF_databaseVars(part = "database" /\ CallStep(t))
    /\ SF_databaseVars(part = "database" /\ LockPyas(ValueThread))
    /\ WF_databaseVars(part = "database" /\ EndStatistics)

Spec == Init /\ [][Next]_vars
FairSpec ==
    /\ Spec
    /\ LaunchFairness /\ MPIFairness /\ BatchFairness /\ LoadFairness
    /\ StartFairness /\ DatabaseFairness

-----------------------------------------------------------------------------
(* Properties; the others are stated in the modules of the parts *)

(* Every part has its type.  That of the batch broker includes that the     *)
(* iterator of BatchQueueScheduler::processQueue, incremented twice for a   *)
(* command, stays on the queue.                                             *)
PartsTypeOK ==
    /\ LaunchTypeOK /\ MPITypeOK /\ BatchTypeOK /\ LoadTypeOK
    /\ StartTypeOK /\ DatabaseTypeOK /\ PerformanceTypeOK

(* Unless an error ends the program, launching ends with all ranks and      *)
(* modules connected, and with the two sides agreed on who is connected to  *)
(* whom: the formulas of both sides in Launcher.cc fit, and no module waits *)
(* for a connection that nobody makes.  Fan-in over sockets is left out     *)
(* (see EveryoneConnected).  The handshake of adaptive sampling that        *)
(* follows ends too: AdaptiveSamplingLauncher::launch and                   *)
(* AdaptiveSamplingFactory::build wait for each other's messages by turns,  *)
(* each reads what it finds as the kind it expects, and the module runs     *)
(* with both filters of one rank.                                           *)
ModulesStart ==
    <>CASE part = "launch" -> Launched \/ LaunchFailed \/ FanIn
        [] part = "start" -> SamplingStarted
        [] OTHER -> TRUE

(* What Launcher.cc means to do in fan-in over sockets: read the address    *)
(* that the module prints, and send it to the ranks that did not launch, so *)
(* that each of them is connected, or an error ends the program.            *)
EveryoneConnected == <>(part # "launch" \/ Launched \/ LaunchFailed)
=============================================================================
