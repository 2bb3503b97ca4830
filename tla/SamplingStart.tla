---------------------------- MODULE SamplingStart ----------------------------
(***************************************************************************)
(* The start of adaptive sampling: AdaptiveSamplingLauncher::launch on the  *)
(* ranks of the algorithm, which send the filters of the database once they *)
(* are connected, and AdaptiveSamplingFactory::build in the module, which   *)
(* receives them from one communicator after the other, launches its        *)
(* brokers and starts its threads.  A rank goes on to send model packages   *)
(* as soon as its own part is over.                                         *)
(*                                                                         *)
(* All messages of a connection come in order, and Communicator::receive    *)
(* takes all that have come for the kind it was asked for, as in            *)
(* LoadQueries.  There is one module; nobody ends in between.  NotAwaited   *)
(* is a slip: no behaviour uses it.                                         *)
(***************************************************************************)
EXTENDS Integers, Sequences

CONSTANTS
    NumStartRanks,   \* ranks of the algorithm that are connected to the module
    FirstPackages    \* bound: packages a rank sends while the module starts

ASSUME StartAssumption == NumStartRanks \in Nat \ {0} /\ FirstPackages \in Nat

VARIABLES
    launcherAt,      \* where each rank is in launch()
    packagesSent,    \* how many packages it has sent after that
    factoryAt,       \* where the module is in build(), or it "runs"
    filterFrom,      \* the communicator whose filters it waits for
    filters,         \* the ranks whose input and output filter it has
    packagesTaken,   \* how many packages of each rank its warehouse received
    toFactory, toLauncher   \* the messages on their way

startVars == <<launcherAt, packagesSent, factoryAt, filterFrom, filters,
               packagesTaken, toFactory, toLauncher>>

StartRanks == 1 .. NumStartRanks

StartInit ==
    /\ launcherAt = [r \in StartRanks |-> "input"]
    /\ packagesSent = [r \in StartRanks |-> 0]
    /\ factoryAt = "input" /\ filterFrom = 1
    /\ filters = [input |-> 0, output |-> 0]
    /\ packagesTaken = [r \in StartRanks |-> 0]
    /\ toFactory = [r \in StartRanks |-> <<>>]
    /\ toLauncher = [r \in StartRanks |-> <<>>]

-----------------------------------------------------------------------------
(* A rank of the algorithm *)

LauncherGoto(r, place) == launcherAt' = [launcherAt EXCEPT ![r] = place]
SendToFactory(r, kind) == toFactory' = [toFactory EXCEPT ![r] = Append(@, kind)]

SendFilter(r) ==
    /\ launcherAt[r] \in {"input", "output"}
    /\ SendToFactory(r, launcherAt[r])
    /\ LauncherGoto(r, IF launcherAt[r] = "input" THEN "inputAck" ELSE "outputAck")
    /\ UNCHANGED <<packagesSent, factoryAt, filterFrom, filters, packagesTaken, toLauncher>>

NotAwaited(r) == TRUE
Acknowledged(r) == toLauncher[r] # <<>>
ReceiveAck(r) ==
    /\ launcherAt[r] \in {"inputAck", "outputAck"} /\ Acknowledged(r)
    /\ toLauncher' = [toLauncher EXCEPT ![r] = <<>>]
    /\ LauncherGoto(r, IF launcherAt[r] = "inputAck" THEN "output" ELSE "ready")
    /\ UNCHANGED <<packagesSent, factoryAt, filterFrom, filters, packagesTaken, toFactory>>

SendFirstPackage(r) ==
    /\ launcherAt[r] = "ready" /\ packagesSent[r] < FirstPackages
    /\ SendToFactory(r, "package")
    /\ packagesSent' = [packagesSent EXCEPT ![r] = @ + 1]
    /\ UNCHANGED <<launcherAt, factoryAt, filterFrom, filters, packagesTaken, toLauncher>>

-----------------------------------------------------------------------------
(* The module *)

Waiting(kind) == \A i \in DOMAIN toFactory[filterFrom] : toFactory[filterFrom][i] = kind

(* A filter has come and is acknowledged.  A message of another kind would  *)
(* have been read for it, after which nothing is known of the module.       *)
ReceiveFilter ==
    /\ factoryAt \in {"input", "output"}
    /\ toFactory[filterFrom] # <<>> /\ Waiting(factoryAt)
    /\ toFactory' = [toFactory EXCEPT ![filterFrom] = <<>>]
    /\ toLauncher' = [toLauncher EXCEPT ![filterFrom] = Append(@, "ack")]
    /\ filters' = [filters EXCEPT ![factoryAt] = filterFrom]
    /\ IF factoryAt = "input"
       THEN factoryAt' = "output" /\ UNCHANGED filterFrom
       ELSE IF filterFrom < NumStartRanks
       THEN factoryAt' = "input" /\ filterFrom' = filterFrom + 1
       ELSE factoryAt' = "brokers" /\ UNCHANGED filterFrom
    /\ UNCHANGED <<launcherAt, packagesSent, packagesTaken>>

(* The brokers are launched and the threads started.                        *)
LaunchBrokers ==
    /\ factoryAt = "brokers"
    /\ factoryAt' = "runs"
    /\ UNCHANGED <<launcherAt, packagesSent, filterFrom, filters, packagesTaken>>
    /\ UNCHANGED <<toFactory, toLauncher>>

(* The warehouse receives packages from then on.                            *)
ReceiveFirstPackages(r) ==
    /\ factoryAt = "runs" /\ toFactory[r] # <<>>
    /\ \A i \in DOMAIN toFactory[r] : toFactory[r][i] = "package"
    /\ packagesTaken' = [packagesTaken EXCEPT ![r] = @ + Len(toFactory[r])]
    /\ toFactory' = [toFactory EXCEPT ![r] = <<>>]
    /\ UNCHANGED <<launcherAt, packagesSent, factoryAt, filterFrom, filters, toLauncher>>

LauncherStep(r) == SendFilter(r) \/ ReceiveAck(r) \/ SendFirstPackage(r)
FactoryStep ==
    \/ ReceiveFilter \/ LaunchBrokers
    \/ \E r \in StartRanks : ReceiveFirstPackages(r)

StartNext == FactoryStep \/ \E r \in StartRanks : LauncherStep(r)
-----------------------------------------------------------------------------
(* Properties *)

StartTypeOK ==
    /\ launcherAt \in [StartRanks -> {"input", "inputAck", "output", "outputAck", "ready"}]
    /\ factoryAt \in {"input", "output", "brokers", "runs"}
    /\ filterFrom \in StartRanks
    /\ filters \in [{"input", "output"} -> 0 .. NumStartRanks]
    /\ {packagesSent, packagesTaken} \subseteq [StartRanks -> 0 .. FirstPackages]
    /\ toFactory \in [StartRanks -> Seq({"input", "output", "package"})]
    /\ toLauncher \in [StartRanks -> Seq({"ack"})]

(* The module runs with the two filters of one rank, and has got every      *)
(* package sent meanwhile.                                                  *)
SamplingStarted ==
    /\ factoryAt = "runs" /\ filters.input # 0 /\ filters.input = filters.output
    /\ \A r \in StartRanks :
           launcherAt[r] = "ready" /\ packagesTaken[r] = FirstPackages
=============================================================================
