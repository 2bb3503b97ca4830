----------------------------- MODULE LoadQueries -----------------------------
(***************************************************************************)
(* Load queries (scheduler/LoadQuery.cc) between the load scheduler of      *)
(* adaptive sampling (AdaptiveSamplingLoadScheduler.cc) and its brokers     *)
(* (d_handleLoadQuery in broker/BasicBroker.cc).  Queries and answers share *)
(* the connections with the model packages, and Communicator::receive       *)
(* (comm/Communicator_t.cc) takes whatever has arrived for the kind it was  *)
(* asked for: a message of another kind is misread, and what the process    *)
(* does then is not defined.                                                *)
(*                                                                         *)
(* What a broker reports is any of a set of loads.  The load log, which has *)
(* queries sent without packages to schedule, is off.  SecondBroker is a    *)
(* slip: no behaviour uses it.                                              *)
(***************************************************************************)
EXTENDS Integers, Sequences, FiniteSets, SequencesExt, FiniteSetsExt, Sublists

CONSTANTS
    NumLoadBrokers,   \* brokers of the scheduler
    Amounts,          \* getResourceAmount of the model of each package
    Loads             \* what a broker may report

ASSUME LoadAssumption ==
    /\ NumLoadBrokers \in Nat \ {0}
    /\ Amounts \in Seq(Nat)
    /\ IsFiniteSet(Loads) /\ Loads \subseteq [free : Nat, queued : Nat, total : Nat]
    /\ Loads # {}

LoadBrokers == 0 .. NumLoadBrokers - 1
NoLoad == [free |-> 0, queued |-> 0, total |-> 0]

VARIABLES
    \* evaluation thread of the module
    schedulerAt,      \* where it is in schedule()
    toSchedule,       \* packages on the pile, by their numbers
    modelPackages,    \* those of this call
    broker,           \* the broker it sends to or receives from
    responses,        \* broker -> the load it reported
    numberResponses,
    assigned,         \* returnValue, as pairs of package and broker
    \* connections
    toBroker, toModule,
    \* brokers
    serving,          \* what each is to receive next: "package" or "query"
    evaluating,       \* packages it has
    \* value processing thread of the module
    values,           \* packages that have come back
    misread           \* a message was taken for one of another kind

schedulerVars ==
    <<schedulerAt, toSchedule, modelPackages, broker, responses, numberResponses, assigned>>
messages == <<toBroker, toModule>>
loadVars == <<schedulerVars, messages, serving, evaluating, values, misread>>

LoadInit ==
    /\ schedulerAt = "idle"
    /\ toSchedule = [i \in DOMAIN Amounts |-> i]
    /\ modelPackages = <<>>
    /\ broker = 0
    /\ responses = [b \in LoadBrokers |-> NoLoad] /\ numberResponses = 0
    /\ assigned = <<>>
    /\ toBroker = [b \in LoadBrokers |-> <<>>]
    /\ toModule = [b \in LoadBrokers |-> <<>>]
    /\ serving = [b \in LoadBrokers |-> "package"]
    /\ evaluating = [b \in LoadBrokers |-> {}]
    /\ values = {} /\ misread = FALSE

(* Communicator::receive<T> deserializes all that has arrived as T.         *)
AllAre(kind, received) == \A i \in DOMAIN received : received[i].kind = kind
PackageMessage(p) == [kind |-> "package", package |-> p]
LoadMessage(load) == [kind |-> "query", load |-> load]

-----------------------------------------------------------------------------
(* AdaptiveSamplingLoadScheduler::schedule, called with what is on the pile *)

SchedulerIs(place) == ~misread /\ schedulerAt = place

SecondBroker == 1
FirstBroker == 0
StartSchedule ==
    /\ SchedulerIs("idle")
    /\ \E n \in 1 .. Len(toSchedule) :
        /\ modelPackages' = SubSeq(toSchedule, 1, n)
        /\ toSchedule' = SubSeq(toSchedule, n + 1, Len(toSchedule))
    /\ schedulerAt' = "query"
    /\ broker' = FirstBroker /\ numberResponses' = 0 /\ assigned' = <<>>
    /\ UNCHANGED <<responses, messages, serving, evaluating, values, misread>>

SendQuery ==
    /\ SchedulerIs("query") /\ broker \in LoadBrokers
    /\ toBroker' = [toBroker EXCEPT ![broker] = Append(@, LoadMessage(NoLoad))]
    /\ broker' = broker + 1
    /\ UNCHANGED <<schedulerAt, toSchedule, modelPackages, responses, numberResponses, assigned>>
    /\ UNCHANGED <<toModule, serving, evaluating, values, misread>>

(* At the end of each pass over the brokers the responses are counted.      *)
NextPass ==
    /\ SchedulerIs("query") \/ SchedulerIs("receive")
    /\ broker = NumLoadBrokers
    /\ IF SchedulerIs("receive") /\ numberResponses = NumLoadBrokers
       THEN schedulerAt' = "assign" /\ UNCHANGED broker
       ELSE schedulerAt' = "receive" /\ broker' = 0
    /\ UNCHANGED <<toSchedule, modelPackages, responses, numberResponses, assigned>>
    /\ UNCHANGED <<messages, serving, evaluating, values, misread>>

ReceiveLoad ==
    /\ SchedulerIs("receive") /\ broker \in LoadBrokers
    /\ toModule' = [toModule EXCEPT ![broker] = <<>>]
    /\ LET received == toModule[broker] IN
        IF received # <<>> /\ AllAre("query", received)
        THEN /\ responses' = [responses EXCEPT ![broker] = Last(received).load]
             /\ numberResponses' = numberResponses + 1
             /\ UNCHANGED misread
        ELSE /\ misread' = (received # <<>>)
             /\ UNCHANGED <<responses, numberResponses>>
    /\ broker' = broker + 1
    /\ UNCHANGED <<schedulerAt, toSchedule, modelPackages, assigned>>
    /\ UNCHANGED <<toBroker, serving, evaluating, values>>

(* A number divided by the total, in floating point: with a total of 0 it   *)
(* is infinite, or for 0 not a number, which compares with nothing.         *)
IsNumber(n, total) == total > 0 \/ n > 0
Same(m, n, i, j) ==
    /\ IsNumber(m, i.total) /\ IsNumber(n, j.total)
    /\ (i.total = 0) = (j.total = 0)
    /\ m * j.total = n * i.total
More(m, n, i, j) ==
    /\ IsNumber(m, i.total) /\ IsNumber(n, j.total)
    /\ j.total > 0 /\ (i.total > 0 => m * j.total > n * i.total)
loadSorter(i, j) ==
    IF ~Same(i.free, j.free, i, j) THEN More(i.free, j.free, i, j)
    ELSE More(j.queued, i.queued, j, i)

(* The package goes to a broker that sorting may put first, which then has  *)
(* one more job queued and fewer resources free.  With 0 / 0 among the      *)
(* loads the comparator is no order and sort may do worse; that is left out.*)
Winners == {b \in LoadBrokers : ~\E c \in LoadBrokers : loadSorter(responses[c], responses[b])}
Loaded(load, amount) ==
    [load EXCEPT !.queued = @ + 1, !.free = IF @ > amount THEN @ - amount ELSE 0]
Assign ==
    /\ SchedulerIs("assign") /\ Len(assigned) < Len(modelPackages)
    /\ LET p == modelPackages[Len(assigned) + 1] IN
        \E b \in Winners :
            /\ assigned' = Append(assigned, b)
            /\ responses' = [responses EXCEPT ![b] = Loaded(@, Amounts[p])]
    /\ UNCHANGED <<schedulerAt, toSchedule, modelPackages, broker, numberResponses>>
    /\ UNCHANGED <<messages, serving, evaluating, values, misread>>

PackagesFor(b) == Selected(modelPackages, {i \in DOMAIN modelPackages : assigned[i] = b})

(* The evaluation thread sends the packages to the brokers returned.        *)
SendPackages ==
    /\ SchedulerIs("assign") /\ Len(assigned) = Len(modelPackages)
    /\ toBroker' = [b \in LoadBrokers |->
           toBroker[b] \o
               [i \in DOMAIN PackagesFor(b) |-> PackageMessage(PackagesFor(b)[i])]]
    /\ schedulerAt' = "idle" /\ modelPackages' = <<>>
    /\ UNCHANGED <<toSchedule, broker, responses, numberResponses, assigned>>
    /\ UNCHANGED <<toModule, serving, evaluating, values, misread>>

-----------------------------------------------------------------------------
(* A broker: packages, then results, then queries                           *)

BrokerIs(b, place) == ~misread /\ serving[b] = place
BrokerGoto(b, place) == serving' = [serving EXCEPT ![b] = place]

ReceivePackagesOf(b) ==
    /\ BrokerIs(b, "package")
    /\ toBroker' = [toBroker EXCEPT ![b] = <<>>]
    /\ IF AllAre("package", toBroker[b])
       THEN /\ evaluating' = [evaluating EXCEPT ![b] =
                   @ \cup {m.package : m \in ToSet(toBroker[b])}]
            /\ UNCHANGED misread
       ELSE misread' = TRUE /\ UNCHANGED evaluating
    /\ BrokerGoto(b, "ship")
    /\ UNCHANGED <<schedulerVars, toModule, values>>

ShipResults(b) ==
    /\ BrokerIs(b, "ship")
    /\ \E done \in SUBSET evaluating[b] :
        /\ evaluating' = [evaluating EXCEPT ![b] = @ \ done]
        /\ toModule' = [toModule EXCEPT ![b] =
               @ \o [i \in 1 .. Cardinality(done) |-> PackageMessage(SetToSeq(done)[i])]]
    /\ BrokerGoto(b, "query")
    /\ UNCHANGED <<schedulerVars, toBroker, values, misread>>

(* LoadQuery::execute, and back to the sender.                              *)
Executed(queries, load) == [i \in DOMAIN queries |-> LoadMessage(load)]
AnswerQueries(b) ==
    /\ BrokerIs(b, "query")
    /\ toBroker' = [toBroker EXCEPT ![b] = <<>>]
    /\ IF AllAre("query", toBroker[b])
       THEN /\ \E load \in Loads : toModule' =
                   [toModule EXCEPT ![b] = @ \o Executed(toBroker[b], load)]
            /\ UNCHANGED misread
       ELSE misread' = TRUE /\ UNCHANGED toModule
    /\ BrokerGoto(b, "package")
    /\ UNCHANGED <<schedulerVars, evaluating, values>>

-----------------------------------------------------------------------------
(* The value processing thread receives packages from all brokers.          *)
ReceiveValues(b) ==
    /\ ~misread /\ toModule[b] # <<>>
    /\ toModule' = [toModule EXCEPT ![b] = <<>>]
    /\ IF AllAre("package", toModule[b])
       THEN /\ values' = values \cup {m.package : m \in ToSet(toModule[b])}
            /\ UNCHANGED misread
       ELSE misread' = TRUE /\ UNCHANGED values
    /\ UNCHANGED <<schedulerVars, toBroker, serving, evaluating>>

ScheduleStep ==
    StartSchedule \/ SendQuery \/ NextPass \/ ReceiveLoad \/ Assign \/ SendPackages
BrokerStep(b) == ReceivePackagesOf(b) \/ ShipResults(b) \/ AnswerQueries(b)

LoadNext ==
    \/ ScheduleStep
    \/ \E b \in LoadBrokers : BrokerStep(b) \/ ReceiveValues(b)

-----------------------------------------------------------------------------
(* Properties *)

LoadMessages ==
    [kind : {"package"}, package : DOMAIN Amounts] \cup [kind : {"query"}, load : Loads \cup {NoLoad}]
LoadTypeOK ==
    /\ schedulerAt \in {"idle", "query", "receive", "assign"}
    /\ {toSchedule, modelPackages} \subseteq Seq(DOMAIN Amounts)
    /\ broker \in 0 .. NumLoadBrokers /\ numberResponses \in 0 .. NumLoadBrokers
    /\ responses \in [LoadBrokers -> [free : Nat, queued : Nat, total : Nat]]
    /\ assigned \in Seq(LoadBrokers)
    /\ {toBroker, toModule} \subseteq [LoadBrokers -> Seq(LoadMessages)]
    /\ serving \in [LoadBrokers -> {"package", "ship", "query"}]
    /\ evaluating \in [LoadBrokers -> SUBSET DOMAIN Amounts]
    /\ values \subseteq DOMAIN Amounts /\ misread \in BOOLEAN

(* Unless a message was misread, a call of schedule ends, with an answer    *)
(* from every broker, and the packages it assigns come back.                *)
PackagesScheduled ==
    \A p \in DOMAIN Amounts :
        p \in ToSet(modelPackages) ~> misread \/ p \in values
=============================================================================
