-------------------------- MODULE AdaptiveSampling --------------------------
(***************************************************************************)
(* The threads of adaptive_sampling/AdaptiveSampling.cc.  One thread        *)
(* receives requests from the algorithm; the sampling threads answer them   *)
(* from the interpolation database or pile them up for evaluation; the      *)
(* evaluation thread sends the pile to the brokers; the value processing    *)
(* thread puts the results in the database and answers the requests.  The   *)
(* threads share two piles and two counters, each with a lock of its own,   *)
(* and read the counters without the lock.                                  *)
(*                                                                         *)
(* One action is one critical section, or one look at a shared variable,    *)
(* with the work of the thread up to the next one.  There is one algorithm, *)
(* its requests are not SPECULATIVE, and they are known by the ids the      *)
(* receive thread gives them.  The interpolation database answers FALSE at  *)
(* any time, and TRUE only where it has a model.                            *)
(*                                                                         *)
(* Some definitions follow a variant with a slip in it: no behaviour uses   *)
(* it, it shows that the properties would notice.                           *)
(***************************************************************************)
EXTENDS Integers, Sequences, FiniteSets, Functions, SequencesExt, FiniteSetsExt

CONSTANTS
    NumRequests,      \* packages the algorithm sends in a run
    Threads,          \* the sampling threads
    First,            \* the one that has the speculative generator
    NumBrokers,
    ChunkSize,        \* adaptiveSamplingThreadChunkSize (50)
    EvaluationLimit,  \* d_evaluationLimit and d_speculativeEvaluationLimit
    StencilSize,      \* request -> points generateSampleArguments returns for it
    Faults,           \* what may go wrong around the threads, one kind in a run
    MaxSent,          \* bound: kind -> requests sent in such a run
    MaxSpeculative    \* bound: kind -> speculative evaluations generated in such a run

ASSUME SamplingAssumption ==
    /\ NumRequests \in Nat /\ ChunkSize \in Nat \ {0}
    /\ IsFiniteSet(Threads) /\ First \in Threads
    /\ NumBrokers \in Nat \ {0}
    /\ EvaluationLimit \in Nat \ {0}
    /\ StencilSize \in [1 .. NumRequests -> Nat]
    /\ Faults \subseteq {"leave", "broker", "model"}
    /\ MaxSent \in [Faults -> 0 .. NumRequests]
    /\ MaxSpeculative \in [Faults -> Nat]

Requests == 1 .. NumRequests
Brokers == 0 .. NumBrokers - 1

(* A model package: the request of an id, a sample of the stencil around    *)
(* it, or a speculative evaluation, which has the id a package starts with. *)
Package(id, kind, n) == [id |-> id, kind |-> kind, n |-> n, value |-> "none"]
IsRegular(p) == p.kind # "speculative"

VARIABLES
    \* the algorithm
    sent,         \* how many requests it has sent
    answers,      \* what it was sent back
    undelivered,  \* what was sent to it after it had left
    left,         \* it has closed its connection
    \* receive thread
    isConnected,  \* d_isConnected
    received,     \* requests received so far: the next id
    receivePile,  \* d_algorithmReceivePile
    \* sampling threads
    spc,          \* where each of them is
    work,         \* its modelPackages, from the iterator on
    held,         \* its heldEvaluations
    hasTemplate,  \* whether it has a modelPackageTemplate
    uncounted,    \* how many failedSpeculativeEvaluations it has yet to count
    \* shared
    pile,         \* d_evaluationPile
    numberEvaluations, numberSpeculative,
    hasModel,     \* the database has a model around the arguments of the run
    generated,    \* how many speculative evaluations were generated
    \* evaluation thread
    epc, nextBroker,
    \* brokers
    atBroker,     \* the packages each of them evaluates
    results,      \* those on their way back from it
    dead,         \* brokers that have ended
    \* value processing thread
    vpc,
    vb,           \* the broker of this round
    batch,        \* modelPackages, from the iterator on
    current,      \* the package to be shipped next, or none
    extra,        \* newModelPackages not on the pile yet
    additional,   \* additionalEvaluationMap
    speculative,  \* speculativeEvaluations
    completed, completedSpeculative,
    \* the process
    fault,        \* what may go wrong in this behaviour
    process       \* "running", or "died" of an uncaught exception

algorithm == <<sent, answers, undelivered, left>>
receiver  == <<isConnected, received, receivePile>>
samplers  == <<spc, work, held, hasTemplate, uncounted>>
counters  == <<numberEvaluations, numberSpeculative>>
sender    == <<epc, nextBroker>>
outcome   == <<fault, process>>
brokers   == <<atBroker, results, dead>>
round     == <<vb, batch, completed, completedSpeculative>>
values    == <<vpc, round, current, extra, additional, speculative>>
vars == <<algorithm, receiver, samplers, pile, counters, hasModel, generated,
          sender, brokers, values, outcome>>

Running == process = "running"

Init ==
    /\ sent = 0 /\ answers = <<>> /\ undelivered = {} /\ left = FALSE
    /\ isConnected = TRUE /\ received = 0 /\ receivePile = <<>>
    /\ spc = [t \in Threads |-> "take"]
    /\ work = [t \in Threads |-> <<>>]
    /\ held = [t \in Threads |-> <<>>]
    /\ hasTemplate = [t \in Threads |-> FALSE]
    /\ uncounted = [t \in Threads |-> 0]
    /\ pile = <<>> /\ numberEvaluations = 0 /\ numberSpeculative = 0
    /\ hasModel = FALSE /\ generated = 0
    /\ epc = "take" /\ nextBroker = 0
    /\ atBroker = [b \in Brokers |-> {}]
    /\ results = [b \in Brokers |-> <<>>]
    /\ dead = {}
    /\ vpc = "receive" /\ vb = 0 /\ batch = <<>> /\ current = <<>> /\ extra = <<>>
    /\ additional = <<>> /\ speculative = {}
    /\ completed = 0 /\ completedSpeculative = 0
    /\ process = "running" /\ fault \in Faults

-----------------------------------------------------------------------------
(* The algorithm, and the brokers *)

SendRequest ==
    /\ Running /\ ~left /\ sent < MaxSent[fault]
    /\ sent' = sent + 1
    /\ UNCHANGED <<answers, undelivered, left, receiver, samplers, pile, counters, hasModel, generated>>
    /\ UNCHANGED <<sender, brokers, values, outcome>>

Leave ==
    /\ fault = "leave"
    /\ Running /\ ~left
    /\ left' = TRUE
    /\ UNCHANGED <<sent, answers, undelivered, receiver, samplers, pile, counters, hasModel, generated>>
    /\ UNCHANGED <<sender, brokers, values, outcome>>

(* A broker ends an evaluation; only a speculative one may come back        *)
(* without a value (AnswersCarryValues of Broker).                          *)
Evaluate(b) ==
    /\ Running /\ b \notin dead
    /\ \E p \in atBroker[b], v \in {"value", "empty"} :
        /\ IsRegular(p) => v = "value"
        /\ atBroker' = [atBroker EXCEPT ![b] = @ \ {p}]
        /\ results' = [results EXCEPT ![b] = Append(@, [p EXCEPT !.value = v])]
    /\ UNCHANGED <<algorithm, receiver, samplers, pile, counters, hasModel, generated>>
    /\ UNCHANGED <<sender, dead, values, outcome>>

BrokerEnds(b) ==
    /\ fault = "broker"
    /\ Running /\ b \notin dead
    /\ dead' = dead \cup {b}
    /\ UNCHANGED <<algorithm, receiver, samplers, pile, counters, hasModel, generated>>
    /\ UNCHANGED <<sender, atBroker, results, values, outcome>>

(* d_algorithmWarehouse->ship: with the algorithm gone the object may still *)
(* be taken by the system, or an exception that nothing catches ends the    *)
(* process.                                                                 *)
Ship(p) ==
    \/ /\ ~left
       /\ answers' = Append(answers, p)
       /\ UNCHANGED <<undelivered, process>>
    \/ /\ left
       /\ undelivered' = undelivered \cup {p}
       /\ process' \in {"running", "died"}
       /\ UNCHANGED answers

-----------------------------------------------------------------------------
(* algorithmWarehouseReceiveThread *)

(* Requests that have arrived get their ids and go on the receive pile.     *)
ReceiveRequests ==
    /\ Running /\ isConnected
    /\ \E k \in received + 1 .. sent :
        /\ receivePile' = receivePile \o
               [i \in 1 .. k - received |-> Package(received + i, "request", 0)]
        /\ received' = k
    /\ UNCHANGED <<algorithm, isConnected, samplers, pile, counters, hasModel, generated>>
    /\ UNCHANGED <<sender, brokers, values, outcome>>

(* The connection has ended and everything it brought was received.         *)
AlgorithmHasLeft == left /\ received = sent
ReceiveTerminationAndReturn ==
    /\ Running /\ isConnected /\ AlgorithmHasLeft
    /\ UNCHANGED vars
ReceiveTermination ==
    /\ Running /\ isConnected /\ AlgorithmHasLeft
    /\ isConnected' = FALSE
    /\ UNCHANGED <<algorithm, received, receivePile, samplers, pile, counters, hasModel>>
    /\ UNCHANGED <<generated, sender, brokers, values, outcome>>

-----------------------------------------------------------------------------
(* adaptiveSamplingThread *)

InterpolationResults == IF hasModel THEN {TRUE, FALSE} ELSE {FALSE}

At(t, place) == Running /\ spc[t] = place
Goto(t, place) == spc' = [spc EXCEPT ![t] = place]

HasGenerator(t) == t = First

(* Where a thread is with rest left to do: at the top of its loop, unless   *)
(* it has a generator.                                                      *)
After(t, rest) ==
    IF rest = <<>> /\ ~HasGenerator(t) THEN "take" ELSE "work"

(* A chunk of the receive pile, and what the thread held back last time.    *)
TakenWithoutHeld(t, n) == SubSeq(receivePile, 1, n)
Taken(t, n) == SubSeq(receivePile, 1, n) \o held[t]
TakeWork(t) ==
    /\ At(t, "take") /\ isConnected
    /\ receivePile # <<>> \/ held[t] # <<>> \/ (hasTemplate[t] /\ HasGenerator(t))
    /\ LET n == Min({ChunkSize, Len(receivePile)}) IN
        /\ work' = [work EXCEPT ![t] = Taken(t, n)]
        /\ receivePile' = SubSeq(receivePile, n + 1, Len(receivePile))
    /\ held' = [held EXCEPT ![t] = <<>>]
    /\ hasTemplate' = [hasTemplate EXCEPT ![t] = @ \/ work'[t] # <<>>]
    /\ Goto(t, "work")
    /\ UNCHANGED <<algorithm, isConnected, received, uncounted, pile, counters, hasModel>>
    /\ UNCHANGED <<generated, sender, brokers, values, outcome>>

(* The next package can be interpolated and gets its value.                 *)
Interpolate(t) ==
    /\ At(t, "work") /\ work[t] # <<>>
    /\ TRUE \in InterpolationResults
    /\ work' = [work EXCEPT ![t][1].value = "value"]
    /\ Goto(t, "ship")
    /\ UNCHANGED <<algorithm, receiver, held, hasTemplate, uncounted, pile, counters>>
    /\ UNCHANGED <<hasModel, generated, sender, brokers, values, outcome>>

ShipInterpolated(t) ==
    /\ At(t, "ship")
    /\ Ship(Head(work[t]))
    /\ work' = [work EXCEPT ![t] = Tail(@)]
    /\ Goto(t, After(t, Tail(work[t])))
    /\ UNCHANGED <<fault, sent, left, receiver, held, hasTemplate, uncounted, pile, counters>>
    /\ UNCHANGED <<hasModel, generated, sender, brokers, values>>

(* The limit is compared without d_numberEvaluationsLock.                   *)
NotAboveLimit == numberEvaluations <= EvaluationLimit
BelowLimit == numberEvaluations < EvaluationLimit

(* It cannot be interpolated, and goes on the evaluation pile; it is        *)
(* counted later, under the other lock.                                     *)
PileUp(t) ==
    /\ At(t, "work") /\ work[t] # <<>>
    /\ FALSE \in InterpolationResults /\ BelowLimit
    /\ pile' = Append(pile, Head(work[t]))
    /\ work' = [work EXCEPT ![t] = Tail(@)]
    /\ Goto(t, "count")
    /\ UNCHANGED <<algorithm, receiver, held, hasTemplate, uncounted, counters, hasModel>>
    /\ UNCHANGED <<generated, sender, brokers, values, outcome>>

CountEvaluation(t) ==
    /\ At(t, "count")
    /\ numberEvaluations' = numberEvaluations + 1
    /\ Goto(t, After(t, work[t]))
    /\ UNCHANGED <<algorithm, receiver, work, held, hasTemplate, uncounted, pile>>
    /\ UNCHANGED <<numberSpeculative, hasModel, generated, sender, brokers, values, outcome>>

(* The limit is reached: the thread keeps the package and tries again.      *)
HoldBack(t) ==
    /\ At(t, "work") /\ work[t] # <<>>
    /\ FALSE \in InterpolationResults /\ ~BelowLimit
    /\ held' = [held EXCEPT ![t] = Append(@, Head(work[t]))]
    /\ work' = [work EXCEPT ![t] = Tail(@)]
    /\ Goto(t, After(t, Tail(work[t])))
    /\ UNCHANGED <<algorithm, receiver, hasTemplate, uncounted, pile, counters>>
    /\ UNCHANGED <<hasModel, generated, sender, brokers, values, outcome>>

RoomAtFirst == EvaluationLimit
Room == EvaluationLimit - numberSpeculative

(* Up to as many speculative evaluations as the limit has room for; those   *)
(* that cannot be interpolated go on the pile and are counted afterwards.   *)
Generate(t) ==
    /\ At(t, "work") /\ work[t] = <<>>
    /\ hasTemplate[t] /\ HasGenerator(t)
    /\ \E n \in 1 .. Room :
        /\ generated + n <= MaxSpeculative[fault]
        /\ pile' = pile \o [i \in 1 .. n |-> Package(0, "speculative", generated + i)]
        /\ generated' = generated + n
        /\ uncounted' = [uncounted EXCEPT ![t] = n]
    /\ Goto(t, "countSpeculative")
    /\ UNCHANGED <<algorithm, receiver, work, held, hasTemplate, counters, hasModel>>
    /\ UNCHANGED <<sender, brokers, values, outcome>>

CountSpeculative(t) ==
    /\ At(t, "countSpeculative")
    /\ numberSpeculative' = numberSpeculative + uncounted[t]
    /\ uncounted' = [uncounted EXCEPT ![t] = 0]
    /\ Goto(t, "take")
    /\ UNCHANGED <<algorithm, receiver, work, held, hasTemplate, pile, numberEvaluations>>
    /\ UNCHANGED <<hasModel, generated, sender, brokers, values, outcome>>

(* Nothing is generated, or all of it can be interpolated.                  *)
GenerateNothing(t) ==
    /\ At(t, "work") /\ work[t] = <<>>
    /\ Goto(t, "take")
    /\ UNCHANGED <<algorithm, receiver, work, held, hasTemplate, uncounted, pile, counters>>
    /\ UNCHANGED <<hasModel, generated, sender, brokers, values, outcome>>

EndSampling(t) ==
    /\ At(t, "take") /\ ~isConnected
    /\ Goto(t, "done")
    /\ UNCHANGED <<algorithm, receiver, work, held, hasTemplate, uncounted, pile, counters>>
    /\ UNCHANGED <<hasModel, generated, sender, brokers, values, outcome>>

-----------------------------------------------------------------------------
(* evaluationThread, with the round robin scheduler *)

(* AdaptiveSamplingRoundRobinScheduler: the broker n packages from now.     *)
TurnPastEnd(n) == nextBroker + n
Turn(n) == (nextBroker + n) % NumBrokers

(* The whole pile is taken under its lock, spread over the brokers in turn, *)
(* and sent.  Nobody but the brokers sees the sending, so it is part of the *)
(* action.  What is sent to a broker that has ended is lost, or the failed  *)
(* send ends the process.                                                   *)
SendPile ==
    /\ Running /\ epc = "take" /\ isConnected
    /\ pile # <<>>
    /\ LET to(b) == {i \in DOMAIN pile : Turn(i - 1) = b} IN
        /\ atBroker' = [b \in Brokers |-> atBroker[b] \cup {pile[i] : i \in to(b)}]
        /\ process' \in IF \E b \in dead : to(b) # {} THEN {"running", "died"} ELSE {"running"}
    /\ nextBroker' = Turn(Len(pile))
    /\ pile' = <<>>
    /\ UNCHANGED <<fault, algorithm, receiver, samplers, counters, hasModel, generated>>
    /\ UNCHANGED <<epc, results, dead, values>>

EndEvaluation ==
    /\ Running /\ epc = "take" /\ ~isConnected
    /\ epc' = "done"
    /\ UNCHANGED <<algorithm, receiver, samplers, pile, counters, hasModel, generated>>
    /\ UNCHANGED <<nextBroker, brokers, values, outcome>>

-----------------------------------------------------------------------------
(* valueProcessingThread *)

(* d_isConnected is tested before the first broker of a pass only.          *)
InPass == vb = 0 => isConnected
NextBroker == vb' = (vb + 1) % NumBrokers

ReceiveResults ==
    /\ Running /\ vpc = "receive" /\ InPass
    /\ results[vb] # <<>> \/ (speculative # {} /\ vb \notin dead)
    /\ batch' = results[vb]
    /\ results' = [results EXCEPT ![vb] = <<>>]
    /\ vpc' = "process"
    /\ UNCHANGED <<algorithm, receiver, samplers, pile, counters, hasModel, generated>>
    /\ UNCHANGED <<sender, atBroker, dead, vb, current, extra, additional, speculative>>
    /\ UNCHANGED <<completed, completedSpeculative, outcome>>

(* With nothing received and nothing kept the round changes nothing.        *)
ReceiveNoResults ==
    /\ Running /\ vpc = "receive" /\ InPass
    /\ results[vb] = <<>> /\ speculative = {} /\ vb \notin dead
    /\ NextBroker
    /\ UNCHANGED <<algorithm, receiver, samplers, pile, counters, hasModel, generated>>
    /\ UNCHANGED <<sender, brokers, vpc, batch, current, extra, additional, speculative>>
    /\ UNCHANGED <<completed, completedSpeculative, outcome>>

(* The communicator of a broker that has ended throws, and nothing in the   *)
(* thread catches it.                                                       *)
ReceiveKills ==
    /\ Running /\ vpc = "receive" /\ InPass
    /\ results[vb] = <<>> /\ vb \in dead
    /\ process' = "died"
    /\ UNCHANGED <<fault, algorithm, receiver, samplers, pile, counters, hasModel, generated>>
    /\ UNCHANGED <<sender, brokers, values>>

Processing == Running /\ vpc = "process" /\ batch # <<>>
Result == Head(batch)

KeepSpeculative ==
    /\ Processing /\ ~IsRegular(Result)
    /\ speculative' = speculative \cup {Result}
    /\ completedSpeculative' = completedSpeculative + 1
    /\ batch' = Tail(batch)
    /\ UNCHANGED <<algorithm, receiver, samplers, pile, counters, hasModel, generated>>
    /\ UNCHANGED <<sender, brokers, vpc, vb, current, extra, additional, completed, outcome>>

(* The result is one for the algorithm if its id is not in the map.         *)
IsForAnyone(p) == TRUE
IsForAlgorithm(p) == p.id \notin DOMAIN additional
ForAlgorithm ==
    /\ Processing /\ IsRegular(Result)
    /\ IsForAlgorithm(Result)
    /\ completed' = completed + 1
    /\ batch' = Tail(batch)
    /\ current' = <<Result>>

(* It could be inserted, or by now be interpolated.                         *)
InsertResult ==
    /\ ForAlgorithm /\ hasModel
    /\ vpc' = "ship"
    /\ UNCHANGED <<algorithm, receiver, samplers, pile, counters, hasModel, generated>>
    /\ UNCHANGED <<sender, brokers, vb, extra, additional, speculative>>
    /\ UNCHANGED <<completedSpeculative, outcome>>

(* It could not: the points around it are to be evaluated as well, which    *)
(* the counter is told first.                                               *)
StencilWithoutCenter(p) == [needed |-> StencilSize[p.id], members |-> <<p>>]
StencilAround(p) == [needed |-> StencilSize[p.id] + 1, members |-> <<p>>]
Samples(id) == [i \in 1 .. StencilSize[id] |-> Package(id, "sample", i)]
StartStencil ==
    /\ ForAlgorithm
    /\ extra' = Samples(Result.id)
    /\ additional' = [id \in DOMAIN additional \cup {Result.id} |->
           IF id \in DOMAIN additional THEN additional[id] ELSE StencilAround(Result)]
    /\ numberEvaluations' = numberEvaluations + StencilSize[Result.id]
    /\ vpc' = "push"
    /\ UNCHANGED <<algorithm, receiver, samplers, pile, numberSpeculative, hasModel>>
    /\ UNCHANGED <<generated, sender, brokers, vb, speculative, completedSpeculative, outcome>>

PushSamples ==
    /\ Running /\ vpc = "push"
    /\ pile' = extra \o pile
    /\ extra' = <<>>
    /\ vpc' = "ship"
    /\ UNCHANGED <<algorithm, receiver, samplers, counters, hasModel, generated>>
    /\ UNCHANGED <<sender, brokers, round, current, additional, speculative, outcome>>

ShipResult ==
    /\ Running /\ vpc = "ship"
    /\ Ship(Head(current))
    /\ current' = <<>>
    /\ vpc' = "process"
    /\ UNCHANGED <<fault, sent, left, receiver, samplers, pile, counters, hasModel, generated>>
    /\ UNCHANGED <<sender, brokers, round, extra, additional, speculative>>

(* A result whose id is in the map belongs to a stencil.                    *)
ForStencil ==
    /\ Processing /\ IsRegular(Result)
    /\ ~IsForAlgorithm(Result)
    /\ completed' = completed + 1
    /\ batch' = Tail(batch)
Gathered == Append(additional[Result.id].members, Result)

GatherSample ==
    /\ ForStencil
    /\ Len(Gathered) # additional[Result.id].needed
    /\ additional' = [additional EXCEPT ![Result.id].members = Gathered]
    /\ UNCHANGED <<algorithm, receiver, samplers, pile, counters, hasModel, generated>>
    /\ UNCHANGED <<sender, brokers, vpc, vb, current, extra, speculative>>
    /\ UNCHANGED <<completedSpeculative, outcome>>

(* The stencil is complete and makes a new model; if it does not, the       *)
(* thread throws InvalidArgument.                                           *)
AddNewModel ==
    /\ ForStencil
    /\ Len(Gathered) = additional[Result.id].needed
    /\ \/ hasModel' = TRUE /\ UNCHANGED process
       \/ fault = "model" /\ process' = "died" /\ UNCHANGED hasModel
    /\ additional' = Restrict(additional, DOMAIN additional \ {Result.id})
    /\ UNCHANGED <<fault, algorithm, receiver, samplers, pile, counters, generated>>
    /\ UNCHANGED <<sender, brokers, vpc, vb, current, extra, speculative>>
    /\ UNCHANGED completedSpeculative

(* The batch is done: the counters are taken down, one after the other.     *)
AllResults == completed + completedSpeculative
RegularResults == completed
CountResults ==
    /\ Running /\ vpc = "process" /\ batch = <<>>
    /\ numberEvaluations' = numberEvaluations - RegularResults
    /\ completed' = 0
    /\ vpc' = "speculate"
    /\ UNCHANGED <<algorithm, receiver, samplers, pile, numberSpeculative, hasModel, generated>>
    /\ UNCHANGED <<sender, brokers, vb, batch, current, extra, additional, speculative>>
    /\ UNCHANGED <<completedSpeculative, outcome>>

(* Speculative results with a value are interpolated, or inserted, or kept  *)
(* for the next round; those without one are forgotten.                     *)
HandleSpeculative ==
    /\ Running /\ vpc = "speculate"
    /\ numberSpeculative' = numberSpeculative - completedSpeculative
    /\ completedSpeculative' = 0
    /\ LET valued == {p \in speculative : p.value = "value"} IN
        /\ speculative' \in SUBSET valued
        /\ ~hasModel => speculative' = valued
    /\ NextBroker
    /\ vpc' = "receive"
    /\ UNCHANGED <<algorithm, receiver, samplers, pile, numberEvaluations, hasModel>>
    /\ UNCHANGED <<generated, sender, brokers, batch, current, extra, additional>>
    /\ UNCHANGED <<completed, outcome>>

EndValueProcessing ==
    /\ Running /\ vpc = "receive" /\ ~InPass
    /\ vpc' = "done"
    /\ UNCHANGED <<algorithm, receiver, samplers, pile, counters, hasModel, generated>>
    /\ UNCHANGED <<sender, brokers, round, current, extra, additional, speculative, outcome>>

-----------------------------------------------------------------------------
(* The threads together *)

Receiving == ReceiveRequests \/ ReceiveTermination

Sampling(t) ==
    \/ TakeWork(t) \/ Interpolate(t) \/ ShipInterpolated(t)
    \/ PileUp(t) \/ CountEvaluation(t) \/ HoldBack(t)
    \/ Generate(t) \/ CountSpeculative(t) \/ GenerateNothing(t) \/ EndSampling(t)

Sending == SendPile \/ EndEvaluation

ValueProcessing ==
    \/ ReceiveResults \/ ReceiveNoResults \/ ReceiveKills
    \/ KeepSpeculative \/ InsertResult \/ StartStencil \/ PushSamples \/ ShipResult
    \/ GatherSample \/ AddNewModel
    \/ CountResults \/ HandleSpeculative
    \/ EndValueProcessing

ThreadsDone ==
    /\ ~isConnected
    /\ \A t \in Threads : spc[t] = "done"
    /\ epc = "done" /\ vpc = "done"

Next ==
    \/ SendRequest \/ Leave
    \/ \E b \in Brokers : Evaluate(b) \/ BrokerEnds(b)
    \/ Receiving \/ Sending \/ ValueProcessing
    \/ \E t \in Threads : Sampling(t)

Spec == Init /\ [][Next]_vars

(* Every thread is scheduled, and a broker ends its evaluations.            *)
Fairness ==
    /\ WF_vars(Receiving) /\ WF_vars(Sending) /\ WF_vars(ValueProcessing)
    /\ \A t \in Threads : WF_vars(Sampling(t))
    /\ \A b \in Brokers : WF_vars(Evaluate(b))
FairSpec == Spec /\ Fairness

-----------------------------------------------------------------------------
(* Properties *)

Kinds == {"request", "sample", "speculative"}
PackageType ==
    {p \in [id : 0 .. NumRequests, kind : Kinds, n : Nat, value : {"none", "value", "empty"}] :
        /\ p.kind = "request" => p.id # 0 /\ p.n = 0
        /\ p.kind = "sample" => p.id # 0 /\ p.n \in 1 .. StencilSize[p.id]
        /\ p.kind = "speculative" => p.id = 0 /\ p.n \in 1 .. MaxSpeculative[fault]}

(* Every variable keeps its type, and threads are only where their code is. *)
AlgorithmTypeOK ==
    /\ sent \in 0 .. NumRequests /\ left \in BOOLEAN
    /\ answers \in Seq(PackageType) /\ undelivered \subseteq PackageType
ReceiverTypeOK ==
    /\ isConnected \in BOOLEAN /\ received \in 0 .. sent
    /\ receivePile \in Seq(PackageType)
SamplersTypeOK ==
    /\ spc \in [Threads ->
           {"take", "work", "ship", "count", "countSpeculative", "done"}]
    /\ work \in [Threads -> Seq(PackageType)] /\ held \in [Threads -> Seq(PackageType)]
    /\ hasTemplate \in [Threads -> BOOLEAN] /\ uncounted \in [Threads -> Nat]
SharedTypeOK ==
    /\ pile \in Seq(PackageType)
    /\ numberEvaluations \in Int /\ numberSpeculative \in Int
    /\ hasModel \in BOOLEAN /\ generated \in 0 .. MaxSpeculative[fault]
BrokersTypeOK ==
    /\ epc \in {"take", "done"} /\ nextBroker \in Brokers
    /\ atBroker \in [Brokers -> SUBSET PackageType]
    /\ results \in [Brokers -> Seq(PackageType)]
    /\ dead \subseteq Brokers
ValuesTypeOK ==
    /\ vpc \in {"receive", "process", "push", "ship", "speculate", "done"}
    /\ vb \in Brokers /\ speculative \subseteq PackageType
    /\ batch \in Seq(PackageType) /\ current \in Seq(PackageType)
    /\ extra \in Seq(PackageType)
    /\ DOMAIN additional \subseteq Requests
    /\ additional \in [DOMAIN additional -> [needed : Nat, members : Seq(PackageType)]]
    /\ completed \in Nat /\ completedSpeculative \in Nat
TypeOK ==
    /\ fault \in Faults /\ process \in {"running", "died"}
    /\ AlgorithmTypeOK /\ ReceiverTypeOK /\ SamplersTypeOK
    /\ SharedTypeOK /\ BrokersTypeOK /\ ValuesTypeOK

(* The packages on their way from the evaluation pile to the place where    *)
(* the value processing thread looks at them.                               *)
Evaluating ==
    Range(pile)
    \cup (UNION {atBroker[b] : b \in Brokers})
    \cup (UNION {Range(results[b]) : b \in Brokers})
    \cup Range(batch)
RegularEvaluating == {p \in Evaluating : IsRegular(p)}
SpeculativeEvaluating == {p \in Evaluating : ~IsRegular(p)}

(* The counter the limit is compared with is the number of regular packages *)
(* being evaluated, but for those a thread has just piled up and not yet    *)
(* counted, counted and not yet piled up, or finished in the batch at hand: *)
(* no order of the two locks makes it drift, so it is 0 again when nothing  *)
(* is left to do.                                                           *)
EvaluationsCounted ==
    numberEvaluations + Cardinality({t \in Threads : spc[t] = "count"})
        = Cardinality(RegularEvaluating) + completed + Len(extra)

(* Though the limit is tested without its lock, the requests being          *)
(* evaluated exceed it by at most one for every sampling thread but one.    *)
LimitKept ==
    Cardinality({p \in Evaluating : p.kind = "request"})
        <= EvaluationLimit + Cardinality(Threads) - 1

(* No more speculative evaluations are under way than the limit, and the    *)
(* room left for them, which generate takes as an unsigned number, is never *)
(* negative, although the counter is read without its lock and taken down   *)
(* by another thread.                                                       *)
SpeculationBounded ==
    /\ Cardinality(SpeculativeEvaluating) <= EvaluationLimit
    /\ Room >= 0

(* A sample of a stencil is only ever evaluated while the map waits for it, *)
(* so it cannot be mistaken for a request and shipped; the map waits for    *)
(* exactly those that are on their way.                                     *)
SamplesUnderway(id) ==
    {p \in Evaluating \cup Range(extra) : p.kind = "sample" /\ p.id = id}
StencilsTracked ==
    /\ \A p \in Evaluating : p.kind = "sample" => p.id \in DOMAIN additional
    /\ \A id \in DOMAIN additional :
        LET members == additional[id].members IN
        /\ Len(members) + Cardinality(SamplesUnderway(id)) = additional[id].needed
        /\ IsInjective(members) /\ \A p \in Range(members) : p.id = id
        /\ members[1].kind = "request"

(* A request the algorithm sent is answered, also one that a thread holds   *)
(* back because of the limit, unless the algorithm leaves or the process    *)
(* dies.                                                                    *)
Answered(r) == \E i \in DOMAIN answers : answers[i].id = r
RequestsAnswered ==
    \A r \in Requests : sent >= r ~> Answered(r) \/ left \/ ~Running

(* Once the algorithm has left, every thread ends, so that the destructor   *)
(* can join them.                                                           *)
ThreadsEnd == left ~> ThreadsDone \/ ~Running

-----------------------------------------------------------------------------
(* The module answers requests as a broker does. *)

Everywhere ==
    Evaluating \cup Range(answers) \cup undelivered \cup Range(current)
    \cup (UNION {Range(work[t]) : t \in Threads})
    \cup (UNION {Range(additional[id].members) : id \in DOMAIN additional})
HasValue(r) ==
    \E p \in Everywhere : p.id = r /\ p.kind = "request" /\ p.value = "value"

(* A second answer with an id, or one to a package nobody sent, has a       *)
(* status the service does not know.                                        *)
AnswersTo(r) == {i \in DOMAIN answers : answers[i].id = r}
ServiceStatus == [r \in 0 .. NumRequests |->
    CASE AnswersTo(r) # {} /\ (r = 0 \/ Cardinality(AnswersTo(r)) > 1) -> "too many"
      [] AnswersTo(r) # {} -> "answered"
      [] r > sent \/ r = 0 -> "unsubmitted"
      [] OTHER -> "submitted"]

Service == INSTANCE EvaluationService WITH
    Packages <- 0 .. NumRequests, Speculative <- {}, MaxEvaluations <- 0,
    status <- ServiceStatus,
    attempts <- [r \in 0 .. NumRequests |-> IF HasValue(r) THEN 1 ELSE 0],
    result <- [r \in 0 .. NumRequests |-> IF HasValue(r) THEN "value" ELSE "none"],
    serving <- Running

(* To the algorithm the module is a broker: each request is answered once,  *)
(* with a value, and neither samples nor speculative evaluations are.       *)
ImplementsService == Service!Spec
=============================================================================
