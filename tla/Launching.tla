------------------------------ MODULE Launching ------------------------------
(***************************************************************************)
(* Launcher::launchModule of comm/Launcher.cc, run by every rank of the     *)
(* launching program, and the constructors of the communicators on both     *)
(* ends.  With sockets a rank starts its modules one after the other, reads *)
(* the address each of them prints and connects to it; when there are more  *)
(* ranks than modules, one rank of each group starts the module and tells   *)
(* the others where it is.  With MPI all ranks spawn the modules together   *)
(* and both sides compute who talks to whom.                                *)
(*                                                                         *)
(* All processes are on one machine, so that there are no tunnels, and the  *)
(* messages with which the ranks pass on an address do not block.           *)
(* IntercommunicatorRankByLauncher is a formula with a slip in it, which no *)
(* behaviour uses.                                                          *)
(***************************************************************************)
EXTENDS Integers, Sequences, FiniteSets, SequencesExt, FiniteSetsExt

CONSTANT
    Launches    \* bound: ranks of the program, modules to launch, and the
                \* type of communicator between them

ASSUME LaunchingAssumption ==
    Launches \subseteq
        (Nat \ {0}) \X (Nat \ {0}) \X {"UnixSocket", "TCPIPSocket", "MPI"}

VARIABLES
    size,           \* ranks of the launching program
    modules,        \* numberServerProcessors
    transport,      \* Communicator.Type
    sharedWorld,    \* MPI_COMM_WORLD consists of these ranks
    rankAt,         \* where each rank is in launchModule
    launched,       \* how many modules it has launched
    address,        \* the module and socket it is to connect to, or none
    communicators,  \* the modules it has communicators to
    mailbox,        \* addresses sent to it by another rank
    moduleAt,       \* where each module is in building its communicators
    moduleRanks,    \* the communicator ranks it was started with
    backlog,        \* module -> per socket bound, the connections to accept
    accepted,       \* the ranks it has accepted
    boundFile       \* the socket that has the name of the Unix file, if any

given == <<size, modules, transport, sharedWorld>>
ranks == <<rankAt, launched, address, communicators, mailbox>>
sides == <<moduleAt, moduleRanks, backlog, accepted, boundFile>>
launchVars == <<given, ranks, sides>>

Ranks == 0 .. size - 1
Modules == 0 .. modules - 1

NoAddress == <<>>

LaunchInit ==
    /\ \E l \in Launches : size = l[1] /\ modules = l[2] /\ transport = l[3]
    /\ sharedWorld \in BOOLEAN
    /\ rankAt = [r \in Ranks |-> "start"]
    /\ launched = [r \in Ranks |-> 0]
    /\ address = [r \in Ranks |-> NoAddress]
    /\ communicators = [r \in Ranks |-> <<>>]
    /\ mailbox = [r \in Ranks |-> <<>>]
    /\ moduleAt = [m \in Modules |-> "absent"]
    /\ moduleRanks = [m \in Modules |-> <<>>]
    /\ backlog = [m \in Modules |-> <<>>]
    /\ accepted = [m \in Modules |-> <<>>]
    /\ boundFile = {}

-----------------------------------------------------------------------------
(* The numbers of connections *)

TotalConnections == Max({size, modules})
Even == TotalConnections % size = 0 /\ TotalConnections % modules = 0
PerModule == TotalConnections \div modules
PerLauncher == TotalConnections \div size

(* The ranks that module m is to talk to, and the modules that rank r is:   *)
(* two formulas, one for each side.                                         *)
GenerateRank(m, j) == ((PerModule * m) \div PerLauncher) + j
CommunicatorRanks(m) == [j \in 1 .. PerModule |-> GenerateRank(m, j - 1)]

IntercommunicatorRankByLauncher(r, i) == (r * PerLauncher + i) \div PerLauncher
IntercommunicatorRank(r, i) == (r * PerLauncher + i) \div PerModule

(* With sockets: the ranks to one module, and what a rank launches itself.  *)
Ratio == IF modules >= size THEN 1 ELSE size \div modules
NumberToLaunch(r) ==
    IF modules >= size THEN modules \div size
    ELSE IF r % Ratio = 0 THEN 1 ELSE 0
ModuleId(r, i) == (r \div Ratio) * NumberToLaunch(r) + i

-----------------------------------------------------------------------------
(* A launching rank *)

RankIs(r, place) == r \in Ranks /\ rankAt[r] = place
RankGoto(r, place) == rankAt' = [rankAt EXCEPT ![r] = place]

(* generateCommunicatorRanks throws when the connections cannot be divided. *)
StartLaunch(r) ==
    /\ RankIs(r, "start")
    /\ RankGoto(r, IF ~Even THEN "failed"
                   ELSE IF transport = "MPI" THEN "spawn" ELSE "launch")
    /\ UNCHANGED <<given, launched, address, communicators, mailbox, sides>>

(* The module gets the i-th list of ranks, not the one of its number; all   *)
(* of them have the same length, and a module with sockets uses no more.    *)
LaunchNextModule(r) ==
    /\ RankIs(r, "launch") /\ launched[r] < NumberToLaunch(r)
    /\ LET m == ModuleId(r, launched[r]) IN
        /\ moduleAt' = [moduleAt EXCEPT ![m] = "bind"]
        /\ moduleRanks' = [moduleRanks EXCEPT ![m] = CommunicatorRanks(launched[r])]
    /\ RankGoto(r, "read")
    /\ UNCHANGED <<given, launched, address, communicators, mailbox>>
    /\ UNCHANGED <<backlog, accepted, boundFile>>

(* readAddress: the first address the module prints, or the end of what it  *)
(* prints.                                                                  *)
ReadAddress(r) ==
    /\ RankIs(r, "read")
    /\ LET m == ModuleId(r, launched[r]) IN
        \/ /\ backlog[m] # <<>>
           /\ address' = [address EXCEPT ![r] = <<m, 1>>]
           /\ RankGoto(r, "connect")
        \/ /\ backlog[m] = <<>> /\ moduleAt[m] = "failed"
           /\ RankGoto(r, "failed")
           /\ UNCHANGED address
    /\ UNCHANGED <<given, launched, communicators, mailbox, sides>>

(* The socket behind an address: all Unix sockets have the same.            *)
Target(r) ==
    IF transport = "UnixSocket" /\ address[r] # NoAddress THEN boundFile
    ELSE {address[r]} \ {NoAddress}

(* It can be connected to once the module listens on it, which is after it  *)
(* has printed the address, and as long as the module lives.                *)
Listening(t) ==
    LET m == t[1] k == t[2] IN
    /\ moduleAt[m] # "failed"
    /\ k = Len(backlog[m]) => moduleAt[m] # "bound"

Connect(r) ==
    /\ RankIs(r, "connect")
    /\ \E t \in Target(r) :
        /\ Listening(t)
        /\ backlog' = [backlog EXCEPT ![t[1]][t[2]] = Append(@, r)]
        /\ communicators' = [communicators EXCEPT ![r] = Append(@, t[1])]
    /\ RankGoto(r, IF transport = "UnixSocket" THEN "unlink" ELSE "connected")
    /\ UNCHANGED <<given, launched, address, mailbox, moduleAt, moduleRanks, accepted, boundFile>>

ConnectRefused(r) ==
    /\ RankIs(r, "connect")
    /\ \A t \in Target(r) : ~Listening(t)
    /\ RankGoto(r, "failed")
    /\ UNCHANGED <<given, launched, address, communicators, mailbox, sides>>

(* The client removes the Unix file, and fails if it is gone.               *)
Unlink(r) ==
    /\ RankIs(r, "unlink")
    /\ boundFile' = {}
    /\ RankGoto(r, IF boundFile = {} THEN "failed" ELSE "connected")
    /\ UNCHANGED <<given, launched, address, communicators, mailbox>>
    /\ UNCHANGED <<moduleAt, moduleRanks, backlog, accepted>>

(* With this communicator a rank goes on to its next module; one that did   *)
(* not launch any is done.                                                  *)
AddCommunicator(r) ==
    /\ RankIs(r, "connected")
    /\ IF NumberToLaunch(r) = 0
       THEN RankGoto(r, "done") /\ UNCHANGED launched
       ELSE RankGoto(r, "launch") /\ launched' = [launched EXCEPT ![r] = @ + 1]
    /\ UNCHANGED <<given, address, communicators, mailbox, sides>>

AllLaunched(r) == RankIs(r, "launch") /\ launched[r] = NumberToLaunch(r)

FinishLaunching(r) ==
    /\ AllLaunched(r) /\ Ratio = 1
    /\ RankGoto(r, "done")
    /\ UNCHANGED <<given, launched, address, communicators, mailbox, sides>>

(* Fan-in needs an MPI world to pass on the address.                        *)
RefuseFanIn(r) ==
    /\ AllLaunched(r) /\ Ratio > 1 /\ ~sharedWorld
    /\ RankGoto(r, "failed")
    /\ UNCHANGED <<given, launched, address, communicators, mailbox, sides>>

(* The rank that launched sends the others of its group the address it has  *)
(* connected to itself, with a host put in front, which makes that of a     *)
(* Unix socket the name of no file.  Then it closes the pipe.               *)
AddressToSend(r) == IF transport = "UnixSocket" THEN NoAddress ELSE address[r]
SendAddress(r) ==
    /\ AllLaunched(r) /\ Ratio > 1 /\ sharedWorld /\ NumberToLaunch(r) = 1
    /\ mailbox' = [q \in Ranks |->
           IF q \in r + 1 .. r + Ratio - 1 THEN Append(mailbox[q], AddressToSend(r))
           ELSE mailbox[q]]
    /\ RankGoto(r, "done")
    /\ UNCHANGED <<given, launched, address, communicators, sides>>

ReceiveAddress(r) ==
    /\ AllLaunched(r) /\ Ratio > 1 /\ sharedWorld /\ NumberToLaunch(r) = 0
    /\ mailbox[r] # <<>>
    /\ address' = [address EXCEPT ![r] = Head(mailbox[r])]
    /\ mailbox' = [mailbox EXCEPT ![r] = Tail(@)]
    /\ RankGoto(r, "connect")
    /\ UNCHANGED <<given, launched, communicators, sides>>

(* MPI_Comm_spawn_multiple, which all ranks of the world enter.             *)
SpawnModules ==
    /\ sharedWorld /\ \A r \in Ranks : RankIs(r, "spawn")
    /\ rankAt' = [r \in Ranks |-> "create"]
    /\ moduleAt' = [m \in Modules |-> "running"]
    /\ moduleRanks' = [m \in Modules |-> CommunicatorRanks(m)]
    /\ UNCHANGED <<given, launched, address, communicators, mailbox>>
    /\ UNCHANGED <<backlog, accepted, boundFile>>

CreateCommunicators(r) ==
    /\ RankIs(r, "create")
    /\ communicators' = [communicators EXCEPT ![r] =
           [i \in 1 .. PerLauncher |-> IntercommunicatorRank(r, i - 1)]]
    /\ RankGoto(r, "done")
    /\ UNCHANGED <<given, launched, address, mailbox, sides>>

-----------------------------------------------------------------------------
(* A module with sockets: for each communicator rank it binds a socket,     *)
(* prints its address, listens and accepts one connection.                  *)

ModuleIs(m, place) == m \in Modules /\ moduleAt[m] = place
ModuleGoto(m, place) == moduleAt' = [moduleAt EXCEPT ![m] = place]

(* Nobody reads what the module prints once the launching rank has sent the *)
(* address on and closed the pipe, or has failed.                           *)
LaunchedBy(m) == CHOOSE r \in Ranks :
    \E i \in 0 .. NumberToLaunch(r) - 1 : ModuleId(r, i) = m
PipeClosed(m) == rankAt[LaunchedBy(m)] \in {"done", "failed"}

(* Binding fails if the Unix file exists; printing into the closed pipe     *)
(* kills the module.                                                        *)
CannotBind(m) == (transport = "UnixSocket" /\ boundFile # {}) \/ PipeClosed(m)
Bind(m) ==
    /\ ModuleIs(m, "bind") /\ ~CannotBind(m)
    /\ backlog' = [backlog EXCEPT ![m] = Append(@, <<>>)]
    /\ boundFile' = IF transport = "UnixSocket" THEN {<<m, Len(backlog'[m])>>} ELSE {}
    /\ ModuleGoto(m, "bound")
    /\ UNCHANGED <<given, ranks, moduleRanks, accepted>>
BindFails(m) ==
    /\ ModuleIs(m, "bind") /\ CannotBind(m)
    /\ ModuleGoto(m, "failed")
    /\ UNCHANGED <<given, ranks, moduleRanks, backlog, accepted, boundFile>>

Listen(m) ==
    /\ ModuleIs(m, "bound")
    /\ ModuleGoto(m, "listen")
    /\ UNCHANGED <<given, ranks, moduleRanks, backlog, accepted, boundFile>>

(* accept on the newest socket; the older ones are never looked at again.   *)
Accept(m) ==
    /\ ModuleIs(m, "listen")
    /\ LET k == Len(backlog[m]) IN
        /\ backlog[m][k] # <<>>
        /\ accepted' = [accepted EXCEPT ![m] = Append(@, Head(backlog[m][k]))]
        /\ backlog' = [backlog EXCEPT ![m][k] = Tail(@)]
    /\ ModuleGoto(m, IF Len(accepted'[m]) = Len(moduleRanks[m]) THEN "running" ELSE "bind")
    /\ UNCHANGED <<given, ranks, moduleRanks, boundFile>>

-----------------------------------------------------------------------------
(* Everybody together *)

RankStep(r) ==
    \/ StartLaunch(r) \/ LaunchNextModule(r) \/ ReadAddress(r)
    \/ Connect(r) \/ ConnectRefused(r) \/ Unlink(r) \/ AddCommunicator(r)
    \/ FinishLaunching(r) \/ RefuseFanIn(r) \/ SendAddress(r) \/ ReceiveAddress(r)
    \/ CreateCommunicators(r)
ModuleStep(m) == Bind(m) \/ BindFails(m) \/ Listen(m) \/ Accept(m)

LaunchNext ==
    \/ \E r \in Ranks : RankStep(r)
    \/ SpawnModules
    \/ \E m \in Modules : ModuleStep(m)

-----------------------------------------------------------------------------
(* Properties *)

LaunchTypeOK ==
    /\ rankAt \in [Ranks -> {"start", "launch", "read", "connect", "unlink",
                             "connected", "spawn", "create", "done", "failed"}]
    /\ launched \in [Ranks -> 0 .. modules]
    /\ communicators \in [Ranks -> Seq(Modules)]
    /\ moduleAt \in [Modules -> {"absent", "bind", "bound", "listen", "running", "failed"}]
    /\ moduleRanks \in [Modules -> Seq(Ranks)]
    /\ accepted \in [Modules -> Seq(Ranks)]
    /\ \A m \in Modules : backlog[m] \in Seq(Seq(Ranks))
    /\ Cardinality(boundFile) <= 1

(* Every rank has returned its communicators, every module runs, and they   *)
(* agree on who talks to whom: a rank has as many communicators to a module *)
(* as the module has for that rank, and all of them have some.              *)
Occurrences(x, seq) == Cardinality({i \in DOMAIN seq : seq[i] = x})
RanksOf(m) == IF transport = "MPI" THEN moduleRanks[m] ELSE accepted[m]
Launched ==
    /\ \A r \in Ranks : rankAt[r] = "done" /\ communicators[r] # <<>>
    /\ \A m \in Modules : moduleAt[m] = "running" /\ RanksOf(m) # <<>>
    /\ \A r \in Ranks, m \in Modules :
           Occurrences(m, communicators[r]) = Occurrences(r, RanksOf(m))

(* An error, which ends the program.                                        *)
LaunchFailed ==
    \/ ~sharedWorld
    \/ \E r \in Ranks : rankAt[r] = "failed"
    \/ \E m \in Modules : moduleAt[m] = "failed"
FanIn == transport # "MPI" /\ Even /\ Ratio > 1
=============================================================================
