--------------------------- MODULE DatabaseAccess ---------------------------
(***************************************************************************)
(* How the threads of adaptive sampling share the interpolation database.   *)
(* The sampling threads interpolate; the value processing thread            *)
(* interpolates, inserts and adds new models.                               *)
(* KrigingInterpolationDatabase.cc guards its library with a lock for       *)
(* readers and writers that prefers writers; PyasInterpolationDatabase.cc   *)
(* calls Python with a mutex and the lock of the interpreter (GIL), which   *)
(* the interpreter lets go of between two instructions, here once in a call *)
(* at most (SwitchGIL).  The receive thread prints statistics at the end,   *)
(* without the database's own lock.                                         *)
(*                                                                         *)
(* Numbers, filters and hints are left out: a call is one that reads or one *)
(* that writes.  If one thread is in the library or in the Python object    *)
(* while another one changes it, nothing is known of either, and nothing    *)
(* more happens here.  No behaviour uses NoWriterInside, a slip.            *)
(***************************************************************************)
EXTENDS Integers

CONSTANT NumSamplers    \* sampling threads
ASSUME DatabaseAssumption == NumSamplers \in Nat

ValueThread == 0
DBThreads == ValueThread .. NumSamplers

VARIABLES
    database,     \* the class of the database
    callAt,       \* where each thread is in its call
    writes,       \* whether it is in insert or addNewModel
    lockHolder,   \* d_lock of the Pyas database: a thread, or "none"
    gilHolder,    \* the lock of the Python interpreter
    printed,      \* whether statistics are still to be printed, or are
    broken        \* an exception has ended the process

access == <<callAt, writes>>
locks == <<lockHolder, gilHolder>>
databaseVars == <<database, access, locks, printed, broken>>

DatabaseInit ==
    /\ database \in {"Kriging", "Pyas"}
    /\ callAt = [t \in DBThreads |-> "out"]
    /\ writes = [t \in DBThreads |-> FALSE]
    /\ lockHolder = "none" /\ gilHolder = "none"
    /\ printed = "no" /\ broken = FALSE

(* The threads in the library or the Python object; one that has let go of  *)
(* the GIL in between is in the middle of a method.                         *)
Inside == {t \in DBThreads : callAt[t] \in {"inside", "switched", "resumed"}}
Conflict == \E t, u \in Inside : t # u /\ writes[t]

CallIs(t, place) == ~broken /\ ~Conflict /\ callAt[t] = place
CallGoto(t, place) == callAt' = [callAt EXCEPT ![t] = place]

(* A thread calls interpolate, insert or addNewModel.                       *)
CallDatabase(t) ==
    /\ CallIs(t, "out")
    /\ \E w \in BOOLEAN :
        /\ w => t = ValueThread
        /\ writes' = [writes EXCEPT ![t] = w]
    /\ CallGoto(t, "waiting")
    /\ UNCHANGED <<database, locks, printed, broken>>

(* Anything the library throws, and a Python call that fails, leaves the    *)
(* thread with its locks held; nothing catches it.                          *)
CallFails(t) ==
    /\ CallIs(t, "inside") \/ CallIs(t, "resumed")
    /\ broken' = TRUE
    /\ UNCHANGED <<database, access, locks, printed>>

-----------------------------------------------------------------------------
(* KrigingInterpolationDatabase: pthread_rwlock_t with the attribute        *)
(* PTHREAD_RWLOCK_PREFER_WRITER_NONRECURSIVE_NP                             *)

NoWriterInside == \A t \in Inside : ~writes[t]
NoWriterWaits ==
    /\ \A t \in Inside : ~writes[t]
    /\ \A t \in DBThreads : callAt[t] = "waiting" => ~writes[t]
LockToRead(t) ==
    /\ database = "Kriging" /\ CallIs(t, "waiting") /\ ~writes[t]
    /\ NoWriterWaits
    /\ CallGoto(t, "inside")
    /\ UNCHANGED <<database, writes, locks, printed, broken>>

LockToWrite(t) ==
    /\ database = "Kriging" /\ CallIs(t, "waiting") /\ writes[t]
    /\ Inside = {}
    /\ CallGoto(t, "inside")
    /\ UNCHANGED <<database, writes, locks, printed, broken>>

UnlockDatabase(t) ==
    /\ database = "Kriging" /\ CallIs(t, "inside")
    /\ CallGoto(t, "out")
    /\ UNCHANGED <<database, writes, locks, printed, broken>>

-----------------------------------------------------------------------------
(* PyasInterpolationDatabase: d_lock, then the GIL                          *)

GILFree == gilHolder = "none"
LockFree == lockHolder = "none"
LockPyas(t) ==
    /\ database = "Pyas" /\ CallIs(t, "waiting")
    /\ LockFree
    /\ lockHolder' = "taken"
    /\ CallGoto(t, "locked")
    /\ UNCHANGED <<database, writes, gilHolder, printed, broken>>

EnsureGIL(t) ==
    /\ CallIs(t, "locked") \/ CallIs(t, "switched")
    /\ GILFree
    /\ gilHolder' = "database"
    /\ CallGoto(t, IF callAt[t] = "locked" THEN "inside" ELSE "resumed")
    /\ UNCHANGED <<database, writes, lockHolder, printed, broken>>

SwitchGIL(t) ==
    /\ database = "Pyas" /\ CallIs(t, "inside")
    /\ gilHolder' = "none"
    /\ CallGoto(t, "switched")
    /\ UNCHANGED <<database, writes, lockHolder, printed, broken>>

UnlockPyas(t) ==
    /\ database = "Pyas"
    /\ CallIs(t, "inside") \/ CallIs(t, "resumed")
    /\ gilHolder' = "none" /\ lockHolder' = "none"
    /\ CallGoto(t, "out")
    /\ UNCHANGED <<database, writes, printed, broken>>

-----------------------------------------------------------------------------
(* The receive thread prints statistics: with no lock, or with the GIL.     *)
BeginStatistics ==
    /\ ~broken /\ ~Conflict /\ printed = "no"
    /\ database = "Pyas" => GILFree
    /\ printed' = "printing"
    /\ gilHolder' = IF database = "Pyas" THEN "statistics" ELSE gilHolder
    /\ UNCHANGED <<database, access, lockHolder, broken>>
EndStatistics ==
    /\ ~broken /\ ~Conflict /\ printed = "printing"
    /\ printed' = "yes"
    /\ gilHolder' = "none"
    /\ UNCHANGED <<database, access, lockHolder, broken>>

CallStep(t) ==
    \/ LockToRead(t) \/ LockToWrite(t) \/ UnlockDatabase(t)
    \/ LockPyas(t) \/ EnsureGIL(t) \/ UnlockPyas(t)

DatabaseNext ==
    \/ \E t \in DBThreads :
           CallDatabase(t) \/ CallStep(t) \/ SwitchGIL(t) \/ CallFails(t)
    \/ BeginStatistics \/ EndStatistics
-----------------------------------------------------------------------------
(* Properties *)

DatabaseTypeOK ==
    /\ database \in {"Kriging", "Pyas"}
    /\ callAt \in [DBThreads -> {"out", "waiting", "locked", "inside", "switched", "resumed"}]
    /\ writes \in [DBThreads -> BOOLEAN]
    /\ lockHolder \in {"none", "taken"}
    /\ gilHolder \in {"none", "database", "statistics"}
    /\ printed \in {"no", "printing", "yes"} /\ broken \in BOOLEAN

(* A result gets into the database although the sampling threads never stop *)
(* reading from it, and no thread ever reads while it is being changed:     *)
(* then nothing would get in any more.                                      *)
ResultsGetIn ==
    callAt[ValueThread] = "waiting" ~> callAt[ValueThread] = "out" \/ broken
=============================================================================
