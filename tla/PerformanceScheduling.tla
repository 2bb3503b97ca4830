------------------------ MODULE PerformanceScheduling ------------------------
(***************************************************************************)
(* AdaptiveSamplingPerformanceScheduler.cc: the evaluation thread asks it   *)
(* for brokers, one model package after the other, and the value processing *)
(* thread tells it how long evaluations took.  It puts packages in bins by  *)
(* the norm of their argument and predicts that all packages of a bin take  *)
(* as long as the one it measured; AdaptiveSamplingFactory asks for one     *)
(* measurement in each bin.                                                 *)
(*                                                                         *)
(* Norms and times are natural numbers.  There is no lock between the two   *)
(* threads; a prediction is read and written in one piece.  LeastWorkInMost *)
(* is a slip: no behaviour uses it.                                         *)
(***************************************************************************)
EXTENDS Integers, Sequences

CONSTANTS
    NumPerformanceBrokers,    \* d_numberBrokers
    NumBins, BinDelta, MinArgument,
    PackageNorm,              \* bound: the norms of the packages to schedule
    LongestTime               \* bound: how long an evaluation takes at most

ASSUME PerformanceAssumption ==
    /\ NumPerformanceBrokers \in Nat \ {0} /\ NumBins \in Nat \ {0}
    /\ BinDelta \in Nat \ {0} /\ MinArgument \in Nat
    /\ PackageNorm \in Seq(Nat) /\ LongestTime \in Nat

VARIABLES
    roundRobinIndex,    \* d_roundRobinIndex
    accumulatedTime,    \* d_accumulatedTime
    measured,           \* d_times
    scheduled,          \* how many of the packages were scheduled
    underEvaluation     \* those that are not evaluated yet

performanceVars == <<roundRobinIndex, accumulatedTime, measured, scheduled, underEvaluation>>

PerformanceBrokers == 0 .. NumPerformanceBrokers - 1

(* One bin for what is below MinArgument, one for what is above the last.   *)
LastBin == NumBins + 1
ComputeBin(norm) ==
    LET bin == (norm - MinArgument) \div BinDelta + 1
    IN  IF bin < 0 THEN 0 ELSE IF bin > LastBin THEN LastBin ELSE bin

(* d_timeFit, where 0 means that there is no prediction.                    *)
PredictedTime(bin) == IF measured[bin] = <<>> THEN 0 ELSE measured[bin][1]

PerformanceInit ==
    /\ roundRobinIndex = 0
    /\ accumulatedTime = [b \in PerformanceBrokers |-> 0]
    /\ measured = [bin \in 0 .. LastBin |-> <<>>]
    /\ scheduled = 0 /\ underEvaluation = {}

(* std::min_element                                                         *)
LeastWorkInMost(b) ==
    /\ \A c \in PerformanceBrokers \ {NumPerformanceBrokers - 1} :
           accumulatedTime[b] <= accumulatedTime[c]
    /\ \A c \in 0 .. b - 1 : accumulatedTime[b] < accumulatedTime[c]
LeastWork(b) ==
    /\ \A c \in PerformanceBrokers : accumulatedTime[b] <= accumulatedTime[c]
    /\ \A c \in 0 .. b - 1 : accumulatedTime[b] < accumulatedTime[c]

(* The next package gets a broker: in turn if nothing is known of its bin,  *)
(* which does not count as work of that broker, and else the broker that    *)
(* was given the least predicted work so far.                               *)
SchedulePackage ==
    LET predictedTime == PredictedTime(ComputeBin(PackageNorm[scheduled + 1])) IN
    /\ scheduled < Len(PackageNorm)
    /\ scheduled' = scheduled + 1
    /\ underEvaluation' = underEvaluation \cup {scheduled + 1}
    /\ \/ /\ predictedTime = 0
          /\ roundRobinIndex' = IF roundRobinIndex + 1 >= NumPerformanceBrokers
                                THEN 0 ELSE roundRobinIndex + 1
          /\ UNCHANGED accumulatedTime
       \/ /\ predictedTime # 0
          /\ \E b \in PerformanceBrokers :
              /\ LeastWork(b)
              /\ accumulatedTime' = [accumulatedTime EXCEPT ![b] = @ + predictedTime]
          /\ UNCHANGED roundRobinIndex
    /\ UNCHANGED measured

(* Brokers return packages in any order.  A bin keeps its first time, also  *)
(* one of 0.                                                                *)
UpdateTimes ==
    \E p \in underEvaluation, wallClockTime \in 0 .. LongestTime :
        LET bin == ComputeBin(PackageNorm[p]) IN
        /\ underEvaluation' = underEvaluation \ {p}
        /\ measured' = IF measured[bin] = <<>>
                       THEN [measured EXCEPT ![bin] = <<wallClockTime>>] ELSE measured
        /\ UNCHANGED <<roundRobinIndex, accumulatedTime, scheduled>>

PerformanceNext == SchedulePackage \/ UpdateTimes
-----------------------------------------------------------------------------
(* Properties *)

PerformanceTypeOK ==
    /\ roundRobinIndex \in PerformanceBrokers
    /\ accumulatedTime \in [PerformanceBrokers -> Nat]
    /\ measured \in [0 .. LastBin -> {<<>>} \cup {<<t>> : t \in 0 .. LongestTime}]
    /\ scheduled \in 0 .. Len(PackageNorm)
    /\ underEvaluation \subseteq 1 .. scheduled

(* Whatever order times become known in, and although the predictions for   *)
(* a bin appear between two packages of it, no broker is ever given more    *)
(* predicted work than another one by more than the longest evaluation.     *)
WorkBalanced ==
    \A b, c \in PerformanceBrokers :
        accumulatedTime[b] - accumulatedTime[c] <= LongestTime
=============================================================================
