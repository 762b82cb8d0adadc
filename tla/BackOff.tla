------------------------------ MODULE BackOff ------------------------------
(***************************************************************************)
(* The pauses between two runs of the indexer: running.WithBackOff and its *)
(* incremental timer, called as service.run (internal/service/main.go)     *)
(* calls it, with index_period both for the normal pause and for the       *)
(* shortest pause after an error, and ten minutes for the longest.         *)
(* Indexer has the same retry without the pauses.                          *)
(*                                                                         *)
(* Only run can return without an error, and only when the websocket       *)
(* client itself is closed, which nothing does; RunnerReturns allows it.   *)
(***************************************************************************)
EXTENDS Integers

CONSTANTS
    Periods,        \* the values of index_period
    MaxPeriod,      \* ten minutes
    RunnerReturns,  \* TRUE: a run may end without an error
    MaxErrors       \* bound: how many runs in a row end with an error

ASSUME BackOffAssumption ==
    /\ Periods \subseteq Nat
    /\ MaxPeriod \in Nat
    /\ RunnerReturns \in BOOLEAN
    /\ MaxErrors \in Nat

VARIABLES
    indexPeriod,   \* network.index_period
    pc,            \* "running", or "waiting" for the next run
    abnormal,      \* whether runAbnormalExecution makes the runs
    currentPeriod, \* incrementalTimer.currentPeriod
    pause,         \* how long the wait for the next run may take
    worked,        \* history: the run got as far as its loop
    errors         \* history: errors since a run ended without one

vars == <<indexPeriod, pc, abnormal, currentPeriod, pause, worked, errors>>

Init ==
    /\ indexPeriod \in Periods
    /\ pc = "running"
    /\ abnormal = FALSE
    /\ currentPeriod = 0
    /\ pause = 0
    /\ worked = FALSE
    /\ errors = 0

Smaller(a, b) == IF a <= b THEN a ELSE b

(* The runner has caught up, and handles what comes.                       *)
RunnerWorks ==
    /\ pc = "running"
    /\ ~worked
    /\ worked' = TRUE
    /\ UNCHANGED <<indexPeriod, pc, abnormal, currentPeriod, pause, errors>>

(* Mutant of Following: the pause grows without a limit.                   *)
FollowingUncapped(period) == period * 2

(* The period after one that was used.                                     *)
Following(period) == Smaller(period * 2, MaxPeriod)

(* incrementalTimer.next, of a timer at period.                            *)
TimerNext(period) ==
    /\ pause' = period
    /\ currentPeriod' = Following(period)

(* The runner returns an error, or panics: the timer of the abnormal       *)
(* execution is made new at the first error, and moved on at the others.   *)
RunnerFails ==
    /\ pc = "running"
    /\ errors < MaxErrors
    /\ errors' = errors + 1
    /\ TimerNext(IF abnormal THEN currentPeriod ELSE indexPeriod)
    /\ abnormal' = TRUE
    /\ pc' = "waiting"
    /\ UNCHANGED <<indexPeriod, worked>>

(* Mutant of RunnerEnds: the abnormal execution is never left.             *)
RunnerEndsAbnormal ==
    /\ RunnerReturns
    /\ pc = "running"
    /\ worked
    /\ errors' = 0
    /\ pause' = indexPeriod
    /\ pc' = "waiting"
    /\ UNCHANGED <<indexPeriod, currentPeriod, abnormal, worked>>

(* The runner returns nil, which run may do once it waits for events: the  *)
(* next run waits for the normal ticker.                                   *)
RunnerEnds ==
    /\ RunnerReturns
    /\ pc = "running"
    /\ worked
    /\ errors' = 0
    /\ abnormal' = FALSE
    /\ pause' = indexPeriod
    /\ pc' = "waiting"
    /\ UNCHANGED <<indexPeriod, currentPeriod, worked>>

(* The timer or the ticker fires, and the runner is called.                *)
RunAgain ==
    /\ pc = "waiting"
    /\ pc' = "running"
    /\ pause' = 0
    /\ worked' = FALSE
    /\ UNCHANGED <<indexPeriod, abnormal, currentPeriod, errors>>

Next == RunnerWorks \/ RunnerFails \/ RunnerEnds \/ RunAgain

Spec == Init /\ [][Next]_vars

-----------------------------------------------------------------------------

(* 2 to the power of k.                                                    *)
Twofold[k \in Nat] == IF k = 0 THEN 1 ELSE 2 * Twofold[k - 1]

(* The pause after k errors in a row is twice the one before, up to the    *)
(* longest; a run without an error starts the count again.                 *)
PauseDoubles ==
    pc = "waiting" /\ errors > 0 =>
        pause = IF errors = 1 THEN indexPeriod
                ELSE Smaller(indexPeriod * Twofold[errors - 1], MaxPeriod)

(* No pause is longer than the longest that is configured, but for the     *)
(* first after an error and the one between two runs, which nothing caps:  *)
(* they are index_period itself.                                           *)
PauseAtMostMax ==
    pause <= MaxPeriod \/ (errors <= 1 /\ pause = indexPeriod)

=============================================================================
