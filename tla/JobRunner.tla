------------------------------ MODULE JobRunner ------------------------------
(***************************************************************************)
(* `mios run-due`: JobRunner, CircuitBreaker and RetryPolicy together.  A  *)
(* run lists the due jobs once, then takes them in configuration order:    *)
(* breaker check, attempts with sleeps in between, and two separate saves, *)
(* the breaker's and the last-run mark.  Nothing else survives the         *)
(* process.                                                                *)
(*                                                                         *)
(* Time is kept as ages that saturate: how long ago a job was marked and   *)
(* how long ago its circuit was opened, up to the point where the code     *)
(* stops telling the difference.  Time passes anywhere, retry sleeps       *)
(* included.                                                               *)
(***************************************************************************)
EXTENDS Naturals, FiniteSets, Sequences, SequencesExt

CONSTANTS
  Jobs,         \* enabled jobs, numbered in configuration order
  Unknown,      \* jobs whose task no one registered
  Dying,        \* jobs whose task raises a MiosError until it is repaired
  Escaping,     \* jobs whose task raises something else until it is repaired
  Interval,     \* interval_minutes of each job, in ticks
  Threshold,    \* breaker_failure_threshold
  Cooldown,     \* breaker_cooldown_minutes, in ticks
  MaxAttempts,  \* len(retry_delays_seconds) + 1
  Closed,       \* opened_at is None
  MaxHiccups,   \* bound: failed attempts of a healthy job
  MaxCrashes    \* bound: killed runs

ASSUME JobRunnerAssumption ==
  /\ Jobs \subseteq Nat /\ IsFiniteSet(Jobs)
  /\ Unknown \subseteq Jobs /\ Dying \subseteq Jobs /\ Escaping \subseteq Jobs
  /\ Dying \cap Escaping = {}
  /\ Interval \in [Jobs -> Nat \ {0}]
  /\ Threshold \in Nat \ {0} /\ Cooldown \in Nat /\ MaxAttempts \in Nat \ {0}
  /\ Closed \notin Nat
  /\ MaxHiccups \in Nat /\ MaxCrashes \in Nat

VARIABLES
  sinceRun,   \* scheduler.json: age of last_run, Interval[j] when due or absent
  failures,   \* breakers.json: failures, up to Threshold
  sinceOpen,  \* breakers.json: age of opened_at, up to Cooldown
  broken,     \* Dying and Escaping jobs not yet repaired
  pc, due, attempt,    \* the running process
  trials,     \* history: ladders begun on a circuit since it was last opened
  hiccups, crashes

state == <<sinceRun, failures, sinceOpen>>
proc  == <<pc, due, attempt>>
vars  == <<sinceRun, failures, sinceOpen, broken, pc, due, attempt, trials, hiccups, crashes>>

Least(a, b) == IF a <= b THEN a ELSE b
Job == Head(due)

-----------------------------------------------------------------------------
Tick ==
  /\ sinceRun' = [j \in Jobs |-> Least(sinceRun[j] + 1, Interval[j])]
  /\ sinceOpen' = [j \in Jobs |->
       IF sinceOpen[j] = Closed THEN Closed ELSE Least(sinceOpen[j] + 1, Cooldown)]
  /\ UNCHANGED <<failures, broken, proc, trials, hiccups, crashes>>

(* The provider behind a failing job comes back.                           *)
Repair(j) ==
  /\ j \in broken
  /\ broken' = broken \ {j}
  /\ UNCHANGED <<state, proc, trials, hiccups, crashes>>

(* due_jobs, once per run.                                                 *)
DueJobs == {j \in Jobs : sinceRun[j] >= Interval[j]}

StartRun ==
  /\ pc = "idle"
  /\ due' = SetToSortSeq(DueJobs, LAMBDA i, j : i < j)
  /\ pc' = "next"
  /\ UNCHANGED <<state, broken, attempt, trials, hiccups, crashes>>

FinishRun ==
  /\ pc = "next"
  /\ due = << >>
  /\ pc' = "idle"
  /\ UNCHANGED <<state, broken, due, attempt, trials, hiccups, crashes>>

(* CircuitBreaker.status: "open" until the cooldown has passed.            *)
Open_Forever(j) == sinceOpen[j] # Closed
Open(j) == sinceOpen[j] # Closed /\ sinceOpen[j] < Cooldown

(* An unknown task fails, an open circuit is skipped; neither is marked.   *)
PassOver ==
  /\ pc = "next"
  /\ due # << >>
  /\ Job \in Unknown \/ Open(Job)
  /\ due' = Tail(due)
  /\ UNCHANGED <<state, broken, pc, attempt, trials, hiccups, crashes>>

BeginJob ==
  /\ pc = "next"
  /\ due # << >>
  /\ Job \notin Unknown /\ ~ Open(Job)
  /\ pc' = "attempt"
  /\ attempt' = 1
  /\ trials' = [trials EXCEPT ![Job] = IF sinceOpen[Job] = Closed THEN @ ELSE @ + 1]
  /\ UNCHANGED <<state, broken, due, hiccups, crashes>>

Succeed ==
  /\ pc = "attempt"
  /\ Job \notin broken
  /\ pc' = "success"
  /\ UNCHANGED <<state, broken, due, attempt, trials, hiccups, crashes>>

(* A MiosError: the next rung of the ladder after a sleep, or the last.    *)
Fail_EndsRun ==
  /\ pc = "attempt"
  /\ Job \in broken
  /\ pc' = "idle"
  /\ due' = << >>
  /\ UNCHANGED <<state, broken, attempt, trials, hiccups, crashes>>
Fail ==
  /\ pc = "attempt"
  /\ Job \notin Escaping \cap broken
  /\ Job \notin broken => hiccups < MaxHiccups
  /\ hiccups' = IF Job \in broken THEN hiccups ELSE hiccups + 1
  /\ IF attempt < MaxAttempts
     THEN attempt' = attempt + 1 /\ pc' = pc
     ELSE pc' = "failure" /\ UNCHANGED attempt
  /\ UNCHANGED <<state, broken, due, trials, crashes>>

(* Anything else is not caught by run_due: the process ends, nothing is    *)
(* recorded.                                                               *)
Escape ==
  /\ pc = "attempt"
  /\ Job \in Escaping \cap broken
  /\ pc' = "idle"
  /\ due' = << >>
  /\ UNCHANGED <<state, broken, attempt, trials, hiccups, crashes>>

(* CircuitBreaker.record_success forgets the key.                          *)
RecordSuccess ==
  /\ pc = "success"
  /\ failures' = [failures EXCEPT ![Job] = 0]
  /\ sinceOpen' = [sinceOpen EXCEPT ![Job] = Closed]
  /\ trials' = [trials EXCEPT ![Job] = 0]
  /\ pc' = "mark"
  /\ UNCHANGED <<sinceRun, broken, due, attempt, hiccups, crashes>>

(* record_failure (re-)opens at the threshold and restarts the cooldown.   *)
CountedFailures_Fresh(j) == Least(1, Threshold)
CountedFailures(j) == Least(failures[j] + 1, Threshold)
Opens_OnlyOnce(j) == CountedFailures(j) >= Threshold /\ sinceOpen[j] = Closed
Opens(j) == CountedFailures(j) >= Threshold \/ sinceOpen[j] # Closed

RecordFailure ==
  /\ pc = "failure"
  /\ failures' = [failures EXCEPT ![Job] = CountedFailures(Job)]
  /\ sinceOpen' = [sinceOpen EXCEPT ![Job] = IF Opens(Job) THEN 0 ELSE @]
  /\ trials' = [trials EXCEPT ![Job] = IF Opens(Job) THEN 0 ELSE @]
  /\ pc' = "mark"
  /\ UNCHANGED <<sinceRun, broken, due, attempt, hiccups, crashes>>

(* A failed run consumes its slot too.                                     *)
MarkRun ==
  /\ pc = "mark"
  /\ sinceRun' = [sinceRun EXCEPT ![Job] = 0]
  /\ due' = Tail(due)
  /\ pc' = "next"
  /\ UNCHANGED <<failures, sinceOpen, broken, attempt, trials, hiccups, crashes>>

Crash ==
  /\ pc # "idle"
  /\ crashes < MaxCrashes
  /\ crashes' = crashes + 1
  /\ pc' = "idle"
  /\ due' = << >>
  /\ UNCHANGED <<state, broken, attempt, trials, hiccups>>

-----------------------------------------------------------------------------
Init ==
  /\ sinceRun = Interval
  /\ failures = [j \in Jobs |-> 0]
  /\ sinceOpen = [j \in Jobs |-> Closed]
  /\ broken = Dying \cup Escaping
  /\ pc = "idle" /\ due = << >> /\ attempt = 1
  /\ trials = [j \in Jobs |-> 0]
  /\ hiccups = 0 /\ crashes = 0

Process ==
  \/ StartRun \/ FinishRun \/ PassOver \/ BeginJob
  \/ Succeed \/ (pc = "attempt" /\ Job \in broken /\ Fail) \/ Escape
  \/ RecordSuccess \/ RecordFailure \/ MarkRun

Next == Tick \/ Process \/ Fail \/ (\E j \in Jobs : Repair(j)) \/ Crash

Spec == Init /\ [][Next]_vars

(* Time passes, cron starts run-due again and again, and a running process *)
(* goes on.                                                                *)
FairSpec == Spec /\ WF_vars(Tick) /\ WF_vars(Process)
-----------------------------------------------------------------------------
(* breaker.py:1-2 - an opened circuit costs one trial per cooldown: after  *)
(* it opened, at most one ladder is begun before it opens again or closes, *)
(* and one more for each run killed before it could record the outcome.    *)
OneTrialPerCooldown == \A j \in Jobs : trials[j] <= 1 + crashes

(* breaker.py:2-3 - "One dying source must never consume the whole         *)
(* collection window": a job that works is served again and again, however *)
(* its neighbours fail and whatever was killed.  What can keep it waiting  *)
(* for ever is a job before it whose task raises no MiosError: run_due     *)
(* catches nothing else.                                                   *)
Served == \A j \in Jobs \ (Dying \cup Escaping \cup Unknown) :
  \/ []<>(pc = "next" /\ sinceRun[j] < Interval[j])
  \/ <>[](\E k \in Escaping \cap broken : k < j)

(* breaker.py:1-2 - a job that keeps failing ends up with its circuit      *)
(* opened, run after run, and one that is repaired gets it closed again,   *)
(* unless an unrepaired task before it ends every run.                     *)
FailingIsCutOff == \A j \in Dying :
  (j \in broken) ~> (j \notin broken \/ sinceOpen[j] # Closed)
RepairedIsReadmitted == \A j \in Jobs \ Unknown :
  \/ (j \notin broken) ~> (sinceOpen[j] = Closed)
  \/ <>[](\E k \in Escaping \cap broken : k < j)
=============================================================================
