-------------------------- MODULE JobRunnerProofs --------------------------
(***************************************************************************)
(* What the circuit breaker spends on a job, for every set of jobs, every  *)
(* threshold, cooldown and retry ladder, and however often runs are killed *)
(* or ended by a task's own exception.                                     *)
(*                                                                         *)
(* A run that ends before it records what a ladder came to leaves the      *)
(* circuit as it was, so its trial is charged to nothing: the account      *)
(* charges it to the kill that ended the run.  The one other way a run can *)
(* end there is an exception run_due does not catch, and a task that       *)
(* raises one has never been recorded: its circuit was never opened.       *)
(***************************************************************************)
EXTENDS JobRunner, TLAPS

Stages == {"idle", "next", "attempt", "success", "failure", "mark"}

TypeOK ==
  /\ sinceRun \in [Jobs -> Nat]
  /\ failures \in [Jobs -> 0..Threshold]
  /\ sinceOpen \in [Jobs -> Nat \cup {Closed}]
  /\ broken \subseteq Jobs
  /\ pc \in Stages /\ attempt \in Nat
  /\ trials \in [Jobs -> Nat]
  /\ hiccups \in Nat /\ crashes \in Nat

(* A ladder of j is begun and not yet recorded.                            *)
OnLadder(j) == pc \in {"attempt", "success", "failure"} /\ Job = j

Account ==
  \A j \in Jobs : trials[j] <= crashes + (IF OnLadder(j) THEN 1 ELSE 0)

TriedWhenOpen == \A j \in Jobs : sinceOpen[j] = Closed => trials[j] = 0

(* The two fields of a key of breakers.json agree.                         *)
OpenAtThreshold == \A j \in Jobs : sinceOpen[j] # Closed <=> failures[j] = Threshold

(* Only what run_due catches is recorded.                                  *)
CaughtOnly ==
  /\ pc = "success" => Job \notin broken
  /\ pc = "failure" => Job \notin Escaping \cap broken

EscapersStayClosed == \A j \in Escaping \cap broken : sinceOpen[j] = Closed

IInv ==
  /\ TypeOK /\ Account /\ TriedWhenOpen /\ OpenAtThreshold
  /\ CaughtOnly /\ EscapersStayClosed

(* A job that keeps raising a MiosError has its circuit closed by nobody.  *)
StaysOpen ==
  [][\A j \in broken : sinceOpen[j] # Closed /\ j \in broken' => sinceOpen'[j] # Closed]_vars

-----------------------------------------------------------------------------
LEMMA InitInv == Init => IInv
<1> SUFFICES ASSUME Init PROVE IInv
  OBVIOUS
<1>1. /\ failures = [j \in Jobs |-> 0] /\ trials = [j \in Jobs |-> 0]
      /\ sinceOpen = [j \in Jobs |-> Closed]
      /\ sinceRun = Interval /\ pc = "idle" /\ attempt = 1 /\ hiccups = 0 /\ crashes = 0
      /\ broken = Dying \cup Escaping
  BY DEF Init
<1>2. TypeOK
  BY <1>1, JobRunnerAssumption DEF TypeOK, Stages
<1>3. Account
  BY <1>1 DEF Account, OnLadder
<1>4. OpenAtThreshold
  BY <1>1, JobRunnerAssumption DEF OpenAtThreshold
<1>5. TriedWhenOpen /\ CaughtOnly /\ EscapersStayClosed
  BY <1>1, JobRunnerAssumption DEF TriedWhenOpen, CaughtOnly, EscapersStayClosed
<1> QED BY <1>2, <1>3, <1>4, <1>5 DEF IInv

(* Nothing recorded changes, and no ladder is begun.                       *)
LEMMA QuietStep ==
  ASSUME IInv, pc' \in Stages, attempt' \in Nat, hiccups' \in Nat,
         crashes' \in Nat, crashes <= crashes',
         broken' \subseteq broken, UNCHANGED <<state, trials>>,
         \A j \in Jobs : OnLadder(j) => OnLadder(j)' \/ trials[j] <= crashes',
         pc' \in {"success", "failure"} => CaughtOnly'
  PROVE  IInv'
<1>1. TypeOK'
  BY DEF IInv, TypeOK, state
<1>2. Account'
  <2> SUFFICES ASSUME NEW j \in Jobs
               PROVE  trials[j] <= crashes' + (IF OnLadder(j)' THEN 1 ELSE 0)
    BY DEF Account, state
  <2>1. trials[j] \in Nat /\ crashes \in Nat
    BY DEF IInv, TypeOK
  <2>2. trials[j] <= crashes + (IF OnLadder(j) THEN 1 ELSE 0)
    BY DEF IInv, Account
  <2> QED BY <2>1, <2>2
<1>3. TriedWhenOpen' /\ OpenAtThreshold' /\ EscapersStayClosed'
  BY DEF IInv, TriedWhenOpen, OpenAtThreshold, EscapersStayClosed, state
<1>4. CaughtOnly'
  BY DEF CaughtOnly
<1> QED BY <1>1, <1>2, <1>3, <1>4 DEF IInv

(* The steps before a ladder is begun and after it is recorded.            *)
LEMMA BetweenLadders ==
  ASSUME IInv, StartRun \/ FinishRun \/ PassOver
  PROVE  IInv'
<1>1. /\ pc \in {"idle", "next"} /\ pc' \in {"idle", "next"}
      /\ UNCHANGED <<state, trials, broken, attempt, hiccups, crashes>>
  BY DEF StartRun, FinishRun, PassOver
<1>2. pc' \in Stages /\ attempt' \in Nat /\ hiccups' \in Nat /\ crashes' \in Nat
  BY <1>1 DEF IInv, TypeOK, Stages
<1>3. crashes <= crashes'
  BY <1>1 DEF IInv, TypeOK
<1>4. \A j \in Jobs : ~ OnLadder(j)
  BY <1>1 DEF OnLadder
<1> QED BY <1>1, <1>2, <1>3, <1>4, QuietStep

LEMMA TickStep == ASSUME IInv, Tick PROVE IInv'
<1>1. \A a \in Nat, b \in Nat : Least(a, b) \in Nat
  BY DEF Least
<1>2. sinceRun' \in [Jobs -> Nat]
  BY <1>1, JobRunnerAssumption DEF Tick, IInv, TypeOK
<1>3. /\ sinceOpen' \in [Jobs -> Nat \cup {Closed}]
      /\ \A j \in Jobs : sinceOpen'[j] = Closed <=> sinceOpen[j] = Closed
  <2>1. sinceOpen' = [j \in Jobs |-> IF sinceOpen[j] = Closed THEN Closed
                                     ELSE Least(sinceOpen[j] + 1, Cooldown)]
    BY DEF Tick
  <2>2. \A j \in Jobs : sinceOpen[j] # Closed => Least(sinceOpen[j] + 1, Cooldown) \in Nat
    <3>1. \A j \in Jobs : sinceOpen[j] # Closed => sinceOpen[j] + 1 \in Nat
      BY DEF IInv, TypeOK
    <3>2. Cooldown \in Nat
      BY JobRunnerAssumption
    <3> QED BY <1>1, <3>1, <3>2
  <2>3. Closed \notin Nat
    BY JobRunnerAssumption
  <2> QED BY <2>1, <2>2, <2>3
<1>4. UNCHANGED <<failures, broken, pc, due, attempt, trials, hiccups, crashes>>
  BY DEF Tick, proc
<1>5. TypeOK'
  <2> USE <1>2, <1>3, <1>4
  <2>1. /\ failures' \in [Jobs -> 0..Threshold] /\ trials' \in [Jobs -> Nat]
        /\ broken' \subseteq Jobs
    BY DEF IInv, TypeOK
  <2>2. pc' \in Stages /\ attempt' \in Nat /\ hiccups' \in Nat /\ crashes' \in Nat
    BY DEF IInv, TypeOK
  <2> QED BY <2>1, <2>2 DEF TypeOK
<1>6. Account' /\ CaughtOnly'
  BY <1>4 DEF IInv, Account, OnLadder, CaughtOnly, Job
<1>7. TriedWhenOpen' /\ OpenAtThreshold' /\ EscapersStayClosed'
  BY <1>3, <1>4, JobRunnerAssumption
     DEF IInv, TriedWhenOpen, OpenAtThreshold, EscapersStayClosed
<1> QED BY <1>5, <1>6, <1>7 DEF IInv

LEMMA RepairStep == ASSUME IInv, NEW i \in Jobs, Repair(i) PROVE IInv'
<1>1. /\ UNCHANGED <<state, pc, due, attempt, trials, hiccups, crashes>>
      /\ broken' = broken \ {i}
  BY DEF Repair, proc
<1>2. /\ pc' \in Stages /\ attempt' \in Nat /\ hiccups' \in Nat /\ crashes' \in Nat
      /\ crashes <= crashes'
  BY <1>1 DEF IInv, TypeOK
<1>3. \A j \in Jobs : OnLadder(j) => OnLadder(j)'
  BY <1>1 DEF OnLadder, Job
<1>4. CaughtOnly'
  BY <1>1 DEF IInv, CaughtOnly, Job
<1> QED BY <1>1, <1>2, <1>3, <1>4, QuietStep

(* A trial of an opened circuit is begun only between ladders.             *)
LEMMA BeginStep == ASSUME IInv, BeginJob PROVE IInv'
<1>1. /\ pc = "next" /\ pc' = "attempt" /\ attempt' = 1
      /\ UNCHANGED <<sinceRun, failures, sinceOpen, broken, due, hiccups, crashes>>
      /\ trials' = [trials EXCEPT ![Job] = IF sinceOpen[Job] = Closed THEN @ ELSE @ + 1]
  BY DEF BeginJob, state
<1>2. \A j \in Jobs : trials[j] \in Nat /\ trials[j] <= crashes /\ crashes \in Nat
  BY <1>1 DEF IInv, TypeOK, Account, OnLadder
<1>3. \A j \in Jobs :
        trials'[j] = IF j = Job /\ sinceOpen[j] # Closed THEN trials[j] + 1 ELSE trials[j]
  BY <1>1 DEF IInv, TypeOK
<1>4. trials' \in [Jobs -> Nat]
  <2>1. trials' = [j \in Jobs |-> trials'[j]]
    BY <1>1 DEF IInv, TypeOK
  <2>2. \A j \in Jobs : trials'[j] \in Nat
    BY <1>2, <1>3
  <2> QED BY <2>1, <2>2
<1>5. TypeOK'
  BY <1>1, <1>4 DEF IInv, TypeOK, Stages
<1>6. \A j \in Jobs : OnLadder(j)' <=> j = Job
  BY <1>1 DEF OnLadder, Job
<1>7. Account'
  BY <1>1, <1>2, <1>3, <1>6 DEF Account
<1>8. TriedWhenOpen' /\ OpenAtThreshold' /\ EscapersStayClosed' /\ CaughtOnly'
  BY <1>1, <1>3
     DEF IInv, TriedWhenOpen, OpenAtThreshold, EscapersStayClosed, CaughtOnly
<1> QED BY <1>5, <1>7, <1>8 DEF IInv

(* An attempt that does not end the ladder's account.                      *)
LEMMA AttemptStep == ASSUME IInv, Succeed \/ Fail PROVE IInv'
<1>1. /\ pc = "attempt" /\ pc' \in {"attempt", "success", "failure"}
      /\ UNCHANGED <<state, broken, due, trials, crashes>>
      /\ attempt' \in {attempt, attempt + 1}
      /\ hiccups' \in {hiccups, hiccups + 1}
  BY DEF Succeed, Fail
<1>2. /\ pc' \in Stages /\ attempt' \in Nat /\ hiccups' \in Nat /\ crashes' \in Nat
      /\ crashes <= crashes'
  BY <1>1 DEF IInv, TypeOK, Stages
<1>3. \A j \in Jobs : OnLadder(j) => OnLadder(j)'
  BY <1>1 DEF OnLadder, Job
<1>4. CaughtOnly'
  BY <1>1 DEF Succeed, Fail, CaughtOnly, Job
<1> QED BY <1>1, <1>2, <1>3, <1>4, QuietStep

(* A task that ends the run has no trial to its name.                      *)
LEMMA EscapeStep == ASSUME IInv, Escape PROVE IInv'
<1>1. /\ pc = "attempt" /\ pc' = "idle" /\ Job \in Escaping \cap broken
      /\ UNCHANGED <<state, broken, attempt, trials, hiccups, crashes>>
  BY DEF Escape
<1>2. /\ pc' \in Stages /\ attempt' \in Nat /\ hiccups' \in Nat /\ crashes' \in Nat
      /\ crashes <= crashes'
  BY <1>1 DEF IInv, TypeOK, Stages
<1>3. \A j \in Jobs : OnLadder(j) => trials[j] = 0
  BY <1>1 DEF OnLadder, IInv, EscapersStayClosed, TriedWhenOpen
<1>4. \A j \in Jobs : OnLadder(j) => trials[j] <= crashes'
  BY <1>2, <1>3
<1> QED BY <1>1, <1>2, <1>4, QuietStep

(* A kill answers for the ladder it ended.                                 *)
LEMMA CrashStep == ASSUME IInv, Crash PROVE IInv'
<1>1. /\ pc' = "idle" /\ crashes' = crashes + 1
      /\ UNCHANGED <<state, broken, attempt, trials, hiccups>>
  BY DEF Crash
<1>2. /\ pc' \in Stages /\ attempt' \in Nat /\ hiccups' \in Nat /\ crashes' \in Nat
      /\ crashes <= crashes'
  BY <1>1 DEF IInv, TypeOK, Stages
<1>3. \A j \in Jobs : trials[j] <= crashes'
  BY <1>1 DEF IInv, TypeOK, Account
<1> QED BY <1>1, <1>2, <1>3, QuietStep

-----------------------------------------------------------------------------
(* What is recorded: the key is forgotten, or counted and opened together. *)
LEMMA RecordSuccessStep == ASSUME IInv, RecordSuccess PROVE IInv'
<1>1. /\ pc = "success" /\ pc' = "mark"
      /\ failures' = [failures EXCEPT ![Job] = 0]
      /\ sinceOpen' = [sinceOpen EXCEPT ![Job] = Closed]
      /\ trials' = [trials EXCEPT ![Job] = 0]
      /\ UNCHANGED <<sinceRun, broken, due, attempt, hiccups, crashes>>
  BY DEF RecordSuccess
<1>2. \A j \in Jobs :
        /\ failures'[j] = IF j = Job THEN 0 ELSE failures[j]
        /\ sinceOpen'[j] = IF j = Job THEN Closed ELSE sinceOpen[j]
        /\ trials'[j] = IF j = Job THEN 0 ELSE trials[j]
  BY <1>1 DEF IInv, TypeOK
<1>3. TypeOK'
  <2>1. failures' \in [Jobs -> 0..Threshold]
    <3>1. 0 \in 0..Threshold
      BY JobRunnerAssumption
    <3>2. failures \in [Jobs -> 0..Threshold]
      BY DEF IInv, TypeOK
    <3> QED BY <1>1, <3>1, <3>2
  <2>2. sinceOpen' \in [Jobs -> Nat \cup {Closed}]
    BY <1>1 DEF IInv, TypeOK
  <2>3. trials' \in [Jobs -> Nat]
    BY <1>1 DEF IInv, TypeOK
  <2> QED BY <1>1, <2>1, <2>2, <2>3 DEF IInv, TypeOK, Stages
<1>4. Account'
  <2> SUFFICES ASSUME NEW j \in Jobs PROVE trials'[j] <= crashes'
    <3>1. \A j \in Jobs : ~ OnLadder(j)'
      BY <1>1 DEF OnLadder
    <3>2. crashes' \in Nat
      BY <1>1 DEF IInv, TypeOK
    <3> QED BY <3>1, <3>2 DEF Account
  <2>1. trials[j] \in Nat /\ crashes \in Nat
    BY DEF IInv, TypeOK
  <2>2. j # Job => trials[j] <= crashes
    BY <2>1 DEF IInv, Account, OnLadder
  <2> QED BY <1>1, <1>2, <2>1, <2>2
<1>5. TriedWhenOpen' /\ EscapersStayClosed'
  BY <1>1, <1>2, JobRunnerAssumption DEF IInv, TypeOK, TriedWhenOpen, EscapersStayClosed
<1>6. OpenAtThreshold'
  BY <1>1, <1>2, JobRunnerAssumption DEF IInv, OpenAtThreshold
<1>7. CaughtOnly'
  BY <1>1 DEF CaughtOnly
<1> QED BY <1>3, <1>4, <1>5, <1>6, <1>7 DEF IInv

LEMMA RecordFailureStep == ASSUME IInv, RecordFailure PROVE IInv'
<1>1. /\ pc = "failure" /\ pc' = "mark"
      /\ failures' = [failures EXCEPT ![Job] = CountedFailures(Job)]
      /\ sinceOpen' = [sinceOpen EXCEPT ![Job] = IF Opens(Job) THEN 0 ELSE @]
      /\ trials' = [trials EXCEPT ![Job] = IF Opens(Job) THEN 0 ELSE @]
      /\ UNCHANGED <<sinceRun, broken, due, attempt, hiccups, crashes>>
  BY DEF RecordFailure
<1>2. \A j \in Jobs :
        /\ failures'[j] = IF j = Job THEN CountedFailures(j) ELSE failures[j]
        /\ sinceOpen'[j] = IF j = Job /\ Opens(j) THEN 0 ELSE sinceOpen[j]
        /\ trials'[j] = IF j = Job /\ Opens(j) THEN 0 ELSE trials[j]
  BY <1>1 DEF IInv, TypeOK
<1>3. \A j \in Jobs : /\ CountedFailures(j) \in 0..Threshold
                      /\ Opens(j) <=> CountedFailures(j) = Threshold
  <2> SUFFICES ASSUME NEW j \in Jobs
               PROVE  /\ CountedFailures(j) \in 0..Threshold
                      /\ Opens(j) <=> CountedFailures(j) = Threshold
    OBVIOUS
  <2>1. failures[j] \in 0..Threshold /\ Threshold \in Nat
    BY JobRunnerAssumption DEF IInv, TypeOK
  <2>2. sinceOpen[j] # Closed => failures[j] = Threshold
    BY DEF IInv, OpenAtThreshold
  <2>3. CountedFailures(j) \in 0..Threshold
    BY <2>1 DEF CountedFailures, Least
  <2>4. failures[j] = Threshold => CountedFailures(j) = Threshold
    BY <2>1 DEF CountedFailures, Least
  <2> QED BY <2>1, <2>2, <2>3, <2>4 DEF Opens
<1>4. TypeOK'
  <2>1. failures' = [j \in Jobs |-> failures'[j]]
    BY <1>1 DEF IInv, TypeOK
  <2>2. failures' \in [Jobs -> 0..Threshold]
    BY <1>2, <1>3, <2>1 DEF IInv, TypeOK
  <2>3. sinceOpen' \in [Jobs -> Nat \cup {Closed}] /\ trials' \in [Jobs -> Nat]
    BY <1>1 DEF IInv, TypeOK
  <2> QED BY <1>1, <2>2, <2>3 DEF IInv, TypeOK, Stages
<1>5. Account'
  <2> SUFFICES ASSUME NEW j \in Jobs PROVE trials'[j] <= crashes'
    <3>1. \A j \in Jobs : ~ OnLadder(j)'
      BY <1>1 DEF OnLadder
    <3>2. crashes' \in Nat
      BY <1>1 DEF IInv, TypeOK
    <3> QED BY <3>1, <3>2 DEF Account
  <2>1. trials[j] \in Nat /\ crashes \in Nat
    BY DEF IInv, TypeOK
  <2>2. j # Job => trials[j] <= crashes
    BY <2>1 DEF IInv, Account, OnLadder
  <2>3. ~ Opens(j) => trials[j] = 0
    BY DEF IInv, TriedWhenOpen, Opens
  <2> QED BY <1>1, <1>2, <2>1, <2>2, <2>3
<1>6. TriedWhenOpen'
  BY <1>2, JobRunnerAssumption DEF IInv, TriedWhenOpen
<1>7. OpenAtThreshold'
  BY <1>2, <1>3, JobRunnerAssumption DEF IInv, OpenAtThreshold, Opens
<1>8. EscapersStayClosed'
  BY <1>1, <1>2, JobRunnerAssumption DEF IInv, EscapersStayClosed, CaughtOnly
<1>9. CaughtOnly'
  BY <1>1 DEF CaughtOnly
<1> QED BY <1>4, <1>5, <1>6, <1>7, <1>8, <1>9 DEF IInv

LEMMA MarkStep == ASSUME IInv, MarkRun PROVE IInv'
<1>1. /\ pc = "mark" /\ pc' = "next" /\ sinceRun' = [sinceRun EXCEPT ![Job] = 0]
      /\ UNCHANGED <<failures, sinceOpen, broken, attempt, trials, hiccups, crashes>>
  BY DEF MarkRun
<1>2. TypeOK'
  BY <1>1 DEF IInv, TypeOK, Stages
<1>3. Account' /\ CaughtOnly'
  BY <1>1 DEF IInv, Account, OnLadder, CaughtOnly
<1>4. TriedWhenOpen' /\ OpenAtThreshold' /\ EscapersStayClosed'
  BY <1>1 DEF IInv, TriedWhenOpen, OpenAtThreshold, EscapersStayClosed
<1> QED BY <1>2, <1>3, <1>4 DEF IInv

-----------------------------------------------------------------------------
LEMMA IInvStep == IInv /\ [Next]_vars => IInv'
<1> SUFFICES ASSUME IInv, [Next]_vars PROVE IInv'
  OBVIOUS
<1>1. CASE Tick
  BY <1>1, TickStep
<1>2. CASE StartRun \/ FinishRun \/ PassOver
  BY <1>2, BetweenLadders
<1>3. CASE BeginJob
  BY <1>3, BeginStep
<1>4. CASE Succeed \/ Fail
  BY <1>4, AttemptStep
<1>5. CASE Escape
  BY <1>5, EscapeStep
<1>6. CASE RecordSuccess
  BY <1>6, RecordSuccessStep
<1>7. CASE RecordFailure
  BY <1>7, RecordFailureStep
<1>8. CASE MarkRun
  BY <1>8, MarkStep
<1>9. CASE \E j \in Jobs : Repair(j)
  BY <1>9, RepairStep
<1>10. CASE Crash
  BY <1>10, CrashStep
<1>11. CASE UNCHANGED vars
  BY <1>11 DEF vars, IInv, TypeOK, Account, OnLadder, Job, TriedWhenOpen, OpenAtThreshold,
               CaughtOnly, EscapersStayClosed
<1> QED
  BY <1>1, <1>2, <1>3, <1>4, <1>5, <1>6, <1>7, <1>8, <1>9, <1>10, <1>11 DEF Next, Process

LEMMA Invariance == Spec => []IInv
<1> QED BY InitInv, IInvStep, PTL DEF Spec

-----------------------------------------------------------------------------
(* breaker.py:1-2 - an opened circuit costs one trial per cooldown, and    *)
(* one more for each killed run, whatever the tasks do.                    *)
THEOREM TrialsAreAccounted == Spec => []OneTrialPerCooldown
<1>1. IInv => OneTrialPerCooldown
  <2> SUFFICES ASSUME IInv, NEW j \in Jobs PROVE trials[j] <= 1 + crashes
    BY DEF OneTrialPerCooldown
  <2>1. trials[j] \in Nat /\ crashes \in Nat
    BY DEF IInv, TypeOK
  <2>2. trials[j] <= crashes + (IF OnLadder(j) THEN 1 ELSE 0)
    BY DEF IInv, Account
  <2> QED BY <2>1, <2>2
<1> QED BY <1>1, Invariance, PTL

(* breaker.py, record_failure - a key of breakers.json has an opened_at if *)
(* and only if its failures have reached the threshold, so a circuit       *)
(* cannot be open without having earned it nor stay closed after.          *)
THEOREM OpenIffAtThreshold == Spec => []OpenAtThreshold
<1>1. IInv => OpenAtThreshold
  BY DEF IInv
<1> QED BY <1>1, Invariance, PTL

(* jobs.py:73-75 - the breaker never learns of a task that raises          *)
(* anything but a MiosError: until it is repaired its circuit is closed,   *)
(* and every run begins it again.                                          *)
THEOREM EscapersAreNeverCutOff == Spec => []EscapersStayClosed
<1>1. IInv => EscapersStayClosed
  BY DEF IInv
<1> QED BY <1>1, Invariance, PTL

(* breaker.py:1-2 - once opened, the circuit of a task that keeps raising  *)
(* a MiosError is open until the task is repaired: no order of runs, kills *)
(* and neighbours closes it.                                               *)
THEOREM FailingStaysCutOff == Spec => StaysOpen
<1> DEFINE A == \A j \in broken :
                  sinceOpen[j] # Closed /\ j \in broken' => sinceOpen'[j] # Closed
<1>1. IInv /\ [Next]_vars => [A]_vars
  <2> SUFFICES ASSUME IInv, Next PROVE A
    OBVIOUS
  <2> SUFFICES ASSUME NEW j \in broken, sinceOpen[j] # Closed, sinceOpen'[j] = Closed
               PROVE  FALSE
    OBVIOUS
  <2>1. j \in Jobs
    BY DEF IInv, TypeOK
  <2>2. Tick \/ RecordSuccess \/ RecordFailure
    BY DEF Next, Process, StartRun, FinishRun, PassOver, BeginJob, Succeed, Fail, Escape,
           MarkRun, Repair, Crash, state
  <2>3. CASE Tick
    <3>1. sinceOpen[j] \in Nat
      BY <2>1 DEF IInv, TypeOK
    <3>2. sinceOpen'[j] = Least(sinceOpen[j] + 1, Cooldown)
      BY <2>1, <2>3 DEF Tick
    <3> QED BY <3>1, <3>2, JobRunnerAssumption DEF Least
  <2>4. CASE RecordSuccess
    BY <2>1, <2>4 DEF RecordSuccess, IInv, TypeOK, CaughtOnly
  <2>5. CASE RecordFailure
    BY <2>1, <2>5, JobRunnerAssumption DEF RecordFailure, IInv, TypeOK
  <2> QED BY <2>2, <2>3, <2>4, <2>5
<1> QED BY <1>1, Invariance, PTL DEF Spec, StaysOpen
=============================================================================
