----------------------------- MODULE DailyChain -----------------------------
(***************************************************************************)
(* The deployed system: the daily workflow, which checks the repository    *)
(* out, runs `mios daily` against the database and commits what the run    *)
(* left in data/ and reports/; and the hourly knowledge sync, which runs   *)
(* the same migrations against the same database.  The database lasts, the *)
(* checkout does not: it is gone with the runner unless it was pushed.     *)
(*                                                                         *)
(* A step of the chain is ok, fails (a MiosError or an exit code), or      *)
(* raises something else, which ends the chain.  Of the steps' work this   *)
(* model keeps what crosses their borders: payloads, the rows that name    *)
(* them, the report, and the exported sheets.                              *)
(***************************************************************************)
EXTENDS Naturals, FiniteSets, Sequences, SequencesExt

CONSTANTS
  Chain,      \* DAILY_CHAIN: the step names in order
  Tolerant,   \* steps with the tolerant flag
  Sheets,     \* the exported files, in the order Exporter.run writes them
  Dated,      \* sheets that are written as of the instant of the run
  Documents,  \* what the providers may serve
  Versions,   \* number of migrations that may ever ship
  MaxDays,    \* bound: daily runs
  MaxFaults   \* bound: failed or raising steps, refused pushes, lost runners

Idle == 0
Committing == Len(Chain) + 1
Runners == {"daily", "sync"}
Item == [document : Documents, day : 1..MaxDays]
Sheet == [by : 0..MaxDays, of : 0..MaxDays]  \* written by a run, as of a day

ASSUME ChainAssumption ==
  /\ Chain \in Seq(ToSet(Chain)) /\ IsInjective(Chain)
  /\ {"migrate", "collect", "normalize", "report", "export"} \subseteq ToSet(Chain)
  /\ Chain[1] = "migrate"
  /\ Sheets \in Seq(ToSet(Sheets)) /\ Dated \subseteq ToSet(Sheets)
  /\ Tolerant \subseteq ToSet(Chain) \ {"migrate", "report"}
  /\ Versions \in Nat /\ MaxDays \in Nat /\ MaxFaults \in Nat

VARIABLES
  served, shipped,        \* external: the providers' document, the migrations on main
  origin,                 \* the repository: payloads, reports, sheets
  applied, rows,          \* the database: schema_migrations, payloads rows name
  day, asOf, work,        \* the daily run: its day, the day it is told to
                          \* be of, and its checkout
  at,                     \* its step: an index of Chain, Committing or Idle
  failed, raised,         \* its failed steps; whether the chain ended early
  green, lost,            \* runs that succeeded; days whose runner was lost
  stage, code, pending,   \* of each runner: apply_all's progress, the
                          \* migrations in its checkout and those to apply
  faults                  \* bound

world == <<served, shipped>>
run   == <<day, asOf, work, at, failed, raised, green, lost>>
migr  == <<stage, code, pending>>
vars  == <<served, shipped, origin, applied, rows, day, asOf, work, at, failed,
           raised, green, lost, stage, code, pending, faults>>

-----------------------------------------------------------------------------
Change(d) ==
  /\ d # served
  /\ served' = d
  /\ UNCHANGED <<shipped, origin, applied, rows, run, migr, faults>>

Ship ==
  /\ shipped < Versions
  /\ shipped' = shipped + 1
  /\ UNCHANGED <<served, origin, applied, rows, run, migr, faults>>

-----------------------------------------------------------------------------
(* MigrationRunner.apply_all: what is pending is read once; each file and  *)
(* its bookkeeping row commit together, or not at all.                     *)
CheckOut(r) ==
  /\ stage' = [stage EXCEPT ![r] = "begun"]
  /\ code' = [code EXCEPT ![r] = shipped]

Leave(r) ==
  /\ stage' = [stage EXCEPT ![r] = "off"]
  /\ pending' = [pending EXCEPT ![r] = {}]
  /\ UNCHANGED code

ToApply_OffByOne(n) == (1..(n - 1)) \ applied
ToApply(n) == (1..n) \ applied

ListPending(r) ==
  /\ stage[r] = "begun"
  /\ stage' = [stage EXCEPT ![r] = "listed"]
  /\ pending' = [pending EXCEPT ![r] = ToApply(code[r])]
  /\ UNCHANGED <<world, origin, applied, rows, run, code, faults>>

NextFile_Unsorted(r) == CHOOSE v \in pending[r] : \A u \in pending[r] : v >= u
NextFile(r) == CHOOSE v \in pending[r] : \A u \in pending[r] : v <= u

Apply(r) ==
  /\ pending[r] # {} /\ NextFile(r) \notin applied
  /\ applied' = applied \cup {NextFile(r)}
  /\ pending' = [pending EXCEPT ![r] = @ \ {NextFile(r)}]
  /\ UNCHANGED <<world, origin, rows, run, stage, code, faults>>

(* The other runner has committed it since: schema_migrations refuses the  *)
(* second row.                                                             *)
Conflict(r) == pending[r] # {} /\ NextFile(r) \in applied
Migrated(r) == stage[r] = "listed" /\ pending[r] = {}

Fault == faults < MaxFaults /\ faults' = faults + 1

-----------------------------------------------------------------------------
(* us-knowledge.yml, every hour.                                           *)
StartSync ==
  /\ stage["sync"] = "off"
  /\ CheckOut("sync")
  /\ UNCHANGED <<world, origin, applied, rows, run, pending, faults>>

EndSync ==
  /\ stage["sync"] # "off"
  /\ \/ (Migrated("sync") \/ Conflict("sync")) /\ UNCHANGED faults
     \/ Fault
  /\ Leave("sync")
  /\ UNCHANGED <<world, origin, applied, rows, run>>

-----------------------------------------------------------------------------
(* Scheduled for today, or dispatched by hand with `as_of`, a past day.    *)
StartDaily ==
  /\ at = Idle /\ day < MaxDays
  /\ day' = day + 1
  /\ asOf' \in 1..day'
  /\ work' = origin
  /\ at' = 1 /\ failed' = {} /\ raised' = FALSE
  /\ CheckOut("daily")
  /\ UNCHANGED <<world, origin, applied, rows, green, lost, pending, faults>>

InChain == at \in DOMAIN Chain
Step == Chain[at]

(* _cmd_daily: the next step, or none after a failure not tolerated.       *)
After_TolerateNothing(ok) == IF ok THEN at + 1 ELSE Committing
After_TolerateAll(ok) == at + 1
After(ok) == IF ok \/ Step \in Tolerant THEN at + 1 ELSE Committing

Unstored == IF \E i \in work.items : i.document = served THEN {}
            ELSE {[document |-> served, day |-> day]}
Unread == {i \in work.items : \A j \in rows : j.document # i.document}

(* What a step leaves behind; a failing one may have done part of it.      *)
Part(whole, ok, step) ==
  IF Step # step THEN {{}} ELSE IF ok THEN {whole} ELSE SUBSET whole

(* Exporter.run: the rows of a sheet are queried before its file is opened *)
(* for writing, so an error leaves the sheets before it new and the rest   *)
(* as they were.  Two sheets are written as of an instant, the others show *)
(* what the tables hold.                                                   *)
Exported(n) == [i \in DOMAIN Sheets |->
  IF i > n THEN work.sheets[i]
  ELSE [by |-> day, of |-> IF Sheets[i] \in Dated THEN asOf ELSE day]]

SheetsAfter(ok) ==
  IF Step # "export" THEN {work.sheets}
  ELSE IF ok THEN {Exported(Len(Sheets))} ELSE {Exported(n) : n \in 0..(Len(Sheets) - 1)}

Effect(ok) ==
  \E got \in Part(Unstored, ok, "collect"), read \in Part(Unread, ok, "normalize"),
     sheets \in SheetsAfter(ok) :
    /\ rows' = rows \cup read
    /\ work' = [items |-> work.items \cup got,
                reports |-> IF Step = "report" /\ ok THEN work.reports \cup {asOf}
                            ELSE work.reports,
                sheets |-> sheets]

StepOk ==
  /\ InChain /\ (Step = "migrate" => Migrated("daily"))
  /\ Effect(TRUE)
  /\ at' = After(TRUE)
  /\ UNCHANGED <<world, origin, applied, day, asOf, failed, raised, green, lost, migr, faults>>

StepFails ==
  /\ InChain
  /\ (Step = "migrate" /\ Conflict("daily") /\ UNCHANGED faults) \/ Fault
  /\ Effect(FALSE)
  /\ failed' = failed \cup {Step}
  /\ at' = After(FALSE)
  /\ Leave("daily")
  /\ UNCHANGED <<world, origin, applied, day, asOf, raised, green, lost>>

StepRaises ==
  /\ InChain /\ Fault
  /\ Effect(FALSE)
  /\ raised' = TRUE
  /\ at' = Committing
  /\ Leave("daily")
  /\ UNCHANGED <<world, origin, applied, day, asOf, failed, green, lost>>

(* daily.yml: commit and push whatever the chain left, then honour its     *)
(* exit code.                                                              *)
Succeeded_NoFailedStep == failed \subseteq {"migrate"}
Succeeded == failed = {} /\ ~ raised

Pushed_DataIfGreen == [work EXCEPT !.items = IF Succeeded THEN @ ELSE origin.items]
Pushed == work

Push ==
  /\ at = Committing
  /\ origin' = Pushed
  /\ green' = IF Succeeded THEN green \cup {[day |-> day, asOf |-> asOf]} ELSE green
  /\ at' = Idle
  /\ Leave("daily")
  /\ UNCHANGED <<world, applied, rows, day, asOf, work, failed, raised, lost, faults>>

(* The runner is lost, or all four attempts to push are refused.           *)
Lose ==
  /\ at # Idle /\ Fault
  /\ lost' = lost \cup {day}
  /\ at' = Idle
  /\ Leave("daily")
  /\ UNCHANGED <<world, origin, applied, rows, day, asOf, work, failed, raised, green>>

-----------------------------------------------------------------------------
Init ==
  /\ served \in Documents
  /\ shipped \in 0..Versions /\ applied = {}
  /\ origin = [items |-> {}, reports |-> {},
               sheets |-> [i \in DOMAIN Sheets |-> [by |-> 0, of |-> 0]]]
  /\ work = origin
  /\ rows = {} /\ day = 0 /\ asOf = 0 /\ at = Idle /\ failed = {} /\ raised = FALSE
  /\ green = {} /\ lost = {}
  /\ stage = [r \in Runners |-> "off"] /\ code = [r \in Runners |-> 0]
  /\ pending = [r \in Runners |-> {}]
  /\ faults = 0

World == Ship \/ \E d \in Documents : Change(d)
Daily == StartDaily \/ StepOk \/ StepFails \/ StepRaises \/ Push \/ Lose
Sync  == StartSync \/ EndSync
Migrate(r) == ListPending(r) \/ Apply(r)

Next == World \/ Daily \/ Sync \/ \E r \in Runners : Migrate(r)

Spec == Init /\ [][Next]_vars

(* The sync is scheduled hourly and its jobs end.                          *)
FairSpec == Spec /\ WF_vars(Migrate("sync")) /\ WF_vars(StartSync) /\ WF_vars(EndSync)
-----------------------------------------------------------------------------
Tree == [items : SUBSET Item, reports : SUBSET (1..MaxDays), sheets : [DOMAIN Sheets -> Sheet]]

TypeOK ==
  /\ served \in Documents /\ shipped \in 0..Versions
  /\ origin \in Tree /\ work \in Tree
  /\ applied \subseteq 1..shipped /\ rows \subseteq Item
  /\ day \in 0..MaxDays /\ asOf \in 0..day /\ at \in Idle..Committing
  /\ failed \subseteq ToSet(Chain) /\ raised \in BOOLEAN
  /\ green \subseteq [day : 1..day, asOf : 1..day] /\ lost \subseteq 1..day
  /\ stage \in [Runners -> {"off", "begun", "listed"}]
  /\ code \in [Runners -> 0..shipped]
  /\ pending \in [Runners -> SUBSET (1..shipped)]

(* Two runners with different checkouts, killed anywhere, never leave a    *)
(* gap in the schema's history.                                            *)
NoGapInSchema == applied = 1..Cardinality(applied)

(* No step after migrate runs against a schema its own code has outgrown.  *)
StepsSeeTheirSchema == (InChain /\ Step # "migrate") => 1..code["daily"] \subseteq applied

(* daily.yml:135-141 - a run that failed anywhere is never reported green: *)
(* green means the day it was told to be of is reported, every payload a   *)
(* row of that run names is archived, and no sheet is older than the run.  *)
GreenIsComplete ==
  \A g \in green :
    /\ g.asOf \in origin.reports
    /\ {i \in rows : i.day = g.day} \subseteq origin.items
    /\ \A i \in DOMAIN Sheets : origin.sheets[i].by >= g.day

(* A row's payload is in the repository, or in the checkout still to be    *)
(* pushed, unless the runner that fetched it was lost.                     *)
RowsKeepTheirPayload ==
  \A i \in rows : \/ i \in origin.items
                  \/ at # Idle /\ i \in work.items
                  \/ i.day \in lost

Rested == at = Idle /\ day > 0 /\ day \notin lost

(* cli.py:353-354 - a failing tolerant step does not cost the report.      *)
TolerantStepsCostNoReport ==
  (Rested /\ ~ raised /\ failed \subseteq Tolerant) => asOf \in origin.reports

(* migrate.py:35-53 - the schema catches up with the repository whatever   *)
(* collides or dies: a conflict costs one runner its run, not the file.    *)
EventuallyMigrated == <>[](applied = 1..shipped)
=============================================================================
