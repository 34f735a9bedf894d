--------------------------- MODULE DailyChainProofs ---------------------------
(***************************************************************************)
(* What the daily workflow keeps, for every chain that migrates first and  *)
(* does not tolerate a failing migrate or report, and for any number of    *)
(* days, documents, migrations and faults.                                 *)
(*                                                                         *)
(* Two arguments carry it.  The schema: what a runner has listed is what   *)
(* was missing then, so whoever applies the least listed file extends the  *)
(* history by one.  The repository: one workflow writes it, so the         *)
(* checkout of a run is the repository and what this run added.            *)
(***************************************************************************)
EXTENDS DailyChain, ObservationLemmas

(* The listed files a runner has not applied, with what is applied, are    *)
(* all the files of its checkout.                                          *)
Schema ==
  /\ \E n \in 0..Versions : applied = 1..n
  /\ \A r \in Runners :
       /\ pending[r] \subseteq 1..code[r]
       /\ stage[r] # "listed" => pending[r] = {}
       /\ stage[r] = "listed" => 1..code[r] \subseteq applied \cup pending[r]
  /\ InChain /\ at # 1 => 1..code["daily"] \subseteq applied
  /\ at = Idle => stage["daily"] = "off"

(* The checkout is the repository and what the day of the run added.       *)
OneWriter ==
  /\ at # Idle =>
       /\ day \in 1..MaxDays /\ day \notin lost /\ asOf \in 1..day
       /\ origin.items \subseteq work.items /\ origin.reports \subseteq work.reports
       /\ \A i \in work.items : i \in origin.items \/ i.day = day
       /\ \A k \in DOMAIN Sheets :
            \/ work.sheets[k].by = origin.sheets[k].by
            \/ work.sheets[k].by = day
       /\ \A g \in green : g.day < day
  /\ \A k \in DOMAIN Sheets : origin.sheets[k].by <= day

(* Unless the chain was cut short, a step that is past has failed or left  *)
(* its work behind.                                                        *)
LeftItsWork(k) ==
  /\ Chain[k] = "report" => asOf \in work.reports
  /\ Chain[k] = "export" => \A j \in DOMAIN Sheets : work.sheets[j].by = day

StepsDone ==
  at # Idle /\ ~ raised /\ failed \subseteq Tolerant =>
    \A k \in DOMAIN Chain : k < at => Chain[k] \in failed \/ LeftItsWork(k)

IInv ==
  /\ TypeOK /\ Schema /\ OneWriter /\ StepsDone
  /\ RowsKeepTheirPayload /\ GreenIsComplete /\ TolerantStepsCostNoReport

-----------------------------------------------------------------------------
(* The chain is a list without repetitions, migrate first.                 *)
LEMMA ChainShape ==
  /\ Len(Chain) \in Nat /\ DOMAIN Chain = 1..Len(Chain)
  /\ \A i, j \in DOMAIN Chain : Chain[i] = Chain[j] => i = j
  /\ \A step \in ToSet(Chain) : \E k \in DOMAIN Chain : Chain[k] = step
  /\ \A k \in DOMAIN Chain : Chain[k] \in ToSet(Chain)
  /\ 1 \in DOMAIN Chain /\ Chain[1] = "migrate"
<1>1. Len(Chain) \in Nat /\ DOMAIN Chain = 1..Len(Chain)
  BY ChainAssumption
<1>2. \A i, j \in DOMAIN Chain : Chain[i] = Chain[j] => i = j
  BY ChainAssumption DEF IsInjective
<1>3. ToSet(Chain) = {Chain[k] : k \in DOMAIN Chain}
  BY DEF ToSet
<1>4. 1 \in DOMAIN Chain
  BY <1>1, <1>3, ChainAssumption
<1> QED BY <1>1, <1>2, <1>3, <1>4, ChainAssumption

LEMMA InChainIs == InChain => at \in 1..Len(Chain) /\ at # Idle /\ Step \in ToSet(Chain)
BY ChainShape DEF InChain, Idle, Step

LEMMA SheetsShape == DOMAIN Sheets = 1..Len(Sheets) /\ Len(Sheets) \in Nat
BY ChainAssumption

(* A step only adds to what it finds: payloads of its day, rows that name  *)
(* payloads of the checkout, the report, sheets of its own.                *)
LEMMA EffectAdds ==
  ASSUME TypeOK, InChain, day \in 1..MaxDays, asOf \in 1..day, NEW ok \in BOOLEAN, Effect(ok)
  PROVE  /\ rows' \subseteq Item /\ rows \subseteq rows'
         /\ \A i \in rows' : i \in rows \/ i \in work.items
         /\ work' \in Tree
         /\ work.items \subseteq work'.items /\ work.reports \subseteq work'.reports
         /\ \A i \in work'.items : i \in work.items \/ i.day = day
         /\ \A k \in DOMAIN Sheets :
              work'.sheets[k] = work.sheets[k] \/ work'.sheets[k].by = day
         /\ ok /\ Step = "report" => asOf \in work'.reports
         /\ ok /\ Step = "export" => \A k \in DOMAIN Sheets : work'.sheets[k].by = day
<1>1. PICK got \in Part(Unstored, ok, "collect"), read \in Part(Unread, ok, "normalize"),
           sheets \in SheetsAfter(ok) :
        /\ rows' = rows \cup read
        /\ work' = [items |-> work.items \cup got,
                    reports |-> IF Step = "report" /\ ok THEN work.reports \cup {asOf}
                                ELSE work.reports,
                    sheets |-> sheets]
  BY DEF Effect
<1>2. got \subseteq Unstored /\ read \subseteq Unread
  BY DEF Part
<1>3. /\ work.items \subseteq Item /\ work.reports \subseteq 1..MaxDays
      /\ work.sheets \in [DOMAIN Sheets -> Sheet] /\ served \in Documents
      /\ rows \subseteq Item
  BY DEF TypeOK, Tree
<1>4. \A i \in got : i \in Item /\ i.day = day
  BY <1>2, <1>3 DEF Unstored, Item
<1>5. read \subseteq work.items
  BY <1>2 DEF Unread
<1>6. /\ sheets \in [DOMAIN Sheets -> Sheet]
      /\ \A k \in DOMAIN Sheets : sheets[k] = work.sheets[k] \/ sheets[k].by = day
      /\ ok /\ Step = "export" => \A k \in DOMAIN Sheets : sheets[k].by = day
  <2>1. CASE Step # "export"
    BY <1>3, <2>1 DEF SheetsAfter
  <2>2. CASE Step = "export"
    <3>1. PICK n \in Nat : sheets = Exported(n) /\ (ok => n = Len(Sheets))
      BY <2>2, SheetsShape DEF SheetsAfter
    <3>2. \A k \in DOMAIN Sheets :
            [by |-> day, of |-> IF Sheets[k] \in Dated THEN asOf ELSE day] \in Sheet
      BY ChainAssumption DEF Sheet
    <3>3. \A k \in DOMAIN Sheets :
            /\ k \in Nat
            /\ sheets[k] = IF k > n THEN work.sheets[k]
                           ELSE [by |-> day, of |-> IF Sheets[k] \in Dated THEN asOf ELSE day]
      BY <3>1, SheetsShape DEF Exported
    <3>4. sheets \in [DOMAIN Sheets -> Sheet]
      BY <1>3, <3>1, <3>2 DEF Exported
    <3>5. ok => \A k \in DOMAIN Sheets : ~ (k > n)
      BY <3>1, SheetsShape
    <3> QED BY <3>3, <3>4, <3>5
  <2> QED BY <2>1, <2>2
<1>7. asOf \in 1..MaxDays
  BY ChainAssumption
<1>8. work' \in Tree
  BY <1>1, <1>3, <1>4, <1>6, <1>7 DEF Tree
<1> QED BY <1>1, <1>3, <1>4, <1>5, <1>6, <1>8

-----------------------------------------------------------------------------
LEMMA InitInv == Init => IInv
<1> SUFFICES ASSUME Init PROVE IInv
  OBVIOUS
<1>1. origin \in Tree /\ work = origin
  <2>1. [by |-> 0, of |-> 0] \in Sheet
    BY ChainAssumption DEF Sheet
  <2> QED BY <2>1 DEF Init, Tree
<1>2. TypeOK
  <2>1. /\ served \in Documents /\ shipped \in 0..Versions /\ applied \subseteq 1..shipped
        /\ rows \subseteq Item /\ day \in 0..MaxDays /\ asOf \in 0..day
    BY ChainAssumption DEF Init
  <2>2. at \in Idle..Committing
    BY ChainShape DEF Init, Idle, Committing
  <2>3. /\ stage \in [Runners -> {"off", "begun", "listed"}]
        /\ code \in [Runners -> 0..shipped] /\ pending \in [Runners -> SUBSET (1..shipped)]
    BY <2>1, ChainAssumption DEF Init
  <2>4. /\ failed \subseteq ToSet(Chain) /\ raised \in BOOLEAN
        /\ green \subseteq [day : 1..day, asOf : 1..day] /\ lost \subseteq 1..day
    BY DEF Init
  <2> QED BY <1>1, <2>1, <2>2, <2>3, <2>4 DEF TypeOK
<1>3. Schema
  <2>1. applied = 1..0
    BY DEF Init
  <2>2. ~ InChain
    BY ChainShape DEF Init, InChain, Idle
  <2>3. 0 \in 0..Versions
    BY ChainAssumption
  <2>4. /\ \A r \in Runners : stage[r] = "off" /\ pending[r] = {}
        /\ stage["daily"] = "off"
    BY DEF Init, Runners
  <2> QED BY <2>1, <2>2, <2>3, <2>4 DEF Schema
<1>4. OneWriter /\ StepsDone /\ RowsKeepTheirPayload /\ GreenIsComplete
      /\ TolerantStepsCostNoReport
  BY DEF Init, OneWriter, StepsDone, RowsKeepTheirPayload, GreenIsComplete,
         TolerantStepsCostNoReport, Rested, Idle
<1> QED BY <1>2, <1>3, <1>4 DEF IInv

(* The least listed file is listed.                                        *)
LEMMA NextFileIsListed ==
  ASSUME TypeOK, NEW r \in Runners, pending[r] # {}
  PROVE  NextFile(r) \in pending[r] /\ \A u \in pending[r] : NextFile(r) <= u
<1>1. pending[r] \in SUBSET Nat
  BY DEF TypeOK
<1>2. \E v \in pending[r] : \A u \in pending[r] : v <= u
  BY <1>1, LeastNumber
<1> QED BY <1>2 DEF NextFile

LEMMA MigrateType ==
  ASSUME TypeOK, NEW r \in Runners, ListPending(r) \/ Apply(r)
  PROVE  TypeOK'
<1>1. /\ shipped' = shipped /\ served' = served /\ origin' = origin /\ work' = work
      /\ rows' = rows /\ day' = day /\ asOf' = asOf /\ at' = at /\ failed' = failed
      /\ raised' = raised /\ green' = green /\ lost' = lost /\ code' = code
  BY DEF ListPending, Apply, world, run
<1>2. CASE ListPending(r)
  <2>1. code[r] \in 0..shipped /\ shipped \in Nat
    BY ChainAssumption DEF TypeOK
  <2>2. ToApply(code[r]) \subseteq 1..shipped
    BY <2>1 DEF ToApply
  <2>3. /\ applied' = applied /\ stage' = [stage EXCEPT ![r] = "listed"]
        /\ pending' = [pending EXCEPT ![r] = ToApply(code[r])]
    BY <1>2 DEF ListPending
  <2> QED BY <1>1, <2>2, <2>3 DEF TypeOK
<1>3. CASE Apply(r)
  <2>1. NextFile(r) \in pending[r]
    BY <1>3, NextFileIsListed DEF Apply
  <2>2. /\ applied' = applied \cup {NextFile(r)} /\ stage' = stage
        /\ pending' = [pending EXCEPT ![r] = @ \ {NextFile(r)}]
    BY <1>3 DEF Apply
  <2> QED BY <1>1, <2>1, <2>2 DEF TypeOK
<1> QED BY <1>2, <1>3

LEMMA WorldType == TypeOK /\ (World \/ Sync) => TypeOK'
<1> SUFFICES ASSUME TypeOK, World \/ Sync PROVE TypeOK'
  OBVIOUS
<1>1. /\ applied' = applied /\ origin' = origin /\ work' = work
      /\ rows' = rows /\ day' = day /\ asOf' = asOf /\ at' = at /\ failed' = failed
      /\ raised' = raised /\ green' = green /\ lost' = lost
  BY DEF World, Sync, Ship, Change, StartSync, EndSync, run
<1>2. shipped' \in 0..Versions /\ shipped <= shipped' /\ shipped \in Nat /\ served' \in Documents
  BY ChainAssumption DEF World, Sync, Ship, Change, StartSync, EndSync, world, TypeOK
<1>3. 1..shipped \subseteq 1..shipped' /\ 0..shipped \subseteq 0..shipped' /\ shipped \in 0..shipped'
  BY <1>2
<1>4. /\ stage' \in [Runners -> {"off", "begun", "listed"}]
      /\ code' \in [Runners -> 0..shipped']
      /\ pending' \in [Runners -> SUBSET (1..shipped')]
  <2>1. CASE World
    BY <1>3, <2>1 DEF World, Ship, Change, migr, TypeOK
  <2>2. CASE StartSync
    BY <1>3, <2>2 DEF StartSync, CheckOut, TypeOK
  <2>3. CASE EndSync
    BY <1>3, <2>3 DEF EndSync, Leave, TypeOK
  <2> QED BY <2>1, <2>2, <2>3 DEF Sync
<1> QED BY <1>1, <1>2, <1>3, <1>4 DEF TypeOK

LEMMA NotTolerant == "migrate" \notin Tolerant /\ "report" \notin Tolerant
BY ChainAssumption

(* A step goes to the next one or to the commit.                           *)
LEMMA AfterStep ==
  ASSUME InChain, NEW ok \in BOOLEAN
  PROVE  /\ After(ok) \in Idle..Committing /\ After(ok) # Idle
         /\ InChain => at < Committing
         /\ After(ok) = at + 1 \/ (~ ok /\ Step \notin Tolerant /\ After(ok) = Committing)
BY InChainIs, ChainShape DEF After, Idle, Committing

LEMMA DailyType ==
  ASSUME TypeOK, OneWriter, Daily
  PROVE  TypeOK'
<1>0. MaxDays \in Nat /\ shipped \in Nat /\ day \in Nat
  BY ChainAssumption DEF TypeOK
<1>1. /\ shipped' = shipped /\ served' = served /\ applied' = applied
      /\ \/ stage' = stage /\ code' = code /\ pending' = pending
         \/ CheckOut("daily") /\ pending' = pending
         \/ Leave("daily")
  BY DEF Daily, StartDaily, StepOk, StepFails, StepRaises, Push, Lose, world, migr
<1>2. /\ stage' \in [Runners -> {"off", "begun", "listed"}]
      /\ code' \in [Runners -> 0..shipped] /\ pending' \in [Runners -> SUBSET (1..shipped)]
  BY <1>0, <1>1 DEF TypeOK, CheckOut, Leave
<1>3. CASE StartDaily
  <2>1. /\ day' = day + 1 /\ day' \in 0..MaxDays /\ asOf' \in 0..day' /\ work' = origin
        /\ at' = 1 /\ failed' = {} /\ raised' = FALSE
        /\ origin' = origin /\ rows' = rows /\ green' = green /\ lost' = lost
    BY <1>0, <1>3 DEF StartDaily
  <2>2. at' \in Idle..Committing
    BY <2>1, ChainShape DEF Idle, Committing
  <2>3. green \subseteq [day : 1..day', asOf : 1..day'] /\ lost \subseteq 1..day'
    BY <1>0, <2>1 DEF TypeOK
  <2> QED BY <1>1, <1>2, <2>1, <2>2, <2>3 DEF TypeOK
<1>4. CASE StepOk \/ StepFails \/ StepRaises
  <2>1. PICK ok \in BOOLEAN : Effect(ok) /\ (at' = After(ok) \/ at' = Committing)
    BY <1>4 DEF StepOk, StepFails, StepRaises
  <2>2. /\ InChain /\ day' = day /\ asOf' = asOf /\ origin' = origin
        /\ green' = green /\ lost' = lost
        /\ failed' \subseteq failed \cup {Step} /\ raised' \in BOOLEAN
    BY <1>4 DEF StepOk, StepFails, StepRaises, TypeOK
  <2>3. day \in 1..MaxDays /\ asOf \in 1..day
    BY <2>2, InChainIs DEF OneWriter
  <2>4. rows' \subseteq Item /\ work' \in Tree
    BY <2>1, <2>2, <2>3, EffectAdds
  <2>5. at' \in Idle..Committing
    BY <2>1, <2>2, AfterStep, ChainShape DEF Idle, Committing
  <2>6. failed' \subseteq ToSet(Chain)
    BY <2>2, InChainIs DEF TypeOK
  <2> QED BY <1>1, <1>2, <2>2, <2>4, <2>5, <2>6 DEF TypeOK
<1>5. CASE Push
  <2>1. /\ origin' = work /\ at' = Idle /\ rows' = rows /\ day' = day /\ asOf' = asOf
        /\ work' = work /\ failed' = failed /\ raised' = raised /\ lost' = lost
        /\ green' \subseteq green \cup {[day |-> day, asOf |-> asOf]} /\ at = Committing
    BY <1>5 DEF Push, Pushed
  <2>2. day \in 1..day /\ asOf \in 1..day
    BY <2>1, ChainShape DEF OneWriter, Idle, Committing
  <2>3. green' \subseteq [day : 1..day, asOf : 1..day]
    BY <2>1, <2>2 DEF TypeOK
  <2>4. at' \in Idle..Committing
    BY <2>1, ChainShape DEF Idle, Committing
  <2> QED BY <1>1, <1>2, <2>1, <2>3, <2>4 DEF TypeOK
<1>6. CASE Lose
  <2>1. /\ origin' = origin /\ at' = Idle /\ rows' = rows /\ day' = day /\ asOf' = asOf
        /\ work' = work /\ failed' = failed /\ raised' = raised
        /\ lost' = lost \cup {day} /\ green' = green /\ at # Idle
    BY <1>6 DEF Lose
  <2>2. day \in 1..day
    BY <2>1 DEF OneWriter
  <2>3. at' \in Idle..Committing
    BY <2>1, ChainShape DEF Idle, Committing
  <2> QED BY <1>1, <1>2, <2>1, <2>2, <2>3 DEF TypeOK
<1> QED BY <1>3, <1>4, <1>5, <1>6 DEF Daily

LEMMA TypeStep == TypeOK /\ OneWriter /\ [Next]_vars => TypeOK'
<1> SUFFICES ASSUME TypeOK, OneWriter, [Next]_vars PROVE TypeOK'
  OBVIOUS
<1>1. CASE UNCHANGED vars
  BY <1>1 DEF vars, world, run, migr, TypeOK
<1> QED BY <1>1, WorldType, DailyType, MigrateType DEF Next, Migrate

-----------------------------------------------------------------------------
(* The least file a runner has listed and nobody has applied follows the   *)
(* last applied one.                                                       *)
LEMMA NextFileIsNext ==
  ASSUME TypeOK, Schema, NEW r \in Runners, pending[r] # {}, NextFile(r) \notin applied,
         NEW n \in 0..Versions, applied = 1..n
  PROVE  NextFile(r) = n + 1
<1>1. NextFile(r) \in pending[r] /\ \A u \in pending[r] : NextFile(r) <= u
  BY NextFileIsListed
<1>2. /\ pending[r] \subseteq 1..code[r] /\ code[r] \in Nat
      /\ 1..code[r] \subseteq applied \cup pending[r]
  BY ChainAssumption DEF Schema, TypeOK
<1>3. NextFile(r) \in 1..code[r] /\ NextFile(r) > n
  BY <1>1, <1>2
<1>4. n + 1 \in pending[r]
  BY <1>2, <1>3
<1> QED BY <1>1, <1>3, <1>4

LEMMA MigrateSchema ==
  ASSUME TypeOK, Schema, NEW r \in Runners, ListPending(r) \/ Apply(r)
  PROVE  Schema'
<1>1. at' = at /\ code' = code
  BY DEF ListPending, Apply, run
<1>2. PICK n \in 0..Versions : applied = 1..n
  BY DEF Schema
<1>3. CASE ListPending(r)
  <2>1. /\ applied' = applied /\ stage' = [stage EXCEPT ![r] = "listed"]
        /\ pending' = [pending EXCEPT ![r] = (1..code[r]) \ applied]
        /\ stage[r] = "begun"
    BY <1>3 DEF ListPending, ToApply
  <2>2. \A q \in Runners :
          /\ stage'[q] = IF q = r THEN "listed" ELSE stage[q]
          /\ pending'[q] = IF q = r THEN (1..code[r]) \ applied ELSE pending[q]
    BY <2>1 DEF TypeOK
  <2>3. at # Idle \/ r # "daily"
    BY <2>1 DEF Schema
  <2> QED BY <1>1, <2>1, <2>2, <2>3 DEF Schema, InChain, Runners
<1>4. CASE Apply(r)
  <2>1. /\ applied' = applied \cup {NextFile(r)} /\ stage' = stage
        /\ pending' = [pending EXCEPT ![r] = @ \ {NextFile(r)}]
        /\ pending[r] # {} /\ NextFile(r) \notin applied
    BY <1>4 DEF Apply
  <2>2. NextFile(r) = n + 1
    BY <1>2, <2>1, NextFileIsNext
  <2>3. n + 1 \in 0..Versions
    <3>1. NextFile(r) \in 1..shipped
      BY <2>1, NextFileIsListed DEF TypeOK
    <3>2. shipped \in 0..Versions /\ Versions \in Nat
      BY ChainAssumption DEF TypeOK
    <3> QED BY <2>2, <3>1, <3>2
  <2>4. applied' = 1..(n + 1)
    BY <1>2, <2>1, <2>2
  <2>5. \A q \in Runners :
          pending'[q] = IF q = r THEN pending[r] \ {NextFile(r)} ELSE pending[q]
    BY <2>1 DEF TypeOK
  <2>6. \A q \in Runners : /\ pending'[q] \subseteq pending[q]
                           /\ applied \cup pending[q] \subseteq applied' \cup pending'[q]
    BY <2>1, <2>5
  <2>7. \E m \in 0..Versions : applied' = 1..m
    BY <2>3, <2>4
  <2>8. applied \subseteq applied'
    BY <2>1
  <2> QED BY <1>1, <2>1, <2>6, <2>7, <2>8 DEF Schema, InChain
<1> QED BY <1>3, <1>4

LEMMA WorldSchema == TypeOK /\ Schema /\ (World \/ Sync) => Schema'
<1> SUFFICES ASSUME TypeOK, Schema, World \/ Sync PROVE Schema'
  OBVIOUS
<1>1. applied' = applied /\ at' = at
  BY DEF World, Sync, Ship, Change, StartSync, EndSync, run
<1>2. CASE World
  BY <1>1, <1>2 DEF World, Ship, Change, migr, Schema, InChain
<1>3. CASE StartSync
  <2>1. /\ stage["sync"] = "off" /\ pending' = pending
        /\ stage' = [stage EXCEPT !["sync"] = "begun"]
        /\ code' = [code EXCEPT !["sync"] = shipped]
    BY <1>3 DEF StartSync, CheckOut
  <2>2. /\ stage'["daily"] = stage["daily"] /\ code'["daily"] = code["daily"]
        /\ stage'["sync"] = "begun" /\ pending'["sync"] = {}
    BY <2>1 DEF TypeOK, Runners, Schema
  <2> QED BY <1>1, <2>1, <2>2 DEF Schema, InChain, Runners
<1>4. CASE EndSync
  <2>1. /\ stage' = [stage EXCEPT !["sync"] = "off"]
        /\ pending' = [pending EXCEPT !["sync"] = {}] /\ code' = code
    BY <1>4 DEF EndSync, Leave
  <2>2. /\ stage'["daily"] = stage["daily"] /\ pending'["daily"] = pending["daily"]
        /\ stage'["sync"] = "off" /\ pending'["sync"] = {}
    BY <2>1 DEF TypeOK, Runners
  <2> QED BY <1>1, <2>1, <2>2 DEF Schema, InChain, Runners
<1> QED BY <1>2, <1>3, <1>4 DEF Sync

(* migrate is the first step, it is over only when nothing is pending, and *)
(* the chain does not go on without it.                                    *)
LEMMA DailySchema == TypeOK /\ Schema /\ Daily => Schema'
<1> SUFFICES ASSUME TypeOK, Schema, Daily PROVE Schema'
  OBVIOUS
<1>1. applied' = applied
  BY DEF Daily, StartDaily, StepOk, StepFails, StepRaises, Push, Lose
<1>2. CASE StartDaily
  <2>1. /\ stage["daily"] = "off" /\ pending' = pending /\ at' = 1
        /\ stage' = [stage EXCEPT !["daily"] = "begun"]
        /\ code' = [code EXCEPT !["daily"] = shipped]
    BY <1>2 DEF StartDaily, CheckOut, Schema
  <2>2. /\ stage'["sync"] = stage["sync"] /\ code'["sync"] = code["sync"]
        /\ stage'["daily"] = "begun" /\ pending'["daily"] = {}
    BY <2>1 DEF TypeOK, Runners, Schema
  <2> QED BY <1>1, <2>1, <2>2 DEF Schema, InChain, Runners, Idle
<1>3. InChain /\ Step # "migrate" => 1..code["daily"] \subseteq applied
  BY ChainShape DEF Schema, Step
<1>4. CASE StepOk
  <2>1. /\ InChain /\ stage' = stage /\ code' = code /\ pending' = pending
        /\ at' = After(TRUE) /\ (Step = "migrate" => Migrated("daily"))
    BY <1>4 DEF StepOk, migr
  <2>2. 1..code["daily"] \subseteq applied
    BY <1>3, <2>1 DEF Migrated, Schema, Runners
  <2>3. at' # Idle
    BY <2>1, AfterStep
  <2> QED BY <1>1, <2>1, <2>2, <2>3 DEF Schema, InChain
<1>5. CASE StepFails \/ StepRaises \/ Push \/ Lose
  <2>1. /\ stage' = [stage EXCEPT !["daily"] = "off"]
        /\ pending' = [pending EXCEPT !["daily"] = {}] /\ code' = code
    BY <1>5 DEF StepFails, StepRaises, Push, Lose, Leave
  <2>2. /\ stage'["sync"] = stage["sync"] /\ pending'["sync"] = pending["sync"]
        /\ stage'["daily"] = "off" /\ pending'["daily"] = {}
    BY <2>1 DEF TypeOK, Runners
  <2>3. at' \in DOMAIN Chain => 1..code["daily"] \subseteq applied
    <3>1. CASE StepFails
      <4>1. InChain /\ at' = After(FALSE)
        BY <3>1 DEF StepFails
      <4>2. Step = "migrate" => at' = Committing
        BY <4>1, NotTolerant DEF After
      <4>3. Committing \notin DOMAIN Chain
        BY ChainShape DEF Committing
      <4> QED BY <1>3, <4>1, <4>2, <4>3
    <3>2. CASE StepRaises \/ Push \/ Lose
      <4>1. at' = Committing \/ at' = Idle
        BY <3>2 DEF StepRaises, Push, Lose
      <4>2. Committing \notin DOMAIN Chain /\ Idle \notin DOMAIN Chain
        BY ChainShape DEF Committing, Idle
      <4> QED BY <4>1, <4>2
    <3> QED BY <1>5, <3>1, <3>2
  <2> QED BY <1>1, <2>1, <2>2, <2>3 DEF Schema, InChain, Runners
<1> QED BY <1>2, <1>4, <1>5 DEF Daily

LEMMA SchemaStep == TypeOK /\ Schema /\ [Next]_vars => Schema'
<1> SUFFICES ASSUME TypeOK, Schema, [Next]_vars PROVE Schema'
  OBVIOUS
<1>1. CASE UNCHANGED vars
  BY <1>1 DEF vars, Schema, InChain
<1> QED BY <1>1, WorldSchema, DailySchema, MigrateSchema DEF Next, Migrate
-----------------------------------------------------------------------------
(* What an action outside the daily run leaves alone, and what a step of   *)
(* the run does, whatever its outcome.                                     *)
LEMMA OthersStayOut ==
  ASSUME World \/ Sync \/ (\E r \in Runners : Migrate(r)) \/ UNCHANGED vars
  PROVE  /\ origin' = origin /\ rows' = rows /\ day' = day /\ asOf' = asOf /\ work' = work
         /\ at' = at /\ failed' = failed /\ raised' = raised /\ green' = green /\ lost' = lost
BY DEF World, Sync, Migrate, Ship, Change, StartSync, EndSync, ListPending, Apply, run, vars

LEMMA AStep ==
  ASSUME TypeOK, OneWriter, StepOk \/ StepFails \/ StepRaises
  PROVE  /\ InChain /\ at # Idle /\ at' # Idle
         /\ day \in 1..MaxDays /\ asOf \in 1..day /\ day \notin lost
         /\ \E ok \in BOOLEAN : Effect(ok)
         /\ day' = day /\ asOf' = asOf /\ origin' = origin /\ green' = green /\ lost' = lost
<1>1. InChain /\ at # Idle
  BY InChainIs DEF StepOk, StepFails, StepRaises
<1>2. at' # Idle
  <2>1. at' \in {After(TRUE), After(FALSE), Committing}
    BY DEF StepOk, StepFails, StepRaises
  <2>2. Committing # Idle
    BY ChainShape DEF Idle, Committing
  <2>3. After(TRUE) # Idle /\ After(FALSE) # Idle
    BY <1>1, AfterStep
  <2> QED BY <2>1, <2>2, <2>3
<1>3. \E ok \in BOOLEAN : Effect(ok)
  BY DEF StepOk, StepFails, StepRaises
<1> QED BY <1>1, <1>2, <1>3 DEF OneWriter, StepOk, StepFails, StepRaises

LEMMA WriterStep == TypeOK /\ OneWriter /\ [Next]_vars => OneWriter'
<1> SUFFICES ASSUME TypeOK, OneWriter, [Next]_vars PROVE OneWriter'
  OBVIOUS
<1>0. MaxDays \in Nat /\ day \in Nat /\ \A k \in DOMAIN Sheets : origin.sheets[k].by \in Nat
  <2>1. \A s \in Sheet : s.by \in Nat
    BY ChainAssumption DEF Sheet
  <2> QED BY <2>1, ChainAssumption DEF TypeOK, Tree
<1>1. CASE World \/ Sync \/ (\E r \in Runners : Migrate(r)) \/ UNCHANGED vars
  BY <1>1, OthersStayOut DEF OneWriter
<1>2. CASE StartDaily
  <2>1. /\ day' = day + 1 /\ day' \in 1..MaxDays /\ asOf' \in 1..day' /\ work' = origin
        /\ origin' = origin /\ green' = green /\ lost' = lost
    BY <1>0, <1>2 DEF StartDaily
  <2>2. day' \notin lost /\ \A g \in green : g.day < day'
    BY <1>0, <2>1 DEF TypeOK
  <2>3. \A k \in DOMAIN Sheets : origin.sheets[k].by <= day'
    BY <1>0, <2>1 DEF OneWriter
  <2> QED BY <2>1, <2>2, <2>3 DEF OneWriter
<1>3. CASE StepOk \/ StepFails \/ StepRaises
  <2>1. PICK ok \in BOOLEAN : Effect(ok)
    BY <1>3, AStep
  <2>2. /\ InChain /\ at # Idle /\ day \in 1..MaxDays /\ asOf \in 1..day /\ day \notin lost
        /\ day' = day /\ asOf' = asOf /\ origin' = origin /\ green' = green /\ lost' = lost
    BY <1>3, AStep
  <2>3. /\ work.items \subseteq work'.items /\ work.reports \subseteq work'.reports
        /\ \A i \in work'.items : i \in work.items \/ i.day = day
        /\ \A k \in DOMAIN Sheets :
             work'.sheets[k] = work.sheets[k] \/ work'.sheets[k].by = day
    BY <2>1, <2>2, EffectAdds
  <2> QED BY <2>2, <2>3 DEF OneWriter
<1>4. CASE Push
  <2>1. /\ origin' = work /\ at' = Idle /\ day' = day /\ at # Idle
    BY <1>4, ChainShape DEF Push, Pushed, Idle, Committing
  <2>2. \A k \in DOMAIN Sheets : work.sheets[k].by <= day
    BY <1>0, <2>1 DEF OneWriter
  <2> QED BY <2>1, <2>2 DEF OneWriter
<1>5. CASE Lose
  BY <1>5 DEF Lose, OneWriter
<1> QED BY <1>1, <1>2, <1>3, <1>4, <1>5 DEF Next, Daily

LEMMA DoneStep == TypeOK /\ OneWriter /\ StepsDone /\ [Next]_vars => StepsDone'
<1> SUFFICES ASSUME TypeOK, OneWriter, StepsDone, [Next]_vars PROVE StepsDone'
  OBVIOUS
<1>1. CASE World \/ Sync \/ (\E r \in Runners : Migrate(r)) \/ UNCHANGED vars
  BY <1>1, OthersStayOut DEF StepsDone, LeftItsWork
<1>2. CASE StartDaily
  <2>1. at' = 1 /\ \A k \in DOMAIN Chain : ~ (k < 1)
    BY <1>2, ChainShape DEF StartDaily
  <2> QED BY <2>1 DEF StepsDone
<1>3. CASE StepOk \/ StepFails
  <2> SUFFICES ASSUME ~ raised', failed' \subseteq Tolerant,
                      NEW k \in DOMAIN Chain, k < at'
               PROVE  Chain[k] \in failed' \/ LeftItsWork(k)'
    BY DEF StepsDone
  <2>1. PICK ok \in BOOLEAN :
          /\ Effect(ok) /\ at' = After(ok)
          /\ failed' = (IF ok THEN failed ELSE failed \cup {Step}) /\ raised' = raised
    BY <1>3 DEF StepOk, StepFails
  <2>2. /\ InChain /\ at # Idle /\ day \in 1..MaxDays /\ asOf \in 1..day
        /\ day' = day /\ asOf' = asOf
    BY <1>3, AStep
  <2>3. /\ work.reports \subseteq work'.reports
        /\ \A j \in DOMAIN Sheets :
             work'.sheets[j] = work.sheets[j] \/ work'.sheets[j].by = day
        /\ ok /\ Step = "report" => asOf \in work'.reports
        /\ ok /\ Step = "export" => \A j \in DOMAIN Sheets : work'.sheets[j].by = day
    BY <2>1, <2>2, EffectAdds
  <2>4. at' = at + 1
    BY <2>1, <2>2, AfterStep
  <2>5. k < at \/ k = at
    BY <2>2, <2>4, ChainShape, InChainIs
  <2>6. CASE k < at
    <3>1. Chain[k] \in failed \/ LeftItsWork(k)
      BY <2>1, <2>2, <2>6 DEF StepsDone
    <3> QED BY <2>1, <2>2, <2>3, <3>1 DEF LeftItsWork
  <2>7. CASE k = at
    BY <2>1, <2>2, <2>3, <2>7 DEF LeftItsWork, Step
  <2> QED BY <2>5, <2>6, <2>7
<1>4. CASE StepRaises \/ Push \/ Lose
  BY <1>4 DEF StepRaises, Push, Lose, StepsDone
<1> QED BY <1>1, <1>2, <1>3, <1>4 DEF Next, Daily

-----------------------------------------------------------------------------
(* A row names a payload of the repository, of the checkout, or of a day   *)
(* whose runner was lost.                                                  *)
LEMMA PayloadStep ==
  TypeOK /\ OneWriter /\ RowsKeepTheirPayload /\ [Next]_vars => RowsKeepTheirPayload'
<1> SUFFICES ASSUME TypeOK, OneWriter, RowsKeepTheirPayload, [Next]_vars
             PROVE  RowsKeepTheirPayload'
  OBVIOUS
<1>1. CASE World \/ Sync \/ (\E r \in Runners : Migrate(r)) \/ UNCHANGED vars
  BY <1>1, OthersStayOut DEF RowsKeepTheirPayload
<1>2. CASE StartDaily
  BY <1>2 DEF StartDaily, RowsKeepTheirPayload
<1>3. CASE StepOk \/ StepFails \/ StepRaises
  <2>1. PICK ok \in BOOLEAN : Effect(ok)
    BY <1>3, AStep
  <2>2. /\ InChain /\ at # Idle /\ at' # Idle /\ day \in 1..MaxDays /\ asOf \in 1..day
        /\ origin' = origin /\ lost' = lost
    BY <1>3, AStep
  <2>3. work.items \subseteq work'.items /\ \A i \in rows' : i \in rows \/ i \in work.items
    BY <2>1, <2>2, EffectAdds
  <2> QED BY <2>2, <2>3 DEF RowsKeepTheirPayload
<1>4. CASE Push
  <2>1. origin' = work /\ rows' = rows /\ lost' = lost /\ at # Idle
    BY <1>4, ChainShape DEF Push, Pushed, Idle, Committing
  <2> QED BY <2>1 DEF RowsKeepTheirPayload, OneWriter
<1>5. CASE Lose
  <2>1. /\ origin' = origin /\ rows' = rows /\ lost' = lost \cup {day} /\ at # Idle
    BY <1>5 DEF Lose
  <2> QED BY <2>1 DEF RowsKeepTheirPayload, OneWriter
<1> QED BY <1>1, <1>2, <1>3, <1>4, <1>5 DEF Next, Daily

(* A run that reaches the commit without a failure left its report, its    *)
(* sheets and its payloads, and what it pushes holds what was there.       *)
LEMMA GreenStep ==
  TypeOK /\ OneWriter /\ StepsDone /\ RowsKeepTheirPayload /\ GreenIsComplete /\ [Next]_vars
    => GreenIsComplete'
<1> SUFFICES ASSUME TypeOK, OneWriter, StepsDone, RowsKeepTheirPayload, GreenIsComplete,
                    [Next]_vars
             PROVE  GreenIsComplete'
  OBVIOUS
<1>1. CASE World \/ Sync \/ (\E r \in Runners : Migrate(r)) \/ UNCHANGED vars
  BY <1>1, OthersStayOut DEF GreenIsComplete
<1>2. CASE StartDaily \/ Lose
  BY <1>2 DEF StartDaily, Lose, GreenIsComplete
<1>3. CASE StepOk \/ StepFails \/ StepRaises
  <2>1. PICK ok \in BOOLEAN : Effect(ok)
    BY <1>3, AStep
  <2>2. /\ InChain /\ at # Idle /\ day \in 1..MaxDays /\ asOf \in 1..day
        /\ origin' = origin /\ green' = green
    BY <1>3, AStep
  <2>3. \A i \in rows' : i \in rows \/ i \in work.items
    BY <2>1, <2>2, EffectAdds
  <2>4. \A g \in green : g.day < day /\ g.day \in Nat
    BY <2>2 DEF OneWriter, TypeOK
  <2>5. \A i \in work.items : i \in origin.items \/ i.day = day
    BY <2>2 DEF OneWriter
  <2>6. ASSUME NEW g \in green, NEW i \in rows', i.day = g.day
        PROVE  i \in origin.items
    BY <2>2, <2>3, <2>4, <2>5, <2>6 DEF GreenIsComplete
  <2> QED BY <2>2, <2>6 DEF GreenIsComplete
<1>4. CASE Push
  <2>1. /\ origin' = work /\ rows' = rows /\ at = Committing /\ at # Idle
        /\ green' = IF Succeeded THEN green \cup {[day |-> day, asOf |-> asOf]} ELSE green
    BY <1>4, ChainShape DEF Push, Pushed, Idle, Committing
  <2>2. /\ day \in Nat /\ day \notin lost
        /\ origin.items \subseteq work.items /\ origin.reports \subseteq work.reports
        /\ \A k \in DOMAIN Sheets :
             work.sheets[k].by = origin.sheets[k].by \/ work.sheets[k].by = day
        /\ \A g \in green : g.day < day /\ g.day \in Nat
    BY <2>1 DEF OneWriter, TypeOK
  <2>3. ASSUME NEW g \in green
        PROVE  /\ g.asOf \in work.reports
               /\ {i \in rows : i.day = g.day} \subseteq work.items
               /\ \A k \in DOMAIN Sheets : work.sheets[k].by >= g.day
    BY <2>2, <2>3 DEF GreenIsComplete
  <2>4. ASSUME Succeeded
        PROVE  /\ asOf \in work.reports
               /\ {i \in rows : i.day = day} \subseteq work.items
               /\ \A k \in DOMAIN Sheets : work.sheets[k].by >= day
    <3>1. \A k \in DOMAIN Chain : LeftItsWork(k)
      BY <2>1, <2>4, ChainShape DEF Succeeded, StepsDone, Committing
    <3>2. "report" \in ToSet(Chain) /\ "export" \in ToSet(Chain)
      BY ChainAssumption
    <3>3. asOf \in work.reports /\ \A k \in DOMAIN Sheets : work.sheets[k].by = day
      BY <3>1, <3>2, ChainShape DEF LeftItsWork
    <3>4. {i \in rows : i.day = day} \subseteq work.items
      BY <2>2 DEF RowsKeepTheirPayload
    <3> QED BY <2>2, <3>3, <3>4
  <2>5. \A g \in green' : g \in green \/ (Succeeded /\ g = [day |-> day, asOf |-> asOf])
    BY <2>1
  <2> QED BY <2>1, <2>3, <2>4, <2>5 DEF GreenIsComplete
<1> QED BY <1>1, <1>2, <1>3, <1>4 DEF Next, Daily

(* The report is not a tolerant step: it has not failed, and it was not    *)
(* cut off.                                                                *)
LEMMA TolerantStep ==
  TypeOK /\ OneWriter /\ StepsDone /\ TolerantStepsCostNoReport /\ [Next]_vars
    => TolerantStepsCostNoReport'
<1> SUFFICES ASSUME TypeOK, OneWriter, StepsDone, TolerantStepsCostNoReport, [Next]_vars
             PROVE  TolerantStepsCostNoReport'
  OBVIOUS
<1>1. CASE World \/ Sync \/ (\E r \in Runners : Migrate(r)) \/ UNCHANGED vars
  BY <1>1, OthersStayOut DEF TolerantStepsCostNoReport, Rested
<1>2. CASE StartDaily
  BY <1>2 DEF StartDaily, TolerantStepsCostNoReport, Rested, Idle
<1>3. CASE StepOk \/ StepFails \/ StepRaises
  BY <1>3, AStep DEF TolerantStepsCostNoReport, Rested
<1>4. CASE Push
  <2>1. /\ origin' = work /\ asOf' = asOf /\ failed' = failed /\ raised' = raised
        /\ at = Committing /\ at # Idle
    BY <1>4, ChainShape DEF Push, Pushed, Idle, Committing
  <2>2. ASSUME ~ raised, failed \subseteq Tolerant PROVE asOf \in work.reports
    <3>1. PICK k \in DOMAIN Chain : Chain[k] = "report"
      BY ChainShape, ChainAssumption
    <3>2. k < at
      BY <2>1, ChainShape DEF Committing
    <3>3. Chain[k] \notin failed
      BY <2>2, <3>1, NotTolerant
    <3> QED BY <2>1, <2>2, <3>1, <3>2, <3>3 DEF StepsDone, LeftItsWork
  <2> QED BY <2>1, <2>2 DEF TolerantStepsCostNoReport
<1>5. CASE Lose
  BY <1>5 DEF Lose, TolerantStepsCostNoReport, Rested
<1> QED BY <1>1, <1>2, <1>3, <1>4, <1>5 DEF Next, Daily

-----------------------------------------------------------------------------
LEMMA Invariance == Spec => []IInv
<1>1. IInv /\ [Next]_vars => IInv'
  BY TypeStep, SchemaStep, WriterStep, DoneStep, PayloadStep, GreenStep, TolerantStep DEF IInv
<1> QED BY <1>1, InitInv, PTL DEF Spec

(* Every variable of the deployed system keeps its type: only migrations   *)
(* that have shipped are applied, and the run's day stays within bounds.   *)
THEOREM TypeCorrect == Spec => []TypeOK
<1>1. IInv => TypeOK
  BY DEF IInv
<1> QED BY <1>1, Invariance, PTL

(* Two runners that apply migrations against one database, with different  *)
(* checkouts and killed anywhere, leave no gap in schema_migrations.       *)
THEOREM SchemaHasNoGap == Spec => []NoGapInSchema
<1>1. IInv => NoGapInSchema
  <2> SUFFICES ASSUME IInv PROVE NoGapInSchema
    OBVIOUS
  <2>1. PICK n \in 0..Versions : applied = 1..n
    BY DEF IInv, Schema
  <2>2. n \in Nat
    BY <2>1
  <2>3. Cardinality(1..n) = n
    BY <2>2, FS_Interval
  <2> QED BY <2>1, <2>3 DEF NoGapInSchema
<1> QED BY <1>1, Invariance, PTL

(* A step of the chain after migrate finds every migration its checkout    *)
(* ships applied, whatever the hourly sync did in between.                 *)
THEOREM StepsFindTheirSchema == Spec => []StepsSeeTheirSchema
<1>1. IInv => StepsSeeTheirSchema
  BY ChainShape DEF IInv, Schema, StepsSeeTheirSchema, Step
<1> QED BY <1>1, Invariance, PTL

(* A run daily.yml reports as successful has its report, its payloads and  *)
(* its sheets in the repository, and later runs take none of them away.    *)
THEOREM GreenRunsAreComplete == Spec => []GreenIsComplete
<1>1. IInv => GreenIsComplete
  BY DEF IInv
<1> QED BY <1>1, Invariance, PTL

(* A row of the database whose payload is neither archived nor about to be *)
(* comes from a day whose runner was lost.                                 *)
THEOREM RowsHavePayloads == Spec => []RowsKeepTheirPayload
<1>1. IInv => RowsKeepTheirPayload
  BY DEF IInv
<1> QED BY <1>1, Invariance, PTL

(* A day on which only tolerant steps failed has its report.               *)
THEOREM ReportSurvives == Spec => []TolerantStepsCostNoReport
<1>1. IInv => TolerantStepsCostNoReport
  BY DEF IInv
<1> QED BY <1>1, Invariance, PTL
===============================================================================
