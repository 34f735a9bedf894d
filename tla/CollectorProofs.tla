--------------------------- MODULE CollectorProofs ---------------------------
(***************************************************************************)
(* What `mios collect` keeps, for any sources and documents, with the      *)
(* process killed between any two of its writes.                           *)
(*                                                                         *)
(* The argument is an account of what a kill can cost at each step: up to  *)
(* one copy while the ledger does not list the file just written, up to    *)
(* one omission while the records do not name it.                          *)
(***************************************************************************)
EXTENDS Collector, ObservationLemmas

(* What the running process knows of the document in its hands.            *)
AtWork ==
  /\ pc \notin {"idle", "visit"} => src \in Sources
  /\ pc \in {"file", "ledger", "validators"} =>
       answer.status = "SUCCESS" /\ answer.doc \in Documents
  /\ pc \in {"file", "ledger"} => answer.doc \notin ledger[src]
  /\ pc \in {"ledger", "validators"} => answer.doc \in Stored(src)
  /\ pc = "health" =>
       \/ answer.status = "FAILED"
       \/ /\ answer.status = "SUCCESS"
          /\ answer.doc # None => answer.doc \in Stored(src)
          /\ answer.doc = None => validator[src] \in Stored(src)

(* A failed fetch counts once, here or there.                              *)
Owed == IF pc = "health" /\ answer.status # "SUCCESS" THEN 1 ELSE 0
FaultsCounted == \A s \in Sources : dlq[s] <= faults /\ consecutive[s] + Owed <= faults

(* More files than the ledger lists: one about to be listed, the others    *)
(* those of killed runs.                                                   *)
Unlisted(s) == IF pc = "ledger" /\ src = s THEN 1 ELSE 0
FilesCounted ==
  \A s \in Sources :
    /\ IsFiniteSet(ledger[s])
    /\ Len(files[s]) <= Cardinality(ledger[s]) + crashes + Unlisted(s)

(* Files no record names: the one in hand, the others those of killed runs *)
(* and, of the audit records, of failed writes.                            *)
BeforeMetrics == {"ledger", "validators", "health", "metrics"}
BeforeAudit == BeforeMetrics \cup {"audit"}
InHand(stages) == IF pc \in stages THEN {<<src, answer.new>>} ELSE {}
OmissionsCounted ==
  /\ AtMost(Omitted(reported) \ InHand(BeforeMetrics), crashes)
  /\ AtMost(Omitted(audited) \ InHand(BeforeAudit), crashes + faults)

IInv ==
  /\ TypeOK /\ FaultsCounted
  /\ FileFirst /\ AtWork
  /\ FilesCounted /\ OmissionsCounted

-----------------------------------------------------------------------------
(* The order of the writes.                                                *)
LEMMA AfterSteps ==
  /\ Head(Steps) = "file"
  /\ After("file") = "ledger" /\ After("ledger") = "validators"
  /\ After("validators") = "health" /\ After("health") = "metrics"
  /\ After("metrics") = "audit"
<1>1. /\ Steps[1] = "file" /\ Steps[2] = "ledger" /\ Steps[3] = "validators"
      /\ Steps[4] = "health" /\ Steps[5] = "metrics" /\ Steps[6] = "audit"
      /\ DOMAIN Steps = 1..6
  BY DEF Steps
<1>2. Head(Steps) = "file"
  BY DEF Steps
<1>3. (CHOOSE i \in DOMAIN Steps : Steps[i] = "file") = 1
  BY <1>1
<1>4. (CHOOSE i \in DOMAIN Steps : Steps[i] = "ledger") = 2
  BY <1>1
<1>5. (CHOOSE i \in DOMAIN Steps : Steps[i] = "validators") = 3
  BY <1>1
<1>6. (CHOOSE i \in DOMAIN Steps : Steps[i] = "health") = 4
  BY <1>1
<1>7. (CHOOSE i \in DOMAIN Steps : Steps[i] = "metrics") = 5
  BY <1>1
<1> QED BY <1>1, <1>2, <1>3, <1>4, <1>5, <1>6, <1>7 DEF After

(* A document once stored stays stored.                                    *)
LEMMA StoredAppended ==
  ASSUME TypeOK, NEW s \in Sources, NEW d \in Documents \cup {Torn},
         files' = [files EXCEPT ![s] = Append(@, d)]
  PROVE  /\ \A t \in Sources : Stored(t) \subseteq Stored(t)'
         /\ d # Torn => d \in Stored(s)'
         /\ files'[s] \in Seq(Documents \cup {Torn}) /\ Len(files'[s]) = Len(files[s]) + 1
         /\ \A t \in Sources \ {s} : files'[t] = files[t]
<1>1. \A t \in Sources : files'[t] = IF t = s THEN Append(files[s], d) ELSE files[t]
  BY DEF TypeOK
<1>2. files[s] \in Seq(Documents \cup {Torn})
  BY DEF TypeOK
<1>3. /\ DOMAIN Append(files[s], d) = 1..(Len(files[s]) + 1)
      /\ \A i \in DOMAIN files[s] :
           i \in DOMAIN Append(files[s], d) /\ Append(files[s], d)[i] = files[s][i]
      /\ Append(files[s], d)[Len(files[s]) + 1] = d
      /\ Len(files[s]) + 1 \in DOMAIN Append(files[s], d)
      /\ Append(files[s], d) \in Seq(Documents \cup {Torn})
      /\ Len(Append(files[s], d)) = Len(files[s]) + 1
  BY <1>2
<1>4. Stored(s) \subseteq Stored(s)' /\ (d # Torn => d \in Stored(s)')
  <2>1. files'[s] = Append(files[s], d)
    BY <1>1
  <2>2. ASSUME NEW e \in Stored(s) PROVE e \in Stored(s)'
    <3>1. PICK i \in DOMAIN files[s] : e = files[s][i] /\ e # Torn
      BY <2>2 DEF Stored
    <3>2. i \in DOMAIN files'[s] /\ e = files'[s][i]
      BY <1>3, <2>1, <3>1
    <3> QED BY <3>1, <3>2 DEF Stored
  <2>3. d # Torn => d \in Stored(s)'
    BY <1>3, <2>1 DEF Stored
  <2> QED BY <2>2, <2>3
<1>5. \A t \in Sources \ {s} : Stored(t)' = Stored(t)
  BY <1>1 DEF Stored
<1> QED BY <1>1, <1>3, <1>4, <1>5

LEMMA StoredFinite ==
  ASSUME TypeOK, NEW s \in Sources
  PROVE  IsFiniteSet(Stored(s)) /\ Stored(s) \subseteq Documents
<1>1. files[s] \in Seq(Documents \cup {Torn})
  BY DEF TypeOK
<1>2. Len(files[s]) \in Nat /\ DOMAIN files[s] = 1..Len(files[s])
  BY <1>1
<1>3. IsFiniteSet(DOMAIN files[s])
  <2>1. \A n \in Nat : IsFiniteSet(1..n)
    BY FS_Interval
  <2> QED BY <1>2, <2>1
<1>4. files[s] \in [DOMAIN files[s] -> {files[s][i] : i \in DOMAIN files[s]}]
  BY <1>1
<1>5. IsFiniteSet({files[s][i] : i \in DOMAIN files[s]})
  BY <1>3, <1>4, ImageFinite
<1>6. IsFiniteSet({files[s][i] : i \in DOMAIN files[s]} \ {Torn})
  BY <1>5, FS_Subset
<1> QED BY <1>1, <1>6 DEF Stored

-----------------------------------------------------------------------------
LEMMA FaultsStep == TypeOK /\ AtWork /\ FaultsCounted /\ [Next]_vars => FaultsCounted'
<1> SUFFICES ASSUME TypeOK, AtWork, FaultsCounted, [Next]_vars PROVE FaultsCounted'
  OBVIOUS
<1>0. faults \in Nat /\ Owed \in Nat /\ \A s \in Sources : dlq[s] \in Nat /\ consecutive[s] \in Nat
  BY CollectorAssumption DEF TypeOK, Owed
<1>1. ASSUME dlq' = dlq, consecutive' = consecutive, faults' = faults \/ faults' = faults + 1,
             Owed' = 0
      PROVE  FaultsCounted'
  BY <1>0, <1>1 DEF FaultsCounted
<1>2. CASE UNCHANGED vars
  BY <1>2 DEF vars, FaultsCounted, Owed
<1>3. CASE \E s \in Sources, d \in Documents : Change(s, d)
  BY <1>3 DEF Change, FaultsCounted, Owed
<1>4. CASE StartRun(Enabled) \/ (\E s \in Sources : StartRun({s})) \/ FinishRun
           \/ Crash \/ TearFile
  BY <1>1, <1>4 DEF StartRun, FinishRun, Crash, TearFile, Dies, Owed
<1>5. CASE \E s \in Sources : Skip(s) \/ NotModified(s) \/ Fetched(s, "validators")
  BY <1>1, <1>5, AfterSteps DEF Skip, NotModified, Fetched, Visit, NoAnswer, Owed
<1>6. CASE \E s \in Sources, u \in BOOLEAN : FetchFails(s, u)
  <2>1. PICK s \in Sources, u \in BOOLEAN : FetchFails(s, u)
    BY <1>6
  <2>2. /\ faults' = faults + 1 /\ consecutive' = consecutive /\ pc = "visit"
        /\ dlq' = IF u THEN [dlq EXCEPT ![s] = @ + 1] ELSE dlq
    BY <2>1 DEF FetchFails, Visit, Quarantined
  <2>3. Owed = 0 /\ Owed' \in {0, 1}
    BY <2>2 DEF Owed
  <2>4. \A t \in Sources : dlq'[t] = dlq[t] \/ dlq'[t] = dlq[t] + 1
    BY <2>2 DEF TypeOK
  <2> QED BY <1>0, <2>2, <2>3, <2>4 DEF FaultsCounted
<1>7. CASE WriteFile \/ AppendLedger \/ AppendMetrics \/ AppendAudit \/ AuditFails
  BY <1>1, <1>7, AfterSteps DEF WriteFile, AppendLedger, AppendMetrics, AppendAudit, AuditFails, Owed
<1>8. CASE SaveValidators
  <2>1. /\ dlq' = dlq /\ consecutive' = consecutive /\ faults' = faults /\ answer' = answer
        /\ pc = "validators"
    BY <1>8 DEF SaveValidators
  <2>2. Owed' = 0
    BY <2>1 DEF Owed, AtWork
  <2> QED BY <1>1, <2>1, <2>2
<1>9. CASE RecordHealth
  <2>1. /\ dlq' = dlq /\ faults' = faults /\ pc = "health" /\ pc' = "metrics"
        /\ consecutive' = [consecutive EXCEPT ![src] = Failures]
    BY <1>9, AfterSteps DEF RecordHealth
  <2>2. Owed' = 0
    BY <2>1 DEF Owed
  <2>3. ASSUME NEW t \in Sources PROVE consecutive'[t] <= faults
    <3>1. consecutive'[t] = IF t = src THEN Failures ELSE consecutive[t]
      BY <2>1 DEF TypeOK
    <3>2. Failures = IF answer.status = "SUCCESS" THEN 0 ELSE consecutive[src] + 1
      BY DEF Failures
    <3>3. Owed = IF answer.status # "SUCCESS" THEN 1 ELSE 0
      BY <2>1 DEF Owed
    <3> QED BY <1>0, <3>1, <3>2, <3>3 DEF FaultsCounted
  <2>4. \A t \in Sources : consecutive'[t] \in Nat
    BY <1>0, <2>1 DEF TypeOK, Failures
  <2> QED BY <1>0, <2>1, <2>2, <2>3, <2>4 DEF FaultsCounted
<1> QED BY <1>2, <1>3, <1>4, <1>5, <1>6, <1>7, <1>8, <1>9
        DEF Next, Daily, Collect, Save, Finish, Environment

-----------------------------------------------------------------------------
(* Seen documents are stored, and so is the one a 304 speaks of.           *)
LEMMA FetchKeepsWork ==
  ASSUME TypeOK, FileFirst, AtWork, NEW s \in Sources,
         Skip(s) \/ NotModified(s) \/ Fetched(s, "validators") \/ FetchFails(s, TRUE)
           \/ FetchFails(s, FALSE)
  PROVE  AtWork'
<1>1. /\ src' = s /\ files' = files /\ ledger' = ledger /\ validator' = validator
      /\ Stored(s)' = Stored(s)
  BY DEF Skip, NotModified, Fetched, FetchFails, Visit, store, Stored
<1>2. CASE Skip(s)
  BY <1>1, <1>2 DEF Skip, Visit, AtWork
<1>3. CASE FetchFails(s, TRUE) \/ FetchFails(s, FALSE)
  <2>1. pc' = "health" /\ answer' = [NoAnswer EXCEPT !.status = "FAILED"]
    BY <1>3 DEF FetchFails, Visit
  <2>2. answer'.status = "FAILED"
    BY <2>1 DEF NoAnswer
  <2> QED BY <1>1, <2>1, <2>2 DEF AtWork
<1>4. CASE NotModified(s)
  <2>1. pc' = "health" /\ answer' = [NoAnswer EXCEPT !.status = "SUCCESS"]
    BY <1>4 DEF NotModified, Visit
  <2>2. answer'.status = "SUCCESS" /\ answer'.doc = None
    BY <2>1 DEF NoAnswer
  <2>3. validator[s] \in Documents
    BY <1>4 DEF NotModified, Answers304, TypeOK
  <2>4. validator[s] \in Stored(s)
    BY <2>3, CollectorAssumption DEF FileFirst
  <2> QED BY <1>1, <2>1, <2>2, <2>4 DEF AtWork
<1>5. CASE Fetched(s, "validators")
  <2>1. /\ pc' = (IF Seen(s) THEN "validators" ELSE "file")
        /\ answer' = [status |-> "SUCCESS", doc |-> served[s], new |-> 0]
    BY <1>5, AfterSteps DEF Fetched, Visit
  <2>2. answer'.status = "SUCCESS" /\ answer'.doc = served[s] /\ served[s] \in Documents
    BY <2>1 DEF TypeOK
  <2>3. Seen(s) => served[s] \in Stored(s)
    BY DEF Seen, FileFirst
  <2> QED BY <1>1, <2>1, <2>2, <2>3 DEF AtWork, Seen
<1> QED BY <1>2, <1>3, <1>4, <1>5

(* Nothing is listed, validated or healed before its file is there.        *)
LEMMA WorkStep == TypeOK /\ FileFirst /\ AtWork /\ [Next]_vars => FileFirst' /\ AtWork'
<1> SUFFICES ASSUME TypeOK, FileFirst, AtWork, [Next]_vars PROVE FileFirst' /\ AtWork'
  OBVIOUS
<1>1. CASE UNCHANGED vars
  BY <1>1 DEF vars, FileFirst, AtWork, Stored
<1>2. CASE (\E s \in Sources, d \in Documents : Change(s, d))
  BY <1>2 DEF Change, store, FileFirst, AtWork, Stored
<1>3. CASE StartRun(Enabled) \/ (\E s \in Sources : StartRun({s})) \/ FinishRun \/ Crash
           \/ AuditFails \/ AppendAudit
  BY <1>3 DEF StartRun, FinishRun, Crash, Dies, AuditFails, AppendAudit, store, FileFirst, AtWork,
              Stored
<1>4. CASE \E s \in Sources : Skip(s) \/ NotModified(s) \/ Fetched(s, "validators")
                              \/ FetchFails(s, TRUE) \/ FetchFails(s, FALSE)
  <2>1. FileFirst'
    BY <1>4 DEF Skip, NotModified, Fetched, FetchFails, Visit, store, FileFirst, Stored
  <2> QED BY <1>4, <2>1, FetchKeepsWork
<1>5. CASE WriteFile
  <2>1. /\ pc = "file" /\ pc' = "ledger" /\ src' = src /\ ledger' = ledger
        /\ validator' = validator
        /\ files' = [files EXCEPT ![src] = Append(@, answer.doc)]
        /\ answer' = [answer EXCEPT !.new = Len(files[src]) + 1]
    BY <1>5, AfterSteps DEF WriteFile
  <2>2. /\ src \in Sources /\ answer.doc \in Documents /\ answer.status = "SUCCESS"
        /\ answer.doc \notin ledger[src]
    BY <2>1 DEF AtWork
  <2>3. answer'.doc = answer.doc /\ answer'.status = answer.status
    BY <2>1 DEF TypeOK
  <2>4. (\A t \in Sources : Stored(t) \subseteq Stored(t)') /\ answer.doc \in Stored(src)'
    BY <2>1, <2>2, StoredAppended, CollectorAssumption
  <2>5. FileFirst'
    BY <2>1, <2>4 DEF FileFirst
  <2>6. (answer.doc \in Stored(src))'
    BY <2>1, <2>3, <2>4 DEF Stored
  <2> QED BY <2>1, <2>2, <2>3, <2>5, <2>6 DEF AtWork
<1>6. CASE AppendLedger
  <2>1. /\ pc = "ledger" /\ pc' = "validators" /\ src' = src /\ answer' = answer
        /\ files' = files /\ validator' = validator
        /\ ledger' = [ledger EXCEPT ![src] = @ \cup {answer.doc}]
    BY <1>6, AfterSteps DEF AppendLedger, Listed
  <2>2. src \in Sources /\ answer.doc \in Stored(src)
    BY <2>1 DEF AtWork
  <2>3. \A t \in Sources : ledger'[t] \subseteq ledger[t] \cup (IF t = src THEN {answer.doc} ELSE {})
    BY <2>1 DEF TypeOK
  <2>4. \A t \in Sources : Stored(t)' = Stored(t)
    BY <2>1 DEF Stored
  <2> QED BY <2>1, <2>2, <2>3, <2>4 DEF FileFirst, AtWork
<1>7. CASE SaveValidators
  <2>1. /\ pc = "validators" /\ pc' = "health" /\ src' = src /\ answer' = answer
        /\ files' = files /\ ledger' = ledger
        /\ validator' = IF src \in Labelled THEN [validator EXCEPT ![src] = answer.doc]
                        ELSE validator
    BY <1>7, AfterSteps DEF SaveValidators, store
  <2>2. /\ src \in Sources /\ answer.doc \in Stored(src) /\ answer.doc \in Documents
        /\ answer.status = "SUCCESS"
    BY <2>1 DEF AtWork
  <2>3. \A t \in Sources : validator'[t] = validator[t] \/ (t = src /\ validator'[t] = answer.doc)
    <3>1. validator \in [Sources -> Documents \cup {None}]
      BY DEF TypeOK
    <3>2. CASE src \in Labelled
      BY <2>1, <3>1, <3>2
    <3>3. CASE src \notin Labelled
      BY <2>1, <3>3
    <3> QED BY <3>2, <3>3
  <2>4. \A t \in Sources : Stored(t)' = Stored(t)
    BY <2>1 DEF Stored
  <2>5. answer.doc # None
    BY <2>2, CollectorAssumption
  <2> QED BY <2>1, <2>2, <2>3, <2>4, <2>5 DEF FileFirst, AtWork
<1>8. CASE RecordHealth \/ AppendMetrics
  BY <1>8, AfterSteps DEF RecordHealth, AppendMetrics, store, FileFirst, AtWork, Stored
<1>9. CASE TearFile
  <2>1. /\ pc = "file" /\ pc' = "idle" /\ ledger' = ledger /\ validator' = validator
        /\ files' = [files EXCEPT ![src] = Append(@, Torn)]
    BY <1>9 DEF TearFile, Dies
  <2>2. src \in Sources
    BY <2>1 DEF AtWork
  <2>3. \A t \in Sources : Stored(t) \subseteq Stored(t)'
    BY <2>1, <2>2, StoredAppended
  <2>4. FileFirst'
    BY <2>1, <2>3 DEF FileFirst
  <2> QED BY <2>1, <2>4 DEF AtWork
<1> QED BY <1>1, <1>2, <1>3, <1>4, <1>5, <1>6, <1>7, <1>8, <1>9
        DEF Next, Daily, Collect, Save, Finish, Environment

-----------------------------------------------------------------------------
LEMMA FilesStep == TypeOK /\ AtWork /\ FilesCounted /\ [Next]_vars => FilesCounted'
<1> SUFFICES ASSUME TypeOK, AtWork, FilesCounted, [Next]_vars PROVE FilesCounted'
  OBVIOUS
<1>0. /\ crashes \in Nat
      /\ \A s \in Sources : /\ IsFiniteSet(ledger[s]) /\ Cardinality(ledger[s]) \in Nat
                            /\ Len(files[s]) \in Nat
                            /\ Unlisted(s) \in Nat
  BY FS_CardinalityType DEF TypeOK, FilesCounted, Unlisted
<1>1. CASE UNCHANGED vars
  BY <1>1 DEF vars, FilesCounted, Unlisted
<1>2. CASE (\E s \in Sources, d \in Documents : Change(s, d))
  BY <1>2 DEF Change, store, FilesCounted, Unlisted
<1>3. ASSUME files' = files, ledger' = ledger, crashes' = crashes, pc # "ledger", pc' # "ledger"
      PROVE  FilesCounted'
  BY <1>3 DEF FilesCounted, Unlisted
<1>4. CASE StartRun(Enabled) \/ (\E s \in Sources : StartRun({s})) \/ FinishRun
           \/ AuditFails \/ AppendAudit
  BY <1>3, <1>4 DEF StartRun, FinishRun, AuditFails, AppendAudit, store
<1>5. CASE \/ \E s \in Sources : Skip(s) \/ NotModified(s) \/ Fetched(s, "validators")
           \/ \E s \in Sources, u \in BOOLEAN : FetchFails(s, u)
  BY <1>3, <1>5, AfterSteps DEF Skip, NotModified, Fetched, FetchFails, Visit, store
<1>6. CASE SaveValidators \/ RecordHealth \/ AppendMetrics
  BY <1>3, <1>6, AfterSteps DEF SaveValidators, RecordHealth, AppendMetrics, store
<1>7. CASE WriteFile
  <2>1. /\ pc = "file" /\ pc' = "ledger" /\ src' = src /\ ledger' = ledger
        /\ crashes' = crashes
        /\ files' = [files EXCEPT ![src] = Append(@, answer.doc)]
    BY <1>7, AfterSteps DEF WriteFile
  <2>2. src \in Sources /\ answer.doc \in Documents
    BY <2>1 DEF AtWork
  <2>3. /\ Len(files'[src]) = Len(files[src]) + 1
        /\ \A t \in Sources \ {src} : files'[t] = files[t]
    BY <2>1, <2>2, StoredAppended
  <2>4. \A t \in Sources : Unlisted(t) = 0 /\ Unlisted(t)' = IF t = src THEN 1 ELSE 0
    BY <2>1 DEF Unlisted
  <2> QED BY <1>0, <2>1, <2>3, <2>4 DEF FilesCounted
<1>8. CASE AppendLedger
  <2>1. /\ pc = "ledger" /\ pc' = "validators" /\ src' = src /\ files' = files
        /\ crashes' = crashes
        /\ ledger' = [ledger EXCEPT ![src] = @ \cup {answer.doc}]
    BY <1>8, AfterSteps DEF AppendLedger, Listed
  <2>2. src \in Sources /\ answer.doc \notin ledger[src]
    BY <2>1 DEF AtWork
  <2>3. \A t \in Sources : ledger'[t] = IF t = src THEN ledger[t] \cup {answer.doc} ELSE ledger[t]
    BY <2>1 DEF TypeOK
  <2>4. /\ IsFiniteSet(ledger'[src])
        /\ Cardinality(ledger'[src]) = Cardinality(ledger[src]) + 1
    <3>1. IsFiniteSet(ledger[src]) /\ ledger'[src] = ledger[src] \cup {answer.doc}
      BY <1>0, <2>2, <2>3
    <3>2. \A S, x : IsFiniteSet(S) /\ x \notin S =>
            IsFiniteSet(S \cup {x}) /\ Cardinality(S \cup {x}) = Cardinality(S) + 1
      BY FS_AddElement
    <3> QED BY <2>2, <3>1, <3>2
  <2>5. \A t \in Sources : Unlisted(t)' = 0 /\ Unlisted(t) = IF t = src THEN 1 ELSE 0
    BY <2>1 DEF Unlisted
  <2>6. ASSUME NEW t \in Sources
        PROVE  /\ IsFiniteSet(ledger'[t])
               /\ Len(files[t]) <= Cardinality(ledger'[t]) + crashes
    <3>1. Len(files[t]) <= Cardinality(ledger[t]) + crashes + Unlisted(t)
      BY DEF FilesCounted
    <3>2. CASE t = src
      BY <1>0, <2>4, <2>5, <3>1, <3>2
    <3>3. CASE t # src
      <4>1. ledger'[t] = ledger[t] /\ Unlisted(t) = 0
        BY <2>3, <2>5, <3>3
      <4>2. /\ IsFiniteSet(ledger[t]) /\ Cardinality(ledger[t]) \in Nat
            /\ Len(files[t]) \in Nat
        BY <1>0
      <4>3. Len(files[t]) <= Cardinality(ledger[t]) + crashes
        BY <1>0, <3>1, <4>1, <4>2
      <4> QED BY <4>1, <4>2, <4>3
    <3> QED BY <3>2, <3>3
  <2>7. ASSUME NEW t \in Sources
        PROVE  (/\ IsFiniteSet(ledger[t])
                /\ Len(files[t]) <= Cardinality(ledger[t]) + crashes + Unlisted(t))'
    <3>1. IsFiniteSet(ledger'[t]) /\ Len(files[t]) <= Cardinality(ledger'[t]) + crashes
      BY <2>6
    <3>2. Cardinality(ledger'[t]) \in Nat /\ Unlisted(t)' = 0
      BY <2>5, <3>1, FS_CardinalityType
    <3> QED BY <1>0, <2>1, <3>1, <3>2
  <2> QED BY <2>7 DEF FilesCounted
<1>9. CASE Crash
  <2>1. /\ files' = files /\ ledger' = ledger /\ crashes' = crashes + 1 /\ pc' = "idle"
    BY <1>9 DEF Crash, Dies, store
  <2>2. \A t \in Sources : Unlisted(t)' = 0 /\ Unlisted(t) \in {0, 1}
    BY <2>1 DEF Unlisted
  <2> QED BY <1>0, <2>1, <2>2 DEF FilesCounted
<1>10. CASE TearFile
  <2>1. /\ pc = "file" /\ pc' = "idle" /\ ledger' = ledger /\ crashes' = crashes + 1
        /\ files' = [files EXCEPT ![src] = Append(@, Torn)]
    BY <1>10 DEF TearFile, Dies
  <2>2. src \in Sources
    BY <2>1 DEF AtWork
  <2>3. /\ Len(files'[src]) = Len(files[src]) + 1
        /\ \A t \in Sources \ {src} : files'[t] = files[t]
    BY <2>1, <2>2, StoredAppended
  <2>4. \A t \in Sources : Unlisted(t) = 0 /\ Unlisted(t)' = 0
    BY <2>1 DEF Unlisted
  <2> QED BY <1>0, <2>1, <2>3, <2>4 DEF FilesCounted
<1> QED BY <1>1, <1>2, <1>4, <1>5, <1>6, <1>7, <1>8, <1>9, <1>10
        DEF Next, Daily, Collect, Save, Finish, Environment

-----------------------------------------------------------------------------
(* The files a set of records leaves out.                                  *)
Gaps(stored, named) == UNION {{s} \X (DOMAIN stored[s] \ named[s]) : s \in Sources}

LEMMA FilesAreNumbered ==
  ASSUME TypeOK, NEW s \in Sources
  PROVE  files[s] \in Seq(Documents \cup {Torn}) /\ Len(files[s]) \in Nat /\ DOMAIN files[s] = 1..Len(files[s])
<1>1. files[s] \in Seq(Documents \cup {Torn})
  BY DEF TypeOK
<1> QED BY <1>1

(* Naming the file in hand, if there is one, closes its gap.               *)
LEMMA NamingClosesGap ==
  ASSUME TypeOK, src \in Sources, NEW named, named \in [Sources -> SUBSET Nat],
         NEW next, next = [named EXCEPT ![src] = @ \cup NewItems]
  PROVE  Gaps(files, next) \subseteq Gaps(files, named) \ {<<src, answer.new>>}
<1>1. \A s \in Sources : next[s] = IF s = src THEN named[s] \cup NewItems ELSE named[s]
  OBVIOUS
<1>2. answer.new \in DOMAIN files[src] => answer.new \in next[src]
  BY <1>1, FilesAreNumbered DEF NewItems
<1> SUFFICES ASSUME NEW s \in Sources, NEW i \in DOMAIN files[s] \ next[s]
             PROVE  i \notin named[s] /\ ~ (s = src /\ i = answer.new)
  BY DEF Gaps
<1> QED BY <1>1, <1>2

(* The file just written is one gap more.                                  *)
LEMMA WritingOpensGap ==
  ASSUME TypeOK, src \in Sources, NEW d \in Documents \cup {Torn}, NEW named,
         files' = [files EXCEPT ![src] = Append(@, d)]
  PROVE  Gaps(files', named) \subseteq Gaps(files, named) \cup {<<src, Len(files[src]) + 1>>}
<1>1. /\ files'[src] \in Seq(Documents \cup {Torn}) /\ Len(files'[src]) = Len(files[src]) + 1
      /\ \A t \in Sources \ {src} : files'[t] = files[t]
  BY StoredAppended
<1>2. DOMAIN files'[src] = 1..(Len(files[src]) + 1)
  BY <1>1
<1>3. DOMAIN files[src] = 1..Len(files[src]) /\ Len(files[src]) \in Nat
  BY FilesAreNumbered
<1> SUFFICES ASSUME NEW s \in Sources, NEW i \in DOMAIN files'[s] \ named[s]
             PROVE  i \in DOMAIN files[s] \/ (s = src /\ i = Len(files[src]) + 1)
  BY DEF Gaps
<1> QED BY <1>1, <1>2, <1>3

LEMMA OmissionsStep == TypeOK /\ AtWork /\ OmissionsCounted /\ [Next]_vars => OmissionsCounted'
<1> SUFFICES ASSUME TypeOK, AtWork, OmissionsCounted, [Next]_vars PROVE OmissionsCounted'
  OBVIOUS
<1>0. /\ crashes \in Nat /\ faults \in Nat
      /\ AtMost(Gaps(files, reported) \ InHand(BeforeMetrics), crashes)
      /\ AtMost(Gaps(files, audited) \ InHand(BeforeAudit), crashes + faults)
  BY DEF TypeOK, OmissionsCounted, Omitted, Gaps
<1> DEFINE MetricsGaps == Gaps(files, reported) \ InHand(BeforeMetrics)
           AuditGaps == Gaps(files, audited) \ InHand(BeforeAudit)
<1>1. ASSUME crashes' = crashes, faults' \in {faults, faults + 1},
             MetricsGaps' \subseteq MetricsGaps, AuditGaps' \subseteq AuditGaps
      PROVE  OmissionsCounted'
  <2>1. AtMost(MetricsGaps', crashes) /\ AtMost(AuditGaps', crashes + faults')
    <3> HIDE DEF MetricsGaps, AuditGaps
    <3>1. AtMost(MetricsGaps, crashes) /\ AtMost(AuditGaps, crashes + faults)
      BY <1>0 DEF MetricsGaps, AuditGaps
    <3>2. crashes + faults \in Nat /\ crashes + faults' \in Nat /\ crashes + faults <= crashes + faults'
      <4>1. crashes \in Nat /\ faults \in Nat /\ (faults' = faults \/ faults' = faults + 1)
        BY <1>0, <1>1
      <4> QED BY <4>1
    <3>3. AtMost(MetricsGaps', crashes)
      BY <1>0, <1>1, <3>1, FewerIsAtMost
    <3>4. AtMost(AuditGaps', crashes + faults')
      BY <1>1, <3>1, <3>2, FewerIsAtMost
    <3> QED BY <3>3, <3>4
  <2> QED BY <1>1, <2>1 DEF OmissionsCounted, Omitted, Gaps
<1>2. CASE UNCHANGED vars
  BY <1>1, <1>2 DEF vars, Gaps, InHand
<1>3. CASE \/ \E s \in Sources, d \in Documents : Change(s, d)
           \/ StartRun(Enabled) \/ (\E s \in Sources : StartRun({s})) \/ FinishRun
  <2>1. /\ crashes' = crashes /\ faults' = faults /\ files' = files
        /\ reported' = reported /\ audited' = audited
    BY <1>3 DEF Change, StartRun, FinishRun, store, logs
  <2>2. \/ pc' = pc /\ src' = src /\ answer' = answer
        \/ pc \in {"idle", "visit"} /\ pc' \in {"idle", "visit"}
    BY <1>3 DEF Change, StartRun, FinishRun
  <2>3. InHand(BeforeMetrics)' = InHand(BeforeMetrics) /\ InHand(BeforeAudit)' = InHand(BeforeAudit)
    BY <2>2 DEF InHand, BeforeMetrics, BeforeAudit
  <2> QED BY <1>1, <2>1, <2>3 DEF Gaps
<1>4. CASE \/ \E s \in Sources : Skip(s) \/ NotModified(s) \/ Fetched(s, "validators")
           \/ \E s \in Sources, u \in BOOLEAN : FetchFails(s, u)
  <2>1. /\ crashes' = crashes /\ faults' \in {faults, faults + 1} /\ files' = files
        /\ reported' = reported /\ audited' = audited /\ pc = "visit"
    BY <1>4 DEF Skip, NotModified, Fetched, FetchFails, Visit, store, logs
  <2>2. InHand(BeforeMetrics) = {} /\ InHand(BeforeAudit) = {}
    BY <2>1 DEF InHand, BeforeMetrics, BeforeAudit
  <2> QED BY <1>1, <2>1, <2>2 DEF Gaps
<1>5. CASE AppendLedger \/ SaveValidators \/ RecordHealth
  <2>1. /\ crashes' = crashes /\ faults' = faults /\ files' = files
        /\ reported' = reported /\ audited' = audited /\ src' = src /\ answer' = answer
        /\ pc \in BeforeMetrics /\ pc' \in BeforeMetrics
    BY <1>5, AfterSteps DEF AppendLedger, SaveValidators, RecordHealth, store, logs, BeforeMetrics
  <2>2. InHand(BeforeMetrics)' = InHand(BeforeMetrics) /\ InHand(BeforeAudit)' = InHand(BeforeAudit)
    BY <2>1 DEF InHand, BeforeMetrics, BeforeAudit
  <2> QED BY <1>1, <2>1, <2>2 DEF Gaps
<1>6. CASE WriteFile
  <2>1. /\ crashes' = crashes /\ faults' = faults
        /\ reported' = reported /\ audited' = audited /\ src' = src
        /\ pc = "file" /\ pc' = "ledger"
        /\ files' = [files EXCEPT ![src] = Append(@, answer.doc)]
        /\ answer' = [answer EXCEPT !.new = Len(files[src]) + 1]
    BY <1>6, AfterSteps DEF WriteFile, logs
  <2>2. src \in Sources /\ answer.doc \in Documents /\ answer'.new = Len(files[src]) + 1
    BY <2>1 DEF AtWork, TypeOK
  <2>3. /\ InHand(BeforeMetrics)' = {<<src, Len(files[src]) + 1>>}
        /\ InHand(BeforeAudit)' = {<<src, Len(files[src]) + 1>>}
        /\ InHand(BeforeMetrics) = {} /\ InHand(BeforeAudit) = {}
    BY <2>1, <2>2 DEF InHand, BeforeMetrics, BeforeAudit
  <2>4. /\ Gaps(files', reported) \subseteq Gaps(files, reported) \cup {<<src, Len(files[src]) + 1>>}
        /\ Gaps(files', audited) \subseteq Gaps(files, audited) \cup {<<src, Len(files[src]) + 1>>}
    BY <2>1, <2>2, WritingOpensGap
  <2>5. Gaps(files, reported)' = Gaps(files', reported) /\ Gaps(files, audited)' = Gaps(files', audited)
    BY <2>1 DEF Gaps
  <2> QED BY <1>1, <2>1, <2>3, <2>4, <2>5
<1>7. CASE AppendMetrics
  <2>1. /\ crashes' = crashes /\ faults' = faults /\ files' = files
        /\ audited' = audited /\ src' = src /\ answer' = answer
        /\ pc = "metrics" /\ pc' = "audit"
        /\ reported' = [reported EXCEPT ![src] = @ \cup NewItems]
    BY <1>7, AfterSteps DEF AppendMetrics, store
  <2>2. /\ InHand(BeforeMetrics) = {<<src, answer.new>>}
        /\ InHand(BeforeAudit)' = InHand(BeforeAudit)
    BY <2>1 DEF InHand, BeforeMetrics, BeforeAudit
  <2>3. src \in Sources /\ reported \in [Sources -> SUBSET Nat]
    BY <2>1 DEF AtWork, TypeOK
  <2>4. Gaps(files, reported') \subseteq Gaps(files, reported) \ {<<src, answer.new>>}
    BY <2>1, <2>3, NamingClosesGap
  <2>5. Gaps(files, reported)' = Gaps(files, reported') /\ Gaps(files, audited)' = Gaps(files, audited)
    BY <2>1 DEF Gaps
  <2> QED BY <1>1, <2>1, <2>2, <2>4, <2>5
<1>8. CASE AppendAudit
  <2>1. /\ crashes' = crashes /\ faults' = faults /\ files' = files
        /\ reported' = reported /\ src' = src
        /\ pc = "audit" /\ pc' = "visit"
        /\ audited' = [audited EXCEPT ![src] = @ \cup NewItems]
    BY <1>8 DEF AppendAudit, store
  <2>2. /\ InHand(BeforeAudit) = {<<src, answer.new>>}
        /\ InHand(BeforeMetrics)' = InHand(BeforeMetrics)
    BY <2>1 DEF InHand, BeforeMetrics, BeforeAudit
  <2>3. src \in Sources /\ audited \in [Sources -> SUBSET Nat]
    BY <2>1 DEF AtWork, TypeOK
  <2>4. Gaps(files, audited') \subseteq Gaps(files, audited) \ {<<src, answer.new>>}
    BY <2>1, <2>3, NamingClosesGap
  <2>5. Gaps(files, audited)' = Gaps(files, audited') /\ Gaps(files, reported)' = Gaps(files, reported)
    BY <2>1 DEF Gaps
  <2> QED BY <1>1, <2>1, <2>2, <2>4, <2>5
<1>9. CASE AuditFails \/ Crash
  <2>1. /\ files' = files /\ reported' = reported /\ audited' = audited /\ pc' = "idle"
    BY <1>9 DEF AuditFails, Crash, Dies, store, logs
  <2>2. /\ Gaps(files, reported)' = Gaps(files, reported) /\ Gaps(files, audited)' = Gaps(files, audited)
    BY <2>1 DEF Gaps
  <2>3. InHand(BeforeMetrics)' = {} /\ InHand(BeforeAudit)' = {}
    BY <2>1 DEF InHand, BeforeMetrics, BeforeAudit
  <2>4. \A stages : InHand(stages) \subseteq {<<src, answer.new>>}
    BY DEF InHand
  <2>5. AtMost(Gaps(files, audited)', crashes' + faults')
    <3>1. crashes + faults \in Nat /\ crashes' + faults' \in Nat /\ crashes + faults < crashes' + faults'
      BY <1>0, <1>9 DEF AuditFails, Crash, Dies
    <3>2. Gaps(files, audited) \subseteq AuditGaps \cup {<<src, answer.new>>}
      BY <2>4
    <3> HIDE DEF AuditGaps
    <3>3. AtMost(AuditGaps, crashes + faults)
      BY <1>0 DEF AuditGaps
    <3>4. AtMost(Gaps(files, audited), crashes' + faults')
      BY <3>1, <3>2, <3>3, OneMoreIsAtMost
    <3> QED BY <2>2, <3>4
  <2>6. AtMost(Gaps(files, reported)', crashes')
    <3>1. CASE AuditFails
      <4>1. pc = "audit" /\ crashes' = crashes
        BY <3>1 DEF AuditFails
      <4>2. InHand(BeforeMetrics) = {}
        BY <4>1 DEF InHand, BeforeMetrics
      <4> QED BY <1>0, <2>2, <4>1, <4>2
    <3>2. CASE Crash
      <4>1. crashes' = crashes + 1 /\ crashes < crashes' /\ crashes' \in Nat
        BY <1>0, <3>2 DEF Crash, Dies
      <4>2. Gaps(files, reported) \subseteq MetricsGaps \cup {<<src, answer.new>>}
        BY <2>4
      <4> HIDE DEF MetricsGaps
      <4>3. AtMost(MetricsGaps, crashes)
        BY <1>0 DEF MetricsGaps
      <4>4. AtMost(Gaps(files, reported), crashes')
        BY <1>0, <4>1, <4>2, <4>3, OneMoreIsAtMost
      <4> QED BY <2>2, <4>4
    <3> QED BY <1>9, <3>1, <3>2
  <2> QED BY <2>3, <2>5, <2>6 DEF OmissionsCounted, Omitted, Gaps
<1>10. CASE TearFile
  <2> DEFINE torn == <<src, Len(files[src]) + 1>>
  <2>1. /\ pc = "file" /\ pc' = "idle" /\ reported' = reported /\ audited' = audited
        /\ crashes' = crashes + 1 /\ faults' = faults
        /\ files' = [files EXCEPT ![src] = Append(@, Torn)]
    BY <1>10 DEF TearFile, Dies, logs
  <2>2. src \in Sources
    BY <2>1 DEF AtWork
  <2>3. /\ InHand(BeforeMetrics) = {} /\ InHand(BeforeAudit) = {}
        /\ InHand(BeforeMetrics)' = {} /\ InHand(BeforeAudit)' = {}
    BY <2>1 DEF InHand, BeforeMetrics, BeforeAudit
  <2>4. /\ Gaps(files', reported) \subseteq Gaps(files, reported) \cup {torn}
        /\ Gaps(files', audited) \subseteq Gaps(files, audited) \cup {torn}
    BY <2>1, <2>2, WritingOpensGap
  <2>5. /\ Gaps(files, reported)' = Gaps(files', reported)
        /\ Gaps(files, audited)' = Gaps(files', audited)
    BY <2>1 DEF Gaps
  <2>6. AtMost(Gaps(files, reported), crashes) /\ AtMost(Gaps(files, audited), crashes + faults)
    BY <1>0, <2>3
  <2>7. AtMost(Gaps(files, reported)', crashes') /\ AtMost(Gaps(files, audited)', crashes' + faults')
    <3> HIDE DEF torn
    <3>1. /\ crashes' \in Nat /\ crashes < crashes'
          /\ crashes + faults \in Nat /\ crashes' + faults' \in Nat
          /\ crashes + faults < crashes' + faults'
      BY <1>0, <2>1
    <3>2. AtMost(Gaps(files', reported), crashes')
      BY <1>0, <2>4, <2>6, <3>1, OneMoreIsAtMost
    <3>3. AtMost(Gaps(files', audited), crashes' + faults')
      BY <2>4, <2>6, <3>1, OneMoreIsAtMost
    <3> QED BY <2>5, <3>2, <3>3
  <2> QED BY <2>3, <2>7 DEF OmissionsCounted, Omitted, Gaps
<1> QED BY <1>2, <1>3, <1>4, <1>5, <1>6, <1>7, <1>8, <1>9, <1>10
        DEF Next, Daily, Collect, Save, Finish, Environment

-----------------------------------------------------------------------------
LEMMA FetchKeepsTypes ==
  ASSUME TypeOK, NEW s \in Sources,
         \/ Skip(s) \/ NotModified(s) \/ Fetched(s, "validators")
         \/ \E u \in BOOLEAN : FetchFails(s, u)
  PROVE  /\ files' = files /\ ledger' = ledger /\ validator' = validator
         /\ served' = served /\ lastStatus' = lastStatus /\ reported' = reported
         /\ audited' = audited /\ changes' = changes /\ crashes' = crashes
         /\ queue' \in SUBSET Sources /\ src' \in Sources
         /\ pc' \in {"file", "validators", "health", "metrics"}
         /\ answer' \in [status : Statuses \cup {None}, doc : Documents \cup {None}, new : Nat]
         /\ consecutive' = consecutive /\ (dlq' = dlq \/ dlq' = Quarantined(s))
         /\ faults' \in 0..MaxFaults
<1>1. NoAnswer \in [status : Statuses \cup {None}, doc : Documents \cup {None}, new : Nat]
  BY DEF NoAnswer
<1>2. /\ [NoAnswer EXCEPT !.status = "SKIPPED"] \in
             [status : Statuses \cup {None}, doc : Documents \cup {None}, new : Nat]
      /\ [NoAnswer EXCEPT !.status = "FAILED"] \in
             [status : Statuses \cup {None}, doc : Documents \cup {None}, new : Nat]
      /\ [NoAnswer EXCEPT !.status = "SUCCESS"] \in
             [status : Statuses \cup {None}, doc : Documents \cup {None}, new : Nat]
  BY <1>1 DEF NoAnswer, Statuses
<1>3. /\ served[s] \in Documents /\ faults \in 0..MaxFaults /\ MaxFaults \in Nat
      /\ queue \in SUBSET Sources
  BY CollectorAssumption DEF TypeOK
<1>4. CASE Skip(s)
  BY <1>2, <1>3, <1>4 DEF Skip, Visit, server, store, logs
<1>5. CASE NotModified(s)
  BY <1>2, <1>3, <1>5 DEF NotModified, Visit, server, store, logs
<1>6. CASE Fetched(s, "validators")
  <2>1. answer' \in [status : Statuses \cup {None}, doc : Documents \cup {None}, new : Nat]
    BY <1>3, <1>6 DEF Fetched, Statuses
  <2> QED BY <1>3, <1>6, <2>1, AfterSteps DEF Fetched, Visit, server, store, logs
<1>7. CASE \E u \in BOOLEAN : FetchFails(s, u)
  BY <1>2, <1>3, <1>7 DEF FetchFails, Visit, server, store, logs
<1> QED BY <1>4, <1>5, <1>6, <1>7

(* The failures of a source are bounded by those there were.               *)
LEMMA CountersAreBounded ==
  ASSUME TypeOK, faults' \in 0..MaxFaults, FaultsCounted',
         dlq' \in [Sources -> Nat], consecutive' \in [Sources -> Nat]
  PROVE  dlq' \in [Sources -> 0..MaxFaults] /\ consecutive' \in [Sources -> 0..MaxFaults]
<1>1. MaxFaults \in Nat /\ faults' \in 0..MaxFaults
  BY CollectorAssumption DEF TypeOK
<1>2. Owed' \in Nat
  BY DEF Owed
<1>3. ASSUME NEW s \in Sources
      PROVE  dlq'[s] \in 0..MaxFaults /\ consecutive'[s] \in 0..MaxFaults
  <2>1. dlq'[s] <= faults' /\ consecutive'[s] + Owed' <= faults'
    BY DEF FaultsCounted
  <2>2. dlq'[s] \in Nat /\ consecutive'[s] \in Nat
    OBVIOUS
  <2> QED BY <1>1, <1>2, <2>1, <2>2
<1> QED BY <1>3

LEMMA TypeStep == TypeOK /\ AtWork /\ FaultsCounted' /\ [Next]_vars => TypeOK'
<1> SUFFICES ASSUME TypeOK, AtWork, FaultsCounted', [Next]_vars PROVE TypeOK'
  OBVIOUS
<1>0. /\ MaxFaults \in Nat /\ MaxCrashes \in Nat /\ MaxChanges \in Nat
      /\ NoAnswer \in [status : Statuses \cup {None}, doc : Documents \cup {None}, new : Nat]
      /\ dlq \in [Sources -> Nat] /\ consecutive \in [Sources -> Nat]
      /\ Enabled \in SUBSET Sources
  BY CollectorAssumption DEF TypeOK, NoAnswer, Enabled
<1>1. CASE UNCHANGED vars
  BY <1>1 DEF vars, TypeOK
<1>2. CASE \E s \in Sources, d \in Documents : Change(s, d)
  BY <1>0, <1>2 DEF Change, store, logs, TypeOK
<1>3. CASE StartRun(Enabled) \/ (\E s \in Sources : StartRun({s})) \/ FinishRun
  BY <1>0, <1>3 DEF StartRun, FinishRun, server, store, logs, TypeOK
<1>4. CASE \/ \E s \in Sources : Skip(s) \/ NotModified(s) \/ Fetched(s, "validators")
           \/ \E s \in Sources, u \in BOOLEAN : FetchFails(s, u)
  <2>1. PICK s \in Sources : \/ Skip(s) \/ NotModified(s) \/ Fetched(s, "validators")
                             \/ \E u \in BOOLEAN : FetchFails(s, u)
    BY <1>4
  <2>2. /\ files' = files /\ ledger' = ledger /\ validator' = validator
        /\ served' = served /\ lastStatus' = lastStatus /\ reported' = reported
        /\ audited' = audited /\ changes' = changes /\ crashes' = crashes
        /\ queue' \in SUBSET Sources /\ src' \in Sources
        /\ pc' \in {"file", "validators", "health", "metrics"}
        /\ answer' \in [status : Statuses \cup {None}, doc : Documents \cup {None}, new : Nat]
        /\ consecutive' = consecutive /\ (dlq' = dlq \/ dlq' = Quarantined(s))
        /\ faults' \in 0..MaxFaults
    BY <2>1, FetchKeepsTypes
  <2>3. dlq' \in [Sources -> Nat]
    BY <1>0, <2>2 DEF Quarantined
  <2>4. dlq' \in [Sources -> 0..MaxFaults] /\ consecutive' \in [Sources -> 0..MaxFaults]
    BY <1>0, <2>2, <2>3, CountersAreBounded
  <2> QED BY <2>2, <2>4 DEF TypeOK
<1>5. CASE WriteFile
  <2>1. /\ pc' = "ledger" /\ pc = "file" /\ src' = src
        /\ files' = [files EXCEPT ![src] = Append(@, answer.doc)]
        /\ answer' = [answer EXCEPT !.new = Len(files[src]) + 1]
        /\ UNCHANGED <<served, changes, ledger, validator, consecutive, dlq, lastStatus,
                       reported, audited, queue, faults, crashes>>
    BY <1>5, AfterSteps DEF WriteFile, server, logs
  <2>2. src \in Sources /\ answer.doc \in Documents
    BY <2>1 DEF AtWork
  <2>3. files' \in [Sources -> Seq(Documents \cup {Torn})]
    <3>1. /\ files'[src] \in Seq(Documents \cup {Torn})
          /\ \A t \in Sources \ {src} : files'[t] = files[t]
      BY <2>1, <2>2, StoredAppended
    <3> QED BY <2>1, <3>1 DEF TypeOK
  <2>4. answer' \in [status : Statuses \cup {None}, doc : Documents \cup {None}, new : Nat]
    <3>1. Len(files[src]) + 1 \in Nat
      BY <2>2, FilesAreNumbered
    <3> QED BY <2>1, <3>1 DEF TypeOK
  <2> QED BY <2>1, <2>3, <2>4 DEF TypeOK
<1>6. CASE AppendLedger
  <2>1. /\ pc' = "validators" /\ pc = "ledger" /\ src' = src
        /\ ledger' = [ledger EXCEPT ![src] = @ \cup {answer.doc}]
        /\ UNCHANGED <<served, changes, files, validator, consecutive, dlq, lastStatus,
                       reported, audited, queue, answer, faults, crashes>>
    BY <1>6, AfterSteps DEF AppendLedger, Listed, server, logs
  <2>2. answer.doc \in Documents
    BY <2>1 DEF AtWork
  <2> QED BY <2>1, <2>2 DEF TypeOK
<1>7. CASE SaveValidators
  <2>1. /\ pc' = "health" /\ pc = "validators" /\ src' = src
        /\ validator' = IF src \in Labelled THEN [validator EXCEPT ![src] = answer.doc]
                        ELSE validator
        /\ UNCHANGED <<served, changes, files, ledger, consecutive, dlq, lastStatus,
                       reported, audited, queue, answer, faults, crashes>>
    BY <1>7, AfterSteps DEF SaveValidators, server, store, logs
  <2>2. answer.doc \in Documents
    BY <2>1 DEF AtWork
  <2>3. validator' \in [Sources -> Documents \cup {None}]
    BY <2>1, <2>2 DEF TypeOK
  <2> QED BY <2>1, <2>3 DEF TypeOK
<1>8. CASE RecordHealth
  <2>1. /\ pc' = "metrics" /\ pc = "health" /\ src' = src
        /\ consecutive' = [consecutive EXCEPT ![src] = Failures]
        /\ UNCHANGED <<served, changes, files, ledger, validator, dlq, lastStatus,
                       reported, audited, queue, answer, faults, crashes>>
    BY <1>8, AfterSteps DEF RecordHealth, server, store, logs
  <2>2. src \in Sources
    BY <2>1 DEF AtWork
  <2>3. consecutive' \in [Sources -> Nat]
    BY <1>0, <2>1, <2>2 DEF Failures
  <2>4. faults' \in 0..MaxFaults
    BY <2>1 DEF TypeOK
  <2>5. consecutive' \in [Sources -> 0..MaxFaults]
    BY <1>0, <2>1, <2>3, <2>4, CountersAreBounded
  <2> QED BY <2>1, <2>5 DEF TypeOK
<1>9. CASE AppendMetrics \/ AppendAudit
  <2>1. /\ pc' \in {"audit", "visit"} /\ src' = src
        /\ UNCHANGED <<served, changes, files, ledger, validator, consecutive, dlq, queue,
                       faults, crashes>>
        /\ answer' \in {answer, NoAnswer}
        /\ lastStatus' \in {lastStatus, [lastStatus EXCEPT ![src] = answer.status]}
        /\ reported' \in {reported, [reported EXCEPT ![src] = @ \cup NewItems]}
        /\ audited' \in {audited, [audited EXCEPT ![src] = @ \cup NewItems]}
    BY <1>9, AfterSteps DEF AppendMetrics, AppendAudit, server, store, logs
  <2>2. NewItems \in SUBSET Nat /\ answer.status \in Statuses \cup {None}
    BY DEF NewItems, TypeOK
  <2>3. answer' \in [status : Statuses \cup {None}, doc : Documents \cup {None}, new : Nat]
    BY <1>0, <2>1 DEF TypeOK
  <2>4. reported' \in [Sources -> SUBSET Nat] /\ audited' \in [Sources -> SUBSET Nat]
    <3>1. reported \in [Sources -> SUBSET Nat] /\ audited \in [Sources -> SUBSET Nat]
      BY DEF TypeOK
    <3>2. [reported EXCEPT ![src] = @ \cup NewItems] \in [Sources -> SUBSET Nat]
      BY <2>2, <3>1
    <3>3. [audited EXCEPT ![src] = @ \cup NewItems] \in [Sources -> SUBSET Nat]
      BY <2>2, <3>1
    <3> QED BY <2>1, <3>1, <3>2, <3>3
  <2>5. lastStatus' \in [Sources -> Statuses \cup {None}]
    BY <2>1, <2>2 DEF TypeOK
  <2> QED BY <2>1, <2>3, <2>4, <2>5 DEF TypeOK
<1>10. CASE AuditFails \/ Crash
  <2>1. /\ pc' = "idle" /\ src' = src /\ queue' = {} /\ answer' = NoAnswer
        /\ UNCHANGED <<served, changes, files, ledger, validator, consecutive, dlq, lastStatus,
                       reported, audited>>
    BY <1>10 DEF AuditFails, Crash, Dies, server, store, logs
  <2>2. faults' \in 0..MaxFaults /\ crashes' \in 0..MaxCrashes
    BY <1>0, <1>10 DEF AuditFails, Crash, Dies, TypeOK
  <2> QED BY <1>0, <2>1, <2>2 DEF TypeOK
<1>11. CASE TearFile
  <2>1. /\ pc = "file" /\ pc' = "idle" /\ src' = src /\ queue' = {} /\ answer' = NoAnswer
        /\ files' = [files EXCEPT ![src] = Append(@, Torn)]
        /\ crashes < MaxCrashes /\ crashes' = crashes + 1
        /\ UNCHANGED <<served, changes, ledger, validator, consecutive, dlq, lastStatus,
                       reported, audited, faults>>
    BY <1>11 DEF TearFile, Dies, server, logs
  <2>2. src \in Sources
    BY <2>1 DEF AtWork
  <2>3. files' \in [Sources -> Seq(Documents \cup {Torn})]
    <3>1. /\ files'[src] \in Seq(Documents \cup {Torn})
          /\ \A t \in Sources \ {src} : files'[t] = files[t]
      BY <2>1, <2>2, StoredAppended
    <3> QED BY <2>1, <3>1 DEF TypeOK
  <2>4. crashes' \in 0..MaxCrashes
    BY <1>0, <2>1 DEF TypeOK
  <2> QED BY <1>0, <2>1, <2>3, <2>4 DEF TypeOK
<1> QED BY <1>1, <1>2, <1>3, <1>4, <1>5, <1>6, <1>7, <1>8, <1>9, <1>10, <1>11
        DEF Next, Daily, Collect, Save, Finish, Environment

-----------------------------------------------------------------------------
LEMMA InitInv == Init => IInv
<1> SUFFICES ASSUME Init PROVE IInv
  OBVIOUS
<1>1. TypeOK
  <2>1. /\ NoAnswer \in [status : Statuses \cup {None}, doc : Documents \cup {None}, new : Nat]
        /\ 0 \in 0..MaxFaults /\ 0 \in 0..MaxCrashes /\ 0 \in 0..MaxChanges
        /\ << >> \in Seq(Documents \cup {Torn})
    BY CollectorAssumption DEF NoAnswer
  <2> QED BY <2>1 DEF Init, TypeOK
<1>2. FaultsCounted
  BY DEF Init, FaultsCounted, Owed
<1>3. FileFirst /\ AtWork
  BY DEF Init, FileFirst, AtWork
<1>4. FilesCounted
  <2>1. Len(<< >>) = 0 /\ IsFiniteSet({}) /\ Cardinality({}) = 0
    BY FS_EmptySet
  <2>2. ASSUME NEW s \in Sources
        PROVE  /\ IsFiniteSet(ledger[s])
               /\ Len(files[s]) <= Cardinality(ledger[s]) + crashes + Unlisted(s)
    <3>1. files[s] = << >> /\ ledger[s] = {} /\ crashes = 0 /\ Unlisted(s) = 0
      BY DEF Init, Unlisted
    <3>2. Len(files[s]) = 0 /\ Cardinality(ledger[s]) = 0 /\ IsFiniteSet(ledger[s])
      BY <2>1, <3>1
    <3> QED BY <3>1, <3>2
  <2> QED BY <2>2 DEF FilesCounted
<1>5. OmissionsCounted
  <2>1. \A s \in Sources : files[s] = << >>
    BY DEF Init
  <2>2. Omitted(reported) = {} /\ Omitted(audited) = {}
    BY <2>1 DEF Omitted
  <2>3. AtMost({}, 0) /\ crashes = 0 /\ crashes + faults = 0
    BY NoneIsAtMost DEF Init
  <2>4. Omitted(reported) \ InHand(BeforeMetrics) = {} /\ Omitted(audited) \ InHand(BeforeAudit) = {}
    BY <2>2
  <2> QED BY <2>3, <2>4 DEF OmissionsCounted
<1> QED BY <1>1, <1>2, <1>3, <1>4, <1>5 DEF IInv

LEMMA Invariance == Spec => []IInv
<1>1. IInv /\ [Next]_vars => IInv'
  <2> SUFFICES ASSUME IInv, [Next]_vars PROVE IInv'
    OBVIOUS
  <2>1. FaultsCounted' /\ FileFirst' /\ AtWork' /\ FilesCounted' /\ OmissionsCounted'
    BY FaultsStep, WorkStep, FilesStep, OmissionsStep DEF IInv
  <2>2. TypeOK'
    BY <2>1, TypeStep DEF IInv
  <2> QED BY <2>1, <2>2 DEF IInv
<1> QED BY <1>1, InitInv, PTL DEF Spec

(* Whatever is killed or fails, and whenever, the collector's files hold   *)
(* what they are meant to hold.                                            *)
THEOREM TypeCorrect == Spec => []TypeOK
<1>1. IInv => TypeOK
  BY DEF IInv
<1> QED BY <1>1, Invariance, PTL

(* Neither the ledger nor a validator ever speaks for a document that is   *)
(* not in the store: no kill can make the collector drop it for good.      *)
THEOREM NothingIsClaimedEarly == Spec => []FileFirst
<1>1. IInv => FileFirst
  BY DEF IInv
<1> QED BY <1>1, Invariance, PTL

(* Of each source, the store has at most one copy too many for each kill.  *)
THEOREM CopiesAreAccounted == Spec => []OneCopyPerCrash
<1>1. IInv => OneCopyPerCrash
  <2> SUFFICES ASSUME IInv, NEW s \in Sources
               PROVE  Len(files[s]) <= Cardinality(Stored(s)) + crashes
    BY DEF OneCopyPerCrash
  <2>1. /\ IsFiniteSet(ledger[s]) /\ crashes \in Nat
        /\ Len(files[s]) <= Cardinality(ledger[s]) + crashes + Unlisted(s)
    BY DEF IInv, FilesCounted, TypeOK
  <2>2. Len(files[s]) \in Nat /\ IsFiniteSet(Stored(s)) /\ ledger[s] \subseteq Stored(s)
    BY FilesAreNumbered, StoredFinite DEF IInv, FileFirst
  <2>3. Cardinality(ledger[s]) \in Nat /\ Cardinality(Stored(s)) \in Nat
    BY <2>1, <2>2, FS_CardinalityType
  <2>4. Cardinality(ledger[s]) + Unlisted(s) <= Cardinality(Stored(s))
    <3>1. CASE pc = "ledger" /\ src = s
      <4>1. answer.doc \notin ledger[s] /\ answer.doc \in Stored(s)
        BY <3>1 DEF IInv, AtWork
      <4>2. Cardinality(ledger[s] \cup {answer.doc}) = Cardinality(ledger[s]) + 1
        BY <2>1, <4>1, FS_AddElement
      <4>3. ledger[s] \cup {answer.doc} \in SUBSET Stored(s)
        BY <2>2, <4>1
      <4>4. Cardinality(ledger[s] \cup {answer.doc}) <= Cardinality(Stored(s))
        BY <2>2, <4>3, FS_Subset
      <4> QED BY <3>1, <4>2, <4>4 DEF Unlisted
    <3>2. CASE ~ (pc = "ledger" /\ src = s)
      <4>1. Cardinality(ledger[s]) <= Cardinality(Stored(s))
        BY <2>2, FS_Subset
      <4> QED BY <2>3, <3>2, <4>1 DEF Unlisted
    <3> QED BY <3>1, <3>2
  <2>5. Unlisted(s) \in Nat
    BY DEF Unlisted
  <2> QED BY <2>1, <2>2, <2>3, <2>4, <2>5
<1> QED BY <1>1, Invariance, PTL

(* At rest, the stored files no metrics record names are at most as many   *)
(* as the kills, those no audit record names as the kills and faults.      *)
THEOREM OmissionsAreAccounted == Spec => []OneOmissionPerCrash
<1>1. IInv => OneOmissionPerCrash
  <2> SUFFICES ASSUME IInv, pc = "idle"
               PROVE  /\ Cardinality(Omitted(reported)) <= crashes
                      /\ Cardinality(Omitted(audited)) <= crashes + faults
    BY DEF OneOmissionPerCrash
  <2>1. InHand(BeforeMetrics) = {} /\ InHand(BeforeAudit) = {}
    BY DEF InHand, BeforeMetrics, BeforeAudit
  <2> QED BY <2>1 DEF IInv, OmissionsCounted, AtMost
<1> QED BY <1>1, Invariance, PTL

(* A source's failures are forgotten only by a run that has the document   *)
(* it was answered with, or the one a 304 spoke of, in the store.          *)
THEOREM HealedOnlyByData == Spec => HealedByData
<1> DEFINE Heals == \A s \in Sources :
      consecutive[s] > 0 /\ consecutive'[s] = 0 =>
        /\ answer.doc # None => answer.doc \in Stored(s)
        /\ answer.doc = None => validator[s] \in Stored(s)
<1>1. IInv /\ [Next]_vars => [Heals]_vars
  <2> SUFFICES ASSUME IInv, Next, NEW s \in Sources, consecutive[s] > 0, consecutive'[s] = 0
               PROVE  /\ answer.doc # None => answer.doc \in Stored(s)
                      /\ answer.doc = None => validator[s] \in Stored(s)
    OBVIOUS
  <2>1. consecutive \in [Sources -> Nat] /\ ~ (consecutive' = consecutive)
    BY CollectorAssumption DEF IInv, TypeOK
  <2>2. RecordHealth
    BY <2>1, FetchKeepsTypes
       DEF IInv, Next, Daily, Collect, Save, Finish, Environment, Change, StartRun, FinishRun,
           AuditFails, Crash, TearFile, Dies, WriteFile, AppendLedger, SaveValidators, AppendMetrics, AppendAudit
  <2>3. pc = "health" /\ consecutive' = [consecutive EXCEPT ![src] = Failures]
    BY <2>2 DEF RecordHealth
  <2>4. s = src /\ Failures = 0
    BY <2>1, <2>3
  <2>5. consecutive[src] + 1 # 0
    BY <2>1, <2>4
  <2>6. answer.status = "SUCCESS"
    BY <2>4, <2>5 DEF Failures
  <2> QED BY <2>3, <2>4, <2>6 DEF IInv, AtWork
<1> QED BY <1>1, Invariance, PTL DEF Spec, HealedByData
=============================================================================
