------------------------------ MODULE Collector ------------------------------
(***************************************************************************)
(* `mios collect`: the loop over sources and, for each, Collector.collect, *)
(* as the sequence of separate file writes it is.  Each write is durable   *)
(* on its own and the process can be killed between any two of them; what  *)
(* was in memory is gone and the next run starts over.  An item file is    *)
(* written in place, so a kill inside that write leaves it torn: there,    *)
(* and unreadable.                                                         *)
(*                                                                         *)
(* The server is outside the program.  It serves one document per source,  *)
(* changes it now and then, may be unreachable or answer with something    *)
(* that is not the document, and answers 304 when asked with the validator *)
(* of the document it serves.  A validator stands for ETag and             *)
(* Last-Modified together: the document it was sent with.  A fetch yields  *)
(* one draft, as both adapters of the repository do.                       *)
(***************************************************************************)
EXTENDS Naturals, FiniteSets, Sequences, SequencesExt

CONSTANTS
  Sources, Disabled,  \* configured sources, and those with enabled = false
  Documents,          \* what a server may serve
  Labelled,           \* sources whose server sends a validator
  None,               \* no validator stored, no report yet
  Torn,               \* what an item file holds that was cut off
  MaxChanges,         \* bound: how often a document changes
  MaxFaults,          \* bound: failed fetches and failed audit writes
  MaxCrashes          \* bound: killed runs

ASSUME CollectorAssumption ==
  /\ Disabled \subseteq Sources /\ Labelled \subseteq Sources
  /\ None \notin Documents /\ Torn \notin Documents
  /\ MaxChanges \in Nat /\ MaxFaults \in Nat /\ MaxCrashes \in Nat

VARIABLES
  served,       \* external: the document each server serves now
  files,        \* the raw store's item files, oldest first
  ledger,       \* _hashes.txt: the documents whose hash it lists
  validator,    \* state/http.json
  consecutive,  \* state/health.json: consecutive_failures
  dlq,          \* dead letters
  lastStatus,   \* the status of the newest metrics record
  reported,     \* positions in files[src] named by a metrics record
  audited,      \* ... and by an agent_runs record
  pc, queue, src, answer,      \* the running process
  changes, faults, crashes     \* bounds

server == <<served, changes>>
store  == <<files, ledger>>
logs   == <<lastStatus, reported, audited>>
vars   == <<served, files, ledger, validator, consecutive, dlq, lastStatus,
            reported, audited, pc, queue, src, answer, changes, faults, crashes>>

Enabled == Sources \ Disabled
Stored(s) == {files[s][i] : i \in DOMAIN files[s]} \ {Torn}

(* What follows a fetch, in the order collect writes it.                   *)
Steps_LedgerFirst == <<"ledger", "file", "validators", "health", "metrics", "audit">>
Steps_ValidatorsFirst == <<"validators", "file", "ledger", "health", "metrics", "audit">>
Steps_HealthFirst == <<"health", "file", "ledger", "validators", "metrics", "audit">>
Steps == <<"file", "ledger", "validators", "health", "metrics", "audit">>
After(step) == Steps[(CHOOSE i \in DOMAIN Steps : Steps[i] = step) + 1]

(* The answer to a fetch, and the file it became (0: none).                *)
NoAnswer == [status |-> None, doc |-> None, new |-> 0]
Statuses == {"SUCCESS", "FAILED", "SKIPPED"}

-----------------------------------------------------------------------------
Change(s, d) ==
  /\ changes < MaxChanges
  /\ d # served[s]
  /\ served' = [served EXCEPT ![s] = d]
  /\ changes' = changes + 1
  /\ UNCHANGED <<store, validator, consecutive, dlq, logs, pc, queue, src, answer,
                 faults, crashes>>

(* `mios collect` visits the enabled sources; `--source` names any one.    *)
StartRun(q) ==
  /\ pc = "idle"
  /\ queue' = q
  /\ pc' = "visit"
  /\ UNCHANGED <<server, store, validator, consecutive, dlq, logs, src, answer,
                 faults, crashes>>

(* The fetch: `next` is where collect goes on.                             *)
Visit(s, next) ==
  /\ pc = "visit"
  /\ s \in queue
  /\ queue' = queue \ {s}
  /\ src' = s
  /\ pc' = next
  /\ UNCHANGED <<server, store, validator, consecutive, logs, crashes>>

Skip(s) ==
  /\ s \in Disabled
  /\ Visit(s, "metrics")
  /\ answer' = [NoAnswer EXCEPT !.status = "SKIPPED"]
  /\ UNCHANGED <<dlq, faults>>

(* A dead letter is one more line of the source's file.                    *)
Quarantined(s) == [dlq EXCEPT ![s] = @ + 1]

(* TransportError, or an AdapterError, which is also a dead letter.        *)
FetchFails(s, unusable) ==
  /\ s \in Enabled
  /\ faults < MaxFaults
  /\ faults' = faults + 1
  /\ Visit(s, "health")
  /\ answer' = [NoAnswer EXCEPT !.status = "FAILED"]
  /\ dlq' = IF unusable THEN Quarantined(s) ELSE dlq

(* HTTP 304: the request carried the validator of what is served.          *)
Answers304(s) == s \in Labelled /\ validator[s] = served[s]

NotModified(s) ==
  /\ s \in Enabled
  /\ Answers304(s)
  /\ Visit(s, "health")
  /\ answer' = [NoAnswer EXCEPT !.status = "SUCCESS"]
  /\ UNCHANGED <<dlq, faults>>

(* put() drops a document whose hash is in the ledger.                     *)
Seen(s) == served[s] \in ledger[s]

Fetched(s, afterStore) ==
  /\ s \in Enabled
  /\ ~ Answers304(s)
  /\ Visit(s, IF Seen(s) THEN afterStore ELSE Head(Steps))
  /\ answer' = [status |-> "SUCCESS", doc |-> served[s], new |-> 0]
  /\ UNCHANGED <<dlq, faults>>

(* put(): the item file, then its line in the ledger.                      *)
WriteFile ==
  /\ pc = "file"
  /\ files' = [files EXCEPT ![src] = Append(@, answer.doc)]
  /\ answer' = [answer EXCEPT !.new = Len(files[src]) + 1]
  /\ pc' = After(pc)
  /\ UNCHANGED <<server, ledger, validator, consecutive, dlq, logs, queue, src, faults, crashes>>

Listed_MemoryOnly == ledger[src]
Listed == ledger[src] \cup {answer.doc}

AppendLedger ==
  /\ pc = "ledger"
  /\ ledger' = [ledger EXCEPT ![src] = Listed]
  /\ pc' = After(pc)
  /\ UNCHANGED <<server, files, validator, consecutive, dlq, logs, queue, src, answer,
                 faults, crashes>>

(* _save_conditional: a response without validators leaves the old ones.   *)
SaveValidators ==
  /\ pc = "validators"
  /\ validator' = IF src \in Labelled THEN [validator EXCEPT ![src] = answer.doc] ELSE validator
  /\ pc' = After(pc)
  /\ UNCHANGED <<server, store, consecutive, dlq, logs, queue, src, answer, faults, crashes>>

(* HealthTracker._update.                                                  *)
Failures == IF answer.status = "SUCCESS" THEN 0 ELSE consecutive[src] + 1

RecordHealth ==
  /\ pc = "health"
  /\ consecutive' = [consecutive EXCEPT ![src] = Failures]
  /\ pc' = After(pc)
  /\ UNCHANGED <<server, store, validator, dlq, logs, queue, src, answer, faults, crashes>>

(* _finish: the metrics record, then the agent_runs record.                *)
NewItems_AskedAfter == IF answer.doc \in ledger[src] THEN {} ELSE {answer.new} \ {0}
NewItems == {answer.new} \ {0}

AppendMetrics ==
  /\ pc = "metrics"
  /\ lastStatus' = [lastStatus EXCEPT ![src] = answer.status]
  /\ reported' = [reported EXCEPT ![src] = @ \cup NewItems]
  /\ pc' = After(pc)
  /\ UNCHANGED <<server, store, validator, consecutive, dlq, audited, queue, src, answer,
                 faults, crashes>>

(* A CollectError is caught by _cmd_collect, which goes on.                *)
AppendAudit ==
  /\ pc = "audit"
  /\ audited' = [audited EXCEPT ![src] = @ \cup NewItems]
  /\ pc' = "visit"
  /\ answer' = NoAnswer
  /\ UNCHANGED <<server, store, validator, consecutive, dlq, lastStatus, reported, queue, src,
                 faults, crashes>>

(* An AuditWriteError is not: it ends the run.                             *)
AuditFails ==
  /\ pc = "audit"
  /\ faults < MaxFaults
  /\ faults' = faults + 1
  /\ pc' = "idle"
  /\ queue' = {}
  /\ answer' = NoAnswer
  /\ UNCHANGED <<server, store, validator, consecutive, dlq, logs, src, crashes>>

FinishRun ==
  /\ pc = "visit"
  /\ queue = {}
  /\ pc' = "idle"
  /\ UNCHANGED <<server, store, validator, consecutive, dlq, logs, queue, src, answer,
                 faults, crashes>>

Dies ==
  /\ pc # "idle"
  /\ crashes < MaxCrashes
  /\ crashes' = crashes + 1
  /\ pc' = "idle"
  /\ queue' = {}
  /\ answer' = NoAnswer
  /\ UNCHANGED <<server, ledger, validator, consecutive, dlq, logs, src, faults>>

Crash == Dies /\ UNCHANGED files

(* Killed inside write_text: the file is there, what it holds is not.      *)
TearFile ==
  /\ pc = "file"
  /\ Dies
  /\ files' = [files EXCEPT ![src] = Append(@, Torn)]

-----------------------------------------------------------------------------
Init ==
  /\ served \in [Sources -> Documents]
  /\ files = [s \in Sources |-> << >>]
  /\ ledger = [s \in Sources |-> {}]
  /\ validator = [s \in Sources |-> None]
  /\ consecutive = [s \in Sources |-> 0]
  /\ dlq = [s \in Sources |-> 0]
  /\ lastStatus = [s \in Sources |-> None]
  /\ reported = [s \in Sources |-> {}]
  /\ audited = [s \in Sources |-> {}]
  /\ pc = "idle" /\ queue = {} /\ src = None /\ answer = NoAnswer
  /\ changes = 0 /\ faults = 0 /\ crashes = 0

(* After a duplicate, put() returns False and the collection goes on.      *)
Collect(s) == Skip(s) \/ NotModified(s) \/ Fetched(s, "validators")

Save == WriteFile \/ AppendLedger \/ SaveValidators \/ RecordHealth

Finish == AppendMetrics \/ AppendAudit \/ FinishRun

Daily == StartRun(Enabled) \/ (\E s \in Sources : Collect(s)) \/ Save \/ Finish

Environment ==
  \/ \E s \in Sources, d \in Documents : Change(s, d)
  \/ \E s \in Sources, u \in BOOLEAN : FetchFails(s, u)
  \/ AuditFails
  \/ Crash \/ TearFile

Next == Daily \/ Environment \/ \E s \in Sources : StartRun({s})

Spec == Init /\ [][Next]_vars

(* The chain is started again every day, whatever an operator runs in      *)
(* between, and a run not killed goes on to its end.                       *)
FairSpec == Spec /\ WF_vars(Daily) /\ SF_vars(StartRun(Enabled))
-----------------------------------------------------------------------------
TypeOK ==
  /\ served \in [Sources -> Documents]
  /\ files \in [Sources -> Seq(Documents \cup {Torn})]
  /\ ledger \in [Sources -> SUBSET Documents]
  /\ validator \in [Sources -> Documents \cup {None}]
  /\ consecutive \in [Sources -> 0..MaxFaults]
  /\ dlq \in [Sources -> 0..MaxFaults]
  /\ lastStatus \in [Sources -> Statuses \cup {None}]
  /\ reported \in [Sources -> SUBSET Nat] /\ audited \in [Sources -> SUBSET Nat]
  /\ pc \in {"idle", "visit", "file", "ledger", "validators", "health", "metrics", "audit"}
  /\ queue \in SUBSET Sources /\ src \in Sources \cup {None}
  /\ answer \in [status : Statuses \cup {None}, doc : Documents \cup {None}, new : Nat]
  /\ changes \in 0..MaxChanges /\ faults \in 0..MaxFaults /\ crashes \in 0..MaxCrashes

(* rawstore.py:56-61, collector.py:153-163 - nothing durable says "we have *)
(* it" before a readable item file exists: neither the ledger, which makes *)
(* put() drop the document, nor the validator, which makes the server      *)
(* withhold it.  Otherwise a kill would lose the document for ever.        *)
FileFirst ==
  \A s \in Sources :
    ledger[s] \cup ({validator[s]} \ {None}) \subseteq Stored(s)

(* health.py:33, "silent data gaps are forbidden": a failing source is     *)
(* cleared only by a run that has the document it was answered with (or    *)
(* that the server says it has) safely in the store.                       *)
HealedByData ==
  [][\A s \in Sources :
       consecutive[s] > 0 /\ consecutive'[s] = 0 =>
         /\ answer.doc # None => answer.doc \in Stored(s)
         /\ answer.doc = None => validator[s] \in Stored(s)]_vars

(* rawstore.py:21-22 - an identical payload is not stored twice, except    *)
(* that a run killed between the file and the ledger costs one copy, and   *)
(* one killed inside the write of the file a torn one.                     *)
OneCopyPerCrash ==
  \A s \in Sources : Len(files[s]) <= Cardinality(Stored(s)) + crashes

(* collector.py:4-5 - "Everything a run did is observable afterwards": at  *)
(* rest, a stored item that no metrics record will ever name is owed to a  *)
(* run killed between the two, one item for one kill; one that no audit    *)
(* record will ever name, to that or to a failed audit write.              *)
Omitted(records) == UNION {{s} \X (DOMAIN files[s] \ records[s]) : s \in Sources}
OneOmissionPerCrash ==
  pc = "idle" => /\ Cardinality(Omitted(reported)) <= crashes
                 /\ Cardinality(Omitted(audited)) <= crashes + faults

(* Crashes, faults and 304s only delay: once the server settles, the       *)
(* document it serves is in the store of every enabled source.             *)
EventuallyStored == <>[](\A s \in Enabled : served[s] \in Stored(s))
=============================================================================
