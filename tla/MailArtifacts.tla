---------------------------- MODULE MailArtifacts ----------------------------
(***************************************************************************)
(* From a translated document to what is kept of it: the record, its       *)
(* Japanese rendering and its source PDF on origin/main, and the row in    *)
(* the database.                                                           *)
(*                                                                         *)
(* Three writers, none of which waits for another.  An author runs         *)
(* `us_mail_artifacts.py publish` at a desk (a clone) and pushes both      *)
(* files in one commit; other authors, the agents of ADR-018, commit a     *)
(* record through GitHub, without its rendering.  The render workflow is   *)
(* started by a push that touches a record, checks out the commit that was *)
(* pushed, renders what it lacks and pushes the renderings.  The import    *)
(* workflow runs hourly and inserts what its checkout holds in one         *)
(* transaction.                                                            *)
(*                                                                         *)
(* A record is a version of its document, a rendering, a PDF or a row the  *)
(* version it belongs to; versions differ in what is rendered of them, and *)
(* a version with a PDF names its hash.                                    *)
(***************************************************************************)
EXTENDS MailRecords, Naturals, Sequences, SequencesExt

CONSTANTS
  Versions,   \* what a document may be translated to
  None,       \* no such file, no such row
  Unfit,      \* <<document, version>> `validate` refuses
  Unloadable, \* <<document, version>> `load_record` refuses
  MaxEdits,   \* bound: records changed on main
  MaxMishaps  \* bound: killed publications, and renderings lost with their
              \* runner or their push

ASSUME ArtifactsAssumption ==
  /\ {None, Torn} \cap Versions = {} /\ None # Torn
  /\ Unfit \subseteq Documents \X Versions /\ Unloadable \subseteq Documents \X Versions
  /\ MaxEdits \in Nat /\ MaxMishaps \in Nat

VARIABLES
  records,   \* origin/main: data/knowledge/us/<id>.json
  texts,     \* origin/main: docs/translations/us/<id>.ja.md
  pdfs,      \* origin/main: data/sources/us/<id>.pdf
  rows,      \* table us_knowledge_documents: the content of each id
  edited,    \* history: documents whose record was changed on main
  desk,      \* the author's uncommitted files, and what publish is at
  due,       \* the texts of the push that waits for the render workflow,
             \* None if none waits
  render,    \* the running render job
  import,    \* the checkout of the running import, None if there is none
  strayed,   \* the last render job ended without having its say
  edits, mishaps   \* bounds

main   == <<records, texts, pdfs>>
job    == <<due, render, strayed>>
limits == <<edits, mishaps>>
artifacts == <<records, texts, pdfs, rows, edited, desk, due, render, import, strayed,
               edits, mishaps>>

(* immutable_write and publish: a file that is there must hold the bytes   *)
(* to be written.                                                          *)
Clashes_Never(file, v) == FALSE
Clashes(file, v) == file \notin {None, v}

-----------------------------------------------------------------------------
(* The author's desk: the files in the clone, and of the publish that is   *)
(* going on or done, what it lists and what it has yet to write.           *)
Files == {"record", "text", "pdf"}

EmptyDesk ==
  [doc |-> None, version |-> None, listed |-> {}, todo |-> <<>>,
   files |-> [f \in Files |-> None]]

Idle == desk.listed = {}
Published == ~ Idle /\ desk.todo = <<>>

(* publish: validate, then compare every file of the clone before writing  *)
(* any, the PDF too if one is given.  The clone may be older than the      *)
(* document on main, which publish does not look at.                       *)
StartPublish(d, v, withPdf) ==
  LET paths == IF withPdf THEN <<"record", "text", "pdf">> ELSE <<"record", "text">>
  IN /\ Idle /\ desk.doc \in {None, d}
     /\ <<d, v>> \notin Unfit
     /\ \A f \in ToSet(paths) : ~ Clashes(desk.files[f], v)
     /\ desk' = [desk EXCEPT !.doc = d, !.version = v, !.listed = ToSet(paths), !.todo = paths]
     /\ UNCHANGED <<main, rows, edited, job, import, limits>>

(* immutable_write: a file is opened with "x" unless it is there.          *)
WriteNext ==
  /\ desk.todo # <<>>
  /\ desk' = [desk EXCEPT !.todo = Tail(@),
                          !.files[Head(desk.todo)] = IF @ = None THEN desk.version ELSE @]
  /\ UNCHANGED <<main, rows, edited, job, import, limits>>

(* Killed before a file, or between its open and its write.                *)
KillPublish ==
  /\ mishaps < MaxMishaps /\ desk.todo # <<>>
  /\ \E left \in {desk.files[Head(desk.todo)], Torn} :
       /\ left = Torn => desk.files[Head(desk.todo)] = None
       /\ desk' = [desk EXCEPT !.listed = {}, !.todo = <<>>, !.version = None,
                               !.files[Head(desk.todo)] = left]
  /\ mishaps' = mishaps + 1
  /\ UNCHANGED <<main, rows, edited, job, import, edits>>

(* ADR-017:50 - what an interrupted publication left is no publication:    *)
(* the author clears it away, or runs publish again.                       *)
ClearDesk ==
  /\ Idle /\ desk # EmptyDesk
  /\ desk' = EmptyDesk
  /\ UNCHANGED <<main, rows, edited, job, import, limits>>

-----------------------------------------------------------------------------
(* origin/main.  A push is refused when a file it adds is there with other *)
(* content, the conflict `git pull --rebase` stops at.                     *)
Merges(file, v) == file \in {None, v}

(* Main moves under a job that has pulled but not yet pushed.              *)
Overtaken == [render EXCEPT !.current = FALSE]

(* A push that changes a record starts the workflow at the commit pushed,  *)
(* after the run that is going on (concurrency without cancel-in-progress) *)
(* and in the place of one that waits already.  No push changes a record   *)
(* without this, so of the waiting commit's files only the texts can be    *)
(* older than main's.                                                      *)
Queued_IfFree(changed, held) == IF changed /\ render.at = "idle" THEN held ELSE due
Queued(changed, held) == IF changed THEN held ELSE due

Landing(d, record, text, pdf) ==
  /\ records' = [records EXCEPT ![d] = record]
  /\ texts' = [texts EXCEPT ![d] = text]
  /\ pdfs' = [pdfs EXCEPT ![d] = pdf]
  /\ due' = Queued(record # records[d], [texts EXCEPT ![d] = text])
  /\ render' = IF main' = main THEN render ELSE Overtaken

(* The author's commit, in one push, of the files publish has listed.      *)
OnMain(f) == CASE f = "record" -> records [] f = "text" -> texts [] f = "pdf" -> pdfs
Lands == Published /\ \A f \in desk.listed : Merges(OnMain(f)[desk.doc], desk.files[f])

Sent(f) == IF f \in desk.listed THEN desk.files[f] ELSE OnMain(f)[desk.doc]

SendDesk ==
  /\ Lands
  /\ Landing(desk.doc, Sent("record"), Sent("text"), Sent("pdf"))
  /\ desk' = EmptyDesk
  /\ UNCHANGED <<rows, edited, import, strayed, limits>>

DropDesk ==
  /\ Published /\ ~ Lands
  /\ desk' = EmptyDesk
  /\ UNCHANGED <<main, rows, edited, job, import, limits>>

(* A record committed through GitHub, which creates no file twice.         *)
CommitRecord(d, v) ==
  /\ records[d] = None
  /\ Landing(d, v, texts[d], pdfs[d])
  /\ UNCHANGED <<rows, edited, desk, import, strayed, limits>>

(* A record changed in place, against ADR-016:18.                          *)
EditRecord(d, v) ==
  /\ edits < MaxEdits
  /\ records[d] \notin {None, v}
  /\ edits' = edits + 1
  /\ edited' = edited \cup {d}
  /\ Landing(d, v, texts[d], pdfs[d])
  /\ UNCHANGED <<rows, desk, import, strayed, mishaps>>

-----------------------------------------------------------------------------
(* The render workflow.                                                    *)
Resting == [at |-> "idle", made |-> <<>>, current |-> FALSE]

(* publish(record, '.', write_record=False) raises for one of the records  *)
(* of a checkout with the texts `held`.                                    *)
Stops(d, held) ==
  records[d] # None /\ (<<d, records[d]>> \in Unfit \/ Clashes(held[d], records[d]))
BlockedAt(held) == \E d \in Documents : Stops(d, held)
Blocked == BlockedAt(texts)

(* The renderings the checkout lacks.                                      *)
Made(held) ==
  [d \in {e \in Documents : records[e] # None /\ held[e] = None} |-> records[d]]

(* checkout, then every record in path order; the first error ends the job *)
(* before anything is committed, and nothing new is nothing to commit.     *)
StartRender ==
  /\ due # None /\ render.at = "idle"
  /\ due' = None
  /\ render' = IF BlockedAt(due) \/ Made(due) = <<>> THEN Resting
               ELSE [at |-> "pull", made |-> Made(due), current |-> FALSE]
  /\ strayed' = FALSE
  /\ UNCHANGED <<main, rows, edited, desk, import, limits>>

(* git commit, git pull --rebase.                                          *)
Rebases == \A d \in DOMAIN render.made : Merges(texts[d], render.made[d])

PullRender ==
  /\ render.at = "pull"
  /\ render' = IF Rebases THEN [render EXCEPT !.at = "push", !.current = TRUE] ELSE Resting
  /\ strayed' = ~ Rebases
  /\ UNCHANGED <<main, rows, edited, desk, due, import, limits>>

(* git push: refused if main has moved since the pull.  A push made with   *)
(* the workflow's own token starts no workflow.                            *)
PushRender ==
  /\ render.at = "push"
  /\ texts' = IF render.current THEN [d \in Documents |->
                IF d \in DOMAIN render.made THEN render.made[d] ELSE texts[d]] ELSE texts
  /\ strayed' = ~ render.current
  /\ render' = Resting
  /\ UNCHANGED <<records, pdfs, rows, edited, desk, due, import, limits>>

(* The daily workflow's push comes between pull and push, or the runner is *)
(* lost.                                                                   *)
LoseRender ==
  /\ mishaps < MaxMishaps
  /\ render.at \in {"pull", "push"}
  /\ mishaps' = mishaps + 1
  /\ render' = Resting
  /\ strayed' = TRUE
  /\ UNCHANGED <<main, rows, edited, desk, due, import, edits>>

-----------------------------------------------------------------------------
(* The import workflow.  load_record reads every file before anything is   *)
(* done with one.                                                          *)
Loads == \A d \in Documents : <<d, records[d]>> \notin Unloadable

StartImport ==
  /\ import = None
  /\ Loads
  /\ import' = records
  /\ UNCHANGED <<main, rows, edited, desk, job, limits>>

(* INSERT ... ON CONFLICT (id) DO NOTHING                                  *)
Inserted_Upsert == [d \in Documents |-> IF import[d] # None THEN import[d] ELSE rows[d]]
Inserted == [d \in Documents |-> IF rows[d] = None THEN import[d] ELSE rows[d]]

(* content_sha256 compared after each insert.                              *)
Conflicts_SameId(d) == import[d] # None /\ rows[d] # None
Conflicts(d) == import[d] \notin {None, Inserted[d]}

(* One conflict rolls the whole transaction back.                          *)
EndImport ==
  /\ import # None
  /\ rows' = IF \E d \in Documents : Conflicts(d) THEN rows ELSE Inserted
  /\ import' = None
  /\ UNCHANGED <<main, edited, desk, job, limits>>

-----------------------------------------------------------------------------
ArtifactsInit ==
  /\ records = [d \in Documents |-> None]
  /\ texts = [d \in Documents |-> None]
  /\ pdfs = [d \in Documents |-> None]
  /\ rows = [d \in Documents |-> None]
  /\ edited = {}
  /\ desk = EmptyDesk
  /\ due = None /\ render = Resting /\ strayed = FALSE
  /\ import = None
  /\ edits = 0 /\ mishaps = 0

Author ==
  \/ \E d \in Documents, v \in Versions, withPdf \in BOOLEAN : StartPublish(d, v, withPdf)
  \/ WriteNext \/ KillPublish \/ ClearDesk \/ DropDesk

Workflows == StartRender \/ PullRender \/ PushRender \/ StartImport \/ EndImport

ArtifactsNext ==
  \/ Author \/ SendDesk
  \/ \E d \in Documents, v \in Versions : CommitRecord(d, v) \/ EditRecord(d, v)
  \/ Workflows \/ LoseRender

ArtifactsSpec ==
  /\ ArtifactsInit /\ [][ArtifactsNext]_artifacts
  /\ WF_artifacts(StartRender \/ PullRender \/ PushRender)
  /\ WF_artifacts(StartImport \/ EndImport)
-----------------------------------------------------------------------------
(* ADR-016:18, ADR-017:50, us_mail_artifacts.py:104 - whoever writes and   *)
(* whatever is killed, main holds no torn file, and a document is the same *)
(* version wherever it is kept, unless its record was changed on main.     *)
OneVersion ==
  \A d \in Documents :
    /\ Torn \notin {records[d], texts[d], pdfs[d]}
    /\ d \notin edited =>
         /\ texts[d] # None => texts[d] = records[d]
         /\ pdfs[d] # None => pdfs[d] = records[d]
         /\ rows[d] # None => rows[d] = records[d]

(* "never overwrite history" (import_us_knowledge.py:1), ADR-017:23: a     *)
(* rendering or PDF on main and a row in the database stay what they are,  *)
(* even if the record they belong to is changed.                           *)
KeptForGood ==
  [][\A d \in Documents :
       /\ texts[d] # None => texts'[d] = texts[d]
       /\ pdfs[d] # None => pdfs'[d] = pdfs[d]
       /\ rows[d] # None => rows'[d] = rows[d]]_<<texts, pdfs, rows>>

(* ADR-017:23 - the Action renders what is on main.  Only two things keep  *)
(* a record without its rendering: a record anywhere on main that stops    *)
(* the job, or a job that was lost and that no later push started again.   *)
EventuallyRendered ==
  \A d \in Documents : <>[](records[d] # None => texts[d] # None \/ Blocked \/ strayed)

(* ADR-016:22-24 - the hourly import has every record in the database,     *)
(* unless a record on main cannot be loaded or is no longer the one that   *)
(* was imported: then it has none of those still missing.                  *)
Refused == ~ Loads \/ \E d \in Documents : records[d] # None /\ Clashes(rows[d], records[d])

EventuallyImported ==
  \A d \in Documents : <>[](records[d] # None => rows[d] # None \/ Refused)
=============================================================================
