------------------------------ MODULE MailWatch ------------------------------
(***************************************************************************)
(* ops/watch_us_mail_mac.py: the owner's Mac fetches the published mail    *)
(* records every few seconds, shows a banner for each new eligible one,    *)
(* may read it aloud, and keeps the ids it is done with in seen.json.      *)
(*                                                                         *)
(* seen.json is written in place (Path.write_text): the file is empty      *)
(* between the two halves of a save, and a process killed there leaves it  *)
(* so.  A failed fetch changes nothing and is not modelled.                *)
(***************************************************************************)
EXTENDS MailRecords, Naturals, FiniteSets

CONSTANTS
  Eligible,   \* the documents with notification_eligible
  Malformed,  \* those whose summary announce refuses, or that have none
  Unreadable, \* those whose file is no JSON record with an id
  Speak,      \* --speak
  Absent,     \* seen.json before the first save
  MaxFaults,  \* bound: failed banners and failed speech
  MaxKills,   \* bound: kills of the process outside a save
  MaxTears    \* bound: kills in the middle of a save

ASSUME WatchAssumption ==
  /\ Eligible \subseteq Documents
  /\ Malformed \subseteq Documents /\ Unreadable \subseteq Documents /\ Speak \in BOOLEAN
  /\ Absent # Torn /\ \A ids \in SUBSET Documents : ids \notin {Absent, Torn}
  /\ MaxFaults \in Nat /\ MaxKills \in Nat /\ MaxTears \in Nat

VARIABLES
  published,  \* external: the records on origin/main, never removed
  past,       \* history: those there before the watcher was first started
  baseline,   \* history: those the completed first scan took as read
  file,       \* seen.json
  notified,   \* banners shown for each document
  pc, first, seen, todo,   \* scan: its locals, and the records ahead of it
  faults, kills, tears     \* bounds

git  == <<published, past>>
proc == <<first, seen, todo>>
bounds == <<faults, kills, tears>>
vars == <<published, past, baseline, file, notified, pc, first, seen, todo,
          faults, kills, tears>>

-----------------------------------------------------------------------------
Publish(d) ==
  /\ d \notin published
  /\ published' = published \cup {d}
  /\ UNCHANGED <<past, baseline, file, notified, pc, proc, bounds>>

(* The records of the fetched tree, which the loop takes in path order.    *)
Foremost(tree) ==
  Paths[CHOOSE i \in DOMAIN Paths : /\ Paths[i] \in tree
                                    /\ \A j \in DOMAIN Paths : j < i => Paths[j] \notin tree]

PathsOf_FirstOnly(tree) == {d \in tree : d = Foremost(tree)}
PathsOf(tree) == tree

Doc == Foremost(todo)

IsFirst == file = Absent

(* A torn file raises in json.loads, and main tries again later.           *)
Readable_Always == TRUE
Readable == file # Torn

StartScan ==
  /\ pc = "asleep"
  /\ Readable
  /\ pc' = "scanning"
  /\ first' = IsFirst
  /\ seen' = IF file \in {Absent, Torn} THEN {} ELSE file
  /\ todo' = PathsOf(published)
  /\ UNCHANGED <<git, baseline, file, notified, bounds>>

Noted(d) == seen \cup {d}

Takes(d) == d \notin seen /\ ~ first /\ d \in Eligible

(* The record is read before anything else, its summary when it is to be   *)
(* shown.                                                                  *)
Raises(d) == d \in Unreadable \/ (d \in Malformed /\ Takes(d))

PassOver ==
  /\ pc = "scanning" /\ todo # {}
  /\ ~ Raises(Doc) /\ ~ Takes(Doc)
  /\ seen' = Noted(Doc)
  /\ todo' = todo \ {Doc}
  /\ UNCHANGED <<git, baseline, file, notified, pc, first, bounds>>

(* osascript shows the banner; with --speak, `say` is still to come.       *)
Announce ==
  /\ pc = "scanning" /\ todo # {}
  /\ ~ Raises(Doc) /\ Takes(Doc)
  /\ notified' = [notified EXCEPT ![Doc] = @ + 1]
  /\ pc' = IF Speak THEN "speaking" ELSE "announced"
  /\ UNCHANGED <<git, baseline, file, proc, bounds>>

Say ==
  /\ pc = "speaking"
  /\ pc' = "announced"
  /\ UNCHANGED <<git, baseline, file, notified, proc, bounds>>

(* write_text truncates, then writes.                                      *)
BeginSave_OnlyAtEnd(stage) ==
  IF stage = "ending" THEN file' = Torn /\ pc' = stage ELSE pc' = "scanning" /\ UNCHANGED file
BeginSave(stage) == file' = Torn /\ pc' = stage

MarkSeen ==
  /\ pc = "announced"
  /\ seen' = Noted(Doc)
  /\ todo' = todo \ {Doc}
  /\ BeginSave("marking")
  /\ UNCHANGED <<git, baseline, notified, first, bounds>>

EndScan ==
  /\ pc = "scanning" /\ todo = {}
  /\ BeginSave("ending")
  /\ UNCHANGED <<git, baseline, notified, proc, bounds>>

Save ==
  /\ pc \in {"marking", "ending"}
  /\ file' = seen
  /\ baseline' = IF first THEN seen ELSE baseline
  /\ pc' = IF pc = "marking" THEN "scanning" ELSE "asleep"
  /\ UNCHANGED <<git, notified, proc, bounds>>

(* A failed banner, or a failed `say` after its banner, ends the scan.     *)
AfterFailure_Marks ==
  /\ pc' = "scanning" /\ seen' = Noted(Doc) /\ todo' = todo \ {Doc} /\ UNCHANGED first
AfterFailure == pc' = "asleep" /\ UNCHANGED proc

(* A record that raises does so in every scan, and the scan ends there:    *)
(* the records behind it are not looked at.                                *)
RecordRaises ==
  /\ pc = "scanning" /\ todo # {}
  /\ Raises(Doc)
  /\ AfterFailure
  /\ UNCHANGED <<git, baseline, file, notified, bounds>>

NotifyFails ==
  /\ faults < MaxFaults
  /\ \/ pc = "scanning" /\ todo # {} /\ ~ Raises(Doc) /\ Takes(Doc)
     \/ pc = "speaking"
  /\ faults' = faults + 1
  /\ AfterFailure
  /\ UNCHANGED <<git, baseline, file, notified, kills, tears>>

Kill ==
  /\ pc # "asleep"
  /\ \/ /\ pc \in {"marking", "ending"} /\ tears < MaxTears
        /\ tears' = tears + 1 /\ UNCHANGED kills
     \/ /\ pc \notin {"marking", "ending"} /\ kills < MaxKills
        /\ kills' = kills + 1 /\ UNCHANGED tears
  /\ pc' = "asleep"
  /\ UNCHANGED <<git, baseline, file, notified, proc, faults>>

-----------------------------------------------------------------------------
Init ==
  /\ published \in SUBSET Documents
  /\ past = published
  /\ baseline = {} /\ file = Absent
  /\ notified = [d \in Documents |-> 0]
  /\ pc = "asleep" /\ first = FALSE /\ seen = {} /\ todo = {}
  /\ faults = 0 /\ kills = 0 /\ tears = 0

Watch ==
  StartScan \/ PassOver \/ Announce \/ Say \/ MarkSeen \/ EndScan \/ Save \/ RecordRaises

Next == (\E d \in Documents : Publish(d)) \/ Watch \/ NotifyFails \/ Kill

Spec == Init /\ [][Next]_vars

(* main loops for ever: it is restarted after a kill and goes on.          *)
FairSpec == Spec /\ WF_vars(Watch)
-----------------------------------------------------------------------------
(* ADR-017:27 - what was published before the first start is taken as read *)
(* and never announced, whenever that first scan is killed.                *)
NoBacklog == \A d \in past : notified[d] = 0

(* "notify once per ID": each banner too many is owed to one failure or    *)
(* one kill of its own.                                                    *)
Repeats == UNION {{d} \X ((1..notified[d]) \ {notified[d]}) : d \in Documents}
OneRepeatPerFault == Cardinality(Repeats) <= faults + kills + tears

(* ADR-017:27 - a failed notification is not marked as read.               *)
ReadWasShown ==
  file \notin {Absent, Torn} =>
    \A d \in (file \cap Eligible) \ baseline : notified[d] > 0

(* A record that raises stands before d, or is d; or one stands anywhere   *)
(* that no first scan gets past, which saves at its end only.              *)
Barred(d) ==
  \/ \E i, j \in DOMAIN Paths :
       /\ i <= j /\ Paths[j] = d /\ Paths[i] \in published
       /\ Paths[i] \in Unreadable \/ Paths[i] \in Malformed \ baseline
  \/ file = Absent /\ published \cap Unreadable # {}

(* ADR-017:27 - every eligible record published after the first scan is    *)
(* shown in the end, whatever fails, with two exceptions the code makes: a *)
(* kill in the middle of a save left seen.json empty, and no later scan    *)
(* gets past json.loads; or a record raises, and no scan gets past that.   *)
EventuallyShown ==
  \/ <>[](file = Torn)
  \/ \A d \in Eligible : d \in published ~> (notified[d] > 0 \/ d \in baseline \/ Barred(d))
=============================================================================
