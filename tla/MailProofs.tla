----------------------------- MODULE MailProofs -----------------------------
(***************************************************************************)
(* What the mail watcher and the places a document is kept in promise, for *)
(* any documents, versions, faults and kills.  The two share the records   *)
(* and nothing else: each has its own specification here.                  *)
(***************************************************************************)
EXTENDS MailWatch, MailArtifacts, ObservationLemmas

-----------------------------------------------------------------------------
(* The watcher.                                                            *)
WatchTypeOK ==
  /\ published \subseteq Documents /\ past \subseteq published /\ baseline \subseteq Documents
  /\ file \in (SUBSET Documents) \cup {Absent, Torn}
  /\ notified \in [Documents -> Nat]
  /\ pc \in {"asleep", "scanning", "speaking", "announced", "marking", "ending"}
  /\ first \in BOOLEAN /\ seen \subseteq Documents /\ todo \subseteq Documents
  /\ faults \in Nat /\ kills \in Nat /\ tears \in Nat

(* A scan starts from what is kept and only adds to it; the file is torn   *)
(* exactly while it is being saved, or for good.                           *)
Kept == IF file = Absent THEN {}
        ELSE IF file # Torn THEN file
        ELSE IF pc \in {"marking", "ending"} THEN seen ELSE Documents

Scanning ==
  /\ pc \in {"scanning", "speaking", "announced"} =>
       /\ file # Torn /\ Kept \subseteq seen
       /\ first <=> file = Absent
  /\ pc \in {"marking", "ending"} => file = Torn
  /\ pc \in {"speaking", "announced", "marking"} => ~ first
  /\ pc \in {"speaking", "announced"} =>
       todo # {} /\ Doc \in Eligible /\ notified[Doc] > 0
  /\ pc = "ending" => todo = {}

(* What was there before the first start is read, or ahead of the scan     *)
(* that takes it as read.                                                  *)
PastIsRead ==
  /\ file \notin {Absent, Torn} => past \subseteq file
  /\ pc # "asleep" => past \subseteq seen \cup (IF first THEN todo ELSE {})

(* A record noted by a later scan was shown, unless it is not eligible.    *)
NotedWasShown ==
  pc # "asleep" /\ ~ first => \A d \in (seen \cap Eligible) \ baseline : notified[d] > 0

(* The banners still owed an explanation: all of a document but the one    *)
(* that got it into the file, or that the scan is just showing.            *)
Showing == IF pc \in {"speaking", "announced"} THEN {Doc} ELSE {}
Owed ==
  UNION {{d} \X {k \in 1..notified[d] : d \in Kept \cup Showing => k # notified[d]} : d \in Documents}
OwedToFaults == AtMost(Owed, faults + kills + tears)

WatchInv ==
  /\ WatchTypeOK /\ Scanning
  /\ NoBacklog /\ PastIsRead
  /\ ReadWasShown /\ NotedWasShown
  /\ OwedToFaults

LEMMA DocumentsAreListed == \A d \in Documents : \E i \in DOMAIN Paths : Paths[i] = d
BY DEF Documents, ToSet

(* The loop has a record in hand as long as one is ahead.                  *)
LEMMA ForemostIsThere ==
  ASSUME NEW tree \in SUBSET Documents, tree # {}
  PROVE  Foremost(tree) \in tree
<1> DEFINE I == {i \in DOMAIN Paths : Paths[i] \in tree}
<1>1. DOMAIN Paths = 1..Len(Paths) /\ Len(Paths) \in Nat
  BY RecordsAssumption
<1>2. I # {} /\ I \in SUBSET Nat
  BY <1>1, DocumentsAreListed
<1>3. PICK i \in I : \A j \in I : i <= j
  BY <1>2, LeastNumber
<1>4. /\ i \in DOMAIN Paths /\ Paths[i] \in tree
      /\ \A j \in DOMAIN Paths : j < i => Paths[j] \notin tree
  BY <1>1, <1>3
<1> QED BY <1>4 DEF Foremost

LEMMA DocIsAhead == WatchTypeOK /\ todo # {} => Doc \in todo /\ Doc \in Documents
BY ForemostIsThere DEF WatchTypeOK, Doc

LEMMA SetsAreNoMarks == \A ids \in SUBSET Documents : ids # Absent /\ ids # Torn
BY WatchAssumption

LEMMA WatchTypeStep == WatchTypeOK /\ Scanning /\ [Next]_vars => WatchTypeOK'
<1> SUFFICES ASSUME WatchTypeOK, Scanning, [Next]_vars PROVE WatchTypeOK'
  OBVIOUS
<1>1. CASE UNCHANGED vars
  BY <1>1 DEF vars, WatchTypeOK
<1>2. CASE \E d \in Documents : Publish(d)
  BY <1>2 DEF Publish, proc, bounds, WatchTypeOK
<1>3. CASE StartScan
  <2>1. seen' \subseteq Documents /\ todo' \subseteq Documents /\ first' \in BOOLEAN
    <3>1. file \notin {Absent, Torn} => file \subseteq Documents
      BY DEF WatchTypeOK
    <3>2. seen' \subseteq Documents
      BY <1>3, <3>1 DEF StartScan
    <3> QED BY <1>3, <3>2 DEF StartScan, PathsOf, IsFirst, WatchTypeOK
  <2> QED BY <1>3, <2>1 DEF StartScan, git, bounds, WatchTypeOK
<1>4. CASE PassOver
  <2>1. Doc \in Documents
    BY <1>4, DocIsAhead DEF PassOver
  <2> QED BY <1>4, <2>1 DEF PassOver, Noted, git, bounds, WatchTypeOK
<1>5. CASE Announce
  <2>1. notified' = [notified EXCEPT ![Doc] = @ + 1] /\ pc' \in {"speaking", "announced"}
    BY <1>5 DEF Announce
  <2>2. notified' \in [Documents -> Nat]
    <3>1. Doc \in Documents
      BY <1>5, DocIsAhead DEF Announce
    <3> QED BY <2>1, <3>1 DEF WatchTypeOK
  <2> QED BY <1>5, <2>1, <2>2 DEF Announce, git, proc, bounds, WatchTypeOK
<1>6. CASE Say
  BY <1>6 DEF Say, git, proc, bounds, WatchTypeOK
<1>7. CASE MarkSeen
  <2>1. Doc \in Documents
    BY <1>7, DocIsAhead DEF MarkSeen, Scanning
  <2>2. seen' \subseteq Documents /\ todo' \subseteq Documents /\ file' = Torn /\ pc' = "marking"
    BY <1>7, <2>1 DEF MarkSeen, Noted, BeginSave, WatchTypeOK
  <2> QED BY <1>7, <2>2 DEF MarkSeen, git, bounds, WatchTypeOK
<1>8. CASE EndScan
  BY <1>8 DEF EndScan, BeginSave, git, proc, bounds, WatchTypeOK
<1>9. CASE Save
  BY <1>9 DEF Save, git, proc, bounds, WatchTypeOK
<1>10. CASE NotifyFails
  BY <1>10 DEF NotifyFails, AfterFailure, git, proc, WatchTypeOK
<1>11. CASE Kill
  BY <1>11 DEF Kill, git, proc, WatchTypeOK
<1>12. CASE RecordRaises
  BY <1>12 DEF RecordRaises, AfterFailure, git, proc, bounds, WatchTypeOK
<1> QED BY <1>1, <1>2, <1>3, <1>4, <1>5, <1>6, <1>7, <1>8, <1>9, <1>10, <1>11, <1>12
        DEF Next, Watch

(* Each step against how a scan relates to the file.                       *)
LEMMA ScanningStep == WatchTypeOK /\ Scanning /\ [Next]_vars => Scanning'
<1> SUFFICES ASSUME WatchTypeOK, Scanning, [Next]_vars PROVE Scanning'
  OBVIOUS
<1>1. CASE UNCHANGED vars \/ (\E d \in Documents : Publish(d))
  BY <1>1 DEF vars, Publish, proc, bounds, Scanning, Kept, Doc
<1>2. CASE StartScan
  <2>1. /\ pc' = "scanning" /\ file' = file /\ file # Torn
        /\ first' = (file = Absent)
        /\ seen' = IF file \in {Absent, Torn} THEN {} ELSE file
    BY <1>2 DEF StartScan, IsFirst, Readable
  <2> QED BY <2>1 DEF Scanning, Kept
<1>3. CASE PassOver
  BY <1>3 DEF PassOver, Noted, Scanning, Kept
<1>4. CASE Announce
  <2>1. /\ pc = "scanning" /\ pc' \in {"speaking", "announced"} /\ todo # {} /\ Takes(Doc)
        /\ notified' = [notified EXCEPT ![Doc] = @ + 1]
        /\ file' = file /\ first' = first /\ seen' = seen /\ todo' = todo
    BY <1>4 DEF Announce, proc
  <2>2. Doc \in Documents /\ Doc' = Doc
    BY <2>1, DocIsAhead DEF Doc
  <2>3. notified'[Doc] > 0
    BY <2>1, <2>2 DEF WatchTypeOK
  <2>4. ~ first /\ Doc \in Eligible
    BY <2>1 DEF Takes
  <2>5. file # Torn /\ Kept \subseteq seen /\ (first <=> file = Absent)
    BY <2>1 DEF Scanning
  <2>6. Kept' \subseteq seen'
    BY <2>1, <2>5 DEF Kept
  <2> QED BY <2>1, <2>2, <2>3, <2>4, <2>5, <2>6 DEF Scanning
<1>5. CASE Say
  BY <1>5 DEF Say, proc, Scanning, Kept, Doc
<1>6. CASE MarkSeen
  BY <1>6 DEF MarkSeen, BeginSave, Scanning
<1>7. CASE EndScan
  BY <1>7 DEF EndScan, BeginSave, proc, Scanning
<1>8. CASE Save
  <2>1. /\ pc \in {"marking", "ending"} /\ file' = seen
        /\ pc' = (IF pc = "marking" THEN "scanning" ELSE "asleep")
        /\ first' = first /\ seen' = seen /\ todo' = todo
    BY <1>8 DEF Save, proc
  <2>2. seen # Absent /\ seen # Torn
    BY SetsAreNoMarks DEF WatchTypeOK
  <2> QED BY <2>1, <2>2 DEF Scanning, Kept
<1>9. CASE RecordRaises \/ NotifyFails \/ Kill
  BY <1>9 DEF RecordRaises, NotifyFails, AfterFailure, Kill, proc, Scanning
<1> QED BY <1>1, <1>2, <1>3, <1>4, <1>5, <1>6, <1>7, <1>8, <1>9 DEF Next, Watch

(* The first scan reads all there is before it first saves.                *)
LEMMA PastStep ==
  WatchTypeOK /\ Scanning /\ PastIsRead /\ NoBacklog /\ [Next]_vars => PastIsRead' /\ NoBacklog'
<1> SUFFICES ASSUME WatchTypeOK, Scanning, PastIsRead, NoBacklog, [Next]_vars
             PROVE  PastIsRead' /\ NoBacklog'
  OBVIOUS
<1>1. CASE UNCHANGED vars \/ (\E d \in Documents : Publish(d))
  BY <1>1 DEF vars, Publish, proc, bounds, PastIsRead, NoBacklog
<1>2. CASE StartScan
  <2>1. /\ file' = file /\ past' = past /\ notified' = notified /\ file # Torn
        /\ first' = (file = Absent) /\ todo' = published
        /\ seen' = IF file \in {Absent, Torn} THEN {} ELSE file
    BY <1>2 DEF StartScan, IsFirst, Readable, PathsOf, git
  <2> QED BY <2>1 DEF PastIsRead, NoBacklog, WatchTypeOK
<1>3. CASE PassOver
  <2>1. /\ file' = file /\ past' = past /\ notified' = notified /\ pc' = pc /\ first' = first
        /\ seen' = seen \cup {Doc} /\ todo' = todo \ {Doc}
    BY <1>3 DEF PassOver, Noted, git
  <2> QED BY <2>1 DEF PastIsRead, NoBacklog
<1>4. CASE Announce
  <2>1. /\ pc = "scanning" /\ todo # {} /\ Takes(Doc) /\ past' = past
        /\ notified' = [notified EXCEPT ![Doc] = @ + 1]
        /\ file' = file /\ first' = first /\ seen' = seen /\ todo' = todo
    BY <1>4 DEF Announce, proc, git
  <2>2. Doc \notin past
    BY <2>1 DEF Takes, PastIsRead
  <2>3. \A d \in past : notified'[d] = 0
    BY <2>1, <2>2 DEF NoBacklog, WatchTypeOK
  <2> QED BY <2>1, <2>3 DEF PastIsRead, NoBacklog
<1>5. CASE Say
  BY <1>5 DEF Say, git, proc, PastIsRead, NoBacklog
<1>6. CASE MarkSeen
  BY <1>6 DEF MarkSeen, BeginSave, Noted, git, PastIsRead, NoBacklog, Scanning
<1>7. CASE EndScan
  BY <1>7 DEF EndScan, BeginSave, git, proc, PastIsRead, NoBacklog
<1>8. CASE Save
  <2>1. /\ pc \in {"marking", "ending"} /\ file' = seen /\ past' = past /\ notified' = notified
        /\ first' = first /\ seen' = seen /\ todo' = todo
    BY <1>8 DEF Save, proc, git
  <2>2. past \subseteq seen
    BY <2>1 DEF PastIsRead, Scanning
  <2> QED BY <2>1, <2>2 DEF PastIsRead, NoBacklog
<1>9. CASE RecordRaises \/ NotifyFails \/ Kill
  BY <1>9 DEF RecordRaises, NotifyFails, AfterFailure, Kill, git, proc, PastIsRead, NoBacklog
<1> QED BY <1>1, <1>2, <1>3, <1>4, <1>5, <1>6, <1>7, <1>8, <1>9 DEF Next, Watch

(* A record is noted after its banner.                                     *)
LEMMA ShownStep ==
  WatchTypeOK /\ Scanning /\ ReadWasShown /\ NotedWasShown /\ [Next]_vars
    => ReadWasShown' /\ NotedWasShown'
<1> SUFFICES ASSUME WatchTypeOK, Scanning, ReadWasShown, NotedWasShown, [Next]_vars
             PROVE  ReadWasShown' /\ NotedWasShown'
  OBVIOUS
<1>1. CASE UNCHANGED vars \/ (\E d \in Documents : Publish(d))
  BY <1>1 DEF vars, Publish, proc, bounds, ReadWasShown, NotedWasShown
<1>2. CASE StartScan
  <2>1. /\ file' = file /\ baseline' = baseline /\ notified' = notified /\ file # Torn
        /\ first' = (file = Absent)
        /\ seen' = IF file \in {Absent, Torn} THEN {} ELSE file
    BY <1>2 DEF StartScan, IsFirst, Readable
  <2> QED BY <2>1 DEF ReadWasShown, NotedWasShown
<1>3. CASE PassOver
  <2>1. /\ file' = file /\ baseline' = baseline /\ notified' = notified
        /\ pc' = pc /\ pc = "scanning" /\ first' = first
        /\ seen' = seen \cup {Doc} /\ ~ Takes(Doc)
    BY <1>3 DEF PassOver, Noted
  <2> QED BY <2>1 DEF ReadWasShown, NotedWasShown, Takes
<1>4. CASE Announce
  <2>1. /\ notified' = [notified EXCEPT ![Doc] = @ + 1] /\ baseline' = baseline
        /\ file' = file /\ first' = first /\ seen' = seen /\ pc = "scanning"
    BY <1>4 DEF Announce, proc
  <2>2. \A d \in Documents : notified[d] > 0 => notified'[d] > 0
    BY <2>1 DEF WatchTypeOK
  <2>3. seen \subseteq Documents /\ (file \notin {Absent, Torn} => file \subseteq Documents)
    BY DEF WatchTypeOK
  <2> QED BY <2>1, <2>2, <2>3 DEF ReadWasShown, NotedWasShown
<1>5. CASE Say
  BY <1>5 DEF Say, proc, ReadWasShown, NotedWasShown
<1>6. CASE MarkSeen
  BY <1>6 DEF MarkSeen, BeginSave, Noted, ReadWasShown, NotedWasShown, Scanning
<1>7. CASE EndScan
  BY <1>7 DEF EndScan, BeginSave, proc, ReadWasShown, NotedWasShown
<1>8. CASE Save
  <2>1. /\ pc \in {"marking", "ending"} /\ file' = seen /\ notified' = notified
        /\ baseline' = (IF first THEN seen ELSE baseline)
        /\ first' = first /\ seen' = seen
    BY <1>8 DEF Save, proc
  <2> QED BY <2>1 DEF ReadWasShown, NotedWasShown
<1>9. CASE RecordRaises \/ NotifyFails \/ Kill
  BY <1>9 DEF RecordRaises, NotifyFails, AfterFailure, Kill, proc, ReadWasShown, NotedWasShown
<1> QED BY <1>1, <1>2, <1>3, <1>4, <1>5, <1>6, <1>7, <1>8, <1>9 DEF Next, Watch

(* What is owed only grows where a banner is given up before its record is *)
(* noted, and then by that banner.                                         *)
LEMMA OwedLess ==
  ASSUME notified' = notified, Kept \cup Showing \subseteq Kept' \cup Showing'
  PROVE  Owed' \subseteq Owed
<1>1. ASSUME NEW d \in Documents, NEW k \in 1..notified[d],
             d \in Kept' \cup Showing' => k # notified[d]
      PROVE  <<d, k>> \in Owed
  BY <1>1 DEF Owed
<1> QED BY <1>1 DEF Owed

LEMMA OwedOneMore ==
  ASSUME notified' = notified, NEW e, Kept \cup Showing \subseteq Kept' \cup Showing' \cup {e}
  PROVE  Owed' \subseteq Owed \cup {<<e, notified[e]>>}
<1>1. ASSUME NEW d \in Documents, NEW k \in 1..notified[d],
             d \in Kept' \cup Showing' => k # notified[d]
      PROVE  <<d, k>> \in Owed \cup {<<e, notified[e]>>}
  <2>1. CASE d = e /\ k = notified[e]
    BY <2>1
  <2>2. CASE ~ (d = e /\ k = notified[e])
    <3>1. d \in Kept \cup Showing => k # notified[d]
      BY <1>1, <2>2
    <3> QED BY <3>1 DEF Owed
  <2> QED BY <2>1, <2>2
<1> QED BY <1>1 DEF Owed

(* A new banner is the last one; those before it were owed already.        *)
LEMMA OwedByBanner ==
  ASSUME NEW e \in Documents, notified \in [Documents -> Nat],
         notified' = [notified EXCEPT ![e] = @ + 1],
         e \notin Kept \cup Showing, Kept' = Kept, Showing' = {e}, Showing = {}
  PROVE  Owed' \subseteq Owed
<1>1. ASSUME NEW d \in Documents, NEW k \in 1..notified'[d],
             d \in Kept' \cup Showing' => k # notified'[d]
      PROVE  <<d, k>> \in Owed
  <2>1. CASE d = e
    <3>1. k \in 1..notified[d]
      BY <1>1, <2>1
    <3> QED BY <2>1, <3>1 DEF Owed
  <2>2. CASE d # e
    <3>1. notified'[d] = notified[d]
      BY <2>2
    <3> QED BY <1>1, <2>2, <3>1 DEF Owed
  <2> QED BY <2>1, <2>2
<1> QED BY <1>1 DEF Owed

LEMMA OwedStep == WatchTypeOK /\ Scanning /\ OwedToFaults /\ [Next]_vars => OwedToFaults'
<1> SUFFICES ASSUME WatchTypeOK, Scanning, OwedToFaults, [Next]_vars PROVE OwedToFaults'
  OBVIOUS
<1> DEFINE n == faults + kills + tears
<1>0. n \in Nat /\ AtMost(Owed, n)
  BY DEF WatchTypeOK, OwedToFaults
<1>1. ASSUME UNCHANGED bounds, Owed' \subseteq Owed
      PROVE  OwedToFaults'
  <2>1. n' = n
    BY <1>1 DEF bounds
  <2>2. AtMost(Owed', n)
    BY <1>0, <1>1, FewerIsAtMost
  <2> QED BY <2>1, <2>2 DEF OwedToFaults
<1>2. ASSUME n' = n + 1, NEW e, Owed' \subseteq Owed \cup {e}
      PROVE  OwedToFaults'
  <2> HIDE DEF n
  <2>1. n + 1 \in Nat /\ n < n + 1
    BY <1>0
  <2>2. AtMost(Owed', n + 1)
    BY <1>0, <1>2, <2>1, OneMoreIsAtMost
  <2> QED BY <1>2, <2>2 DEF OwedToFaults, n
<1>3. CASE UNCHANGED vars \/ (\E d \in Documents : Publish(d))
  BY <1>1, <1>3, OwedLess DEF vars, Publish, proc, bounds, Kept, Showing, Doc
<1>4. CASE StartScan
  <2>1. /\ pc = "asleep" /\ pc' = "scanning" /\ file' = file /\ file # Torn
        /\ notified' = notified /\ UNCHANGED bounds
    BY <1>4 DEF StartScan, Readable
  <2>2. Kept' = Kept /\ Showing = {}
    BY <2>1 DEF Kept, Showing
  <2> QED BY <1>1, <2>1, <2>2, OwedLess
<1>5. CASE PassOver
  <2>1. /\ pc = "scanning" /\ pc' = pc /\ file' = file /\ file # Torn
        /\ notified' = notified /\ UNCHANGED bounds
    BY <1>5 DEF PassOver, Scanning
  <2>2. Kept' = Kept /\ Showing = {}
    BY <2>1 DEF Kept, Showing
  <2> QED BY <1>1, <2>1, <2>2, OwedLess
<1>6. CASE Announce
  <2>1. /\ pc = "scanning" /\ pc' \in {"speaking", "announced"} /\ todo # {} /\ Takes(Doc)
        /\ notified' = [notified EXCEPT ![Doc] = @ + 1]
        /\ file' = file /\ file # Torn /\ Kept \subseteq seen
        /\ UNCHANGED bounds /\ todo' = todo
    BY <1>6 DEF Announce, proc, Scanning
  <2>2. Doc \in Documents /\ Doc' = Doc
    BY <2>1, DocIsAhead DEF Doc
  <2>3. Kept' = Kept /\ Showing = {} /\ Showing' = {Doc} /\ Doc \notin Kept \cup Showing
    BY <2>1, <2>2 DEF Kept, Showing, Takes
  <2>4. notified \in [Documents -> Nat]
    BY DEF WatchTypeOK
  <2>5. Owed' \subseteq Owed
    BY <2>1, <2>2, <2>3, <2>4, OwedByBanner
  <2> QED BY <1>1, <2>1, <2>5
<1>7. CASE Say
  <2>1. /\ pc = "speaking" /\ pc' = "announced" /\ file' = file /\ file # Torn
        /\ notified' = notified /\ UNCHANGED bounds /\ todo' = todo
    BY <1>7 DEF Say, proc, Scanning
  <2>2. Kept' = Kept /\ Showing' = Showing
    BY <2>1 DEF Kept, Showing, Doc
  <2> QED BY <1>1, <2>1, <2>2, OwedLess
<1>8. CASE MarkSeen
  <2>1. /\ pc = "announced" /\ pc' = "marking" /\ file' = Torn /\ file # Torn
        /\ seen' = seen \cup {Doc} /\ Kept \subseteq seen
        /\ notified' = notified /\ UNCHANGED bounds
    BY <1>8 DEF MarkSeen, BeginSave, Noted, Scanning
  <2>2. Kept' = seen \cup {Doc} /\ Showing = {Doc}
    BY <2>1, WatchAssumption DEF Kept, Showing
  <2> QED BY <1>1, <2>1, <2>2, OwedLess
<1>9. CASE EndScan
  <2>1. /\ pc = "scanning" /\ pc' = "ending" /\ file' = Torn
        /\ seen' = seen /\ Kept \subseteq seen
        /\ notified' = notified /\ UNCHANGED bounds
    BY <1>9 DEF EndScan, BeginSave, proc, Scanning
  <2>2. Kept' = seen /\ Showing = {}
    BY <2>1, WatchAssumption DEF Kept, Showing
  <2> QED BY <1>1, <2>1, <2>2, OwedLess
<1>10. CASE Save
  <2>1. /\ pc \in {"marking", "ending"} /\ file' = seen /\ file = Torn
        /\ notified' = notified /\ UNCHANGED bounds
    BY <1>10 DEF Save, Scanning
  <2>2. seen # Absent /\ seen # Torn
    BY SetsAreNoMarks DEF WatchTypeOK
  <2>3. Kept' = seen /\ Kept = seen /\ Showing = {}
    BY <2>1, <2>2, WatchAssumption DEF Kept, Showing
  <2> QED BY <1>1, <2>1, <2>3, OwedLess
<1>11. CASE NotifyFails
  <2>1. /\ pc \in {"scanning", "speaking"} /\ file' = file /\ file # Torn
        /\ notified' = notified /\ n' = n + 1
    BY <1>11 DEF NotifyFails, Scanning, WatchTypeOK
  <2>2. Kept' = Kept /\ Showing \subseteq {Doc}
    BY <2>1 DEF Kept, Showing
  <2>3. Owed' \subseteq Owed \cup {<<Doc, notified[Doc]>>}
    BY <2>1, <2>2, OwedOneMore
  <2> QED BY <1>2, <2>1, <2>3
<1>12. CASE Kill
  <2>1. /\ pc' = "asleep" /\ file' = file /\ seen' = seen /\ notified' = notified /\ n' = n + 1
    BY <1>12 DEF Kill, proc, WatchTypeOK
  <2>2. Kept \subseteq Kept' /\ Showing \subseteq {Doc}
    BY <2>1 DEF Kept, Showing, WatchTypeOK
  <2>3. Owed' \subseteq Owed \cup {<<Doc, notified[Doc]>>}
    BY <2>1, <2>2, OwedOneMore
  <2> QED BY <1>2, <2>1, <2>3
<1>13. CASE RecordRaises
  <2>1. /\ pc = "scanning" /\ pc' = "asleep" /\ file' = file /\ file # Torn
        /\ notified' = notified /\ UNCHANGED bounds
    BY <1>13 DEF RecordRaises, AfterFailure, Scanning
  <2>2. Kept' = Kept /\ Showing = {}
    BY <2>1 DEF Kept, Showing
  <2> QED BY <1>1, <2>1, <2>2, OwedLess
<1> QED BY <1>3, <1>4, <1>5, <1>6, <1>7, <1>8, <1>9, <1>10, <1>11, <1>12, <1>13 DEF Next, Watch

LEMMA WatchInvariance == Spec => []WatchInv
<1>1. Init => WatchInv
  <2> SUFFICES ASSUME Init PROVE WatchInv
    OBVIOUS
  <2>1. WatchTypeOK
    BY DEF Init, WatchTypeOK
  <2>2. Scanning /\ NoBacklog /\ PastIsRead /\ ReadWasShown /\ NotedWasShown
    BY DEF Init, Scanning, NoBacklog, PastIsRead, ReadWasShown, NotedWasShown
  <2>3. \A d \in Documents : 1..notified[d] = {}
    BY DEF Init
  <2>4. Owed = {}
    BY <2>3 DEF Owed
  <2>5. AtMost({}, 0) /\ faults + kills + tears = 0
    BY NoneIsAtMost DEF Init
  <2> QED BY <2>1, <2>2, <2>4, <2>5 DEF WatchInv, OwedToFaults
<1>2. WatchInv /\ [Next]_vars => WatchInv'
  BY WatchTypeStep, ScanningStep, PastStep, ShownStep, OwedStep DEF WatchInv
<1> QED BY <1>1, <1>2, PTL DEF Spec

(* A record published before the watcher was first started never causes a  *)
(* banner, however many first scans are killed.                            *)
THEOREM BacklogIsSilent == Spec => []NoBacklog
<1>1. WatchInv => NoBacklog
  BY DEF WatchInv
<1> QED BY <1>1, WatchInvariance, PTL

(* What seen.json lists as read was shown, unless the first scan took it   *)
(* as read or it is not eligible: a failed banner is not marked as read.   *)
THEOREM ReadRecordsWereShown == Spec => []ReadWasShown
<1>1. WatchInv => ReadWasShown
  BY DEF WatchInv
<1> QED BY <1>1, WatchInvariance, PTL

(* Every banner too many is paid for by a failure or a kill of its own.    *)
THEOREM RepeatsAreAccounted == Spec => []OneRepeatPerFault
<1>1. WatchInv => OneRepeatPerFault
  <2> SUFFICES ASSUME WatchInv PROVE Cardinality(Repeats) <= faults + kills + tears
    BY DEF OneRepeatPerFault
  <2>1. Repeats \subseteq Owed
    BY DEF Repeats, Owed
  <2>2. faults + kills + tears \in Nat /\ AtMost(Owed, faults + kills + tears)
    BY DEF WatchInv, WatchTypeOK, OwedToFaults
  <2>3. AtMost(Repeats, faults + kills + tears)
    BY <2>1, <2>2, FewerIsAtMost
  <2> QED BY <2>3 DEF AtMost
<1> QED BY <1>1, WatchInvariance, PTL

-----------------------------------------------------------------------------
(* The places a document is kept in.                                       *)
Lists == {<<>>, <<"record", "text">>, <<"text">>,
          <<"record", "text", "pdf">>, <<"text", "pdf">>, <<"pdf">>}

Desk == [doc : Documents \cup {None}, version : Versions \cup {None},
         listed : SUBSET Files, todo : Lists, files : [Files -> Versions \cup {None, Torn}]]

Renderings == UNION {[D -> Versions] : D \in SUBSET Documents}

PlacesTypeOK ==
  /\ records \in [Documents -> Versions \cup {None}]
  /\ texts \in [Documents -> Versions \cup {None}]
  /\ pdfs \in [Documents -> Versions \cup {None}]
  /\ rows \in [Documents -> Versions \cup {None}]
  /\ edited \subseteq Documents /\ desk \in Desk
  /\ render \in [at : {"idle", "pull", "push"}, made : Renderings, current : BOOLEAN]
  /\ import # None => import \in [Documents -> Versions \cup {None}]

(* What publish lists is written or about to be, in one version.           *)
DeskInOrder ==
  /\ desk.listed = {} => desk.todo = <<>>
  /\ desk.listed # {} =>
       /\ desk.doc \in Documents /\ desk.version \in Versions
       /\ {"record", "text"} \subseteq desk.listed
       /\ \A f \in desk.listed : \/ desk.files[f] = desk.version
                                 \/ desk.files[f] = None /\ f \in ToSet(desk.todo)

(* What a job has read of a record is what the record still says, unless   *)
(* it was changed on main; and a job that has pulled finds main as it was, *)
(* or its push is refused.                                                 *)
ReadsLast ==
  /\ \A d \in DOMAIN render.made :
       records[d] # None /\ (d \notin edited => render.made[d] = records[d])
  /\ render.current => Rebases
  /\ import # None => \A d \in Documents : import[d] # None =>
       records[d] # None /\ (d \notin edited => import[d] = records[d])

PlacesInv == PlacesTypeOK /\ DeskInOrder /\ ReadsLast /\ OneVersion

LEMMA PairToSet == \A x, y : ToSet(<<x, y>>) = {x, y}
BY DEF ToSet

LEMMA TripleToSet == \A x, y, z : ToSet(<<x, y, z>>) = {x, y, z}
BY DEF ToSet

LEMMA ListsShape ==
  ASSUME NEW l \in Lists, l # <<>>
  PROVE  /\ Tail(l) \in Lists /\ Head(l) \in Files
         /\ ToSet(l) = {Head(l)} \cup ToSet(Tail(l)) /\ Head(l) \notin ToSet(Tail(l))
<1>1. ToSet(<<>>) = {}
  BY DEF ToSet
<1>2. \A x : ToSet(<<x>>) = {x}
  BY DEF ToSet
<1>5. CASE l = <<"record", "text">>
  <2>1. Tail(l) = <<"text">> /\ Head(l) = "record"
    BY <1>5
  <2> QED BY <1>2, PairToSet, <1>5, <2>1 DEF Lists, Files
<1>6. CASE l = <<"text">>
  <2>1. Tail(l) = <<>> /\ Head(l) = "text"
    BY <1>6
  <2> QED BY <1>1, <1>2, <1>6, <2>1 DEF Lists, Files
<1>9. CASE l = <<"pdf">>
  <2>1. Tail(l) = <<>> /\ Head(l) = "pdf"
    BY <1>9
  <2> QED BY <1>1, <1>2, <1>9, <2>1 DEF Lists, Files
<1>7. CASE l = <<"record", "text", "pdf">>
  <2>1. Tail(l) = <<"text", "pdf">> /\ Head(l) = "record"
    BY <1>7
  <2> QED BY PairToSet, TripleToSet, <1>7, <2>1 DEF Lists, Files
<1>8. CASE l = <<"text", "pdf">>
  <2>1. Tail(l) = <<"pdf">> /\ Head(l) = "text"
    BY <1>8
  <2> QED BY <1>2, PairToSet, <1>8, <2>1 DEF Lists, Files
<1> QED BY <1>5, <1>6, <1>7, <1>8, <1>9 DEF Lists

(* What publish is about to write: record and text, and the PDF if there   *)
(* is one.                                                                 *)
LEMMA PathsToWrite ==
  ASSUME NEW withPdf \in BOOLEAN, NEW paths,
         paths = IF withPdf THEN <<"record", "text", "pdf">> ELSE <<"record", "text">>
  PROVE  /\ paths \in Lists /\ paths # <<>>
         /\ ToSet(paths) \subseteq Files /\ {"record", "text"} \subseteq ToSet(paths)
<1>1. CASE withPdf
  <2>1. paths = <<"record", "text", "pdf">>
    BY <1>1
  <2>2. ToSet(paths) = {"record", "text", "pdf"}
    BY <2>1, TripleToSet
  <2> QED BY <2>1, <2>2 DEF Lists, Files
<1>2. CASE ~ withPdf
  <2>1. paths = <<"record", "text">>
    BY <1>2
  <2>2. ToSet(paths) = {"record", "text"}
    BY <2>1, PairToSet
  <2> QED BY <2>1, <2>2 DEF Lists, Files
<1> QED BY <1>1, <1>2

LEMMA EmptyDeskIsInOrder ==
  EmptyDesk \in Desk /\ EmptyDesk.listed = {} /\ EmptyDesk.todo = <<>>
BY DEF EmptyDesk, Desk, Lists

LEMMA AuthorKeepsDesk ==
  ASSUME PlacesTypeOK, DeskInOrder, Author
  PROVE  desk' \in Desk /\ DeskInOrder'
<1>0. desk \in Desk
  BY DEF PlacesTypeOK
<1>1. ASSUME NEW d \in Documents, NEW v \in Versions, NEW withPdf \in BOOLEAN,
             StartPublish(d, v, withPdf)
      PROVE  desk' \in Desk /\ DeskInOrder'
  <2> DEFINE paths == IF withPdf THEN <<"record", "text", "pdf">> ELSE <<"record", "text">>
  <2>1. /\ \A f \in ToSet(paths) : ~ Clashes(desk.files[f], v)
        /\ desk' = [desk EXCEPT !.doc = d, !.version = v, !.listed = ToSet(paths), !.todo = paths]
    BY <1>1 DEF StartPublish
  <2>2. /\ paths \in Lists /\ paths # <<>>
        /\ ToSet(paths) \subseteq Files /\ {"record", "text"} \subseteq ToSet(paths)
    BY PathsToWrite
  <2> HIDE DEF paths
  <2>3. /\ desk'.doc = d /\ desk'.version = v /\ desk'.listed = ToSet(paths)
        /\ desk'.todo = paths /\ desk'.files = desk.files /\ desk' \in Desk
    BY <1>0, <2>1, <2>2 DEF Desk
  <2>4. \A f \in ToSet(paths) : desk.files[f] \in {None, v}
    BY <2>1 DEF Clashes
  <2> QED BY <2>2, <2>3, <2>4 DEF DeskInOrder
<1>2. CASE WriteNext
  <2> DEFINE h == Head(desk.todo)
  <2>1. desk.todo # <<>> /\ desk.listed # {} /\ desk.todo \in Lists
    BY <1>0, <1>2 DEF WriteNext, DeskInOrder, Desk
  <2>2. /\ Tail(desk.todo) \in Lists /\ h \in Files
        /\ ToSet(desk.todo) = {h} \cup ToSet(Tail(desk.todo))
    BY <2>1, ListsShape
  <2> HIDE DEF h
  <2>3. desk' = [desk EXCEPT !.todo = Tail(@),
                             !.files[h] = IF @ = None THEN desk.version ELSE @]
    BY <1>2 DEF WriteNext, h
  <2>4. /\ desk'.doc = desk.doc /\ desk'.version = desk.version /\ desk'.listed = desk.listed
        /\ desk'.todo = Tail(desk.todo)
        /\ desk'.files = [desk.files EXCEPT ![h] = IF @ = None THEN desk.version ELSE @]
    BY <1>0, <2>3 DEF Desk
  <2>5. \A f \in Files : desk'.files[f] = IF f = h /\ desk.files[f] = None THEN desk.version
                                          ELSE desk.files[f]
    BY <1>0, <2>2, <2>4 DEF Desk
  <2>6. desk' \in Desk
    <3>1. desk'.files \in [Files -> Versions \cup {None, Torn}]
      BY <1>0, <2>4 DEF Desk
    <3> QED BY <1>0, <2>2, <2>3, <2>4, <3>1 DEF Desk
  <2>7. desk.listed \subseteq Files
    BY <1>0 DEF Desk
  <2> QED BY <2>1, <2>2, <2>4, <2>5, <2>6, <2>7 DEF DeskInOrder
<1>3. CASE KillPublish
  <2>1. PICK left \in {desk.files[Head(desk.todo)], Torn} :
          desk' = [desk EXCEPT !.listed = {}, !.todo = <<>>, !.version = None,
                               !.files[Head(desk.todo)] = left]
    BY <1>3 DEF KillPublish
  <2>2. Head(desk.todo) \in Files
    BY <1>0, <1>3, ListsShape DEF KillPublish, Desk
  <2>3. left \in Versions \cup {None, Torn}
    BY <1>0, <2>2 DEF Desk
  <2>4. /\ desk'.listed = {} /\ desk'.todo = <<>> /\ desk'.version = None /\ desk'.doc = desk.doc
        /\ desk'.files = [desk.files EXCEPT ![Head(desk.todo)] = left]
    BY <1>0, <2>1 DEF Desk
  <2>5. desk'.files \in [Files -> Versions \cup {None, Torn}]
    BY <1>0, <2>3, <2>4 DEF Desk
  <2>6. desk' \in Desk
    BY <1>0, <2>1, <2>4, <2>5 DEF Desk, Lists
  <2> QED BY <2>4, <2>6 DEF DeskInOrder
<1>4. CASE ClearDesk \/ DropDesk
  BY <1>4, EmptyDeskIsInOrder DEF ClearDesk, DropDesk, DeskInOrder
<1> QED BY <1>1, <1>2, <1>3, <1>4 DEF Author

(* A push of records and files: nothing there is replaced, except that a   *)
(* changed record is counted as edited, and what lands of a document that  *)
(* is not is one version.                                                  *)
LEMMA LandingKeepsPlaces ==
  ASSUME PlacesInv, desk' \in Desk, DeskInOrder',
         NEW d \in Documents, NEW record \in Versions, NEW text \in Versions \cup {None},
         NEW pdf \in Versions \cup {None}, Landing(d, record, text, pdf),
         rows' = rows, import' = import, edited \subseteq edited', edited' \subseteq Documents,
         records[d] \notin {None, record} => d \in edited',
         d \notin edited' => {text, pdf} \subseteq {None, record}
  PROVE  PlacesInv'
<1>1. /\ records' = [records EXCEPT ![d] = record]
      /\ texts' = [texts EXCEPT ![d] = text]
      /\ pdfs' = [pdfs EXCEPT ![d] = pdf]
      /\ render' = IF main' = main THEN render ELSE Overtaken
  BY DEF Landing
<1>2. /\ PlacesTypeOK /\ ReadsLast /\ OneVersion
      /\ None \notin Versions /\ Torn \notin Versions /\ None # Torn
  BY ArtifactsAssumption DEF PlacesInv
<1>3. /\ records' \in [Documents -> Versions \cup {None}]
      /\ texts' \in [Documents -> Versions \cup {None}]
      /\ pdfs' \in [Documents -> Versions \cup {None}]
  BY <1>1, <1>2 DEF PlacesTypeOK
<1>4. /\ \A e \in Documents : e # d =>
           records'[e] = records[e] /\ texts'[e] = texts[e] /\ pdfs'[e] = pdfs[e]
      /\ records'[d] = record /\ texts'[d] = text /\ pdfs'[d] = pdf
  BY <1>1, <1>2 DEF PlacesTypeOK
<1>5. /\ render'.made = render.made /\ (render'.current => render.current /\ main' = main)
      /\ render' \in [at : {"idle", "pull", "push"}, made : Renderings, current : BOOLEAN]
  <2>1. render \in [at : {"idle", "pull", "push"}, made : Renderings, current : BOOLEAN]
    BY <1>2 DEF PlacesTypeOK
  <2> QED BY <1>1, <2>1 DEF Overtaken
<1>6. PlacesTypeOK'
  <2>1. rows' \in [Documents -> Versions \cup {None}]
    BY <1>2 DEF PlacesTypeOK
  <2>2. import' # None => import' \in [Documents -> Versions \cup {None}]
    BY <1>2 DEF PlacesTypeOK
  <2> QED BY <1>3, <1>5, <2>1, <2>2 DEF PlacesTypeOK
<1>7. OneVersion'
  <2> SUFFICES ASSUME NEW e \in Documents
               PROVE  /\ Torn \notin {records'[e], texts'[e], pdfs'[e]}
                      /\ e \notin edited' =>
                           /\ texts'[e] # None => texts'[e] = records'[e]
                           /\ pdfs'[e] # None => pdfs'[e] = records'[e]
                           /\ rows'[e] # None => rows'[e] = records'[e]
    BY DEF OneVersion
  <2>1. CASE e = d
    BY <1>2, <1>4, <2>1 DEF OneVersion
  <2>2. CASE e # d
    BY <1>2, <1>4, <2>2 DEF OneVersion
  <2> QED BY <2>1, <2>2
<1>8. ReadsLast'
  <2>1. \A e \in Documents : records[e] # None =>
          /\ records'[e] # None
          /\ e \notin edited' => records'[e] = records[e]
    BY <1>2, <1>4
  <2>2. DOMAIN render.made \subseteq Documents
    <3>1. render.made \in Renderings
      BY <1>2 DEF PlacesTypeOK
    <3> QED BY <3>1 DEF Renderings
  <2>3. \A e \in DOMAIN render'.made :
          records'[e] # None /\ (e \notin edited' => render'.made[e] = records'[e])
    BY <1>2, <1>5, <2>1, <2>2 DEF ReadsLast
  <2>4. render'.current => Rebases'
    BY <1>2, <1>5 DEF ReadsLast, Rebases, Merges, main
  <2>5. import' # None => \A e \in Documents : import'[e] # None =>
          records'[e] # None /\ (e \notin edited' => import'[e] = records'[e])
    BY <1>2, <2>1 DEF ReadsLast
  <2> QED BY <2>3, <2>4, <2>5 DEF ReadsLast
<1> QED BY <1>6, <1>7, <1>8 DEF PlacesInv

(* What the author sends is one version, and what main has of it is the    *)
(* same.                                                                   *)
LEMMA SentIsOneVersion ==
  ASSUME PlacesInv, Lands
  PROVE  /\ desk.doc \in Documents /\ desk.version \in Versions
         /\ Sent("record") = desk.version /\ Sent("text") = desk.version
         /\ Sent("pdf") \in {desk.version, pdfs[desk.doc]}
         /\ records[desk.doc] \in {None, desk.version}
         /\ texts[desk.doc] \in {None, desk.version}
         /\ pdfs[desk.doc] \in {None, Sent("pdf")}
<1>1. /\ desk.listed # {} /\ desk.todo = <<>> /\ desk \in Desk /\ DeskInOrder
      /\ \A f \in desk.listed : Merges(OnMain(f)[desk.doc], desk.files[f])
  BY DEF Lands, Published, Idle, PlacesInv, PlacesTypeOK
<1>2. ToSet(desk.todo) = {}
  BY <1>1 DEF ToSet
<1>3. /\ desk.doc \in Documents /\ desk.version \in Versions
      /\ "record" \in desk.listed /\ "text" \in desk.listed
      /\ \A f \in desk.listed : desk.files[f] = desk.version
  BY <1>1, <1>2 DEF DeskInOrder
<1>4. OnMain("record") = records /\ OnMain("text") = texts /\ OnMain("pdf") = pdfs
  BY DEF OnMain
<1>5. /\ \A f \in desk.listed : Sent(f) = desk.version
      /\ "pdf" \notin desk.listed => Sent("pdf") = pdfs[desk.doc]
  BY <1>3, <1>4 DEF Sent
<1>6. \A f \in desk.listed : OnMain(f)[desk.doc] \in {None, desk.version}
  BY <1>1, <1>3 DEF Merges
<1>7. pdfs[desk.doc] \in {None, Sent("pdf")}
  BY <1>4, <1>5, <1>6
<1>8. Sent("pdf") \in {desk.version, pdfs[desk.doc]}
  BY <1>5
<1>9. records[desk.doc] \in {None, desk.version} /\ texts[desk.doc] \in {None, desk.version}
  BY <1>3, <1>4, <1>6
<1> QED BY <1>3, <1>5, <1>7, <1>8, <1>9

LEMMA NothingMade == <<>> \in Renderings /\ DOMAIN <<>> = {}
<1>1. <<>> \in [{} -> Versions]
  OBVIOUS
<1> QED BY <1>1 DEF Renderings

(* Nothing of a document is read or kept anywhere but as what its record   *)
(* says, so a job or an import that ends adds no second version.           *)
LEMMA RenderingKeepsPlaces ==
  ASSUME PlacesInv, StartRender \/ PullRender \/ PushRender \/ LoseRender
  PROVE  PlacesInv'
<1>1. /\ PlacesTypeOK /\ DeskInOrder /\ ReadsLast /\ OneVersion
      /\ None \notin Versions /\ Torn \notin Versions /\ None # Torn
  BY ArtifactsAssumption DEF PlacesInv
<1>2. /\ records' = records /\ pdfs' = pdfs /\ rows' = rows /\ edited' = edited
      /\ desk' = desk /\ import' = import
  BY DEF StartRender, PullRender, PushRender, LoseRender, main
<1>3. /\ Resting.made = <<>> /\ Resting.current = FALSE /\ Resting.at = "idle"
      /\ Resting \in [at : {"idle", "pull", "push"}, made : Renderings, current : BOOLEAN]
  BY NothingMade DEF Resting
<1>4. render \in [at : {"idle", "pull", "push"}, made : Renderings, current : BOOLEAN]
  BY <1>1 DEF PlacesTypeOK
<1>5. DeskInOrder'
  BY <1>1, <1>2 DEF DeskInOrder
<1>6. ASSUME texts' = texts,
             render' \in [at : {"idle", "pull", "push"}, made : Renderings, current : BOOLEAN],
             \A d \in DOMAIN render'.made :
               \/ records[d] # None /\ render'.made[d] = records[d]
               \/ d \in DOMAIN render.made /\ render'.made[d] = render.made[d],
             render'.current => Rebases'
      PROVE  PlacesInv'
  <2>1. PlacesTypeOK'
    BY <1>1, <1>2, <1>6 DEF PlacesTypeOK
  <2>2. OneVersion'
    BY <1>1, <1>2, <1>6 DEF OneVersion
  <2>3. ReadsLast'
    BY <1>1, <1>2, <1>6 DEF ReadsLast
  <2> QED BY <1>5, <2>1, <2>2, <2>3 DEF PlacesInv
<1>7. CASE StartRender
  <2> DEFINE M == Made(due)
  <2>1. texts' = texts /\ (render' = Resting \/ render' = [at |-> "pull", made |-> M, current |-> FALSE])
    BY <1>7 DEF StartRender, main
  <2>2. /\ M \in Renderings
        /\ \A d \in DOMAIN M : records[d] # None /\ M[d] = records[d]
    <3>1. DOMAIN M \in SUBSET Documents /\ M \in [DOMAIN M -> Versions]
      BY <1>1 DEF M, Made, PlacesTypeOK
    <3> QED BY <3>1 DEF M, Made, Renderings
  <2>3. CASE render' = Resting
    BY <1>3, <1>6, <2>1, <2>3, NothingMade
  <2>4. CASE render' = [at |-> "pull", made |-> M, current |-> FALSE]
    <3>1. /\ render'.made = M /\ render'.current = FALSE
          /\ render' \in [at : {"idle", "pull", "push"}, made : Renderings, current : BOOLEAN]
      BY <2>2, <2>4
    <3>2. \A d \in DOMAIN render'.made : records[d] # None /\ render'.made[d] = records[d]
      <4> HIDE DEF M
      <4> QED BY <2>2, <3>1
    <3>3. render'.current => Rebases'
      BY <3>1
    <3>4. \A d \in DOMAIN render'.made :
               \/ records[d] # None /\ render'.made[d] = records[d]
               \/ d \in DOMAIN render.made /\ render'.made[d] = render.made[d]
      BY <3>2
    <3> QED BY <1>6, <2>1, <3>1, <3>3, <3>4
  <2> QED BY <2>1, <2>3, <2>4
<1>8. CASE PullRender
  <2>1. /\ texts' = texts
        /\ render' = IF Rebases THEN [render EXCEPT !.at = "push", !.current = TRUE] ELSE Resting
    BY <1>8 DEF PullRender, main
  <2>2. CASE Rebases
    <3>1. /\ render'.made = render.made /\ render'.current = TRUE
          /\ render' \in [at : {"idle", "pull", "push"}, made : Renderings, current : BOOLEAN]
      BY <1>4, <2>1, <2>2
    <3>2. Rebases'
      BY <2>1, <2>2, <3>1 DEF Rebases, Merges
    <3> QED BY <1>6, <2>1, <3>1, <3>2
  <2>3. CASE ~ Rebases
    BY <1>3, <1>6, <2>1, <2>3, NothingMade
  <2> QED BY <2>2, <2>3
<1>9. CASE PushRender
  <2>1. CASE render.current
    <3>1. /\ texts' = [d \in Documents |-> IF d \in DOMAIN render.made THEN render.made[d] ELSE texts[d]]
          /\ render' = Resting
      BY <1>9, <2>1 DEF PushRender
    <3>2. \A d \in DOMAIN render.made : /\ render.made[d] \in Versions
                                        /\ d \notin edited => render.made[d] = records[d]
      BY <1>1, <1>4 DEF ReadsLast, Renderings
    <3>3. texts' \in [Documents -> Versions \cup {None}]
      BY <1>1, <3>1, <3>2 DEF PlacesTypeOK
    <3>4. PlacesTypeOK'
      BY <1>1, <1>2, <1>3, <3>1, <3>3 DEF PlacesTypeOK
    <3>5. OneVersion'
      BY <1>1, <1>2, <3>1, <3>2 DEF OneVersion
    <3>6. ReadsLast'
      BY <1>1, <1>2, <1>3, <3>1, NothingMade DEF ReadsLast
    <3> QED BY <1>5, <3>4, <3>5, <3>6 DEF PlacesInv
  <2>2. CASE ~ render.current
    <3>1. texts' = texts /\ render' = Resting
      BY <1>9, <2>2 DEF PushRender
    <3> QED BY <1>3, <1>6, <3>1, NothingMade
  <2> QED BY <2>1, <2>2
<1>10. CASE LoseRender
  <2>1. texts' = texts /\ render' = Resting
    BY <1>10 DEF LoseRender, main
  <2> QED BY <1>3, <1>6, <2>1, NothingMade
<1> QED BY <1>7, <1>8, <1>9, <1>10

LEMMA ImportKeepsPlaces ==
  ASSUME PlacesInv, StartImport \/ EndImport
  PROVE  PlacesInv'
<1>1. /\ PlacesTypeOK /\ DeskInOrder /\ ReadsLast /\ OneVersion
      /\ None \notin Versions /\ Torn \notin Versions /\ None # Torn
  BY ArtifactsAssumption DEF PlacesInv
<1>2. /\ records' = records /\ texts' = texts /\ pdfs' = pdfs /\ edited' = edited
      /\ desk' = desk /\ render' = render
  BY DEF StartImport, EndImport, main, job
<1>3. DeskInOrder'
  BY <1>1, <1>2 DEF DeskInOrder
<1>4. render'.current => Rebases'
  BY <1>1, <1>2 DEF ReadsLast, Rebases, Merges
<1>5. CASE StartImport
  <2>1. rows' = rows /\ import' = records
    BY <1>5 DEF StartImport
  <2>2. PlacesTypeOK' /\ OneVersion'
    BY <1>1, <1>2, <2>1 DEF PlacesTypeOK, OneVersion
  <2>3. ReadsLast'
    BY <1>1, <1>2, <1>4, <2>1 DEF ReadsLast
  <2> QED BY <1>3, <2>2, <2>3 DEF PlacesInv
<1>6. CASE EndImport
  <2>1. import # None /\ import' = None /\ (rows' = rows \/ rows' = Inserted)
    BY <1>6 DEF EndImport
  <2>2. Inserted \in [Documents -> Versions \cup {None}]
    BY <1>1, <2>1 DEF Inserted, PlacesTypeOK
  <2>3. \A d \in Documents : d \notin edited /\ Inserted[d] # None => Inserted[d] = records[d]
    BY <1>1, <2>1 DEF Inserted, ReadsLast, OneVersion
  <2>4. PlacesTypeOK'
    BY <1>1, <1>2, <2>1, <2>2 DEF PlacesTypeOK
  <2>5. OneVersion'
    BY <1>1, <1>2, <2>1, <2>3 DEF OneVersion
  <2>6. ReadsLast'
    BY <1>1, <1>2, <1>4, <2>1 DEF ReadsLast
  <2> QED BY <1>3, <2>4, <2>5, <2>6 DEF PlacesInv
<1> QED BY <1>5, <1>6

LEMMA PlacesStep == PlacesInv /\ [ArtifactsNext]_artifacts => PlacesInv'
<1> SUFFICES ASSUME PlacesInv, [ArtifactsNext]_artifacts PROVE PlacesInv'
  OBVIOUS
<1>1. /\ PlacesTypeOK /\ DeskInOrder /\ ReadsLast /\ OneVersion
      /\ None \notin Versions /\ Torn \notin Versions /\ None # Torn
  BY ArtifactsAssumption DEF PlacesInv
<1>2. ASSUME UNCHANGED <<records, texts, pdfs, rows, edited, render, import>>,
             desk' \in Desk, DeskInOrder'
      PROVE  PlacesInv'
  <2>1. PlacesTypeOK'
    BY <1>1, <1>2 DEF PlacesTypeOK
  <2>2. OneVersion'
    BY <1>1, <1>2 DEF OneVersion
  <2>3. ReadsLast'
    BY <1>1, <1>2 DEF ReadsLast, Rebases, Merges
  <2> QED BY <1>2, <2>1, <2>2, <2>3 DEF PlacesInv
<1>3. desk' = EmptyDesk => desk' \in Desk /\ DeskInOrder'
  BY EmptyDeskIsInOrder DEF DeskInOrder
<1>4. desk' = desk => desk' \in Desk /\ DeskInOrder'
  BY <1>1 DEF PlacesTypeOK, DeskInOrder
<1>5. CASE UNCHANGED artifacts
  BY <1>2, <1>4, <1>5 DEF artifacts
<1>6. CASE Author
  <2>1. UNCHANGED <<records, texts, pdfs, rows, edited, render, import>>
    BY <1>6 DEF Author, StartPublish, WriteNext, KillPublish, ClearDesk, DropDesk, main, job
  <2> QED BY <1>1, <1>2, <1>6, <2>1, AuthorKeepsDesk
<1>7. CASE SendDesk
  <2>1. /\ Landing(desk.doc, Sent("record"), Sent("text"), Sent("pdf"))
        /\ rows' = rows /\ import' = import /\ edited' = edited /\ edited \subseteq Documents
        /\ desk' = EmptyDesk /\ Lands
    BY <1>1, <1>7 DEF SendDesk, PlacesTypeOK
  <2>2. /\ desk.doc \in Documents /\ desk.version \in Versions
        /\ Sent("record") = desk.version /\ Sent("text") = desk.version
        /\ Sent("pdf") \in {desk.version, pdfs[desk.doc]}
        /\ records[desk.doc] \in {None, desk.version}
    BY <2>1, SentIsOneVersion
  <2>3. pdfs[desk.doc] \in Versions \cup {None}
    BY <1>1, <2>2 DEF PlacesTypeOK
  <2>4. desk.doc \notin edited => pdfs[desk.doc] \in {None, desk.version}
    BY <1>1, <2>2 DEF OneVersion
  <2>5. desk.doc \notin edited' => {Sent("text"), Sent("pdf")} \subseteq {None, Sent("record")}
    BY <2>1, <2>2, <2>4
  <2>6. Sent("record") \in Versions /\ Sent("text") \in Versions \cup {None}
        /\ Sent("pdf") \in Versions \cup {None}
    BY <2>2, <2>3
  <2>7. records[desk.doc] \notin {None, Sent("record")} => desk.doc \in edited'
    BY <2>2
  <2>8. desk' \in Desk /\ DeskInOrder' /\ edited \subseteq edited' /\ edited' \subseteq Documents
    BY <1>3, <2>1
  <2> QED BY <2>1, <2>2, <2>5, <2>6, <2>7, <2>8, LandingKeepsPlaces
<1>8. ASSUME NEW d \in Documents, NEW v \in Versions, CommitRecord(d, v)
      PROVE  PlacesInv'
  <2>1. /\ records[d] = None /\ Landing(d, v, texts[d], pdfs[d])
        /\ rows' = rows /\ import' = import /\ edited' = edited /\ desk' = desk
    BY <1>8 DEF CommitRecord
  <2>2. texts[d] \in Versions \cup {None} /\ pdfs[d] \in Versions \cup {None} /\ edited \subseteq Documents
    BY <1>1 DEF PlacesTypeOK
  <2>3. d \notin edited' => {texts[d], pdfs[d]} \subseteq {None, v}
    BY <1>1, <2>1 DEF OneVersion
  <2>4. /\ records[d] \notin {None, v} => d \in edited'
        /\ desk' \in Desk /\ DeskInOrder' /\ edited \subseteq edited' /\ edited' \subseteq Documents
    BY <1>4, <2>1, <2>2
  <2> QED BY <2>1, <2>2, <2>3, <2>4, LandingKeepsPlaces
<1>9. ASSUME NEW d \in Documents, NEW v \in Versions, EditRecord(d, v)
      PROVE  PlacesInv'
  <2>1. /\ Landing(d, v, texts[d], pdfs[d])
        /\ rows' = rows /\ import' = import /\ edited' = edited \cup {d} /\ desk' = desk
    BY <1>9 DEF EditRecord
  <2>2. texts[d] \in Versions \cup {None} /\ pdfs[d] \in Versions \cup {None} /\ edited \subseteq Documents
    BY <1>1 DEF PlacesTypeOK
  <2>3. /\ d \in edited'
        /\ desk' \in Desk /\ DeskInOrder' /\ edited \subseteq edited' /\ edited' \subseteq Documents
    BY <1>4, <2>1, <2>2
  <2> QED BY <2>1, <2>2, <2>3, LandingKeepsPlaces
<1>10. CASE StartRender \/ PullRender \/ PushRender \/ LoseRender
  BY <1>10, RenderingKeepsPlaces
<1>11. CASE StartImport \/ EndImport
  BY <1>11, ImportKeepsPlaces
<1> QED BY <1>5, <1>6, <1>7, <1>8, <1>9, <1>10, <1>11 DEF ArtifactsNext, Workflows

LEMMA PlacesInvariance == ArtifactsSpec => []PlacesInv
<1>1. ArtifactsInit => PlacesInv
  <2> SUFFICES ASSUME ArtifactsInit PROVE PlacesInv
    OBVIOUS
  <2>1. None \notin Versions /\ Torn \notin Versions /\ None # Torn
    BY ArtifactsAssumption
  <2>2. /\ Resting.made = <<>> /\ Resting.current = FALSE
        /\ Resting \in [at : {"idle", "pull", "push"}, made : Renderings, current : BOOLEAN]
    BY NothingMade DEF Resting
  <2>3. PlacesTypeOK /\ DeskInOrder
    BY <2>2, EmptyDeskIsInOrder DEF ArtifactsInit, PlacesTypeOK, DeskInOrder
  <2>4. OneVersion
    BY <2>1 DEF ArtifactsInit, OneVersion
  <2>5. ReadsLast
    BY <2>2, NothingMade DEF ArtifactsInit, ReadsLast
  <2> QED BY <2>3, <2>4, <2>5 DEF PlacesInv
<1> QED BY <1>1, PlacesStep, PTL DEF ArtifactsSpec

(* A document is the same version wherever it is kept, unless its record   *)
(* was changed on main, and main holds no torn file: whatever authors,     *)
(* jobs and imports overlap, and wherever they are killed.                 *)
THEOREM DocumentsAreOneVersion == ArtifactsSpec => []OneVersion
<1>1. PlacesInv => OneVersion
  BY DEF PlacesInv
<1> QED BY <1>1, PlacesInvariance, PTL

(* No step replaces or takes away a rendering or PDF on main, or a row.    *)
THEOREM NothingIsReplaced == ArtifactsSpec => KeptForGood
<1> DEFINE Keeps == \A d \in Documents :
                      /\ texts[d] # None => texts'[d] = texts[d]
                      /\ pdfs[d] # None => pdfs'[d] = pdfs[d]
                      /\ rows[d] # None => rows'[d] = rows[d]
<1>1. PlacesInv /\ [ArtifactsNext]_artifacts => [Keeps]_<<texts, pdfs, rows>>
  <2> SUFFICES ASSUME PlacesInv, [ArtifactsNext]_artifacts PROVE [Keeps]_<<texts, pdfs, rows>>
    OBVIOUS
  <2>1. PlacesTypeOK /\ ReadsLast
    BY DEF PlacesInv
  <2>2. ASSUME NEW d \in Documents, NEW record, NEW text, NEW pdf, Landing(d, record, text, pdf),
               rows' = rows, texts[d] \in {None, text}, pdfs[d] \in {None, pdf}
        PROVE  Keeps
    BY <2>1, <2>2 DEF Landing, PlacesTypeOK
  <2>3. CASE UNCHANGED artifacts
    BY <2>3 DEF artifacts
  <2>4. CASE Author \/ StartRender \/ PullRender \/ LoseRender \/ StartImport
    BY <2>4 DEF Author, StartPublish, WriteNext, KillPublish, ClearDesk, DropDesk, StartRender,
                PullRender, LoseRender, StartImport, main
  <2>5. CASE SendDesk
    BY <2>2, <2>5, SentIsOneVersion DEF SendDesk
  <2>6. ASSUME NEW d \in Documents, NEW v \in Versions, CommitRecord(d, v) \/ EditRecord(d, v)
        PROVE  Keeps
    BY <2>2, <2>6 DEF CommitRecord, EditRecord
  <2>7. CASE PushRender
    <3>1. pdfs' = pdfs /\ rows' = rows
      BY <2>7 DEF PushRender
    <3>2. ASSUME NEW d \in Documents, texts[d] # None
          PROVE  texts'[d] = texts[d]
      BY <2>1, <2>7, <3>2 DEF PushRender, ReadsLast, Rebases, Merges
    <3> QED BY <3>1, <3>2
  <2>8. CASE EndImport
    BY <2>8 DEF EndImport, Inserted, main
  <2> QED BY <2>3, <2>4, <2>5, <2>6, <2>7, <2>8 DEF ArtifactsNext, Workflows
<1>2. ArtifactsSpec => [][Keeps]_<<texts, pdfs, rows>>
  BY <1>1, PlacesInvariance, PTL DEF ArtifactsSpec
<1> QED BY <1>2 DEF KeptForGood
=============================================================================
