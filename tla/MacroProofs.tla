---------------------------- MODULE MacroProofs ----------------------------
(***************************************************************************)
(* What a report can be trusted to show, for every set of dimensions and   *)
(* views, whatever makes a signal readable, and however analyses are       *)
(* repeated, replayed on past days and killed.                             *)
(*                                                                         *)
(* A day whose first analysis went through has a row of every subject,     *)
(* all of that analysis: whatever runs later is refused.  While a first    *)
(* analysis runs, the rows of its day are the scores it keeps in memory;   *)
(* only a run that was cut short lets a second one build on scores that    *)
(* are not the stored ones.                                                *)
(***************************************************************************)
EXTENDS MacroReadings, TLAPS, SequenceTheorems

AllSubjects == ToSet(Subjects)

TypeOK ==
  /\ now \in Nat /\ settled \in Nat /\ late \in Nat /\ cutoff \in Nat /\ kills \in Nat
  /\ todo \in Seq(AllSubjects) /\ IsInjective(todo)
  /\ \A w \in scores : w.at \in Nat /\ w.subject \in AllSubjects

(* The scores in memory are those of the subjects the run has dealt with.  *)
OfThisRun ==
  \A w \in fresh : w.at = cutoff /\ w.subject \in AllSubjects \ ToSet(todo)

(* A subject the run has dealt with has a row of the day, its own or an    *)
(* older one.                                                              *)
Has(x, day) == \E w \in scores : w.subject = x /\ Day(w.at) = day
DealtWith == ~ Idle => \A x \in AllSubjects \ ToSet(todo) : Has(x, Day(cutoff))
Complete == \A day \in analyzed, x \in AllSubjects : Has(x, day)

(* Every row is of a day whose analysis ended, was cut short or is going   *)
(* on; the first analysis of a day has written what it remembers.          *)
First == ~ Idle /\ Day(cutoff) \notin cut \cup analyzed
Accounted ==
  \A w \in scores : Day(w.at) \in cut \cup analyzed \/ (~ Idle /\ Day(w.at) = Day(cutoff))
Remembered == First => fresh = {w \in scores : Day(w.at) = Day(cutoff)}

(* The rows of a day that was not cut short are of one instant.            *)
OneInstant ==
  \A u, w \in scores : Day(u.at) = Day(w.at) /\ Day(u.at) \notin cut => u.at = w.at

IInv ==
  /\ TypeOK /\ OfThisRun /\ DealtWith /\ Complete /\ Accounted /\ Remembered
  /\ OneInstant /\ EvidenceHolds

-----------------------------------------------------------------------------
(* Sequences.                                                              *)
LEMMA OverItsElements ==
  ASSUME NEW S, NEW s \in Seq(S)
  PROVE  s \in Seq(ToSet(s)) /\ ToSet(s) \subseteq S
<1>1. Len(s) \in Nat /\ s \in [1..Len(s) -> S] /\ DOMAIN s = 1..Len(s)
  BY LenProperties
<1>2. \A i \in 1..Len(s) : s[i] \in ToSet(s)
  BY <1>1 DEF ToSet
<1>3. s \in [1..Len(s) -> ToSet(s)]
  BY <1>1, <1>2
<1>4. s \in UNION {[1..n -> ToSet(s)] : n \in Nat}
  BY <1>1, <1>3
<1>5. s \in Seq(ToSet(s))
  BY <1>4, SeqDef
<1>6. ToSet(s) \subseteq S
  BY <1>1 DEF ToSet
<1> QED BY <1>5, <1>6

(* Taking the first of a list without repetitions leaves the others.       *)
LEMMA TakeFirst ==
  ASSUME NEW S, NEW s \in Seq(S), s # <<>>, IsInjective(s)
  PROVE  /\ Head(s) \in S /\ Tail(s) \in Seq(S) /\ IsInjective(Tail(s))
         /\ ToSet(s) = {Head(s)} \cup ToSet(Tail(s)) /\ Head(s) \notin ToSet(Tail(s))
<1>1. /\ Head(s) \in S /\ Tail(s) \in Seq(S) /\ Len(Tail(s)) = Len(s) - 1
      /\ \A i \in 1..Len(Tail(s)) : Tail(s)[i] = s[i + 1]
  BY HeadTailProperties
<1>2. /\ Len(s) \in Nat /\ DOMAIN s = 1..Len(s)
      /\ Len(Tail(s)) \in Nat /\ DOMAIN Tail(s) = 1..Len(Tail(s))
  BY <1>1, LenProperties
<1>3. Head(s) = s[1] /\ 1 \in DOMAIN s
  <2>1. Len(s) # 0
    BY EmptySeq
  <2> QED BY <1>2, <2>1
<1>4. \A i \in DOMAIN Tail(s) : i + 1 \in DOMAIN s /\ i + 1 # 1 /\ Tail(s)[i] = s[i + 1]
  BY <1>1, <1>2
<1>5. \A k \in DOMAIN s : k = 1 \/ (k - 1 \in DOMAIN Tail(s) /\ s[k] = Tail(s)[k - 1])
  <2> SUFFICES ASSUME NEW k \in DOMAIN s, k # 1
               PROVE  k - 1 \in DOMAIN Tail(s) /\ s[k] = Tail(s)[k - 1]
    OBVIOUS
  <2>1. k \in Int /\ k - 1 \in 1..Len(Tail(s)) /\ (k - 1) + 1 = k
    BY <1>1, <1>2
  <2> QED BY <1>1, <1>2, <2>1
<1>6. IsInjective(Tail(s))
  <2> SUFFICES ASSUME NEW a \in DOMAIN Tail(s), NEW b \in DOMAIN Tail(s), Tail(s)[a] = Tail(s)[b]
               PROVE  a = b
    BY DEF IsInjective
  <2>1. a + 1 = b + 1
    BY <1>4 DEF IsInjective
  <2> QED BY <1>2, <2>1
<1>7. ToSet(s) = {Head(s)} \cup ToSet(Tail(s))
  <2>1. ToSet(s) \subseteq {Head(s)} \cup ToSet(Tail(s))
    BY <1>3, <1>5 DEF ToSet
  <2>2. {Head(s)} \cup ToSet(Tail(s)) \subseteq ToSet(s)
    BY <1>3, <1>4 DEF ToSet
  <2> QED BY <2>1, <2>2
<1>8. Head(s) \notin ToSet(Tail(s))
  BY <1>3, <1>4 DEF ToSet, IsInjective
<1> QED BY <1>1, <1>6, <1>7, <1>8

LEMMA NoneAhead == ToSet(<<>>) = {} /\ IsInjective(<<>>) /\ \A S : <<>> \in Seq(S)
<1>1. \A S : <<>> \in Seq(S)
  BY EmptySeq
<1>2. DOMAIN <<>> = {}
  OBVIOUS
<1> QED BY <1>1, <1>2 DEF ToSet, IsInjective

(* The configured subjects: no view is a dimension.                        *)
LEMMA TheSubjects ==
  /\ Subjects \in Seq(AllSubjects) /\ IsInjective(Subjects)
  /\ ToSet(Dimensions) \subseteq AllSubjects /\ ToSet(Views) \subseteq AllSubjects
  /\ ToSet(Dimensions) \cap ToSet(Views) = {}
<1> DEFINE Names == ToSet(Dimensions) \cup ToSet(Views)
           m == Len(Dimensions)
           n == Len(Views)
<1>1. Dimensions \in Seq(Names) /\ Views \in Seq(Names)
  <2>1. ToSet(Dimensions) \subseteq Names /\ ToSet(Views) \subseteq Names
    OBVIOUS
  <2> HIDE DEF Names
  <2> QED BY <2>1, SeqMonotonic, ReadingsAssumption
<1> HIDE DEF Names
<1>2. /\ Subjects \in Seq(Names) /\ Len(Subjects) = m + n
      /\ \A i \in 1..m + n : Subjects[i] = IF i <= m THEN Dimensions[i] ELSE Views[i - m]
  BY <1>1, ConcatProperties DEF Subjects
<1>3. /\ m \in Nat /\ DOMAIN Dimensions = 1..m
      /\ n \in Nat /\ DOMAIN Views = 1..n
      /\ DOMAIN Subjects = 1..Len(Subjects)
  BY <1>1, <1>2, LenProperties
<1> HIDE DEF m, n
<1>4. \A i \in DOMAIN Dimensions : i \in DOMAIN Subjects /\ i <= m /\ Subjects[i] = Dimensions[i]
  BY <1>2, <1>3
<1>5. \A i \in DOMAIN Views : /\ i + m \in DOMAIN Subjects /\ ~ (i + m <= m)
                             /\ Subjects[i + m] = Views[i]
  <2> SUFFICES ASSUME NEW i \in 1..n
               PROVE  i + m \in 1..m + n /\ ~ (i + m <= m) /\ Subjects[i + m] = Views[i]
    BY <1>2, <1>3
  <2>1. i + m \in 1..m + n /\ ~ (i + m <= m) /\ (i + m) - m = i
    BY <1>3
  <2> QED BY <1>2, <2>1
<1>6. IsInjective(Subjects)
  BY ReadingsAssumption
<1>7. Subjects \in Seq(AllSubjects)
  BY <1>2, OverItsElements DEF AllSubjects
<1>8. ToSet(Dimensions) \subseteq AllSubjects /\ ToSet(Views) \subseteq AllSubjects
  BY <1>4, <1>5 DEF AllSubjects, ToSet
<1>9. ToSet(Dimensions) \cap ToSet(Views) = {}
  <2> SUFFICES ASSUME NEW i \in DOMAIN Dimensions, NEW j \in DOMAIN Views,
                      Dimensions[i] = Views[j]
               PROVE  FALSE
    BY DEF ToSet
  <2>1. i = j + m
    BY <1>4, <1>5, <1>6 DEF IsInjective
  <2> QED BY <1>4, <1>5, <2>1
<1> QED BY <1>6, <1>7, <1>8, <1>9

(* Days follow the clock.                                                  *)
LEMMA DaysInOrder ==
  ASSUME NEW t \in Nat, NEW u \in Nat
  PROVE  Day(t) \in Nat /\ (t <= u => Day(t) <= Day(u))
BY ReadingsAssumption DEF Day

-----------------------------------------------------------------------------
(* The invariant.                                                          *)
LEMMA InitInv == Init => IInv
<1> SUFFICES ASSUME Init PROVE IInv
  OBVIOUS
<1> USE DEF Init
<1>1. TypeOK
  BY NoneAhead DEF TypeOK
<1>2. OfThisRun /\ DealtWith /\ Complete /\ Accounted
  BY DEF OfThisRun, DealtWith, Idle, Complete, Accounted
<1>3. Remembered /\ OneInstant /\ EvidenceHolds
  BY DEF Remembered, First, Idle, OneInstant, EvidenceHolds
<1> QED BY <1>1, <1>2, <1>3 DEF IInv

(* Nothing is scored, and no run begins or ends.                           *)
LEMMA QuietStep ==
  ASSUME IInv, Tick \/ Load \/ LoadLate \/ UNCHANGED vars
  PROVE  IInv'
<1>1. /\ now' \in Nat /\ settled' \in Nat /\ late' \in Nat
      /\ UNCHANGED <<scores, cutoff, todo, fresh, analyzed, cut, kills>>
  BY DEF IInv, TypeOK, Tick, Load, LoadLate, run, vars
<1>2. TypeOK'
  BY <1>1 DEF IInv, TypeOK
<1>3. OfThisRun' /\ DealtWith' /\ Complete' /\ Accounted' /\ Remembered' /\ OneInstant'
  BY <1>1 DEF IInv, OfThisRun, DealtWith, Idle, Has, Complete, Accounted, Remembered, First,
              OneInstant
<1>4. EvidenceHolds'
  BY <1>1 DEF IInv, EvidenceHolds, IdOf
<1> QED BY <1>2, <1>3, <1>4 DEF IInv

(* A run of a day nobody has analyzed finds no row of it.                  *)
LEMMA StartStep ==
  ASSUME IInv, NEW t \in Nat, StartAnalyze(t)
  PROVE  IInv'
<1>1. /\ Idle /\ cutoff' = t /\ todo' = Subjects /\ fresh' = {}
      /\ UNCHANGED <<now, settled, late, scores, analyzed, cut, kills>>
  BY DEF StartAnalyze, data
<1>2. TypeOK'
  BY <1>1, TheSubjects DEF IInv, TypeOK
<1>3. OfThisRun' /\ DealtWith'
  BY <1>1 DEF OfThisRun, DealtWith, AllSubjects
<1>4. Complete' /\ OneInstant'
  BY <1>1 DEF IInv, Complete, Has, OneInstant
<1>5. Accounted' /\ Remembered'
  BY <1>1 DEF IInv, Accounted, Remembered, First
<1>6. EvidenceHolds'
  BY <1>1 DEF IInv, EvidenceHolds, IdOf
<1> QED BY <1>2, <1>3, <1>4, <1>5, <1>6 DEF IInv

(* A cut run leaves its day to the next one, and says so.                  *)
LEMMA CutStep ==
  ASSUME IInv, CutShort
  PROVE  IInv'
<1>1. /\ todo' = <<>> /\ fresh' = {} /\ kills' = kills + 1
      /\ cut' = cut \cup ({Day(cutoff)} \ analyzed)
      /\ UNCHANGED <<now, settled, late, scores, cutoff, analyzed>>
  BY DEF CutShort, data
<1>2. TypeOK'
  BY <1>1, NoneAhead DEF IInv, TypeOK
<1>3. OfThisRun' /\ DealtWith' /\ Remembered'
  BY <1>1 DEF OfThisRun, DealtWith, Remembered, First, Idle
<1>4. Complete' /\ OneInstant' /\ Accounted'
  BY <1>1 DEF IInv, Complete, Has, OneInstant, Accounted
<1>5. EvidenceHolds'
  BY <1>1 DEF IInv, EvidenceHolds, IdOf
<1> QED BY <1>2, <1>3, <1>4, <1>5 DEF IInv

-----------------------------------------------------------------------------
(* A score_id tells the subject and the day.                               *)
LEMMA IdsTellSubjects ==
  ASSUME NEW u, NEW w, u.subject \in AllSubjects, w.subject \in AllSubjects
  PROVE  IdOf(u) = IdOf(w) <=> u.subject = w.subject /\ Day(u.at) = Day(w.at)
BY NamesAssumption DEF IdOf, AllSubjects

(* One subject more.  What is stored of it is its score or an older row.   *)
LEMMA OneSubject ==
  ASSUME IInv, AnalyzeNext
  PROVE  LET x == Head(todo)
             w == ScoreOf(x)
         IN /\ x \in AllSubjects /\ x \notin ToSet(Tail(todo))
            /\ AllSubjects \ ToSet(Tail(todo)) = (AllSubjects \ ToSet(todo)) \cup {x}
            /\ ToSet(Tail(todo)) \subseteq ToSet(todo)
            /\ todo' = Tail(todo) /\ todo' \in Seq(AllSubjects) /\ IsInjective(todo')
            /\ w.at = cutoff /\ w.subject = x
            /\ scores' = Saved(w) /\ scores \subseteq scores' /\ scores' \subseteq scores \cup {w}
            /\ fresh' = IF todo' = <<>> THEN {} ELSE fresh \cup {w}
            /\ analyzed' = IF todo' = <<>> THEN analyzed \cup {Day(cutoff)} ELSE analyzed
            /\ UNCHANGED <<now, settled, late, obs, cutoff, cut, kills>>
<1> DEFINE x == Head(todo)
           w == ScoreOf(x)
<1>1. /\ ~ Idle /\ todo' = Tail(todo) /\ scores' = Saved(w)
      /\ fresh' = IF todo' = <<>> THEN {} ELSE fresh \cup {w}
      /\ analyzed' = IF todo' = <<>> THEN analyzed \cup {Day(cutoff)} ELSE analyzed
      /\ UNCHANGED <<now, settled, late, obs, cutoff, cut, kills>>
  BY DEF AnalyzeNext, Rest, data
<1>2. todo \in Seq(AllSubjects) /\ IsInjective(todo) /\ todo # <<>>
  BY <1>1 DEF IInv, TypeOK, Idle
<1>3. /\ x \in AllSubjects /\ Tail(todo) \in Seq(AllSubjects) /\ IsInjective(Tail(todo))
      /\ ToSet(todo) = {x} \cup ToSet(Tail(todo)) /\ x \notin ToSet(Tail(todo))
  BY <1>2, TakeFirst
<1>4. AllSubjects \ ToSet(Tail(todo)) = (AllSubjects \ ToSet(todo)) \cup {x}
  BY <1>3
<1>5. w.at = cutoff /\ w.subject = x
  BY DEF ScoreOf
<1>6. scores \subseteq Saved(w) /\ Saved(w) \subseteq scores \cup {w}
  BY DEF Saved
<1> HIDE DEF x, w
<1>7. ToSet(Tail(todo)) \subseteq ToSet(todo)
  BY <1>3
<1> QED BY <1>1, <1>3, <1>4, <1>5, <1>6, <1>7 DEF x, w

(* The analysis of a day that had one changes nothing.                     *)
LEMMA RepeatsAreRefused ==
  ASSUME IInv, AnalyzeNext, Day(cutoff) \in analyzed
  PROVE  scores' = scores
<1> DEFINE w == ScoreOf(Head(todo))
<1>1. /\ w.subject = Head(todo) /\ w.at = cutoff /\ Head(todo) \in AllSubjects
      /\ scores' = Saved(w)
  BY OneSubject
<1>2. PICK u \in scores : u.subject = Head(todo) /\ Day(u.at) = Day(cutoff)
  BY <1>1 DEF IInv, Complete, Has
<1>3. IdOf(u) = IdOf(w)
  <2> HIDE DEF w
  <2> QED BY <1>1, <1>2, IdsTellSubjects
<1> QED BY <1>1, <1>3 DEF Saved

(* The first analysis of a day writes every score it computes.             *)
LEMMA FirstIsWritten ==
  ASSUME IInv, AnalyzeNext, First
  PROVE  scores' = scores \cup {ScoreOf(Head(todo))}
<1> DEFINE x == Head(todo)
           w == ScoreOf(x)
<1>1. /\ x \in ToSet(todo) /\ x \in AllSubjects /\ w.subject = x /\ w.at = cutoff
      /\ scores' = Saved(w)
  <2>1. /\ AllSubjects \ ToSet(Tail(todo)) = (AllSubjects \ ToSet(todo)) \cup {x}
        /\ x \in AllSubjects /\ w.subject = x /\ w.at = cutoff /\ scores' = Saved(w)
    BY OneSubject
  <2>2. todo \in Seq(AllSubjects) /\ IsInjective(todo) /\ todo # <<>>
    BY DEF IInv, TypeOK, First, Idle
  <2>3. ToSet(todo) = {x} \cup ToSet(Tail(todo))
    BY <2>2, TakeFirst
  <2> QED BY <2>1, <2>3
<1>2. ASSUME NEW u \in scores, IdOf(u) = IdOf(w) PROVE FALSE
  <2>1. u.subject = x /\ Day(u.at) = Day(cutoff)
    <3>1. u.subject \in AllSubjects
      BY <1>2 DEF IInv, TypeOK
    <3> HIDE DEF w, x
    <3> QED BY <1>1, <1>2, <3>1, IdsTellSubjects
  <2>2. u \in fresh
    BY <2>1 DEF IInv, Remembered
  <2> QED BY <1>1, <2>1, <2>2 DEF IInv, OfThisRun
<1> QED BY <1>1, <1>2 DEF Saved

LEMMA AnalyzeStep ==
  ASSUME IInv, AnalyzeNext
  PROVE  IInv'
<1> DEFINE x == Head(todo)
           w == ScoreOf(x)
<1>1. /\ x \in AllSubjects /\ x \notin ToSet(Tail(todo))
      /\ AllSubjects \ ToSet(Tail(todo)) = (AllSubjects \ ToSet(todo)) \cup {x}
      /\ ToSet(Tail(todo)) \subseteq ToSet(todo)
      /\ todo' = Tail(todo) /\ todo' \in Seq(AllSubjects) /\ IsInjective(todo')
      /\ w.at = cutoff /\ w.subject = x
      /\ scores' = Saved(w) /\ scores \subseteq scores' /\ scores' \subseteq scores \cup {w}
      /\ fresh' = IF todo' = <<>> THEN {} ELSE fresh \cup {w}
      /\ analyzed' = IF todo' = <<>> THEN analyzed \cup {Day(cutoff)} ELSE analyzed
      /\ UNCHANGED <<now, settled, late, obs, cutoff, cut, kills>>
  BY OneSubject
<1>2. ~ Idle
  BY DEF AnalyzeNext
<1>3. Day(cutoff) \in analyzed => scores' = scores
  BY RepeatsAreRefused
<1>4. First => scores' = scores \cup {w}
  BY FirstIsWritten
<1>5. ToSet(<<>>) = {}
  BY NoneAhead
<1> HIDE DEF w, x
<1>6. TypeOK'
  BY <1>1 DEF IInv, TypeOK
<1>7. OfThisRun'
  BY <1>1 DEF IInv, OfThisRun
<1>8. \A y \in AllSubjects \ ToSet(Tail(todo)) :
        \E q \in scores' : q.subject = y /\ Day(q.at) = Day(cutoff)
  <2>1. \E q \in scores' : q.subject = x /\ Day(q.at) = Day(cutoff)
    <3>1. CASE w \in scores'
      BY <1>1, <3>1
    <3>2. CASE w \notin scores'
      <4>1. PICK u \in scores : IdOf(u) = IdOf(w)
        BY <1>1, <3>2 DEF Saved
      <4>2. u.subject \in AllSubjects /\ u \in scores'
        BY <1>1, <4>1 DEF IInv, TypeOK
      <4>3. u.subject = x /\ Day(u.at) = Day(cutoff)
        BY <1>1, <4>1, <4>2, IdsTellSubjects
      <4> QED BY <4>2, <4>3
    <3> QED BY <3>1, <3>2
  <2>2. \A y \in AllSubjects \ ToSet(todo) :
          \E q \in scores : q.subject = y /\ Day(q.at) = Day(cutoff)
    BY <1>2 DEF IInv, DealtWith, Has
  <2> QED BY <1>1, <2>1, <2>2
<1>9. DealtWith'
  BY <1>1, <1>8 DEF DealtWith, Has, Day, AllSubjects
<1>10. Complete'
  <2> SUFFICES ASSUME NEW day \in analyzed', NEW y \in AllSubjects PROVE Has(y, day)'
    BY DEF Complete
  <2>1. CASE day \in analyzed
    BY <1>1, <2>1 DEF IInv, Complete, Has
  <2>2. CASE day \notin analyzed
    <3>1. day = Day(cutoff) /\ Tail(todo) = <<>>
      BY <1>1, <2>2
    <3>2. \E q \in scores' : q.subject = y /\ Day(q.at) = Day(cutoff)
      BY <1>5, <1>8, <3>1
    <3> QED BY <3>1, <3>2 DEF Has, Day
  <2> QED BY <2>1, <2>2
<1>11. Accounted'
  <2> SUFFICES ASSUME NEW u \in scores'
               PROVE  \/ Day(u.at) \in cut \cup analyzed'
                      \/ todo' # <<>> /\ Day(u.at) = Day(cutoff)
    BY <1>1 DEF Accounted, Idle, Day
  <2>1. Day(u.at) \in cut \cup analyzed \/ Day(u.at) = Day(cutoff)
    BY <1>1 DEF IInv, Accounted
  <2> QED BY <1>1, <2>1
<1>12. Remembered'
  <2> SUFFICES ASSUME First' PROVE fresh' = {u \in scores' : Day(u.at) = Day(cutoff)}
    BY <1>1 DEF Remembered, Day
  <2>1. First /\ fresh' = fresh \cup {w}
    BY <1>1, <1>2 DEF First, Idle, Day
  <2> QED BY <1>1, <1>4, <2>1 DEF IInv, Remembered
<1>13. OneInstant'
  <2> SUFFICES ASSUME NEW u \in scores', NEW v \in scores', Day(u.at) = Day(v.at),
                      Day(u.at) \notin cut
               PROVE  u.at = v.at
    BY <1>1 DEF OneInstant, Day
  <2>1. CASE u \in scores /\ v \in scores
    BY <2>1 DEF IInv, OneInstant
  <2>2. CASE ~ (u \in scores /\ v \in scores)
    <3>1. Day(cutoff) \notin analyzed /\ Day(u.at) = Day(cutoff)
      BY <1>1, <1>3, <2>2
    <3>2. First
      BY <1>2, <3>1 DEF First
    <3>3. \A q \in scores : Day(q.at) = Day(cutoff) => q.at = cutoff
      BY <3>2 DEF IInv, Remembered, OfThisRun
    <3> QED BY <1>1, <3>1, <3>3
  <2> QED BY <2>1, <2>2
<1>14. EvidenceHolds'
  <2> SUFFICES ASSUME NEW v \in scores', v.subject \in ToSet(Views), Day(v.at) \notin cut,
                      NEW g \in v.signals
               PROVE  \E q \in scores' : /\ IdOf(q) = IdOf([v EXCEPT !.subject = g.source])
                                        /\ q.signals = g.reading
    BY <1>1 DEF EvidenceHolds, Day, IdOf
  <2>1. CASE v \in scores
    BY <1>1, <2>1 DEF IInv, EvidenceHolds
  <2>2. CASE v \notin scores
    <3>1. v = w /\ First
      BY <1>1, <1>2, <1>3, <2>2 DEF First
    <3>2. v.signals = ViewSignals(x) /\ v = [subject |-> x, at |-> cutoff, signals |-> ViewSignals(x)]
      BY <1>1, <3>1, TheSubjects DEF w, ScoreOf
    <3>3. PICK q \in fresh : g = [source |-> q.subject, reading |-> q.signals]
      BY <3>2 DEF ViewSignals
    <3>4. q \in scores' /\ q.at = cutoff
      BY <1>1, <3>1, <3>3 DEF IInv, Remembered, OfThisRun
    <3>5. IdOf([v EXCEPT !.subject = g.source]) = <<NameOf[q.subject], Day(cutoff)>>
      BY <3>2, <3>3 DEF IdOf
    <3> QED BY <3>3, <3>4, <3>5 DEF IdOf
  <2> QED BY <2>1, <2>2
<1> QED BY <1>6, <1>7, <1>9, <1>10, <1>11, <1>12, <1>13, <1>14 DEF IInv

LEMMA IInvStep == IInv /\ [Next]_vars => IInv'
<1> SUFFICES ASSUME IInv, [Next]_vars PROVE IInv'
  OBVIOUS
<1>1. CASE Tick \/ Load \/ LoadLate \/ UNCHANGED vars
  BY <1>1, QuietStep
<1>2. CASE StartAnalyze(now)
  <2>1. now \in Nat
    BY DEF IInv, TypeOK
  <2> QED BY <1>2, <2>1, StartStep
<1>3. CASE Replay
  <2>1. PICK t \in 0..(now - 1) : StartAnalyze(t)
    BY <1>3 DEF Replay
  <2>2. t \in Nat
    BY <2>1 DEF IInv, TypeOK
  <2> QED BY <2>1, <2>2, StartStep
<1>4. CASE AnalyzeNext
  BY <1>4, AnalyzeStep
<1>5. CASE CutShort
  BY <1>5, CutStep
<1> QED BY <1>1, <1>2, <1>3, <1>4, <1>5 DEF Next

LEMMA Invariance == Spec => []IInv
<1> QED BY InitInv, IInvStep, PTL DEF Spec

-----------------------------------------------------------------------------
(* macro.py:73, 206 - a stored view can be replayed from the rows it       *)
(* cites, unless an analysis of its day was cut short.                     *)
THEOREM ViewsCiteWhatIsStored == Spec => []EvidenceHolds
<1>1. IInv => EvidenceHolds
  BY DEF IInv
<1> QED BY <1>1, Invariance, PTL

(* A report mixes the readings of two days only when one of the two        *)
(* analyses was cut short.                                                 *)
LEMMA LaterDayHasAll ==
  ASSUME IInv, Idle, NEW t \in Nat,
         NEW x \in AllSubjects, NEW u \in Latest(x, t),
         NEW y \in AllSubjects, NEW w \in Latest(y, t),
         Day(u.at) # Day(w.at), Day(w.at) \notin cut
  PROVE  ~ (Day(u.at) <= Day(w.at))
<1>1. /\ u \in scores /\ w \in scores /\ w.at <= t
      /\ \A v \in scores : v.subject = x /\ v.at <= t => v.at <= u.at
  BY DEF Latest, NewestOf
<1>2. Day(w.at) \in analyzed
  BY <1>1 DEF IInv, Accounted
<1>3. PICK v \in scores : v.subject = x /\ Day(v.at) = Day(w.at)
  BY <1>2 DEF IInv, Complete, Has
<1>4. v.at = w.at
  BY <1>1, <1>3 DEF IInv, OneInstant
<1>5. w.at <= u.at
  BY <1>1, <1>3, <1>4
<1>6. w.at \in Nat /\ u.at \in Nat
  BY <1>1 DEF IInv, TypeOK
<1>7. Day(w.at) <= Day(u.at) /\ Day(w.at) \in Nat /\ Day(u.at) \in Nat
  BY <1>5, <1>6, DaysInOrder
<1> QED BY <1>7

THEOREM SectionsAgree == Spec => []SectionsOfOneDay
<1>1. IInv => SectionsOfOneDay
  <2> SUFFICES ASSUME IInv, Idle, NEW t \in 0..now, NEW u \in Shown(t), NEW w \in Shown(t),
                      Day(u.at) # Day(w.at), Day(u.at) \notin cut, Day(w.at) \notin cut
               PROVE  FALSE
    BY DEF SectionsOfOneDay
  <2>1. PICK x \in AllSubjects : u \in Latest(x, t)
    BY DEF Shown, AllSubjects
  <2>2. PICK y \in AllSubjects : w \in Latest(y, t)
    BY DEF Shown, AllSubjects
  <2>3. t \in Nat
    BY DEF IInv, TypeOK
  <2>4. u.at \in Nat /\ w.at \in Nat
    BY <2>1, <2>2 DEF Latest, NewestOf, IInv, TypeOK
  <2>5. Day(u.at) \in Nat /\ Day(w.at) \in Nat
    BY <2>4, DaysInOrder
  <2>6. ~ (Day(u.at) <= Day(w.at)) /\ ~ (Day(w.at) <= Day(u.at))
    BY <2>1, <2>2, <2>3, LaterDayHasAll
  <2> QED BY <2>5, <2>6
<1> QED BY <1>1, Invariance, PTL

-----------------------------------------------------------------------------
(* A rendering is a function of what it reads as of its instant.           *)
LEMMA SameReads ==
  ASSUME NEW t,
         \A x : Latest(x, t)' = Latest(x, t),
         \A x : TheOneBefore(x, t)' = TheOneBefore(x, t),
         \A s : SeriesValue(s, t)' = SeriesValue(s, t),
         \A s : SeriesValue(s, t - TicksPerDay)' = SeriesValue(s, t - TicksPerDay)
  PROVE  Rendered(t)' = Rendered(t)
<1>1. Summary(t)' = Summary(t) /\ DimensionsTable(t)' = DimensionsTable(t)
  BY DEF Summary, DimensionsTable
<1>2. MarketTable(t)' = MarketTable(t)
  BY DEF MarketTable
<1>3. Changes(t)' = Changes(t)
  <2>1. {v \in ToSet(Views) : TheOneBefore(v, t) # {}}' = {v \in ToSet(Views) : TheOneBefore(v, t) # {}}
    OBVIOUS
  <2>2. {s \in Market : \E r \in SeriesValue(s, t), q \in SeriesValue(s, t - TicksPerDay) :
                          r.value # q.value}'
        = {s \in Market : \E r \in SeriesValue(s, t), q \in SeriesValue(s, t - TicksPerDay) :
                          r.value # q.value}
    OBVIOUS
  <2> QED BY <2>1, <2>2 DEF Changes
<1>4. [x \in AllSubjects |-> Section(x, t)]' = [x \in AllSubjects |-> Section(x, t)]
  BY DEF Section
<1> QED BY <1>1, <1>2, <1>3, <1>4 DEF Rendered, AllSubjects

(* The rows a batch adds are dated after everything settled, so no read as *)
(* of a settled instant sees them.                                         *)
LEMMA BatchIsUnseen ==
  ASSUME IInv, Load, NEW t \in Int, t <= settled, NEW s
  PROVE  SeriesValue(s, t)' = SeriesValue(s, t)
<1>1. PICK batch : /\ FreshBatch(obs, batch, settled + 1, now)
                   /\ obs' = obs \cup batch
  BY DEF Load
<1>2. \A r \in batch : ~ (r.vintage <= t)
  <2>1. settled \in Nat /\ now \in Nat
    BY DEF IInv, TypeOK
  <2>2. \A r \in batch : r.vintage \in settled + 1 .. now
    BY <1>1 DEF FreshBatch
  <2> QED BY <2>1, <2>2
<1>3. {q \in obs' : q.series = s /\ q.vintage <= t} = {q \in obs : q.series = s /\ q.vintage <= t}
  BY <1>1, <1>2
<1>4. \A p : KnownAt(obs', s, p, t) = KnownAt(obs, s, p, t)
  BY <1>1, <1>2 DEF KnownAt, RowsOf
<1>5. \A p : InForce(obs', s, p, t) = InForce(obs, s, p, t)
  BY <1>4 DEF InForce
<1>6. AsOf(obs', s, t) = AsOf(obs, s, t)
  BY <1>3, <1>5 DEF AsOf
<1>7. AsOf(obs, s, t)' = AsOf(obs', s, t)
  BY DEF AsOf, InForce, KnownAt, RowsOf
<1> QED BY <1>6, <1>7 DEF SeriesValue

(* A score of a later cutoff is read by no report of an earlier instant.   *)
LEMMA LaterScoreIsUnseen ==
  ASSUME NEW t \in Nat, \A w \in scores : w.at \in Nat,
         NEW c \in Nat, ~ (c <= t),
         scores \subseteq scores', \A w \in scores' \ scores : w.at = c, NEW x
  PROVE  Latest(x, t)' = Latest(x, t) /\ TheOneBefore(x, t)' = TheOneBefore(x, t)
<1>1. \A u \in Nat : u <= t =>
        {w \in scores' : w.subject = x /\ w.at <= u} = {w \in scores : w.subject = x /\ w.at <= u}
  OBVIOUS
<1>2. \A u \in Nat : u <= t =>
        {w \in scores' : w.subject = x /\ w.at < u} = {w \in scores : w.subject = x /\ w.at < u}
  OBVIOUS
<1>3. Latest(x, t)' = Latest(x, t)
  BY <1>1 DEF Latest, NewestOf
<1>4. \A w \in Latest(x, t) : w.at \in Nat /\ w.at <= t
  BY DEF Latest, NewestOf
<1>5. \A u \in Nat : u <= t => Previous(x, u)' = Previous(x, u)
  BY <1>2 DEF Previous, NewestOf
<1>6. TheOneBefore(x, t)' = TheOneBefore(x, t)
  BY <1>3, <1>4, <1>5 DEF TheOneBefore
<1> QED BY <1>3, <1>6

LEMMA SameScores ==
  ASSUME scores' = scores, NEW x, NEW t
  PROVE  Latest(x, t)' = Latest(x, t) /\ TheOneBefore(x, t)' = TheOneBefore(x, t)
BY DEF Latest, TheOneBefore, Previous, NewestOf

LEMMA SameObservations ==
  ASSUME obs' = obs, NEW s, NEW t
  PROVE  SeriesValue(s, t)' = SeriesValue(s, t)
BY DEF SeriesValue, AsOf, InForce, KnownAt, RowsOf

(* daily.py:14-15 - a report of a settled instant renders the same for     *)
(* ever, unless a row is added to the settled past or a day without a      *)
(* complete analysis is replayed.                                          *)
THEOREM SettledReportsStand == Spec => PastReportsReproduce
<1> DEFINE A == \/ UNCHANGED <<obs, scores>>
                \/ late' > late
                \/ \A t \in 0..settled : Backfills(t) \/ Rendered(t)' = Rendered(t)
<1>1. IInv /\ [Next]_vars => [A]_vars
  <2> SUFFICES ASSUME IInv, Next PROVE A
    OBVIOUS
  <2>1. CASE Tick \/ StartAnalyze(now) \/ Replay \/ CutShort
    BY <2>1 DEF Tick, StartAnalyze, Replay, CutShort, data
  <2>2. CASE LoadLate
    BY <2>2 DEF LoadLate, IInv, TypeOK
  <2>3. CASE Load
    <3> SUFFICES ASSUME NEW t \in 0..settled PROVE Rendered(t)' = Rendered(t)
      OBVIOUS
    <3>1. settled \in Nat /\ TicksPerDay \in Nat
      BY ReadingsAssumption DEF IInv, TypeOK
    <3>2. t \in Int /\ t <= settled /\ t - TicksPerDay \in Int /\ t - TicksPerDay <= settled
      BY <3>1
    <3>3. scores' = scores
      BY <2>3 DEF Load
    <3>4. \A s : /\ SeriesValue(s, t)' = SeriesValue(s, t)
                 /\ SeriesValue(s, t - TicksPerDay)' = SeriesValue(s, t - TicksPerDay)
      BY <2>3, <3>2, BatchIsUnseen
    <3>5. \A x : Latest(x, t)' = Latest(x, t) /\ TheOneBefore(x, t)' = TheOneBefore(x, t)
      BY <3>3, SameScores
    <3> QED BY <3>4, <3>5, SameReads
  <2>4. CASE AnalyzeNext
    <3> SUFFICES ASSUME NEW t \in 0..settled, ~ Backfills(t) PROVE Rendered(t)' = Rendered(t)
      OBVIOUS
    <3>1. /\ obs' = obs /\ scores \subseteq scores'
          /\ \A w \in scores' \ scores : w.at = cutoff
      BY <2>4, OneSubject
    <3>2. \A s : /\ SeriesValue(s, t)' = SeriesValue(s, t)
                 /\ SeriesValue(s, t - TicksPerDay)' = SeriesValue(s, t - TicksPerDay)
      BY <3>1, SameObservations
    <3>3. \A x : Latest(x, t)' = Latest(x, t) /\ TheOneBefore(x, t)' = TheOneBefore(x, t)
      <4>1. CASE Day(cutoff) \in analyzed
        BY <2>4, <4>1, RepeatsAreRefused, SameScores
      <4>2. CASE ~ (cutoff <= t)
        <5>1. t \in Nat /\ cutoff \in Nat /\ \A w \in scores : w.at \in Nat
          BY DEF IInv, TypeOK
        <5> QED BY <3>1, <4>2, <5>1, LaterScoreIsUnseen
      <4>3. ~ Idle
        BY <2>4 DEF AnalyzeNext
      <4> QED BY <4>1, <4>2, <4>3 DEF Backfills
    <3> QED BY <3>2, <3>3, SameReads
  <2> QED BY <2>1, <2>2, <2>3, <2>4 DEF Next
<1> QED BY <1>1, Invariance, PTL DEF Spec, PastReportsReproduce
=============================================================================
