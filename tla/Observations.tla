---------------------------- MODULE Observations ----------------------------
(***************************************************************************)
(* The observations table and the questions asked of it.                   *)
(*                                                                         *)
(* A row says: at `vintage`, the value of `series` for `period` was        *)
(* `value`.  Rows are never updated or deleted (the trigger of migration   *)
(* 0005), so the table is a growing set.  The operators are pure: what     *)
(* plan_writes accepts, what the INSERT stores, and what as_of, revisions  *)
(* and first_print read back.  Everything that keeps or reads observations *)
(* is built from them.                                                     *)
(*                                                                         *)
(* A "timeline" is a set of records with at least the fields vintage and   *)
(* value: the stored vintages of one period, or the points being planned.  *)
(* A published gap (Python's None) is an ordinary value: same_value makes  *)
(* it equal to itself and different from every figure.                     *)
(***************************************************************************)
EXTENDS Integers, FiniteSets

(* What precedes an instant: strictly, as the `<` of _value_before.        *)
Before(timeline, t) == {r \in timeline : r.vintage < t}

(* The last entry of a timeline in vintage order.                          *)
Newest(timeline) ==
  CHOOSE r \in timeline : \A q \in timeline : q.vintage <= r.vintage

(* _value_before returns (found, latest): whether anything precedes t, and *)
(* the value in force just before it.                                      *)
HadPredecessor(timeline, t) == Before(timeline, t) # {}
ValueBefore(timeline, t)    == Newest(Before(timeline, t)).value

(* _changes_before: the revision number a row written at t is given.       *)
ChangesBefore(timeline, t) == Cardinality(Before(timeline, t))

(* The skip of plan_writes: a candidate repeats what was already in force. *)
NewInformation(timeline, c) ==
  HadPredecessor(timeline, c.vintage) => ValueBefore(timeline, c.vintage) # c.value

(* Candidates whose vintage is already stored are dropped before planning. *)
Candidates(existing, incoming) ==
  {c \in incoming : \A r \in existing : r.vintage # c.vintage}

(* plan_writes as a relation: `accepted` is what the loop accepts from     *)
(* `incoming` (one candidate per vintage) for one period.  The loop visits *)
(* candidates in vintage order and adds each accepted one to the timeline, *)
(* so a candidate is judged against the stored rows and the accepted       *)
(* candidates that precede it: exactly one set satisfies this              *)
(* (PlannerLoop checks the relation against the loop itself).              *)
IsPlan(existing, incoming, accepted) ==
  /\ accepted \subseteq Candidates(existing, incoming)
  /\ \A c \in Candidates(existing, incoming) :
        c \in accepted <=> NewInformation(existing \cup accepted, c)

-----------------------------------------------------------------------------
(* The stored vintages of one period of one series.                        *)
RowsOf(obs, s, p) == {r \in obs : r.series = s /\ r.period = p}

SameKey(r, q) ==
  r.series = q.series /\ r.period = q.period /\ r.vintage = q.vintage

(* INSERT ... ON CONFLICT (series_id, observation_date, vintage_at)        *)
(* DO NOTHING.                                                             *)
InsertRows(obs, new) ==
  obs \cup {n \in new : \A r \in obs : ~ SameKey(r, n)}

-----------------------------------------------------------------------------
(* Reads.  KnownAt is the WHERE clause of as_of for one period; InForce is *)
(* the row DISTINCT ON ... ORDER BY vintage_at DESC keeps for it.          *)
KnownAt(obs, s, p, t) == {r \in RowsOf(obs, s, p) : r.vintage <= t}
InForce(obs, s, p, t) == Newest(KnownAt(obs, s, p, t))

(* as_of: the periods knowable at t, each with its row.                    *)
AsOf(obs, s, t) ==
  {InForce(obs, s, p, t) : p \in {r.period : r \in {q \in obs : q.series = s /\ q.vintage <= t}}}

(* latest_as_of: the row of the newest period knowable at t.               *)
LatestAsOf(obs, s, t) ==
  CHOOSE r \in AsOf(obs, s, t) : \A q \in AsOf(obs, s, t) : q.period <= r.period

(* first_print (validation/scoring.py): the oldest vintage at or before    *)
(* `t` that carries a figure.                                              *)
Printed(obs, s, p, t, gap) == {r \in KnownAt(obs, s, p, t) : r.value # gap}
FirstPrint(obs, s, p, t, gap) ==
  CHOOSE r \in Printed(obs, s, p, t, gap) :
    \A q \in Printed(obs, s, p, t, gap) : r.vintage <= q.vintage

-----------------------------------------------------------------------------
(* What a normalize run adds for the readers of the table: rows of vintage *)
(* from..to, each new information, one per period and vintage.             *)
FreshBatch(obs, batch, from, to) ==
  \A r \in batch :
    LET timeline == RowsOf(obs \cup batch, r.series, r.period)
    IN /\ r.vintage \in from..to /\ r \notin obs
       /\ \A q \in timeline : q.vintage = r.vintage => q = r
       /\ NewInformation(timeline, r)

(* The batches of at most `size` rows, 1 or 2.                             *)
Batches(rows, size) ==
  {{r} : r \in rows} \cup (IF size < 2 THEN {} ELSE {{r, q} : r, q \in rows})
=============================================================================
