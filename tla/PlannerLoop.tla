----------------------------- MODULE PlannerLoop -----------------------------
(***************************************************************************)
(* series/planner.py, plan_writes, as the loop it is: for one reference    *)
(* period, the candidates in vintage order, each judged against the        *)
(* timeline as the previous iterations left it.  VintageProofs shows, for  *)
(* every stored timeline and every batch, that it computes the relation    *)
(* IsPlan the rest of the project uses, and what the docstring promises of *)
(* a batch.                                                                *)
(*                                                                         *)
(* The sorted lists of the code are the sets they list: _value_before      *)
(* keeps the last entry below an instant, _changes_before counts them.     *)
(***************************************************************************)
EXTENDS Observations

CONSTANT Readings  \* figures, one of which may stand for a published gap

VARIABLES existing,  \* stored rows of the period, fixed during the call
          incoming,  \* the batch as it was given
          queue,     \* candidates still to visit
          timeline,  \* the list the loop appends to
          planned    \* the PlannedWrites so far

loopVars == <<existing, incoming, queue, timeline, planned>>

Vintage == [vintage : Nat, value : Readings]

(* The primary key of a stored row; and providers list a vintage once.     *)
OnePerVintage(points) == \A c, e \in points : c.vintage = e.vintage => c = e

LoopInit ==
  /\ existing \in SUBSET Vintage /\ OnePerVintage(existing)
  /\ incoming \in SUBSET Vintage /\ OnePerVintage(incoming)
  /\ queue = Candidates(existing, incoming)
  /\ timeline = existing
  /\ planned = {}

(* The candidate the sorted list yields next.                              *)
IsFirst(c) == c \in queue /\ \A other \in queue : c.vintage <= other.vintage

PlannedWrite(c) ==
  [vintage |-> c.vintage, value |-> c.value,
   rev |-> ChangesBefore(timeline, c.vintage),
   isRevision |-> HadPredecessor(timeline, c.vintage)]

Skip(c) ==
  /\ IsFirst(c)
  /\ ~ NewInformation(timeline, c)
  /\ queue' = queue \ {c}
  /\ UNCHANGED <<existing, incoming, timeline, planned>>

(* "Accepted points join the timeline so a later candidate in the same     *)
(* batch is judged against them, not against a stale picture."             *)
Accept(c) ==
  /\ IsFirst(c)
  /\ NewInformation(timeline, c)
  /\ planned' = planned \cup {PlannedWrite(c)}
  /\ timeline' = timeline \cup {c}
  /\ queue' = queue \ {c}
  /\ UNCHANGED <<existing, incoming>>

LoopNext == \E c \in queue : Skip(c) \/ Accept(c)
LoopSpec == LoopInit /\ [][LoopNext]_loopVars

-----------------------------------------------------------------------------
Done   == queue = {}
Wrote  == {[vintage |-> w.vintage, value |-> w.value] : w \in planned}
Stored == existing \cup Wrote

(* planner.py:41 - the loop and the relation agree: what the loop accepts  *)
(* is the one set IsPlan allows, each write numbered by what precedes it   *)
(* in the timeline the call leaves behind, so that later acceptances do    *)
(* not disturb a revision number.                                          *)
LoopIsThePlan ==
  Done =>
    /\ \A a \in SUBSET incoming : IsPlan(existing, incoming, a) <=> a = Wrote
    /\ \A w \in planned :
         /\ w.rev = ChangesBefore(Stored, w.vintage)
         /\ w.isRevision = HadPredecessor(Stored, w.vintage)

(* planner.py:53 - "re-running a backfill must be a no-op": the same batch *)
(* planned again over what it left stored plans nothing.                   *)
RerunPlansNothing == Done => IsPlan(Stored, incoming, {})

(* planner.py:7 - for a batch that lies after everything stored (a poll,   *)
(* a first import) the stored rows are exactly the moments the value       *)
(* changed: every row differs from the one before it.                      *)
PollKeepsRowsChanges ==
  /\ Done
  /\ \A c \in existing : NewInformation(existing, c)
  /\ \A r \in existing, c \in incoming : r.vintage < c.vintage
  => \A c \in Stored : NewInformation(Stored, c)
=============================================================================
