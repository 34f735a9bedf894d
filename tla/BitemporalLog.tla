---------------------------- MODULE BitemporalLog ----------------------------
(***************************************************************************)
(* What the observations table is to its readers: for each series, a       *)
(* function from instants to what was knowable then, in which the past     *)
(* never changes.  A series is settled up to an instant; learning settles  *)
(* it further and may only change what is knowable from the settled        *)
(* instant on.  A reader who asks about an instant before it gets the same *)
(* answer for ever, which is what makes a backtest, a score or a replayed  *)
(* report reproducible (CONSTITUTION Art.6; repo.py, as_of).               *)
(***************************************************************************)
EXTENDS Naturals

CONSTANTS Series, Periods, Values, MaxTime,
          Unknown   \* no row: nothing was knowable

VARIABLES now,
          settled,  \* instants before settled[s] are final for s
          view      \* view[s][p][t]: the value of p knowable at t

vars == <<now, settled, view>>

Instants == 0..MaxTime
Reading  == [Periods -> [Instants -> Values \cup {Unknown}]]

Init ==
  /\ now = 0
  /\ settled = [s \in Series |-> 0]
  /\ view = [s \in Series |-> [p \in Periods |-> [t \in Instants |-> Unknown]]]

Tick ==
  /\ now' = now + 1
  /\ now' \in Instants
  /\ UNCHANGED <<settled, view>>

(* What is knowable at an instant is never forgotten.                      *)
Extends(old, new, from) ==
  \A p \in Periods, t \in Instants :
    /\ t < from => new[p][t] = old[p][t]
    /\ old[p][t] # Unknown => new[p][t] # Unknown

Learn(s) ==
  /\ settled'[s] \in settled[s]..now
  /\ settled' = [settled EXCEPT ![s] = settled'[s]]
  /\ view'[s] \in Reading
  /\ view' = [view EXCEPT ![s] = view'[s]]
  /\ Extends(view[s], view'[s], settled[s])
  /\ UNCHANGED now

Next == Tick \/ \E s \in Series : Learn(s)

Spec == Init /\ [][Next]_vars
=============================================================================
