----------------------------- MODULE MailRecords -----------------------------
(* The records under data/knowledge/us, one file for each document.        *)
EXTENDS Sequences, SequencesExt

CONSTANTS
  Paths,  \* the documents, in path order
  Torn    \* a file whose writing was cut short: no record, no list of ids

Documents == ToSet(Paths)

ASSUME RecordsAssumption == Paths \in Seq(Documents) /\ IsInjective(Paths)
=============================================================================
