--------------------------- MODULE MCMailArtifacts ---------------------------
(* Instances of MailArtifacts: two documents, the second of which has a    *)
(* translation that breaks the rules of ADR-017, and one the database      *)
(* import refuses although publish accepts it.                             *)
EXTENDS MailArtifacts

CONSTANTS d1, d2

TwoDocuments == <<d1, d2>>
BadForPublish == {<<d2, 1>>}
BadForImport == {<<d2, 2>>}
=============================================================================
