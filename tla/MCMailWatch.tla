------------------------------ MODULE MCMailWatch ------------------------------
(* Instances of MailWatch.                                                 *)
EXTENDS MailWatch

CONSTANTS d1, d2, d3, d4, d5

FiveDocuments == <<d1, d2, d3, d4, d5>>
================================================================================
