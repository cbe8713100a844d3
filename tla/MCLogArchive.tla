----------------------------- MODULE MCLogArchive -----------------------------
(* Instances of LogArchive for TLC.                                         *)
EXTENDS LogArchive

CONSTANTS sip, http

TwoLogs == <<sip, http>>
=============================================================================
