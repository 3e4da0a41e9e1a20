---------------------------- MODULE MCCallJournal ----------------------------
(* Small instances of CallJournal: messages of two or three tool calls.      *)
EXTENDS CallJournal
=============================================================================
