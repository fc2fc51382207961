------------------------ MODULE MCReverseConnection ------------------------
(* ReverseConnection for TLC: every call edits, every desktop offers the   *)
(* context tool, and some also the tool that edits.                        *)
EXTENDS ReverseConnection, TLC

CONSTANTS c1, c2, s1, s2, s3, context, edit

Edits == [c \in Calls |-> edit]
=============================================================================
