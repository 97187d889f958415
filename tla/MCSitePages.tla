---------------------------- MODULE MCSitePages ----------------------------
(* Instances of SitePages for TLC.                                          *)
EXTENDS SitePages, SequencesExt

CONSTANT MaxRows

(* Every sequence of full and empty rows up to a length.                    *)
Rows == BoundedSeq(BOOLEAN, MaxRows)

(* The options, the pages, a type of posts and the front page.              *)
FourStatements == <<0, 0, 1, 0>>

=============================================================================
