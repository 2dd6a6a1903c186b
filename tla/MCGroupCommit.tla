--------------------------- MODULE MCGroupCommit ---------------------------
(***************************************************************************)
(* Instances of GroupCommit for TLC.                                       *)
(***************************************************************************)
EXTENDS GroupCommit, TLC

CONSTANTS c1, c2, c3, k1, k2, big

\* A write that fits and one that does not, and the two halves of a write skew:
\* each writes one key and locks the other.
WriteSkew == {<<{k1}, {}>>, <<{k1, big}, {}>>, <<{k1}, {k2}>>, <<{}, {k1}>>, <<{k2}, {k1}>>}

\* Batches on one key, and transactions that may also do nothing.
OneKey == {<<{}, {}>>, <<{k1}, {}>>}
=============================================================================
