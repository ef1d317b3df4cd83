------------------------------ MODULE SegIndex ------------------------------
(***************************************************************************)
(* What a segment directory promises, without files: the index is the set  *)
(* of published segments, a publish and a removal take effect at once, and *)
(* a crash keeps everything that was acknowledged.  An operation that was  *)
(* not acknowledged, because it is still running or because it returned an *)
(* error, is in doubt: a crash may leave the index with it or without it,  *)
(* and there is nothing in between.                                        *)
(***************************************************************************)
CONSTANTS Seqs, Builds, NoFile

VARIABLES
    acked,  \* the index as the last acknowledged operation left it
    doubt   \* the other indexes a crash may leave

vars == <<acked, doubt>>

Init ==
    /\ acked = [s \in Seqs |-> NoFile]
    /\ doubt = {}

\* The index with one segment more, or with some segments less.
Outcomes ==
    {[acked EXCEPT ![s] = b] : s \in {t \in Seqs : acked[t] = NoFile}, b \in Builds}
    \cup {[s \in Seqs |-> IF s \in S THEN NoFile ELSE acked[s]] : S \in SUBSET Seqs}

\* An operation may have taken effect on disk and has not been acknowledged;
\* or one that was in doubt no longer is.
Attempt ==
    /\ doubt' \subseteq doubt \cup Outcomes
    /\ UNCHANGED acked

Acknowledge ==
    /\ acked' \in Outcomes
    /\ doubt' = {}

Crash ==
    /\ acked' \in doubt \cup {acked}
    /\ doubt' = {}

Next == Attempt \/ Acknowledge \/ Crash

Spec == Init /\ [][Next]_vars
=============================================================================
