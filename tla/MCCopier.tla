------------------------------ MODULE MCCopier ------------------------------
(* Small instances of Copier for TLC. *)
EXTENDS Copier

CONSTANTS w1, w2
MCWorkers == {w1, w2}

\* Over the whole key space, with one pass a chunk; after a checkpoint, with the
\* three passes in which a chunk settles around a pending key and still lands;
\* and a run that resumes after a checkpoint and is resumed once more.
MCLimits ==
    {[attempts |-> 1, runs |-> 1, from |-> ZeroWatermark],
     [attempts |-> 3, runs |-> 1, from |-> NewWatermark(MinInt64)],
     [attempts |-> 1, runs |-> 2, from |-> NewWatermark(MinInt64)]}
=============================================================================
