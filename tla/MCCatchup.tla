------------------------------ MODULE MCCatchup ------------------------------
(* Small instances of Catchup for TLC. *)
EXTENDS Catchup, TLC

\* Two rows and one free key, with no unique index and with one.
Plain == [rows |-> (1 :> [u |-> 1, t |-> 51]) @@ (2 :> [u |-> 1, t |-> 52]) @@ (3 :> NoRow),
          values |-> {1}, unique |-> FALSE, txs |-> <<>>, landed |-> FALSE, restarts |-> 0]
Unique == [Plain EXCEPT !.rows[2] = [u |-> 2, t |-> 52], !.values = {1, 2}, !.unique = TRUE]

\* n transactions of len changes each over the given keys.
with(s, n, len, keys) == [s EXCEPT !.txs = [i \in 1 .. n |-> [len |-> len, keys |-> keys]]]

OneWrite == {with(Unique, 1, 1, Key)}

\* Two writes beside the copy under a unique index, the first of them to row 1 or
\* the free key (row 2 is the mirror image of row 1); three to a pair of keys once
\* the copy has landed.
Writes == {[with(Unique, 2, 1, Key) EXCEPT !.txs[1].keys = {1, 3}]} \cup {[with(Plain, 3, 1, ks) EXCEPT !.landed = TRUE] : ks \in {{1, 2}, {1, 3}}}

\* Three writes under a unique index, once the copy has landed.
WritesAfterCopy == {[with(Unique, 3, 1, Key) EXCEPT !.landed = TRUE]}

\* A restart beside a transaction of two changes, or beside two of one,
\* over one row and a free key.
Restarts == {[s EXCEPT !.restarts = 1] : s \in
    {with(Plain, 1, 2, {1, 3}), [with(Plain, 2, 1, {1, 3}) EXCEPT !.txs[1].keys = {1}]}}

WritesAndRestarts == Writes \cup Restarts
=============================================================================
