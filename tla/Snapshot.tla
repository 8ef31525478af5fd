------------------------------ MODULE Snapshot ------------------------------
(***************************************************************************)
(* pkg/applier/snapshot.go: whether a snapshot of the source shows a       *)
(* transaction of the stream.  The stream numbers transactions in 32 bits, *)
(* the snapshot in 64, so Visible first widens the number.  Catchup, which *)
(* decides which drained changes the copier's chunk has read, numbers its  *)
(* transactions without a width: the theorems of CatchupProofs let it.     *)
(***************************************************************************)
EXTENDS Integers

\* The ids of 32 bits, and where int32 turns negative.
Epoch == 4294967296

HalfEpoch == 2147483648

\* int64(int32(n)), of a uint32.
signed(n) == IF n < HalfEpoch THEN n ELSE n - Epoch

\* The 64-bit id nearest xmax with these low bits, and 0 below the first.
lift(xmax, xid) ==
    LET distance == signed((xid - xmax) % Epoch) IN
    IF distance >= 0 THEN xmax + distance
    ELSE IF -distance > xmax THEN 0
    ELSE xmax - (-distance)

\* The zero Snapshot has not been read; AllVisible, taken under the swap's lock,
\* shows every transaction.
Snapshots == [all : BOOLEAN, read : BOOLEAN, xmin : Nat, xmax : Nat, inProgress : SUBSET Nat]

Visible(s, xid) ==
    LET full == lift(s.xmax, xid) IN
    \/ s.all
    \/ s.read /\ (full < s.xmin \/ (full < s.xmax /\ full \notin s.inProgress))
=============================================================================
