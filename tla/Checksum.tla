------------------------------ MODULE Checksum ------------------------------
(***************************************************************************)
(* pkg/checksum: one verification pass over the shadow, quiesced (Check)   *)
(* or while the source is written and the catch-up applies the stream      *)
(* (CheckLive), with its repairs.                                          *)
(*                                                                         *)
(* A table is a function from keys to values, 0 where there is no row, and *)
(* the digest of a chunk is its rows: the hash is taken to be injective.   *)
(* The catch-up is what the pass sees of it through ConfirmedSource and    *)
(* FlushGate; module Catchup models the catch-up itself.                   *)
(***************************************************************************)
EXTENDS Integers, Sequences

CONSTANTS
    Keys,             \* 1..n
    Scenarios,        \* the tables, the policy and the writers of a pass
    MaxWrites,        \* transactions the source commits
    Attempts,         \* LiveOptions.Attempts
    RecopyAttempts    \* Options.RecopyAttempts

ASSUME BoundsAssumption == Attempts \in Nat \ {0} /\ RecopyAttempts \in Nat \ {0} /\ Keys \subseteq Nat

\* Both tables are over the key space, and the watermark lies in it.
ASSUME ScenariosAssumption ==
    \A s \in Scenarios :
        /\ s.live \in BOOLEAN /\ s.replaced \in BOOLEAN
        /\ s.source \in [Keys -> Int] /\ s.shadow \in [Keys -> Int]
        /\ s.through \in Nat /\ 1 .. s.through \subseteq Keys
        /\ s.touches \subseteq Keys

VARIABLES
    scenario,    \* the member of Scenarios this behaviour is about
    history,     \* the source after each commit since the stream was opened
    shadow,      \* the shadow table
    oid,         \* the shadow's relation: 1 is the one the proof names
    applied,     \* per key, the position whose image the stream last flushed
    confirmed,   \* the catch-up's confirmed position
    v            \* the verifier's pass

vars == <<scenario, history, shadow, oid, applied, confirmed, v>>

source == history[Len(history)]

through == scenario.through

-----------------------------------------------------------------------------
(* Tables *)

Rows(t, lo, hi) == [k \in {j \in Keys : lo <= j /\ j <= hi} |-> t[k]]

\* The rows of f, and those of g elsewhere.
Over(f, g) == [k \in DOMAIN f \cup DOMAIN g |-> IF k \in DOMAIN f THEN f[k] ELSE g[k]]

\* No two rows hold the same value of the unique column.
Distinct(t) == \A j, k \in DOMAIN t : t[j] = t[k] /\ t[j] # 0 => j = k

\* The stream still carries a change of k to the shadow.
Changes(k, from, to) == \E p \in from + 1 .. to : history[p][k] # history[p - 1][k]

Owed(k) == Changes(k, applied[k], Len(history))

Differs(k) == shadow[k] # source[k] /\ ~Owed(k)

-----------------------------------------------------------------------------
(* The source and the catch-up *)

\* A transaction: one row changes, or a value moves from one row to another.
\* "toggle" is a source that sets a row back to what it was; "fresh" is one
\* that never does.
Returns(t) == \E k \in Keys : t[k] # source[k] /\ \E p \in DOMAIN history : history[p][k] = t[k]

Written(k, j) ==
    CASE scenario.writes = "none" -> {}
      [] scenario.writes = "toggle" -> {t \in {[source EXCEPT ![k] = 3 - @]} : source[k] # 0}
      [] OTHER -> {t \in {[source EXCEPT ![k] = 9 + Len(history)], [source EXCEPT ![k] = 0],
                          [source EXCEPT ![k] = 0, ![j] = source[k]]} : t # source /\ ~Returns(t)}

Write ==
    /\ Len(history) <= MaxWrites /\ v.pc # "done"
    /\ \E k, j \in scenario.touches : \E t \in Written(k, j) : history' = Append(history, t)
    /\ UNCHANGED <<scenario, shadow, oid, applied, confirmed, v>>

\* The live repair's hold, from Pause to its resume.
FlushesHeld == v.pc \in {"copy", "commit"}

\* A flush brings some keys to their image at a position it has read.
Flush ==
    /\ scenario.live /\ ~FlushesHeld /\ oid = 1
    /\ \E r \in 2..Len(history) : \E ks \in SUBSET {k \in Keys : Changes(k, applied[k], r)} :
          /\ ks # {}
          /\ shadow' = [k \in Keys |-> IF k \in ks THEN history[r][k] ELSE shadow[k]]
          /\ applied' = [k \in Keys |-> IF k \in ks THEN r ELSE applied[k]]
    /\ Distinct(shadow')
    /\ UNCHANGED <<scenario, history, oid, confirmed, v>>

\* Confirmed: below it every change to a landed key is in the shadow.
Confirm ==
    /\ scenario.live
    /\ \E p \in confirmed + 1 .. Len(history) :
          /\ \A k \in Keys : ~Changes(k, applied[k], p)
          /\ confirmed' = p
    /\ UNCHANGED <<scenario, history, shadow, oid, applied, v>>

\* Another session drops the shadow and creates one of the same name.
ReplaceShadow ==
    /\ scenario.replaced /\ oid = 1
    /\ oid' = 2
    /\ shadow' = [k \in Keys |-> 0]
    /\ UNCHANGED <<scenario, history, applied, confirmed, v>>

-----------------------------------------------------------------------------
(* The pass *)

Nothing == [lo |-> 0, hi |-> 0, source |-> <<>>, shadow |-> <<>>, lsn |-> 0, real |-> FALSE]

\* "differing" are the observations to settle, "mismatches" the findings,
\* "copied" the rows the open recopy has put back.
NewPass ==
    [pc |-> "start", lower |-> 1, differing |-> <<>>, i |-> 1, prior |-> Nothing, now |-> Nothing,
     rereads |-> 0, mismatches |-> <<>>, unsettled |-> 0, repairing |-> FALSE, copied |-> <<>>, attempt |-> 1,
     outcome |-> "none"]

World == <<scenario, history, shadow, oid, applied, confirmed>>

Finish(outcome) == v' = [NewPass EXCEPT !.pc = "done", !.outcome = outcome]

\* One snapshot of both tables.  "real" is not the code's: whether the chunk
\* holds a row the stream will not mend.
digestRange(lo, hi) ==
    [lo |-> lo, hi |-> hi, source |-> Rows(source, lo, hi), shadow |-> Rows(shadow, lo, hi), lsn |-> 0,
     real |-> \E k \in lo..hi : Differs(k)]

\* begin and guard: the relations are the ones the proof names.
guard == oid = 1

\* Check and CheckLive up to the sweep.
Check ==
    /\ v.pc = "start"
    /\ UNCHANGED World
    /\ IF scenario.live /\ scenario.policy = "recopy" THEN Finish("refused")
       ELSE IF through = 0 THEN Finish("refused")
       ELSE v' = [v EXCEPT !.pc = "sweep"]

\* A compared chunk; the sweep ends at the watermark.
AfterChunk(hi) == IF hi < through THEN "sweep" ELSE IF scenario.live THEN "settle" ELSE "decide"

Compared(o) ==
    [v EXCEPT !.pc = AfterChunk(o.hi), !.lower = o.hi + 1, !.now = Nothing,
              !.differing = IF scenario.live /\ o.source # o.shadow THEN Append(@, o) ELSE @,
              !.mismatches = IF ~scenario.live /\ o.source # o.shadow THEN Append(@, o) ELSE @]

\* The chunker cuts a chunk of any size.
compareNext ==
    /\ v.pc = "sweep" /\ guard
    /\ UNCHANGED World
    /\ \E hi \in v.lower..through :
          LET o == digestRange(v.lower, hi)
          IN  v' = IF scenario.live /\ o.source # o.shadow THEN [v EXCEPT !.pc = "mark", !.now = o] ELSE Compared(o)

\* The marker comes after the reads, in the same transaction.
markPosition ==
    /\ v.pc = "mark"
    /\ UNCHANGED World
    /\ v' = Compared([v.now EXCEPT !.lsn = Len(history)])

\* sweepAndSettle's loop; after a repair, repairLive's.
SettleNext ==
    /\ v.pc = "settle"
    /\ UNCHANGED World
    /\ IF v.i > Len(v.differing)
       THEN IF ~v.repairing THEN v' = [v EXCEPT !.pc = "decide"]
            ELSE Finish(IF v.unsettled > 0 THEN "unresolved" ELSE "repaired")
       ELSE v' = [v EXCEPT !.pc = "await", !.prior = v.differing[v.i], !.rereads = 0]

Settled == v' = [v EXCEPT !.pc = "settle", !.i = @ + 1]

Unresolved ==
    IF v.repairing THEN Finish("unresolved")
    ELSE v' = [v EXCEPT !.pc = "settle", !.i = @ + 1, !.unsettled = @ + 1]

Diverged(o) ==
    IF v.repairing THEN Finish("repair-error")
    ELSE v' = [v EXCEPT !.pc = "settle", !.i = @ + 1, !.mismatches = Append(@, o)]

\* Mutant: the reread does not wait for the catch-up.
AwaitNothing ==
    /\ v.pc = "await"
    /\ UNCHANGED World
    /\ v' = [v EXCEPT !.pc = "reread"]

\* Mutant: the wait has no bound.
AwaitForever ==
    /\ v.pc = "await"
    /\ UNCHANGED World
    /\ confirmed >= v.prior.lsn
    /\ v' = [v EXCEPT !.pc = "reread"]

\* The polls of a wait may run out while the catch-up is behind.
awaitConfirmed ==
    /\ v.pc = "await"
    /\ UNCHANGED World
    /\ \/ confirmed >= v.prior.lsn /\ v' = [v EXCEPT !.pc = "reread"]
       \/ confirmed < v.prior.lsn /\ Unresolved

observe ==
    /\ v.pc = "reread" /\ guard
    /\ UNCHANGED World
    /\ v' = [v EXCEPT !.pc = "judge", !.now = digestRange(v.prior.lo, v.prior.hi)]

judge(prior, now) ==
    IF now.shadow = now.source THEN "equal"
    ELSE IF now.shadow = prior.source THEN "settled"
    ELSE IF now.source # prior.source \/ now.shadow # prior.shadow THEN "hot"
    ELSE "diverged"

\* settle after the reread's marker.  The first reread after a repair has no
\* read before it, and is not the last one.
settle ==
    /\ v.pc = "judge"
    /\ UNCHANGED World
    /\ LET now == [v.now EXCEPT !.lsn = Len(history)]
           verdict == judge(v.prior, now)
       IN  CASE verdict \in {"equal", "settled"} -> Settled
             [] verdict = "diverged" -> Diverged(now)
             [] verdict = "hot" /\ v.rereads + 1 >= Attempts /\ v.prior.source # <<>> -> Unresolved
             [] OTHER -> v' = [v EXCEPT !.pc = "await", !.prior = now, !.now = Nothing, !.rereads = @ + 1]

\* Mutant: a chunk nobody could settle does not count.
CleanUnlessFound == v.mismatches = <<>>

Clean == v.mismatches = <<>> /\ v.unsettled = 0

\* What the policy makes of the report.
Decide ==
    /\ v.pc = "decide"
    /\ UNCHANGED World
    /\ IF Clean THEN Finish("proved")
       ELSE IF v.mismatches = <<>> THEN Finish("unresolved")
       ELSE IF scenario.policy = "abort" THEN Finish("divergence")
       ELSE v' = [v EXCEPT !.pc = "delete"]

-----------------------------------------------------------------------------
(* The recopy: one transaction, every delete before the first copy *)

InMismatch(k) == \E n \in DOMAIN v.mismatches : v.mismatches[n].lo <= k /\ k <= v.mismatches[n].hi

TxView == [k \in Keys |-> IF k \in DOMAIN v.copied THEN v.copied[k] ELSE IF InMismatch(k) THEN 0 ELSE shadow[k]]

DeleteChunks ==
    /\ v.pc = "delete" /\ guard
    /\ UNCHANGED World
    /\ v' = [v EXCEPT !.pc = "copy", !.i = 1, !.copied = <<>>]

\* recopyUntilClear compares again after a collision; any other policy ends.
Collided ==
    IF scenario.policy = "recopy" /\ v.attempt < RecopyAttempts
    THEN v' = [NewPass EXCEPT !.pc = "sweep", !.attempt = v.attempt + 1]
    ELSE Finish("failed")

\* Each chunk's copy is a statement, and a snapshot of the source, of its own.
CopyChunk ==
    /\ v.pc = "copy"
    /\ UNCHANGED World
    /\ LET m == v.mismatches[v.i]
           view == Over(Rows(source, m.lo, m.hi), TxView)
       IN  IF ~Distinct(view) THEN Collided
           ELSE v' = [v EXCEPT !.copied = Over(Rows(source, m.lo, m.hi), @), !.i = @ + 1,
                               !.pc = IF v.i = Len(v.mismatches) THEN "commit" ELSE "copy"]

\* The commit, with the marker before it; a live repair settles its chunks
\* again, a quiesced one rereads them, a reconciliation does neither.
CommitRecopy ==
    /\ v.pc = "commit"
    /\ shadow' = TxView
    /\ UNCHANGED <<scenario, history, oid, applied, confirmed>>
    /\ IF scenario.live
       THEN v' = [v EXCEPT !.pc = "settle", !.i = 1, !.repairing = TRUE, !.copied = <<>>,
                           !.differing = [n \in DOMAIN v.mismatches |->
                              [Nothing EXCEPT !.lo = v.mismatches[n].lo, !.hi = v.mismatches[n].hi,
                                              !.lsn = Len(history)]]]
       ELSE IF scenario.policy = "repair"
       THEN v' = [v EXCEPT !.pc = "recheck", !.i = 1, !.copied = <<>>]
       ELSE Finish("recopied")

\* reread.
Reread ==
    /\ v.pc = "recheck" /\ guard
    /\ UNCHANGED World
    /\ LET m == v.mismatches[v.i]
           o == digestRange(m.lo, m.hi)
       IN  IF o.source # o.shadow THEN Finish("repair-error")
           ELSE IF v.i = Len(v.mismatches) THEN Finish("repaired")
           ELSE v' = [v EXCEPT !.i = @ + 1]

\* confirmRelations refuses every transaction of the pass from then on.
GuardRefuses ==
    /\ v.pc \in {"sweep", "reread", "delete", "recheck"} /\ ~guard
    /\ UNCHANGED World
    /\ Finish("refused")

\* A statement, a connection, the context or the table lock fails; a recopy
\* that has not committed rolls back.
PassFails ==
    /\ v.pc \notin {"start", "done"}
    /\ UNCHANGED World
    /\ Finish("failed")

-----------------------------------------------------------------------------

Init ==
    /\ scenario \in Scenarios
    /\ history = <<scenario.source>>
    /\ shadow = scenario.shadow
    /\ oid = 1
    /\ applied = [k \in Keys |-> 1]
    /\ confirmed = 1
    /\ v = NewPass

PassAdvances ==
    \/ Check \/ compareNext \/ markPosition \/ SettleNext \/ awaitConfirmed \/ observe \/ settle \/ Decide
    \/ DeleteChunks \/ CopyChunk \/ CommitRecopy \/ Reread
    \/ GuardRefuses

Next == PassAdvances \/ PassFails \/ Write \/ Flush \/ Confirm \/ ReplaceShadow

\* The verifier's goroutine runs; the source and the catch-up may stall.
Spec == Init /\ [][Next]_vars /\ WF_vars(PassAdvances)

-----------------------------------------------------------------------------
(* Properties *)

\* A pass that vouches for the shadow is right: when it minted its proof, or
\* returned its repairs without an error, every key through the watermark is
\* equal on both sides or has a change in the stream that makes it so
\* (check.go prove, live.go CheckLive, recopy_retry.go recopyUntilClear).
PassIsSound ==
    v.outcome \in {"proved", "repaired", "recopied"} /\ oid = 1 =>
        \A k \in 1..through : ~Differs(k)

\* A chunk is called divergent only when the stream has delivered everything
\* the source held and a row still differs (settle.go verdictDiverged: "the
\* stream has delivered everything the source holds and the shadow does not
\* match it").
DivergenceIsReal ==
    scenario.live => \A n \in DOMAIN v.mismatches : v.mismatches[n].real

\* A pass ends, however hot the source, however far behind the catch-up, and
\* however often a recopy collides (settle.go awaitConfirmed, settle;
\* recopy_retry.go recopyUntilClear).
PassEnds == <>(v.pc = "done")
=============================================================================
