------------------------------- MODULE Catchup -------------------------------
(***************************************************************************)
(* The online copy of one table: client transactions on the source, the    *)
(* logical stream of their changes (pkg/decode), the copier claiming,      *)
(* reading and landing chunks (pkg/copier), and the catch-up loop that     *)
(* buffers, drains, flushes and confirms the stream (pkg/applier), with an *)
(* engine restart at any point.                                            *)
(*                                                                         *)
(* The position of a transaction is its index in wal: a stream that has    *)
(* delivered position n has delivered the first n transactions, and the    *)
(* WAL insert position is Len(wal).  A transaction is written to the WAL   *)
(* before any snapshot shows it; unseen holds the ones in that gap.        *)
(***************************************************************************)
EXTENDS Buffer, Sequences

CONSTANTS Scenarios,  \* bounds: the tables, clients and restarts explored
          Workers     \* chunks the copier has in flight at once

NoRow == [u |-> 0, t |-> 0]
RowType == [u : Nat, t : Nat]

\* A scenario: the source rows before the run, the values of column u, whether
\* the shadow has a unique index on it, the transactions the clients commit (how
\* many changes each, over which keys), whether they wait for the copy to land,
\* and how often the engine restarts.
ScenarioType == [rows : [Key -> RowType], values : SUBSET (Nat \ {0}), unique : BOOLEAN,
                 txs : Seq([len : {1, 2}, keys : SUBSET Key]), landed : BOOLEAN, restarts : Nat]

ASSUME CatchupAssumption ==
    /\ \E k \in Key : \A j \in Key : k <= j
    /\ \E k \in Key : \A j \in Key : j <= k
    /\ Scenarios \subseteq ScenarioType
    /\ Workers \in Nat

VARIABLES
    scenario,   \* which one this is
    src,        \* the source rows a new snapshot shows
    wal,        \* committed transactions, each a sequence of changes
    unseen,     \* positions of the ones no snapshot shows yet
    shadow,     \* the shadow rows
    cut,        \* the copier's cut frontier: every key at or below it is claimed
    chunks,     \* claimed chunks not landed
    from,       \* the watermark this run resumed from
    delivered,  \* stream position: transactions delivered whole
    offset,     \* changes delivered of the next one
    slot,       \* where this run's stream started
    confirmed,  \* the position confirmed to the server
    pc,         \* the catch-up cycle: gather, position, flush, confirm
    buf, batch,
    hidden,     \* the transactions the cycle's snapshot does not show
    copied,     \* whether the position of this cycle's drain was complete
    failed,     \* what ended the catch-up, "no" while it runs
    crashes

sourceVars == <<scenario, src, wal, unseen>>
copierVars == <<cut, chunks, from>>
streamVars == <<delivered, offset, slot, confirmed>>
cycleVars == <<pc, buf, batch, hidden, copied, failed>>
vars == <<sourceVars, shadow, copierVars, streamVars, cycleVars, crashes>>

lastKey == CHOOSE k \in Key : \A j \in Key : j <= k
firstKey == CHOOSE k \in Key : \A j \in Key : k <= j
EmptyBatch == [k \in Key |-> NoEntry]
Live(table) == {k \in Key : table[k] # NoRow}
copyLanded == cut >= lastKey /\ chunks = {}

-----------------------------------------------------------------------------
(* Client transactions. *)

\* A change as the WAL carries it: t = 0 where an update left t alone.
change(kind, key, old, u, t) == [kind |-> kind, key |-> key, old |-> old, u |-> u, t |-> t]
WalChange == [kind : {"insert", "update", "delete"}, key : Key, old : Key \cup {NoKey},
              u : Nat, t : Nat]
WalTx == {tx \in Seq(WalChange) : Len(tx) \in {1, 2}}

\* The changes a client may make to a table.  A written t is fresh: nothing in
\* the engine compares two values, so one value per write tells every two
\* writes apart.
Changes(table, fresh) ==
    {change("insert", k, NoKey, u, fresh) : k \in Key \ Live(table), u \in scenario.values}
    \cup {change("update", k, NoKey, u, t) : k \in Live(table), u \in scenario.values, t \in {0, fresh}}
    \cup {change("update", k, o, table[o].u, t) :
             k \in Key \ Live(table), o \in Live(table), t \in {0, fresh}}
    \cup {change("delete", k, NoKey, 0, 0) : k \in Live(table)}

\* The table after one change: a column the event omits keeps its value.
after(table, c) ==
    LET home == IF c.old = NoKey THEN c.key ELSE c.old
        row  == IF c.kind = "delete" THEN NoRow
                ELSE [u |-> c.u, t |-> IF c.t = 0 THEN table[home].t ELSE c.t]
    IN  [k \in Key |-> IF k = c.key THEN row ELSE IF k = c.old THEN NoRow ELSE table[k]]

Distinct(table) == \A j, k \in Live(table) : j # k => table[j].u # table[k].u
legal(table) == scenario.unique => Distinct(table)

afterAll(table, tx) == IF Len(tx) = 1 THEN after(table, tx[1])
                       ELSE after(after(table, tx[1]), tx[2])

\* The keys and unique values a transaction holds locked until it is visible.
keysOf(tx) == UNION {{tx[i].key, tx[i].old} : i \in DOMAIN tx} \ {NoKey}
valuesOf(tx) == {tx[i].u : i \in DOMAIN tx} \cup {src[k].u : k \in keysOf(tx)}

\* The transactions of len changes, one or two, within a set of keys.
Transactions(len, keys) ==
    LET first  == {c \in Changes(src, 2 * Len(wal) + 1) :
                     keysOf(<<c>>) \subseteq keys /\ legal(after(src, c))}
        second(c) == {d \in Changes(after(src, c), 2 * Len(wal) + 2) :
                        keysOf(<<d>>) \subseteq keys /\ legal(afterAll(src, <<c, d>>))}
    IN  IF len = 1 THEN {<<c>> : c \in first}
        ELSE UNION {{<<c, d>> : d \in second(c)} : c \in first}

\* A client transaction's commit record reaches the WAL; it waited for the
\* row locks and unique values of every transaction not yet visible.
ClientCommit(tx) ==
    /\ \A i \in unseen : /\ keysOf(tx) \cap keysOf(wal[i]) = {}
                         /\ scenario.unique => (valuesOf(tx) \cap valuesOf(wal[i])) \ {0} = {}
    /\ wal' = Append(wal, tx)
    /\ unseen' = unseen \cup {Len(wal) + 1}
    /\ UNCHANGED <<scenario, src, shadow, copierVars, streamVars, cycleVars, crashes>>

\* The transaction leaves the set of running ones: snapshots show it.
ClientVisible(i) ==
    /\ i \in unseen
    /\ src' = afterAll(src, wal[i])
    /\ unseen' = unseen \ {i}
    /\ UNCHANGED <<scenario, wal, shadow, copierVars, streamVars, cycleVars, crashes>>

-----------------------------------------------------------------------------
(* The copier.  A chunk is claimed, read in one snapshot and inserted; a    *)
(* chunk whose insert a unique index refused is copied around the rows it   *)
(* collides with, and retried for the keys held off.                        *)

\* What the shadow stores for a source value: the column's USING expression.
convert(v) == v + 100

ChunkType == [lower : Int, upper : Int, todo : SUBSET Key, around : BOOLEAN, read : BOOLEAN,
              rows : [Key -> RowType]]
chunk(lower, upper) == [lower |-> lower, upper |-> upper, todo |-> Key \cap (lower .. upper),
                        around |-> FALSE, read |-> FALSE, rows |-> [k \in Key |-> NoRow]]

\* A chunk that has committed around the keys it held off owes those alone.
Classify(k) == IF k > cut THEN "uncut"
               ELSE IF \E c \in chunks : k \in c.todo THEN "inFlight"
               ELSE "landed"
position == [k \in Key |-> Classify(k)]

\* Contiguously landed keys: what a checkpoint may save as the watermark.
lowWater(cs, top) ==
    LET lowers == {c.lower : c \in cs}
    IN  IF cs = {} THEN top ELSE (CHOOSE l \in lowers : \A m \in lowers : l <= m) - 1
watermark == lowWater(chunks, cut)

Claim(upper) ==
    /\ Cardinality(chunks) < Workers
    /\ cut < upper
    /\ chunks' = chunks \cup {chunk(cut + 1, upper)}
    /\ cut' = upper
    /\ UNCHANGED <<sourceVars, shadow, from, streamVars, cycleVars, crashes>>

\* Variant: every pass owes the whole range again, what it settled included.
ReadChunkWhole(c) ==
    /\ c \in chunks /\ ~c.read
    /\ chunks' = (chunks \ {c}) \cup
         {[c EXCEPT !.read = TRUE, !.todo = Key \cap (c.lower .. c.upper),
                    !.rows = [k \in Key |-> IF k \in c.lower .. c.upper THEN src[k] ELSE NoRow]]}
    /\ UNCHANGED <<sourceVars, shadow, cut, from, streamVars, cycleVars, crashes>>

\* The statement's snapshot: the source rows of the keys it still has to copy.
ReadChunk(c) ==
    /\ c \in chunks /\ ~c.read
    /\ chunks' = (chunks \ {c}) \cup
         {[c EXCEPT !.read = TRUE, !.rows = [k \in Key |-> IF k \in c.todo THEN src[k] ELSE NoRow]]}
    /\ UNCHANGED <<sourceVars, shadow, cut, from, streamVars, cycleVars, crashes>>

clashes(k, u) == scenario.unique /\ \E j \in Live(shadow) : j # k /\ shadow[j].u = u

\* Variant: a chunk lands though rows it collided with are not in the shadow.
InsertChunkSkips(c) ==
    LET new == {k \in Live(c.rows) : shadow[k] = NoRow /\ ~clashes(k, c.rows[k].u)}
    IN  /\ c \in chunks /\ c.read
        /\ shadow' = [k \in Key |-> IF k \in new
                                    THEN [u |-> c.rows[k].u, t |-> convert(c.rows[k].t)]
                                    ELSE shadow[k]]
        /\ chunks' = chunks \ {c}
        /\ UNCHANGED <<sourceVars, cut, from, streamVars, cycleVars, crashes>>

\* The statement's writes and the commit, or the refusal.  A row whose key the
\* shadow already holds is left alone; a chunk with nothing held off lands.
InsertChunk(c) ==
    LET new  == {k \in Live(c.rows) : shadow[k] = NoRow}
        held == {k \in new : clashes(k, c.rows[k].u)}
        retry == [c EXCEPT !.around = TRUE, !.read = FALSE, !.rows = [k \in Key |-> NoRow],
                           !.todo = IF c.around THEN held ELSE c.todo]
    IN  /\ c \in chunks /\ c.read
        /\ shadow' = IF held # {} /\ ~c.around THEN shadow
                     ELSE [k \in Key |-> IF k \in new \ held
                                         THEN [u |-> c.rows[k].u, t |-> convert(c.rows[k].t)]
                                         ELSE shadow[k]]
        /\ chunks' = (chunks \ {c}) \cup (IF held = {} THEN {} ELSE {retry})
        /\ UNCHANGED <<sourceVars, cut, from, streamVars, cycleVars, crashes>>

-----------------------------------------------------------------------------
(* The catch-up cycle. *)

\* gather: one change of the next transaction, buffered under the position
\* delivered before that transaction.
DeliverChange ==
    LET i  == delivered + 1
        c  == wal[i][offset + 1]
        ev == [kind |-> c.kind, key |-> c.key, old |-> c.old, u |-> c.u,
               t |-> sourceForm(c.t), xid |-> i, delivered |-> delivered]
    IN  /\ pc = "gather" /\ failed = "no"
        /\ i <= Len(wal) /\ offset < Len(wal[i])
        /\ buf' = Add(buf, ev)
        /\ failed' = IF Refuses(buf, ev) THEN "refused change" ELSE "no"
        /\ offset' = offset + 1
        /\ UNCHANGED <<sourceVars, shadow, copierVars, delivered, slot, confirmed, pc, batch,
                       hidden, copied, crashes>>

\* gather: the transaction's COMMIT moves the delivered position.
DeliverCommit ==
    /\ pc = "gather" /\ failed = "no"
    /\ delivered < Len(wal) /\ offset = Len(wal[delivered + 1])
    /\ delivered' = delivered + 1
    /\ offset' = 0
    /\ UNCHANGED <<sourceVars, shadow, copierVars, slot, confirmed, cycleVars, crashes>>

\* The end of gather, Release, and the snapshot the drain will judge by.
TakeSnapshot ==
    /\ pc = "gather" /\ failed = "no" /\ Buffered(buf) # {}
    /\ buf' = Release(buf, delivered)
    /\ hidden' = unseen
    /\ pc' = "position"
    /\ UNCHANGED <<sourceVars, shadow, copierVars, streamVars, batch, copied, failed, crashes>>

\* A cycle with nothing to judge, or under a Pause: no drain, no flush.
SkipFlush ==
    /\ pc = "gather" /\ failed = "no"
    /\ buf' = Release(buf, delivered)
    /\ pc' = "confirm"
    /\ UNCHANGED <<sourceVars, shadow, copierVars, streamVars, batch, hidden, copied, failed,
                   crashes>>

\* The copier's Position, read after the snapshot, and the Drain against both.
DrainBuffer ==
    LET v == Verdict(buf, position, hidden)
    IN  /\ pc = "position" /\ failed = "no"
        /\ buf' = Drain(buf, position, hidden)
        /\ batch' = [k \in Key |-> IF k \in v.flush THEN buf.entries[k] ELSE NoEntry]
        /\ copied' = copyLanded
        /\ pc' = IF v.flush = {} THEN "confirm" ELSE "flush"
        /\ hidden' = {}
        /\ UNCHANGED <<sourceVars, shadow, copierVars, streamVars, failed, crashes>>

-----------------------------------------------------------------------------
(* Flush: one transaction over the shadow.                                  *)

named(k) == batch[k].oldKey # NoKey /\ HasMarker(batch[k])

\* completeOne: the old key's shadow row unless that key was reused or holds
\* none, else the source row under the image's own key, else nothing.
completion(k) ==
    LET e == batch[k]
        done(t) == [on |-> TRUE, t |-> t, readLSN |-> Len(wal)]
    IN  IF ~e.reused /\ shadow[e.oldKey] # NoRow THEN done(shadowForm(shadow[e.oldKey].t))
        ELSE IF src[k] # NoRow THEN done(sourceForm(src[k].t))
        ELSE NoPending

checksShadowRow(k) == /\ batch[k].kind = "image" /\ batch[k].oldKey = NoKey
                      /\ batch[k].awaited \/ HasMarker(batch[k])
absent(k) == checksShadowRow(k) /\ shadow[k] = NoRow

\* completeMoved and holdAbsent: the images held back, each with its completion.
holds(k) == IF named(k) THEN completion(k)
            ELSE IF absent(k) THEN [on |-> TRUE, t |-> Marker, readLSN |-> Len(wal)]
            ELSE NoPending
heldBack == [k \in Key |-> holds(k)]
\* An image held for an absent row comes back marked as having waited once.
awaiting == [k \in Key |-> IF absent(k) THEN [batch[k] EXCEPT !.awaited = TRUE] ELSE batch[k]]

\* What is written: deletes first, and an image no row completes is a delete.
deletes == {k \in Key : batch[k].kind = "delete" \/ (named(k) /\ ~holds(k).on)}
images == {k \in Key : batch[k].kind = "image" /\ ~holds(k).on} \ deletes

written(k) ==
    [u |-> batch[k].u,
     t |-> IF ~Present(batch[k].t) THEN shadow[k].t
           ELSE IF batch[k].t.bare THEN batch[k].t.v ELSE convert(batch[k].t.v)]

\* applyColumnWise: images in ascending key order over the shadow less deletes.
columnWiseCollides ==
    scenario.unique /\ \E k \in images, j \in Key \ deletes :
        /\ j # k
        /\ IF j \in images /\ j < k THEN written(j).u = written(k).u
           ELSE shadow[j] # NoRow /\ shadow[j].u = written(k).u

\* applyWholeRows: every key of the batch deleted, then every image inserted.
wholeRowsCollide ==
    scenario.unique /\ \E k \in images, j \in Key \ deletes :
        /\ j # k
        /\ IF j \in images THEN written(j).u = written(k).u
           ELSE shadow[j] # NoRow /\ shadow[j].u = written(k).u

deferred == columnWiseCollides /\ wholeRowsCollide

\* An image that waited out one absence and still has no shadow row.
lostRow == \E k \in Key : absent(k) /\ batch[k].awaited

\* The flush that commits, and Hold of what it did not write.
Flush ==
    /\ pc = "flush" /\ failed = "no"
    /\ ~lostRow /\ ~deferred
    /\ shadow' = [k \in Key |-> IF k \in deletes THEN NoRow
                                ELSE IF k \in images THEN written(k) ELSE shadow[k]]
    /\ IF Taken(buf, {k \in Key : holds(k).on})
       THEN failed' = "hold" /\ UNCHANGED buf
       ELSE buf' = Hold(buf, awaiting, heldBack) /\ UNCHANGED failed
    /\ batch' = EmptyBatch
    /\ pc' = "confirm"
    /\ UNCHANGED <<sourceVars, copierVars, streamVars, hidden, copied, crashes>>

\* What ends the run when a flush does not commit: a lost row, or a batch the
\* shadow refuses with no chunk left to change the outcome.
flushError ==
    IF lostRow THEN "lost row" ELSE IF copied THEN "cannot converge"
    ELSE IF Taken(buf, {k \in Key : batch[k].kind # "none"}) THEN "requeue" ELSE "no"

\* A flush that does not commit: its batch goes back, or the run ends.
DeferFlush ==
    /\ pc = "flush" /\ failed = "no"
    /\ lostRow \/ deferred
    /\ failed' = flushError
    /\ IF flushError = "no" THEN buf' = Requeue(buf, batch) /\ batch' = EmptyBatch /\ pc' = "confirm"
       ELSE UNCHANGED <<buf, batch, pc>>
    /\ UNCHANGED <<sourceVars, shadow, copierVars, streamVars, hidden, copied, crashes>>

\* Variant: confirm everything delivered, buffered or not.
ConfirmDelivered == delivered

confirmBound == IF buf.hasOldest /\ buf.oldest < delivered THEN buf.oldest ELSE delivered

Confirm ==
    /\ pc = "confirm" /\ failed = "no"
    /\ confirmed' = IF confirmBound <= confirmed THEN confirmed ELSE confirmBound
    /\ pc' = "gather"
    /\ UNCHANGED <<sourceVars, shadow, copierVars, delivered, offset, slot, buf, batch, hidden,
                   copied, failed, crashes>>

-----------------------------------------------------------------------------
(* Engine restart.  The new run resumes from a saved watermark, clears the  *)
(* shadow above it and streams from where the slot stands: any positions    *)
(* this run saved or confirmed.                                             *)

\* Variant: the reopened stream keeps the position the crashed run confirmed.
RestartKeepsConfirmed(w, p) ==
    /\ w \in from .. watermark /\ p \in slot .. confirmed
    /\ crashes' = crashes + 1
    /\ shadow' = [k \in Key |-> IF k > w THEN NoRow ELSE shadow[k]]
    /\ cut' = w /\ from' = w /\ chunks' = {}
    /\ delivered' = p /\ offset' = 0 /\ slot' = p
    /\ pc' = "gather" /\ buf' = NewBuffer /\ batch' = EmptyBatch /\ hidden' = {}
    /\ copied' = FALSE /\ failed' = "no"
    /\ UNCHANGED <<sourceVars, confirmed>>

\* Variant: the reopened stream delivers into the buffer it had.
RestartKeepsBuffer(w, p) ==
    /\ w \in from .. watermark /\ p \in slot .. confirmed
    /\ crashes' = crashes + 1
    /\ shadow' = [k \in Key |-> IF k > w THEN NoRow ELSE shadow[k]]
    /\ cut' = w /\ from' = w /\ chunks' = {}
    /\ delivered' = p /\ offset' = 0 /\ slot' = p /\ confirmed' = p
    /\ pc' = "gather" /\ batch' = EmptyBatch /\ hidden' = {}
    /\ copied' = FALSE /\ failed' = "no"
    /\ UNCHANGED <<sourceVars, buf>>

Restart(w, p) ==
    /\ w \in from .. watermark /\ p \in slot .. confirmed
    /\ crashes' = crashes + 1
    /\ shadow' = [k \in Key |-> IF k > w THEN NoRow ELSE shadow[k]]
    /\ cut' = w /\ from' = w /\ chunks' = {}
    /\ delivered' = p /\ offset' = 0 /\ slot' = p /\ confirmed' = p
    /\ pc' = "gather" /\ buf' = NewBuffer /\ batch' = EmptyBatch /\ hidden' = {}
    /\ copied' = FALSE /\ failed' = "no"
    /\ UNCHANGED sourceVars

Init ==
    /\ scenario \in Scenarios /\ src = scenario.rows /\ wal = <<>> /\ unseen = {}
    /\ shadow = [k \in Key |-> NoRow]
    /\ cut = firstKey - 1 /\ from = firstKey - 1 /\ chunks = {}
    /\ delivered = 0 /\ offset = 0 /\ slot = 0 /\ confirmed = 0
    /\ pc = "gather" /\ buf = NewBuffer /\ batch = EmptyBatch /\ hidden = {}
    /\ copied = FALSE /\ failed = "no" /\ crashes = 0

ClientStep == \/ /\ Len(wal) < Len(scenario.txs)
                 /\ scenario.landed => copyLanded
                 /\ LET next == scenario.txs[Len(wal) + 1]
                    IN  \E tx \in Transactions(next.len, next.keys) : ClientCommit(tx)
              \/ \E i \in unseen : ClientVisible(i)
CopierStep == \/ \E upper \in Key : Claim(upper)
              \/ \E c \in chunks : ReadChunk(c) \/ InsertChunk(c)
CycleStep == \/ DeliverChange \/ DeliverCommit \/ TakeSnapshot \/ SkipFlush \/ DrainBuffer
             \/ Flush \/ DeferFlush \/ Confirm
RestartStep == /\ crashes < scenario.restarts
               /\ \E w \in from .. watermark, p \in slot .. confirmed : Restart(w, p)

Next == ClientStep \/ CopierStep \/ CycleStep \/ RestartStep

Spec == Init /\ [][Next]_vars

\* A started step finishes.  Every gather lasts its Interval and reads what the
\* stream has, and a Pause ends, so neither delivery nor the flush is passed
\* over forever; a committed transaction becomes visible.
Fairness ==
    /\ WF_vars(\E i \in unseen : ClientVisible(i))
    /\ WF_vars(\E upper \in Key : Claim(upper))
    /\ \A k \in Key : WF_vars(\E c \in chunks : c.lower = k /\ (ReadChunk(c) \/ InsertChunk(c)))
    /\ SF_vars(DeliverChange \/ DeliverCommit)
    /\ SF_vars(TakeSnapshot)
    /\ WF_vars(DrainBuffer \/ Flush \/ DeferFlush \/ Confirm)

FairSpec == Spec /\ Fairness

-----------------------------------------------------------------------------
(* Properties. *)

SourceType == /\ scenario \in Scenarios
              /\ src \in [Key -> RowType] /\ wal \in Seq(WalTx) /\ unseen \subseteq 1 .. Len(wal)

CopierType ==
    /\ shadow \in [Key -> RowType] /\ chunks \subseteq ChunkType
    /\ cut \in Int /\ from \in Int /\ from <= watermark /\ watermark <= cut

StreamType ==
    /\ slot \in Nat /\ confirmed \in Nat /\ delivered \in Nat /\ offset \in Nat
    /\ slot <= confirmed /\ confirmed <= delivered /\ delivered <= Len(wal)

CycleType ==
    /\ pc \in {"gather", "position", "flush", "confirm"}
    /\ buf \in BufferType /\ batch \in [Key -> Entry]
    /\ failed \in {"no", "refused change", "hold", "requeue", "lost row", "cannot converge"}

\* The variables have their types, and the positions of the copier and of the
\* stream their order: what is saved or confirmed never passes what is done.
TypeOK == SourceType /\ CopierType /\ StreamType /\ CycleType

\* The positions and changes of the stream still to be delivered.
ahead(k) == \E i \in 1 .. Len(wal) : \E j \in DOMAIN wal[i] :
               /\ i > delivered + 1 \/ (i = delivered + 1 /\ j > offset)
               /\ k \in {wal[i][j].key, wal[i][j].old}

converted(row) == IF row = NoRow THEN NoRow ELSE [u |-> row.u, t |-> convert(row.t)]

\* A landed key about which nothing is buffered, being flushed, still to be
\* delivered or not yet visible has in the shadow exactly its source row, its
\* TOASTed value included and converted once (CO-4, CO-5, CO-8).
InSync ==
    \A k \in Key :
        (/\ Classify(k) = "landed" /\ failed = "no"
         /\ buf.entries[k] = NoEntry /\ batch[k] = NoEntry
         /\ ~ahead(k) /\ \A i \in unseen : k \notin keysOf(wal[i]))
        => shadow[k] = converted(src[k])

\* The confirmed position never passes a transaction of which an entry is
\* still buffered or being flushed: a stream reopened there replays it (ST-4).
ConfirmedBelowUnapplied ==
    \A k \in Key : /\ buf.entries[k] # NoEntry => confirmed < buf.entries[k].xid
                   /\ batch[k] # NoEntry => confirmed < batch[k].xid

\* CO-4: a flush writes to no row but those of keys the copier has landed, though
\* the copier moves on between the position the drain judged by and the writes.
FlushOnlyLanded ==
    [][batch # EmptyBatch /\ chunks' = chunks /\ crashes' = crashes =>
         \A k \in Key : shadow'[k] # shadow[k] => Classify(k) = "landed"]_vars

\* The protocol errors of Add, Hold, Requeue and holdAbsent never fire on a
\* stream the source really produced, restarts included.
NoProtocolError == failed \in {"no", "cannot converge"}

\* The buffer's index, holds and oldest position agree with its entries.
BufferCoherent == Coherent(buf)

\* CO-6: with every key landed, a batch the shadow still refuses is one the
\* source does not hold; a stream of legal transactions never ends the run.
RefusalIsForeign == failed # "cannot converge"

\* The copier beside the catch-up as the contract sees it.
Contract == INSTANCE CopyPosition WITH
    run <- crashes + 1, state <- position, saved <- {k \in Key : k <= from}

\* CO-4: the copier beside which the catch-up is checked gives the positions of
\* module CopyPosition, as the copier of module Copier does, restarts included
\* (position.go Classify, ledger.go, resume.go).
MeetsContract == Contract!Spec

\* Once the clients stop, the shadow becomes the source and stays it: no chunk
\* waits for a flush that waits for the chunk, no entry is held forever, and
\* the copy finishes (CO-6, D13).  A run that ended in error is excused.
Converges == <>[](failed # "no" \/ (copyLanded /\ shadow = [k \in Key |-> converted(src[k])]))
=============================================================================
