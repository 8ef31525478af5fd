------------------------------- MODULE Buffer -------------------------------
(***************************************************************************)
(* The applier's buffer (pkg/applier buffer.go, entry.go, drain.go,        *)
(* hold.go, requeue.go) as operators on a buffer record: one entry per     *)
(* key captured since the last flush, the index of images that left each   *)
(* key, the completions held images wait for, and the oldest position the  *)
(* entries still owe the stream.                                           *)
(*                                                                         *)
(* A row is two columns.  u stands for the columns every event carries     *)
(* (one of them under a unique index); t stands for a TOASTed column,      *)
(* which an event omits when it did not change.  A value of t is           *)
(* [v, bare]: bare marks a value read from the shadow, already in the      *)
(* shadow's form; v = 0 is the unchanged-TOAST marker.                     *)
(***************************************************************************)
EXTENDS Integers, FiniteSets

CONSTANTS Key, NoKey

ASSUME KeyAssumption == Key \subseteq Int /\ NoKey \notin Key

Marker == [v |-> 0, bare |-> FALSE]
sourceForm(x) == [v |-> x, bare |-> FALSE]
shadowForm(x) == [v |-> x, bare |-> TRUE]
Present(t) == t.v # 0

Value == [v : Nat, bare : BOOLEAN]
Entry == [kind : {"none", "image", "delete"}, oldKey : Key \cup {NoKey}, reused : BOOLEAN,
          awaited : BOOLEAN, u : Nat, t : Value, first : Nat, xid : Nat]
Completion == [on : BOOLEAN, t : Value, readLSN : Nat]

\* Absent map entries.
NoEntry == [kind |-> "none", oldKey |-> NoKey, reused |-> FALSE, awaited |-> FALSE,
            u |-> 0, t |-> Marker, first |-> 0, xid |-> 0]
NoPending == [on |-> FALSE, t |-> Marker, readLSN |-> 0]

DeleteMarker(first, xid) ==
    [kind |-> "delete", oldKey |-> NoKey, reused |-> FALSE, awaited |-> FALSE,
     u |-> 0, t |-> Marker, first |-> first, xid |-> xid]
Image(oldKey, reused, u, t, first, xid) ==
    [kind |-> "image", oldKey |-> oldKey, reused |-> reused, awaited |-> FALSE,
     u |-> u, t |-> t, first |-> first, xid |-> xid]

HasMarker(e) == e.kind = "image" /\ ~Present(e.t)

BufferType == [entries : [Key -> Entry], movedFrom : [Key -> SUBSET Key],
               pending : [Key -> Completion], oldest : Nat, hasOldest : BOOLEAN]

NewBuffer == [entries   |-> [k \in Key |-> NoEntry],
              movedFrom |-> [k \in Key |-> {}],
              pending   |-> [k \in Key |-> NoPending],
              oldest    |-> 0,
              hasOldest |-> FALSE]

Buffered(b) == {k \in Key : b.entries[k].kind # "none"}
Held(b) == {k \in Key : b.pending[k].on}

-----------------------------------------------------------------------------
(* Writing one entry. *)

minLSN(x, y) == IF y < x THEN y ELSE x
\* firstLSN over one replaced entry, absent entries counting for nothing.
firstLSN(lsn, e) == IF e.kind = "none" THEN lsn ELSE minLSN(lsn, e.first)

\* unindex: take the entries under the keys of gone out of movedFrom.
unindex(b, gone) ==
    [o \in Key |-> {k \in b.movedFrom[o] : ~(k \in gone /\ b.entries[k].oldKey = o)}]

\* Variant: put indexes the new entry and forgets to unindex the old one.
PutWithoutUnindex(b, k, e) ==
    [entries   |-> [b.entries EXCEPT ![k] = e],
     movedFrom |-> [o \in Key |-> b.movedFrom[o] \cup (IF o = e.oldKey THEN {k} ELSE {})],
     pending   |-> [b.pending EXCEPT ![k] = NoPending],
     oldest    |-> IF b.hasOldest THEN minLSN(b.oldest, e.first) ELSE e.first,
     hasOldest |-> TRUE]

\* put: keep movedFrom exact, drop the pending completion, track the oldest.
put(b, k, e) ==
    [entries   |-> [b.entries EXCEPT ![k] = e],
     movedFrom |-> [o \in Key |-> unindex(b, {k})[o] \cup (IF o = e.oldKey THEN {k} ELSE {})],
     pending   |-> [b.pending EXCEPT ![k] = NoPending],
     oldest    |-> IF b.hasOldest THEN minLSN(b.oldest, e.first) ELSE e.first,
     hasOldest |-> TRUE]

\* markOldKeyReused: images that left key, other than the row now landing on it,
\* can no longer complete from its shadow row.
markOldKeyReused(b, key, mover) ==
    LET left == b.movedFrom[key] \ {mover}
    IN  [b EXCEPT !.entries = [k \in Key |-> IF k \in left THEN [b.entries[k] EXCEPT !.reused = TRUE]
                                             ELSE b.entries[k]],
                  !.pending = [k \in Key |-> IF k \in left THEN NoPending ELSE b.pending[k]]]

\* overlay: a present column replaces what the image holds.
overlay(t, new) == IF Present(new) THEN new ELSE t

-----------------------------------------------------------------------------
(* Add: merge one decoded change.  A change is [kind, key, old, u, t, xid,  *)
(* delivered], old being NoKey unless an update moved the row.              *)

Change == [kind : {"insert", "update", "delete"}, key : Key, old : Key \cup {NoKey},
           u : Nat, t : Value, xid : Nat, delivered : Nat]

moves(ev) == ev.kind = "update" /\ ev.old # NoKey /\ ev.old # ev.key

addInsert(b, ev) ==
    put(markOldKeyReused(b, ev.key, NoKey), ev.key,
        Image(NoKey, FALSE, ev.u, ev.t, firstLSN(ev.delivered, b.entries[ev.key]), ev.xid))

addUpdate(b, ev) ==
    IF b.entries[ev.key].kind = "none"
    THEN put(markOldKeyReused(b, ev.key, NoKey), ev.key,
             Image(NoKey, FALSE, ev.u, ev.t, ev.delivered, ev.xid))
    ELSE LET cur == b.entries[ev.key]
         IN  [b EXCEPT !.entries[ev.key] =
                [cur EXCEPT !.u = ev.u, !.t = overlay(cur.t, ev.t), !.xid = ev.xid]]

addKeyMove(b, ev) ==
    LET cur   == b.entries[ev.key]
        src   == b.entries[ev.old]
        known == src.kind = "image"
        moved == known /\ src.oldKey # NoKey
        image == Image(IF moved THEN src.oldKey ELSE ev.old, moved /\ src.reused, ev.u,
                       IF known THEN overlay(src.t, ev.t) ELSE ev.t,
                       firstLSN(firstLSN(ev.delivered, cur), src), ev.xid)
        mover == IF known THEN ev.old ELSE NoKey
    IN  put(put(markOldKeyReused(b, ev.key, mover), ev.key, image),
            ev.old, DeleteMarker(firstLSN(ev.delivered, src), ev.xid))

addDelete(b, ev) ==
    put(b, ev.key, DeleteMarker(firstLSN(ev.delivered, b.entries[ev.key]), ev.xid))

\* The events Add refuses, leaving the buffer as it was.
Refuses(b, ev) ==
    \/ ev.kind = "insert" /\ (b.entries[ev.key].kind = "image" \/ ~Present(ev.t))
    \/ ev.kind = "update" /\ ~moves(ev) /\ b.entries[ev.key].kind = "delete"
    \/ moves(ev) /\ (b.entries[ev.key].kind = "image" \/ b.entries[ev.old].kind = "delete")

Add(b, ev) ==
    CASE Refuses(b, ev)      -> b
      [] ev.kind = "delete"  -> addDelete(b, ev)
      [] OTHER -> IF ev.kind = "insert" THEN addInsert(b, ev)
                  ELSE IF moves(ev) THEN addKeyMove(b, ev)
                  ELSE addUpdate(b, ev)

-----------------------------------------------------------------------------
(* Drain: judge every entry against one copier position (cls, the state of *)
(* each key) and one snapshot (hidden, the transactions it does not show). *)

invisible(b, hidden) == {k \in Buffered(b) : b.entries[k].xid \in hidden}

waitsTogether(S, pair, unseen) == pair[2] \in S \/ pair[1] \in unseen

\* deferPairs: the least set of waiting keys that holds every in-flight or
\* invisible entry and, of each move whose halves must wait together, both.
deferPairs(b, uncut, unseen, inFlight) ==
    LET pairs == {p \in Buffered(b) \X Buffered(b) :
                     b.entries[p[1]].oldKey = p[2] /\ p[1] \notin uncut /\ p[2] \notin uncut}
        closed(S) == /\ inFlight \cup unseen \subseteq S
                     /\ \A p \in pairs : waitsTogether(S, p, unseen) => {p[1], p[2]} \subseteq S
    IN  {k \in Buffered(b) : \A S \in SUBSET Buffered(b) : closed(S) => k \in S}

\* Variant: an entry whose chunk is in flight is flushed at once.
VerdictInFlight(b, cls, hidden) ==
    LET unseen   == invisible(b, hidden)
        state(s) == {k \in Buffered(b) : cls[k] = s}
    IN  [flush   |-> (state("landed") \cup state("inFlight")) \ (unseen \cup Held(b)),
         discard |-> state("uncut") \ (unseen \cup Held(b))]

\* What a Drain decides, as the sets of keys it flushes and discards; every
\* other entry stays buffered.
Verdict(b, cls, hidden) ==
    LET unseen   == invisible(b, hidden)
        state(s) == {k \in Buffered(b) : cls[k] = s}
        uncut    == state("uncut") \ unseen
        waits    == deferPairs(b, uncut, unseen, state("inFlight")) \cup Held(b)
    IN  [flush   |-> state("landed") \ waits,
         discard |-> uncut \ waits]

\* remove every key of gone, and track the oldest position of what stays.
\* A removed entry carries no pending completion: Drain keeps every held one.
removeAll(b, gone) ==
    LET stay   == Buffered(b) \ gone
        firsts == {b.entries[k].first : k \in stay}
    IN  [entries   |-> [k \in Key |-> IF k \in gone THEN NoEntry ELSE b.entries[k]],
         movedFrom |-> unindex(b, gone),
         pending   |-> [k \in Key |-> IF k \in gone THEN NoPending ELSE b.pending[k]],
         oldest    |-> IF stay = {} THEN b.oldest
                       ELSE CHOOSE x \in firsts : \A y \in firsts : x <= y,
         hasOldest |-> stay # {}]

Drain(b, cls, hidden) ==
    LET v == Verdict(b, cls, hidden) IN removeAll(b, v.flush \cup v.discard)

-----------------------------------------------------------------------------
(* What a flush hands back.  batch is a function from keys to entries,     *)
(* NoEntry where it names none; held a function from keys to completions.  *)

\* Putting the entries of a batch back, as put does for each in turn.
restore(b, back, batch) ==
    LET firsts == {batch[k].first : k \in back}
        low    == CHOOSE x \in firsts : \A y \in firsts : x <= y
    IN  IF back = {} THEN b ELSE
        [entries   |-> [k \in Key |-> IF k \in back THEN batch[k] ELSE b.entries[k]],
         movedFrom |-> [o \in Key |-> unindex(b, back)[o] \cup {k \in back : batch[k].oldKey = o}],
         pending   |-> [k \in Key |-> IF k \in back THEN NoPending ELSE b.pending[k]],
         oldest    |-> IF b.hasOldest THEN minLSN(b.oldest, low) ELSE low,
         hasOldest |-> TRUE]

\* Requeue and Hold refuse a key the buffer already holds.
Taken(b, back) == back \cap Buffered(b) # {}

Requeue(b, batch) == restore(b, {k \in Key : batch[k].kind # "none"}, batch)

\* Hold: held[k] is the completion of the image batch[k] carries, NoPending
\* for an entry the flush did not hold.
Hold(b, batch, held) ==
    LET back == {k \in Key : held[k].on}
    IN  [restore(b, back, batch) EXCEPT
           !.pending = [k \in Key |-> IF k \in back THEN held[k] ELSE b.pending[k]]]

\* fill: a completed column only where the image still has a marker.
fill(t, completed) == IF Present(t) THEN t ELSE completed

\* Variant: off by one, a completion waits for a change past the one it read.
ReleaseLate(b, passed) ==
    LET due == {k \in Held(b) : b.pending[k].readLSN < passed}
    IN  [b EXCEPT !.entries = [k \in Key |-> IF k \in due
                                 THEN [b.entries[k] EXCEPT !.t = fill(b.entries[k].t, b.pending[k].t)]
                                 ELSE b.entries[k]],
                  !.pending = [k \in Key |-> IF k \in due THEN NoPending ELSE b.pending[k]]]

\* Release: the stream has delivered every change committed through passed.
Release(b, passed) ==
    LET due == {k \in Held(b) : b.pending[k].readLSN <= passed}
    IN  [b EXCEPT !.entries = [k \in Key |-> IF k \in due
                                 THEN [b.entries[k] EXCEPT !.t = fill(b.entries[k].t, b.pending[k].t)]
                                 ELSE b.entries[k]],
                  !.pending = [k \in Key |-> IF k \in due THEN NoPending ELSE b.pending[k]]]

-----------------------------------------------------------------------------
(* What must hold of a buffer between any two calls. *)

\* The movedFrom index names exactly the buffered images that left each key
\* (put, remove and unindex keep it), so markOldKeyReused misses none.
IndexExact(b) ==
    \A o, k \in Key : k \in b.movedFrom[o] <=> b.entries[k].oldKey = o

\* A completion is pending only for a buffered image.
PendingIsImage(b) == \A k \in Held(b) : b.entries[k].kind = "image"

\* OldestPending is the least FirstLSN of the buffered entries, and is
\* tracked exactly when there is one.
OldestExact(b) ==
    /\ b.hasOldest <=> Buffered(b) # {}
    /\ \A k \in Buffered(b) : b.oldest <= b.entries[k].first
    /\ b.hasOldest => \E k \in Buffered(b) : b.entries[k].first = b.oldest

\* Everything the buffer keeps about its entries agrees with them.
Coherent(b) == IndexExact(b) /\ PendingIsImage(b) /\ OldestExact(b)
=============================================================================
