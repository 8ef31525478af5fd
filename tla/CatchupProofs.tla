---------------------------- MODULE CatchupProofs ----------------------------
(***************************************************************************)
(* Every operation of the applier's buffer keeps it sound, for any set of  *)
(* keys and any stream: the movedFrom index is exact, only images are      *)
(* held, the oldest position is the least FirstLSN, and every FirstLSN     *)
(* lies between the confirmed position lo and the delivered position hi    *)
(* and below its entry's transaction.  A snapshot tells every transaction  *)
(* within its reach by 32 bits.  The catch-up loop, with any number of     *)
(* client transactions, copier workers and restarts, keeps its buffer      *)
(* coherent and never confirms past an unapplied change; and its copier's  *)
(* positions are those module CopyPosition promises.                       *)
(***************************************************************************)
EXTENDS Catchup, Snapshot, TLAPS, WellFoundedInduction, SequenceTheorems

\* An entry that is not there is NoEntry; a buffered one owes the stream a
\* position in lo .. hi, below its own transaction.
EntryOK(e, lo, hi) ==
    /\ e.kind = "none" => e = NoEntry
    /\ e.kind # "none" => lo <= e.first /\ e.first <= hi /\ e.first < e.xid

EntriesOK(f, lo, hi) == \A k \in Key : EntryOK(f[k], lo, hi)

Sound(b, lo, hi) == b \in BufferType /\ Coherent(b) /\ EntriesOK(b.entries, lo, hi)

-----------------------------------------------------------------------------

\* A non-empty set of positions has a least one, which is what trackOldest finds.
LEMMA LeastPosition ==
    ASSUME NEW S, S \subseteq Nat, S # {}
    PROVE  \E x \in S : \A y \in S : x <= y
<1>1. \E x \in S : \A y \in S : ~(<<y, x>> \in OpToRel(<, Nat))
  BY NatLessThanWellFounded, WFMin, Zenon
<1>2. PICK x \in S : \A y \in S : ~(<<y, x>> \in OpToRel(<, Nat))
  BY <1>1, Zenon
<1>3. \A y \in S : ~(y < x)
  BY <1>2, Zenon DEF OpToRel
<1>4. \A y \in S : x \in Nat /\ y \in Nat
  BY Zenon
<1>5. \A y \in S : x <= y
  BY <1>3, <1>4
<1> QED  BY <1>5, Zenon

\* The buffer NewBuffer returns is sound.
LEMMA NewBufferSound ==
    ASSUME NEW lo, NEW hi
    PROVE  Sound(NewBuffer, lo, hi)
<1>1. Marker \in Value
  BY Zenon DEF Marker, Value
<1>2. NoEntry \in Entry /\ NoPending \in Completion
  BY <1>1, Zenon DEF NoEntry, Entry, NoPending, Completion
<1>3. NewBuffer \in BufferType
  BY <1>2, Zenon DEF NewBuffer, BufferType
<1>4. Coherent(NewBuffer)
  BY KeyAssumption, Zenon DEF NewBuffer, Coherent, IndexExact, PendingIsImage, OldestExact, Buffered,
                       Held, NoEntry, NoPending
<1>5. EntriesOK(NewBuffer.entries, lo, hi)
  BY Zenon DEF NewBuffer, EntriesOK, EntryOK, NoEntry
<1> QED  BY <1>3, <1>4, <1>5, Zenon DEF Sound

\* put keeps a buffer sound when the entry replaces one with an equal or later
\* FirstLSN.
LEMMA PutSound ==
    ASSUME NEW lo \in Nat, NEW hi \in Nat, NEW b, Sound(b, lo, hi),
           NEW k \in Key, NEW e \in Entry, e.kind # "none", EntryOK(e, lo, hi),
           b.entries[k].kind # "none" => e.first <= b.entries[k].first
    PROVE  /\ Sound(put(b, k, e), lo, hi)
           /\ \A j \in Key \ {k} : put(b, k, e).entries[j] = b.entries[j]
<1> DEFINE c == put(b, k, e)
<1> USE DEF Sound
<1>0. NoPending \in Completion /\ NoPending.on = FALSE
  BY Zenon DEF NoPending, Completion, Value, Marker
<1>1. /\ c.entries = [b.entries EXCEPT ![k] = e]
      /\ c.movedFrom = [o \in Key |-> unindex(b, {k})[o] \cup (IF o = e.oldKey THEN {k} ELSE {})]
      /\ c.pending = [b.pending EXCEPT ![k] = NoPending]
      /\ c.oldest = IF b.hasOldest THEN minLSN(b.oldest, e.first) ELSE e.first
      /\ c.hasOldest = TRUE
  BY Zenon DEF put
<1>2. c \in BufferType
  <2>1. c.entries \in [Key -> Entry] /\ c.pending \in [Key -> Completion]
    BY <1>0, <1>1 DEF BufferType
  <2>2. c.movedFrom \in [Key -> SUBSET Key]
    BY <1>1 DEF BufferType, unindex
  <2>3. c.oldest \in Nat
    BY <1>1, Zenon DEF BufferType, minLSN, Entry
  <2> QED  BY <2>1, <2>2, <2>3, Zenon DEF put, BufferType
<1>3. \A j \in Key : c.entries[j] = IF j = k THEN e ELSE b.entries[j]
  BY <1>1 DEF BufferType
<1>4. IndexExact(c)
  BY <1>1, <1>3, KeyAssumption DEF IndexExact, Coherent, unindex
<1>5. PendingIsImage(c)
  BY <1>0, <1>1, <1>3 DEF PendingIsImage, Coherent, Held, BufferType
<1>6. Buffered(c) = Buffered(b) \cup {k}
  BY <1>3, Zenon DEF Buffered
<1>7. OldestExact(c)
  <2>1. \A j \in Key : c.entries[j].first \in Nat /\ b.entries[j].first \in Nat
    BY <1>2, Zenon DEF BufferType, Entry
  <2>2. e.first \in Nat /\ b.oldest \in Nat
    BY Zenon DEF Entry, BufferType
  <2>3. CASE ~b.hasOldest
    BY <2>3, <1>1, <1>3, <1>6, <2>1, <2>2 DEF OldestExact, Coherent
  <2>4. CASE b.hasOldest
    <3>1. PICK m \in Buffered(b) : b.entries[m].first = b.oldest
      BY <2>4, Zenon DEF OldestExact, Coherent
    <3>2. c.oldest <= e.first /\ c.oldest <= b.oldest /\ c.oldest \in {e.first, b.oldest}
      BY <2>4, <1>1, <2>2 DEF minLSN
    <3>3. \A j \in Buffered(c) : c.oldest <= c.entries[j].first
      BY <3>2, <1>3, <1>6, <2>1, <2>2, <1>2 DEF OldestExact, Coherent, Buffered, BufferType
    <3>4. c.oldest = e.first \/ (m # k /\ c.oldest = b.oldest)
      BY <3>1, <3>2, <2>1, <2>2 DEF Buffered
    <3>5. \E j \in Buffered(c) : c.entries[j].first = c.oldest
      BY <3>1, <3>4, <1>3, <1>6, Zenon DEF Buffered
    <3> QED  BY <1>1, <1>6, <3>3, <3>5, Zenon DEF OldestExact
  <2> QED  BY <2>3, <2>4, Zenon
<1>8. EntriesOK(c.entries, lo, hi)
  BY <1>3, Zenon DEF EntriesOK
<1> QED  BY <1>2, <1>3, <1>4, <1>5, <1>7, <1>8, Zenon DEF Coherent

\* A write that keeps every entry's kind, old key and FirstLSN, and holds no
\* further image, keeps a coherent buffer coherent.
LEMMA SameShape ==
    ASSUME NEW b, NEW c, Coherent(b),
           c.movedFrom = b.movedFrom, c.oldest = b.oldest, c.hasOldest = b.hasOldest,
           \A k \in Key : /\ c.entries[k].kind = b.entries[k].kind
                          /\ c.entries[k].oldKey = b.entries[k].oldKey
                          /\ c.entries[k].first = b.entries[k].first,
           Held(c) \subseteq Held(b)
    PROVE  Coherent(c)
<1>1. Buffered(c) = Buffered(b)
  BY Zenon DEF Buffered
<1>2. IndexExact(c)
  BY Zenon DEF Coherent, IndexExact
<1>3. PendingIsImage(c)
  BY Zenon DEF Coherent, PendingIsImage, Held
<1>4. OldestExact(c)
  BY <1>1, Zenon DEF Coherent, OldestExact, Buffered
<1> QED  BY <1>2, <1>3, <1>4, Zenon DEF Coherent

\* Flagging an entry changes nothing else of it.
LEMMA FlaggedEntry ==
    ASSUME NEW e \in Entry
    PROVE  LET d == [e EXCEPT !.reused = TRUE]
           IN  /\ d \in Entry /\ d.kind = e.kind /\ d.oldKey = e.oldKey
               /\ d.first = e.first /\ d.xid = e.xid
<1> DEFINE d == [e EXCEPT !.reused = TRUE]
<1>1. d.kind = e.kind /\ d.oldKey = e.oldKey /\ d.first = e.first /\ d.xid = e.xid
  BY Zenon DEF Entry
<1>2. d \in Entry
  BY Zenon DEF Entry
<1> QED  BY <1>1, <1>2, Zenon

\* markOldKeyReused keeps a buffer sound, and changes of an entry no more than
\* its OldKeyReused flag.
LEMMA MarkSound ==
    ASSUME NEW lo \in Nat, NEW hi \in Nat, NEW b, Sound(b, lo, hi), NEW key \in Key, NEW mover
    PROVE  LET c == markOldKeyReused(b, key, mover)
           IN  /\ Sound(c, lo, hi)
               /\ \A k \in Key : /\ c.entries[k].kind = b.entries[k].kind
                                 /\ c.entries[k].first = b.entries[k].first
<1> DEFINE left == b.movedFrom[key] \ {mover}
           c == markOldKeyReused(b, key, mover)
<1> USE DEF Sound
<1>0. NoPending \in Completion /\ NoPending.on = FALSE
  BY Zenon DEF NoPending, Completion, Value, Marker
<1>1. /\ c.entries = [k \in Key |-> IF k \in left THEN [b.entries[k] EXCEPT !.reused = TRUE]
                                    ELSE b.entries[k]]
      /\ c.pending = [k \in Key |-> IF k \in left THEN NoPending ELSE b.pending[k]]
      /\ c.movedFrom = b.movedFrom /\ c.oldest = b.oldest /\ c.hasOldest = b.hasOldest
  BY Zenon DEF markOldKeyReused, BufferType
<1>2. \A k \in left : k \in Key /\ b.entries[k].kind # "none"
  BY KeyAssumption DEF BufferType, Coherent, IndexExact, EntriesOK, EntryOK, NoEntry
<1>3. \A k \in Key : /\ c.entries[k] \in Entry
                     /\ c.entries[k].kind = b.entries[k].kind
                     /\ c.entries[k].oldKey = b.entries[k].oldKey
                     /\ c.entries[k].first = b.entries[k].first
                     /\ c.entries[k].xid = b.entries[k].xid
                     /\ b.entries[k].kind = "none" => c.entries[k] = b.entries[k]
  BY <1>1, <1>2, FlaggedEntry DEF BufferType
<1>4. c \in BufferType
  <2>1. c.entries \in [Key -> Entry] /\ c.pending \in [Key -> Completion]
    BY <1>0, <1>1, <1>3 DEF BufferType
  <2> QED  BY <2>1, <1>1, Zenon DEF markOldKeyReused, BufferType
<1>5. Held(c) \subseteq Held(b)
  BY <1>0, <1>1, Zenon DEF Held
<1>6. Coherent(c)
  BY <1>1, <1>3, <1>5, SameShape, Zenon
<1>7. EntriesOK(c.entries, lo, hi)
  BY <1>3 DEF EntriesOK, EntryOK
<1> QED  BY <1>3, <1>4, <1>6, <1>7, Zenon

\* firstLSN stays between the bounds and at or below what it replaces.
LEMMA FirstLSNBounds ==
    ASSUME NEW lo \in Nat, NEW hi \in Nat, NEW lsn \in Nat, lo <= lsn, lsn <= hi,
           NEW e \in Entry, EntryOK(e, lo, hi)
    PROVE  /\ firstLSN(lsn, e) \in Nat /\ lo <= firstLSN(lsn, e) /\ firstLSN(lsn, e) <= lsn
           /\ e.kind # "none" => firstLSN(lsn, e) <= e.first
BY DEF firstLSN, minLSN, Entry, EntryOK

\* A delete marker Add builds is well formed.
LEMMA BuiltMarker ==
    ASSUME NEW lo \in Nat, NEW hi \in Nat, NEW f \in Nat, NEW xid \in Nat,
           lo <= f, f <= hi, f < xid
    PROVE  LET e == DeleteMarker(f, xid)
           IN  e \in Entry /\ e.kind # "none" /\ EntryOK(e, lo, hi) /\ e.first = f
BY Zenon DEF DeleteMarker, Entry, EntryOK, Marker, Value

\* Add keeps the buffer sound for a change of a transaction above the
\* delivered position it arrives with, whether or not it is refused.
LEMMA AddSound ==
    ASSUME NEW lo \in Nat, NEW hi \in Nat, lo <= hi, NEW b, Sound(b, lo, hi),
           NEW ev \in Change, ev.delivered = hi, hi < ev.xid
    PROVE  Sound(Add(b, ev), lo, hi)
<1>0. /\ ev.key \in Key /\ ev.u \in Nat /\ ev.t \in Value /\ ev.xid \in Nat
      /\ ev.old \in Key \cup {NoKey} /\ ev.kind \in {"insert", "update", "delete"}
  BY Zenon DEF Change
<1>1. \A k \in Key : b.entries[k] \in Entry /\ EntryOK(b.entries[k], lo, hi)
  BY Zenon DEF Sound, BufferType, EntriesOK
<1>2. Sound(addInsert(b, ev), lo, hi)
  <2> DEFINE m == markOldKeyReused(b, ev.key, NoKey)
             f == firstLSN(ev.delivered, b.entries[ev.key])
             e == Image(NoKey, FALSE, ev.u, ev.t, f, ev.xid)
  <2>1. /\ Sound(m, lo, hi) /\ m.entries[ev.key].kind = b.entries[ev.key].kind
        /\ m.entries[ev.key].first = b.entries[ev.key].first
    BY <1>0, MarkSound
  <2>2. /\ f \in Nat /\ lo <= f /\ f <= hi
        /\ b.entries[ev.key].kind # "none" => f <= b.entries[ev.key].first
    BY <1>0, <1>1, FirstLSNBounds
  <2>3. e \in Entry /\ e.kind # "none" /\ EntryOK(e, lo, hi) /\ e.first = f
    BY <1>0, <2>2 DEF Image, Entry, EntryOK
  <2> HIDE DEF m, f, e
  <2>4. m.entries[ev.key].kind # "none" => e.first <= m.entries[ev.key].first
    BY <2>1, <2>2, <2>3
  <2>5. Sound(put(m, ev.key, e), lo, hi)
    BY <1>0, <2>1, <2>3, <2>4, PutSound
  <2> QED  BY <2>5, Zenon DEF addInsert, m, e, f
<1>3. Sound(addDelete(b, ev), lo, hi)
  <2> DEFINE f == firstLSN(ev.delivered, b.entries[ev.key])
             e == DeleteMarker(f, ev.xid)
  <2>1. /\ f \in Nat /\ lo <= f /\ f <= hi
        /\ b.entries[ev.key].kind # "none" => f <= b.entries[ev.key].first
    BY <1>0, <1>1, FirstLSNBounds
  <2>2. e \in Entry /\ e.kind # "none" /\ EntryOK(e, lo, hi) /\ e.first = f
    BY <1>0, <2>1 DEF DeleteMarker, Entry, EntryOK, Marker, Value
  <2> HIDE DEF f, e
  <2>3. Sound(put(b, ev.key, e), lo, hi)
    BY <1>0, <2>1, <2>2, PutSound, Zenon
  <2> QED  BY <2>3 DEF addDelete, e, f
<1>4. ASSUME ~Refuses(b, ev), ev.kind = "update", ~moves(ev)
      PROVE  Sound(addUpdate(b, ev), lo, hi)
  <2>1. CASE b.entries[ev.key].kind = "none"
    <3> DEFINE m == markOldKeyReused(b, ev.key, NoKey)
               e == Image(NoKey, FALSE, ev.u, ev.t, ev.delivered, ev.xid)
    <3>1. Sound(m, lo, hi) /\ m.entries[ev.key].kind = "none"
      BY <1>0, <2>1, MarkSound
    <3>2. e \in Entry /\ e.kind # "none" /\ EntryOK(e, lo, hi)
      BY <1>0 DEF Image, Entry, EntryOK
    <3> HIDE DEF m, e
    <3>3. Sound(put(m, ev.key, e), lo, hi)
      BY <1>0, <3>1, <3>2, PutSound
    <3> QED  BY <2>1, <3>3 DEF addUpdate, m, e
  <2>2. CASE b.entries[ev.key].kind # "none"
    <3> DEFINE old == b.entries[ev.key]
               e == [old EXCEPT !.u = ev.u, !.t = overlay(old.t, ev.t), !.xid = ev.xid]
               c == [b EXCEPT !.entries[ev.key] = e]
    <3>1. overlay(old.t, ev.t) \in Value
      BY <1>0, <1>1 DEF overlay, Entry
    <3>2. /\ e \in Entry /\ e.kind = old.kind /\ e.oldKey = old.oldKey
          /\ e.first = old.first /\ e.xid = ev.xid
      <4>1. old \in Entry
        BY <1>0, <1>1
      <4> HIDE DEF old
      <4>2. e \in Entry
        BY <1>0, <3>1, <4>1, Zenon DEF Entry
      <4>3. e.kind = old.kind /\ e.oldKey = old.oldKey /\ e.first = old.first /\ e.xid = ev.xid
        BY <4>1, Zenon DEF Entry
      <4> QED  BY <4>2, <4>3
    <3> HIDE DEF e
    <3>3. EntryOK(e, lo, hi)
      <4>1. EntryOK(old, lo, hi) /\ old \in Entry /\ old.kind # "none"
        BY <1>0, <1>1, <2>2, Zenon
      <4> HIDE DEF old
      <4> QED  BY <1>0, <3>2, <4>1 DEF EntryOK, Entry
    <3>4. /\ c \in BufferType /\ c.movedFrom = b.movedFrom /\ c.oldest = b.oldest
          /\ c.hasOldest = b.hasOldest /\ c.pending = b.pending
          /\ \A k \in Key : c.entries[k] = IF k = ev.key THEN e ELSE b.entries[k]
      BY <1>0, <3>2, Zenon DEF Sound, BufferType
    <3> HIDE DEF c
    <3>5. Coherent(c)
      BY <3>2, <3>4, SameShape DEF Sound, Held
    <3>6. EntriesOK(c.entries, lo, hi)
      BY <3>3, <3>4, <1>1 DEF EntriesOK
    <3>7. c = addUpdate(b, ev)
      BY <2>2, Zenon DEF c, e, addUpdate
    <3> QED  BY <3>4, <3>5, <3>6, <3>7 DEF Sound
  <2> QED  BY <2>1, <2>2
<1>5. ASSUME ~Refuses(b, ev), moves(ev)
      PROVE  Sound(addKeyMove(b, ev), lo, hi)
  <2> DEFINE cur == b.entries[ev.key]
             leaver == b.entries[ev.old]
             known == leaver.kind = "image"
             moved == known /\ leaver.oldKey # NoKey
             origin == IF moved THEN leaver.oldKey ELSE ev.old
             t == IF known THEN overlay(leaver.t, ev.t) ELSE ev.t
             f1 == firstLSN(ev.delivered, cur)
             f2 == firstLSN(f1, leaver)
             f3 == firstLSN(ev.delivered, leaver)
             flag == moved /\ leaver.reused
             image == Image(origin, flag, ev.u, t, f2, ev.xid)
             mark == DeleteMarker(f3, ev.xid)
             mover == IF known THEN ev.old ELSE NoKey
             m == markOldKeyReused(b, ev.key, mover)
  <2>1. ev.old \in Key /\ ev.old # ev.key
    BY <1>0, <1>5 DEF moves
  <2>2. f1 \in Nat /\ lo <= f1 /\ f1 <= hi /\ (cur.kind # "none" => f1 <= cur.first)
    BY <1>0, <1>1, FirstLSNBounds
  <2>3. f2 \in Nat /\ lo <= f2 /\ f2 <= f1
    <3> HIDE DEF f1
    <3> QED  BY <1>1, <2>1, <2>2, FirstLSNBounds, Zenon
  <2>4. f3 \in Nat /\ lo <= f3 /\ f3 <= hi /\ (leaver.kind # "none" => f3 <= leaver.first)
    BY <1>1, <2>1, FirstLSNBounds
  <2>5. origin \in Key \cup {NoKey} /\ t \in Value /\ flag \in BOOLEAN
    BY <1>0, <1>1, <2>1, Zenon DEF Entry, overlay
  <2>6. image \in Entry /\ image.kind # "none" /\ EntryOK(image, lo, hi) /\ image.first = f2
    <3> HIDE DEF f1, f2, origin, t, moved, flag
    <3>1. f2 <= hi /\ f2 < ev.xid
      BY <1>0, <2>2, <2>3
    <3>2. image \in Entry
      BY <1>0, <2>3, <2>5, Zenon DEF Image, Entry
    <3>3. image.kind = "image" /\ image.first = f2 /\ image.xid = ev.xid
      BY Zenon DEF Image
    <3> HIDE DEF image
    <3> QED  BY <2>3, <3>1, <3>2, <3>3 DEF EntryOK
  <2>7. mark \in Entry /\ mark.kind # "none" /\ EntryOK(mark, lo, hi) /\ mark.first = f3
    <3> HIDE DEF f3
    <3>1. f3 < ev.xid
      BY <1>0, <2>4
    <3> QED  BY <1>0, <2>4, <3>1, BuiltMarker
  <2>8. /\ Sound(m, lo, hi)
        /\ m.entries[ev.key].kind = cur.kind /\ m.entries[ev.key].first = cur.first
        /\ m.entries[ev.old].kind = leaver.kind /\ m.entries[ev.old].first = leaver.first
    <3> HIDE DEF mover
    <3>1. /\ Sound(m, lo, hi)
          /\ \A k \in Key : /\ m.entries[k].kind = b.entries[k].kind
                             /\ m.entries[k].first = b.entries[k].first
      BY <1>0, MarkSound
    <3> HIDE DEF m
    <3> QED  BY <1>0, <2>1, <3>1
  <2>9. cur.kind # "none" => f2 <= cur.first
    BY <1>0, <1>1, <2>2, <2>3 DEF Entry
  <2>10. addKeyMove(b, ev) = put(put(m, ev.key, image), ev.old, mark)
    BY Zenon DEF addKeyMove
  <2> HIDE DEF m, image, mark, f1, f2, f3, cur, leaver
  <2> DEFINE n == put(m, ev.key, image)
  <2>11. Sound(n, lo, hi) /\ n.entries[ev.old] = m.entries[ev.old]
    BY <1>0, <2>1, <2>6, <2>8, <2>9, PutSound
  <2>12. addKeyMove(b, ev) = put(n, ev.old, mark)
    BY <2>10
  <2> HIDE DEF n
  <2>13. n.entries[ev.old].kind # "none" => mark.first <= n.entries[ev.old].first
    BY <2>4, <2>7, <2>8, <2>11
  <2>14. Sound(put(n, ev.old, mark), lo, hi)
    BY <2>1, <2>7, <2>11, <2>13, PutSound
  <2> QED  BY <2>12, <2>14
<1> QED  BY <1>0, <1>2, <1>3, <1>4, <1>5, Zenon DEF Add, moves

\* Removing entries, as Drain does with what it flushes or discards, keeps the
\* buffer sound: the oldest position is tracked afresh over what stays.
LEMMA RemoveSound ==
    ASSUME NEW lo \in Nat, NEW hi \in Nat, NEW b, Sound(b, lo, hi), NEW gone \in SUBSET Key
    PROVE  Sound(removeAll(b, gone), lo, hi)
<1> DEFINE c == removeAll(b, gone)
           stay == Buffered(b) \ gone
           firsts == {b.entries[k].first : k \in stay}
<1> USE DEF Sound
<1>0. /\ NoPending \in Completion /\ NoPending.on = FALSE
      /\ NoEntry \in Entry /\ NoEntry.kind = "none" /\ NoEntry.oldKey = NoKey
  BY Zenon DEF NoPending, Completion, Value, Marker, NoEntry, Entry
<1>1. /\ c.entries = [k \in Key |-> IF k \in gone THEN NoEntry ELSE b.entries[k]]
      /\ c.movedFrom = unindex(b, gone)
      /\ c.pending = [k \in Key |-> IF k \in gone THEN NoPending ELSE b.pending[k]]
      /\ c.hasOldest = (stay # {})
      /\ stay = {} => c.oldest = b.oldest
      /\ stay # {} => c.oldest = CHOOSE x \in firsts : \A y \in firsts : x <= y
  BY Zenon DEF removeAll, BufferType
<1>2. firsts \subseteq Nat
  BY DEF BufferType, Entry, Buffered
<1>3. stay # {} => c.oldest \in firsts /\ \A y \in firsts : c.oldest <= y
  <2> SUFFICES ASSUME stay # {}
               PROVE  c.oldest \in firsts /\ \A y \in firsts : c.oldest <= y
    BY Zenon
  <2>1. firsts # {}
    BY Zenon
  <2>2. \E x \in firsts : \A y \in firsts : x <= y
    BY <1>2, <2>1, LeastPosition
  <2>3. c.oldest = CHOOSE x \in firsts : \A y \in firsts : x <= y
    BY <1>1
  <2> HIDE DEF firsts, c
  <2> QED  BY <2>2, <2>3, Zenon
<1>4. c \in BufferType
  <2>1. c.entries \in [Key -> Entry] /\ c.pending \in [Key -> Completion]
    BY <1>0, <1>1 DEF BufferType
  <2>2. c.movedFrom \in [Key -> SUBSET Key]
    BY <1>1 DEF BufferType, unindex
  <2>3. c.oldest \in Nat /\ c.hasOldest \in BOOLEAN
    BY <1>1, <1>2, <1>3, Zenon DEF BufferType
  <2> DEFINE e == [k \in Key |-> IF k \in gone THEN NoEntry ELSE b.entries[k]]
             p == [k \in Key |-> IF k \in gone THEN NoPending ELSE b.pending[k]]
             o == IF stay = {} THEN b.oldest ELSE CHOOSE x \in firsts : \A y \in firsts : x <= y
             h == stay # {}
  <2>4. c = [entries |-> e, movedFrom |-> unindex(b, gone), pending |-> p, oldest |-> o,
             hasOldest |-> h]
    BY Zenon DEF removeAll
  <2>5. e \in [Key -> Entry] /\ p \in [Key -> Completion] /\ o \in Nat /\ h \in BOOLEAN
    BY <1>1, <2>1, <2>3
  <2>6. unindex(b, gone) \in [Key -> SUBSET Key]
    BY <1>1, <2>2
  <2> HIDE DEF c, e, p, o, h
  <2> QED  BY <2>4, <2>5, <2>6, Zenon DEF BufferType
<1>5. \A k \in Key : c.entries[k] = IF k \in gone THEN NoEntry ELSE b.entries[k]
  BY <1>1
<1>6. Buffered(c) = stay
  BY <1>0, <1>5 DEF Buffered
<1>7. IndexExact(c)
  BY <1>0, <1>1, <1>5, KeyAssumption DEF IndexExact, Coherent, unindex, BufferType
<1>8. PendingIsImage(c)
  BY <1>0, <1>1, <1>5 DEF PendingIsImage, Coherent, Held
<1>9. OldestExact(c)
  <2>1. \A k \in stay : k \in Key /\ c.entries[k].first = b.entries[k].first
    BY <1>5 DEF Buffered
  <2>2. \A k \in stay : c.entries[k].first \in firsts
    BY <2>1
  <2>3. \A x \in firsts : \E k \in stay : c.entries[k].first = x
    BY <2>1
  <2> HIDE DEF c, stay, firsts
  <2> QED  BY <1>1, <1>3, <1>6, <2>2, <2>3 DEF OldestExact
<1>10. EntriesOK(c.entries, lo, hi)
  BY <1>0, <1>5 DEF EntriesOK, EntryOK
<1> QED  BY <1>4, <1>7, <1>8, <1>9, <1>10 DEF Coherent

\* Drain keeps the buffer sound, whatever the copier's position and the snapshot.
LEMMA DrainSound ==
    ASSUME NEW lo \in Nat, NEW hi \in Nat, NEW b, Sound(b, lo, hi), NEW cls, NEW late
    PROVE  Sound(Drain(b, cls, late), lo, hi)
<1> DEFINE gone == Verdict(b, cls, late).flush \cup Verdict(b, cls, late).discard
<1>1. gone \in SUBSET Key
  BY Zenon DEF Verdict, Buffered
<1>2. Drain(b, cls, late) = removeAll(b, gone)
  BY Zenon DEF Drain
<1> HIDE DEF gone
<1> QED  BY <1>1, <1>2, RemoveSound

\* Putting back entries under keys the buffer does not hold, as Requeue and
\* Hold do, keeps it sound.
LEMMA RestoreSound ==
    ASSUME NEW lo \in Nat, NEW hi \in Nat, NEW b, Sound(b, lo, hi),
           NEW drained \in [Key -> Entry], EntriesOK(drained, lo, hi), NEW back \in SUBSET Key,
           \A k \in back : drained[k].kind # "none", ~Taken(b, back)
    PROVE  LET c == restore(b, back, drained)
           IN  /\ Sound(c, lo, hi)
               /\ \A k \in Key : c.entries[k] = IF k \in back THEN drained[k] ELSE b.entries[k]
<1> DEFINE c == restore(b, back, drained)
           firsts == {drained[k].first : k \in back}
           low == CHOOSE x \in firsts : \A y \in firsts : x <= y
<1> USE DEF Sound
<1>1. CASE back = {}
  BY <1>1 DEF restore
<1>2. CASE back # {}
  <2>1. low \in firsts /\ low \in Nat /\ \A y \in firsts : low <= y
    <3>1. firsts \subseteq Nat /\ firsts # {}
      BY <1>2 DEF Entry
    <3>2. \E x \in firsts : \A y \in firsts : x <= y
      BY <3>1, LeastPosition, Zenon
    <3> HIDE DEF firsts
    <3> QED  BY <3>1, <3>2
  <2>2. NoPending \in Completion /\ NoPending.on = FALSE
    BY Zenon DEF NoPending, Completion, Value, Marker
  <2> DEFINE e == [k \in Key |-> IF k \in back THEN drained[k] ELSE b.entries[k]]
             m == [o \in Key |-> unindex(b, back)[o] \cup {k \in back : drained[k].oldKey = o}]
             p == [k \in Key |-> IF k \in back THEN NoPending ELSE b.pending[k]]
             o1 == IF b.hasOldest THEN minLSN(b.oldest, low) ELSE low
  <2>3. c = [entries |-> e, movedFrom |-> m, pending |-> p, oldest |-> o1, hasOldest |-> TRUE]
    BY <1>2 DEF restore
  <2>4. e \in [Key -> Entry] /\ p \in [Key -> Completion]
    BY <2>2 DEF BufferType
  <2>5. m \in [Key -> SUBSET Key]
    BY Zenon DEF BufferType, unindex
  <2>6. o1 \in Nat /\ o1 <= low /\ (b.hasOldest => o1 <= b.oldest /\ o1 \in {low, b.oldest})
        /\ (~b.hasOldest => o1 = low)
    <3> HIDE DEF low
    <3> QED  BY <2>1 DEF BufferType, minLSN
  <2>7. \A k \in Key : /\ e[k] = IF k \in back THEN drained[k] ELSE b.entries[k]
                       /\ p[k] = IF k \in back THEN NoPending ELSE b.pending[k]
    BY Zenon
  <2>8. /\ \A o \in Key : m[o] = unindex(b, back)[o] \cup {k \in back : drained[k].oldKey = o}
        /\ \A k \in back : b.entries[k].kind = "none"
    BY Zenon DEF Taken, Buffered
  <2>9. \A o, k \in Key : k \in m[o] <=> e[k].oldKey = o
    BY <2>8, KeyAssumption DEF Coherent, IndexExact, unindex
  <2>10. \A k \in back : drained[k].first \in firsts
    OBVIOUS
  <2>11. \E k \in back : drained[k].first = low
    BY <2>1
  <2> HIDE DEF e, m, p, o1, low, firsts
  <2>12. c \in BufferType
    <3> HIDE DEF c
    <3> QED  BY <2>3, <2>4, <2>5, <2>6, Zenon DEF BufferType
  <2>13. /\ c.entries = e /\ c.movedFrom = m /\ c.pending = p /\ c.oldest = o1
         /\ c.hasOldest = TRUE
    BY <2>3
  <2> HIDE DEF c
  <2>14. IndexExact(c)
    BY <2>9, <2>13 DEF IndexExact
  <2>15. PendingIsImage(c)
    BY <2>2, <2>7, <2>13 DEF PendingIsImage, Held, Coherent
  <2>16. Buffered(c) = Buffered(b) \cup back
    BY <2>7, <2>13 DEF Buffered
  <2>17. OldestExact(c)
    <3>1. \A k \in Buffered(c) : c.oldest <= c.entries[k].first
      <4> SUFFICES ASSUME NEW k \in Buffered(c) PROVE c.oldest <= c.entries[k].first
        OBVIOUS
      <4>1. k \in Key /\ drained[k].first \in Nat /\ b.entries[k].first \in Nat
        BY DEF Buffered, BufferType, Entry
      <4>2. CASE k \in back
        BY <2>1, <2>6, <2>7, <2>10, <2>13, <4>1, <4>2
      <4>3. CASE k \notin back
        <5>1. k \in Buffered(b) /\ b.hasOldest /\ b.oldest <= b.entries[k].first /\ b.oldest \in Nat
          BY <2>16, <4>3 DEF Coherent, OldestExact, BufferType
        <5> QED  BY <2>6, <2>7, <2>13, <4>1, <4>3, <5>1
      <4> QED  BY <4>2, <4>3
    <3>2. \E k \in Buffered(c) : c.entries[k].first = c.oldest
      <4>1. CASE o1 = low
        BY <4>1, <2>7, <2>11, <2>13, <2>16
      <4>2. CASE b.hasOldest /\ o1 = b.oldest
        <5>1. PICK k \in Buffered(b) : b.entries[k].first = b.oldest
          BY <4>2 DEF Coherent, OldestExact
        <5>2. k \in Key /\ k \notin back
          BY <2>8 DEF Buffered
        <5> QED  BY <4>2, <5>1, <5>2, <2>7, <2>13, <2>16
      <4> QED  BY <2>6, <4>1, <4>2, Zenon
    <3>3. c.hasOldest <=> Buffered(c) # {}
      BY <1>2, <2>13, <2>16, Zenon
    <3> QED  BY <3>1, <3>2, <3>3 DEF OldestExact
  <2>18. EntriesOK(c.entries, lo, hi)
    BY <2>7, <2>13 DEF EntriesOK
  <2> QED  BY <2>7, <2>12, <2>13, <2>14, <2>15, <2>17, <2>18 DEF Coherent, c
<1> QED  BY <1>1, <1>2

\* Requeue of a whole batch keeps the buffer sound.
LEMMA RequeueSound ==
    ASSUME NEW lo \in Nat, NEW hi \in Nat, NEW b, Sound(b, lo, hi),
           NEW drained \in [Key -> Entry], EntriesOK(drained, lo, hi),
           ~Taken(b, {k \in Key : drained[k].kind # "none"})
    PROVE  Sound(Requeue(b, drained), lo, hi)
<1> DEFINE back == {k \in Key : drained[k].kind # "none"}
<1>1. back \in SUBSET Key /\ \A k \in back : drained[k].kind # "none"
  BY Zenon
<1>2. Requeue(b, drained) = restore(b, back, drained) /\ ~Taken(b, back)
  BY Zenon DEF Requeue
<1> HIDE DEF back
<1> QED  BY <1>1, <1>2, RestoreSound

\* Hold of images with their completions keeps the buffer sound.
LEMMA HoldSound ==
    ASSUME NEW lo \in Nat, NEW hi \in Nat, NEW b, Sound(b, lo, hi),
           NEW drained \in [Key -> Entry], EntriesOK(drained, lo, hi),
           NEW held \in [Key -> Completion], \A k \in Key : held[k].on => drained[k].kind = "image",
           ~Taken(b, {k \in Key : held[k].on})
    PROVE  Sound(Hold(b, drained, held), lo, hi)
<1> DEFINE back == {k \in Key : held[k].on}
           r == restore(b, back, drained)
           p == [k \in Key |-> IF k \in back THEN held[k] ELSE b.pending[k]]
           c == [r EXCEPT !.pending = p]
<1>1. back \in SUBSET Key /\ (\A k \in back : drained[k].kind # "none") /\ ~Taken(b, back)
  BY Zenon
<1>2. c = Hold(b, drained, held)
  BY Zenon DEF Hold
<1>3. /\ p \in [Key -> Completion]
      /\ \A k \in Key : p[k] = IF k \in back THEN held[k] ELSE b.pending[k]
  BY Zenon DEF Sound, BufferType
<1>4. \A k \in back : drained[k].kind = "image"
  BY Zenon
<1> HIDE DEF back, p
<1>5. /\ Sound(r, lo, hi)
      /\ \A k \in Key : r.entries[k] = IF k \in back THEN drained[k] ELSE b.entries[k]
  BY <1>1, RestoreSound
<1> HIDE DEF r
<1>6. /\ c \in BufferType /\ c.entries = r.entries /\ c.movedFrom = r.movedFrom
      /\ c.oldest = r.oldest /\ c.hasOldest = r.hasOldest /\ c.pending = p
  BY <1>3, <1>5, Zenon DEF Sound, BufferType
<1> HIDE DEF c
<1>7. PendingIsImage(c)
  BY <1>3, <1>4, <1>5, <1>6 DEF Sound, Coherent, PendingIsImage, Held
<1>8. IndexExact(c)
  BY <1>5, <1>6 DEF Sound, Coherent, IndexExact
<1>9. OldestExact(c)
  <2>1. Buffered(c) = Buffered(r)
    BY <1>6, Zenon DEF Buffered
  <2> QED  BY <1>5, <1>6, <2>1 DEF Sound, Coherent, OldestExact
<1> QED  BY <1>2, <1>5, <1>6, <1>7, <1>8, <1>9, Zenon DEF Sound, Coherent

\* Release, whichever completions are due, keeps the buffer sound.
LEMMA ReleaseSound ==
    ASSUME NEW lo \in Nat, NEW hi \in Nat, NEW b, Sound(b, lo, hi), NEW passed \in Nat
    PROVE  Sound(Release(b, passed), lo, hi)
<1> DEFINE due == {k \in Held(b) : b.pending[k].readLSN <= passed}
           filled(k) == [b.entries[k] EXCEPT !.t = fill(b.entries[k].t, b.pending[k].t)]
           e == [k \in Key |-> IF k \in due THEN filled(k) ELSE b.entries[k]]
           p == [k \in Key |-> IF k \in due THEN NoPending ELSE b.pending[k]]
           c == [b EXCEPT !.entries = e, !.pending = p]
<1> USE DEF Sound
<1>0. NoPending \in Completion /\ NoPending.on = FALSE
  BY Zenon DEF NoPending, Completion, Value, Marker
<1>1. \A k \in Key : /\ filled(k) \in Entry /\ filled(k).kind = b.entries[k].kind
                     /\ filled(k).oldKey = b.entries[k].oldKey
                     /\ filled(k).first = b.entries[k].first
                     /\ filled(k).xid = b.entries[k].xid
  <2> SUFFICES ASSUME NEW k \in Key, NEW d, d = b.entries[k], NEW v, v = fill(d.t, b.pending[k].t)
               PROVE  LET g == [d EXCEPT !.t = v]
                      IN  /\ g \in Entry /\ g.kind = d.kind /\ g.oldKey = d.oldKey
                          /\ g.first = d.first /\ g.xid = d.xid
    OBVIOUS
  <2>1. d \in Entry /\ v \in Value
    BY Zenon DEF BufferType, Entry, Completion, fill
  <2>2. [d EXCEPT !.t = v] \in Entry
    BY <2>1, Zenon DEF Entry
  <2> QED  BY <2>1, <2>2 DEF Entry
<1>2. \A k \in due : k \in Key /\ b.entries[k].kind = "image"
  BY DEF Coherent, PendingIsImage, Held
<1> HIDE DEF filled
<1>3. /\ \A k \in Key : e[k] = IF k \in due THEN filled(k) ELSE b.entries[k]
      /\ \A k \in Key : p[k] = IF k \in due THEN NoPending ELSE b.pending[k]
      /\ e \in [Key -> Entry] /\ p \in [Key -> Completion]
  BY <1>0, <1>1 DEF BufferType
<1>4. c = Release(b, passed)
  BY DEF Release, filled
<1> HIDE DEF due, e, p
<1>5. /\ c \in BufferType /\ c.entries = e /\ c.movedFrom = b.movedFrom /\ c.oldest = b.oldest
      /\ c.hasOldest = b.hasOldest /\ c.pending = p
  BY <1>3 DEF BufferType
<1> HIDE DEF c
<1>6. Held(c) \subseteq Held(b)
  BY <1>0, <1>3, <1>5 DEF Held
<1>7. Coherent(c)
  BY <1>1, <1>3, <1>5, <1>6, SameShape
<1>8. EntriesOK(c.entries, lo, hi)
  BY <1>1, <1>2, <1>3, <1>5 DEF EntriesOK, EntryOK
<1> QED  BY <1>4, <1>5, <1>7, <1>8, Zenon

-----------------------------------------------------------------------------
(* Snapshots: the width of a transaction number. *)

\* The widening of snapshot.go lift is exact for every transaction less than
\* half an epoch from xmax, in the epoch of xmax, the one before or the one
\* after: the low 32 bits are enough.
THEOREM LiftIsExact ==
    ASSUME NEW xmax \in Nat, NEW full \in Nat,
           xmax - HalfEpoch <= full, full < xmax + HalfEpoch
    PROVE  lift(xmax, full % Epoch) = full
<1>1. ((full % Epoch) - xmax) % Epoch = (full - xmax) % Epoch
  BY SMT DEF Epoch
<1>2. CASE full >= xmax
  <2>1. (full - xmax) % Epoch = full - xmax
    BY <1>2, SMT DEF Epoch, HalfEpoch
  <2> QED
    BY <1>1, <1>2, <2>1, SMT DEF lift, signed, Epoch, HalfEpoch
<1>3. CASE full < xmax
  <2>1. (full - xmax) % Epoch = full - xmax + Epoch
    BY <1>3, SMT DEF Epoch, HalfEpoch
  <2> QED
    BY <1>1, <1>3, <2>1, SMT DEF lift, signed, Epoch, HalfEpoch
<1> QED
  BY <1>2, <1>3, SMT

\* Two transactions of one window that differ keep different numbers: no
\* transaction in reach of a snapshot is taken for another one by its 32 bits
\* (snapshot.go Visible, drain.go's verdict per change).
THEOREM LowBitsTellApart ==
    ASSUME NEW xmax \in Nat, NEW a \in Nat, NEW b \in Nat,
           xmax - HalfEpoch <= a, a < xmax + HalfEpoch,
           xmax - HalfEpoch <= b, b < xmax + HalfEpoch,
           a % Epoch = b % Epoch
    PROVE  a = b
<1>1. lift(xmax, a % Epoch) = a
  BY LiftIsExact
<1>2. lift(xmax, b % Epoch) = b
  BY LiftIsExact
<1> QED
  BY <1>1, <1>2

\* For a snapshot that was read, Visible answers what the server's own rule answers for the 64-bit id: a
\* transaction before xmin is seen, one from xmax on is not, and one between
\* is seen unless it was in progress (snapshot.go Visible).
THEOREM VisibleIsExact ==
    ASSUME NEW s \in Snapshots, s.read, ~s.all, NEW full \in Nat,
           s.xmax - HalfEpoch <= full, full < s.xmax + HalfEpoch
    PROVE  Visible(s, full % Epoch)
             <=> full < s.xmin \/ (full < s.xmax /\ full \notin s.inProgress)
<1>1. s.xmax \in Nat
  BY Zenon DEF Snapshots
<1>2. lift(s.xmax, full % Epoch) = full
  BY <1>1, LiftIsExact
<1> QED
  BY <1>2, Zenon DEF Visible

-----------------------------------------------------------------------------
(* The catch-up loop. *)

\* Chunks not landed lie above the watermark the run resumed from.
ChunksAbove == from <= cut /\ \A c \in chunks : from < c.lower /\ c.lower <= cut

\* Between flushes there is no batch, and what is buffered or being flushed owes
\* the stream a position the run has not confirmed.
Owed == /\ Sound(buf, confirmed, delivered) /\ EntriesOK(batch, confirmed, delivered)
        /\ pc # "flush" => batch = EmptyBatch

IInv == TypeOK /\ ChunksAbove /\ Owed

-----------------------------------------------------------------------------
(* Tables and transactions. *)

\* The fresh values and rows are typed.
LEMMA NoRowType == NoRow \in RowType /\ NoEntry \in Entry /\ NoPending \in Completion
BY DEF NoRow, RowType, NoEntry, Entry, NoPending, Completion, Marker, Value

\* The changes a client may make are changes of the WAL.
LEMMA ChangesTyped ==
    ASSUME scenario \in Scenarios, NEW table \in [Key -> RowType], NEW fresh \in Nat
    PROVE  Changes(table, fresh) \subseteq WalChange
<1> SUFFICES ASSUME NEW c \in Changes(table, fresh) PROVE c \in WalChange
  OBVIOUS
<1>1. scenario.values \subseteq Nat
  BY CatchupAssumption DEF ScenarioType
<1>2. Live(table) \subseteq Key /\ \A o \in Key : table[o].u \in Nat
  BY DEF Live, RowType
<1>3. ASSUME NEW k \in Key \ Live(table), NEW u \in scenario.values, c = change("insert", k, NoKey, u, fresh)
      PROVE  c \in WalChange
  BY <1>1, <1>2, <1>3 DEF change, WalChange
<1>4. ASSUME NEW k \in Live(table), NEW u \in scenario.values, NEW t \in {0, fresh},
             c = change("update", k, NoKey, u, t)
      PROVE  c \in WalChange
  BY <1>1, <1>2, <1>4 DEF change, WalChange
<1>5. ASSUME NEW k \in Key \ Live(table), NEW o \in Live(table), NEW t \in {0, fresh},
             c = change("update", k, o, table[o].u, t)
      PROVE  c \in WalChange
  BY <1>2, <1>5 DEF change, WalChange
<1>6. ASSUME NEW k \in Live(table), c = change("delete", k, NoKey, 0, 0)
      PROVE  c \in WalChange
  BY <1>2, <1>6 DEF change, WalChange
<1> QED  BY <1>3, <1>4, <1>5, <1>6 DEF Changes

\* A change takes a table to a table.
LEMMA AfterTyped ==
    ASSUME NEW table \in [Key -> RowType], NEW c \in WalChange
    PROVE  after(table, c) \in [Key -> RowType]
<1> DEFINE home == IF c.old = NoKey THEN c.key ELSE c.old
           row == IF c.kind = "delete" THEN NoRow
                  ELSE [u |-> c.u, t |-> IF c.t = 0 THEN table[home].t ELSE c.t]
<1>1. home \in Key /\ c.u \in Nat /\ c.t \in Nat
  BY DEF WalChange
<1>2. row \in RowType
  BY <1>1, NoRowType DEF RowType
<1>3. after(table, c) = [k \in Key |-> IF k = c.key THEN row ELSE IF k = c.old THEN NoRow
                                       ELSE table[k]]
  BY DEF after
<1> HIDE DEF row
<1> QED  BY <1>2, <1>3, NoRowType

\* A transaction takes a table to a table.
LEMMA AfterAllTyped ==
    ASSUME NEW table \in [Key -> RowType], NEW tx \in WalTx
    PROVE  afterAll(table, tx) \in [Key -> RowType]
<1>1. tx[1] \in WalChange /\ (Len(tx) # 1 => tx[2] \in WalChange)
  BY DEF WalTx
<1> QED  BY <1>1, AfterTyped DEF afterAll

\* The positions of a WAL one transaction longer.
LEMMA OneMorePosition ==
    ASSUME NEW n \in Nat, NEW S, S \subseteq 1 .. n
    PROVE  S \cup {n + 1} \subseteq 1 .. (n + 1)
OBVIOUS

\* What clients commit is a transaction of the WAL.
LEMMA TransactionsTyped ==
    ASSUME scenario \in Scenarios, src \in [Key -> RowType], wal \in Seq(WalTx), NEW len, NEW keys
    PROVE  Transactions(len, keys) \subseteq WalTx
<1> DEFINE n == Len(wal)
<1>1. n \in Nat /\ 2 * n + 1 \in Nat /\ 2 * n + 2 \in Nat
  OBVIOUS
<1> SUFFICES ASSUME NEW tx \in Transactions(len, keys) PROVE tx \in WalTx
  OBVIOUS
<1>2. CASE \E c \in Changes(src, 2 * n + 1) : tx = <<c>>
  <2>1. PICK c \in Changes(src, 2 * n + 1) : tx = <<c>>
    BY <1>2
  <2>2. c \in WalChange
    BY <1>1, ChangesTyped
  <2> QED  BY <2>1, <2>2 DEF WalTx
<1>3. CASE \E c \in Changes(src, 2 * n + 1) : \E d \in Changes(after(src, c), 2 * n + 2) :
              tx = <<c, d>>
  <2>0. PICK c \in Changes(src, 2 * n + 1) :
               \E d \in Changes(after(src, c), 2 * n + 2) : tx = <<c, d>>
    BY <1>3
  <2>1. PICK d \in Changes(after(src, c), 2 * n + 2) : tx = <<c, d>>
    BY <2>0
  <2>2. c \in WalChange
    BY <1>1, ChangesTyped
  <2>3. d \in WalChange
    BY <1>1, <2>2, AfterTyped, ChangesTyped
  <2> QED  BY <2>1, <2>2, <2>3 DEF WalTx
<1> QED  BY <1>2, <1>3, Zenon DEF Transactions

-----------------------------------------------------------------------------
(* The copier's positions. *)

\* The lowest chunk in flight bounds the watermark from both sides.
LEMMA LowWaterBounds ==
    ASSUME NEW cs, cs \subseteq ChunkType, NEW top \in Int, NEW lo \in Int, lo <= top,
           \A c \in cs : lo < c.lower /\ c.lower <= top
    PROVE  /\ lowWater(cs, top) \in Int /\ lo <= lowWater(cs, top) /\ lowWater(cs, top) <= top
           /\ \A c \in cs : lowWater(cs, top) < c.lower
<1> DEFINE lowers == {c.lower : c \in cs}
           above == {l - lo : l \in lowers}
<1>1. CASE cs = {}
  BY <1>1 DEF lowWater
<1>2. CASE cs # {}
  <2>1. \A l \in lowers : l \in Int /\ lo < l /\ l <= top
    BY DEF ChunkType
  <2>2. lowers # {}
    BY <1>2
  <2> HIDE DEF lowers
  <2>3. above \subseteq Nat /\ above # {}
    BY <2>1, <2>2
  <2>4. PICK x \in above : \A y \in above : x <= y
    <3> HIDE DEF above
    <3> QED  BY <2>3, LeastPosition, Zenon
  <2>5. PICK l \in lowers : x = l - lo
    BY <2>4
  <2>6. \A m \in lowers : m - lo \in above
    OBVIOUS
  <2> HIDE DEF above
  <2>7. \A m \in lowers : l <= m
    BY <2>1, <2>4, <2>5, <2>6
  <2> DEFINE least == CHOOSE i \in lowers : \A m \in lowers : i <= m
  <2>8. least \in lowers /\ \A m \in lowers : least <= m
    BY <2>7
  <2>9. lowWater(cs, top) = least - 1
    BY <1>2 DEF lowWater, lowers
  <2>10. \A c \in cs : c.lower \in lowers
    BY DEF lowers
  <2> HIDE DEF least
  <2> QED  BY <2>1, <2>8, <2>9, <2>10
<1> QED  BY <1>1, <1>2

\* The first key bounds every key from below.
LEMMA FirstKey == firstKey \in Key /\ \A j \in Key : firstKey <= j
BY CatchupAssumption DEF firstKey

-----------------------------------------------------------------------------
(* Frames. *)

\* A step that leaves the source alone keeps its part of the invariant.
LEMMA SourceFrame ==
    ASSUME SourceType, UNCHANGED sourceVars
    PROVE  SourceType'
BY DEF SourceType, sourceVars

\* So does one that leaves the copier alone, and writes rows to the shadow.
LEMMA CopierFrame ==
    ASSUME CopierType, ChunksAbove, UNCHANGED copierVars, shadow' \in [Key -> RowType]
    PROVE  CopierType' /\ ChunksAbove'
BY DEF CopierType, ChunksAbove, copierVars, watermark

\* So does one that leaves the stream's positions and the WAL alone.
LEMMA StreamFrame ==
    ASSUME StreamType, UNCHANGED streamVars, wal' = wal
    PROVE  StreamType'
BY DEF StreamType, streamVars

\* So does one that leaves the cycle and the stream's positions alone.
LEMMA CycleFrame ==
    ASSUME CycleType, Owed, UNCHANGED cycleVars, UNCHANGED streamVars
    PROVE  CycleType' /\ Owed'
BY DEF CycleType, Owed, cycleVars, streamVars, EmptyBatch

-----------------------------------------------------------------------------
(* The steps. *)

\* An empty batch owes nothing.
LEMMA EmptyOK ==
    ASSUME NEW lo, NEW hi
    PROVE  EmptyBatch \in [Key -> Entry] /\ EntriesOK(EmptyBatch, lo, hi)
BY NoRowType DEF EmptyBatch, EntriesOK, EntryOK, NoEntry

\* A run begins with the invariant.
LEMMA InitInv == Init => IInv
<1> SUFFICES ASSUME Init PROVE IInv
  BY Zenon
<1> USE DEF Init
<1>1. SourceType
  <2>1. scenario.rows \in [Key -> RowType]
    BY CatchupAssumption DEF ScenarioType
  <2> QED  BY <2>1 DEF SourceType
<1>2. firstKey - 1 \in Int
  BY FirstKey, KeyAssumption
<1>3. CopierType /\ ChunksAbove
  <2>1. shadow \in [Key -> RowType]
    BY NoRowType
  <2>2. cut = from /\ cut \in Int /\ watermark = cut
    BY <1>2 DEF watermark, lowWater
  <2> QED  BY <2>1, <2>2 DEF CopierType, ChunksAbove
<1>4. StreamType
  BY DEF StreamType
<1>5. CycleType /\ Owed
  <2>1. Sound(NewBuffer, 0, 0)
    BY NewBufferSound
  <2> QED  BY <2>1, EmptyOK DEF CycleType, Owed, Sound
<1> QED  BY <1>1, <1>3, <1>4, <1>5 DEF IInv, TypeOK

\* Client commits and their becoming visible keep the invariant.
LEMMA ClientInv ==
    ASSUME IInv, ClientStep
    PROVE  IInv'
<1> USE DEF IInv, TypeOK
<1>1. ASSUME NEW len, NEW keys, NEW tx \in Transactions(len, keys), ClientCommit(tx)
      PROVE  IInv'
  <2>1. SourceType'
    <3>1. tx \in WalTx
      BY TransactionsTyped DEF SourceType
    <3>2. wal' \in Seq(WalTx) /\ Len(wal') = Len(wal) + 1
      BY <1>1, <3>1, AppendProperties DEF ClientCommit, SourceType
    <3>3. unseen' \subseteq 1 .. Len(wal')
      <4>1. Len(wal) \in Nat /\ unseen' = unseen \cup {Len(wal) + 1} /\ unseen \subseteq 1 .. Len(wal)
        BY <1>1 DEF ClientCommit, SourceType
      <4> QED  BY <3>2, <4>1, OneMorePosition, Zenon
    <3> QED  BY <1>1, <3>2, <3>3 DEF ClientCommit, SourceType
  <2>2. StreamType'
    BY <1>1 DEF ClientCommit, StreamType, streamVars, SourceType
  <2>3. CopierType' /\ ChunksAbove'
    BY <1>1, CopierFrame DEF ClientCommit, CopierType
  <2>4. CycleType' /\ Owed'
    BY <1>1, CycleFrame DEF ClientCommit
  <2> QED  BY <2>1, <2>2, <2>3, <2>4
<1>2. ASSUME NEW i \in unseen, ClientVisible(i)
      PROVE  IInv'
  <2>1. SourceType'
    <3>1. wal[i] \in WalTx
      BY DEF SourceType
    <3> QED  BY <1>2, <3>1, AfterAllTyped DEF ClientVisible, SourceType
  <2>2. StreamType'
    BY <1>2, StreamFrame, Zenon DEF ClientVisible
  <2>3. CopierType' /\ ChunksAbove'
    BY <1>2, CopierFrame DEF ClientVisible, CopierType
  <2>4. CycleType' /\ Owed'
    BY <1>2, CycleFrame DEF ClientVisible
  <2> QED  BY <2>1, <2>2, <2>3, <2>4
<1> QED  BY <1>1, <1>2 DEF ClientStep

\* Claiming, reading and landing chunks keep the invariant.
LEMMA CopierInv ==
    ASSUME IInv, CopierStep
    PROVE  IInv'
<1> USE DEF IInv, TypeOK
<1>0. (\A k \in Key : k \in Int) /\ cut \in Int /\ from \in Int /\ chunks \subseteq ChunkType
  BY KeyAssumption DEF CopierType
<1>1. ASSUME NEW upper \in Key, Claim(upper)
      PROVE  CopierType' /\ ChunksAbove'
  <2>1. chunk(cut + 1, upper) \in ChunkType /\ chunk(cut + 1, upper).lower = cut + 1
    BY <1>0, NoRowType DEF chunk, ChunkType
  <2>2. chunks' \subseteq ChunkType /\ cut' \in Int /\ from' = from /\ shadow' = shadow
    BY <1>0, <1>1, <2>1 DEF Claim
  <2>3. ChunksAbove'
    BY <1>0, <1>1, <2>1 DEF Claim, ChunksAbove, ChunkType
  <2> QED  BY <1>0, <2>2, <2>3, LowWaterBounds DEF CopierType, ChunksAbove, watermark
<1>2. ASSUME NEW c \in chunks, NEW d \in ChunkType, d.lower = c.lower,
             chunks' \in {chunks \ {c}, (chunks \ {c}) \cup {d}},
             cut' = cut, from' = from, shadow' \in [Key -> RowType]
      PROVE  CopierType' /\ ChunksAbove'
  <2>1. chunks' \subseteq ChunkType
    BY <1>0, <1>2
  <2>2. ChunksAbove'
    BY <1>2 DEF ChunksAbove
  <2> QED  BY <1>0, <1>2, <2>1, <2>2, LowWaterBounds, Zenon DEF CopierType, ChunksAbove, watermark
<1>3. ASSUME NEW c \in chunks, ReadChunk(c)
      PROVE  CopierType' /\ ChunksAbove'
  <2> DEFINE rows == [k \in Key |-> IF k \in c.todo THEN src[k] ELSE NoRow]
             d == [c EXCEPT !.read = TRUE, !.rows = rows]
  <2>1. rows \in [Key -> RowType]
    BY NoRowType DEF SourceType
  <2>2. c \in ChunkType
    BY <1>0, SMTT(30)
  <2>3. chunks' = (chunks \ {c}) \cup {d}
    BY <1>3, Zenon DEF ReadChunk
  <2> HIDE DEF rows
  <2>4. d \in ChunkType
    BY <2>1, <2>2, Zenon DEF ChunkType
  <2>5. d.lower = c.lower
    BY <2>2, SMTT(30) DEF ChunkType
  <2> HIDE DEF d
  <2> QED  BY <1>2, <1>3, <2>3, <2>4, <2>5, Zenon DEF ReadChunk, CopierType
<1>4. ASSUME NEW c \in chunks, InsertChunk(c)
      PROVE  CopierType' /\ ChunksAbove'
  <2> DEFINE new == {k \in Live(c.rows) : shadow[k] = NoRow}
             held == {k \in new : clashes(k, c.rows[k].u)}
             todo == IF c.around THEN held ELSE c.todo
             rows == [k \in Key |-> NoRow]
             d == [c EXCEPT !.around = TRUE, !.read = FALSE, !.rows = rows, !.todo = todo]
  <2>1. c \in ChunkType
    BY <1>0
  <2>2. todo \in SUBSET Key /\ rows \in [Key -> RowType]
    BY <2>1, NoRowType, SMTT(30) DEF ChunkType, Live
  <2>3. chunks' = (chunks \ {c}) \cup (IF held = {} THEN {} ELSE {d})
    BY <1>4, Zenon DEF InsertChunk
  <2>4. shadow' \in [Key -> RowType]
    <3>1. \A k \in Key : c.rows[k].u \in Nat /\ convert(c.rows[k].t) \in Nat
      BY <2>1 DEF ChunkType, RowType, convert
    <3>2. \A k \in Key : [u |-> c.rows[k].u, t |-> convert(c.rows[k].t)] \in RowType
      BY <3>1, SMTT(30) DEF RowType
    <3>3. shadow' = shadow \/ \E S : shadow' = [k \in Key |-> IF k \in S
                                THEN [u |-> c.rows[k].u, t |-> convert(c.rows[k].t)]
                                ELSE shadow[k]]
      BY <1>4, Zenon DEF InsertChunk
    <3> QED  BY <3>2, <3>3 DEF CopierType
  <2> HIDE DEF todo, rows
  <2>5. d \in ChunkType
    BY <2>1, <2>2, Zenon DEF ChunkType
  <2>6. d.lower = c.lower
    BY <2>1 DEF ChunkType
  <2> HIDE DEF d
  <2> QED  BY <1>2, <1>4, <2>3, <2>4, <2>5, <2>6, Zenon DEF InsertChunk
<1>5. CopierType' /\ ChunksAbove'
  BY <1>1, <1>3, <1>4, SMTT(30) DEF CopierStep
<1>6. UNCHANGED <<sourceVars, streamVars, cycleVars>>
  BY Zenon DEF CopierStep, Claim, ReadChunk, InsertChunk
<1> QED  BY <1>5, <1>6, SourceFrame, StreamFrame, CycleFrame DEF sourceVars

\* Delivering a change keeps the invariant: its entry is owed from the position
\* delivered before its transaction.
LEMMA DeliverChangeInv ==
    ASSUME IInv, DeliverChange
    PROVE  CycleType' /\ Owed' /\ StreamType'
<1> USE DEF IInv, TypeOK
<1> DEFINE i == delivered + 1
           c == wal[i][offset + 1]
           ev == [kind |-> c.kind, key |-> c.key, old |-> c.old, u |-> c.u,
                  t |-> sourceForm(c.t), xid |-> i, delivered |-> delivered]
<1>1. /\ slot \in Nat /\ confirmed \in Nat /\ delivered \in Nat /\ offset \in Nat
      /\ confirmed <= delivered
  BY DEF StreamType
<1>2. c \in WalChange
  <2>0. i <= Len(wal) /\ offset < Len(wal[i]) /\ wal \in Seq(WalTx)
    BY DEF DeliverChange, SourceType
  <2>1. wal[i] \in WalTx
    BY <1>1, <2>0
  <2>2. wal[i] \in Seq(WalChange) /\ offset + 1 \in 1 .. Len(wal[i])
    <3> HIDE DEF i
    <3> QED  BY <1>1, <2>0, <2>1 DEF WalTx
  <2> HIDE DEF i
  <2> QED  BY <2>2
<1>3. ev \in Change /\ ev.delivered = delivered /\ delivered < ev.xid
  <2> HIDE DEF c
  <2> QED  BY <1>1, <1>2, SMTT(30) DEF WalChange, Change, sourceForm, Value
<1>4. /\ buf' = Add(buf, ev) /\ failed' = (IF Refuses(buf, ev) THEN "refused change" ELSE "no")
      /\ UNCHANGED <<delivered, confirmed, pc, batch>>
  BY DEF DeliverChange
<1> HIDE DEF ev
<1>5. Sound(buf', confirmed, delivered)
  BY <1>1, <1>3, <1>4, AddSound DEF Owed
<1>6. StreamType'
  <2>1. offset' = offset + 1 /\ UNCHANGED <<delivered, slot, confirmed, wal>>
    BY DEF DeliverChange, sourceVars
  <2> QED  BY <1>1, <2>1 DEF StreamType
<1>7. CycleType'
  BY <1>4, <1>5 DEF CycleType, Sound
<1> QED  BY <1>4, <1>5, <1>6, <1>7 DEF Owed, EmptyBatch

\* Delivering a COMMIT widens what entries may owe.
LEMMA DeliverCommitInv ==
    ASSUME IInv, DeliverCommit
    PROVE  CycleType' /\ Owed' /\ StreamType'
<1> USE DEF IInv, TypeOK
<1>1. /\ slot \in Nat /\ confirmed \in Nat /\ delivered \in Nat /\ offset \in Nat
      /\ confirmed <= delivered /\ Len(wal) \in Nat
  BY DEF StreamType, SourceType
<1>2. delivered' = delivered + 1 /\ offset' = 0 /\ delivered < Len(wal)
      /\ UNCHANGED <<slot, confirmed, pc, buf, batch, failed, wal>>
  BY DEF DeliverCommit, sourceVars, cycleVars
<1>3. StreamType'
  BY <1>1, <1>2 DEF StreamType
<1>4. ASSUME NEW f \in [Key -> Entry], EntriesOK(f, confirmed, delivered)
      PROVE  EntriesOK(f, confirmed, delivered + 1)
  BY <1>1, <1>4 DEF EntriesOK, EntryOK, Entry
<1>5. EntriesOK(buf.entries, confirmed, delivered + 1) /\ EntriesOK(batch, confirmed, delivered + 1)
  BY <1>4 DEF Owed, Sound, BufferType, CycleType
<1> QED  BY <1>2, <1>3, <1>5 DEF CycleType, Owed, Sound, EmptyBatch

\* The end of gather, with or without a drain to follow, keeps the invariant.
LEMMA ReleaseInv ==
    ASSUME IInv, TakeSnapshot \/ SkipFlush
    PROVE  CycleType' /\ Owed'
<1> USE DEF IInv, TypeOK
<1>1. /\ buf' = Release(buf, delivered) /\ pc = "gather" /\ pc' \in {"position", "confirm"}
      /\ UNCHANGED <<confirmed, delivered, batch, failed>>
  BY DEF TakeSnapshot, SkipFlush, streamVars
<1>2. Sound(buf', confirmed, delivered)
  BY <1>1, ReleaseSound DEF Owed, StreamType
<1> QED  BY <1>1, <1>2 DEF CycleType, Owed, Sound, EmptyBatch

\* The drain hands the flush entries that stay owed.
LEMMA DrainInv ==
    ASSUME IInv, DrainBuffer
    PROVE  CycleType' /\ Owed'
<1> USE DEF IInv, TypeOK
<1> DEFINE v == Verdict(buf, position, hidden)
<1>1. /\ buf' = Drain(buf, position, hidden)
      /\ batch' = [k \in Key |-> IF k \in v.flush THEN buf.entries[k] ELSE NoEntry]
      /\ pc' = (IF v.flush = {} THEN "confirm" ELSE "flush")
      /\ UNCHANGED <<confirmed, delivered, failed>>
  BY DEF DrainBuffer, streamVars
<1> HIDE DEF v
<1>2. Sound(buf', confirmed, delivered)
  BY <1>1, DrainSound DEF Owed, StreamType
<1>3. batch' \in [Key -> Entry]
  BY <1>1, NoRowType, ZenonT(30) DEF CycleType, BufferType
<1>4. EntriesOK(batch', confirmed, delivered)
  BY <1>1, Zenon DEF EntriesOK, EntryOK, NoEntry, Owed, Sound
<1>5. v.flush = {} => batch' = EmptyBatch
  BY <1>1 DEF EmptyBatch
<1> QED  BY <1>1, <1>2, <1>3, <1>4, <1>5 DEF CycleType, Owed, Sound, EmptyBatch

\* What a flush holds back is an image, with a typed completion.
LEMMA HeldTyped ==
    ASSUME IInv
    PROVE  /\ heldBack \in [Key -> Completion]
           /\ \A k \in Key : heldBack[k].on => batch[k].kind = "image"
<1> USE DEF IInv, TypeOK
<1>1. Len(wal) \in Nat /\ src \in [Key -> RowType] /\ shadow \in [Key -> RowType]
  BY DEF SourceType, CopierType
<1>2. NoPending.on = FALSE
  BY DEF NoPending
<1>3. ASSUME NEW t \in Value
      PROVE  [on |-> TRUE, t |-> t, readLSN |-> Len(wal)] \in Completion
  BY <1>1, Zenon DEF Completion
<1>4. Marker \in Value /\ \A x \in Nat : sourceForm(x) \in Value /\ shadowForm(x) \in Value
  BY DEF Marker, Value, sourceForm, shadowForm
<1>5. ASSUME NEW k \in Key, named(k)
      PROVE  completion(k) \in Completion /\ batch[k].kind = "image"
  <2>1. batch[k].oldKey \in Key /\ batch[k].kind = "image"
    BY <1>5 DEF named, HasMarker, CycleType, Entry
  <2>2. /\ shadow[batch[k].oldKey].t \in Nat /\ src[k].t \in Nat
    BY <1>1, <2>1 DEF RowType
  <2> QED  BY <1>3, <1>4, <2>1, <2>2, NoRowType DEF completion
<1>6. ASSUME NEW k \in Key
      PROVE  holds(k) \in Completion /\ (holds(k).on => batch[k].kind = "image")
  <2>1. CASE named(k)
    BY <1>5, <2>1 DEF holds
  <2>2. CASE ~named(k) /\ absent(k)
    BY <1>3, <1>4, <2>2 DEF holds, absent, checksShadowRow
  <2>3. CASE ~named(k) /\ ~absent(k)
    BY <1>2, <2>3, NoRowType DEF holds
  <2> QED  BY <2>1, <2>2, <2>3
<1>7. \A k \in Key : heldBack[k] = holds(k)
  BY DEF heldBack
<1> QED  BY <1>6, <1>7 DEF heldBack

\* Marking an image as having waited changes nothing else of it.
LEMMA AwaitingOK ==
    ASSUME IInv
    PROVE  /\ awaiting \in [Key -> Entry] /\ EntriesOK(awaiting, confirmed, delivered)
           /\ \A k \in Key : awaiting[k].kind = batch[k].kind
<1> USE DEF IInv, TypeOK
<1>1. ASSUME NEW k \in Key, NEW e \in Entry, e = batch[k], absent(k)
      PROVE  LET d == [e EXCEPT !.awaited = TRUE]
             IN  d \in Entry /\ EntryOK(d, confirmed, delivered) /\ d.kind = e.kind
  <2> DEFINE d == [e EXCEPT !.awaited = TRUE]
  <2>1. d \in Entry
    BY Zenon DEF Entry
  <2>2. d.kind = e.kind /\ d.first = e.first /\ d.xid = e.xid
    BY DEF Entry
  <2>3. e.kind = "image" /\ EntryOK(e, confirmed, delivered)
    BY <1>1 DEF absent, checksShadowRow, Owed, EntriesOK
  <2> HIDE DEF d
  <2>4. EntryOK(d, confirmed, delivered)
    BY <2>2, <2>3 DEF EntryOK
  <2> QED  BY <2>1, <2>2, <2>4 DEF d
<1>2. \A k \in Key : batch[k] \in Entry /\ EntryOK(batch[k], confirmed, delivered)
  BY DEF CycleType, Owed, EntriesOK
<1>3. \A k \in Key : /\ awaiting[k] \in Entry /\ EntryOK(awaiting[k], confirmed, delivered)
                     /\ awaiting[k].kind = batch[k].kind
  BY <1>1, <1>2 DEF awaiting
<1> QED  BY <1>3 DEF awaiting, EntriesOK

\* A flush that commits leaves a typed shadow and a sound buffer.
LEMMA FlushInv ==
    ASSUME IInv, Flush
    PROVE  CycleType' /\ Owed' /\ shadow' \in [Key -> RowType]
<1> USE DEF IInv, TypeOK
<1>1. /\ batch' = EmptyBatch /\ pc' = "confirm" /\ UNCHANGED <<confirmed, delivered>>
      /\ confirmed \in Nat /\ delivered \in Nat
  BY DEF Flush, streamVars, StreamType
<1>2. shadow' \in [Key -> RowType]
  <2>1. \A k \in Key : written(k) \in RowType
    <3> SUFFICES ASSUME NEW k \in Key PROVE written(k) \in RowType
      OBVIOUS
    <3>1. batch[k].u \in Nat /\ batch[k].t.v \in Nat /\ shadow[k].t \in Nat
      BY DEF CycleType, CopierType, Entry, Value, RowType
    <3> QED  BY <3>1 DEF written, RowType, convert
  <2>2. shadow' = [k \in Key |-> IF k \in deletes THEN NoRow
                                 ELSE IF k \in images THEN written(k) ELSE shadow[k]]
    BY DEF Flush
  <2> QED  BY <2>1, <2>2, NoRowType DEF CopierType
<1>3. Sound(buf', confirmed, delivered) /\ failed' \in {"no", "hold"}
  <2>1. CASE Taken(buf, {k \in Key : holds(k).on})
    BY <2>1 DEF Flush, Owed
  <2>2. CASE ~Taken(buf, {k \in Key : holds(k).on})
    <3>1. buf' = Hold(buf, awaiting, heldBack) /\ failed' = failed /\ failed = "no"
      BY <2>2 DEF Flush
    <3>2. {k \in Key : holds(k).on} = {k \in Key : heldBack[k].on}
      BY DEF heldBack
    <3>3. \A k \in Key : heldBack[k].on => awaiting[k].kind = "image"
      BY HeldTyped, AwaitingOK
    <3>4. Sound(Hold(buf, awaiting, heldBack), confirmed, delivered)
      BY <1>1, <2>2, <3>2, <3>3, HeldTyped, AwaitingOK, HoldSound DEF Owed
    <3> QED  BY <3>1, <3>4
  <2> QED  BY <2>1, <2>2
<1>4. EntriesOK(batch', confirmed', delivered') /\ batch' \in [Key -> Entry]
  BY <1>1, EmptyOK
<1>5. Owed'
  BY <1>1, <1>3, <1>4 DEF Owed, EmptyBatch
<1>6. CycleType'
  BY <1>1, <1>3, <1>4 DEF CycleType, Sound
<1> QED  BY <1>2, <1>5, <1>6

\* A refused batch goes back to the buffer, or ends the catch-up where it is.
LEMMA DeferFlushInv ==
    ASSUME IInv, DeferFlush
    PROVE  CycleType' /\ Owed'
<1> USE DEF IInv, TypeOK
<1>1. UNCHANGED <<confirmed, delivered>> /\ confirmed \in Nat /\ delivered \in Nat
  BY DEF DeferFlush, streamVars, StreamType
<1>2. failed' = flushError
  BY DEF DeferFlush
<1>3. CASE flushError # "no"
  <2>1. UNCHANGED <<buf, batch, pc>> /\ flushError \in {"lost row", "cannot converge", "requeue"}
    BY <1>3 DEF DeferFlush, flushError
  <2> QED  BY <1>1, <1>2, <2>1 DEF CycleType, Owed, EmptyBatch
<1>4. CASE flushError = "no"
  <2>1. /\ buf' = Requeue(buf, batch) /\ batch' = EmptyBatch /\ pc' = "confirm"
        /\ ~Taken(buf, {k \in Key : batch[k].kind # "none"})
    BY <1>4 DEF DeferFlush, flushError
  <2>2. Sound(buf', confirmed, delivered)
    BY <1>1, <2>1, RequeueSound DEF Owed, CycleType
  <2>3. EntriesOK(batch', confirmed', delivered') /\ batch' \in [Key -> Entry]
    BY <2>1, EmptyOK
  <2> QED  BY <1>1, <1>2, <1>4, <2>1, <2>2, <2>3, ZenonT(30) DEF CycleType, Owed, Sound, EmptyBatch
<1> QED  BY <1>3, <1>4

\* Confirm stays at or below what every entry owes: with no batch out, the
\* oldest buffered position bounds it.
LEMMA ConfirmInv ==
    ASSUME IInv, Confirm
    PROVE  CycleType' /\ Owed' /\ StreamType'
<1> USE DEF IInv, TypeOK
<1>1. /\ slot \in Nat /\ confirmed \in Nat /\ delivered \in Nat /\ slot <= confirmed
      /\ confirmed <= delivered /\ buf.oldest \in Nat
  BY DEF StreamType, CycleType, BufferType
<1>2. /\ confirmed' = (IF confirmBound <= confirmed THEN confirmed ELSE confirmBound)
      /\ batch = EmptyBatch /\ pc' = "gather"
      /\ UNCHANGED <<delivered, slot, offset, wal, buf, batch, failed>>
  BY DEF Confirm, Owed, sourceVars
<1>3. /\ confirmBound \in Nat /\ confirmBound <= delivered
      /\ buf.hasOldest => confirmBound <= buf.oldest
  BY <1>1 DEF confirmBound
<1>4. StreamType'
  BY <1>1, <1>2, <1>3 DEF StreamType
<1>5. \A k \in Key : buf.entries[k].kind # "none" => confirmed' <= buf.entries[k].first
  <2> SUFFICES ASSUME NEW k \in Key, buf.entries[k].kind # "none"
               PROVE  confirmed' <= buf.entries[k].first
    OBVIOUS
  <2>1. /\ buf.hasOldest /\ buf.oldest <= buf.entries[k].first
        /\ confirmed <= buf.entries[k].first /\ buf.entries[k].first \in Nat
    BY DEF Owed, Sound, Coherent, OldestExact, Buffered, EntriesOK, EntryOK, CycleType,
           BufferType, Entry
  <2> QED  BY <1>1, <1>2, <1>3, <2>1
<1>6. EntriesOK(buf.entries, confirmed', delivered)
  BY <1>5 DEF Owed, Sound, EntriesOK, EntryOK
<1>7. EntriesOK(batch, confirmed', delivered)
  BY <1>2, EmptyOK
<1> QED  BY <1>2, <1>4, <1>6, <1>7 DEF CycleType, Owed, Sound, EmptyBatch

\* Every step of the catch-up cycle keeps the invariant.
LEMMA CycleInv ==
    ASSUME IInv, CycleStep
    PROVE  IInv'
<1> USE DEF IInv, TypeOK
<1>1. UNCHANGED <<sourceVars, copierVars>> /\ wal' = wal
  BY DEF CycleStep, DeliverChange, DeliverCommit, TakeSnapshot, SkipFlush, DrainBuffer, Flush,
         DeferFlush, Confirm, sourceVars
<1>2. CASE DeliverChange \/ DeliverCommit \/ Confirm
  <2>1. CycleType' /\ Owed' /\ StreamType'
    BY <1>2, DeliverChangeInv, DeliverCommitInv, ConfirmInv, SMTT(30)
  <2>2. shadow' = shadow
    BY <1>2, Zenon DEF DeliverChange, DeliverCommit, Confirm
  <2> QED  BY <1>1, <2>1, <2>2, SourceFrame, CopierFrame DEF CopierType
<1>3. CASE TakeSnapshot \/ SkipFlush \/ DrainBuffer \/ DeferFlush
  <2>1. CycleType' /\ Owed'
    BY <1>3, ReleaseInv, DrainInv, DeferFlushInv, SMTT(30)
  <2>2. shadow' = shadow /\ UNCHANGED streamVars
    BY <1>3 DEF TakeSnapshot, SkipFlush, DrainBuffer, DeferFlush
  <2> QED  BY <1>1, <2>1, <2>2, SourceFrame, CopierFrame, StreamFrame DEF CopierType
<1>4. CASE Flush
  <2>1. UNCHANGED streamVars
    BY <1>4 DEF Flush
  <2> QED  BY <1>1, <1>4, <2>1, FlushInv, SourceFrame, CopierFrame, StreamFrame, SMTT(30)
<1> QED  BY <1>2, <1>3, <1>4, SMTT(30) DEF CycleStep

\* A restart begins again from positions the run had reached.
LEMMA RestartInv ==
    ASSUME IInv, RestartStep
    PROVE  IInv'
<1> USE DEF IInv, TypeOK
<1>1. PICK w \in from .. watermark, p \in slot .. confirmed : Restart(w, p)
  BY DEF RestartStep
<1>2. w \in Int /\ p \in Nat /\ p <= Len(wal) /\ Len(wal) \in Nat
  BY DEF CopierType, StreamType, SourceType
<1>3. SourceType'
  BY <1>1, SourceFrame DEF Restart
<1>4. CopierType' /\ ChunksAbove'
  <2>1. shadow' \in [Key -> RowType]
    BY <1>1, NoRowType DEF Restart, CopierType
  <2>2. cut' = w /\ from' = w /\ chunks' = {}
    BY <1>1 DEF Restart
  <2>3. watermark' = w
    BY <2>2 DEF watermark, lowWater
  <2> QED  BY <1>2, <2>1, <2>2, <2>3, SMTT(30) DEF CopierType, ChunksAbove
<1>5. StreamType'
  BY <1>1, <1>2, SMTT(30) DEF Restart, StreamType, sourceVars
<1>6. CycleType' /\ Owed'
  <2>1. /\ pc' = "gather" /\ buf' = NewBuffer /\ batch' = EmptyBatch /\ failed' = "no"
    BY <1>1 DEF Restart
  <2>2. Sound(NewBuffer, confirmed', delivered')
    BY NewBufferSound
  <2>3. EmptyBatch \in [Key -> Entry] /\ EntriesOK(EmptyBatch, confirmed', delivered')
    BY EmptyOK
  <2> QED  BY <2>1, <2>2, <2>3 DEF CycleType, Owed, Sound, EmptyBatch
<1> QED  BY <1>3, <1>4, <1>5, <1>6

\* The invariant is inductive, so every reachable state satisfies it.
THEOREM Invariance == Spec => []IInv
<1>1. IInv /\ [Next]_vars => IInv'
  <2> SUFFICES ASSUME IInv, [Next]_vars PROVE IInv'
    OBVIOUS
  <2>1. CASE Next
    BY <2>1, ClientInv, CopierInv, CycleInv, RestartInv, SMTT(30) DEF Next
  <2>2. CASE UNCHANGED vars
    <3>1. UNCHANGED <<sourceVars, copierVars, streamVars, cycleVars>> /\ shadow' = shadow
          /\ wal' = wal
      BY <2>2 DEF vars, sourceVars
    <3> QED  BY <3>1, SourceFrame, CopierFrame, StreamFrame, CycleFrame DEF IInv, TypeOK, CopierType
  <2> QED  BY <2>1, <2>2
<1> QED  BY <1>1, InitInv, PTL DEF Spec

\* The variables of the catch-up always have their types, and no saved or
\* confirmed position ever passes what was landed or delivered.
THEOREM CatchupTypeCorrect == Spec => []TypeOK
<1>1. IInv => TypeOK
  BY DEF IInv
<1> QED  BY <1>1, Invariance, PTL

\* Buffer.Add, Drain, Hold, Requeue and Release together keep the buffer's
\* index, its holds and its oldest position exact at every point of a run.
THEOREM BufferAlwaysCoherent == Spec => []BufferCoherent
<1>1. IInv => BufferCoherent
  BY DEF IInv, Owed, Sound, BufferCoherent
<1> QED  BY <1>1, Invariance, PTL

\* Catchup.confirm never acknowledges a transaction of which a change is still
\* buffered, held or in a batch, whatever is deferred, held back or requeued
\* and wherever the engine restarts (ST-4).
THEOREM ConfirmIsSafe == Spec => []ConfirmedBelowUnapplied
<1>1. IInv => ConfirmedBelowUnapplied
  <2> SUFFICES ASSUME IInv, NEW e \in Entry, e # NoEntry, EntryOK(e, confirmed, delivered)
               PROVE  confirmed < e.xid
    BY DEF IInv, TypeOK, CycleType, Owed, Sound, EntriesOK, BufferType, ConfirmedBelowUnapplied
  <2>1. confirmed \in Nat /\ e.first \in Nat /\ e.xid \in Nat
    BY DEF IInv, TypeOK, StreamType, Entry
  <2> QED  BY <2>1 DEF EntryOK
<1> QED  BY <1>1, Invariance, PTL

-----------------------------------------------------------------------------
(* The copier beside which the catch-up is proved and checked implements   *)
(* module CopyPosition, for every set of keys, any number of workers and   *)
(* of restarts: each step of Catchup is a step of the contract or leaves   *)
(* the copier's position, its watermark and its run as they were.          *)

\* A chunk owes keys of its own range, and has read rows of those alone.
ChunksOwn ==
    \A c \in chunks : c.todo \subseteq c.lower .. c.upper /\ Live(c.rows) \subseteq c.todo

RInv == IInv /\ ChunksOwn

\* The prefix of keys at or below a watermark.
upTo(w) == {k \in Key : k <= w}

-----------------------------------------------------------------------------
(* Chunks. *)

\* A chunk just claimed owes its range and has read nothing.
LEMMA FreshChunkOwns ==
    ASSUME NEW lower, NEW upper
    PROVE  /\ chunk(lower, upper).todo \subseteq lower .. upper
           /\ chunk(lower, upper).lower = lower /\ chunk(lower, upper).upper = upper
           /\ Live(chunk(lower, upper).rows) = {}
           /\ chunk(lower, upper).todo = Key \cap (lower .. upper)
BY SMTT(30) DEF chunk, Live

\* Clients leave the copier alone.
LEMMA ClientSpares == ClientStep => UNCHANGED <<copierVars, crashes>>
<1>1. \A tx : ClientCommit(tx) => UNCHANGED <<copierVars, crashes>>
  BY Zenon DEF ClientCommit
<1>2. \A i : ClientVisible(i) => UNCHANGED <<copierVars, crashes>>
  BY Zenon DEF ClientVisible
<1> QED  BY <1>1, <1>2, Zenon DEF ClientStep

\* The range and the keys owed of each chunk outlive every step.
LEMMA OwnInv ==
    ASSUME IInv, ChunksOwn, [Next]_vars
    PROVE  ChunksOwn'
<1> USE DEF ChunksOwn
<1>1. ASSUME NEW upper \in Key, Claim(upper) PROVE ChunksOwn'
  <2> DEFINE d == chunk(cut + 1, upper)
  <2>1. d.todo \subseteq d.lower .. d.upper /\ Live(d.rows) \subseteq d.todo
    BY FreshChunkOwns
  <2>2. chunks' = chunks \cup {d}
    BY <1>1 DEF Claim
  <2> HIDE DEF d
  <2> QED  BY <2>1, <2>2
<1>2. ASSUME NEW c \in chunks, ReadChunk(c) PROVE ChunksOwn'
  <2>1. c \in ChunkType
    BY DEF IInv, TypeOK, CopierType
  <2> DEFINE rows == [k \in Key |-> IF k \in c.todo THEN src[k] ELSE NoRow]
             d == [c EXCEPT !.read = TRUE, !.rows = rows]
  <2>2. Live(rows) \subseteq c.todo
    BY DEF Live
  <2>3. d.todo = c.todo /\ d.lower = c.lower /\ d.upper = c.upper /\ d.rows = rows
    BY <2>1, SMTT(30) DEF ChunkType
  <2>4. chunks' = (chunks \ {c}) \cup {d}
    BY <1>2, Zenon DEF ReadChunk
  <2> HIDE DEF d, rows
  <2> QED  BY <2>2, <2>3, <2>4
<1>3. ASSUME NEW c \in chunks, InsertChunk(c) PROVE ChunksOwn'
  <2>1. c \in ChunkType
    BY DEF IInv, TypeOK, CopierType
  <2> DEFINE new == {k \in Live(c.rows) : shadow[k] = NoRow}
             held == {k \in new : clashes(k, c.rows[k].u)}
             none == [k \in Key |-> NoRow]
             todo == IF c.around THEN held ELSE c.todo
             d == [c EXCEPT !.around = TRUE, !.read = FALSE, !.rows = none, !.todo = todo]
  <2>2. Live(none) = {}
    BY DEF Live
  <2>3. todo \subseteq c.todo
    BY DEF new, held
  <2>4. d.todo = todo /\ d.lower = c.lower /\ d.upper = c.upper /\ d.rows = none
    BY <2>1, SMTT(30) DEF ChunkType
  <2>5. chunks' \subseteq (chunks \ {c}) \cup {d}
    BY <1>3, Zenon DEF InsertChunk
  <2> HIDE DEF d, none, todo
  <2> QED  BY <2>2, <2>3, <2>4, <2>5
<1>4. CASE RestartStep
  BY <1>4 DEF RestartStep, Restart
<1>5. CASE UNCHANGED chunks
  BY <1>5, SMTT(30)
<1>6. ClientStep => UNCHANGED chunks
  BY ClientSpares, Zenon DEF copierVars
<1>7. CycleStep => UNCHANGED chunks
  BY Zenon DEF CycleStep, DeliverChange, DeliverCommit, TakeSnapshot, SkipFlush, DrainBuffer,
         Flush, DeferFlush, Confirm, copierVars
<1>8. UNCHANGED vars => UNCHANGED chunks
  BY DEF vars, copierVars
<1> QED  BY <1>1, <1>2, <1>3, <1>4, <1>5, <1>6, <1>7, <1>8 DEF Next, CopierStep

\* Ownership holds throughout a run, with the invariant of the catch-up.
THEOREM Ownership == Spec => []RInv
<1>1. Init => ChunksOwn
  BY DEF Init, ChunksOwn
<1>2. IInv /\ ChunksOwn /\ [Next]_vars => ChunksOwn'
  BY OwnInv
<1> QED  BY <1>1, <1>2, Invariance, PTL DEF Spec, RInv

-----------------------------------------------------------------------------
(* Positions. *)

\* Every key at or below the watermark has landed.
LEMMA BelowWatermark ==
    ASSUME RInv, NEW k \in Key, k <= watermark
    PROVE  Classify(k) = "landed"
<1>1. cut \in Int /\ from \in Int /\ chunks \subseteq ChunkType
  BY DEF RInv, IInv, TypeOK, CopierType
<1>2. from <= cut /\ \A c \in chunks : from < c.lower /\ c.lower <= cut
  BY DEF RInv, IInv, ChunksAbove
<1>3. /\ watermark \in Int /\ watermark <= cut
      /\ \A c \in chunks : watermark < c.lower
  BY <1>1, <1>2, LowWaterBounds, Zenon DEF watermark
<1>4. k \in Int
  BY KeyAssumption
<1>5. ASSUME NEW c \in chunks PROVE k \notin c.todo
  <2>1. c.todo \subseteq c.lower .. c.upper
    BY DEF RInv, ChunksOwn
  <2>2. c.lower \in Int /\ c.upper \in Int
    BY <1>1 DEF ChunkType
  <2> QED  BY <1>3, <1>4, <2>1, <2>2
<1> QED  BY <1>1, <1>3, <1>4, <1>5 DEF Classify

\* A prefix of the keys is a prefix in the sense of the contract.
LEMMA UpToIsPrefix ==
    ASSUME NEW w \in Int
    PROVE  upTo(w) \in SUBSET Key /\ Contract!Prefix(upTo(w))
BY KeyAssumption DEF upTo, Contract!Prefix

\* What is saved is the prefix up to the watermark the run resumed from.
LEMMA SavedIsUpTo == {k \in Key : k <= from} = upTo(from)
BY DEF upTo

\* A claim is a claim of the contract: of the keys of its chunk.
LEMMA ClaimStep ==
    ASSUME RInv, NEW upper \in Key, Claim(upper)
    PROVE  Contract!Next
<1> DEFINE S == Key \cap ((cut + 1) .. upper)
           d == chunk(cut + 1, upper)
<1>1. cut \in Int /\ upper \in Int /\ Key \subseteq Int
  BY KeyAssumption DEF RInv, IInv, TypeOK, CopierType
<1>2. d.todo = S
  BY FreshChunkOwns
<1>3. chunks' = chunks \cup {d} /\ cut' = upper /\ cut < upper /\ from' = from /\ crashes' = crashes
  BY <1>1 DEF Claim
<1> HIDE DEF d
<1>4. ASSUME NEW k \in Key
      PROVE  /\ k \in S => Classify(k) = "uncut" /\ Classify(k)' = "inFlight"
             /\ k \notin S => Classify(k)' = Classify(k)
             /\ Classify(k) = "uncut" <=> k > cut
  <2>1. k \in S <=> (k > cut /\ k <= upper)
    BY <1>1
  <2> HIDE DEF S
  <2>2. (\E c \in chunks' : k \in c.todo) <=> (k \in S \/ \E c \in chunks : k \in c.todo)
    BY <1>2, <1>3
  <2> DEFINE busy == \E c \in chunks : k \in c.todo
  <2>3. Classify(k) = IF k > cut THEN "uncut" ELSE IF busy THEN "inFlight" ELSE "landed"
    BY SMTT(30) DEF Classify
  <2>4. Classify(k)' = IF k > upper THEN "uncut"
                       ELSE IF k \in S \/ busy THEN "inFlight" ELSE "landed"
    BY <1>3, <2>2 DEF Classify
  <2> HIDE DEF busy
  <2>5. k \in Int
    BY <1>1
  <2> QED  BY <1>1, <1>3, <2>1, <2>3, <2>4, <2>5, SMTT(30)
<1> QED
  <2>1. S \in SUBSET Key /\ S \subseteq Contract!In("uncut")
    BY <1>4 DEF Contract!In, position
  <2>2. Contract!Prefix(S \cup (Key \ Contract!In("uncut")))
    BY <1>1, <1>4 DEF Contract!In, Contract!Prefix, position
  <2>3. position' = [k \in Key |-> IF k \in S THEN "inFlight" ELSE position[k]]
    BY <1>4 DEF position
  <2>4. Contract!Claim(S)
    BY <1>3, <2>1, <2>2, <2>3 DEF Contract!Claim
  <2> QED  BY <2>1, <2>4 DEF Contract!Next

\* A pass that reads moves no key.
LEMMA ReadStep ==
    ASSUME RInv, NEW c \in chunks, ReadChunk(c)
    PROVE  UNCHANGED Contract!vars
<1> DEFINE rows == [k \in Key |-> IF k \in c.todo THEN src[k] ELSE NoRow]
           d == [c EXCEPT !.read = TRUE, !.rows = rows]
<1>1. c \in ChunkType
  BY DEF RInv, IInv, TypeOK, CopierType
<1>2. d.todo = c.todo
  BY <1>1, SMTT(30) DEF ChunkType
<1>3. chunks' = (chunks \ {c}) \cup {d} /\ cut' = cut /\ from' = from /\ crashes' = crashes
  BY Zenon DEF ReadChunk
<1> HIDE DEF d
<1>4. ASSUME NEW k \in Key
      PROVE  (\E e \in chunks' : k \in e.todo) <=> \E e \in chunks : k \in e.todo
  BY <1>2, <1>3
<1>5. ASSUME NEW k \in Key PROVE Classify(k)' = Classify(k)
  BY <1>3, <1>4 DEF Classify
<1>6. position' = position
  BY <1>5 DEF position
<1> QED  BY <1>3, <1>6 DEF Contract!vars

\* A pass that commits lands the keys it no longer owes.
LEMMA InsertStep ==
    ASSUME RInv, NEW c \in chunks, InsertChunk(c)
    PROVE  Contract!Next
<1> DEFINE new == {k \in Live(c.rows) : shadow[k] = NoRow}
           held == {k \in new : clashes(k, c.rows[k].u)}
           todo == IF c.around THEN held ELSE c.todo
           d == [c EXCEPT !.around = TRUE, !.read = FALSE, !.rows = [k \in Key |-> NoRow],
                          !.todo = todo]
           S == {k \in Key : Classify(k) = "inFlight" /\ Classify(k)' = "landed"}
<1>1. c \in ChunkType
  BY DEF RInv, IInv, TypeOK, CopierType
<1>2. d.todo = todo
  BY <1>1 DEF ChunkType
<1>3. todo \subseteq c.todo
  BY SMTT(30) DEF RInv, ChunksOwn, new, held
<1>4. /\ chunks' \subseteq (chunks \ {c}) \cup {d}
      /\ cut' = cut /\ from' = from /\ crashes' = crashes
  BY Zenon DEF InsertChunk
<1> HIDE DEF d, todo
<1>5. ASSUME NEW k \in Key, \E e \in chunks' : k \in e.todo
      PROVE  \E e \in chunks : k \in e.todo
  BY <1>2, <1>3, <1>4, <1>5, SMTT(30)
<1>6. ASSUME NEW k \in Key
      PROVE  Classify(k)' = IF k \in S THEN "landed" ELSE Classify(k)
  <2>1. CASE k > cut
    BY <1>4, <2>1 DEF Classify
  <2>2. CASE ~(k > cut) /\ \E e \in chunks' : k \in e.todo
    BY <1>4, <1>5, <2>2, SMTT(30) DEF Classify
  <2>3. CASE ~(k > cut) /\ ~\E e \in chunks' : k \in e.todo
    BY <1>4, <2>3 DEF Classify
  <2> QED  BY <2>1, <2>2, <2>3
<1>7. S \in SUBSET Key /\ S \subseteq Contract!In("inFlight")
  BY DEF Contract!In, position
<1> HIDE DEF S
<1>8. position' = [k \in Key |-> IF k \in S THEN "landed" ELSE position[k]]
  BY <1>6 DEF position
<1>9. Contract!Land(S)
  BY <1>4, <1>7, <1>8 DEF Contract!Land
<1> QED  BY <1>7, <1>9 DEF Contract!Next

\* A restart is a new run after a landed prefix, which is saved.
LEMMA RestartMaps ==
    ASSUME RInv, NEW w \in from .. watermark, NEW p \in slot .. confirmed, Restart(w, p)
    PROVE  Contract!Next
<1>1. from \in Int /\ watermark \in Int /\ crashes' = crashes + 1
  BY LowWaterBounds, Zenon DEF RInv, IInv, TypeOK, CopierType, ChunksAbove, watermark, Restart
<1>2. w \in Int /\ from <= w /\ w <= watermark /\ Key \subseteq Int
  BY <1>1, KeyAssumption
<1>3. cut' = w /\ from' = w /\ chunks' = {}
  BY DEF Restart
<1>4. upTo(w) \in SUBSET Key /\ Contract!Prefix(upTo(w))
  BY <1>2, UpToIsPrefix
<1>5. upTo(from) \subseteq upTo(w)
  <2>1. \A k \in Key : k <= from => k <= w
    BY <1>1, <1>2
  <2> QED  BY <2>1 DEF upTo
<1>6. upTo(w) \subseteq Contract!In("landed")
  <2> SUFFICES ASSUME NEW k \in Key, k <= w PROVE Classify(k) = "landed"
    BY DEF upTo, Contract!In, position
  <2>1. k <= watermark
    BY <1>1, <1>2
  <2> QED  BY <2>1, BelowWatermark
<1>7. position' = Contract!After(upTo(w))
  <2>1. ASSUME NEW k \in Key
        PROVE  Classify(k)' = IF k \in upTo(w) THEN "landed" ELSE "uncut"
    BY <1>2, <1>3 DEF Classify, upTo
  <2> QED  BY <2>1 DEF position, Contract!After
<1>8. {k \in Key : k <= from}' = upTo(w)
  BY <1>3 DEF upTo
<1>9. Contract!Resume(upTo(w))
  BY <1>1, <1>4, <1>5, <1>6, <1>7, <1>8, SavedIsUpTo DEF Contract!Resume
<1> QED  BY <1>4, <1>9, SMTT(30) DEF Contract!Next

\* Every other step leaves the copier's state, and so its position, alone.
LEMMA OtherSteps ==
    ASSUME UNCHANGED <<copierVars, crashes>>
    PROVE  UNCHANGED Contract!vars
<1>1. ASSUME NEW k \in Key PROVE Classify(k)' = Classify(k)
  BY DEF Classify, copierVars
<1>2. position' = position
  BY <1>1 DEF position
<1> QED  BY <1>2 DEF Contract!vars, copierVars

\* The positions of the copier in Catchup, restarts included, are those the
\* contract promises: position.go Classify moves a key forward only, in claims
\* that leave nothing out, and a restart resumes after a landed prefix (CO-4,
\* ST-4), for every set of keys and any number of workers.
THEOREM PositionMeetsContract == Spec => MeetsContract
<1>1. Init => Contract!Init
  <2> SUFFICES ASSUME Init PROVE Contract!Init
    OBVIOUS
  <2>1. firstKey - 1 \in Int /\ from = firstKey - 1 /\ cut = firstKey - 1 /\ chunks = {} /\ crashes + 1 = 1
    BY FirstKey, KeyAssumption DEF Init
  <2>2. upTo(from) = {}
    <3>1. \A k \in Key : ~(k <= from)
      BY <2>1, FirstKey, KeyAssumption
    <3> QED  BY <3>1 DEF upTo
  <2>3. position = Contract!After(upTo(from))
    <3>1. ASSUME NEW k \in Key PROVE Classify(k) = "uncut"
      BY <2>1, FirstKey, KeyAssumption DEF Classify
    <3> QED  BY <2>2, <3>1 DEF position, Contract!After
  <2>4. upTo(from) \in SUBSET Key /\ Contract!Prefix(upTo(from))
    BY <2>1, UpToIsPrefix
  <2> QED  BY <2>1, <2>3, <2>4, SavedIsUpTo DEF Contract!Init
<1>2. RInv /\ [Next]_vars => [Contract!Next]_(Contract!vars)
  <2> SUFFICES ASSUME RInv, [Next]_vars PROVE Contract!Next \/ UNCHANGED Contract!vars
    OBVIOUS
  <2>1. CASE CopierStep
    BY <2>1, ClaimStep, ReadStep, InsertStep DEF CopierStep
  <2>2. CASE RestartStep
    BY <2>2, RestartMaps, SMTT(30) DEF RestartStep
  <2>3. ClientStep => UNCHANGED <<copierVars, crashes>>
    BY ClientSpares, Zenon
  <2>4. CycleStep => UNCHANGED <<copierVars, crashes>>
    BY Zenon DEF CycleStep, DeliverChange, DeliverCommit, TakeSnapshot, SkipFlush, DrainBuffer,
           Flush, DeferFlush, Confirm
  <2>5. UNCHANGED vars => UNCHANGED <<copierVars, crashes>>
    BY DEF vars
  <2> QED  BY <2>1, <2>2, <2>3, <2>4, <2>5, OtherSteps, SMTT(30) DEF Next
<1> QED  BY <1>1, <1>2, Ownership, PTL DEF Spec, MeetsContract, Contract!Spec
=============================================================================
