-------------------------- MODULE RunnerInvariant ---------------------------
(***************************************************************************)
(* What a schema change keeps true from its first row to its swap, and how *)
(* a step that touches little of it keeps it.                              *)
(***************************************************************************)
EXTENDS Runner, TLAPS

-----------------------------------------------------------------------------
(* The database. *)

Phases == {"copying", "reconciling", "catching_up", "verifying", "cutover", "done"}

RowType ==
    [phase : Phases, live : BOOLEAN, wm : 0 .. LastPart, lsn : Nat, src : Nat, shadow : Nat,
     st : Statement \cup {BaseShape}]

SwapType == [src : Nat, shadow : Nat, rows : [Part -> Int], unseen : {{}}]

DatabaseType ==
    /\ used \in [oid : OID, mishap : Nat, loss : Nat, lost : {{}}]
    /\ names \in [source : 0 .. used.oid, shadow : 0 .. used.oid, old : 0 .. used.oid]
    /\ table \in [OID -> [rows : [Part -> Int], shape : Statement \cup {BaseShape}, fence : BOOLEAN]]
    /\ wal \in Seq(Part)
    /\ slot \in [exists : BOOLEAN, at : 0 .. Len(wal), lost : BOOLEAN, holder : Engine \cup {None}]
    /\ row \in RowType \cup {NoRow} /\ ax \in SwapType \cup {NoSwap}

\* Three names, three relations.
NamesOK ==
    /\ names.source # 0 /\ names.source # names.shadow /\ names.source # names.old
    /\ names.shadow # 0 => names.shadow # names.old

\* A relation that is not made yet has no fence.
FreshOK == \A o \in OID : used.oid < o => ~table[o].fence

\* The source's name holds what clients wrote, with no part exempt.
LiveTableIsTruth == table[names.source].rows = truth

\* What every write leaves is the position of a part's last write.
TruthOK ==
    \A p \in Part : /\ truth[p] \in 0 .. Len(wal)
                    /\ truth[p] # 0 => wal[truth[p]] = p
                    /\ \A i \in 1 .. Len(wal) : wal[i] = p => i <= truth[p]

\* The stream from a position on makes the part right, or it is right already.
Owes(rows, from, p) == rows[p] = truth[p] \/ \E i \in 1 .. Len(wal) : from < i /\ wal[i] = p

-----------------------------------------------------------------------------
(* Rows: the one that is saved, and those an engine is about to save. *)

RowFits(r) ==
    /\ r.phase \notin {"copying", "reconciling"} => r.wm = LastPart
    /\ r.live \/ r.phase # "reconciling"
    /\ r.src # r.shadow /\ r.src # 0 /\ r.shadow # 0 /\ r.src <= used.oid /\ r.shadow <= used.oid
    /\ r.lsn <= Len(wal)

\* Its shadow has the statement's shape, and no fence, also once it is the source.
Stands(r) ==
    r.shadow \in {names.shadow, names.source}
        => table[r.shadow].shape = r.st /\ ~table[r.shadow].fence

\* Only a row that says so has a shadow that is the source.
Recorded(r) ==
    names.source = r.shadow => r.phase \in {"cutover", "done"} /\ names.shadow = 0

\* Through its watermark every part is there, and the slot has what it lacks.
Copied(r) ==
    names.shadow = r.shadow => \A p \in Part : p <= r.wm =>
        /\ table[r.shadow].rows[p] # Absent
        /\ r.live /\ r.phase # "reconciling" /\ slot.exists
              => Owes(table[r.shadow].rows, Larger(slot.at, r.lsn), p)

RowOK(r) == r \in RowType /\ RowFits(r) /\ Stands(r) /\ Recorded(r) /\ Copied(r)

-----------------------------------------------------------------------------
(* An engine w. *)

Fields ==
    {"pc", "live", "st", "restart", "cp", "landed", "applied", "mark", "to", "then", "saver", "made",
     "tries", "unseen"}

\* All of it, and nothing was written past the fence.
Whole(w) == w = [f \in Fields |-> w[f]] /\ w.unseen = {}

EngineType(w) ==
    /\ Whole(w)
    /\ w.live \in BOOLEAN /\ w.st \in Statement \cup {BaseShape}
    /\ w.cp \in RowType \cup {NoRow} /\ w.saver \in RowType \cup {NoRow}
    /\ w.landed \in 0 .. LastPart /\ w.applied \in Nat /\ w.mark \in Nat

saving(w) == w.pc \in {"save", "commit"}

\* Where it is going, and the row it has there.
goal(w) == IF saving(w) THEN w.then ELSE w.pc
target(w) == IF saving(w) THEN [w.cp EXCEPT !.phase = w.to] ELSE w.cp

\* It saves its first row.
first(w) == saving(w) /\ w.to = "copying" /\ w.then \in {"release", "clear"}

starting == {"build", "unrecordedShadow", "unrecordedFence"}
making == {"fence", "claim", "create"}
ready == {"release", "ready", "refence", "recClear", "recClaim", "open"}
recopying == {"recDrop", "recCreate", "recCopy"}
copying == {"clear", "copy"}
checking == {"mark", "await", "verify", "gate"}
swapping == {"swap", "lock"}
ending == {"swapped", "settle", "finish"}

working == ready \cup recopying \cup copying \cup checking \cup swapping

\* The saved row is the engine's, or the one before it.
RowIsOurs(w) ==
    /\ goal(w) \in starting \cup making \/ first(w) => row = NoRow
    /\ goal(w) \in ending \/ (~saving(w) /\ goal(w) \in working \cup {"committing"}) => row = w.cp
    /\ saving(w) /\ ~first(w) =>
          /\ row # NoRow /\ w.cp # NoRow /\ ~Terminal(row) /\ sameIdentity(row, w.cp)
          /\ row.live = w.cp.live /\ row.wm <= w.cp.wm /\ row.lsn <= w.cp.lsn

\* The phase its row has, by where it is going.
PhaseFits(w) ==
    /\ saving(w) => goal(w) \in {"release", "ready", "recDrop", "open", "clear", "mark", "verify", "swap", "finish"}
    /\ saving(w) => w.to \in Phases
    /\ goal(w) \in making \cup {"release"} \/ first(w) => target(w).phase = "copying" /\ target(w).wm = 0
    /\ goal(w) \in copying => target(w).phase = "copying"
    /\ goal(w) \in recopying => target(w).phase = "reconciling"
    /\ goal(w) \in checking => target(w).phase \notin {"copying", "reconciling", "done"}
    /\ goal(w) \in swapping \cup {"committing", "swapped", "settle"} => target(w).phase = "cutover"
    /\ goal(w) \in ready => target(w).phase # "done"
    /\ goal(w) = "open" => target(w).phase # "reconciling"
    /\ goal(w) = "finish" => target(w).phase = "done"
    /\ goal(w) \in {"claim", "create"} \cup (ready \ {"refence"}) \cup recopying => w.live
    /\ goal(w) \in {"fence", "refence"} \/ (first(w) /\ w.then = "clear") => ~w.live
    /\ w.pc \in {"discardShadow", "discardHold", "discardRow"} => w.then \in {"build", "idle"}

\* Until the swap the row describes the catalog, and holds what it says.
WorkOK(w) ==
    goal(w) \in working \cup making =>
        /\ w.cp # NoRow /\ describes(w.cp) /\ w.cp.st = w.st /\ w.cp.live = w.live /\ RowOK(target(w))

\* The stream is open while a live engine fills and checks its shadow: what it
\* has not applied is all the shadow lacks.
StreamOK(e, w) ==
    slot.holder = e =>
        /\ w.live /\ slot.exists /\ goal(w) \in copying \cup checking
        /\ slot.at <= w.applied /\ w.applied <= Len(wal) /\ w.cp.lsn <= w.applied
        /\ w.cp.wm <= w.landed /\ (goal(w) \in checking => w.landed = LastPart)
        /\ w.saver # NoRow => w.saver.lsn <= w.applied
        /\ \A p \in Part : p <= w.landed => Owes(table[w.cp.shadow].rows, w.applied, p)

CopyOK(w) ==
    /\ w.pc = "copy" => w.cp.wm <= w.landed
          /\ \A p \in Part : p <= w.landed => table[w.cp.shadow].rows[p] # Absent
    /\ w.saver # NoRow =>
          /\ w.pc = "copy" /\ w.saver.phase = "copying" /\ sameIdentity(w.saver, w.cp)
          /\ w.saver.live = w.cp.live /\ w.saver.wm <= w.landed /\ w.cp.wm <= w.saver.wm
          /\ w.cp.lsn <= w.saver.lsn /\ RowOK(w.saver)

RecopyOK(w) ==
    w.pc = "recCopy" =>
        /\ slot.exists => slot.at = w.mark
        /\ w.landed <= w.cp.wm /\ w.cp.lsn <= w.mark /\ w.mark <= Len(wal)
        /\ \A p \in Part : p <= w.landed => Owes(table[w.cp.shadow].rows, w.mark, p)

\* A quiesced shadow that was verified is the source as long as the fence stands.
QuietOK(w) ==
    goal(w) \in {"gate"} \cup swapping /\ ~w.live /\ table[names.source].fence
        => table[w.cp.shadow].rows = truth

\* After the swap: what the run leaves behind.
EndOK(w) ==
    /\ goal(w) \in ending \cup {"committing"} => w.cp # NoRow /\ w.cp.st = w.st /\ w.cp.live = w.live
    /\ goal(w) \in ending =>
          /\ names.source = w.cp.shadow
          /\ goal(w) # "swapped" /\ w.live => ~slot.exists
          /\ goal(w) = "finish" /\ names.old # 0 => ~table[names.old].fence

LocksOK(e, w) ==
    /\ goal(w) \in {"create", "release", "recDrop", "recCreate"} => slotLock = e
    /\ ax # NoSwap => w.pc \in {"idle", "dispatch", "committing"}
    /\ w.pc = "idle" => w = Idle
    /\ MaxLosses = 0 /\ w.pc # "idle" => lock = e

EngineOK(e, w) ==
    /\ EngineType(w) /\ RowIsOurs(w) /\ PhaseFits(w) /\ WorkOK(w) /\ StreamOK(e, w)
    /\ CopyOK(w) /\ RecopyOK(w) /\ QuietOK(w) /\ EndOK(w) /\ LocksOK(e, w)

-----------------------------------------------------------------------------
(* The invariant. *)

\* A swap on the server leaves what clients wrote, and the row says cutover.
SwapOK ==
    ax # NoSwap =>
        /\ ax.rows = truth /\ names.old = 0
        /\ ax.src = names.source /\ ax.shadow = names.shadow /\ ax.shadow # 0
        /\ row # NoRow /\ row.phase = "cutover" /\ row.src = ax.src /\ row.shadow = ax.shadow

\* The reaper drops under the lock on the slot's name, what no row owns.
ReaperOK ==
    /\ reaper \in {"judge", "drop"} => slotLock = Reaper
    /\ reaper = "drop" => ~ownsSlot(row)

OneWorks == \A e, f \in Engine : eng[e].pc # "idle" /\ eng[f].pc # "idle" => e = f

DatabaseOK ==
    /\ DatabaseType /\ NamesOK /\ FreshOK /\ TruthOK /\ LiveTableIsTruth /\ SwapOK /\ ReaperOK
    /\ row # NoRow => RowOK(row)

Inv ==
    /\ DatabaseOK /\ OneWorks
    /\ eng = [e \in Engine |-> eng[e]] /\ \A e \in Engine : EngineOK(e, eng[e])

-----------------------------------------------------------------------------
(* The stream and what it leaves. *)

\* A part's last write after a position of a log.
hits(log, p, from) == {i \in from + 1 .. Len(log) : log[i] = p}
last(log, p, from, was) ==
    LET h == hits(log, p, from)
    IN IF h = {} THEN was ELSE CHOOSE i \in h : \A j \in h : i >= j

\* A position that holds a part's last write, after where the stream begins, is
\* what the stream leaves.
LEMMA LastWrite ==
    ASSUME NEW log \in Seq(Part), NEW p \in Part, NEW from \in Nat, NEW was,
           NEW m \in 1 .. Len(log), from < m, log[m] = p, \A i \in 1 .. Len(log) : log[i] = p => i <= m
    PROVE  last(log, p, from, was) = m
<1> DEFINE h == hits(log, p, from)
<1>0. Len(log) \in Nat
  OBVIOUS
<1>1. \A i : i \in h <=> i \in 1 .. Len(log) /\ from < i /\ log[i] = p
  BY <1>0 DEF hits
<1> HIDE DEF h
<1>2. m \in h /\ \A i \in h : m >= i
  BY <1>0, <1>1, Zenon
<1>3. ASSUME NEW x \in h, \A y \in h : x >= y PROVE x = m
  BY <1>0, <1>1, <1>2, <1>3
<1>4. (CHOOSE x \in h : \A y \in h : x >= y) = m /\ h # {}
  BY <1>2, <1>3, Zenon
<1> QED  BY <1>4, Zenon DEF last, h

\* A part the rest of the log does not write stays as it was.
LEMMA NoLastWrite ==
    ASSUME NEW log \in Seq(Part), NEW p \in Part, NEW from \in Nat, NEW was,
           \A i \in 1 .. Len(log) : log[i] = p => i <= from
    PROVE  last(log, p, from, was) = was
<1>1. Len(log) \in Nat
  OBVIOUS
<1>2. hits(log, p, from) = {}
  BY <1>1 DEF hits
<1> QED  BY <1>2, Zenon DEF last

\* The truth is a part's last write, or the row the table began with.
LEMMA TruthIsLast ==
    ASSUME NEW p \in Part
    PROVE  /\ truth[p] = last(wal, p, 0, 0) /\ truth'[p] = last(wal', p, 0, 0)
           /\ truth = [q \in Part |-> truth[q]] /\ truth' = [q \in Part |-> truth'[q]]
BY DEF truth, lastWrite, last, hits

\* A stream that has what a shadow lacks makes it the live table.
LEMMA ReplayIsTruth ==
    ASSUME wal \in Seq(Part), TruthOK, NEW rows \in [Part -> Int], NEW from \in Nat,
           \A p \in Part : Owes(rows, from, p)
    PROVE  Replay(rows, from) = truth
<1>0. Len(wal) \in Nat
  OBVIOUS
<1>1. ASSUME NEW p \in Part PROVE last(wal, p, from, rows[p]) = truth[p]
  <2>1. CASE \E i \in 1 .. Len(wal) : from < i /\ wal[i] = p
    <3>1. PICK m : m = truth[p]
      BY Zenon
    <3>2. m \in 1 .. Len(wal) /\ from < m /\ wal[m] = p /\ \A i \in 1 .. Len(wal) : wal[i] = p => i <= m
      BY <2>1, <3>1, <1>0 DEF TruthOK
    <3> QED  BY <3>1, <3>2, LastWrite
  <2>2. CASE ~\E i \in 1 .. Len(wal) : from < i /\ wal[i] = p
    <3>1. \A i \in 1 .. Len(wal) : wal[i] = p => i <= from
      BY <2>2, <1>0
    <3>2. rows[p] = truth[p]
      BY <2>2, Zenon DEF Owes
    <3> QED  BY <3>1, <3>2, NoLastWrite
  <2> QED  BY <2>1, <2>2, Zenon
<1>2. \A p \in Part : lastWrite(p, from, rows) = last(wal, p, from, rows[p])
  BY Zenon DEF lastWrite, last, hits
<1>3. truth = [p \in Part |-> truth[p]]
  BY Zenon DEF truth
<1> QED  BY <1>1, <1>2, <1>3, Zenon DEF Replay

\* A client's write is the last of its part, and the stream owes it.
LEMMA Written ==
    ASSUME wal \in Seq(Part), TruthOK, NEW p \in Part, wal' = Append(wal, p)
    PROVE  /\ wal' \in Seq(Part) /\ Len(wal') = Len(wal) + 1 /\ TruthOK'
           /\ truth' = [truth EXCEPT ![p] = Len(wal) + 1]
           /\ \A rows, from : \A q \in Part :
                 from \in 0 .. Len(wal) /\ Owes(rows, from, q) => Owes(rows, from, q)'
           /\ \A rows, from : from \in 0 .. Len(wal) => Owes(rows, from, p)'
<1> DEFINE n == Len(wal)
<1>1. /\ wal' \in Seq(Part) /\ Len(wal') = n + 1 /\ n \in Nat /\ wal'[n + 1] = p
      /\ \A i \in 1 .. n : wal'[i] = wal[i]
  OBVIOUS
<1> HIDE DEF n
<1>2. truth'[p] = n + 1
  <2>1. \A i \in 1 .. Len(wal') : wal'[i] = p => i <= n + 1
    BY <1>1
  <2>2. n + 1 \in 1 .. Len(wal') /\ 0 < n + 1
    BY <1>1
  <2>3. last(wal', p, 0, 0) = n + 1
    <3>1. PICK log \in Seq(Part) : log = wal'
      BY <1>1, Zenon
    <3>2. PICK m : m = n + 1
      BY Zenon
    <3>3. /\ m \in 1 .. Len(log) /\ 0 < m /\ log[m] = p /\ 0 \in Nat
          /\ \A i \in 1 .. Len(log) : log[i] = p => i <= m
      BY <1>1, <2>1, <2>2, <3>1, <3>2, Zenon
    <3>4. last(log, p, 0, 0) = m
      BY <3>3, LastWrite, Zenon
    <3> QED  BY <3>1, <3>2, <3>4, Zenon
  <2> QED  BY <2>3, TruthIsLast, Zenon
<1>3. ASSUME NEW q \in Part, q # p
      PROVE  truth'[q] = truth[q]
  <2>1. PICK m : m = truth[q]
    BY Zenon
  <2>2. m \in 0 .. n /\ (m # 0 => wal[m] = q) /\ \A i \in 1 .. n : wal[i] = q => i <= m
    BY <2>1, Zenon DEF TruthOK, n
  <2>3. \A i \in 1 .. Len(wal') : wal'[i] = q => i <= m
    <3> SUFFICES ASSUME NEW i \in 1 .. Len(wal'), wal'[i] = q PROVE i <= m
      BY Zenon
    <3>1. i # n + 1
      BY <1>1, <1>3, Zenon
    <3>2. i \in 1 .. n
      BY <1>1, <3>1
    <3> QED  BY <1>1, <2>2, <3>2, Zenon
  <2>4. last(wal', q, 0, 0) = m
    <3>0. PICK log \in Seq(Part) : log = wal'
      BY <1>1, Zenon
    <3>1. CASE m = 0
      BY <2>3, <3>0, <3>1, NoLastWrite
    <3>2. CASE m # 0
      <4>1. /\ m \in 1 .. Len(log) /\ 0 < m /\ log[m] = q /\ 0 \in Nat
            /\ \A i \in 1 .. Len(log) : log[i] = q => i <= m
        BY <1>1, <2>2, <2>3, <3>0, <3>2
      <4>2. last(log, q, 0, 0) = m
        BY <4>1, LastWrite, Zenon
      <4> QED  BY <3>0, <4>2, Zenon
    <3> QED  BY <3>1, <3>2, Zenon
  <2> QED  BY <2>1, <2>4, TruthIsLast, Zenon
<1>4. truth' = [truth EXCEPT ![p] = n + 1]
  <2>1. truth = [q \in Part |-> truth[q]] /\ truth' = [q \in Part |-> truth'[q]]
    BY Zenon DEF truth
  <2> QED  BY <1>2, <1>3, <2>1, Zenon
<1>5. TruthOK'
  BY <1>1, <1>2, <1>3 DEF TruthOK, n
<1>6. ASSUME NEW rows, NEW from \in 0 .. n PROVE Owes(rows, from, p)'
  BY <1>1 DEF Owes
<1>7. ASSUME NEW rows, NEW from \in 0 .. n, NEW q \in Part, Owes(rows, from, q) PROVE Owes(rows, from, q)'
  BY <1>1, <1>3, <1>6, <1>7 DEF Owes, n
<1> QED  BY <1>1, <1>4, <1>5, <1>6, <1>7, Zenon DEF n

-----------------------------------------------------------------------------
(* One engine works; the others are idle. *)

\* An idle engine asks nothing of the database but that it holds no stream.
LEMMA IdleOK ==
    ASSUME NEW f
    PROVE  /\ slot.holder # f => EngineOK(f, Idle)
           /\ slot'.holder # f => EngineOK(f, Idle)'
<1>1. PICK w : w = Idle
  BY Zenon
<1>2. /\ w.pc = "idle" /\ w.live = FALSE /\ w.st = BaseShape /\ w.cp = NoRow /\ w.saver = NoRow
      /\ w.landed = 0 /\ w.applied = 0 /\ w.mark = 0 /\ Whole(w)
  BY <1>1, Zenon DEF Idle, Fields, Whole
<1>3. goal(w) = "idle" /\ ~saving(w)
  BY <1>2, Zenon DEF goal, saving
<1>4. EngineType(w)
  <2>1. w.live \in BOOLEAN
    BY <1>2, Zenon
  <2>2. w.landed \in 0 .. LastPart /\ w.applied \in Nat /\ w.mark \in Nat
    BY <1>2, RunnerBounds
  <2> QED  BY <1>2, <2>1, <2>2, Zenon DEF EngineType
<1>5. RowIsOurs(w) /\ RowIsOurs(w)' /\ PhaseFits(w) /\ WorkOK(w) /\ WorkOK(w)'
  BY <1>2, <1>3, Zenon
     DEF RowIsOurs, PhaseFits, WorkOK, first, starting, making, working, ending, ready,
         recopying, copying, checking, swapping
<1>6. /\ CopyOK(w) /\ RecopyOK(w) /\ QuietOK(w) /\ EndOK(w) /\ LocksOK(f, w)
      /\ CopyOK(w)' /\ RecopyOK(w)' /\ QuietOK(w)' /\ EndOK(w)' /\ LocksOK(f, w)'
  BY <1>1, <1>2, <1>3, Zenon DEF CopyOK, RecopyOK, QuietOK, EndOK, LocksOK, ending, swapping
<1>7. (slot.holder # f => StreamOK(f, w)) /\ (slot'.holder # f => StreamOK(f, w)')
  BY Zenon DEF StreamOK
<1>8. slot.holder # f => EngineOK(f, w)
  BY <1>4, <1>5, <1>6, <1>7, Zenon DEF EngineOK
<1>9. slot'.holder # f => EngineOK(f, w)'
  BY <1>4, <1>5, <1>6, <1>7, Zenon DEF EngineOK
<1> QED  BY <1>1, <1>8, <1>9, Zenon

\* While one engine works every other is idle and holds no stream (LK-1).
LEMMA OthersIdle ==
    ASSUME Inv, NEW e \in Engine, eng[e].pc # "idle", NEW f \in Engine, f # e
    PROVE  eng[f] = Idle /\ slot.holder # f
<1>1. eng[f].pc = "idle" /\ EngineOK(f, eng[f])
  BY Zenon DEF Inv, OneWorks
<1>2. eng[f] = Idle
  BY <1>1, Zenon DEF EngineOK, LocksOK
<1> QED  BY <1>1, <1>2 DEF EngineOK, StreamOK, Idle

\* A step of an engine: the database and that engine stay right.
LEMMA EngineStep ==
    ASSUME Inv, NEW e \in Engine, eng[e].pc # "idle", NEW w, eng' = [eng EXCEPT ![e] = w],
           slot'.holder \in {slot.holder, None, e}, DatabaseOK', EngineOK(e, w)'
    PROVE  Inv'
<1>1. eng' = [f \in Engine |-> eng'[f]] /\ eng'[e] = w /\ \A f \in Engine : f # e => eng'[f] = eng[f]
  BY Zenon DEF Inv
<1>2. ASSUME NEW f \in Engine, f # e PROVE eng'[f] = Idle /\ EngineOK(f, eng[f])'
  <2>1. eng[f] = Idle /\ slot.holder # f
    BY <1>2, OthersIdle, Zenon
  <2>2. slot'.holder # f
    BY <1>2, <2>1, RunnerBounds, Zenon
  <2> QED  BY <1>1, <1>2, <2>1, <2>2, IdleOK, Zenon
<1>3. OneWorks'
  BY <1>1, <1>2 DEF OneWorks, Idle
<1>4. \A f \in Engine : EngineOK(f, eng[f])'
  BY <1>1, <1>2, Zenon
<1> QED  BY <1>1, <1>3, <1>4, Zenon DEF Inv

\* What a run's parts say of it, in one place.
LEMMA Here ==
    ASSUME Inv, NEW e \in Engine
    PROVE  /\ DatabaseOK /\ EngineType(eng[e]) /\ RowIsOurs(eng[e]) /\ PhaseFits(eng[e]) /\ WorkOK(eng[e])
           /\ StreamOK(e, eng[e]) /\ CopyOK(eng[e]) /\ RecopyOK(eng[e]) /\ QuietOK(eng[e]) /\ EndOK(eng[e])
           /\ LocksOK(e, eng[e])
BY Zenon DEF Inv, EngineOK

-----------------------------------------------------------------------------
(* Steps that write no row of a table, no name and no checkpoint.  A slot  *)
(* may be lost, dropped or let go, a fence removed and a swap given up.    *)

SameTables ==
    /\ table' \in [OID -> [rows : [Part -> Int], shape : Statement \cup {BaseShape}, fence : BOOLEAN]]
    /\ \A o \in OID : /\ table'[o].rows = table[o].rows /\ table'[o].shape = table[o].shape
                      /\ table'[o].fence => table[o].fence

LessSlot ==
    /\ slot' \in [exists : BOOLEAN, at : 0 .. Len(wal), lost : BOOLEAN, holder : Engine \cup {None}]
    /\ slot'.exists => slot.exists /\ slot'.at = slot.at
    /\ slot'.holder \in {slot.holder, None} /\ (slot'.holder # None => slot'.exists)

Quieter ==
    /\ UNCHANGED <<names, wal, row>> /\ SameTables /\ LessSlot /\ ax' \in {ax, NoSwap}
    /\ used' \in [oid : OID, mishap : Nat, loss : Nat, lost : {{}}] /\ used'.oid = used.oid

\* What clients wrote, and what a stream owes, changes with the log alone.
LEMMA SameWal ==
    ASSUME UNCHANGED wal
    PROVE  /\ truth' = truth /\ (TruthOK' <=> TruthOK)
           /\ \A rows, from, p : Owes(rows, from, p)' <=> Owes(rows, from, p)
<1>1. truth' = truth
  BY DEF truth, lastWrite
<1> QED  BY <1>1, Zenon DEF TruthOK, Owes

\* The relations a row or a name tells of are there.
LEMMA Relations ==
    ASSUME DatabaseOK
    PROVE  /\ names.source \in OID /\ (names.shadow # 0 => names.shadow \in OID)
           /\ (names.old # 0 => names.old \in OID) /\ 0 \notin OID
           /\ \A r : RowOK(r) => r.shadow \in OID /\ r.src \in OID /\ r.wm \in 0 .. LastPart
                                 /\ r.lsn \in 0 .. Len(wal) /\ r # NoRow
           /\ \A o \in OID : table[o].rows \in [Part -> Int] /\ table[o].fence \in BOOLEAN
<1>1. used.oid \in 1 .. MaxOID /\ MaxOID \in Nat
  BY RunnerBounds, Zenon DEF DatabaseOK, DatabaseType, OID
<1>2. ASSUME NEW r, RowOK(r)
      PROVE  /\ r.shadow \in OID /\ r.src \in OID /\ r.wm \in 0 .. LastPart /\ r.lsn \in 0 .. Len(wal)
             /\ r # NoRow
  <2>1. r \in RowType /\ RowFits(r)
    BY <1>2, Zenon DEF RowOK
  <2>2. Len(wal) \in Nat
    BY DEF DatabaseOK, DatabaseType
  <2>3. r.phase # "none"
    BY <2>1, Zenon DEF RowType, Phases
  <2>4. r.shadow \in Nat /\ r.src \in Nat /\ r.wm \in 0 .. LastPart /\ r.lsn \in Nat
    BY <2>1, Zenon DEF RowType
  <2> QED  BY <1>1, <2>1, <2>2, <2>3, <2>4 DEF RowFits, OID, NoRow
<1>3. names.source \in OID /\ (names.shadow # 0 => names.shadow \in OID) /\ (names.old # 0 => names.old \in OID)
      /\ 0 \notin OID
  BY <1>1 DEF DatabaseOK, DatabaseType, NamesOK, OID
<1>4. \A o \in OID : table[o].rows \in [Part -> Int] /\ table[o].fence \in BOOLEAN
  BY Zenon DEF DatabaseOK, DatabaseType
<1> QED  BY <1>2, <1>3, <1>4, Zenon

\* The numbers a row carries: its watermark is a part's, its position the log's.
LEMMA Sizes ==
    ASSUME DatabaseOK
    PROVE  /\ LastPart \in Int /\ Len(wal) \in Int
           /\ \A r : RowOK(r) => /\ r.wm \in Int /\ r.wm <= r.wm /\ r.wm <= LastPart /\ r.lsn \in Nat
                                 /\ Larger(slot.at, r.lsn) <= Len(wal)
<1>1. LastPart \in Nat /\ Len(wal) \in Nat
  BY RunnerBounds DEF DatabaseOK, DatabaseType
<1>2. slot.at \in 0 .. Len(wal)
  BY Zenon DEF DatabaseOK, DatabaseType
<1>3. ASSUME NEW r, RowOK(r)
      PROVE  /\ r.wm \in Int /\ r.wm <= r.wm /\ r.wm <= LastPart /\ r.lsn \in Nat
             /\ Larger(slot.at, r.lsn) <= Len(wal)
  <2>1. r.wm \in 0 .. LastPart /\ r.lsn \in 0 .. Len(wal)
    BY <1>3, Relations, Zenon
  <2> QED  BY <1>1, <1>2, <2>1 DEF Larger
<1>4. LastPart \in Int /\ Len(wal) \in Int
  BY <1>1
<1> QED  BY <1>3, <1>4, Zenon

\* A row stays good through such a step.
LEMMA QuietRow ==
    ASSUME DatabaseOK, Quieter, NEW r, RowOK(r)
    PROVE  RowOK(r)'
<1>1. r.shadow \in OID /\ UNCHANGED <<names, wal>> /\ used'.oid = used.oid
  BY Relations, Zenon DEF Quieter
<1>2. RowFits(r)' /\ Recorded(r)'
  BY <1>1, Zenon DEF RowOK, RowFits, Recorded
<1>3. Stands(r)'
  BY <1>1, Zenon DEF RowOK, Stands, Quieter, SameTables
<1>4. Copied(r)'
  BY <1>1, SameWal, Zenon DEF RowOK, Copied, Quieter, SameTables, LessSlot
<1> QED  BY <1>2, <1>3, <1>4, Zenon DEF RowOK

\* So does the database.
LEMMA QuietDatabase ==
    ASSUME DatabaseOK, Quieter, ReaperOK'
    PROVE  DatabaseOK'
<1>1. DatabaseType'
  BY Zenon DEF DatabaseOK, DatabaseType, Quieter, SameTables, LessSlot
<1>2. NamesOK' /\ TruthOK' /\ SwapOK' /\ FreshOK'
  BY SameWal, Zenon DEF DatabaseOK, NamesOK, SwapOK, FreshOK, Quieter, SameTables
<1>3. LiveTableIsTruth'
  BY Relations, SameWal, Zenon DEF DatabaseOK, LiveTableIsTruth, Quieter, SameTables
<1>4. row' # NoRow => RowOK(row)'
  BY QuietRow, Zenon DEF DatabaseOK, Quieter
<1> QED  BY <1>1, <1>2, <1>3, <1>4, Zenon DEF DatabaseOK

\* The row an engine is about to save is its row under a phase.
LEMMA TargetIs ==
    ASSUME NEW w, w.cp \in RowType, w.to \in Phases \/ ~saving(w)
    PROVE  /\ target(w) \in RowType
           /\ target(w).shadow = w.cp.shadow /\ target(w).src = w.cp.src /\ target(w).st = w.cp.st
           /\ target(w).live = w.cp.live /\ target(w).wm = w.cp.wm /\ target(w).lsn = w.cp.lsn
           /\ target(w).phase = IF saving(w) THEN w.to ELSE w.cp.phase
BY Zenon DEF target, RowType

\* An engine at work has its shadow and its source in the catalog.
LEMMA AtWork ==
    ASSUME DatabaseOK, NEW w, EngineType(w), PhaseFits(w), WorkOK(w), goal(w) \in working \cup making
    PROVE  /\ w.cp \in RowType /\ w.cp # NoRow /\ w.cp.shadow = names.shadow /\ w.cp.src = names.source
           /\ w.cp.shadow \in OID /\ w.cp.src \in OID /\ w.cp.shadow # w.cp.src
           /\ RowOK(target(w)) /\ w.cp.live = w.live /\ w.cp.st = w.st
<1>1. w.cp \in RowType /\ (w.to \in Phases \/ ~saving(w)) /\ RowOK(target(w))
  BY Zenon DEF EngineType, WorkOK, PhaseFits
<1>2. RowFits(target(w)) /\ target(w).shadow \in OID /\ target(w).src \in OID
  BY <1>1, Relations, Zenon DEF RowOK
<1> QED  BY <1>1, <1>2, TargetIs, Zenon DEF WorkOK, describes, RowFits

\* The same of an engine that is not saving.
LEMMA WorkHere ==
    ASSUME Inv, NEW e \in Engine, goal(eng[e]) \in working \cup making, ~saving(eng[e])
    PROVE  /\ EngineType(eng[e]) /\ eng[e].cp \in RowType /\ eng[e].cp # NoRow /\ RowOK(eng[e].cp)
           /\ eng[e].cp.shadow = names.shadow /\ eng[e].cp.src = names.source /\ describes(eng[e].cp)
           /\ names.shadow \in OID /\ names.shadow # 0 /\ names.source # names.shadow
           /\ eng[e].cp.live = eng[e].live /\ eng[e].cp.st = eng[e].st
<1>1. /\ DatabaseOK /\ EngineType(eng[e]) /\ PhaseFits(eng[e]) /\ WorkOK(eng[e]) /\ target(eng[e]) = eng[e].cp
      /\ 0 \notin OID
  BY Here, Relations, Zenon DEF target
<1> QED  BY <1>1, AtWork DEF WorkOK

\* A working engine's parts stay right in such a step.
LEMMA QuietEngine ==
    ASSUME DatabaseOK, Quieter, NEW e \in Engine, NEW w, EngineType(w), PhaseFits(w), WorkOK(w)
    PROVE  /\ WorkOK(w)'
           /\ RowIsOurs(w) => RowIsOurs(w)'
           /\ StreamOK(e, w) => StreamOK(e, w)'
           /\ CopyOK(w) => CopyOK(w)'
           /\ RecopyOK(w) => RecopyOK(w)'
           /\ QuietOK(w) => QuietOK(w)'
           /\ EndOK(w) => EndOK(w)'
<1>1. UNCHANGED <<names, row, wal>> /\ truth' = truth
      /\ \A rows, from, p : Owes(rows, from, p)' <=> Owes(rows, from, p)
  BY SameWal, Zenon DEF Quieter
<1>2. WorkOK(w)'
  BY <1>1, QuietRow, Zenon DEF WorkOK, describes
<1>3. RowIsOurs(w) => RowIsOurs(w)'
  BY <1>1, Zenon DEF RowIsOurs
<1>4. ASSUME goal(w) \in working PROVE table'[w.cp.shadow].rows = table[w.cp.shadow].rows
  BY <1>4, AtWork, Zenon DEF Quieter, SameTables
<1>5. ASSUME StreamOK(e, w) PROVE StreamOK(e, w)'
  <2>1. slot'.holder = e => slot.holder = e /\ slot'.exists /\ slot'.at = slot.at
    BY RunnerBounds, Zenon DEF Quieter, LessSlot
  <2> QED  BY <1>1, <1>4, <1>5, <2>1, Zenon DEF StreamOK, working
<1>6. ASSUME CopyOK(w) PROVE CopyOK(w)'
  <2>1. w.pc = "copy" => goal(w) \in working
    BY Zenon DEF goal, saving, working, copying
  <2> QED  BY <1>4, <1>6, <2>1, QuietRow, Zenon DEF CopyOK
<1>7. ASSUME RecopyOK(w) PROVE RecopyOK(w)'
  <2>1. w.pc = "recCopy" => goal(w) \in working
    BY Zenon DEF goal, saving, working, recopying
  <2> QED  BY <1>1, <1>4, <1>7, <2>1, Zenon DEF RecopyOK, Quieter, LessSlot
<1>8. ASSUME QuietOK(w) PROVE QuietOK(w)'
  BY <1>1, <1>4, <1>8, Relations, Zenon DEF QuietOK, Quieter, SameTables, working, checking
<1>9. ASSUME EndOK(w) PROVE EndOK(w)'
  BY <1>1, <1>9, Relations, Zenon DEF EndOK, Quieter, SameTables, LessSlot
<1> QED  BY <1>2, <1>3, <1>5, <1>6, <1>7, <1>8, <1>9, Zenon

\* Such a step of nobody's.
LEMMA QuietWorld ==
    ASSUME Inv, Quieter, UNCHANGED eng, ReaperOK', \A e \in Engine : LocksOK(e, eng[e])'
    PROVE  Inv'
<1>1. DatabaseOK'
  BY QuietDatabase, Zenon DEF Inv
<1>2. ASSUME NEW e \in Engine PROVE EngineOK(e, eng[e])'
  <2>1. PICK w : w = eng[e]
    BY Zenon
  <2>2. EngineOK(e, w)'
    BY <2>1, Here, QuietEngine, Zenon DEF EngineOK
  <2> QED  BY <2>1, <2>2, Zenon
<1> QED  BY <1>1, <1>2, Zenon DEF Inv, OneWorks

\* Such a step of an engine's.
LEMMA QuietStep ==
    ASSUME Inv, Quieter, NEW e \in Engine, eng[e].pc # "idle", NEW w, eng' = [eng EXCEPT ![e] = w],
           EngineType(w), RowIsOurs(w), PhaseFits(w), WorkOK(w), CopyOK(w), RecopyOK(w), QuietOK(w),
           StreamOK(e, w) \/ slot'.holder # e, EndOK(w)', LocksOK(e, w)', ReaperOK'
    PROVE  Inv'
<1>1. DatabaseOK /\ DatabaseOK'
  BY QuietDatabase, Zenon DEF Inv
<1>2. StreamOK(e, w)'
  BY <1>1, QuietEngine, Zenon DEF StreamOK
<1>3. EngineOK(e, w)'
  BY <1>1, <1>2, QuietEngine, Zenon DEF EngineOK
<1>4. slot'.holder \in {slot.holder, None, e}
  BY Zenon DEF Quieter, LessSlot
<1> QED  BY <1>1, <1>3, <1>4, EngineStep, Zenon

\* The tables, the slot and the bounds in such steps.
LEMMA TablesQuiet ==
    ASSUME DatabaseOK, table' = table \/ \E o \in OID : table' = [table EXCEPT ![o].fence = FALSE]
    PROVE  SameTables
<1>1. table \in [OID -> [rows : [Part -> Int], shape : Statement \cup {BaseShape}, fence : BOOLEAN]]
  BY Zenon DEF DatabaseOK, DatabaseType
<1>2. CASE table' = table
  BY <1>1, <1>2, Zenon DEF SameTables
<1>3. ASSUME NEW o \in OID, table' = [table EXCEPT ![o].fence = FALSE] PROVE SameTables
  BY <1>1, <1>3, Zenon DEF SameTables
<1> QED  BY <1>2, <1>3, Zenon

\* A slot that stays, is let go, is lost or is dropped promises no more than
\* before.
LEMMA SlotQuiet ==
    ASSUME Inv, \/ slot' = slot \/ slot' = [slot EXCEPT !.holder = None]
                \/ slot' = [slot EXCEPT !.lost = TRUE, !.holder = None] \/ slot' = NoSlot
    PROVE  LessSlot
<1>1. slot \in [exists : BOOLEAN, at : 0 .. Len(wal), lost : BOOLEAN, holder : Engine \cup {None}]
      /\ Len(wal) \in Nat
  BY DEF Inv, DatabaseOK, DatabaseType
<1>2. slot.holder # None => slot.exists
  BY <1>1, Here, Zenon DEF StreamOK
<1>3. CASE slot' = slot
  BY <1>1, <1>2, <1>3, Zenon DEF LessSlot
<1>4. CASE slot' = [slot EXCEPT !.holder = None]
  BY <1>1, <1>4, Zenon DEF LessSlot
<1>5. CASE slot' = [slot EXCEPT !.lost = TRUE, !.holder = None]
  BY <1>1, <1>5, Zenon DEF LessSlot
<1>6. CASE slot' = NoSlot
  BY <1>1, <1>6 DEF LessSlot, NoSlot
<1> QED  BY <1>3, <1>4, <1>5, <1>6, Zenon

\* A mishap creates no relation.
LEMMA UsedQuiet ==
    ASSUME DatabaseOK, \/ used' = used \/ mishap
                       \/ used' = [used EXCEPT !.loss = @ + 1, !.mishap = @ + 1]
    PROVE  used' \in [oid : OID, mishap : Nat, loss : Nat, lost : {{}}] /\ used'.oid = used.oid
<1>1. used \in [oid : OID, mishap : Nat, loss : Nat, lost : {{}}]
  BY Zenon DEF DatabaseOK, DatabaseType
<1>2. CASE mishap
  <2>1. used' = [used EXCEPT !.mishap = used.mishap + 1]
    BY <1>2, Zenon DEF mishap, spend
  <2> QED  BY <1>1, <2>1
<1>3. CASE used' = [used EXCEPT !.loss = @ + 1, !.mishap = @ + 1]
  <2>1. PICK a, b \in Nat : a = used.loss + 1 /\ b = used.mishap + 1
    BY <1>1
  <2>2. used' = [used EXCEPT !.loss = a, !.mishap = b]
    BY <1>1, <1>3, <2>1, Zenon
  <2> QED  BY <1>1, <2>2, Zenon
<1> QED  BY <1>1, <1>2, <1>3, Zenon

\* What the reaper has judged stands as long as its lock and the row do.
LEMMA SameReaper ==
    ASSUME DatabaseOK, UNCHANGED <<reaper, slotLock, row>>
    PROVE  ReaperOK'
BY Zenon DEF DatabaseOK, ReaperOK, ownsSlot

-----------------------------------------------------------------------------
(* What a step makes of its engine: it moves on, it is about to save, or   *)
(* it ends.                                                                *)

Moves(v, w, x) ==
    /\ Whole(w) /\ w.pc = x /\ w.live = v.live /\ w.st = v.st /\ w.cp = v.cp /\ w.landed = v.landed
    /\ w.applied = v.applied /\ w.to = v.to /\ w.then = v.then /\ w.saver = v.saver

Saves(v, w, c, phase, then) ==
    /\ Whole(w) /\ w.pc = "save" /\ w.live = v.live /\ w.st = v.st /\ w.cp = c /\ w.landed = v.landed
    /\ w.applied = v.applied /\ w.mark = 0 /\ w.to = phase /\ w.then = then /\ w.saver = v.saver

\* An engine that is not saving is where it goes.
LEMMA GoalIs ==
    ASSUME NEW w, w.pc \notin {"save", "commit"}
    PROVE  goal(w) = w.pc /\ ~saving(w) /\ ~first(w) /\ target(w) = w.cp
BY Zenon DEF goal, saving, first, target

\* What is said of where an engine is going is the same of one in its place.
LEMMA SamePlace ==
    ASSUME NEW v, NEW w, w.pc = v.pc \/ (saving(v) /\ saving(w)), w.to = v.to, w.then = v.then, w.live = v.live, w.st = v.st,
           w.cp = v.cp
    PROVE  /\ goal(w) = goal(v) /\ (saving(w) <=> saving(v)) /\ (first(w) <=> first(v)) /\ target(w) = target(v)
           /\ PhaseFits(v) => PhaseFits(w)
           /\ RowIsOurs(v) => RowIsOurs(w)
           /\ WorkOK(v) => WorkOK(w)
<1>1. goal(w) = goal(v) /\ (saving(w) <=> saving(v)) /\ (first(w) <=> first(v)) /\ target(w) = target(v)
  BY Zenon DEF goal, saving, first, target
<1>2. (RowIsOurs(v) => RowIsOurs(w)) /\ (WorkOK(v) => WorkOK(w))
  BY <1>1, Zenon DEF RowIsOurs, WorkOK
<1>3. ASSUME PhaseFits(v) PROVE PhaseFits(w)
  <2>1. w.pc \in {"discardShadow", "discardHold", "discardRow"} => w.pc = v.pc
    BY Zenon DEF saving
  <2> QED  BY <1>1, <1>3, <2>1 DEF PhaseFits
<1> QED  BY <1>1, <1>2, <1>3, Zenon

\* moveTo changes the step alone.
LEMMA Moved ==
    ASSUME Inv, NEW e \in Engine, NEW x, moveTo(e, x)
    PROVE  \E w : eng' = [eng EXCEPT ![e] = w] /\ Moves(eng[e], w, x) /\ EngineType(w)
<1>1. PICK v : v = eng[e]
  BY Zenon
<1>2. PICK w : w = [v EXCEPT !.pc = x]
  BY Zenon
<1>3. eng' = [eng EXCEPT ![e] = w]
  BY <1>1, <1>2, Zenon DEF moveTo
<1>4. Whole(v) /\ EngineType(v)
  BY <1>1, Here, Zenon DEF EngineType
<1>5. Moves(v, w, x) /\ w.mark = v.mark
  BY <1>2, <1>4, Zenon DEF Moves, Whole, Fields
<1>6. EngineType(w)
  BY <1>4, <1>5, Zenon DEF EngineType, Moves
<1> QED  BY <1>1, <1>3, <1>5, <1>6, Zenon

\* r.save takes its row along with the phase it will have.
LEMMA Saved ==
    ASSUME Inv, NEW e \in Engine, NEW c \in RowType, NEW phase, NEW then, save(e, c, phase, then)
    PROVE  \E w : eng' = [eng EXCEPT ![e] = w] /\ Saves(eng[e], w, c, phase, then) /\ EngineType(w)
<1>1. PICK v : v = eng[e]
  BY Zenon
<1>2. PICK w : w = [v EXCEPT !.pc = "save", !.cp = c, !.mark = 0, !.to = phase, !.then = then]
  BY Zenon
<1>3. eng' = [eng EXCEPT ![e] = w]
  BY <1>1, <1>2, Zenon DEF save
<1>4. Whole(v) /\ EngineType(v)
  BY <1>1, Here, Zenon DEF EngineType
<1>5. Saves(v, w, c, phase, then)
  BY <1>2, <1>4, Zenon DEF Saves, Whole, Fields
<1>6. EngineType(w)
  BY <1>4, <1>5 DEF EngineType, Saves
<1> QED  BY <1>1, <1>3, <1>5, <1>6, Zenon

\* The moves that need nothing more than what the engine has.
onward(a, b) ==
    \/ a \in {"dispatch", "unrecordedFence"} /\ b \in starting /\ row = NoRow
    \/ a = "unrecordedShadow" /\ b = "unrecordedFence"
    \/ a \in {"discardShadow", "discardHold"} /\ b \in {"discardHold", "discardRow"}
    \/ a = "unbuildHold" /\ b = "unbuildShadow"
    \/ a \in {"release", "ready", "recClear"} /\ b \in {"ready", "open", "recClear", "recClaim"}
    \/ a = "claim" /\ b = "create"
    \/ a = "recDrop" /\ b = "recCreate"
    \/ a = "verify" /\ b = "gate"
    \/ a = "mark" /\ b = "await"
    \/ a = "refence" /\ b \in {"clear", "verify"}
    \/ a \in {"gate", "lock"} /\ b = "swap"
    \/ a = "swap" /\ b = "lock"
    \/ a = "lock" /\ b = "committing"
    \/ a = "committing" /\ b = "swapped"
    \/ a = "swapped" /\ b = "settle"

\* Where such a move leads, seen from the part of the state machine it is in.
LEMMA OnwardFrom ==
    ASSUME NEW a, NEW b, onward(a, b)
    PROVE  /\ b \in starting => row = NoRow \/ a \in starting
           /\ b \in making => a = "claim" /\ b = "create"
           /\ b \in copying => a = "refence" /\ b = "clear"
           /\ b \in recopying => a \in recopying
           /\ b \in checking => a \in checking \/ b = "verify"
           /\ b \in swapping => a = "gate" \/ a \in swapping
           /\ b \in {"committing", "swapped", "settle"} => a \in swapping \cup {"committing", "swapped", "settle"}
           /\ b \in ready => a \in ready \ {"refence"}
           /\ b \in working => a \in working
           /\ b \in ending \cup {"committing"} => a \in ending \cup working \cup {"committing"}
           /\ b \notin {"release", "fence", "refence", "finish"}
           /\ b \in {"discardHold", "discardRow"} => a \in {"discardShadow", "discardHold"}
           /\ b # "discardShadow"
BY Zenon DEF onward, working, starting, making, ready, recopying, copying, checking, swapping, ending

\* An engine that moves along the state machine keeps what it knows of its row,
\* its copy and its stream.
LEMMA Onward ==
    ASSUME Inv, NEW e \in Engine, NEW w, NEW x, Moves(eng[e], w, x), onward(eng[e].pc, x),
           eng[e].pc = "gate" => eng[e].cp.phase = "cutover" /\ ~eng[e].live,
           x = "clear" => eng[e].cp.phase = "copying", x = "open" => eng[e].cp.phase # "reconciling",
           x = "verify" => eng[e].cp.phase \notin {"copying", "reconciling", "done"}
    PROVE  /\ RowIsOurs(w) /\ PhaseFits(w) /\ WorkOK(w) /\ CopyOK(w) /\ RecopyOK(w) /\ StreamOK(e, w)
           /\ goal(w) = x /\ ~saving(w) /\ goal(eng[e]) = eng[e].pc /\ ~saving(eng[e])
           /\ x # "gate" => QuietOK(w)
<1>1. PICK v : v = eng[e]
  BY Zenon
<1>2. x \notin {"save", "commit", "copy", "recCopy"} /\ v.pc \notin {"save", "commit", "copy", "recCopy"}
  BY <1>1, Zenon DEF onward, starting
<1>3. /\ goal(w) = x /\ ~saving(w) /\ ~first(w) /\ target(w) = w.cp
      /\ goal(v) = v.pc /\ ~saving(v) /\ ~first(v) /\ target(v) = v.cp
      /\ w.cp = v.cp /\ w.live = v.live /\ w.st = v.st /\ w.saver = v.saver /\ w.then = v.then /\ w.pc = x
  BY <1>1, <1>2, GoalIs, Zenon DEF Moves
<1>4. onward(v.pc, x) /\ RowIsOurs(v) /\ PhaseFits(v) /\ WorkOK(v) /\ QuietOK(v)
  BY <1>1, Here, Zenon
<1>5. RowIsOurs(w)
  BY <1>3, <1>4, OnwardFrom DEF RowIsOurs, making
<1>6. PhaseFits(w)
  <2>1. v.pc = "gate" => v.cp.phase = "cutover"
    BY <1>1, Zenon
  <2>2. /\ x = "clear" => v.cp.phase = "copying"
        /\ x = "open" => v.cp.phase # "reconciling"
        /\ x = "verify" => v.cp.phase \notin {"copying", "reconciling", "done"}
    BY <1>1, Zenon
  <2>3. x \in making => w.cp.phase = "copying" /\ w.cp.wm = 0 /\ w.live
    BY <1>3, <1>4, OnwardFrom DEF PhaseFits, making
  <2>4. /\ x \in copying => w.cp.phase = "copying"
        /\ x \in recopying => w.cp.phase = "reconciling" /\ w.live
    BY <1>3, <1>4, <2>2, OnwardFrom DEF PhaseFits
  <2>5. x \in checking => w.cp.phase \notin {"copying", "reconciling", "done"}
    BY <1>3, <1>4, <2>2, OnwardFrom DEF PhaseFits
  <2>6. x \in swapping \cup {"committing", "swapped", "settle"} => w.cp.phase = "cutover"
    BY <1>3, <1>4, <2>1, OnwardFrom DEF PhaseFits
  <2>7. x \in ready => w.cp.phase # "done" /\ w.live
    BY <1>3, <1>4, OnwardFrom DEF PhaseFits
  <2>8. x \in {"discardShadow", "discardHold", "discardRow"} => w.then \in {"build", "idle"}
    BY <1>3, <1>4, OnwardFrom DEF PhaseFits
  <2>9. x \notin {"release", "fence", "refence", "finish"} /\ ({"claim", "create"} \subseteq making)
    BY <1>4, OnwardFrom, Zenon DEF making
  <2> QED  BY <1>3, <2>2, <2>3, <2>4, <2>5, <2>6, <2>7, <2>8, <2>9, Zenon DEF PhaseFits
<1>7. WorkOK(w)
  BY <1>3, <1>4, OnwardFrom DEF WorkOK, making
<1>8. CopyOK(w) /\ RecopyOK(w)
  BY <1>1, <1>2, <1>3, Here, Zenon DEF CopyOK, RecopyOK, Moves
<1>9. StreamOK(e, w)
  BY <1>1, <1>3, Here, Zenon DEF StreamOK, Moves, onward, copying, checking
<1>10. x # "gate" => QuietOK(w)
  BY <1>1, <1>3, <1>4, OnwardFrom DEF QuietOK, swapping
<1> QED  BY <1>1, <1>3, <1>5, <1>6, <1>7, <1>8, <1>9, <1>10, Zenon

-----------------------------------------------------------------------------
(* Moves in which the database stays as it was, or less.                   *)

\* The lock on the slot's name changes hands, never while the reaper has it.
LEMMA ReaperWaits ==
    ASSUME DatabaseOK, UNCHANGED <<reaper, row>>, slotLock' = slotLock \/ slotLock # Reaper
    PROVE  ReaperOK'
BY DEF DatabaseOK, ReaperOK, ownsSlot

-----------------------------------------------------------------------------
(* The run gives up what was made: nothing in the catalog is its own then. *)

\* An engine that is not copying has no save of the copy's in flight, and
\* one that neither copies nor checks has no stream.
LEMMA NotCopying ==
    ASSUME Inv, NEW e \in Engine, eng[e].pc \notin {"save", "commit"} \cup copying \cup checking
    PROVE  eng[e].saver = NoRow /\ slot.holder # e
<1>1. goal(eng[e]) = eng[e].pc
  BY GoalIs
<1> QED  BY <1>1, Here DEF CopyOK, StreamOK, copying, checking
=============================================================================
