-------------------------- MODULE RunnerFillProofs --------------------------
(***************************************************************************)
(* The steps of a schema change that make its shadow and its slot, fill the *)
(* shadow and take the log forward.                                        *)
(***************************************************************************)
EXTENDS RunnerInvariant


-----------------------------------------------------------------------------
(* Writing rows of the shadow. *)

\* Through part m the new rows R are the old ones, or right from position n on.
Better(R, rows, m, n) ==
    \A p \in Part : p <= m =>
        R[p] = rows[p] \/ (R[p] # Absent /\ \A k \in 0 .. n : Owes(R, k, p))

ShadowWrite(R) ==
    /\ table' = [table EXCEPT ![names.shadow].rows = R]
    /\ UNCHANGED <<names, wal, slot, row, lock, slotLock, ax, reaper, used>>

\* A write to the shadow changes its rows alone.
LEMMA Rewritten ==
    ASSUME DatabaseOK, names.shadow # 0, ax = NoSwap, NEW R \in [Part -> Int], ShadowWrite(R)
    PROVE  /\ table' \in [OID -> [rows : [Part -> Int], shape : Statement \cup {BaseShape}, fence : BOOLEAN]]
           /\ table'[names.shadow].rows = R /\ names.shadow \in OID
           /\ \A o \in OID : /\ table'[o].shape = table[o].shape /\ (table'[o].fence <=> table[o].fence)
                             /\ o # names.shadow => table'[o].rows = table[o].rows
<1>1. table \in [OID -> [rows : [Part -> Int], shape : Statement \cup {BaseShape}, fence : BOOLEAN]]
  BY Zenon DEF DatabaseOK, DatabaseType
<1>2. names.shadow \in OID
  BY Relations, Zenon
<1> QED  BY <1>1, <1>2, Zenon DEF ShadowWrite

\* A write that makes no part worse, as far as a row claims them, leaves it
\* good.
LEMMA RowRewritten ==
    ASSUME DatabaseOK, names.shadow # 0, ax = NoSwap, NEW R \in [Part -> Int], ShadowWrite(R), NEW m \in Int, NEW n \in Int,
           Better(R, table[names.shadow].rows, m, n), NEW r, RowOK(r),
           r.shadow = names.shadow => r.wm <= m /\ Larger(slot.at, r.lsn) <= n
    PROVE  RowOK(r)'
<1>1. r.shadow \in OID /\ r.wm \in Int /\ r.lsn \in Nat /\ slot.at \in Nat
  BY Relations DEF DatabaseOK, DatabaseType
<1>2. RowFits(r)' /\ Recorded(r)'
  BY Zenon DEF RowOK, RowFits, Recorded, ShadowWrite
<1>3. Stands(r)'
  <2>1. names' = names /\ table'[r.shadow].shape = table[r.shadow].shape /\ (table'[r.shadow].fence <=> table[r.shadow].fence)
    BY <1>1, Rewritten, Zenon DEF ShadowWrite
  <2> QED  BY <2>1, Zenon DEF RowOK, Stands
<1>4. Copied(r)'
  <2>1. UNCHANGED <<names, wal, slot>> /\ table'[names.shadow].rows = R
        /\ \A rows, from, p : Owes(rows, from, p)' <=> Owes(rows, from, p)
    BY Rewritten, SameWal, Zenon DEF ShadowWrite
  <2>2. SUFFICES ASSUME names.shadow = r.shadow, NEW p \in Part, p <= r.wm
                 PROVE  /\ R[p] # Absent
                        /\ r.live /\ r.phase # "reconciling" /\ slot.exists => Owes(R, Larger(slot.at, r.lsn), p)
    BY <2>1, Zenon DEF Copied
  <2>3. /\ table[names.shadow].rows[p] # Absent
        /\ r.live /\ r.phase # "reconciling" /\ slot.exists
              => Owes(table[names.shadow].rows, Larger(slot.at, r.lsn), p)
    BY <2>2, Zenon DEF RowOK, Copied
  <2>4. p <= m /\ Larger(slot.at, r.lsn) \in 0 .. n
    BY <1>1, <2>2 DEF Larger, Part
  <2>5. CASE R[p] = table[names.shadow].rows[p]
    BY <2>3, <2>5, Zenon DEF Owes
  <2>6. CASE R[p] # table[names.shadow].rows[p]
    BY <2>4, <2>6, Zenon DEF Better
  <2> QED  BY <2>5, <2>6, Zenon
<1> QED  BY <1>2, <1>3, <1>4, Zenon DEF RowOK

\* An engine at work writes its shadow.
LEMMA ShadowStep ==
    ASSUME Inv, NEW e \in Engine, eng[e].pc # "idle", NEW w, eng' = [eng EXCEPT ![e] = w], EngineType(w),
           RowIsOurs(w), PhaseFits(w), WorkOK(w), LocksOK(e, w), goal(w) \in working, ax = NoSwap,
           w.live \/ goal(w) \notin {"gate"} \cup swapping,
           NEW R \in [Part -> Int], ShadowWrite(R), NEW m \in Int, NEW n \in Int,
           Better(R, table[names.shadow].rows, m, n), w.cp.wm <= m, Larger(slot.at, w.cp.lsn) <= n,
           StreamOK(e, w)', CopyOK(w)', RecopyOK(w)'
    PROVE  Inv'
<1>1. DatabaseOK /\ UNCHANGED <<names, wal, slot, row, lock, slotLock, ax, reaper, used>>
  BY Zenon DEF Inv, ShadowWrite
<1>2. /\ w.cp \in RowType /\ w.cp # NoRow /\ w.cp.shadow = names.shadow /\ names.shadow # 0 /\ RowOK(target(w))
      /\ target(w).wm = w.cp.wm /\ target(w).lsn = w.cp.lsn
  <2>1. /\ w.cp \in RowType /\ w.cp # NoRow /\ w.cp.shadow = names.shadow /\ RowOK(target(w)) /\ 0 \notin OID
        /\ w.cp.shadow \in OID /\ (w.to \in Phases \/ ~saving(w))
    BY <1>1, AtWork, Relations, Zenon DEF PhaseFits
  <2> QED  BY <2>1, TargetIs, Zenon
<1>3. RowOK(target(w))'
  BY <1>1, <1>2, RowRewritten, Zenon
<1>4. row # NoRow => RowOK(row)'
  <2>1. SUFFICES ASSUME row # NoRow PROVE RowOK(row)'
    BY Zenon
  <2>2. RowOK(row) /\ row.wm \in Int /\ row.lsn \in Nat /\ slot.at \in Nat
    <3>1. RowOK(row) /\ slot.at \in Nat
      BY <1>1, <2>1 DEF DatabaseOK, DatabaseType
    <3> QED  BY <1>1, <3>1, Relations
  <2>3. row.wm <= w.cp.wm /\ row.lsn <= w.cp.lsn
    <3>1. CASE saving(w)
      BY <2>1, <3>1, Zenon DEF RowIsOurs
    <3>2. CASE ~saving(w)
      BY <2>2, <3>2 DEF RowIsOurs
    <3> QED  BY <3>1, <3>2, Zenon
  <2>4. row.wm <= m /\ Larger(slot.at, row.lsn) <= n
    BY <1>2, <2>2, <2>3 DEF Larger, RowType
  <2> QED  BY <1>1, <1>2, <2>2, <2>4, RowRewritten, Zenon
<1>5. DatabaseOK'
  <2>1. DatabaseType'
    BY <1>1, <1>2, Rewritten, Zenon DEF DatabaseOK, DatabaseType
  <2>2. NamesOK' /\ FreshOK' /\ TruthOK' /\ SwapOK' /\ ReaperOK'
    BY <1>1, <1>2, Rewritten, SameWal, SameReaper, Zenon DEF DatabaseOK, NamesOK, FreshOK, SwapOK
  <2>3. LiveTableIsTruth'
    BY <1>1, <1>2, Rewritten, Relations, SameWal, Zenon DEF DatabaseOK, LiveTableIsTruth, NamesOK
  <2> QED  BY <1>1, <1>4, <2>1, <2>2, <2>3, Zenon DEF DatabaseOK
<1>6. (goal(w)' = goal(w)) /\ (saving(w)' <=> saving(w)) /\ (first(w)' <=> first(w)) /\ target(w)' = target(w)
  BY Zenon DEF goal, saving, first, target
<1>7. EngineType(w)' /\ RowIsOurs(w)' /\ PhaseFits(w)' /\ WorkOK(w)' /\ LocksOK(e, w)'
  <2>1. EngineType(w)' /\ RowIsOurs(w)' /\ PhaseFits(w)' /\ LocksOK(e, w)'
    BY <1>1, <1>6, Zenon DEF EngineType, Whole, RowIsOurs, PhaseFits, LocksOK
  <2>2. WorkOK(w)'
    BY <1>1, <1>3, <1>6, Zenon DEF WorkOK, describes
  <2> QED  BY <2>1, <2>2, Zenon
<1>8. QuietOK(w)' /\ EndOK(w)'
  BY <1>6, Zenon DEF QuietOK, EndOK, working, ready, recopying, copying, checking, swapping, ending
<1>9. EngineOK(e, w)'
  BY <1>7, <1>8, Zenon DEF EngineOK
<1> QED  BY <1>1, <1>5, <1>9, EngineStep, Zenon

\* A part taken from the source is right, whatever the stream holds.
LEMMA PartCopied ==
    ASSUME DatabaseOK, names.shadow # 0, NEW p \in Part, NEW rows, NEW R,
           R[p] = table[names.source].rows[p], \A q \in Part : q # p => R[q] = rows[q]
    PROVE  /\ R[p] # Absent
           /\ (\A k : Owes(R, k, p)) /\ (\A k : \A q \in Part : Owes(rows, k, q) => Owes(R, k, q))
           /\ Better(R, rows, LastPart, Len(wal))
<1>1. table[names.source].rows = truth /\ truth[p] \in 0 .. Len(wal) /\ Len(wal) \in Nat
  BY DEF DatabaseOK, LiveTableIsTruth, TruthOK, DatabaseType
<1>2. R[p] = truth[p]
  BY <1>1, Zenon
<1>3. R[p] # Absent
  BY <1>1, <1>2 DEF Absent
<1>4. (\A k : Owes(R, k, p)) /\ (\A k : \A q \in Part : Owes(rows, k, q) => Owes(R, k, q))
  BY <1>2, Zenon DEF Owes
<1> QED  BY <1>2, <1>3, <1>4, Zenon DEF Better

\* A chunk is copied from the source as it is, behind the stream's back.
LEMMA CopyChunkInv == ASSUME Inv, NEW e \in Engine, CopyChunk(e) PROVE Inv'
<1>1. PICK v, p, s : v = eng[e] /\ p = v.landed + 1 /\ s = names.shadow
  BY Zenon
<1>2. /\ v.pc = "copy" /\ capturing(e) /\ ax = NoSwap /\ v.landed < LastPart
      /\ UNCHANGED <<names, wal, slot, row, lock, slotLock, ax, reaper, used>>
  BY <1>1, Zenon DEF CopyChunk, at
<1>3. goal(v) = "copy" /\ ~saving(v) /\ target(v) = v.cp /\ "copy" \in working /\ "copy" \in copying
  BY <1>2, GoalIs, Zenon DEF working, copying
<1>4. /\ EngineType(v) /\ v.landed \in 0 .. LastPart /\ p \in Part /\ p \in 0 .. LastPart
      /\ v.cp \in RowType /\ v.cp.shadow = s /\ s \in OID /\ s # 0
  <2>1. /\ EngineType(v) /\ v.landed \in 0 .. LastPart /\ v.cp \in RowType /\ v.cp.shadow = s /\ s \in OID /\ s # 0
    BY <1>1, <1>3, WorkHere, Zenon DEF EngineType
  <2> QED  BY <1>1, <1>2, <2>1, RunnerBounds DEF Part
<1>5. PICK rows, R : rows = table[s].rows /\ R = [rows EXCEPT ![p] = table[names.source].rows[p]]
  BY Zenon
<1>6. ShadowWrite(R) /\ rows \in [Part -> Int]
  BY <1>1, <1>2, <1>4, <1>5, Relations, Zenon DEF CopyChunk, ShadowWrite, cp, Inv
<1>7. /\ R \in [Part -> Int] /\ R[p] # Absent /\ (\A q \in Part : q # p => R[q] = rows[q])
      /\ (\A k : Owes(R, k, p)) /\ (\A k : \A q \in Part : Owes(rows, k, q) => Owes(R, k, q))
      /\ Better(R, rows, LastPart, Len(wal))
  <2>1. DatabaseOK /\ names.shadow # 0 /\ p \in Part
    BY <1>1, <1>4, Zenon DEF Inv
  <2>2. table[names.source].rows \in [Part -> Int]
    BY <2>1, Relations, Zenon
  <2>3. R \in [Part -> Int] /\ R[p] = table[names.source].rows[p] /\ \A q \in Part : q # p => R[q] = rows[q]
    BY <1>5, <1>6, <2>1, <2>2, Zenon
  <2> QED  BY <2>1, <2>3, PartCopied, Zenon
<1>8. PICK w : w = [v EXCEPT !.landed = p]
  BY Zenon
<1>9. eng' = [eng EXCEPT ![e] = w]
  BY <1>1, <1>8, Zenon DEF CopyChunk
<1>10. /\ Whole(w) /\ w.pc = v.pc /\ w.live = v.live /\ w.st = v.st /\ w.cp = v.cp /\ w.landed = p
       /\ w.applied = v.applied /\ w.mark = v.mark /\ w.saver = v.saver /\ w.to = v.to /\ w.then = v.then
  BY <1>4, <1>8, Zenon DEF EngineType, Whole, Fields
<1>11. EngineType(w)
  BY <1>4, <1>10, Zenon DEF EngineType
<1>12. goal(w) = "copy" /\ ~saving(w) /\ ~first(w) /\ target(w) = v.cp /\ ~first(v)
  BY <1>2, <1>10, GoalIs, Zenon
<1>13. RowIsOurs(w) /\ PhaseFits(w) /\ WorkOK(w) /\ LocksOK(e, w)
  <2>1. RowIsOurs(v) /\ PhaseFits(v) /\ WorkOK(v) /\ LocksOK(e, v)
    BY <1>1, Here, Zenon
  <2>2. RowIsOurs(w) /\ PhaseFits(w) /\ WorkOK(w)
    BY <1>10, <2>1, SamePlace, Zenon
  <2> QED  BY <1>2, <1>3, <1>10, <1>12, <2>1, <2>2, Zenon DEF LocksOK
<1>14. /\ UNCHANGED <<names, wal, slot>> /\ table'[s].rows = R
       /\ \A r, from, q : Owes(r, from, q)' <=> Owes(r, from, q)
  BY <1>1, <1>2, <1>4, <1>6, <1>7, Rewritten, SameWal, Zenon DEF Inv
<1>15. StreamOK(e, w)'
  <2>1. StreamOK(e, v)
    BY <1>1, Here, Zenon
  <2>2. ASSUME slot.holder = e, NEW q \in Part, q <= p PROVE Owes(R, v.applied, q)
    <3>1. CASE q = p
      BY <1>7, <3>1, Zenon
    <3>2. CASE q # p
      <4>1. q <= v.landed
        BY <1>1, <1>4, <2>2, <3>2 DEF Part
      <4>2. Owes(rows, v.applied, q)
        BY <1>4, <1>5, <2>1, <2>2, <4>1, Zenon DEF StreamOK
      <4> QED  BY <1>7, <4>2, Zenon
    <3> QED  BY <3>1, <3>2, Zenon
  <2>3. slot.holder = e => v.cp.wm <= v.landed
    BY <2>1, Zenon DEF StreamOK
  <2>4. slot.holder = e => v.cp.wm <= p
    BY <1>1, <1>4, <2>3 DEF RowType
  <2>5. goal(w)' = "copy"
    BY <1>2, <1>10, Zenon DEF goal, saving
  <2> QED  BY <1>3, <1>4, <1>10, <1>14, <2>1, <2>2, <2>4, <2>5, Zenon DEF StreamOK, checking
<1>16. CopyOK(w)'
  <2>1. CopyOK(v)
    BY <1>1, Here, Zenon
  <2>2. v.cp.wm <= p /\ (v.saver # NoRow => v.saver.wm <= p)
    BY <1>1, <1>2, <1>4, <2>1 DEF CopyOK, RowOK, RowType
  <2>3. \A q \in Part : q <= p => R[q] # Absent
    <3>1. \A q \in Part : q <= v.landed => rows[q] # Absent
      BY <1>2, <1>4, <1>5, <2>1, Zenon DEF CopyOK
    <3>2. \A q \in Part : q <= p => q = p \/ q <= v.landed
      BY <1>1, <1>4 DEF Part
    <3> QED  BY <1>7, <3>1, <3>2, Zenon
  <2>4. v.saver # NoRow => RowOK(v.saver)'
    <3>1. SUFFICES ASSUME v.saver # NoRow PROVE RowOK(v.saver)'
      BY Zenon
    <3>2. RowOK(v.saver) /\ v.saver.wm <= LastPart /\ Larger(slot.at, v.saver.lsn) <= Len(wal) /\ LastPart \in Int
          /\ Len(wal) \in Int /\ DatabaseOK
      BY <2>1, <3>1, Sizes, Zenon DEF CopyOK, Inv
    <3>3. Better(R, table[names.shadow].rows, LastPart, Len(wal)) /\ names.shadow # 0
      BY <1>1, <1>4, <1>5, <1>7, Zenon
    <3> QED  BY <1>2, <1>6, <1>7, <3>2, <3>3, RowRewritten, Zenon
  <2> QED  BY <1>2, <1>4, <1>10, <1>14, <2>1, <2>2, <2>3, <2>4, Zenon DEF CopyOK
<1>17. RecopyOK(w)' /\ w.cp.wm <= LastPart /\ Larger(slot.at, w.cp.lsn) <= Len(wal)
  <2>1. RowOK(v.cp)
    BY <1>1, <1>3, Here, AtWork, Zenon
  <2> QED  BY <1>2, <1>10, <2>1, Sizes, Zenon DEF RecopyOK, Inv
<1>18. LastPart \in Int /\ Len(wal) \in Int /\ Better(R, table[names.shadow].rows, LastPart, Len(wal))
  <2>1. LastPart \in Int /\ Len(wal) \in Int
    BY Sizes, Zenon DEF Inv
  <2> QED  BY <1>1, <1>5, <1>7, <2>1, Zenon
<1>19. "copy" \notin {"gate"} \cup swapping
  BY Zenon DEF swapping
<1> QED  BY <1>1, <1>2, <1>3, <1>6, <1>7, <1>9, <1>11, <1>12, <1>13, <1>15, <1>16, <1>17, <1>18, <1>19, ShadowStep, Zenon

\* A reconcile copies a part through the watermark again: the new slot has what
\* follows.
LEMMA ReconcileCopyInv == ASSUME Inv, NEW e \in Engine, ReconcileCopy(e) PROVE Inv'
<1>1. PICK v, p, s : v = eng[e] /\ p = v.landed + 1 /\ s = names.shadow
  OBVIOUS
<1>2. /\ v.pc = "recCopy" /\ ax = NoSwap /\ v.landed < v.cp.wm
      /\ UNCHANGED <<names, wal, slot, row, lock, slotLock, ax, reaper, used>>
  BY <1>1, Zenon DEF ReconcileCopy, at, cp
<1>3. goal(v) = "recCopy" /\ ~saving(v) /\ target(v) = v.cp /\ "recCopy" \in working
  BY <1>2, GoalIs, Zenon DEF working, recopying
<1>4. /\ EngineType(v) /\ v.landed \in 0 .. LastPart /\ v.cp \in RowType /\ v.cp.shadow = s /\ s \in OID /\ s # 0
      /\ RowOK(v.cp)
  BY <1>1, <1>3, WorkHere, Zenon DEF EngineType
<1>5. p \in Part /\ p \in 0 .. LastPart /\ p <= v.cp.wm
  BY <1>1, <1>2, <1>4, RunnerBounds DEF RowType, Part
<1>6. PICK rows, R : rows = table[s].rows /\ R = [rows EXCEPT ![p] = table[names.source].rows[p]]
  BY Zenon
<1>7. ShadowWrite(R) /\ rows \in [Part -> Int]
  BY <1>1, <1>2, <1>4, <1>6, Relations, Zenon DEF ReconcileCopy, ShadowWrite, cp, Inv
<1>8. /\ R \in [Part -> Int] /\ (\A q \in Part : q # p => R[q] = rows[q])
      /\ (\A k : Owes(R, k, p)) /\ (\A k : \A q \in Part : Owes(rows, k, q) => Owes(R, k, q))
      /\ Better(R, rows, LastPart, Len(wal))
  <2>1. DatabaseOK /\ names.shadow # 0 /\ p \in Part
    BY <1>1, <1>4, <1>5, Zenon DEF Inv
  <2>2. table[names.source].rows \in [Part -> Int]
    BY <2>1, Relations
  <2>3. R \in [Part -> Int] /\ R[p] = table[names.source].rows[p] /\ \A q \in Part : q # p => R[q] = rows[q]
    BY <1>6, <1>7, <2>1, <2>2
  <2> QED  BY <2>1, <2>3, PartCopied, Zenon
<1>9. PICK w : w = [v EXCEPT !.landed = p]
  BY Zenon
<1>10. eng' = [eng EXCEPT ![e] = w]
  BY <1>1, <1>9, Zenon DEF ReconcileCopy
<1>11. /\ Whole(w) /\ w.pc = v.pc /\ w.live = v.live /\ w.st = v.st /\ w.cp = v.cp /\ w.landed = p
       /\ w.applied = v.applied /\ w.mark = v.mark /\ w.saver = v.saver /\ w.to = v.to /\ w.then = v.then
  BY <1>4, <1>9, Zenon DEF EngineType, Whole, Fields
<1>12. EngineType(w)
  BY <1>4, <1>5, <1>11, Zenon DEF EngineType
<1>13. goal(w) = "recCopy" /\ ~saving(w) /\ ~first(w) /\ target(w) = v.cp /\ ~first(v)
  BY <1>2, <1>11, GoalIs, Zenon
<1>14. RowIsOurs(w) /\ PhaseFits(w) /\ WorkOK(w) /\ LocksOK(e, w)
  <2>1. RowIsOurs(v) /\ PhaseFits(v) /\ WorkOK(v) /\ LocksOK(e, v)
    BY <1>1, Here
  <2>2. RowIsOurs(w) /\ PhaseFits(w) /\ WorkOK(w)
    BY <1>11, <2>1, SamePlace
  <2> QED  BY <1>2, <1>3, <1>11, <1>13, <2>1, <2>2, Zenon DEF LocksOK
<1>15. /\ UNCHANGED <<names, wal, slot>> /\ table'[s].rows = R
       /\ \A r, from, q : Owes(r, from, q)' <=> Owes(r, from, q)
  BY <1>1, <1>2, <1>4, <1>7, <1>8, Rewritten, SameWal, Zenon DEF Inv
<1>16. StreamOK(e, w)' /\ CopyOK(w)'
  <2>1. v.saver = NoRow /\ slot.holder # e
    BY <1>1, <1>2, NotCopying, Zenon DEF copying, checking
  <2> QED  BY <1>2, <1>11, <2>1, Zenon DEF StreamOK, CopyOK
<1>17. RecopyOK(w)'
  <2>1. RecopyOK(v)
    BY <1>1, Here, Zenon
  <2>2. ASSUME NEW q \in Part, q <= p PROVE Owes(R, v.mark, q)
    <3>1. CASE q = p
      BY <1>8, <3>1, Zenon
    <3>2. CASE q # p
      <4>1. q <= v.landed
        BY <1>1, <1>4, <2>2, <3>2 DEF Part
      <4>2. Owes(rows, v.mark, q)
        BY <1>2, <1>4, <1>6, <2>1, <4>1, Zenon DEF RecopyOK
      <4> QED  BY <1>8, <4>2, Zenon
    <3> QED  BY <3>1, <3>2, Zenon
  <2> QED  BY <1>2, <1>4, <1>5, <1>11, <1>15, <2>1, <2>2, Zenon DEF RecopyOK
<1>18. w.cp.wm <= LastPart /\ Larger(slot.at, w.cp.lsn) <= Len(wal)
  <2>1. slot.at \in 0 .. Len(wal) /\ wal \in Seq(Part)
    BY Zenon DEF Inv, DatabaseOK, DatabaseType
  <2>2. w.cp.wm \in 0 .. LastPart /\ w.cp.lsn \in 0 .. Len(wal)
    BY <1>4, <1>11, Relations, Zenon DEF Inv
  <2> QED  BY <2>1, <2>2, RunnerBounds DEF Larger
<1>19. LastPart \in Int /\ Len(wal) \in Int /\ Better(R, table[names.shadow].rows, LastPart, Len(wal))
  <2>1. LastPart \in Int /\ Len(wal) \in Int
    BY Sizes, Zenon DEF Inv
  <2> QED  BY <1>1, <1>6, <1>8, <2>1, Zenon
<1>20. "recCopy" \notin {"gate"} \cup swapping
  BY Zenon DEF swapping
<1> QED  BY <1>1, <1>2, <1>3, <1>7, <1>8, <1>10, <1>12, <1>13, <1>14, <1>16, <1>17, <1>18, <1>19, <1>20, ShadowStep, Zenon

\* The rows through the watermark stay, those above it go.
LEMMA Cleared ==
    ASSUME NEW rows \in [Part -> Int], NEW wm \in Int, NEW R, NEW n, R = rows \/ R = cleared(rows, wm)
    PROVE  /\ R \in [Part -> Int] /\ (\A p \in Part : p <= wm => R[p] = rows[p]) /\ Better(R, rows, wm, n)
           /\ \A k : \A p \in Part : p <= wm /\ Owes(rows, k, p) => Owes(R, k, p)
<1>1. R \in [Part -> Int] /\ \A p \in Part : p <= wm => R[p] = rows[p]
  BY DEF cleared, Absent
<1> QED  BY <1>1, Zenon DEF Better, Owes

\* A reconcile first clears what lies above the watermark.
LEMMA ReconcileClearInv == ASSUME Inv, NEW e \in Engine, ReconcileClear(e) PROVE Inv'
<1>1. PICK v, s : v = eng[e] /\ s = names.shadow
  BY Zenon
<1>2. /\ v.pc = "recClear" /\ ax = NoSwap
      /\ UNCHANGED <<names, wal, slot, row, lock, slotLock, ax, reaper, used>>
  BY <1>1, Zenon DEF ReconcileClear, at
<1>3. goal(v) = "recClear" /\ ~saving(v) /\ target(v) = v.cp /\ "recClear" \in working
  BY <1>2, GoalIs, Zenon DEF working, ready
<1>4. /\ v.cp \in RowType /\ v.cp.shadow = s /\ s \in OID /\ s # 0 /\ RowOK(v.cp)
  BY <1>1, <1>3, WorkHere, Zenon
<1>5. PICK w : eng' = [eng EXCEPT ![e] = w] /\ Moves(v, w, "recClaim") /\ EngineType(w)
  BY <1>1, Moved, Zenon DEF ReconcileClear
<1>6. /\ RowIsOurs(w) /\ PhaseFits(w) /\ WorkOK(w) /\ goal(w) = "recClaim" /\ w.pc = "recClaim" /\ w.cp = v.cp
      /\ w.saver = v.saver /\ v.saver = NoRow /\ slot.holder # e
  BY <1>1, <1>2, <1>5, Onward, NotCopying DEF Moves, onward, copying, checking
<1>7. LocksOK(e, w)
  BY <1>1, <1>2, <1>3, <1>6, Here, Zenon DEF LocksOK
<1>8. PICK rows, R : rows = table[s].rows /\ R = IF v.cp.wm = 0 THEN rows ELSE cleared(rows, v.cp.wm)
  BY Zenon
<1>9. table \in [OID -> [rows : [Part -> Int], shape : Statement \cup {BaseShape}, fence : BOOLEAN]]
      /\ rows \in [Part -> Int] /\ v.cp.wm \in Int /\ Len(wal) \in Int
  BY <1>4, <1>8, Relations, Sizes, Zenon DEF Inv, DatabaseOK, DatabaseType
<1>10. ShadowWrite(R)
  <2>1. table' = [table EXCEPT ![s].rows = R]
    <3>1. CASE v.cp.wm = 0
      BY <1>1, <1>4, <1>8, <1>9, <3>1, Zenon DEF ReconcileClear, cp
    <3>2. CASE v.cp.wm # 0
      BY <1>1, <1>4, <1>8, <1>9, <3>2, Zenon DEF ReconcileClear, cp
    <3> QED  BY <3>1, <3>2, Zenon
  <2> QED  BY <1>1, <1>2, <2>1, Zenon DEF ShadowWrite
<1>11. R \in [Part -> Int] /\ Better(R, table[names.shadow].rows, v.cp.wm, Len(wal))
  BY <1>1, <1>8, <1>9, Cleared, Zenon
<1>12. StreamOK(e, w)' /\ CopyOK(w)' /\ RecopyOK(w)'
  BY <1>2, <1>6, Zenon DEF StreamOK, CopyOK, RecopyOK
<1>13. w.cp.wm <= v.cp.wm /\ Larger(slot.at, w.cp.lsn) <= Len(wal)
  BY <1>4, <1>6, Sizes, Zenon DEF Inv
<1>14. "recClaim" \in working /\ "recClaim" \notin {"gate"} \cup swapping
  BY Zenon DEF working, ready, swapping
<1> QED  BY <1>1, <1>2, <1>5, <1>6, <1>7, <1>9, <1>10, <1>11, <1>12, <1>13, <1>14, ShadowStep, Zenon

\* A resumed copy clears what lies above its watermark.
LEMMA ClearAboveInv == ASSUME Inv, NEW e \in Engine, ClearAbove(e) PROVE Inv'
<1>1. PICK v, s : v = eng[e] /\ s = names.shadow
  OBVIOUS
<1>2. /\ v.pc = "clear" /\ capturing(e) /\ ax = NoSwap
      /\ UNCHANGED <<names, wal, slot, row, lock, slotLock, ax, reaper, used>>
  BY <1>1, Zenon DEF ClearAbove, at
<1>3. goal(v) = "clear" /\ ~saving(v) /\ ~first(v) /\ target(v) = v.cp /\ "clear" \in working /\ "clear" \in copying
      /\ "copy" \in working /\ "copy" \in copying
  BY <1>2, GoalIs, Zenon DEF working, copying
<1>4. /\ EngineType(v) /\ v.cp \in RowType /\ v.cp.shadow = s /\ s \in OID /\ s # 0 /\ RowOK(v.cp) /\ v.saver = NoRow
  <2>1. CopyOK(v)
    BY <1>1, Here, Zenon
  <2> QED  BY <1>1, <1>2, <1>3, <2>1, WorkHere, Zenon DEF CopyOK
<1>5. PICK w : w = [v EXCEPT !.pc = "copy", !.landed = v.cp.wm]
  BY Zenon
<1>6. eng' = [eng EXCEPT ![e] = w]
  BY <1>1, <1>5, Zenon DEF ClearAbove, cp
<1>7. /\ Whole(w) /\ w.pc = "copy" /\ w.live = v.live /\ w.st = v.st /\ w.cp = v.cp /\ w.landed = v.cp.wm
      /\ w.applied = v.applied /\ w.mark = v.mark /\ w.saver = v.saver
  BY <1>4, <1>5, Zenon DEF EngineType, Whole, Fields
<1>8. EngineType(w)
  BY <1>4, <1>7, Zenon DEF EngineType, RowType
<1>9. goal(w) = "copy" /\ ~saving(w) /\ ~first(w) /\ target(w) = v.cp
  BY <1>7, GoalIs, Zenon
<1>10. RowIsOurs(w) /\ PhaseFits(w) /\ WorkOK(w) /\ LocksOK(e, w)
  <2>1. RowIsOurs(w) /\ WorkOK(w)
    BY <1>1, <1>3, <1>7, <1>9, Here, Zenon DEF RowIsOurs, WorkOK, starting, making
  <2>2. PhaseFits(w)
    <3>1. PhaseFits(v)
      BY <1>1, Here, Zenon
    <3> QED  BY <1>3, <1>7, <1>9, <3>1, Zenon DEF PhaseFits, making, ready, recopying, checking, swapping
  <2>3. LocksOK(e, w)
    BY <1>1, <1>2, <1>7, <1>9, Here, Zenon DEF LocksOK
  <2> QED  BY <2>1, <2>2, <2>3, Zenon
<1>11. PICK rows, R : rows = table[s].rows /\ R = cleared(rows, v.cp.wm)
  BY Zenon
<1>12. rows \in [Part -> Int] /\ v.cp.wm \in Int /\ Len(wal) \in Int
  BY <1>4, <1>11, Relations, Sizes, Zenon DEF Inv
<1>13. ShadowWrite(R)
  BY <1>1, <1>2, <1>4, <1>11, Zenon DEF ClearAbove, ShadowWrite, cp
<1>14. /\ R \in [Part -> Int] /\ (\A p \in Part : p <= v.cp.wm => R[p] = rows[p])
       /\ (\A k : \A p \in Part : p <= v.cp.wm /\ Owes(rows, k, p) => Owes(R, k, p))
       /\ Better(R, rows, v.cp.wm, Len(wal))
  <2>1. R \in [Part -> Int] /\ \A p \in Part : p <= v.cp.wm => R[p] = rows[p]
    BY <1>11, <1>12 DEF cleared, Absent
  <2> QED  BY <2>1, Zenon DEF Better, Owes
<1>15. /\ UNCHANGED <<names, wal, slot>> /\ table'[s].rows = R
       /\ \A r, from, q : Owes(r, from, q)' <=> Owes(r, from, q)
  BY <1>1, <1>2, <1>4, <1>13, <1>14, Rewritten, SameWal, Zenon DEF Inv
<1>16. StreamOK(e, w)'
  <2>1. StreamOK(e, v)
    BY <1>1, Here, Zenon
  <2>2. ASSUME slot.holder = e, NEW p \in Part, p <= v.cp.wm PROVE Owes(R, v.applied, p)
    <3>1. v.cp.wm <= v.landed /\ v.landed \in Int
      BY <1>4, <2>1, <2>2 DEF StreamOK, EngineType
    <3>2. p <= v.landed
      BY <1>12, <2>2, <3>1 DEF Part
    <3>3. Owes(rows, v.applied, p)
      BY <1>4, <1>11, <2>1, <2>2, <3>2, Zenon DEF StreamOK
    <3> QED  BY <1>14, <2>2, <3>3, Zenon
  <2>3. goal(w)' = "copy"
    BY <1>7, Zenon DEF goal, saving
  <2>4. w.cp.wm <= w.landed /\ "copy" \in copying /\ "copy" \notin checking
    BY <1>3, <1>7, <1>12 DEF checking
  <2> QED  BY <1>4, <1>7, <1>15, <2>1, <2>2, <2>3, <2>4, Zenon DEF StreamOK
<1>17. CopyOK(w)' /\ RecopyOK(w)'
  <2>1. \A p \in Part : p <= v.cp.wm => R[p] # Absent
    BY <1>1, <1>4, <1>11, <1>14, Zenon DEF RowOK, Copied
  <2> QED  BY <1>4, <1>7, <1>12, <1>15, <2>1 DEF CopyOK, RecopyOK
<1>18. w.cp.wm <= v.cp.wm /\ Larger(slot.at, w.cp.lsn) <= Len(wal)
  BY <1>4, <1>7, Sizes, Zenon DEF Inv
<1>19. "copy" \notin {"gate"} \cup swapping /\ Better(R, table[names.shadow].rows, v.cp.wm, Len(wal)) /\ eng[e].pc # "idle"
  BY <1>1, <1>2, <1>11, <1>14, Zenon DEF swapping
<1> QED  BY <1>2, <1>3, <1>6, <1>8, <1>9, <1>10, <1>12, <1>13, <1>14, <1>16, <1>17, <1>18, <1>19, ShadowStep, Zenon

\* A change of the stream is its part's last one, or a later one follows.
LEMMA ChangeApplied ==
    ASSUME wal \in Seq(Part), TruthOK, NEW i \in 1 .. Len(wal), NEW R, R[wal[i]] = i, NEW k \in 0 .. i
    PROVE  Owes(R, k, wal[i])
<1>1. Len(wal) \in Nat /\ wal[i] \in Part
  OBVIOUS
<1>2. PICK t : t = truth[wal[i]]
  BY Zenon
<1>3. t \in 0 .. Len(wal) /\ i <= t /\ (t # 0 => wal[t] = wal[i])
  BY <1>1, <1>2, Zenon DEF TruthOK
<1>4. CASE t = i
  BY <1>2, <1>4, Zenon DEF Owes
<1>5. CASE t # i
  BY <1>1, <1>3, <1>5 DEF Owes
<1> QED  BY <1>4, <1>5, Zenon

\* The next change of the stream is applied.
LEMMA ApplyNextInv == ASSUME Inv, NEW e \in Engine, ApplyNext(e) PROVE Inv'
<1>1. PICK v, i, s, q : v = eng[e] /\ i = v.applied + 1 /\ s = names.shadow /\ q = wal[i]
  BY Zenon
<1>2. /\ slot.holder = e /\ ax = NoSwap /\ v.applied < Len(wal)
      /\ UNCHANGED <<names, wal, slot, row, lock, slotLock, ax, reaper, used>>
  BY <1>1, Zenon DEF ApplyNext
<1>3. StreamOK(e, v) /\ v.live /\ slot.exists /\ goal(v) \in copying \cup checking /\ goal(v) \in working
      /\ v.cp.lsn <= v.applied /\ slot.at <= v.applied
  BY <1>1, <1>2, Here, Zenon DEF StreamOK, working
<1>4. /\ EngineType(v) /\ PhaseFits(v) /\ RowIsOurs(v) /\ WorkOK(v) /\ LocksOK(e, v) /\ CopyOK(v)
      /\ v.cp \in RowType /\ v.cp.shadow = s /\ s \in OID /\ s # 0
  <2>1. /\ DatabaseOK /\ EngineType(v) /\ PhaseFits(v) /\ RowIsOurs(v) /\ WorkOK(v) /\ LocksOK(e, v) /\ CopyOK(v)
    BY <1>1, Here, Zenon
  <2>2. goal(v) \in working \cup making
    BY <1>3, Zenon
  <2>3. v.cp \in RowType /\ v.cp.shadow = s /\ s \in OID
    BY <1>1, <2>1, <2>2, AtWork, Zenon
  <2>4. s # 0
    BY <2>1, <2>3, Relations, Zenon
  <2> QED  BY <2>1, <2>3, <2>4, Zenon
<1>5. i \in 1 .. Len(wal) /\ q \in Part /\ wal \in Seq(Part) /\ TruthOK /\ Len(wal) \in Nat /\ slot.at \in Nat
      /\ v.applied \in Nat /\ i \in Int /\ LastPart \in Int
  <2>1. wal \in Seq(Part) /\ TruthOK /\ slot.at \in 0 .. Len(wal) /\ v.applied \in Nat /\ LastPart \in Int
    BY <1>4, Sizes, Zenon DEF Inv, DatabaseOK, DatabaseType, EngineType
  <2> QED  BY <1>1, <1>2, <2>1
<1>6. PICK rows, R : rows = table[s].rows /\ R = IF q <= v.landed THEN [rows EXCEPT ![q] = i] ELSE rows
  BY Zenon
<1>7. table \in [OID -> [rows : [Part -> Int], shape : Statement \cup {BaseShape}, fence : BOOLEAN]]
      /\ rows \in [Part -> Int]
  BY <1>4, <1>6, Relations, Zenon DEF Inv, DatabaseOK, DatabaseType
<1>8. R \in [Part -> Int] /\ (\A p \in Part : p # q => R[p] = rows[p]) /\ (q <= v.landed => R[q] = i)
      /\ (~(q <= v.landed) => R = rows)
  BY <1>5, <1>6, <1>7, Zenon
<1>9. ShadowWrite(R)
  <2>1. table' = [table EXCEPT ![s].rows = R]
    <3>1. CASE q <= v.landed
      BY <1>1, <1>4, <1>6, <1>7, <3>1, Zenon DEF ApplyNext, cp
    <3>2. CASE ~(q <= v.landed)
      BY <1>1, <1>4, <1>6, <1>7, <3>2, Zenon DEF ApplyNext, cp
    <3> QED  BY <3>1, <3>2, Zenon
  <2> QED  BY <1>1, <1>2, <2>1, Zenon DEF ShadowWrite
<1>10. q <= v.landed => \A k \in 0 .. i : Owes(R, k, q)
  BY <1>1, <1>5, <1>8, ChangeApplied, Zenon
<1>11. Better(R, rows, LastPart, i)
  <2>1. i # Absent
    BY <1>5 DEF Absent
  <2> QED  BY <1>8, <1>10, <2>1, Zenon DEF Better
<1>12. PICK w : w = [v EXCEPT !.applied = i]
  BY Zenon
<1>13. eng' = [eng EXCEPT ![e] = w]
  BY <1>1, <1>12, Zenon DEF ApplyNext
<1>14. /\ Whole(w) /\ w.pc = v.pc /\ w.live = v.live /\ w.st = v.st /\ w.cp = v.cp /\ w.landed = v.landed
       /\ w.applied = i /\ w.mark = v.mark /\ w.saver = v.saver /\ w.to = v.to /\ w.then = v.then
  BY <1>4, <1>12, Zenon DEF EngineType, Whole, Fields
<1>15. EngineType(w)
  BY <1>4, <1>5, <1>14 DEF EngineType
<1>16. goal(w) = goal(v) /\ (saving(w) <=> saving(v)) /\ (first(w) <=> first(v)) /\ target(w) = target(v)
  BY <1>14, Zenon DEF goal, saving, first, target
<1>17. RowIsOurs(w) /\ PhaseFits(w) /\ WorkOK(w) /\ LocksOK(e, w)
  <2>1. RowIsOurs(w) /\ WorkOK(w)
    BY <1>4, <1>14, <1>16, ZenonT(30) DEF RowIsOurs, WorkOK
  <2>2. PhaseFits(w)
    BY <1>4, <1>14, <1>16 DEF PhaseFits
  <2>3. w.pc # "idle"
    BY <1>3, <1>14, Zenon DEF goal, saving, copying, checking
  <2>4. LocksOK(e, w)
    BY <1>2, <1>4, <1>14, <1>16, <2>3, Zenon DEF LocksOK
  <2> QED  BY <2>1, <2>2, <2>4
<1>18. /\ UNCHANGED <<names, wal, slot>> /\ table'[s].rows = R
       /\ \A r, from, p : Owes(r, from, p)' <=> Owes(r, from, p)
  BY <1>1, <1>2, <1>4, <1>8, <1>9, Rewritten, SameWal, Zenon DEF Inv
<1>19. StreamOK(e, w)'
  <2>1. ASSUME NEW p \in Part, p <= v.landed PROVE Owes(R, i, p)
    <3>1. CASE p = q
      BY <1>5, <1>10, <2>1, <3>1
    <3>2. CASE p # q
      <4>1. Owes(rows, v.applied, p)
        BY <1>2, <1>3, <1>4, <1>6, <2>1, Zenon DEF StreamOK
      <4>2. \A j \in 1 .. Len(wal) : v.applied < j /\ wal[j] = p => i < j
        BY <1>1, <1>5, <3>2
      <4> QED  BY <1>8, <3>2, <4>1, <4>2, Zenon DEF Owes
    <3> QED  BY <3>1, <3>2, Zenon
  <2>2. slot.at <= i /\ i <= Len(wal) /\ v.cp.lsn <= i /\ (v.saver # NoRow => v.saver.lsn <= i)
    <3>1. v.saver # NoRow => v.saver.lsn <= v.applied /\ v.saver.lsn \in Nat
      BY <1>2, <1>3, <1>4, Zenon DEF StreamOK, CopyOK, RowOK, RowType
    <3>2. v.cp.lsn \in Nat
      BY <1>4, Zenon DEF RowType
    <3> QED  BY <1>1, <1>3, <1>5, <3>1, <3>2
  <2>3. goal(w)' = goal(v)
    BY <1>14, Zenon DEF goal, saving
  <2> QED  BY <1>2, <1>3, <1>4, <1>14, <1>18, <2>1, <2>2, <2>3, Zenon DEF StreamOK
<1>20. CopyOK(w)' /\ RecopyOK(w)'
  <2>1. v.pc = "copy" => \A p \in Part : p <= v.landed => R[p] # Absent
    <3>1. v.pc = "copy" => \A p \in Part : p <= v.landed => rows[p] # Absent
      BY <1>4, <1>6, Zenon DEF CopyOK
    <3>2. i # Absent
      BY <1>5 DEF Absent
    <3> QED  BY <1>8, <3>1, <3>2, Zenon
  <2>2. v.saver # NoRow => RowOK(v.saver)'
    <3>1. SUFFICES ASSUME v.saver # NoRow PROVE RowOK(v.saver)'
      BY Zenon
    <3>2. RowOK(v.saver) /\ v.saver.wm <= LastPart /\ v.saver.lsn \in Nat /\ v.saver.lsn <= v.applied /\ DatabaseOK
      BY <1>2, <1>3, <1>4, <3>1, Sizes, Zenon DEF CopyOK, Inv, StreamOK
    <3>3. Larger(slot.at, v.saver.lsn) <= i
      BY <1>1, <1>3, <1>5, <3>2 DEF Larger
    <3>4. Better(R, table[names.shadow].rows, LastPart, i) /\ names.shadow # 0
      BY <1>1, <1>4, <1>6, <1>11, Zenon
    <3> QED  BY <1>2, <1>5, <1>8, <1>9, <3>2, <3>3, <3>4, RowRewritten, Zenon
  <2>3. v.pc # "recCopy"
    BY <1>3, Zenon DEF goal, saving, copying, checking
  <2>4. CopyOK(w)'
    BY <1>4, <1>14, <1>18, <2>1, <2>2, ZenonT(30) DEF CopyOK
  <2> QED  BY <1>14, <2>3, <2>4, Zenon DEF RecopyOK
<1>21. w.cp.wm <= LastPart /\ Larger(slot.at, w.cp.lsn) <= i
  BY <1>1, <1>3, <1>4, <1>5, <1>14 DEF Larger, RowType
<1>22. Better(R, table[names.shadow].rows, LastPart, i) /\ goal(w) \in working /\ w.live /\ eng[e].pc # "idle"
  BY <1>1, <1>3, <1>6, <1>11, <1>14, <1>16, Zenon DEF goal, saving, copying, checking
<1> QED  BY <1>2, <1>5, <1>8, <1>9, <1>13, <1>15, <1>17, <1>19, <1>20, <1>21, <1>22, ShadowStep, Zenon

-----------------------------------------------------------------------------
(* Making what a run needs: its shadow, its fence, its slot and its stream. *)

\* An engine at work takes a step before the copy, or into it.
LEMMA WorkStep ==
    ASSUME Inv, NEW e \in Engine, eng[e].pc # "idle", NEW w, eng' = [eng EXCEPT ![e] = w], EngineType(w),
           w.saver = NoRow, w.pc # "copy", goal(w) \in working \cup making, goal(w) \notin {"gate"} \cup swapping,
           slot'.holder \in {slot.holder, None, e}, DatabaseOK', RowIsOurs(w)', PhaseFits(w), WorkOK(w)',
           StreamOK(e, w)', RecopyOK(w)', ax' = NoSwap, UNCHANGED lock,
           goal(w) \in {"create", "release", "recDrop", "recCreate"} => slotLock' = e
    PROVE  Inv'
<1>1. (goal(w)' = goal(w)) /\ w.pc # "idle"
  BY Zenon DEF goal, saving, working, making, ready, recopying, copying, checking, swapping
<1>2. EngineType(w)' /\ PhaseFits(w)'
  BY Zenon DEF EngineType, Whole, PhaseFits, goal, saving, first, target
<1>3. CopyOK(w)' /\ QuietOK(w)' /\ EndOK(w)'
  BY <1>1, Zenon DEF CopyOK, QuietOK, EndOK, working, making, ready, recopying, copying, checking, swapping, ending
<1>4. MaxLosses = 0 => lock = e
  BY Here, Zenon DEF LocksOK
<1>5. LocksOK(e, w)'
  BY <1>1, <1>4, Zenon DEF LocksOK
<1>6. EngineOK(e, w)'
  BY <1>2, <1>3, <1>5, Zenon DEF EngineOK
<1> QED  BY <1>6, EngineStep, Zenon

\* The shadow is a new relation, under a name nothing bears.
LEMMA BuildShadowInv == ASSUME Inv, NEW e \in Engine, BuildShadow(e) PROVE Inv'
<1>1. PICK v, o, s : v = eng[e] /\ o = used.oid + 1 /\ s = names.source
  BY Zenon
<1>2. /\ v.pc = "build" /\ names.shadow = 0 /\ ax = NoSwap /\ used.oid < MaxOID
      /\ UNCHANGED <<wal, slot, row, lock, slotLock, ax, reaper>>
      /\ used' = [used EXCEPT !["oid"] = used.oid + 1] /\ names' = [names EXCEPT !.shadow = o]
      /\ table' = [table EXCEPT ![o].shape = v.st]
  BY <1>1, Zenon DEF BuildShadow, at, spend
<1>3. DatabaseOK /\ EngineType(v) /\ row = NoRow /\ goal(v) = "build" /\ v.saver = NoRow /\ slot.holder # e
  BY <1>1, <1>2, Here, GoalIs, NotCopying, Zenon DEF RowIsOurs, starting, copying, checking
<1>4. /\ used \in [oid : OID, mishap : Nat, loss : Nat, lost : {{}}] /\ used.oid \in Nat /\ o \in OID /\ o \in Nat /\ used.oid < o
      /\ names \in [source : 0 .. used.oid, shadow : 0 .. used.oid, old : 0 .. used.oid]
      /\ table \in [OID -> [rows : [Part -> Int], shape : Statement \cup {BaseShape}, fence : BOOLEAN]]
      /\ v.st \in Statement \cup {BaseShape} /\ s \in OID /\ s <= used.oid /\ s # 0 /\ o # 0
  <2>1. used \in [oid : OID, mishap : Nat, loss : Nat, lost : {{}}]
        /\ names \in [source : 0 .. used.oid, shadow : 0 .. used.oid, old : 0 .. used.oid]
        /\ table \in [OID -> [rows : [Part -> Int], shape : Statement \cup {BaseShape}, fence : BOOLEAN]]
        /\ v.st \in Statement \cup {BaseShape}
    BY <1>3, Zenon DEF DatabaseOK, DatabaseType, EngineType
  <2>2. used.oid \in Nat /\ used.oid >= 1 /\ MaxOID \in Nat
    BY <2>1, RunnerBounds DEF OID
  <2>3. s \in OID /\ s <= used.oid /\ s # 0
    BY <1>1, <1>3, <2>1, <2>2, Relations
  <2> QED  BY <1>1, <1>2, <2>1, <2>2, <2>3 DEF OID
<1>5. used' \in [oid : OID, mishap : Nat, loss : Nat, lost : {{}}] /\ used'.oid = o
  BY <1>1, <1>2, <1>4, Zenon
<1>6. names' \in [source : 0 .. o, shadow : 0 .. o, old : 0 .. o] /\ names'.source = s /\ names'.shadow = o
      /\ names'.old = names.old /\ names.old <= used.oid
  BY <1>1, <1>2, <1>4
<1>7. /\ table' \in [OID -> [rows : [Part -> Int], shape : Statement \cup {BaseShape}, fence : BOOLEAN]]
      /\ table'[o].shape = v.st
      /\ \A q \in OID : table'[q].rows = table[q].rows /\ (table'[q].fence <=> table[q].fence)
  BY <1>2, <1>4
<1>8. DatabaseOK'
  <2>1. DatabaseType'
    BY <1>2, <1>3, <1>5, <1>6, <1>7, Zenon DEF DatabaseOK, DatabaseType
  <2>2. NamesOK' /\ FreshOK'
    <3>1. NamesOK'
      BY <1>1, <1>3, <1>4, <1>6 DEF DatabaseOK, NamesOK
    <3>2. \A q \in OID : o < q => used.oid < q
      BY <1>4 DEF OID
    <3>3. FreshOK'
      BY <1>3, <1>5, <1>7, <3>2, Zenon DEF DatabaseOK, FreshOK
    <3> QED  BY <3>1, <3>3, Zenon
  <2>3. TruthOK' /\ LiveTableIsTruth' /\ SwapOK' /\ ReaperOK'
    BY <1>1, <1>2, <1>3, <1>4, <1>6, <1>7, SameWal, SameReaper DEF DatabaseOK, LiveTableIsTruth, SwapOK
  <2> QED  BY <1>2, <1>3, <2>1, <2>2, <2>3, Zenon DEF DatabaseOK
<1>9. PICK c : c = [phase |-> "copying", live |-> v.live, wm |-> 0, lsn |-> 0, src |-> s, shadow |-> o, st |-> v.st]
  BY Zenon
<1>10. /\ c.phase = "copying" /\ c.live = v.live /\ c.wm = 0 /\ c.lsn = 0 /\ c.src = s /\ c.shadow = o /\ c.st = v.st
       /\ c \in RowType /\ c # NoRow
  <2>1. v.live \in BOOLEAN /\ s \in Nat /\ 0 \in 0 .. LastPart /\ "copying" \in Phases
    BY <1>3, <1>4, RunnerBounds DEF EngineType, Phases, OID
  <2>2. c \in RowType
    BY <1>4, <1>9, <2>1, Zenon DEF RowType
  <2>3. c.phase = "copying" /\ NoRow.phase = "none"
    BY <1>9, Zenon DEF NoRow
  <2> QED  BY <1>9, <2>2, <2>3, Zenon
<1>11. RowOK(c)'
  <2>1. RowFits(c)'
    <3>1. Len(wal) \in Nat
      BY <1>3 DEF DatabaseOK, DatabaseType
    <3>2. s # o /\ s <= o
      BY <1>4 DEF OID
    <3> QED  BY <1>2, <1>4, <1>5, <1>10, <3>1, <3>2 DEF RowFits
  <2>2. Stands(c)'
    BY <1>3, <1>4, <1>7, <1>10, Zenon DEF Stands, DatabaseOK, FreshOK
  <2>3. Recorded(c)' /\ Copied(c)'
    BY <1>4, <1>6, <1>10 DEF Recorded, Copied, Part
  <2> QED  BY <1>10, <2>1, <2>2, <2>3, Zenon DEF RowOK
<1>12. PICK x : x = IF v.live THEN "claim" ELSE "fence"
  BY Zenon
<1>13. PICK w : w = [v EXCEPT !.pc = x, !.cp = c]
  BY Zenon
<1>14. eng' = [eng EXCEPT ![e] = w]
  BY <1>1, <1>9, <1>12, <1>13, Zenon DEF BuildShadow
<1>15. /\ Whole(w) /\ w.pc = x /\ w.live = v.live /\ w.st = v.st /\ w.cp = c /\ w.landed = v.landed
       /\ w.applied = v.applied /\ w.mark = v.mark /\ w.saver = NoRow
  BY <1>3, <1>13, Zenon DEF EngineType, Whole, Fields
<1>16. EngineType(w)
  BY <1>3, <1>10, <1>15, Zenon DEF EngineType
<1>17. goal(w) = x /\ ~saving(w) /\ ~first(w) /\ target(w) = c /\ x \in making /\ x \in {"claim", "fence"}
  BY <1>12, <1>15, GoalIs, Zenon DEF making
<1>18. RowIsOurs(w)' /\ PhaseFits(w)
  BY <1>2, <1>3, <1>10, <1>12, <1>15, <1>17, Zenon
     DEF RowIsOurs, PhaseFits, goal, saving, first, working, making, ready, recopying, copying, checking, swapping,
         ending
<1>19. WorkOK(w)'
  BY <1>6, <1>10, <1>11, <1>15, <1>17, Zenon DEF WorkOK, describes, target, goal, saving
<1>20. StreamOK(e, w)' /\ RecopyOK(w)'
  BY <1>2, <1>3, <1>15, <1>17, Zenon DEF StreamOK, RecopyOK
<1>21. eng[e].pc # "idle" /\ slot'.holder = slot.holder /\ ax' = NoSwap /\ w.pc # "copy"
       /\ goal(w) \in making /\ goal(w) \notin {"gate", "create", "release", "recDrop", "recCreate"} \cup swapping
  BY <1>1, <1>2, <1>15, <1>17, Zenon DEF swapping
<1> QED  BY <1>2, <1>8, <1>14, <1>15, <1>16, <1>18, <1>19, <1>20, <1>21, WorkStep, Zenon

\* The source is fenced: no row's shadow is.
LEMMA FenceSet ==
    ASSUME DatabaseOK, ax = NoSwap, table' = [table EXCEPT ![names.source].fence = TRUE],
           UNCHANGED <<names, wal, slot, row, slotLock, ax, reaper, used>>,
           row # NoRow => row.shadow # names.source
    PROVE  /\ DatabaseOK'
           /\ \A r : RowOK(r) /\ r.shadow # names.source => RowOK(r)'
<1>1. /\ table \in [OID -> [rows : [Part -> Int], shape : Statement \cup {BaseShape}, fence : BOOLEAN]]
      /\ names.source \in OID /\ names.source <= used.oid
  BY Relations DEF DatabaseOK, DatabaseType
<1>2. /\ table' \in [OID -> [rows : [Part -> Int], shape : Statement \cup {BaseShape}, fence : BOOLEAN]]
      /\ \A o \in OID : /\ table'[o].rows = table[o].rows /\ table'[o].shape = table[o].shape
                        /\ o # names.source => (table'[o].fence <=> table[o].fence)
  BY <1>1, Zenon
<1>3. ASSUME NEW r, RowOK(r), r.shadow # names.source PROVE RowOK(r)'
  <2>1. r.shadow \in OID
    BY <1>3, Relations, Zenon
  <2>2. RowFits(r)' /\ Recorded(r)'
    BY <1>3, Zenon DEF RowOK, RowFits, Recorded
  <2>3. Stands(r)'
    BY <1>2, <1>3, <2>1, Zenon DEF RowOK, Stands
  <2>4. Copied(r)'
    BY <1>2, <1>3, <2>1, SameWal, Zenon DEF RowOK, Copied
  <2> QED  BY <1>3, <2>2, <2>3, <2>4, Zenon DEF RowOK
<1>4. DatabaseType'
  BY <1>2, Zenon DEF DatabaseOK, DatabaseType
<1>5. NamesOK' /\ TruthOK' /\ SwapOK' /\ ReaperOK'
  BY SameWal, SameReaper, Zenon DEF DatabaseOK, NamesOK, SwapOK
<1>6. FreshOK'
  <2>1. used.oid \in Nat
    BY DEF DatabaseOK, DatabaseType, OID
  <2> QED  BY <1>1, <1>2, <2>1 DEF DatabaseOK, FreshOK, OID
<1>7. LiveTableIsTruth'
  BY <1>1, <1>2, SameWal, Zenon DEF DatabaseOK, LiveTableIsTruth
<1>8. row' # NoRow => RowOK(row)'
  BY <1>3, Zenon DEF DatabaseOK
<1> QED  BY <1>3, <1>4, <1>5, <1>6, <1>7, <1>8, Zenon DEF DatabaseOK

\* The fence is on the source before a quiesced copy begins, or again when it
\* resumes.
LEMMA InstallWriteFenceInv == ASSUME Inv, NEW e \in Engine, InstallWriteFence(e) PROVE Inv'
<1>1. PICK v : v = eng[e]
  BY Zenon
<1>2. /\ v.pc \in {"fence", "refence"} /\ ax = NoSwap /\ table' = [table EXCEPT ![names.source].fence = TRUE]
      /\ UNCHANGED <<names, wal, slot, row, lock, slotLock, ax, reaper, used>>
  BY <1>1, Zenon DEF InstallWriteFence
<1>3. goal(v) = v.pc /\ ~saving(v) /\ target(v) = v.cp /\ goal(v) \in working \cup making /\ v.saver = NoRow
      /\ slot.holder # e
  BY <1>1, <1>2, GoalIs, NotCopying, Zenon DEF working, making, ready, copying, checking
<1>4. /\ DatabaseOK /\ EngineType(v) /\ PhaseFits(v) /\ RowIsOurs(v) /\ describes(v.cp) /\ RowOK(v.cp)
      /\ v.cp \in RowType /\ v.cp # NoRow /\ v.cp.shadow # names.source /\ v.cp.live = v.live /\ v.cp.st = v.st
  BY <1>1, <1>3, Here, AtWork, Zenon DEF WorkOK
<1>5. row = NoRow \/ row = v.cp
  BY <1>2, <1>3, <1>4, Zenon DEF RowIsOurs, working, making, ready
<1>6. DatabaseOK' /\ \A r : RowOK(r) /\ r.shadow # names.source => RowOK(r)'
  BY <1>2, <1>4, <1>5, FenceSet, Zenon
<1>7. eng[e].pc # "idle" /\ slot'.holder = slot.holder /\ ax' = NoSwap
  BY <1>1, <1>2, Zenon
<1>8. CASE v.pc = "fence"
  <2>1. v.cp.phase = "copying" /\ v.cp.wm = 0 /\ ~v.live /\ row = NoRow
    BY <1>3, <1>4, <1>8, Zenon DEF PhaseFits, RowIsOurs, making
  <2>2. save(e, v.cp, "copying", "clear")
    BY <1>1, <1>8, Zenon DEF InstallWriteFence, at, cp
  <2>3. PICK w : eng' = [eng EXCEPT ![e] = w] /\ Saves(v, w, v.cp, "copying", "clear") /\ EngineType(w)
    BY <1>1, <1>4, <2>2, Saved, Zenon
  <2>4. /\ saving(w) /\ first(w) /\ goal(w) = "clear" /\ w.pc = "save" /\ w.cp = v.cp /\ w.live = v.live /\ w.st = v.st
        /\ w.saver = NoRow /\ w.to = "copying" /\ w.then = "clear"
    BY <1>3, <2>3, Zenon DEF Saves, saving, first, goal
  <2>5. target(w) = v.cp
    <3>1. PICK q : q = [v.cp EXCEPT !.phase = "copying"]
      BY Zenon
    <3>2. q = v.cp
      BY <1>4, <2>1, <3>1, Zenon DEF RowType
    <3> QED  BY <2>4, <3>1, <3>2, Zenon DEF target
  <2>6. RowIsOurs(w)' /\ PhaseFits(w)
    BY <1>2, <2>1, <2>4, <2>5, Zenon
       DEF RowIsOurs, PhaseFits, goal, saving, first, working, making, ready, recopying, copying, checking, swapping,
           ending, Phases
  <2>7. WorkOK(w)'
    <3>1. RowOK(v.cp)' /\ describes(v.cp)'
      BY <1>2, <1>4, <1>6, Zenon DEF describes
    <3>2. target(w)' = v.cp
      BY <2>5, Zenon DEF target, saving
    <3> QED  BY <1>4, <2>4, <3>1, <3>2, Zenon DEF WorkOK
  <2>8. StreamOK(e, w)' /\ RecopyOK(w)' /\ goal(w) \in working
        /\ goal(w) \notin {"gate", "create", "release", "recDrop", "recCreate"} \cup swapping
    BY <1>3, <1>7, <2>4, Zenon DEF StreamOK, RecopyOK, working, copying, swapping
  <2> QED  BY <1>2, <1>6, <1>7, <2>3, <2>4, <2>6, <2>7, <2>8, WorkStep, Zenon
<1>9. CASE v.pc = "refence"
  <2>1. PICK x : x = IF v.cp.phase = "copying" THEN "clear" ELSE "verify"
    BY Zenon
  <2>2. PICK w : eng' = [eng EXCEPT ![e] = w] /\ Moves(v, w, x) /\ EngineType(w)
    BY <1>1, <1>9, <2>1, Moved, Zenon DEF InstallWriteFence, at, cp
  <2>3. row = v.cp /\ v.cp.phase # "done" /\ v.cp.phase # "reconciling"
    <3>1. row = v.cp /\ v.cp.phase # "done"
      BY <1>3, <1>4, <1>9, Zenon DEF RowIsOurs, PhaseFits, working, ready
    <3>2. v.cp.phase # "reconciling"
      BY <1>3, <1>4, <1>9, Zenon DEF PhaseFits, RowOK, RowFits
    <3> QED  BY <3>1, <3>2, Zenon
  <2>4. onward(v.pc, x) /\ (x = "clear" => v.cp.phase = "copying")
        /\ (x = "verify" => v.cp.phase \notin {"copying", "reconciling", "done"}) /\ x # "open" /\ x \in {"clear", "verify"}
    BY <1>9, <2>1, <2>3, ZenonT(30) DEF onward
  <2>5. RowIsOurs(w) /\ PhaseFits(w) /\ WorkOK(w) /\ goal(w) = x /\ ~saving(w) /\ w.pc = x /\ w.saver = NoRow
    BY <1>1, <1>3, <1>9, <2>2, <2>4, Onward DEF Moves
  <2>6. RowIsOurs(w)'
    BY <1>2, <2>5, Zenon DEF RowIsOurs, goal, saving, first
  <2>7. WorkOK(w)'
    <3>1. w.cp = v.cp /\ target(w)' = v.cp /\ w.live = v.live /\ w.st = v.st /\ describes(v.cp)' /\ RowOK(v.cp)'
      BY <1>2, <1>4, <1>6, <2>2, <2>5, Zenon DEF Moves, target, saving, describes
    <3> QED  BY <1>4, <3>1, Zenon DEF WorkOK
  <2>8. StreamOK(e, w)' /\ RecopyOK(w)' /\ goal(w) \in working /\ w.pc # "copy"
        /\ goal(w) \notin {"gate", "create", "release", "recDrop", "recCreate"} \cup swapping
    BY <1>3, <1>7, <2>4, <2>5, Zenon DEF StreamOK, RecopyOK, working, copying, checking, swapping
  <2> QED  BY <1>2, <1>6, <1>7, <2>2, <2>5, <2>6, <2>7, <2>8, WorkStep, Zenon
<1> QED  BY <1>2, <1>8, <1>9, Zenon

\* The slot is made, held or moved on: what changes is where the stream begins.
LEMMA SlotWritten ==
    ASSUME DatabaseOK, UNCHANGED <<names, table, wal, row, ax, used>>,
           slot' \in [exists : BOOLEAN, at : 0 .. Len(wal), lost : BOOLEAN, holder : Engine \cup {None}], ReaperOK'
    PROVE  /\ \A r : RowOK(r) /\ Copied(r)' => RowOK(r)'
           /\ (row # NoRow => Copied(row)') => DatabaseOK'
<1>1. ASSUME NEW r, RowOK(r), Copied(r)' PROVE RowOK(r)'
  BY <1>1, Zenon DEF RowOK, RowFits, Stands, Recorded
<1>2. DatabaseType' /\ NamesOK' /\ FreshOK' /\ TruthOK' /\ LiveTableIsTruth' /\ SwapOK'
  BY SameWal, Zenon DEF DatabaseOK, DatabaseType, NamesOK, FreshOK, LiveTableIsTruth, SwapOK
<1> QED  BY <1>1, <1>2, Zenon DEF DatabaseOK

\* A new slot begins at the end of the log.
LEMMA NewSlot ==
    ASSUME DatabaseOK, slot' = newSlot
    PROVE  /\ slot' \in [exists : BOOLEAN, at : 0 .. Len(wal), lost : BOOLEAN, holder : Engine \cup {None}]
           /\ slot'.exists /\ slot'.at = Len(wal) /\ slot'.holder = None /\ Len(wal) \in Nat
<1>1. Len(wal) \in 0 .. Len(wal) /\ Len(wal) \in Nat
  BY DEF DatabaseOK, DatabaseType
<1> QED  BY <1>1, Zenon DEF newSlot

\* A fresh live start creates its slot before a part is copied.
LEMMA CreateSlotInv == ASSUME Inv, NEW e \in Engine, CreateSlot(e) PROVE Inv'
<1>1. PICK v, n : v = eng[e] /\ n = Len(wal)
  BY Zenon
<1>2. /\ v.pc = "create" /\ ax = NoSwap /\ slot' = newSlot
      /\ UNCHANGED <<names, table, wal, row, lock, slotLock, ax, reaper, used>>
  BY <1>1, Zenon DEF CreateSlot, at
<1>3. goal(v) = "create" /\ ~saving(v) /\ target(v) = v.cp /\ "create" \in making /\ v.saver = NoRow
  BY <1>1, <1>2, GoalIs, NotCopying, Zenon DEF making, copying, checking
<1>4. /\ DatabaseOK /\ EngineType(v) /\ row = NoRow /\ v.cp \in RowType /\ RowOK(v.cp) /\ describes(v.cp)
      /\ v.cp.live = v.live /\ v.cp.st = v.st /\ v.cp.phase = "copying" /\ v.cp.wm = 0 /\ v.live /\ slotLock = e
  <2>1. DatabaseOK /\ RowIsOurs(v) /\ PhaseFits(v) /\ LocksOK(e, v)
    BY <1>1, Here, Zenon
  <2>2. row = NoRow /\ v.cp.phase = "copying" /\ v.cp.wm = 0 /\ v.live /\ slotLock = e
    BY <1>3, <2>1, Zenon DEF RowIsOurs, PhaseFits, LocksOK, making
  <2> QED  BY <1>1, <1>3, <2>1, <2>2, WorkHere, Zenon
<1>5. PICK c : c = [v.cp EXCEPT !.lsn = n]
  BY Zenon
<1>6. n \in Nat /\ slot'.exists /\ slot'.at = n /\ slot'.holder = None
      /\ slot' \in [exists : BOOLEAN, at : 0 .. Len(wal), lost : BOOLEAN, holder : Engine \cup {None}]
  BY <1>1, <1>2, <1>4, NewSlot, Zenon
<1>7. /\ c \in RowType /\ c.phase = "copying" /\ c.live = v.live /\ c.wm = 0 /\ c.lsn = n /\ c.src = v.cp.src
      /\ c.shadow = v.cp.shadow /\ c.st = v.st
  BY <1>4, <1>5, <1>6, Zenon DEF RowType
<1>8. PICK w : w = [v EXCEPT !.pc = "save", !.made = TRUE, !.cp = c, !.to = "copying", !.then = "release"]
  BY Zenon
<1>9. eng' = [eng EXCEPT ![e] = w]
  BY <1>1, <1>5, <1>8, Zenon DEF CreateSlot
<1>10. /\ Whole(w) /\ w.pc = "save" /\ w.live = v.live /\ w.st = v.st /\ w.cp = c /\ w.landed = v.landed
       /\ w.applied = v.applied /\ w.mark = v.mark /\ w.to = "copying" /\ w.then = "release" /\ w.saver = NoRow
  BY <1>3, <1>4, <1>8, Zenon DEF EngineType, Whole, Fields
<1>11. EngineType(w)
  BY <1>4, <1>7, <1>10, Zenon DEF EngineType
<1>12. goal(w) = "release" /\ saving(w) /\ first(w) /\ target(w) = c
  <2>1. PICK q : q = [c EXCEPT !.phase = "copying"]
    BY Zenon
  <2>2. q = c
    BY <1>7, <2>1, Zenon DEF RowType
  <2> QED  BY <1>10, <2>1, <2>2, Zenon DEF goal, saving, first, target
<1>13. RowIsOurs(w)' /\ PhaseFits(w)
  BY <1>2, <1>4, <1>7, <1>10, <1>12, Zenon
     DEF RowIsOurs, PhaseFits, goal, saving, first, working, making, ready, recopying, copying, checking, swapping,
         ending, Phases
<1>14. ReaperOK'
  BY <1>2, <1>4, SameReaper, Zenon
<1>15. DatabaseOK'
  BY <1>2, <1>4, <1>6, <1>14, SlotWritten, Zenon
<1>16. RowOK(c)'
  <2>1. RowFits(c)' /\ Stands(c)' /\ Recorded(c)'
    <3>1. c.lsn <= Len(wal)'
      BY <1>1, <1>2, <1>6, <1>7
    <3> QED  BY <1>2, <1>4, <1>7, <3>1, Zenon DEF RowOK, RowFits, Stands, Recorded
  <2>2. Copied(c)'
    <3>1. \A p \in Part : ~(p <= c.wm)
      BY <1>7, RunnerBounds DEF Part
    <3> QED  BY <3>1, Zenon DEF Copied
  <2> QED  BY <1>7, <2>1, <2>2, Zenon DEF RowOK
<1>17. WorkOK(w)'
  <2>1. target(w)' = c /\ describes(c)' /\ c # NoRow
    <3>1. c # NoRow
      BY <1>7 DEF NoRow
    <3> QED  BY <1>2, <1>4, <1>7, <1>12, <3>1, Zenon DEF target, saving, describes
  <2> QED  BY <1>7, <1>10, <1>16, <2>1, Zenon DEF WorkOK
<1>18. StreamOK(e, w)' /\ RecopyOK(w)'
  BY <1>6, <1>10, RunnerBounds, Zenon DEF StreamOK, RecopyOK
<1>19. eng[e].pc # "idle" /\ slot'.holder = None /\ ax' = NoSwap /\ w.pc # "copy" /\ goal(w) \in working
       /\ goal(w) \notin {"gate"} \cup swapping /\ slotLock' = e
  BY <1>1, <1>2, <1>4, <1>6, <1>10, <1>12, Zenon DEF working, ready, swapping
<1> QED  BY <1>2, <1>9, <1>10, <1>11, <1>13, <1>15, <1>17, <1>18, <1>19, WorkStep, Zenon

\* The new slot has everything from here on, and the shadow's rows are copied again.
LEMMA ReplaceSlotCreateInv == ASSUME Inv, NEW e \in Engine, ReplaceSlotCreate(e) PROVE Inv'
<1>1. PICK v, n : v = eng[e] /\ n = Len(wal)
  BY Zenon
<1>2. /\ v.pc = "recCreate" /\ ax = NoSwap /\ slot' = newSlot
      /\ UNCHANGED <<names, table, wal, row, lock, ax, reaper, used>>
  BY <1>1, Zenon DEF ReplaceSlotCreate, at
<1>3. goal(v) = "recCreate" /\ ~saving(v) /\ target(v) = v.cp /\ goal(v) \in working /\ v.saver = NoRow
  BY <1>1, <1>2, GoalIs, NotCopying, Zenon DEF working, recopying, copying, checking
<1>4. /\ DatabaseOK /\ EngineType(v) /\ row = v.cp /\ v.cp \in RowType /\ RowOK(v.cp) /\ describes(v.cp)
      /\ v.cp # NoRow /\ v.cp.live = v.live /\ v.cp.st = v.st /\ v.cp.phase = "reconciling" /\ v.live /\ slotLock = e
  <2>1. DatabaseOK /\ RowIsOurs(v) /\ PhaseFits(v) /\ LocksOK(e, v)
    BY <1>1, Here, Zenon
  <2>2. row = v.cp /\ v.cp.phase = "reconciling" /\ v.live /\ slotLock = e
    BY <1>3, <2>1, Zenon DEF RowIsOurs, PhaseFits, LocksOK, recopying
  <2> QED  BY <1>1, <1>3, <2>1, <2>2, WorkHere, Zenon
<1>5. n \in Nat /\ slot'.exists /\ slot'.at = n /\ slot'.holder = None
      /\ slot' \in [exists : BOOLEAN, at : 0 .. Len(wal), lost : BOOLEAN, holder : Engine \cup {None}]
  BY <1>1, <1>2, <1>4, NewSlot, Zenon
<1>6. PICK w : w = [v EXCEPT !.pc = "recCopy", !.landed = 0, !.mark = n]
  BY Zenon
<1>7. eng' = [eng EXCEPT ![e] = w]
  BY <1>1, <1>6, Zenon DEF ReplaceSlotCreate
<1>8. /\ Whole(w) /\ w.pc = "recCopy" /\ w.live = v.live /\ w.st = v.st /\ w.cp = v.cp /\ w.landed = 0
      /\ w.applied = v.applied /\ w.mark = n /\ w.saver = NoRow
  BY <1>3, <1>4, <1>6, Zenon DEF EngineType, Whole, Fields
<1>9. EngineType(w)
  BY <1>4, <1>5, <1>8, RunnerBounds DEF EngineType
<1>10. goal(w) = "recCopy" /\ ~saving(w) /\ ~first(w) /\ target(w) = v.cp
  BY <1>8, GoalIs, Zenon
<1>11. RowIsOurs(w)' /\ PhaseFits(w)
  BY <1>2, <1>4, <1>8, <1>10, Zenon
     DEF RowIsOurs, PhaseFits, goal, saving, first, working, making, ready, recopying, copying, checking, swapping,
         ending, starting
<1>12. ReaperOK'
  BY <1>2, <1>4, ReaperWaits, RunnerBounds, Zenon
<1>13. Copied(v.cp)'
  BY <1>2, <1>4, Zenon DEF RowOK, Copied
<1>14. DatabaseOK' /\ RowOK(v.cp)'
  BY <1>2, <1>4, <1>5, <1>12, <1>13, SlotWritten, Zenon
<1>15. WorkOK(w)'
  <2>1. target(w)' = v.cp /\ describes(v.cp)'
    BY <1>2, <1>4, <1>10, Zenon DEF target, saving, describes
  <2> QED  BY <1>4, <1>8, <1>14, <2>1, Zenon DEF WorkOK
<1>16. StreamOK(e, w)' /\ RecopyOK(w)'
  <2>1. v.cp.lsn <= n /\ v.cp.wm \in 0 .. LastPart
    BY <1>1, <1>4, Zenon DEF RowOK, RowFits, RowType
  <2> QED  BY <1>1, <1>2, <1>5, <1>8, <2>1, RunnerBounds DEF StreamOK, RecopyOK, Part
<1>17. eng[e].pc # "idle" /\ slot'.holder = None /\ ax' = NoSwap /\ w.pc # "copy" /\ goal(w) \in working
       /\ goal(w) \notin {"gate", "create", "release", "recDrop", "recCreate"} \cup swapping
  BY <1>1, <1>2, <1>5, <1>8, <1>10, Zenon DEF working, recopying, swapping
<1> QED  BY <1>2, <1>7, <1>8, <1>9, <1>11, <1>14, <1>15, <1>16, <1>17, WorkStep, Zenon

\* The stream opens where the row and the slot agree it must.
LEMMA OpenStreamInv == ASSUME Inv, NEW e \in Engine, OpenStream(e) PROVE Inv'
<1>1. PICK v, n, x : v = eng[e] /\ n = Larger(slot.at, v.cp.lsn) /\ x = IF v.cp.phase = "copying" THEN "clear" ELSE "mark"
  BY Zenon
<1>2. /\ v.pc = "open" /\ slot.exists /\ slot' = [slot EXCEPT !.holder = e]
      /\ UNCHANGED <<names, table, wal, row, lock, slotLock, ax, reaper, used>>
  BY <1>1, Zenon DEF OpenStream, at
<1>3. goal(v) = "open" /\ ~saving(v) /\ target(v) = v.cp /\ goal(v) \in working /\ v.saver = NoRow
  BY <1>1, <1>2, GoalIs, NotCopying, Zenon DEF working, ready, copying, checking
<1>4. /\ DatabaseOK /\ EngineType(v) /\ row = v.cp /\ v.cp \in RowType /\ RowOK(v.cp) /\ describes(v.cp)
      /\ v.cp # NoRow /\ v.cp.live = v.live /\ v.cp.st = v.st /\ v.cp.phase \notin {"reconciling", "done"} /\ v.live
      /\ ax = NoSwap
  <2>1. DatabaseOK /\ EngineType(v) /\ PhaseFits(v) /\ RowIsOurs(v) /\ WorkOK(v) /\ LocksOK(e, v)
    BY <1>1, Here, Zenon
  <2>2. goal(v) \in working \cup making /\ goal(v) \in ready
    BY <1>3, Zenon DEF ready
  <2>3. v.cp \in RowType /\ v.cp # NoRow /\ RowOK(v.cp) /\ v.cp.live = v.live /\ v.cp.st = v.st
    BY <1>3, <2>1, <2>2, AtWork, Zenon
  <2>4. row = v.cp /\ describes(v.cp)
    BY <1>3, <2>1, <2>2, Zenon DEF RowIsOurs, WorkOK
  <2>5. v.cp.phase # "reconciling" /\ v.cp.phase # "done" /\ v.live
    BY <1>3, <2>1, <2>2, Zenon DEF PhaseFits, ready
  <2>6. ax = NoSwap
    BY <1>2, <2>1, Zenon DEF LocksOK
  <2> QED  BY <2>1, <2>3, <2>4, <2>5, <2>6, Zenon
<1>5. slot \in [exists : BOOLEAN, at : 0 .. Len(wal), lost : BOOLEAN, holder : Engine \cup {None}] /\ Len(wal) \in Nat
  BY <1>4 DEF DatabaseOK, DatabaseType
<1>6. /\ slot' \in [exists : BOOLEAN, at : 0 .. Len(wal), lost : BOOLEAN, holder : Engine \cup {None}]
      /\ slot'.exists = slot.exists /\ slot'.at = slot.at /\ slot'.holder = e
  BY <1>2, <1>5, Zenon
<1>7. n \in Nat /\ slot.at <= n /\ v.cp.lsn <= n /\ n <= Len(wal) /\ v.cp.wm \in 0 .. LastPart
  <2>1. slot.at \in 0 .. Len(wal) /\ v.cp.lsn \in Nat /\ v.cp.lsn <= Len(wal) /\ v.cp.wm \in 0 .. LastPart
    BY <1>4, <1>5, Zenon DEF RowOK, RowFits, RowType
  <2> QED  BY <1>1, <1>5, <2>1 DEF Larger
<1>8. PICK w : w = [v EXCEPT !.pc = x, !.applied = n, !.landed = v.cp.wm]
  BY Zenon
<1>9. eng' = [eng EXCEPT ![e] = w]
  BY <1>1, <1>8, Zenon DEF OpenStream, cp
<1>10. /\ Whole(w) /\ w.pc = x /\ w.live = v.live /\ w.st = v.st /\ w.cp = v.cp /\ w.landed = v.cp.wm
       /\ w.applied = n /\ w.mark = v.mark /\ w.saver = NoRow
  BY <1>3, <1>4, <1>8, Zenon DEF EngineType, Whole, Fields
<1>11. EngineType(w)
  BY <1>4, <1>7, <1>10, Zenon DEF EngineType
<1>12. goal(w) = x /\ ~saving(w) /\ ~first(w) /\ target(w) = v.cp /\ x \in {"clear", "mark"}
  BY <1>1, <1>10, GoalIs, Zenon
<1>13. RowIsOurs(w)' /\ PhaseFits(w)
  BY <1>1, <1>2, <1>4, <1>10, <1>12, Zenon
     DEF RowIsOurs, PhaseFits, goal, saving, first, working, making, ready, recopying, copying, checking, swapping,
         ending, starting
<1>14. ReaperOK' /\ Copied(v.cp)'
  BY <1>2, <1>4, <1>6, SameReaper, SameWal, Zenon DEF RowOK, Copied
<1>15. DatabaseOK' /\ RowOK(v.cp)'
  BY <1>2, <1>4, <1>6, <1>14, SlotWritten, Zenon
<1>16. WorkOK(w)'
  <2>1. target(w)' = v.cp /\ describes(v.cp)'
    BY <1>2, <1>4, <1>12, Zenon DEF target, saving, describes
  <2> QED  BY <1>4, <1>10, <1>15, <2>1, Zenon DEF WorkOK
<1>17. StreamOK(e, w)' /\ RecopyOK(w)'
  <2>1. \A p \in Part : p <= v.cp.wm => Owes(table[v.cp.shadow].rows, n, p)'
    BY <1>1, <1>2, <1>4, SameWal, Zenon DEF RowOK, Copied, describes
  <2>2. goal(w)' = x /\ x \in copying \cup checking /\ (x \in checking => v.cp.wm = LastPart)
    BY <1>1, <1>4, <1>12, Zenon DEF goal, saving, copying, checking, RowOK, RowFits
  <2>3. v.cp.wm <= v.cp.wm
    BY <1>7
  <2> QED  BY <1>2, <1>4, <1>6, <1>7, <1>10, <1>12, <2>1, <2>2, <2>3, Zenon DEF StreamOK, RecopyOK
<1>18. eng[e].pc # "idle" /\ slot'.holder = e /\ ax' = NoSwap /\ w.pc # "copy" /\ goal(w) \in working
       /\ goal(w) \notin {"gate", "create", "release", "recDrop", "recCreate"} \cup swapping
  BY <1>1, <1>2, <1>4, <1>6, <1>10, <1>12, Zenon DEF working, copying, checking, swapping
<1> QED  BY <1>2, <1>9, <1>10, <1>11, <1>13, <1>15, <1>16, <1>17, <1>18, WorkStep, Zenon

\* The slot moves on to what was applied: nothing before it is lacking.
LEMMA ConfirmAppliedInv == ASSUME Inv, NEW e \in Engine, ConfirmApplied(e) PROVE Inv'
<1>1. PICK v : v = eng[e]
  OBVIOUS
<1>2. /\ slot.holder = e /\ slot.at < v.applied /\ slot' = [slot EXCEPT !.at = v.applied]
      /\ UNCHANGED <<names, table, wal, row, lock, slotLock, ax, eng, reaper, used>>
  BY <1>1, Zenon DEF ConfirmApplied
<1>3. /\ DatabaseOK /\ EngineOK(e, v) /\ EngineType(v) /\ StreamOK(e, v) /\ PhaseFits(v) /\ WorkOK(v) /\ RowIsOurs(v)
      /\ CopyOK(v) /\ goal(v) \in copying \cup checking /\ goal(v) \in working /\ v.cp.wm <= v.landed
      /\ v.cp.lsn <= v.applied /\ v.applied <= Len(wal) /\ v.live /\ (v.saver # NoRow => v.saver.lsn <= v.applied)
  BY <1>1, <1>2, Here, Zenon DEF Inv, StreamOK, working
<1>4. v.cp \in RowType /\ v.cp # NoRow /\ v.cp.shadow = names.shadow /\ RowOK(target(v))
      /\ target(v).wm = v.cp.wm /\ target(v).lsn = v.cp.lsn
  BY <1>3, AtWork, TargetIs, Zenon DEF PhaseFits
<1>5. slot \in [exists : BOOLEAN, at : 0 .. Len(wal), lost : BOOLEAN, holder : Engine \cup {None}] /\ Len(wal) \in Nat
      /\ v.applied \in Nat /\ v.landed \in 0 .. LastPart
  <2>1. /\ slot \in [exists : BOOLEAN, at : 0 .. Len(wal), lost : BOOLEAN, holder : Engine \cup {None}]
        /\ wal \in Seq(Part) /\ v.applied \in Nat /\ v.landed \in 0 .. LastPart
    BY <1>3, Zenon DEF DatabaseOK, DatabaseType, EngineType
  <2>2. Len(wal) \in Nat
    BY <2>1
  <2> QED  BY <2>1, <2>2, Zenon
<1>6. /\ slot' \in [exists : BOOLEAN, at : 0 .. Len(wal), lost : BOOLEAN, holder : Engine \cup {None}]
      /\ slot'.exists = slot.exists /\ slot'.at = v.applied /\ slot'.holder = e
  BY <1>2, <1>3, <1>5
<1>7. ASSUME NEW r, RowOK(r), r.wm <= v.landed, r.lsn <= v.applied PROVE Copied(r)'
  <2>1. r.lsn \in Nat /\ r.wm \in Int
    <3>1. r.lsn \in 0 .. Len(wal) /\ r.wm \in 0 .. LastPart
      BY <1>3, <1>7, Relations, Zenon
    <3> QED  BY <3>1
  <2>2. Larger(v.applied, r.lsn) = v.applied
    BY <1>5, <1>7, <2>1, Zenon DEF Larger
  <2>3. ASSUME NEW p \in Part, p <= r.wm PROVE p <= v.landed
    BY <1>5, <1>7, <2>1, <2>3 DEF Part
  <2>4. \A p \in Part : p <= v.landed => Owes(table[names.shadow].rows, v.applied, p)
    BY <1>2, <1>3, <1>4, Zenon DEF StreamOK
  <2> QED  BY <1>2, <1>6, <1>7, <2>2, <2>3, <2>4, SameWal, Zenon DEF RowOK, Copied
<1>8. ReaperOK'
  BY <1>2, <1>3, SameReaper, Zenon
<1>9. \A r : RowOK(r) /\ r.wm <= v.landed /\ r.lsn <= v.applied => RowOK(r)'
  BY <1>2, <1>3, <1>6, <1>7, <1>8, SlotWritten, ZenonT(30)
<1>10. row # NoRow => row.wm <= v.landed /\ row.lsn <= v.applied
  <2>1. SUFFICES ASSUME row # NoRow PROVE row.wm <= v.landed /\ row.lsn <= v.applied
    BY Zenon
  <2>2. row.wm \in Int /\ row.lsn \in Nat /\ v.cp.wm \in Int /\ v.cp.lsn \in Nat
    BY <1>3, <1>4, <2>1, Relations DEF DatabaseOK, RowType
  <2>3. row.wm <= v.cp.wm /\ row.lsn <= v.cp.lsn
    <3>1. CASE saving(v)
      BY <1>3, <2>1, <3>1, Zenon DEF RowIsOurs
    <3>2. CASE ~saving(v)
      BY <1>3, <2>2, <3>2 DEF RowIsOurs
    <3> QED  BY <3>1, <3>2, Zenon
  <2> QED  BY <1>3, <1>5, <2>2, <2>3
<1>11. DatabaseOK'
  BY <1>2, <1>3, <1>6, <1>7, <1>8, <1>10, SlotWritten, Zenon DEF DatabaseOK
<1>12. (goal(v)' = goal(v)) /\ (saving(v)' <=> saving(v)) /\ (first(v)' <=> first(v)) /\ target(v)' = target(v)
  BY Zenon DEF goal, saving, first, target
<1>13. EngineType(v)' /\ RowIsOurs(v)' /\ PhaseFits(v)' /\ WorkOK(v)'
  <2>1. EngineType(v)' /\ RowIsOurs(v)' /\ PhaseFits(v)'
    BY <1>2, <1>3, <1>12, Zenon DEF EngineType, Whole, RowIsOurs, PhaseFits
  <2>2. RowOK(target(v))'
    BY <1>3, <1>4, <1>9, <1>12, Zenon
  <2> QED  BY <1>2, <1>3, <1>12, <2>1, <2>2, Zenon DEF WorkOK, describes
<1>14. StreamOK(e, v)' /\ CopyOK(v)' /\ RecopyOK(v)'
  <2>1. StreamOK(e, v)'
    BY <1>2, <1>3, <1>5, <1>6, <1>12, SameWal DEF StreamOK
  <2>2. CopyOK(v)'
    <3>1. v.saver # NoRow => RowOK(v.saver)'
      BY <1>3, <1>9, Zenon DEF CopyOK
    <3> QED  BY <1>2, <1>3, <3>1, Zenon DEF CopyOK
  <2>3. RecopyOK(v)'
    BY <1>3, Zenon DEF RecopyOK, goal, saving, copying, checking
  <2> QED  BY <2>1, <2>2, <2>3, Zenon
<1>15. QuietOK(v)' /\ EndOK(v)' /\ LocksOK(e, v)'
  BY <1>2, <1>3, <1>6, <1>12, SameWal, Zenon DEF EngineOK, QuietOK, EndOK, LocksOK
<1>16. EngineOK(e, v)'
  BY <1>13, <1>14, <1>15, Zenon DEF EngineOK
<1>17. eng' = [eng EXCEPT ![e] = v]
  BY <1>1, <1>2, Zenon DEF Inv
<1>18. eng[e].pc # "idle" /\ slot'.holder \in {slot.holder, None, e}
  BY <1>1, <1>3, <1>6, Zenon DEF goal, saving, copying, checking
<1> QED  BY <1>11, <1>16, <1>17, <1>18, EngineStep, Zenon
=============================================================================
