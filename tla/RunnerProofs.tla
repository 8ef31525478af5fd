---------------------------- MODULE RunnerProofs ----------------------------
(***************************************************************************)
(* A schema change loses no write, from its first row to its swap, for any *)
(* number of parts, statements, writes and mishaps: as long as one engine  *)
(* at a time works on the table and nobody writes past its fence.          *)
(***************************************************************************)
EXTENDS RunnerStepProofs, RunnerFillProofs

-----------------------------------------------------------------------------
(* The swap, and the clients. *)

\* What the swap leaves under its lock is what clients wrote.
LEMMA SwapLockInv == ASSUME Inv, NEW e \in Engine, SwapLock(e) PROVE Inv'
<1>1. PICK v, R : v = eng[e] /\ R = drained(e)
  BY Zenon
<1>2. /\ v.pc = "lock" /\ ax = NoSwap /\ swapReady(e) /\ moveTo(e, "committing")
      /\ ax' = [src |-> v.cp.src, shadow |-> v.cp.shadow, rows |-> R, unseen |-> {}]
      /\ UNCHANGED <<names, table, wal, slot, row, lock, slotLock, reaper, used>>
  <2>1. v.unseen = {}
    BY <1>1, Here, Zenon DEF EngineType, Whole
  <2> QED  BY <1>1, <2>1, Zenon DEF SwapLock, at, cp
<1>3. goal(v) = "lock" /\ ~saving(v) /\ target(v) = v.cp /\ goal(v) \in working /\ v.saver = NoRow /\ slot.holder # e
  BY <1>1, <1>2, GoalIs, NotCopying, Zenon DEF working, swapping, copying, checking
<1>4. DatabaseOK /\ RowIsOurs(v) /\ PhaseFits(v) /\ QuietOK(v) /\ LocksOK(e, v)
  BY <1>1, Here, Zenon
<1>5. /\ v.cp \in RowType /\ v.cp # NoRow /\ RowOK(v.cp) /\ v.cp.shadow = names.shadow /\ v.cp.src = names.source
      /\ names.shadow \in OID /\ names.shadow # 0 /\ v.cp.live = v.live /\ v.cp.st = v.st
  BY <1>1, <1>3, WorkHere, Zenon
<1>6. row = v.cp /\ v.cp.phase = "cutover" /\ names.old = 0 /\ v.cp.wm = LastPart
  <2>1. row = v.cp /\ v.cp.phase = "cutover"
    BY <1>3, <1>4, Zenon DEF RowIsOurs, PhaseFits, swapping
  <2> QED  BY <1>2, <1>5, <2>1, Zenon DEF swapReady, gateOpen, RowOK, RowFits
<1>7. wal \in Seq(Part) /\ TruthOK /\ slot.at \in Nat /\ table[names.shadow].rows \in [Part -> Int]
  BY <1>4, <1>5, Relations DEF DatabaseOK, DatabaseType
<1>8. truth \in [Part -> Int]
  BY <1>4, Relations, Zenon DEF DatabaseOK, LiveTableIsTruth
<1>9. R = truth
  <2>1. CASE v.live
    <3>1. slot.exists
      BY <1>1, <1>2, <2>1, Zenon DEF swapReady, drainable
    <3>2. PICK n : n = Larger(slot.at, v.cp.lsn)
      BY Zenon
    <3>3. n \in Nat
      BY <1>5, <1>7, <3>2, Zenon DEF Larger, RowType
    <3>4. \A p \in Part : p <= LastPart
      BY RunnerBounds DEF Part
    <3>5. \A p \in Part : Owes(table[names.shadow].rows, n, p)
      BY <1>5, <1>6, <2>1, <3>1, <3>2, <3>4, Zenon DEF RowOK, Copied
    <3>6. Replay(table[names.shadow].rows, n) = truth
      BY <1>7, <3>3, <3>5, ReplayIsTruth, Zenon
    <3> QED  BY <1>1, <1>5, <2>1, <3>2, <3>6, Zenon DEF drained, shadowRows, cp
  <2>2. CASE ~v.live
    <3>1. table[names.source].fence
      BY <1>1, <1>2, <2>2, Zenon DEF swapReady
    <3> QED  BY <1>1, <1>3, <1>4, <2>2, <3>1, Zenon DEF QuietOK, swapping, drained, shadowRows, cp
  <2> QED  BY <2>1, <2>2, Zenon
<1>10. ax' \in SwapType /\ ax'.src = names.source /\ ax'.shadow = names.shadow /\ ax'.rows = truth
  <2>1. v.cp.src \in Nat /\ v.cp.shadow \in Nat
    BY <1>5, Zenon DEF RowType
  <2> QED  BY <1>2, <1>5, <1>8, <1>9, <2>1, Zenon DEF SwapType
<1>11. DatabaseOK'
  <2>1. DatabaseType' /\ NamesOK' /\ FreshOK' /\ TruthOK' /\ LiveTableIsTruth' /\ ReaperOK'
    BY <1>2, <1>4, <1>10, SameWal, SameReaper, Zenon
       DEF DatabaseOK, DatabaseType, NamesOK, FreshOK, LiveTableIsTruth
  <2>2. SwapOK'
    BY <1>2, <1>5, <1>6, <1>10, SameWal, Zenon DEF SwapOK
  <2>3. LessSlot
    BY <1>2, SlotQuiet, Zenon
  <2>4. RowOK(row)'
    BY <1>2, <1>4, <1>5, <1>6, <2>3, RowStays, Zenon
  <2> QED  BY <2>1, <2>2, <2>4, Zenon DEF DatabaseOK
<1>12. PICK w : eng' = [eng EXCEPT ![e] = w] /\ Moves(v, w, "committing") /\ EngineType(w)
  BY <1>1, <1>2, Moved, Zenon
<1>13. /\ RowIsOurs(w) /\ PhaseFits(w) /\ goal(w) = "committing" /\ ~saving(w) /\ w.pc = "committing"
       /\ w.cp = v.cp /\ w.live = v.live /\ w.st = v.st /\ w.saver = NoRow
  BY <1>1, <1>2, <1>3, <1>12, Onward DEF onward, Moves
<1>14. goal(w)' = "committing" /\ ~saving(w)' /\ ~first(w)'
  BY <1>13, Zenon DEF goal, saving, first
<1>15. EngineType(w)' /\ RowIsOurs(w)' /\ PhaseFits(w)' /\ WorkOK(w)'
  <2>1. RowIsOurs(w)' /\ PhaseFits(w)'
    BY <1>2, <1>13, Zenon DEF RowIsOurs, PhaseFits, goal, saving, first, target
  <2> QED  BY <1>12, <1>14, <2>1, Zenon
     DEF EngineType, Whole, WorkOK, working, making, ready, recopying, copying, checking, swapping
<1>16. StreamOK(e, w)' /\ CopyOK(w)' /\ RecopyOK(w)' /\ QuietOK(w)' /\ EndOK(w)' /\ LocksOK(e, w)'
  BY <1>2, <1>3, <1>4, <1>5, <1>13, <1>14, Zenon DEF StreamOK, CopyOK, RecopyOK, QuietOK, EndOK, LocksOK, swapping, ending
<1>17. EngineOK(e, w)'
  BY <1>15, <1>16, Zenon DEF EngineOK
<1> QED  BY <1>1, <1>2, <1>11, <1>12, <1>17, EngineStep, Zenon

\* The swap commits: the shadow is the source, as the row says it may be.
LEMMA ServerCommitInv == ASSUME Inv, ServerCommit PROVE Inv'
<1>1. /\ ax # NoSwap /\ names' = [source |-> ax.shadow, shadow |-> 0, old |-> ax.src]
      /\ table' = [table EXCEPT ![ax.shadow].rows = ax.rows] /\ ax' = NoSwap
      /\ used' = [used EXCEPT !.lost = @ \cup ax.unseen]
      /\ UNCHANGED <<wal, slot, row, lock, slotLock, eng, reaper>> /\ DatabaseOK
  BY Zenon DEF ServerCommit, Inv
<1>2. /\ ax.rows = truth /\ ax.src = names.source /\ ax.shadow = names.shadow /\ names.shadow # 0
      /\ row # NoRow /\ row.phase = "cutover" /\ row.shadow = names.shadow /\ RowOK(row)
  BY <1>1, Zenon DEF DatabaseOK, SwapOK
<1>0. used' = used
  <2>1. used \in [oid : OID, mishap : Nat, loss : Nat, lost : {{}}] /\ ax \in SwapType
    BY <1>1, Zenon DEF DatabaseOK, DatabaseType
  <2>2. ax.unseen = {} /\ used.lost = {}
    BY <2>1, Zenon DEF SwapType
  <2>3. used' = [used EXCEPT !.lost = {}]
    BY <1>1, <2>2, Zenon
  <2> QED  BY <2>1, <2>2, <2>3, Zenon
<1>3. /\ names.shadow \in OID /\ names.source \in OID /\ names.source # names.shadow /\ names.source # 0
      /\ used.oid \in Nat /\ names.source \in 0 .. used.oid /\ names.shadow \in 0 .. used.oid
      /\ table \in [OID -> [rows : [Part -> Int], shape : Statement \cup {BaseShape}, fence : BOOLEAN]]
  <2>1. names \in [source : 0 .. used.oid, shadow : 0 .. used.oid, old : 0 .. used.oid]
        /\ table \in [OID -> [rows : [Part -> Int], shape : Statement \cup {BaseShape}, fence : BOOLEAN]]
        /\ used.oid \in OID /\ NamesOK
    BY <1>1, Zenon DEF DatabaseOK, DatabaseType
  <2> QED  BY <1>1, <1>2, <2>1, Relations DEF NamesOK, OID
<1>4. /\ names'.source = names.shadow /\ names'.shadow = 0 /\ names'.old = names.source
      /\ names' \in [source : 0 .. used.oid, shadow : 0 .. used.oid, old : 0 .. used.oid]
  BY <1>1, <1>2, <1>3
<1>5. truth \in [Part -> Int]
  BY <1>1, Relations, Zenon DEF DatabaseOK, LiveTableIsTruth
<1>6. /\ table' \in [OID -> [rows : [Part -> Int], shape : Statement \cup {BaseShape}, fence : BOOLEAN]]
      /\ table'[names.shadow].rows = truth
      /\ \A o \in OID : table'[o].shape = table[o].shape /\ (table'[o].fence <=> table[o].fence)
  BY <1>1, <1>2, <1>3, <1>5, Zenon
<1>7. RowOK(row)'
  <2>1. RowFits(row)' /\ Recorded(row)'
    BY <1>0, <1>1, <1>2, <1>4, Zenon DEF RowOK, RowFits, Recorded
  <2>2. Stands(row)' /\ Copied(row)'
    BY <1>1, <1>2, <1>3, <1>4, <1>6, Zenon DEF RowOK, Stands, Copied
  <2> QED  BY <1>1, <1>2, <2>1, <2>2, Zenon DEF RowOK
<1>8. DatabaseOK'
  <2>1. DatabaseType'
    BY <1>0, <1>1, <1>4, <1>6, Zenon DEF DatabaseOK, DatabaseType
  <2>2. NamesOK' /\ FreshOK'
    BY <1>0, <1>1, <1>2, <1>3, <1>4, <1>6, Zenon DEF DatabaseOK, NamesOK, FreshOK
  <2>3. TruthOK' /\ LiveTableIsTruth' /\ SwapOK' /\ ReaperOK'
    BY <1>1, <1>4, <1>6, SameWal, SameReaper, Zenon DEF DatabaseOK, LiveTableIsTruth, SwapOK
  <2> QED  BY <1>7, <2>1, <2>2, <2>3, Zenon DEF DatabaseOK
<1>9. ASSUME NEW f \in Engine PROVE EngineOK(f, eng[f])'
  <2>1. PICK v : v = eng[f]
    BY Zenon
  <2>2. EngineOK(f, v) /\ v.pc \in {"idle", "dispatch", "committing"}
    BY <1>1, <1>9, <2>1 DEF Inv, EngineOK, LocksOK
  <2>3. goal(v) = v.pc /\ ~saving(v) /\ ~first(v) /\ (goal(v)' = v.pc) /\ ~saving(v)' /\ ~first(v)' /\ target(v)' = target(v)
    BY <2>2, Zenon DEF goal, saving, first, target
  <2>4. EngineType(v)' /\ RowIsOurs(v)' /\ PhaseFits(v)'
    BY <1>1, <2>2, <2>3, Zenon DEF EngineOK, EngineType, Whole, RowIsOurs, PhaseFits
  <2>5. WorkOK(v)' /\ StreamOK(f, v)' /\ CopyOK(v)' /\ RecopyOK(v)'
    BY <1>1, <2>2, <2>3, Zenon DEF EngineOK, WorkOK, StreamOK, CopyOK, RecopyOK, working, making, ready, recopying, copying, checking,
       swapping
  <2>6. QuietOK(v)' /\ EndOK(v)' /\ LocksOK(f, v)'
    BY <1>1, <2>2, <2>3, Zenon DEF EngineOK, QuietOK, EndOK, LocksOK, swapping, ending
  <2>7. EngineOK(f, v)'
    BY <2>4, <2>5, <2>6, Zenon DEF EngineOK
  <2> QED  BY <1>1, <2>1, <2>7, Zenon
<1> QED  BY <1>1, <1>8, <1>9, Zenon DEF Inv, OneWorks

\* A client's write is owed to every shadow, and to nothing else.
LEMMA ClientWriteInv == ASSUME Inv, NEW p \in Part, ClientWrite(p) PROVE Inv'
<1>1. PICK s, n : s = names.source /\ n = Len(wal)
  BY Zenon
<1>2. /\ ~table[s].fence /\ ax = NoSwap /\ wal' = Append(wal, p)
      /\ table' = [table EXCEPT ![s].rows[p] = n + 1]
      /\ UNCHANGED <<names, slot, row, lock, slotLock, ax, eng, reaper, used>> /\ DatabaseOK
  BY <1>1, Zenon DEF ClientWrite, Inv
<1>3. /\ wal \in Seq(Part) /\ TruthOK /\ n \in Nat /\ s \in OID /\ NamesOK
      /\ slot \in [exists : BOOLEAN, at : 0 .. n, lost : BOOLEAN, holder : Engine \cup {None}]
      /\ table \in [OID -> [rows : [Part -> Int], shape : Statement \cup {BaseShape}, fence : BOOLEAN]]
      /\ table[s].rows = truth
  BY <1>1, <1>2, Relations DEF DatabaseOK, DatabaseType, LiveTableIsTruth
<1>4. /\ wal' \in Seq(Part) /\ Len(wal') = n + 1 /\ TruthOK' /\ truth' = [truth EXCEPT ![p] = n + 1]
      /\ \A rows, from : \A q \in Part : from \in 0 .. n /\ Owes(rows, from, q) => Owes(rows, from, q)'
  BY <1>1, <1>2, <1>3, Written, Zenon
<1>5. /\ table' \in [OID -> [rows : [Part -> Int], shape : Statement \cup {BaseShape}, fence : BOOLEAN]]
      /\ table'[s].rows = [table[s].rows EXCEPT ![p] = n + 1]
      /\ \A o \in OID : /\ table'[o].shape = table[o].shape /\ (table'[o].fence <=> table[o].fence)
                        /\ o # s => table'[o].rows = table[o].rows
  <2>1. PICK t, rows : t = table[s] /\ rows = [t.rows EXCEPT ![p] = n + 1]
    BY Zenon
  <2>2. t \in [rows : [Part -> Int], shape : Statement \cup {BaseShape}, fence : BOOLEAN] /\ rows \in [Part -> Int]
    BY <1>3, <2>1
  <2>3. table' = [table EXCEPT ![s] = [t EXCEPT !.rows = rows]]
    BY <1>2, <1>3, <2>1, Zenon
  <2>4. /\ [t EXCEPT !.rows = rows] \in [rows : [Part -> Int], shape : Statement \cup {BaseShape}, fence : BOOLEAN]
        /\ [t EXCEPT !.rows = rows].rows = rows /\ [t EXCEPT !.rows = rows].shape = t.shape
        /\ [t EXCEPT !.rows = rows].fence = t.fence
    BY <2>2, Zenon
  <2> QED  BY <1>3, <2>1, <2>3, <2>4, Zenon
<1>6. ASSUME NEW r, RowOK(r) PROVE RowOK(r)'
  <2>1. r.shadow \in OID /\ r.lsn \in 0 .. n /\ slot.at \in 0 .. n
    BY <1>1, <1>2, <1>3, <1>6, Relations, Zenon
  <2>2. RowFits(r)' /\ Recorded(r)'
    BY <1>2, <1>3, <1>4, <1>6, <2>1 DEF RowOK, RowFits, Recorded
  <2>3. Stands(r)'
    BY <1>2, <1>5, <1>6, <2>1, Zenon DEF RowOK, Stands
  <2>4. Larger(slot.at, r.lsn) \in 0 .. n
    BY <1>3, <2>1, Zenon DEF Larger
  <2>5. Copied(r)'
    <3>1. SUFFICES ASSUME names.shadow = r.shadow, NEW q \in Part, q <= r.wm
                   PROVE  /\ table'[r.shadow].rows[q] # Absent
                          /\ r.live /\ r.phase # "reconciling" /\ slot.exists
                                => Owes(table[r.shadow].rows, Larger(slot.at, r.lsn), q)'
      BY <1>2, Zenon DEF Copied
    <3>2. table'[r.shadow].rows = table[r.shadow].rows
      BY <1>1, <1>3, <1>5, <2>1, <3>1, Zenon DEF NamesOK
    <3>3. /\ table[r.shadow].rows[q] # Absent
          /\ r.live /\ r.phase # "reconciling" /\ slot.exists
                => Owes(table[r.shadow].rows, Larger(slot.at, r.lsn), q)
      BY <1>6, <3>1, Zenon DEF RowOK, Copied
    <3> QED  BY <1>2, <1>4, <2>4, <3>1, <3>2, <3>3, Zenon
  <2> QED  BY <1>6, <2>2, <2>3, <2>5, Zenon DEF RowOK
<1>7. DatabaseOK'
  <2>1. slot' \in [exists : BOOLEAN, at : 0 .. Len(wal'), lost : BOOLEAN, holder : Engine \cup {None}]
    BY <1>2, <1>3, <1>4
  <2>2. DatabaseType'
    BY <1>2, <1>4, <1>5, <2>1, Zenon DEF DatabaseOK, DatabaseType
  <2>3. NamesOK' /\ FreshOK' /\ SwapOK' /\ ReaperOK'
    BY <1>2, <1>5, SameReaper, Zenon DEF DatabaseOK, NamesOK, FreshOK, SwapOK
  <2>4. LiveTableIsTruth'
    BY <1>1, <1>2, <1>3, <1>4, <1>5, Zenon DEF LiveTableIsTruth
  <2>5. row' # NoRow => RowOK(row)'
    BY <1>2, <1>6, Zenon DEF DatabaseOK
  <2> QED  BY <1>4, <2>2, <2>3, <2>4, <2>5, Zenon DEF DatabaseOK
<1>8. ASSUME NEW f \in Engine PROVE EngineOK(f, eng[f])'
  <2>1. PICK v : v = eng[f]
    BY Zenon
  <2>2. /\ EngineType(v) /\ RowIsOurs(v) /\ PhaseFits(v) /\ WorkOK(v) /\ StreamOK(f, v) /\ CopyOK(v) /\ RecopyOK(v)
        /\ QuietOK(v) /\ EndOK(v) /\ LocksOK(f, v)
    BY <1>8, <2>1, Here, Zenon
  <2>3. (goal(v)' = goal(v)) /\ (saving(v)' <=> saving(v)) /\ (first(v)' <=> first(v)) /\ target(v)' = target(v)
    BY Zenon DEF goal, saving, first, target
  <2>4. EngineType(v)' /\ RowIsOurs(v)' /\ PhaseFits(v)'
    BY <1>2, <2>2, <2>3, Zenon DEF EngineType, Whole, RowIsOurs, PhaseFits
  <2>5. WorkOK(v)'
    BY <1>2, <1>6, <2>2, <2>3, Zenon DEF WorkOK, describes
  <2>6. ASSUME goal(v) \in working PROVE table'[v.cp.shadow].rows = table[v.cp.shadow].rows
    BY <1>1, <1>2, <1>5, <2>2, <2>6, AtWork
  <2>7. StreamOK(f, v)'
    <3>1. SUFFICES ASSUME slot.holder = f PROVE StreamOK(f, v)'
      BY <1>2, Zenon DEF StreamOK
    <3>2. v.applied \in 0 .. n /\ goal(v) \in working /\ v.applied <= n + 1
      BY <1>1, <1>3, <2>2, <3>1 DEF StreamOK, working, EngineType
    <3> QED  BY <1>2, <1>4, <2>2, <2>3, <2>6, <3>1, <3>2, Zenon DEF StreamOK
  <2>8. CopyOK(v)'
    <3>1. v.pc = "copy" => goal(v) \in working
      BY Zenon DEF goal, saving, working, copying
    <3> QED  BY <1>2, <1>6, <2>2, <2>6, <3>1, Zenon DEF CopyOK
  <2>9. RecopyOK(v)'
    <3>1. SUFFICES ASSUME v.pc = "recCopy" PROVE RecopyOK(v)'
      BY Zenon DEF RecopyOK
    <3>2. v.mark \in 0 .. n /\ goal(v) \in working /\ v.mark <= n + 1
      BY <1>1, <1>3, <2>2, <3>1 DEF RecopyOK, EngineType, goal, saving, working, recopying
    <3> QED  BY <1>2, <1>4, <2>2, <2>6, <3>2, Zenon DEF RecopyOK
  <2>10. QuietOK(v)'
    BY <1>1, <1>2, <1>3, <1>5, Zenon DEF QuietOK
  <2>11. EndOK(v)'
    <3>1. names.old # 0 => names.old \in OID
      BY <1>2, Relations, Zenon
    <3> QED  BY <1>2, <1>5, <2>2, <2>3, <3>1, Zenon DEF EndOK
  <2>12. LocksOK(f, v)'
    BY <1>2, <2>2, <2>3, Zenon DEF LocksOK
  <2>13. EngineOK(f, v)'
    BY <2>4, <2>5, <2>7, <2>8, <2>9, <2>10, <2>11, <2>12 DEF EngineOK
  <2> QED  BY <1>2, <2>1, <2>13, Zenon
<1> QED  BY <1>2, <1>7, <1>8, Zenon DEF Inv, OneWorks

-----------------------------------------------------------------------------
(* The invariant holds. *)

\* A table nobody changes yet.
LEMMA InitInv == Init => Inv
<1> SUFFICES ASSUME Init PROVE Inv
  BY Zenon
<1>1. /\ wal = <<>> /\ names = [source |-> 1, shadow |-> 0, old |-> 0]
      /\ table = [o \in OID |-> IF o = 1 THEN [NoTable EXCEPT !.rows = truth] ELSE NoTable]
      /\ slot = NoSlot /\ row = NoRow /\ lock = None /\ slotLock = None /\ ax = NoSwap
      /\ eng = [e \in Engine |-> Idle] /\ reaper = "idle" /\ used = [oid |-> 1, mishap |-> 0, loss |-> 0, lost |-> {}]
  BY Zenon DEF Init
<1>2. wal \in Seq(Part) /\ Len(wal) = 0
  BY <1>1
<1>3. truth \in [Part -> Int] /\ \A p \in Part : truth[p] = 0
  <2>1. ASSUME NEW p \in Part PROVE truth[p] = 0
    <3>1. PICK log \in Seq(Part) : log = wal
      BY <1>2, Zenon
    <3>2. 0 \in Nat /\ \A i \in 1 .. Len(log) : log[i] = p => i <= 0
      BY <1>2, <3>1
    <3>3. last(log, p, 0, 0) = 0
      BY <3>2, NoLastWrite, Zenon
    <3> QED  BY <3>1, <3>3, TruthIsLast, Zenon
  <2> QED  BY <2>1 DEF truth
<1>4. 1 \in OID
  BY RunnerBounds DEF OID
<1>5. /\ table \in [OID -> [rows : [Part -> Int], shape : Statement \cup {BaseShape}, fence : BOOLEAN]]
      /\ table[1].rows = truth /\ \A o \in OID : ~table[o].fence
  <2>1. EmptyRows \in [Part -> Int]
    BY DEF EmptyRows, Absent
  <2>2. NoTable \in [rows : [Part -> Int], shape : Statement \cup {BaseShape}, fence : BOOLEAN] /\ ~NoTable.fence
    BY <2>1, Zenon DEF NoTable
  <2>3. PICK t : t = [NoTable EXCEPT !.rows = truth]
    BY Zenon
  <2>4. /\ t \in [rows : [Part -> Int], shape : Statement \cup {BaseShape}, fence : BOOLEAN] /\ ~t.fence
        /\ t.rows = truth
    BY <1>3, <2>2, <2>3, Zenon DEF NoTable
  <2> QED  BY <1>1, <1>4, <2>2, <2>3, <2>4, Zenon
<1>6. slot.holder = None /\ slot \in [exists : BOOLEAN, at : 0 .. Len(wal), lost : BOOLEAN, holder : Engine \cup {None}]
  BY <1>1, <1>2 DEF NoSlot
<1>7. DatabaseType
  <2>1. used \in [oid : OID, mishap : Nat, loss : Nat, lost : {{}}] /\ used.oid = 1
    BY <1>1, <1>4, Zenon
  <2>2. names \in [source : 0 .. used.oid, shadow : 0 .. used.oid, old : 0 .. used.oid]
    BY <1>1, <2>1
  <2> QED  BY <1>1, <1>2, <1>5, <1>6, <2>1, <2>2, Zenon DEF DatabaseType
<1>8. NamesOK /\ FreshOK /\ LiveTableIsTruth /\ SwapOK /\ ReaperOK
  BY <1>1, <1>5 DEF NamesOK, FreshOK, LiveTableIsTruth, SwapOK, ReaperOK
<1>9. TruthOK
  BY <1>2, <1>3 DEF TruthOK
<1>10. ASSUME NEW e \in Engine PROVE EngineOK(e, eng[e])
  <2>1. slot.holder # e
    BY <1>6, RunnerBounds, Zenon
  <2> QED  BY <1>1, <2>1, IdleOK, Zenon
<1>11. OneWorks /\ eng = [e \in Engine |-> eng[e]]
  BY <1>1, Zenon DEF OneWorks, Idle
<1> QED  BY <1>1, <1>7, <1>8, <1>9, <1>10, <1>11 DEF Inv, DatabaseOK

\* The steps that take up a row or discard it.
LEMMA DispatchInv == ASSUME Inv, NEW e \in Engine, Dispatch(e) \/ Discard(e) PROVE Inv'
BY DispatchNoRowInv, ReplaceDoneRowInv, RestartInv, ResumeSwappedInv, ResumeInv, DropShadowInv, DropSlotInv,
   DropWriteFenceInv, SkipSlotInv, DeleteRowInv, Zenon
   DEF Dispatch, Discard

\* The steps of a fresh start, and of a resume.
LEMMA FreshInv == ASSUME Inv, NEW e \in Engine, Fresh(e) \/ Reconcile(e) PROVE Inv'
BY BuildShadowInv, InstallWriteFenceInv, LockSlotNameInv, CreateSlotInv, SlotExistsInv, UnlockSlotNameInv,
   InspectResumeInv, ReconcileClearInv, ReplaceSlotDropInv, ReplaceSlotCreateInv, ReconcileCopyInv, ReconcileDoneInv
   DEF Fresh, Reconcile

\* The steps that fill and check the shadow.
LEMMA FillInv == ASSUME Inv, NEW e \in Engine, Fill(e) \/ Saver(e) PROVE Inv'
BY OpenStreamInv, ApplyNextInv, ConfirmAppliedInv, ClearAboveInv, CopyChunkInv, CopyDoneInv, MarkWALInv, CaughtUpInv,
   VerifyInv, SaverReadInv, SaverCommitInv, Zenon
   DEF Fill, Saver

\* The cutover, what follows it, and what fails.
LEMMA EndInv == ASSUME Inv, NEW e \in Engine, Cutover(e) \/ Settle(e) \/ Fails(e) PROVE Inv'
BY GateCutoverInv, SwapBeginInv, SwapLockInv, SwapDoneInv, NoSlotToDropInv, SettleOldTableInv, FinishInv, CrashInv,
   FreshFailsInv, DataFaultInv, LockTimeoutInv
   DEF Cutover, Settle, Fails

\* One engine at a time works on the table: no lock session is lost unseen, or
\* there is one engine.
OneAtATime == MaxLosses = 0 \/ \A e, f \in Engine : e = f

\* Nobody disables the fence, writes, and puts it back.
FenceKept == \A p \in Part : ~WritePastFence(p)

\* Every step keeps the invariant.
LEMMA StepInv == ASSUME OneAtATime, Inv, [Next]_vars, [FenceKept]_vars PROVE Inv'
<1>1. CASE Environment /\ FenceKept
  BY <1>1, ClientWriteInv, LoseSlotInv, DisableFenceInv, LoseLockInv, Zenon DEF Environment, FenceKept
<1>2. CASE ServerCommit \/ ServerAbort \/ Reap
  BY <1>2, ServerCommitInv, ServerAbortInv, ReapInv, Zenon
<1>3. ASSUME NEW e \in Engine, NEW k \in Kinds, NEW st \in Statement, NEW r \in Restarts, Run(e, k = "live", st, r)
      PROVE  Inv'
  <2>1. PICK live \in BOOLEAN : live = (k = "live")
    BY Zenon
  <2>2. Run(e, live, st, r)
    BY <1>3, <2>1, Zenon
  <2> QED  BY <2>2, RunInv, Zenon DEF OneAtATime
<1>4. ASSUME NEW e \in Engine, Work(e) PROVE Inv'
  BY <1>4, DispatchInv, SaveConfirmInv, SaveCommitInv, FreshInv, FillInv, EndInv, RefuseInv, Zenon DEF Work
<1>5. ASSUME NEW e \in Engine, Saver(e) \/ Fails(e) PROVE Inv'
  BY <1>5, FillInv, EndInv, Zenon
<1>6. CASE UNCHANGED vars
  <2>1. UNCHANGED <<names, table, wal, slot, row, lock, slotLock, ax, eng, reaper, used>>
    BY <1>6, Zenon DEF vars
  <2>2. LessSlot
    BY <2>1, SlotQuiet, Zenon
  <2>3. Quieter
    BY <2>1, <2>2, Zenon DEF Quieter, SameTables, Inv, DatabaseOK, DatabaseType
  <2>4. ASSUME NEW e \in Engine PROVE LocksOK(e, eng[e])'
    BY <2>1, <2>4, Here, Zenon DEF LocksOK, goal, saving
  <2> QED  BY <2>1, <2>3, <2>4, QuietWorld, SameReaper, Zenon DEF Inv
<1> QED  BY <1>1, <1>2, <1>3, <1>4, <1>5, <1>6, Zenon DEF Next

-----------------------------------------------------------------------------
(* What it says of a schema change. *)

\* The relation that bears the source's name holds every write a client
\* committed, through every crash, restart, reconcile and swap (CO-1): whatever
\* the swap renames is what the lock, the drain or the fence made equal to it.
THEOREM NoWriteIsLost == ASSUME OneAtATime PROVE Spec /\ [][FenceKept]_vars => []LiveTableHoldsEveryWrite
<1>1. Inv => LiveTableHoldsEveryWrite
  BY Zenon DEF Inv, DatabaseOK, LiveTableIsTruth, LiveTableHoldsEveryWrite
<1> QED  BY <1>1, InitInv, StepInv, PTL DEF Spec

\* A live run's verification pass finds nothing (CO-4, ST-4): the stream its
\* engine holds completes the shadow from the slot's position on, whichever
\* copies, resumes and reconciles filled it.
THEOREM LiveShadowIsComplete == ASSUME OneAtATime PROVE Spec /\ [][FenceKept]_vars => []VerifyFindsNothing
<1>1. ASSUME Inv PROVE VerifyFindsNothing
  <2>1. SUFFICES ASSUME NEW e \in Engine, at(e, "verify"), eng[e].live, holds(e), capturing(e) PROVE matches(e)
    BY Zenon DEF VerifyFindsNothing
  <2>2. PICK v : v = eng[e]
    BY Zenon
  <2>3. v.pc = "verify" /\ goal(v) = "verify" /\ goal(v) \in working /\ ~saving(v) /\ v.live /\ slot.holder = e
    BY <2>1, <2>2, Zenon DEF at, capturing, goal, saving, working, checking
  <2>4. DatabaseOK /\ StreamOK(e, v) /\ WorkOK(v)
    BY <1>1, <2>2, Here, Zenon
  <2>5. /\ slot.at <= v.applied /\ v.applied \in Nat /\ v.landed = LastPart
        /\ \A p \in Part : p <= v.landed => Owes(table[v.cp.shadow].rows, v.applied, p)
    BY <1>1, <2>2, <2>3, <2>4, Here, Zenon DEF StreamOK, checking, EngineType
  <2>6. names.source = v.cp.src /\ names.shadow = v.cp.shadow /\ names.shadow # 0
    BY <1>1, <2>2, <2>3, WorkHere, Zenon
  <2>7. /\ wal \in Seq(Part) /\ TruthOK /\ slot.at \in Nat /\ table[v.cp.shadow].rows \in [Part -> Int]
        /\ table[v.cp.src].rows = truth
    BY <2>4, <2>6, Relations DEF DatabaseOK, DatabaseType, LiveTableIsTruth
  <2>8. \A p \in Part : Owes(table[v.cp.shadow].rows, slot.at, p)
    <3>1. \A p \in Part : p <= v.landed
      BY <2>5, RunnerBounds DEF Part
    <3> QED  BY <2>5, <2>7, <3>1, Sooner, Zenon
  <2>9. Replay(table[v.cp.shadow].rows, slot.at) = truth
    BY <2>7, <2>8, ReplayIsTruth, Zenon
  <2> QED  BY <2>2, <2>3, <2>7, <2>9, Zenon DEF matches, shadowRows, cp
<1> QED  BY <1>1, InitInv, StepInv, PTL DEF Spec

\* Once the row's shadow is the live table, the row says cutover or done (LK-4):
\* the gate saves the phase before the swap, and no later save takes it back.
THEOREM SwapLeavesItsRecord == ASSUME OneAtATime PROVE Spec /\ [][FenceKept]_vars => []SwapIsRecorded
<1>1. Inv => SwapIsRecorded
  BY Zenon DEF Inv, DatabaseOK, RowOK, Recorded, SwapIsRecorded
<1> QED  BY <1>1, InitInv, StepInv, PTL DEF Spec

\* Every part through the saved watermark is in the row's shadow (ST-1, TM-3):
\* the saver reads what has landed before it saves, and only what is above the
\* watermark is ever cleared.
THEOREM WatermarkIsCopied == ASSUME OneAtATime PROVE Spec /\ [][FenceKept]_vars => []RowIsHonest
<1>1. Inv => RowIsHonest
  BY Zenon DEF Inv, DatabaseOK, RowOK, Copied, RowIsHonest
<1> QED  BY <1>1, InitInv, StepInv, PTL DEF Spec

\* A run that reports its change done leaves the statement's shape, no shadow,
\* no slot and no fence (ST-2), resumed after its swap or not.
THEOREM DoneIsDone == ASSUME OneAtATime PROVE Spec /\ [][FenceKept]_vars => []DoneIsWhatWasAsked
<1>1. ASSUME Inv PROVE DoneIsWhatWasAsked
  <2>1. SUFFICES ASSUME NEW e \in Engine, at(e, "finish")
                 PROVE  /\ table[names.source].shape = eng[e].st /\ names.shadow = 0
                        /\ eng[e].live => ~slot.exists
                        /\ ~table[names.source].fence
                        /\ names.old # 0 => ~table[names.old].fence
    BY Zenon DEF DoneIsWhatWasAsked
  <2>2. PICK v : v = eng[e]
    OBVIOUS
  <2>3. goal(v) = "finish" /\ goal(v) \in ending
    BY <2>1, <2>2, Zenon DEF at, goal, saving, ending
  <2>4. DatabaseOK /\ EndOK(v) /\ RowIsOurs(v)
    BY <1>1, <2>2, Here, Zenon
  <2>5. /\ row = v.cp /\ v.cp # NoRow /\ v.cp.st = v.st /\ names.source = v.cp.shadow
        /\ (v.live => ~slot.exists) /\ (names.old # 0 => ~table[names.old].fence)
    BY <2>3, <2>4, Zenon DEF EndOK, RowIsOurs
  <2>6. Stands(row) /\ Recorded(row)
    BY <2>4, <2>5, Zenon DEF DatabaseOK, RowOK
  <2> QED  BY <2>2, <2>5, <2>6, Zenon DEF Stands, Recorded
<1> QED  BY <1>1, InitInv, StepInv, PTL DEF Spec

\* The reaper never drops a slot that a row in flight owns (ST-3): it judges and
\* drops under the lock on the slot's name, and no row that owns a slot is saved
\* while another holds that lock.
THEOREM ReaperIsSafe == ASSUME OneAtATime PROVE Spec /\ [][FenceKept]_vars => ReaperSparesLiveSlots
<1>1. Inv => (reaper = "drop" /\ slot.exists /\ ~slot'.exists => ~ownsSlot(row))
  BY Zenon DEF Inv, DatabaseOK, ReaperOK
<1> QED  BY <1>1, InitInv, StepInv, PTL DEF Spec, ReaperSparesLiveSlots
=============================================================================
