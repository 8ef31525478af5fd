-------------------------- MODULE RunnerStepProofs --------------------------
(***************************************************************************)
(* The steps of a schema change that leave the contents of every table     *)
(* alone: those that move an engine on, begin or give up a run, or write   *)
(* the row.                                                                *)
(***************************************************************************)
EXTENDS RunnerInvariant


-----------------------------------------------------------------------------
(* The environment, the server's abort and the reaper. *)

\* The server invalidates the slot or an operator drops it: no row relies on a
\* slot that is not there.
LEMMA LoseSlotInv == ASSUME Inv, LoseSlot PROVE Inv'
<1>1. UNCHANGED <<names, table, wal, row, lock, slotLock, ax, eng, reaper>> /\ mishap
  BY Zenon DEF LoseSlot
<1>2. \/ slot' = [slot EXCEPT !.lost = TRUE, !.holder = None] \/ slot' = NoSlot
  BY Zenon DEF LoseSlot
<1>3. Quieter
  BY <1>1, <1>2, SlotQuiet, TablesQuiet, UsedQuiet, Zenon DEF Quieter, Inv
<1>4. \A e \in Engine : LocksOK(e, eng[e])'
  BY <1>1, Here, Zenon DEF LocksOK
<1> QED  BY <1>1, <1>3, <1>4, QuietWorld, SameReaper, Zenon DEF Inv

\* The fence's owner disables it: a verified quiesced shadow is no longer
\* vouched for.
LEMMA DisableFenceInv == ASSUME Inv, DisableFence PROVE Inv'
<1>1. UNCHANGED <<names, wal, slot, row, lock, slotLock, ax, eng, reaper>> /\ mishap
  BY Zenon DEF DisableFence
<1>2. \E o \in OID : table' = [table EXCEPT ![o].fence = FALSE]
  BY Relations, Zenon DEF DisableFence, Inv
<1>3. Quieter
  BY <1>1, <1>2, SlotQuiet, TablesQuiet, UsedQuiet, Zenon DEF Quieter, Inv
<1>4. \A e \in Engine : LocksOK(e, eng[e])'
  BY <1>1, Here DEF LocksOK
<1> QED  BY <1>1, <1>3, <1>4, QuietWorld, SameReaper DEF Inv

\* The lock session is lost unseen, which only a bound on losses above 0
\* allows.
LEMMA LoseLockInv == ASSUME Inv, LoseLock PROVE Inv'
<1>1. UNCHANGED <<names, table, wal, slot, row, slotLock, ax, eng, reaper>>
      /\ used' = [used EXCEPT !.loss = @ + 1, !.mishap = @ + 1] /\ used.loss < MaxLosses
  BY Zenon DEF LoseLock
<1>2. Quieter
  BY <1>1, SlotQuiet, TablesQuiet, UsedQuiet, Zenon DEF Quieter, Inv
<1>3. MaxLosses # 0
  BY <1>1 DEF Inv, DatabaseOK, DatabaseType
<1>4. \A e \in Engine : LocksOK(e, eng[e])'
  BY <1>1, <1>3, Here, Zenon DEF LocksOK
<1> QED  BY <1>1, <1>2, <1>4, QuietWorld, SameReaper, Zenon DEF Inv

\* The swap's backend ends without committing: nothing was renamed.
LEMMA ServerAbortInv == ASSUME Inv, ServerAbort PROVE Inv'
<1>1. UNCHANGED <<names, table, wal, slot, row, lock, slotLock, eng, reaper>> /\ ax' = NoSwap
      /\ (mishap \/ used' = used)
  BY Zenon DEF ServerAbort
<1>2. Quieter
  BY <1>1, SlotQuiet, TablesQuiet, UsedQuiet, Zenon DEF Quieter, Inv
<1>4. \A e \in Engine : LocksOK(e, eng[e])'
  BY <1>1, Here, Zenon DEF LocksOK
<1> QED  BY <1>1, <1>2, <1>4, QuietWorld, SameReaper, Zenon DEF Inv

\* The reaper takes the lock only when it is free, and lets go of its own.
LEMMA ReapInv == ASSUME Inv, Reap PROVE Inv'
<1>1. UNCHANGED <<names, table, wal, row, lock, ax, eng, used>> /\ (slot' = slot \/ slot' = NoSlot)
  BY Zenon DEF Reap, ReapList, ReapLock, ReapJudge, ReapDrop
<1>2. Quieter
  BY <1>1, SlotQuiet, TablesQuiet, UsedQuiet, Zenon DEF Quieter, Inv
<1>3. slotLock' = slotLock \/ slotLock \in {None, Reaper}
  BY Here, Zenon DEF Reap, ReapList, ReapLock, ReapJudge, ReapDrop, Inv, DatabaseOK, ReaperOK
<1>4. \A e \in Engine : LocksOK(e, eng[e])'
  BY <1>1, <1>3, Here, RunnerBounds, Zenon DEF LocksOK
<1>5. ReaperOK'
  BY <1>1, Zenon DEF Reap, ReapList, ReapLock, ReapJudge, ReapDrop, Inv, DatabaseOK, ReaperOK, ownsSlot
<1> QED  BY <1>1, <1>2, <1>4, <1>5, QuietWorld, Zenon

-----------------------------------------------------------------------------
(* What a step makes of its engine: it moves on, it is about to save, or   *)
(* it ends.                                                                *)

\* A run that ends leaves the database right if it was.
LEMMA HaltStep ==
    ASSUME Inv, NEW e \in Engine, eng[e].pc # "idle", halt(e), DatabaseOK'
    PROVE  Inv'
<1>1. slot' = (IF slot.holder = e THEN [slot EXCEPT !.holder = None] ELSE slot)
      /\ slot \in [exists : BOOLEAN, at : 0 .. Len(wal), lost : BOOLEAN, holder : Engine \cup {None}]
  BY Zenon DEF halt, Inv, DatabaseOK, DatabaseType
<1>2. slot'.holder # e /\ slot'.holder \in {slot.holder, None, e}
  BY <1>1, RunnerBounds, Zenon
<1>3. EngineOK(e, Idle)' /\ eng' = [eng EXCEPT ![e] = Idle]
  BY <1>2, IdleOK, Zenon DEF halt
<1> QED  BY <1>2, <1>3, EngineStep, Zenon

\* A run that ends takes its locks and its stream with it, and leaves the
\* database as it is.
LEMMA HaltInv ==
    ASSUME Inv, NEW e \in Engine, eng[e].pc # "idle", halt(e),
           UNCHANGED <<names, table, wal, row, ax, reaper>>, used' = used \/ mishap
    PROVE  Inv'
<1>1. Quieter
  BY SlotQuiet, TablesQuiet, UsedQuiet, Zenon DEF Quieter, Inv, halt
<1>2. ReaperOK'
  BY RunnerBounds, Zenon DEF halt, Inv, DatabaseOK, ReaperOK, ownsSlot
<1> QED  BY <1>1, <1>2, HaltStep, QuietDatabase, Zenon DEF Inv

-----------------------------------------------------------------------------
(* Moves in which the database stays as it was, or less.                   *)

\* Nothing but the slot, a fence and the engine.
LEMMA StepQuiet ==
    ASSUME Inv, NEW e \in Engine, NEW x, NEW w, eng' = [eng EXCEPT ![e] = w], Moves(eng[e], w, x),
           EngineType(w), onward(eng[e].pc, x), x = "open" => eng[e].cp.phase # "reconciling", eng[e].pc \notin {"gate", "refence"},
           x \notin {"gate", "create", "committing"} \cup ending, ax = NoSwap \/ eng[e].pc # "dispatch",
           Quieter, UNCHANGED <<lock, slotLock, ax, reaper>>
    PROVE  Inv'
<1>1. x \notin {"clear", "verify"}
  BY Zenon DEF onward, starting
<1>2. /\ RowIsOurs(w) /\ PhaseFits(w) /\ WorkOK(w) /\ CopyOK(w) /\ RecopyOK(w) /\ StreamOK(e, w) /\ QuietOK(w)
      /\ goal(w) = x /\ w.pc = x /\ eng[e].pc # "idle" /\ x # "idle" /\ x # "release"
  BY <1>1, Onward DEF Moves, onward, starting
<1>3. EndOK(w)'
  BY <1>2, Zenon DEF EndOK, goal, saving
<1>4. LocksOK(e, w)'
  <2>1. ax = NoSwap \/ eng[e].pc = "committing"
    BY <1>2, Here, Zenon DEF LocksOK
  <2>2. eng[e].pc # "committing"
    BY Zenon DEF onward, ending, starting
  <2>3. MaxLosses = 0 => lock = e
    BY <1>2, Here, Zenon DEF LocksOK
  <2>4. x = "recDrop" \/ x = "recCreate" => slotLock = e
    BY <1>2, Here, GoalIs, Zenon DEF LocksOK, onward, starting
  <2> QED  BY <1>2, <2>1, <2>2, <2>3, <2>4, Zenon DEF LocksOK
<1>5. ReaperOK'
  BY SameReaper, Zenon DEF Inv, Quieter
<1> QED  BY <1>2, <1>3, <1>4, <1>5, QuietStep, Zenon

\* The same for a step that changes where the engine is and nothing else of it.
LEMMA MoveQuiet ==
    ASSUME Inv, NEW e \in Engine, NEW x, moveTo(e, x), onward(eng[e].pc, x),
           x = "open" => eng[e].cp.phase # "reconciling", eng[e].pc \notin {"gate", "refence"},
           x \notin {"gate", "create", "committing"} \cup ending, ax = NoSwap \/ eng[e].pc # "dispatch",
           Quieter, UNCHANGED <<lock, slotLock, ax, reaper>>
    PROVE  Inv'
<1>1. PICK w : eng' = [eng EXCEPT ![e] = w] /\ Moves(eng[e], w, x) /\ EngineType(w)
  BY Moved, Zenon
<1> QED  BY <1>1, StepQuiet, Zenon

\* Without a row a run starts fresh.
LEMMA DispatchNoRowInv == ASSUME Inv, NEW e \in Engine, DispatchNoRow(e) PROVE Inv'
<1>1. PICK x \in starting : moveTo(e, x)
  BY Zenon DEF DispatchNoRow, starting
<1>2. Quieter
  BY SlotQuiet, TablesQuiet, UsedQuiet, Zenon DEF Quieter, Inv, DispatchNoRow
<1>3. ax = NoSwap
  BY Zenon DEF DispatchNoRow, Inv, DatabaseOK, SwapOK
<1>4. onward(eng[e].pc, x) /\ x \notin {"gate", "create", "committing", "open"} \cup ending
      /\ eng[e].pc \notin {"gate", "refence"}
  BY Zenon DEF DispatchNoRow, onward, at, starting, ending
<1> QED  BY <1>1, <1>2, <1>3, <1>4, MoveQuiet, Zenon DEF DispatchNoRow

\* A resumed live run finds its slot usable and goes on, or reconciles.
LEMMA InspectResumeInv == ASSUME Inv, NEW e \in Engine, InspectResume(e) PROVE Inv'
<1>1. PICK x \in {"recClear", "open"} : moveTo(e, x) /\ x = IF needsReconcile(e) THEN "recClear" ELSE "open"
  BY Zenon DEF InspectResume
<1>2. Quieter
  BY SlotQuiet, TablesQuiet, UsedQuiet, Zenon DEF Quieter, Inv, InspectResume
<1>3. onward(eng[e].pc, x) /\ x \notin {"gate", "create", "committing"} \cup ending /\ eng[e].pc \notin {"dispatch", "gate", "refence"}
      /\ (x = "open" => eng[e].cp.phase # "reconciling")
  <2>1. eng[e].pc = "ready" /\ x = IF needsReconcile(e) THEN "recClear" ELSE "open"
    BY <1>1, Zenon DEF InspectResume, at
  <2> QED  BY <2>1, Zenon DEF onward, ending, needsReconcile, cp
<1> QED  BY <1>1, <1>2, <1>3, MoveQuiet, Zenon DEF InspectResume

\* replaceSlot drops the slot under the lock on its name, while the row says
\* reconciling.
LEMMA ReplaceSlotDropInv == ASSUME Inv, NEW e \in Engine, ReplaceSlotDrop(e) PROVE Inv'
<1>1. Quieter
  BY SlotQuiet, TablesQuiet, UsedQuiet, Zenon DEF Quieter, Inv, ReplaceSlotDrop
<1>2. onward(eng[e].pc, "recCreate") /\ eng[e].pc \notin {"dispatch", "gate", "refence"}
  BY Zenon DEF ReplaceSlotDrop, onward, at
<1> QED  BY <1>1, <1>2, MoveQuiet, Zenon DEF ReplaceSlotDrop, ending

\* The swap asks for its lock.
LEMMA SwapBeginInv == ASSUME Inv, NEW e \in Engine, SwapBegin(e) PROVE Inv'
<1>1. Quieter
  BY SlotQuiet, TablesQuiet, UsedQuiet, Zenon DEF Quieter, Inv, SwapBegin
<1>2. onward(eng[e].pc, "lock") /\ eng[e].pc \notin {"dispatch", "gate", "refence"}
  BY Zenon DEF SwapBegin, onward, at
<1> QED  BY <1>1, <1>2, MoveQuiet, Zenon DEF SwapBegin, ending

\* A slot the attempt did not make is left alone.
LEMMA SkipSlotInv == ASSUME Inv, NEW e \in Engine, SkipSlot(e) PROVE Inv'
<1>1. Quieter
  BY SlotQuiet, TablesQuiet, UsedQuiet, Zenon DEF Quieter, Inv, SkipSlot
<1>2. onward(eng[e].pc, "unbuildShadow") /\ eng[e].pc \notin {"dispatch", "gate", "refence"}
  BY Zenon DEF SkipSlot, onward, at
<1> QED  BY <1>1, <1>2, MoveQuiet, Zenon DEF SkipSlot, ending

\* The fence is dropped where no verified shadow relies on it.
LEMMA DropWriteFenceInv == ASSUME Inv, NEW e \in Engine, DropWriteFence(e) PROVE Inv'
<1>1. PICK x : moveTo(e, x) /\ \/ eng[e].pc = "discardHold" /\ x = "discardRow"
                               \/ eng[e].pc = "unbuildHold" /\ x = "unbuildShadow"
                               \/ eng[e].pc = "unrecordedFence" /\ x = "build"
  BY Zenon DEF DropWriteFence, at
<1>2. \E o \in OID : table' = [table EXCEPT ![o].fence = FALSE]
  BY Relations, Zenon DEF DropWriteFence, unfenced, Inv
<1>3. Quieter
  BY <1>2, SlotQuiet, TablesQuiet, UsedQuiet, Zenon DEF Quieter, Inv, DropWriteFence
<1>4. x = "build" => row = NoRow
  BY <1>1, Here, GoalIs, Zenon DEF RowIsOurs, starting
<1>5. onward(eng[e].pc, x) /\ x \notin {"gate", "create", "committing"} \cup ending /\ eng[e].pc \notin {"dispatch", "gate", "refence"}
  BY <1>1, <1>4, Zenon DEF onward, starting, ending
<1> QED  BY <1>1, <1>3, <1>5, MoveQuiet, Zenon DEF DropWriteFence

\* The end of a swap: its row's shadow is the source, and the slot goes.
LEMMA EndQuiet ==
    ASSUME Inv, NEW e \in Engine, NEW x, moveTo(e, x), Quieter, UNCHANGED <<lock, slotLock, ax, reaper>>,
           \/ eng[e].pc = "committing" /\ x = "swapped" /\ ax = NoSwap /\ committed(cp(e))
           \/ eng[e].pc = "swapped" /\ x = "settle" /\ (cp(e).live => ~slot'.exists)
    PROVE  Inv'
<1>1. PICK w : eng' = [eng EXCEPT ![e] = w] /\ Moves(eng[e], w, x) /\ EngineType(w)
  BY Moved, Zenon
<1>2. onward(eng[e].pc, x) /\ eng[e].pc # "gate" /\ x \notin {"clear", "verify"}
  BY Zenon DEF onward
<1>3. /\ RowIsOurs(w) /\ PhaseFits(w) /\ WorkOK(w) /\ CopyOK(w) /\ RecopyOK(w) /\ StreamOK(e, w) /\ QuietOK(w)
      /\ goal(w) = x /\ w.pc = x /\ eng[e].pc # "idle" /\ goal(eng[e]) = eng[e].pc
      /\ w.cp = eng[e].cp /\ w.st = eng[e].st /\ w.live = eng[e].live
  BY <1>1, <1>2, Onward, Zenon DEF Moves
<1>4. w.cp # NoRow /\ w.cp.st = w.st /\ w.cp.live = w.live
  BY <1>3, Here, Zenon DEF EndOK, ending
<1>5. EndOK(w)'
  BY <1>3, <1>4, Here, Zenon DEF EndOK, goal, ending, committed, cp, Quieter, saving
<1>6. LocksOK(e, w)'
  BY <1>3, Here, Zenon DEF LocksOK
<1>7. ReaperOK'
  BY SameReaper, Zenon DEF Inv, Quieter
<1> QED  BY <1>1, <1>3, <1>5, <1>6, <1>7, QuietStep, Zenon

\* The slot is dropped with what it served: a discarded change, a taken back
\* start, or one that is swapped.
LEMMA DropSlotInv == ASSUME Inv, NEW e \in Engine, DropSlot(e) PROVE Inv'
<1>1. PICK x : moveTo(e, x) /\ \/ eng[e].pc = "discardHold" /\ x = "discardRow"
                               \/ eng[e].pc = "unbuildHold" /\ x = "unbuildShadow"
                               \/ eng[e].pc = "swapped" /\ x = "settle"
  BY Zenon DEF DropSlot, at
<1>2. Quieter /\ UNCHANGED <<lock, slotLock, ax, reaper>> /\ slot' = NoSlot
  BY SlotQuiet, TablesQuiet, UsedQuiet, Zenon DEF Quieter, Inv, DropSlot
<1>3. CASE x = "settle"
  BY <1>1, <1>2, <1>3, EndQuiet, Zenon DEF NoSlot
<1>4. CASE x # "settle"
  <2>1. onward(eng[e].pc, x) /\ x \notin {"gate", "create", "committing"} \cup ending /\ eng[e].pc \notin {"dispatch", "gate", "refence"}
    BY <1>1, <1>4, Zenon DEF onward, ending
  <2> QED  BY <1>1, <1>2, <2>1, MoveQuiet, Zenon
<1> QED  BY <1>3, <1>4, Zenon

\* A quiesced change has no slot to drop after its swap.
LEMMA NoSlotToDropInv == ASSUME Inv, NEW e \in Engine, NoSlotToDrop(e) PROVE Inv'
<1>1. Quieter
  BY SlotQuiet, TablesQuiet, UsedQuiet, Zenon DEF Quieter, Inv, NoSlotToDrop
<1> QED  BY <1>1, EndQuiet, Zenon DEF NoSlotToDrop, at, cp

\* The swap's answer is read from the catalog: the source is the row's shadow.
LEMMA SwapDoneInv == ASSUME Inv, NEW e \in Engine, SwapDone(e) PROVE Inv'
<1>1. Quieter
  BY SlotQuiet, TablesQuiet, UsedQuiet, Zenon DEF Quieter, Inv, SwapDone
<1> QED  BY <1>1, EndQuiet, Zenon DEF SwapDone, at

\* A lock timeout leaves the swap to another attempt.
LEMMA LockTimeoutInv == ASSUME Inv, NEW e \in Engine, LockTimeout(e) PROVE Inv'
<1>1. PICK w : w = [eng[e] EXCEPT !.pc = "swap", !.tries = eng[e].tries + 1]
  BY Zenon
<1>2. eng' = [eng EXCEPT ![e] = w]
  BY <1>1, Zenon DEF LockTimeout
<1>3. EngineType(eng[e]) /\ Moves(eng[e], w, "swap") /\ w.mark = eng[e].mark
  <2>1. EngineType(eng[e])
    BY Here, Zenon
  <2> QED  BY <1>1, <2>1, Zenon DEF EngineType, Moves, Whole, Fields
<1>4. EngineType(w)
  BY <1>3, Zenon DEF EngineType, Moves
<1>5. Quieter /\ UNCHANGED <<lock, slotLock, ax, reaper>> /\ eng[e].pc = "lock"
  BY SlotQuiet, TablesQuiet, UsedQuiet, Zenon DEF Quieter, Inv, LockTimeout, at
<1> QED  BY <1>2, <1>3, <1>4, <1>5, StepQuiet, Zenon DEF onward, ending

\* The catch-up's marker is the end of the log.
LEMMA MarkWALInv == ASSUME Inv, NEW e \in Engine, MarkWAL(e) PROVE Inv'
<1>1. PICK w : w = [eng[e] EXCEPT !.pc = "await", !.mark = Len(wal)]
  BY Zenon
<1>2. eng' = [eng EXCEPT ![e] = w]
  BY <1>1, Zenon DEF MarkWAL
<1>3. EngineType(eng[e]) /\ Moves(eng[e], w, "await") /\ w.mark = Len(wal)
  <2>1. EngineType(eng[e])
    BY Here
  <2> QED  BY <1>1, <2>1, Zenon DEF EngineType, Moves, Whole, Fields
<1>4. EngineType(w)
  BY <1>3 DEF EngineType, Moves, Inv, DatabaseOK, DatabaseType
<1>5. Quieter /\ UNCHANGED <<lock, slotLock, ax, reaper>> /\ eng[e].pc = "mark"
  BY SlotQuiet, TablesQuiet, UsedQuiet, Zenon DEF Quieter, Inv, MarkWAL, at
<1> QED  BY <1>2, <1>3, <1>4, <1>5, StepQuiet, Zenon DEF onward, ending

\* A fresh live start claims the slot's name.
LEMMA ClaimInv == ASSUME Inv, NEW e \in Engine, LockSlotName(e), at(e, "claim") PROVE Inv'
<1>1. PICK w : eng' = [eng EXCEPT ![e] = w] /\ Moves(eng[e], w, "create") /\ EngineType(w)
  BY Moved, Zenon DEF LockSlotName
<1>2. Quieter /\ UNCHANGED <<lock, ax, reaper, row>> /\ slotLock' = e /\ slotLock = None
  BY SlotQuiet, TablesQuiet, UsedQuiet, Zenon DEF Quieter, Inv, LockSlotName
<1>3. /\ RowIsOurs(w) /\ PhaseFits(w) /\ WorkOK(w) /\ CopyOK(w) /\ RecopyOK(w) /\ StreamOK(e, w) /\ QuietOK(w)
      /\ goal(w) = "create" /\ w.pc = "create" /\ eng[e].pc = "claim"
  BY <1>1, Onward, Zenon DEF Moves, onward, at
<1>4. EndOK(w)'
  BY <1>3, Zenon DEF EndOK, goal, saving, ending
<1>5. LocksOK(e, w)'
  BY <1>2, <1>3, Here, Zenon DEF LocksOK
<1>6. ReaperOK'
  BY <1>2, ReaperWaits, RunnerBounds, Zenon DEF Inv
<1> QED  BY <1>1, <1>2, <1>3, <1>4, <1>5, <1>6, QuietStep, Zenon

\* The name is released once the row that owns the slot is saved.
LEMMA UnlockSlotNameInv == ASSUME Inv, NEW e \in Engine, UnlockSlotName(e) PROVE Inv'
<1>1. PICK w : eng' = [eng EXCEPT ![e] = w] /\ Moves(eng[e], w, "ready") /\ EngineType(w)
  BY Moved, Zenon DEF UnlockSlotName
<1>2. Quieter /\ UNCHANGED <<lock, ax, reaper, row>> /\ eng[e].pc = "release"
  BY SlotQuiet, TablesQuiet, UsedQuiet, Zenon DEF Quieter, Inv, UnlockSlotName, at
<1>3. /\ RowIsOurs(w) /\ PhaseFits(w) /\ WorkOK(w) /\ CopyOK(w) /\ RecopyOK(w) /\ StreamOK(e, w) /\ QuietOK(w)
      /\ goal(w) = "ready" /\ w.pc = "ready" /\ goal(eng[e]) = "release"
  BY <1>1, <1>2, Onward, Zenon DEF Moves, onward
<1>4. EndOK(w)'
  BY <1>3, Zenon DEF EndOK, goal, saving, ending
<1>5. LocksOK(e, w)'
  BY <1>2, <1>3, Here, Zenon DEF LocksOK
<1>6. ReaperOK'
  BY <1>2, <1>3, Here, ReaperWaits, RunnerBounds, Zenon DEF LocksOK
<1> QED  BY <1>1, <1>2, <1>3, <1>4, <1>5, <1>6, QuietStep, Zenon

\* A verified quiesced shadow equals the source behind its fence.
LEMMA VerifyInv == ASSUME Inv, NEW e \in Engine, Verify(e) PROVE Inv'
<1>1. PICK w : eng' = [eng EXCEPT ![e] = w] /\ Moves(eng[e], w, "gate") /\ EngineType(w)
  <2>1. PICK v, w : v = eng[e] /\ w = [v EXCEPT !.pc = "gate", !.unseen = {}]
    BY Zenon
  <2>2. EngineType(v) /\ Whole(v)
    BY <2>1, Here, Zenon DEF EngineType
  <2>3. Moves(v, w, "gate") /\ w.mark = v.mark
    BY <2>1, <2>2, Zenon DEF Moves, Whole, Fields
  <2>4. EngineType(w)
    BY <2>2, <2>3, Zenon DEF EngineType, Moves
  <2>5. eng' = [eng EXCEPT ![e] = w]
    BY <2>1, Zenon DEF Verify
  <2> QED  BY <2>1, <2>3, <2>4, <2>5, Zenon
<1>2. Quieter /\ UNCHANGED <<lock, ax, reaper, row, slotLock>> /\ eng[e].pc = "verify"
  BY SlotQuiet, TablesQuiet, UsedQuiet, Zenon DEF Quieter, Inv, Verify, at
<1>3. /\ RowIsOurs(w) /\ PhaseFits(w) /\ WorkOK(w) /\ CopyOK(w) /\ RecopyOK(w) /\ StreamOK(e, w)
      /\ goal(w) = "gate" /\ w.pc = "gate" /\ w.cp = eng[e].cp /\ w.live = eng[e].live
  BY <1>1, <1>2, Onward, Zenon DEF Moves, onward
<1>4. QuietOK(w)
  BY <1>3, Here, Zenon DEF QuietOK, Verify, matches, shadowRows, cp, describes, DatabaseOK, LiveTableIsTruth
<1>5. EndOK(w)'
  BY <1>3, Zenon DEF EndOK, goal, saving, ending
<1>6. LocksOK(e, w)'
  BY <1>2, <1>3, Here, Zenon DEF LocksOK
<1>7. ReaperOK'
  BY <1>2, SameReaper, Zenon DEF Inv
<1> QED  BY <1>1, <1>2, <1>3, <1>4, <1>5, <1>6, <1>7, QuietStep, Zenon

-----------------------------------------------------------------------------
(* The run gives up what was made: nothing in the catalog is its own then. *)

\* An engine that gives up relies on nothing.
LEMMA OffOK ==
    ASSUME NEW e \in Engine, NEW w, EngineType(w), w.saver = NoRow,
           w.pc \in {"discardShadow", "discardHold", "discardRow", "unbuildHold"} \cup starting,
           w.pc \in {"discardShadow", "discardHold", "discardRow"} => w.then \in {"build", "idle"},
           w.pc \in starting => row' = NoRow,
           slot'.holder # e, ax' = NoSwap, MaxLosses = 0 => lock' = e
    PROVE  EngineOK(e, w)'
<1>1. goal(w)' = w.pc /\ ~saving(w)' /\ ~first(w)'
  BY Zenon DEF goal, saving, first, starting
<1>2. EngineType(w)' /\ RowIsOurs(w)' /\ PhaseFits(w)' /\ WorkOK(w)'
  BY <1>1, Zenon DEF EngineType, Whole, RowIsOurs, PhaseFits, WorkOK, working, starting, making, ready, recopying,
     copying, checking, swapping, ending, saving
<1>3. StreamOK(e, w)' /\ CopyOK(w)' /\ RecopyOK(w)' /\ QuietOK(w)' /\ EndOK(w)' /\ LocksOK(e, w)'
  BY <1>1, Zenon DEF StreamOK, CopyOK, RecopyOK, QuietOK, EndOK, LocksOK, swapping, ending, starting
<1> QED  BY <1>2, <1>3, Zenon DEF EngineOK

\* A restart discards what the row describes.
LEMMA RestartInv == ASSUME Inv, NEW e \in Engine, Restart(e) PROVE Inv'
<1>1. PICK w : w = [eng[e] EXCEPT !.pc = "discardShadow", !.cp = row, !.then = "build"]
  BY Zenon
<1>2. eng' = [eng EXCEPT ![e] = w]
  BY <1>1, Zenon DEF Restart
<1>3. EngineType(eng[e]) /\ Whole(w) /\ w.pc = "discardShadow" /\ w.cp = row /\ w.then = "build"
      /\ w.live = eng[e].live /\ w.st = eng[e].st /\ w.saver = eng[e].saver /\ w.landed = eng[e].landed
      /\ w.applied = eng[e].applied /\ w.mark = eng[e].mark
  <2>1. EngineType(eng[e])
    BY Here
  <2> QED  BY <1>1, <2>1, Zenon DEF EngineType, Whole, Fields
<1>4. EngineType(w)
  BY <1>3, Zenon DEF EngineType, Inv, DatabaseOK, DatabaseType
<1>5. Quieter /\ UNCHANGED <<lock, ax, reaper, row, slot, slotLock>> /\ eng[e].pc = "dispatch"
  BY SlotQuiet, TablesQuiet, UsedQuiet, Zenon DEF Quieter, Inv, Restart, at
<1>6. ax' = NoSwap
  BY <1>5, Zenon DEF Restart, mayDiscard, Inv, DatabaseOK, SwapOK
<1>7. w.saver = NoRow /\ slot'.holder # e /\ (MaxLosses = 0 => lock' = e)
  BY <1>3, <1>5, NotCopying, Here, Zenon DEF LocksOK, copying, checking
<1>8. EngineOK(e, w)'
  BY <1>3, <1>4, <1>6, <1>7, OffOK, Zenon DEF starting
<1>9. DatabaseOK' /\ slot'.holder \in {slot.holder, None, e}
  BY <1>5, QuietDatabase, SameReaper, Zenon DEF Inv
<1> QED  BY <1>2, <1>5, <1>8, <1>9, EngineStep, Zenon

\* A slot that was there before ends the fresh start, which takes back its shadow.
LEMMA SlotExistsInv == ASSUME Inv, NEW e \in Engine, SlotExists(e) PROVE Inv'
<1>1. PICK w : eng' = [eng EXCEPT ![e] = w] /\ Moves(eng[e], w, "unbuildHold") /\ EngineType(w)
  BY Moved, Zenon DEF SlotExists, unbuild, moveTo
<1>2. Quieter /\ UNCHANGED <<lock, ax, reaper, row, slot>> /\ eng[e].pc = "create"
  BY SlotQuiet, TablesQuiet, UsedQuiet, Zenon DEF Quieter, Inv, SlotExists, at
<1>3. slotLock' = slotLock \/ slotLock # Reaper
  BY RunnerBounds, Zenon DEF SlotExists, unbuild
<1>4. w.saver = NoRow /\ slot'.holder # e /\ (MaxLosses = 0 => lock' = e) /\ ax' = NoSwap
  BY <1>1, <1>2, NotCopying, Here, Zenon DEF LocksOK, copying, checking, Moves
<1>5. EngineOK(e, w)'
  BY <1>1, <1>4, OffOK, Zenon DEF Moves, starting
<1>6. DatabaseOK' /\ slot'.holder \in {slot.holder, None, e}
  BY <1>2, <1>3, QuietDatabase, ReaperWaits, Zenon DEF Inv
<1> QED  BY <1>1, <1>2, <1>5, <1>6, EngineStep, Zenon

\* Data the new shape rejects discard the change.
LEMMA DataFaultInv == ASSUME Inv, NEW e \in Engine, DataFault(e) PROVE Inv'
<1>1. PICK w : w = [eng[e] EXCEPT !.pc = "discardShadow", !.then = "idle"]
  BY Zenon
<1>2. eng' = [eng EXCEPT ![e] = w]
  BY <1>1, Zenon DEF DataFault
<1>3. EngineType(eng[e]) /\ Whole(w) /\ w.pc = "discardShadow" /\ w.cp = eng[e].cp /\ w.then = "idle"
      /\ w.live = eng[e].live /\ w.st = eng[e].st /\ w.saver = eng[e].saver /\ w.landed = eng[e].landed
      /\ w.applied = eng[e].applied /\ w.mark = eng[e].mark
  <2>1. EngineType(eng[e])
    BY Here
  <2> QED  BY <1>1, <2>1, Zenon DEF EngineType, Whole, Fields
<1>4. EngineType(w)
  BY <1>3, Zenon DEF EngineType
<1>5. Quieter /\ UNCHANGED <<lock, ax, reaper, row, slotLock>>
  BY SlotQuiet, TablesQuiet, UsedQuiet, Zenon DEF Quieter, Inv, DataFault
<1>6. eng[e].pc \notin {"idle", "dispatch", "committing"} /\ w.saver = NoRow
  BY <1>3, Zenon DEF DataFault
<1>7. slot'.holder # e /\ slot'.holder \in {slot.holder, None, e}
  BY RunnerBounds, Zenon DEF DataFault, Inv, DatabaseOK, DatabaseType
<1>8. ax' = NoSwap /\ (MaxLosses = 0 => lock' = e)
  BY <1>5, <1>6, Here, Zenon DEF LocksOK
<1>9. EngineOK(e, w)'
  BY <1>3, <1>4, <1>6, <1>7, <1>8, OffOK, Zenon DEF starting
<1>10. DatabaseOK'
  BY <1>5, QuietDatabase, SameReaper, Zenon DEF Inv
<1> QED  BY <1>2, <1>6, <1>7, <1>9, <1>10, EngineStep, Zenon

-----------------------------------------------------------------------------
(* Taking up a row. *)

\* The row as the engine's own: what a resumed run starts from.
LEMMA ResumeOn ==
    ASSUME Inv, NEW e \in Engine, eng[e].pc = "dispatch", rowIsRuns(e), NEW x,
           eng' = [eng EXCEPT ![e].pc = x, ![e].cp = row],
           UNCHANGED <<names, table, wal, slot, row, lock, slotLock, ax, reaper, used>>, ax = NoSwap,
           \/ x \in {"ready", "refence"} /\ describes(row) /\ (x = "ready" => eng[e].live) /\ (x = "refence" => ~eng[e].live)
           \/ x = "swapped" /\ row.phase = "cutover" /\ names.source = row.shadow
    PROVE  Inv'
<1>1. PICK w : w = [eng[e] EXCEPT !.pc = x, !.cp = row]
  BY Zenon
<1>2. eng' = [eng EXCEPT ![e] = w]
  BY <1>1, Zenon
<1>3. EngineType(eng[e]) /\ Whole(w) /\ w.pc = x /\ w.cp = row
      /\ w.live = eng[e].live /\ w.st = eng[e].st /\ w.saver = eng[e].saver /\ w.landed = eng[e].landed
      /\ w.applied = eng[e].applied /\ w.mark = eng[e].mark
  <2>1. EngineType(eng[e])
    BY Here, Zenon
  <2> QED  BY <1>1, <2>1, Zenon DEF EngineType, Whole, Fields
<1>4. EngineType(w) /\ (row # NoRow => RowOK(row))
  BY <1>3, Zenon DEF EngineType, Inv, DatabaseOK, DatabaseType
<1>5. Quieter
  BY SlotQuiet, TablesQuiet, UsedQuiet, Zenon DEF Quieter, Inv
<1>6. w.saver = NoRow /\ slot.holder # e /\ (MaxLosses = 0 => lock' = e)
  BY <1>3, NotCopying, Here, Zenon DEF LocksOK, copying, checking
<1>7. goal(w) = x /\ ~saving(w) /\ ~first(w) /\ target(w) = row
  BY <1>3, GoalIs, Zenon
<1>8. RowIsOurs(w) /\ PhaseFits(w)
  BY <1>3, <1>7, Zenon DEF RowIsOurs, PhaseFits, rowIsRuns, Terminal, starting, making, ready, recopying, copying, checking,
     swapping
<1>9. WorkOK(w)
  BY <1>3, <1>4, <1>7, Zenon DEF WorkOK, rowIsRuns, working, making, ready, recopying, copying, checking, swapping
<1>10. CopyOK(w) /\ RecopyOK(w) /\ QuietOK(w) /\ StreamOK(e, w)
  BY <1>3, <1>6, <1>7, Zenon DEF CopyOK, RecopyOK, QuietOK, StreamOK, swapping
<1>11. EndOK(w)' /\ LocksOK(e, w)'
  BY <1>3, <1>6, <1>7, Zenon DEF EndOK, LocksOK, ending, rowIsRuns, goal, saving
<1>12. ReaperOK'
  BY SameReaper, Zenon DEF Inv
<1> QED  BY <1>2, <1>4, <1>5, <1>8, <1>9, <1>10, <1>11, <1>12, QuietStep, Zenon

\* A run resumed after its swap goes on to settle it.
LEMMA ResumeSwappedInv == ASSUME Inv, NEW e \in Engine, ResumeSwapped(e) PROVE Inv'
BY ResumeOn, Zenon DEF ResumeSwapped, at, swapAnswered, committed, oldTableGone

-----------------------------------------------------------------------------
(* Saving a row. *)

\* What is right from a position on is right from an earlier one.
LEMMA Sooner ==
    ASSUME NEW rows, NEW p, NEW a \in Nat, NEW b \in Nat, b <= a, Owes(rows, a, p)
    PROVE  Owes(rows, b, p)
BY DEF Owes

\* A row with another phase is a row.
LEMMA WithPhase ==
    ASSUME NEW c \in RowType, NEW phase \in Phases
    PROVE  LET q == [c EXCEPT !.phase = phase]
           IN  /\ q \in RowType /\ q.phase = phase /\ q.live = c.live /\ q.wm = c.wm /\ q.lsn = c.lsn
               /\ q.src = c.src /\ q.shadow = c.shadow /\ q.st = c.st
BY Zenon DEF RowType

\* A row that follows a right one is right if its watermark is.
LEMMA RowFollows ==
    ASSUME DatabaseOK, NEW r, RowOK(r), names.shadow = r.shadow, NEW q \in RowType, sameIdentity(r, q),
           q.live = r.live, q.lsn <= Len(wal), q.phase \notin {"copying", "reconciling"} => q.wm = LastPart,
           q.live \/ q.phase # "reconciling", Copied(q)
    PROVE  RowOK(q)
<1>1. RowFits(q) /\ Stands(q)
  BY Zenon DEF RowOK, RowFits, Stands, sameIdentity
<1>2. Recorded(q)
  BY Zenon DEF RowOK, Recorded, sameIdentity, DatabaseOK, NamesOK
<1> QED  BY <1>1, <1>2, Zenon DEF RowOK

goodSave(phase, then) ==
    \/ then = "ready" /\ phase = "catching_up"
    \/ then = "recDrop" /\ phase = "reconciling"
    \/ then = "open" /\ phase \in {"catching_up", "copying"}
    \/ then = "mark" /\ phase = "catching_up"
    \/ then = "verify" /\ phase = "verifying"
    \/ then = "swap" /\ phase = "cutover"

\* An engine about to save a good row is as it should be.
LEMMA SaveOK ==
    ASSUME Inv, NEW e \in Engine, NEW w, NEW c \in RowType, NEW phase, NEW then,
           Saves(eng[e], w, c, phase, then), goodSave(phase, then),
           then \in {"ready", "open", "recDrop"} => eng[e].live, eng[e].saver = NoRow,
           row # NoRow, ~Terminal(row), sameIdentity(row, c), row.live = c.live, row.wm <= c.wm, row.lsn <= c.lsn,
           describes(c), c.st = eng[e].st, c.live = eng[e].live, RowOK([c EXCEPT !.phase = phase])
    PROVE  /\ RowIsOurs(w) /\ PhaseFits(w) /\ WorkOK(w) /\ CopyOK(w) /\ RecopyOK(w) /\ EndOK(w)'
           /\ goal(w) = then /\ w.pc = "save" /\ (then # "swap" => QuietOK(w))
<1>1. saving(w) /\ goal(w) = then /\ ~first(w) /\ target(w) = [c EXCEPT !.phase = phase] /\ w.to = phase
      /\ w.pc = "save" /\ w.cp = c /\ w.live = eng[e].live /\ w.st = eng[e].st /\ w.saver = NoRow /\ w.then = then
  BY Zenon DEF Saves, saving, goal, first, target, goodSave
<1>2. phase \in Phases /\ target(w).phase = phase /\ c # NoRow
  BY <1>1, Zenon DEF goodSave, Phases, RowType, NoRow
<1>3. RowIsOurs(w)
  BY <1>1, <1>2, Zenon DEF RowIsOurs, goodSave, starting, making, ending
<1>4. PhaseFits(w)
  BY <1>1, <1>2, Zenon DEF PhaseFits, goodSave, making, ready, recopying, copying, checking, swapping
<1>5. WorkOK(w)
  BY <1>1, <1>2, Zenon DEF WorkOK
<1>6. CopyOK(w) /\ RecopyOK(w) /\ (then # "swap" => QuietOK(w))
  BY <1>1, Zenon DEF CopyOK, RecopyOK, QuietOK, goodSave, swapping
<1>7. EndOK(w)'
  BY <1>1, Zenon DEF EndOK, goal, saving, ending, goodSave
<1> QED  BY <1>1, <1>3, <1>4, <1>5, <1>6, <1>7, Zenon

\* A run resumed before its swap takes the row as it stands; a live one that was
\* at its cutover catches up again first.
LEMMA ResumeInv == ASSUME Inv, NEW e \in Engine, Resume(e) PROVE Inv'
<1>1. /\ eng[e].pc = "dispatch" /\ rowIsRuns(e) /\ describes(row) /\ ax = NoSwap
      /\ UNCHANGED <<names, table, wal, slot, row, lock, slotLock, ax, reaper, used>>
  BY Zenon DEF Resume, at, mayResume, swapAnswered, Inv, DatabaseOK, SwapOK
<1>2. CASE ~(eng[e].live /\ row.phase = "cutover")
  <2>1. PICK x \in {"ready", "refence"} : x = IF eng[e].live THEN "ready" ELSE "refence"
    BY Zenon
  <2>2. eng' = [eng EXCEPT ![e].pc = x, ![e].cp = row]
    BY <1>2, <2>1, Zenon DEF Resume
  <2>3. (x = "ready" => eng[e].live) /\ (x = "refence" => ~eng[e].live)
    BY <2>1, Zenon
  <2> QED  BY <1>1, <2>2, <2>3, ResumeOn, Zenon
<1>3. CASE eng[e].live /\ row.phase = "cutover"
  <2>1. row \in RowType /\ RowOK(row) /\ row # NoRow
    BY <1>1, Zenon DEF rowIsRuns, Inv, DatabaseOK, RowOK
  <2>2. PICK w : eng' = [eng EXCEPT ![e] = w] /\ Saves(eng[e], w, row, "catching_up", "ready") /\ EngineType(w)
    BY <1>3, <2>1, Saved, Zenon DEF Resume
  <2>3. PICK q : q = [row EXCEPT !.phase = "catching_up"]
    BY Zenon
  <2>4. q \in RowType /\ q.phase = "catching_up" /\ sameIdentity(row, q) /\ q.live = row.live /\ q.wm = row.wm
        /\ q.lsn = row.lsn
    BY <2>1, <2>3, WithPhase, Zenon DEF Phases, sameIdentity
  <2>5. Copied(q) /\ q.wm = LastPart /\ q.lsn <= Len(wal)
    BY <1>3, <2>1, <2>4, Zenon DEF RowOK, RowFits, Copied, sameIdentity
  <2>6. RowOK(q)
    BY <1>1, <2>1, <2>4, <2>5, RowFollows, Zenon DEF describes, Inv
  <2>7. eng[e].saver = NoRow /\ slot.holder # e /\ (MaxLosses = 0 => lock' = e)
    BY <1>1, NotCopying, Here, Zenon DEF LocksOK, copying, checking
  <2>8. /\ RowIsOurs(w) /\ PhaseFits(w) /\ WorkOK(w) /\ CopyOK(w) /\ RecopyOK(w) /\ EndOK(w)'
        /\ goal(w) = "ready" /\ w.pc = "save" /\ QuietOK(w)
    <3>1. ~Terminal(row) /\ row.st = eng[e].st /\ row.live = eng[e].live
      BY <1>1, Zenon DEF rowIsRuns
    <3>2. sameIdentity(row, row) /\ row.wm <= row.wm /\ row.lsn <= row.lsn
      BY <2>1 DEF sameIdentity, RowType
    <3>3. goodSave("catching_up", "ready")
      BY Zenon DEF goodSave
    <3>4. RowOK([row EXCEPT !.phase = "catching_up"])
      BY <2>3, <2>6, Zenon
    <3>5. describes(row) /\ eng[e].live /\ "ready" # "swap"
      BY <1>1, <1>3, Zenon
    <3> QED  BY <2>1, <2>2, <2>7, <3>1, <3>2, <3>3, <3>4, <3>5, SaveOK, Zenon
  <2>9. Quieter /\ ReaperOK'
    BY <1>1, SlotQuiet, TablesQuiet, UsedQuiet, SameReaper, Zenon DEF Quieter, Inv
  <2>10. LocksOK(e, w)' /\ StreamOK(e, w)
    BY <1>1, <2>7, <2>8, Zenon DEF LocksOK, StreamOK, goal, saving
  <2> QED  BY <1>1, <2>2, <2>8, <2>9, <2>10, QuietStep, Zenon
<1> QED  BY <1>2, <1>3, Zenon

\* Under a phase, a row's watermark is right.
Carries(c, phase) ==
    \A q : sameIdentity(c, q) /\ q.live = c.live /\ q.wm = c.wm /\ q.lsn = c.lsn /\ q.phase = phase => Copied(q)

\* A working engine saves a row that follows its own.
LEMMA SaveStep ==
    ASSUME Inv, NEW e \in Engine, goal(eng[e]) \in working, ~saving(eng[e]), eng[e].saver = NoRow,
           NEW c \in RowType, NEW phase, NEW then, save(e, c, phase, then), goodSave(phase, then),
           then \in {"ready", "open", "recDrop"} => eng[e].live,
           sameIdentity(cp(e), c), c.live = cp(e).live, cp(e).wm <= c.wm, cp(e).lsn <= c.lsn,
           c.lsn <= Len(wal), phase \notin {"copying", "reconciling"} => c.wm = LastPart,
           c.live \/ phase # "reconciling", Carries(c, phase),
           Quieter, UNCHANGED <<lock, ax, reaper>>, slotLock' = slotLock \/ slotLock # Reaper,
           \/ slot'.holder # e
           \/ then \in {"mark", "verify"} /\ eng[e].landed = LastPart /\ c.lsn <= eng[e].applied,
           then = "swap" => eng[e].pc = "gate", then = "recDrop" => slotLock' = e
    PROVE  Inv'
<1>1. PICK v : v = eng[e]
  BY Zenon
<1>2. PICK w : eng' = [eng EXCEPT ![e] = w] /\ Saves(v, w, c, phase, then) /\ EngineType(w)
  BY <1>1, Saved, Zenon
<1>3. /\ v.cp \in RowType /\ v.cp # NoRow /\ v.cp.shadow = names.shadow /\ v.cp.src = names.source
      /\ v.cp.live = v.live /\ v.cp.st = v.st /\ RowOK(v.cp) /\ row = v.cp /\ goal(v) = v.pc /\ goal(v) # "idle"
  <2>1. target(v) = v.cp /\ goal(v) = v.pc /\ row = v.cp
    BY <1>1, Here, Zenon DEF target, goal, RowIsOurs
  <2> QED  BY <1>1, <2>1, Here, AtWork, Zenon DEF working, ready, recopying, copying, checking, swapping
<1>4. ~Terminal(row)
  BY <1>1, <1>3, Here, Zenon DEF PhaseFits, Terminal, working, target, ready, recopying, copying, checking, swapping
<1>5. PICK q : q = [c EXCEPT !.phase = phase]
  BY Zenon
<1>6. q \in RowType /\ q.phase = phase /\ q.live = c.live /\ q.wm = c.wm /\ q.lsn = c.lsn /\ sameIdentity(c, q)
  <2>1. phase \in Phases
    BY Zenon DEF goodSave, Phases
  <2> QED  BY <1>5, <2>1, WithPhase, Zenon DEF sameIdentity
<1>7. RowOK(q)
  <2>1. names.shadow = v.cp.shadow /\ sameIdentity(v.cp, q) /\ q.live = v.cp.live /\ q.lsn <= Len(wal)
    BY <1>1, <1>3, <1>6, Zenon DEF sameIdentity, cp
  <2>2. /\ q.phase \notin {"copying", "reconciling"} => q.wm = LastPart
        /\ q.live \/ q.phase # "reconciling"
    BY <1>6, Zenon
  <2>3. Copied(q)
    BY <1>6, Zenon DEF Carries
  <2> QED  BY <1>3, <1>6, <2>1, <2>2, <2>3, RowFollows, Zenon DEF Inv
<1>8. describes(c) /\ c.st = v.st /\ c.live = v.live /\ sameIdentity(row, c)
  BY <1>1, <1>3, Zenon DEF describes, sameIdentity, cp
<1>9. /\ RowIsOurs(w) /\ PhaseFits(w) /\ WorkOK(w) /\ CopyOK(w) /\ RecopyOK(w) /\ EndOK(w)'
      /\ goal(w) = then /\ w.pc = "save" /\ (then # "swap" => QuietOK(w))
  BY <1>1, <1>2, <1>3, <1>4, <1>5, <1>7, <1>8, SaveOK, Zenon DEF cp
<1>10. w.cp = c /\ w.live = v.live /\ w.landed = v.landed /\ w.applied = v.applied /\ w.saver = NoRow
  BY <1>1, <1>2, Zenon DEF Saves
<1>11. QuietOK(w)
  BY <1>1, <1>3, <1>9, <1>10, Here, Zenon DEF QuietOK, cp, sameIdentity, swapping
<1>12. StreamOK(e, w) \/ slot'.holder # e
  <2>1. ASSUME slot'.holder = e PROVE StreamOK(e, w)
    <3>1. StreamOK(e, v) /\ c.shadow = v.cp.shadow /\ then \in checking /\ v.landed = LastPart
          /\ c.lsn <= v.applied /\ c.wm <= LastPart
      BY <1>1, <2>1, Here DEF sameIdentity, cp, checking, RowType
    <3> QED  BY <1>9, <1>10, <3>1, Zenon DEF StreamOK
  <2> QED  BY <2>1, Zenon
<1>13. LocksOK(e, w)'
  <2>1. v.pc \notin {"idle", "dispatch", "committing"}
    BY <1>1, <1>3, Zenon DEF working, ready, recopying, copying, checking, swapping
  <2>2. ax' = NoSwap /\ (MaxLosses = 0 => lock' = e)
    BY <1>1, <2>1, Here, Zenon DEF LocksOK
  <2>3. goal(w)' = then /\ then \notin {"create", "release", "recCreate"}
    BY <1>9, Zenon DEF goal, saving, goodSave
  <2> QED  BY <1>9, <2>2, <2>3, Zenon DEF LocksOK
<1>14. ReaperOK'
  BY ReaperWaits, Zenon DEF Inv, Quieter
<1>15. eng[e].pc # "idle"
  BY <1>1, <1>3, Zenon
<1> QED  BY <1>2, <1>9, <1>11, <1>12, <1>13, <1>14, <1>15, QuietStep, Zenon

\* Beside its stream an engine's position is between the row's and the stream's.
LEMMA ConfirmedIs ==
    ASSUME Inv, NEW e \in Engine, goal(eng[e]) \in working, ~saving(eng[e]), capturing(e)
    PROVE  /\ confirmed(e) \in Nat /\ cp(e).lsn <= confirmed(e) /\ confirmed(e) <= Len(wal)
           /\ eng[e].live => confirmed(e) <= eng[e].applied /\ confirmed(e) = Larger(slot.at, cp(e).lsn)
           /\ Larger(slot.at, confirmed(e)) = Larger(slot.at, cp(e).lsn)
           /\ cp(e) \in RowType /\ RowOK(cp(e)) /\ cp(e).shadow = names.shadow /\ row = cp(e)
<1>1. PICK v : v = eng[e]
  BY Zenon
<1>2. target(v) = v.cp /\ goal(v) = v.pc /\ row = v.cp
  BY <1>1, Here, Zenon DEF target, goal, RowIsOurs
<1>3. v.cp \in RowType /\ RowOK(v.cp) /\ v.cp.shadow = names.shadow
  BY <1>1, <1>2, Here, AtWork, Zenon
<1>4. v.cp.lsn \in Nat /\ v.cp.lsn <= Len(wal) /\ slot.at \in Nat /\ slot.at <= Len(wal) /\ Len(wal) \in Nat
  BY <1>3 DEF RowType, RowOK, RowFits, Inv, DatabaseOK, DatabaseType
<1>5. v.live => slot.at <= v.applied /\ v.cp.lsn <= v.applied
  BY <1>1, Here, Zenon DEF capturing, StreamOK
<1> QED  BY <1>1, <1>2, <1>3, <1>4, <1>5 DEF confirmed, Larger, cp

\* A row with the position confirmed says no less than the engine's own.
LEMMA Confirms ==
    ASSUME Inv, NEW e \in Engine, goal(eng[e]) \in working, ~saving(eng[e]), capturing(e),
           cp(e).phase # "reconciling", NEW q, sameIdentity(cp(e), q), q.live = cp(e).live, q.wm = cp(e).wm,
           q.lsn = confirmed(e)
    PROVE  Copied(q)
BY ConfirmedIs, Zenon DEF RowOK, Copied, sameIdentity

\* A row with another position is a row.
LEMMA WithPosition ==
    ASSUME NEW r \in RowType, NEW lsn \in Nat
    PROVE  LET c == [r EXCEPT !.lsn = lsn]
           IN  c \in RowType /\ sameIdentity(r, c) /\ c.live = r.live /\ c.phase = r.phase /\ c.wm = r.wm /\ c.lsn = lsn
BY Zenon DEF RowType, sameIdentity

\* The stream has passed the marker: the row is saved as verifying.
LEMMA CaughtUpInv == ASSUME Inv, NEW e \in Engine, CaughtUp(e) PROVE Inv'
<1>1. /\ eng[e].pc = "await" /\ capturing(e) /\ UNCHANGED <<lock, ax, reaper, slotLock, slot>> /\ Quieter
      /\ save(e, [cp(e) EXCEPT !.lsn = confirmed(e)], "verifying", "verify")
  BY SlotQuiet, TablesQuiet, UsedQuiet, Zenon DEF Quieter, Inv, CaughtUp, at
<1>2. goal(eng[e]) = "await" /\ ~saving(eng[e]) /\ target(eng[e]) = cp(e) /\ "await" \in working
  BY <1>1, GoalIs, Zenon DEF working, checking, cp
<1>3. /\ confirmed(e) \in Nat /\ cp(e).lsn <= confirmed(e) /\ confirmed(e) <= Len(wal)
      /\ eng[e].live => confirmed(e) <= eng[e].applied
      /\ cp(e) \in RowType /\ RowOK(cp(e))
  BY <1>1, <1>2, ConfirmedIs, Zenon
<1>4. cp(e).phase \notin {"copying", "reconciling", "done"} /\ cp(e).wm = LastPart /\ eng[e].saver = NoRow
  BY <1>1, <1>2, <1>3, Here, Zenon DEF PhaseFits, CopyOK, RowOK, RowFits, checking
<1>5. PICK c : c = [cp(e) EXCEPT !.lsn = confirmed(e)]
  BY Zenon
<1>6. c \in RowType /\ sameIdentity(cp(e), c) /\ c.live = cp(e).live /\ c.wm = cp(e).wm /\ c.lsn = confirmed(e)
  BY <1>3, <1>5, WithPosition, Zenon DEF RowType
<1>7. Carries(c, "verifying")
  BY <1>1, <1>2, <1>4, <1>6, Confirms, Zenon DEF Carries, sameIdentity
<1>8. slot'.holder # e \/ (eng[e].landed = LastPart /\ c.lsn <= eng[e].applied)
  <2>1. ASSUME slot.holder = e PROVE eng[e].live /\ eng[e].landed = LastPart
    BY <1>2, <2>1, Here, Zenon DEF StreamOK, checking
  <2>2. slot' = slot /\ (eng[e].live => c.lsn <= eng[e].applied)
    BY <1>1, <1>3, <1>6, Zenon
  <2> QED  BY <2>1, <2>2, Zenon
<1>9. cp(e).wm <= c.wm /\ c.wm = LastPart
  BY <1>3, <1>4, <1>6 DEF RowType
<1> QED  BY <1>1, <1>2, <1>3, <1>4, <1>5, <1>6, <1>7, <1>8, <1>9, SaveStep, Zenon DEF goodSave

\* The gate saves cutover before the swap is tried.
LEMMA GateCutoverInv == ASSUME Inv, NEW e \in Engine, GateCutover(e) PROVE Inv'
<1>1. /\ eng[e].pc = "gate" /\ capturing(e) /\ UNCHANGED <<lock, ax, reaper, slotLock>> /\ Quieter /\ ax = NoSwap
  BY SlotQuiet, TablesQuiet, UsedQuiet, Zenon DEF Quieter, Inv, GateCutover, at
<1>2. slot'.holder # e
  <2>1. slot.holder = e => eng[e].live
    BY Here, Zenon DEF StreamOK
  <2> QED  BY <2>1, RunnerBounds, Zenon DEF GateCutover, Inv, DatabaseOK, DatabaseType
<1>3. CASE ~eng[e].live /\ cp(e).phase = "cutover"
  <2>1. PICK w : eng' = [eng EXCEPT ![e] = w] /\ Moves(eng[e], w, "swap") /\ EngineType(w)
    BY <1>3, Moved, Zenon DEF GateCutover
  <2>2. /\ RowIsOurs(w) /\ PhaseFits(w) /\ WorkOK(w) /\ CopyOK(w) /\ RecopyOK(w) /\ StreamOK(e, w) /\ QuietOK(w)
        /\ goal(w) = "swap" /\ w.pc = "swap"
    BY <1>1, <1>3, <2>1, Onward, Zenon DEF Moves, onward, cp
  <2>3. EndOK(w)' /\ LocksOK(e, w)'
    BY <1>1, <2>2, Here, Zenon DEF EndOK, goal, saving, ending, LocksOK
  <2>4. ReaperOK'
    BY <1>1, SameReaper, Zenon DEF Inv, Quieter
  <2> QED  BY <1>1, <2>1, <2>2, <2>3, <2>4, QuietStep, Zenon
<1>4. CASE ~(~eng[e].live /\ cp(e).phase = "cutover")
  <2>1. save(e, [cp(e) EXCEPT !.lsn = confirmed(e)], "cutover", "swap")
    BY <1>4, Zenon DEF GateCutover
  <2>2. goal(eng[e]) = "gate" /\ ~saving(eng[e]) /\ target(eng[e]) = cp(e) /\ "gate" \in working
    BY <1>1, GoalIs, Zenon DEF working, checking, cp
  <2>3. /\ confirmed(e) \in Nat /\ cp(e).lsn <= confirmed(e) /\ confirmed(e) <= Len(wal)
        /\ cp(e) \in RowType /\ RowOK(cp(e))
    BY <1>1, <2>2, ConfirmedIs, Zenon
  <2>4. cp(e).phase \notin {"copying", "reconciling", "done"} /\ cp(e).wm = LastPart /\ eng[e].saver = NoRow
    BY <1>1, <2>2, <2>3, Here, Zenon DEF PhaseFits, CopyOK, RowOK, RowFits, checking
  <2>5. PICK c : c = [cp(e) EXCEPT !.lsn = confirmed(e)]
    BY Zenon
  <2>6. c \in RowType /\ sameIdentity(cp(e), c) /\ c.live = cp(e).live /\ c.wm = cp(e).wm /\ c.lsn = confirmed(e)
    BY <2>3, <2>5, WithPosition, Zenon DEF RowType
  <2>7. Carries(c, "cutover")
    BY <1>1, <2>2, <2>4, <2>6, Confirms, Zenon DEF Carries, sameIdentity
  <2>8. cp(e).wm <= c.wm /\ c.wm = LastPart
    BY <2>3, <2>4, <2>6 DEF RowType
  <2> QED  BY <1>1, <1>2, <2>1, <2>2, <2>3, <2>4, <2>5, <2>6, <2>7, <2>8, SaveStep, Zenon DEF goodSave
<1> QED  BY <1>3, <1>4, Zenon

\* What the copy has landed may be recorded.
LEMMA Landed ==
    ASSUME Inv, NEW e \in Engine, eng[e].pc = "copy", capturing(e), NEW q, sameIdentity(cp(e), q),
           q.live = cp(e).live, q.wm = eng[e].landed, q.lsn = confirmed(e)
    PROVE  Copied(q)
<1>1. goal(eng[e]) = "copy" /\ ~saving(eng[e]) /\ "copy" \in working
  BY GoalIs, Zenon DEF working, copying
<1>2. /\ confirmed(e) \in Nat /\ cp(e).lsn <= confirmed(e)
      /\ eng[e].live => confirmed(e) <= eng[e].applied /\ confirmed(e) = Larger(slot.at, cp(e).lsn)
      /\ Larger(slot.at, confirmed(e)) = Larger(slot.at, cp(e).lsn)
  BY <1>1, ConfirmedIs, Zenon
<1>3. cp(e).live = eng[e].live
  BY <1>1, Here, AtWork, Zenon DEF cp
<1>4. \A p \in Part : p <= eng[e].landed => table[cp(e).shadow].rows[p] # Absent
  BY Here, Zenon DEF CopyOK, cp
<1>5. ASSUME NEW p \in Part, p <= eng[e].landed, eng[e].live
      PROVE  Owes(table[cp(e).shadow].rows, confirmed(e), p)
  <2>1. Owes(table[cp(e).shadow].rows, eng[e].applied, p) /\ eng[e].applied \in Nat
    BY <1>5, Here, Zenon DEF StreamOK, capturing, cp, EngineType
  <2> QED  BY <1>2, <1>5, <2>1, Sooner, Zenon
<1> QED  BY <1>2, <1>3, <1>4, <1>5, Zenon DEF Copied, sameIdentity

\* A copy that landed every part saves its watermark, and catches up.
LEMMA CopyDoneInv == ASSUME Inv, NEW e \in Engine, CopyDone(e) PROVE Inv'
<1>1. /\ eng[e].pc = "copy" /\ capturing(e) /\ UNCHANGED <<lock, ax, reaper, slotLock, slot>> /\ Quieter
      /\ eng[e].saver = NoRow /\ eng[e].landed = LastPart
  BY SlotQuiet, TablesQuiet, UsedQuiet, Zenon DEF Quieter, Inv, CopyDone, at
<1>2. goal(eng[e]) = "copy" /\ ~saving(eng[e]) /\ target(eng[e]) = cp(e) /\ "copy" \in working
  BY <1>1, GoalIs, Zenon DEF working, copying, cp
<1>3. /\ confirmed(e) \in Nat /\ cp(e).lsn <= confirmed(e) /\ confirmed(e) <= Len(wal)
      /\ eng[e].live => confirmed(e) <= eng[e].applied
      /\ cp(e) \in RowType /\ RowOK(cp(e))
  BY <1>1, <1>2, ConfirmedIs, Zenon
<1>4. PICK c : c = [cp(e) EXCEPT !.wm = LastPart, !.lsn = confirmed(e)]
  BY Zenon
<1>5. PICK phase, then : /\ save(e, c, phase, then)
                         /\ \/ phase = "catching_up" /\ then = "mark" /\ eng[e].live
                            \/ phase = "verifying" /\ then = "verify" /\ ~eng[e].live
  BY <1>4, Zenon DEF CopyDone
<1>6. c \in RowType /\ sameIdentity(cp(e), c) /\ c.live = cp(e).live /\ c.wm = LastPart /\ c.lsn = confirmed(e)
  <2>1. LastPart \in 0 .. LastPart
    BY RunnerBounds
  <2>2. PICK r, n : r = cp(e) /\ n = confirmed(e)
    BY Zenon
  <2>3. r \in RowType /\ n \in Nat /\ c = [r EXCEPT !.wm = LastPart, !.lsn = n]
    BY <1>3, <1>4, <2>2, Zenon
  <2>4. c \in RowType /\ sameIdentity(r, c) /\ c.live = r.live /\ c.wm = LastPart /\ c.lsn = n
    BY <2>1, <2>3, Zenon DEF RowType, sameIdentity
  <2> QED  BY <2>2, <2>4, Zenon
<1>7. Carries(c, phase)
  BY <1>1, <1>6, Landed, Zenon DEF Carries, sameIdentity
<1>8. slot'.holder # e \/ c.lsn <= eng[e].applied
  BY <1>1, <1>3, <1>6, Here, Zenon DEF StreamOK
<1>9. cp(e).wm <= c.wm
  BY <1>3, <1>6 DEF RowType
<1>10. goodSave(phase, then) /\ then \in {"mark", "verify"} /\ phase # "reconciling"
  BY <1>5, Zenon DEF goodSave
<1> QED  BY <1>1, <1>2, <1>3, <1>5, <1>6, <1>7, <1>8, <1>9, <1>10, SaveStep, Zenon

\* The saver's row claims what has landed and what the slot confirms, no more.
LEMMA SaverReadInv == ASSUME Inv, NEW e \in Engine, SaverRead(e) PROVE Inv'
<1>1. /\ eng[e].pc = "copy" /\ capturing(e) /\ UNCHANGED <<lock, ax, reaper, slotLock, slot, row>> /\ Quieter
  BY SlotQuiet, TablesQuiet, UsedQuiet, Zenon DEF Quieter, Inv, SaverRead, at
<1>2. goal(eng[e]) = "copy" /\ ~saving(eng[e]) /\ ~first(eng[e]) /\ target(eng[e]) = cp(e) /\ "copy" \in working
  BY <1>1, GoalIs, Zenon DEF working, copying, cp
<1>3. /\ confirmed(e) \in Nat /\ cp(e).lsn <= confirmed(e) /\ confirmed(e) <= Len(wal)
      /\ eng[e].live => confirmed(e) <= eng[e].applied
      /\ cp(e) \in RowType /\ RowOK(cp(e)) /\ cp(e).shadow = names.shadow
  BY <1>1, <1>2, ConfirmedIs, Zenon
<1>4. PICK c : c = [cp(e) EXCEPT !.wm = eng[e].landed, !.lsn = confirmed(e)]
  BY Zenon
<1>5. EngineType(eng[e]) /\ eng[e].landed \in 0 .. LastPart
  BY Here, Zenon DEF EngineType
<1>6. c \in RowType /\ sameIdentity(cp(e), c) /\ c.live = cp(e).live /\ c.phase = cp(e).phase
      /\ c.wm = eng[e].landed /\ c.lsn = confirmed(e)
  <2>1. PICK r, m, n : r = cp(e) /\ n = confirmed(e) /\ m = eng[e].landed
    BY Zenon
  <2>2. r \in RowType /\ n \in Nat /\ m \in 0 .. LastPart /\ c = [r EXCEPT !.wm = m, !.lsn = n]
    BY <1>3, <1>4, <1>5, <2>1, Zenon
  <2>3. c \in RowType /\ sameIdentity(r, c) /\ c.live = r.live /\ c.phase = r.phase /\ c.wm = m /\ c.lsn = n
    BY <2>2, Zenon DEF RowType, sameIdentity
  <2> QED  BY <2>1, <2>3, Zenon
<1>7. cp(e).phase = "copying" /\ eng[e].landed > cp(e).wm
  BY <1>2, Here, Zenon DEF PhaseFits, copying, SaverRead
<1>8. RowOK(c)
  <2>1. Copied(c)
    BY <1>1, <1>6, Landed, Zenon
  <2> QED  BY <1>3, <1>6, <1>7, <2>1, RowFollows, Zenon DEF Inv
<1>9. PICK w : w = [eng[e] EXCEPT !.saver = c]
  BY Zenon
<1>10. eng' = [eng EXCEPT ![e] = w]
  BY <1>4, <1>9, Zenon DEF SaverRead
<1>11. /\ Whole(w) /\ w.pc = "copy" /\ w.live = eng[e].live /\ w.st = eng[e].st /\ w.cp = eng[e].cp
       /\ w.landed = eng[e].landed /\ w.applied = eng[e].applied /\ w.mark = eng[e].mark /\ w.then = eng[e].then
       /\ w.to = eng[e].to /\ w.saver = c
  BY <1>1, <1>5, <1>9, Zenon DEF EngineType, Whole, Fields
<1>12. EngineType(w)
  BY <1>5, <1>6, <1>11, Zenon DEF EngineType
<1>13. goal(w) = "copy" /\ ~saving(w) /\ ~first(w) /\ target(w) = cp(e)
  BY <1>11, GoalIs, Zenon DEF cp
<1>14. RowIsOurs(w) /\ PhaseFits(w) /\ WorkOK(w)
  BY <1>1, <1>11, Here, SamePlace, Zenon
<1>15. CopyOK(w)
  <2>1. w.saver.wm <= w.landed /\ w.cp.wm <= w.saver.wm /\ w.cp.lsn <= w.saver.lsn
    BY <1>3, <1>5, <1>6, <1>7, <1>11 DEF cp, RowType
  <2>2. sameIdentity(w.saver, w.cp) /\ w.saver.live = w.cp.live /\ w.saver.phase = "copying" /\ RowOK(w.saver)
    BY <1>6, <1>7, <1>8, <1>11, Zenon DEF cp, sameIdentity
  <2> QED  BY <1>1, <1>11, <2>1, <2>2, Here, Zenon DEF CopyOK
<1>16. StreamOK(e, w)
  BY <1>2, <1>3, <1>6, <1>11, <1>13, Here, Zenon DEF StreamOK
<1>17. RecopyOK(w) /\ QuietOK(w) /\ EndOK(w)'
  BY <1>11, <1>13, Zenon DEF RecopyOK, QuietOK, EndOK, swapping, ending, goal, saving
<1>18. LocksOK(e, w)' /\ ReaperOK'
  BY <1>1, <1>11, <1>13, Here, SameReaper, Zenon DEF LocksOK, goal, saving
<1> QED  BY <1>1, <1>10, <1>12, <1>14, <1>15, <1>16, <1>17, <1>18, QuietStep, Zenon

\* Before it replaces the slot a live engine's row says it is reconciling.
LEMMA LockSlotNameInv == ASSUME Inv, NEW e \in Engine, LockSlotName(e) PROVE Inv'
<1>1. CASE at(e, "claim")
  BY <1>1, ClaimInv, Zenon
<1>2. CASE ~at(e, "claim")
  <2>1. /\ eng[e].pc = "recClaim" /\ UNCHANGED <<lock, ax, reaper, slot>> /\ Quieter /\ slotLock = None
        /\ save(e, cp(e), "reconciling", "recDrop")
    BY <1>2, SlotQuiet, TablesQuiet, UsedQuiet, Zenon DEF Quieter, Inv, LockSlotName, at
  <2>2. goal(eng[e]) = "recClaim" /\ ~saving(eng[e]) /\ target(eng[e]) = cp(e) /\ "recClaim" \in working
    BY <2>1, GoalIs, Zenon DEF working, ready, cp
  <2>3. cp(e) \in RowType /\ RowOK(cp(e)) /\ eng[e].live /\ cp(e).live = eng[e].live
    <3>1. PhaseFits(eng[e])
      BY Here, Zenon
    <3> QED  BY <2>2, <3>1, WorkHere, Zenon DEF cp, PhaseFits, ready
  <2>4. eng[e].saver = NoRow /\ slot'.holder # e
    BY <2>1, NotCopying, Zenon DEF copying, checking
  <2>5. sameIdentity(cp(e), cp(e)) /\ cp(e).wm <= cp(e).wm /\ cp(e).lsn <= cp(e).lsn /\ cp(e).lsn <= Len(wal)
    BY <2>3 DEF sameIdentity, RowType, RowOK, RowFits
  <2>6. Carries(cp(e), "reconciling")
    BY <2>3, Zenon DEF Carries, RowOK, Copied, sameIdentity
  <2>7. slotLock # Reaper /\ slotLock' = e
    BY <1>2, <2>1, RunnerBounds, Zenon DEF LockSlotName
  <2> QED  BY <2>1, <2>2, <2>3, <2>4, <2>5, <2>6, <2>7, SaveStep, Zenon DEF goodSave
<1> QED  BY <1>1, <1>2, Zenon

\* The recopy is done: what it lacks the new slot has.
LEMMA ReconcileDoneInv == ASSUME Inv, NEW e \in Engine, ReconcileDone(e) PROVE Inv'
<1>1. /\ eng[e].pc = "recCopy" /\ UNCHANGED <<lock, ax, reaper, slot, slotLock>> /\ Quieter
      /\ eng[e].landed = cp(e).wm
  BY SlotQuiet, TablesQuiet, UsedQuiet, Zenon DEF Quieter, Inv, ReconcileDone, at
<1>2. goal(eng[e]) = "recCopy" /\ ~saving(eng[e]) /\ target(eng[e]) = cp(e) /\ "recCopy" \in working
  BY <1>1, GoalIs, Zenon DEF working, recopying, cp
<1>3. cp(e) \in RowType /\ RowOK(cp(e)) /\ eng[e].live /\ cp(e).live = eng[e].live /\ cp(e).phase = "reconciling"
      /\ cp(e).shadow = names.shadow
  <2>1. PhaseFits(eng[e])
    BY Here
  <2> QED  BY <1>2, <2>1, WorkHere, Zenon DEF cp, PhaseFits, recopying
<1>4. eng[e].saver = NoRow /\ slot'.holder # e
  BY <1>1, NotCopying, Zenon DEF copying, checking
<1>5. /\ eng[e].mark \in Nat /\ eng[e].mark <= Len(wal) /\ (slot.exists => slot.at = eng[e].mark)
      /\ \A p \in Part : p <= cp(e).wm => Owes(table[cp(e).shadow].rows, eng[e].mark, p)
      /\ cp(e).lsn <= eng[e].mark
  BY <1>1, Here, Zenon DEF RecopyOK, cp, EngineType
<1>6. PICK c : c = [cp(e) EXCEPT !.lsn = eng[e].mark]
  BY Zenon
<1>7. PICK phase : phase = phaseAfterReconcile(cp(e))
  BY Zenon
<1>8. c \in RowType /\ sameIdentity(cp(e), c) /\ c.live = cp(e).live /\ c.wm = cp(e).wm /\ c.lsn = eng[e].mark
  BY <1>3, <1>5, <1>6, WithPosition, Zenon
<1>9. goodSave(phase, "open") /\ (phase \notin {"copying", "reconciling"} => c.wm = LastPart) /\ phase # "reconciling"
  BY <1>7, <1>8, Zenon DEF goodSave, phaseAfterReconcile
<1>10. save(e, c, phase, "open")
  BY <1>6, <1>7, Zenon DEF ReconcileDone
<1>11. Carries(c, phase)
  <2>1. ASSUME slot.exists PROVE Larger(slot.at, eng[e].mark) = eng[e].mark
    BY <1>5, <2>1, Zenon DEF Larger
  <2>2. \A p \in Part : p <= cp(e).wm => table[cp(e).shadow].rows[p] # Absent
    BY <1>3, Zenon DEF RowOK, Copied
  <2> QED  BY <1>5, <1>8, <2>1, <2>2 DEF Carries, Copied, sameIdentity
<1>12. cp(e).lsn <= c.lsn
  BY <1>5, <1>8, Zenon
<1>13. cp(e).wm <= c.wm /\ c.live
  BY <1>3, <1>8 DEF RowType
<1> QED  BY <1>1, <1>2, <1>3, <1>4, <1>5, <1>8, <1>9, <1>10, <1>11, <1>12, <1>13, SaveStep, Zenon

-----------------------------------------------------------------------------
(* Beginning and ending a run. *)

\* A run begins, when no engine works or there is but one engine.
LEMMA RunInv ==
    ASSUME Inv, NEW e \in Engine, NEW live \in BOOLEAN, NEW st \in Statement, NEW restart,
           Run(e, live, st, restart), MaxLosses = 0 \/ \A f, g \in Engine : f = g
    PROVE  Inv'
<1>1. eng[e].pc = "idle" /\ lock = None /\ lock' = e
      /\ UNCHANGED <<names, table, wal, slot, row, slotLock, ax, reaper, used>>
  BY Zenon DEF Run, at
<1>2. PICK w : w = [Idle EXCEPT !.pc = "dispatch", !.live = live, !.st = st, !.restart = restart]
  BY Zenon
<1>3. eng' = [eng EXCEPT ![e] = w]
  BY <1>2, Zenon DEF Run
<1>4. Whole(w) /\ w.pc = "dispatch" /\ w.live = live /\ w.st = st /\ w.cp = NoRow /\ w.saver = NoRow
      /\ w.landed = 0 /\ w.applied = 0 /\ w.mark = 0
  BY <1>2, Zenon DEF Idle, Whole, Fields
<1>5. EngineType(w)
  <2>1. w.live \in BOOLEAN
    BY <1>4, Zenon
  <2>2. w.landed \in 0 .. LastPart /\ w.applied \in Nat /\ w.mark \in Nat
    BY <1>4, RunnerBounds
  <2> QED  BY <1>4, <2>1, <2>2, Zenon DEF EngineType
<1>6. \A f \in Engine : f # e => eng[f] = Idle /\ slot.holder # f
  <2>1. ASSUME NEW f \in Engine, f # e PROVE eng[f].pc = "idle"
    BY <1>1, <2>1, Here, RunnerBounds, Zenon DEF LocksOK
  <2>2. ASSUME NEW f \in Engine, f # e PROVE eng[f] = Idle /\ slot.holder # f
    <3>1. goal(eng[f]) = "idle" /\ eng[f] = Idle
      BY <2>1, <2>2, Here, GoalIs, Zenon DEF LocksOK
    <3> QED  BY <2>2, <3>1, Here, Zenon DEF StreamOK, copying, checking
  <2> QED  BY <2>2, Zenon
<1>7. slot'.holder # e
  BY <1>1, NotCopying, Zenon DEF copying, checking
<1>8. EngineOK(e, w)'
  <2>1. goal(w)' = "dispatch" /\ ~saving(w)' /\ ~first(w)'
    BY <1>4, Zenon DEF goal, saving, first
  <2>2. EngineType(w)' /\ RowIsOurs(w)' /\ PhaseFits(w)' /\ WorkOK(w)'
    BY <1>4, <1>5, <2>1, Zenon DEF EngineType, Whole, RowIsOurs, PhaseFits, WorkOK, working, starting, making, ready,
       recopying, copying, checking, swapping, ending, saving
  <2>3. StreamOK(e, w)' /\ CopyOK(w)' /\ RecopyOK(w)' /\ QuietOK(w)' /\ EndOK(w)' /\ LocksOK(e, w)'
    BY <1>1, <1>4, <1>7, <2>1, Zenon DEF StreamOK, CopyOK, RecopyOK, QuietOK, EndOK, LocksOK, swapping, ending
  <2> QED  BY <2>2, <2>3, Zenon DEF EngineOK
<1>9. eng' = [f \in Engine |-> eng'[f]] /\ eng'[e] = w /\ \A f \in Engine : f # e => eng'[f] = Idle
  BY <1>3, <1>6, Zenon DEF Inv
<1>10. \A f \in Engine : EngineOK(f, eng[f])'
  <2>1. ASSUME NEW f \in Engine, f # e PROVE EngineOK(f, eng[f])'
    BY <1>1, <1>6, <1>9, <2>1, IdleOK, Zenon
  <2>2. EngineOK(e, eng[e])'
    BY <1>8, <1>9, Zenon
  <2> QED  BY <2>1, <2>2, Zenon
<1>11. OneWorks'
  BY <1>9 DEF OneWorks, Idle
<1>12. DatabaseOK'
  BY <1>1, SlotQuiet, TablesQuiet, UsedQuiet, SameReaper, QuietDatabase, Zenon DEF Quieter, Inv
<1> QED  BY <1>9, <1>10, <1>11, <1>12, Zenon DEF Inv

\* A crash ends the run wherever it is.
LEMMA CrashInv == ASSUME Inv, NEW e \in Engine, Crash(e) PROVE Inv'
BY HaltInv, Zenon DEF Crash, at

\* The run reports its change done.
LEMMA FinishInv == ASSUME Inv, NEW e \in Engine, Finish(e) PROVE Inv'
BY HaltInv, Zenon DEF Finish, at

\* The run refuses, and leaves everything as it is.
LEMMA RefuseInv == ASSUME Inv, NEW e \in Engine, Refuse(e) PROVE Inv'
<1>1. eng[e].pc # "idle"
  BY Zenon DEF Refuse, refused, at, dispatchRefused, filling
<1> QED  BY <1>1, HaltInv, Zenon DEF Refuse

\* The save confirms the table lock before it commits.
LEMMA SaveConfirmInv == ASSUME Inv, NEW e \in Engine, SaveConfirm(e) PROVE Inv'
<1>1. PICK w : eng' = [eng EXCEPT ![e] = w] /\ Moves(eng[e], w, "commit") /\ EngineType(w)
  BY Moved, Zenon DEF SaveConfirm
<1>2. Quieter /\ UNCHANGED <<lock, ax, reaper, row, slotLock, slot, names, table>> /\ eng[e].pc = "save"
  BY SlotQuiet, TablesQuiet, UsedQuiet, Zenon DEF Quieter, Inv, SaveConfirm, at
<1>3. PICK v : v = eng[e]
  BY Zenon
<1>4. /\ goal(w) = goal(v) /\ saving(w) /\ saving(v) /\ (first(w) <=> first(v)) /\ target(w) = target(v)
      /\ w.pc = "commit" /\ w.cp = v.cp /\ w.live = v.live /\ w.st = v.st /\ w.to = v.to /\ w.then = v.then
      /\ w.landed = v.landed /\ w.applied = v.applied /\ w.saver = v.saver
  BY <1>1, <1>2, <1>3, Zenon DEF goal, saving, first, target, Moves
<1>5. RowIsOurs(w) /\ PhaseFits(w)
  BY <1>3, <1>4, Here, SamePlace, ZenonT(30)
<1>6. WorkOK(w) /\ StreamOK(e, w) /\ QuietOK(w)
  BY <1>3, <1>4, Here DEF WorkOK, StreamOK, QuietOK
<1>7. CopyOK(w) /\ RecopyOK(w)
  BY <1>2, <1>3, <1>4, Here, Zenon DEF CopyOK, RecopyOK
<1>8. EndOK(w)'
  <2>1. EndOK(w)
    BY <1>3, <1>4, Here, Zenon DEF EndOK
  <2> QED  BY <1>2, <2>1, Zenon DEF EndOK, goal, saving
<1>9. LocksOK(e, w)' /\ ReaperOK'
  BY <1>2, <1>3, <1>4, Here, SameReaper, Zenon DEF LocksOK, goal, saving
<1> QED  BY <1>1, <1>2, <1>5, <1>6, <1>7, <1>8, <1>9, QuietStep, Zenon

-----------------------------------------------------------------------------
(* Steps that write the row, or take a name away. *)

\* A row stays good while tables, names and the log do.
LEMMA RowStays ==
    ASSUME DatabaseOK, UNCHANGED <<names, table, wal>>, used'.oid = used.oid, LessSlot, NEW r, RowOK(r)
    PROVE  RowOK(r)'
<1>1. RowFits(r)' /\ Recorded(r)' /\ Stands(r)'
  BY Zenon DEF RowOK, RowFits, Recorded, Stands
<1>2. Copied(r)'
  BY SameWal, Zenon DEF RowOK, Copied, LessSlot
<1> QED  BY <1>1, <1>2, Zenon DEF RowOK

\* The database with another good row, or with none.
LEMMA RowWritten ==
    ASSUME DatabaseOK, UNCHANGED <<names, table, wal>>, used' = used \/ mishap, LessSlot, ax = NoSwap, ax' = NoSwap,
           NEW r, row' = r, r = NoRow \/ RowOK(r), ReaperOK'
    PROVE  DatabaseOK'
<1>1. used' \in [oid : OID, mishap : Nat, loss : Nat, lost : {{}}] /\ used'.oid = used.oid
  BY UsedQuiet, Zenon
<1>2. DatabaseType'
  BY <1>1, Zenon DEF DatabaseOK, DatabaseType, LessSlot, RowOK
<1>3. NamesOK' /\ FreshOK' /\ TruthOK' /\ SwapOK' /\ LiveTableIsTruth'
  BY <1>1, SameWal, Zenon DEF DatabaseOK, NamesOK, FreshOK, SwapOK, LiveTableIsTruth
<1>4. row' # NoRow => RowOK(row)'
  BY <1>1, RowStays, Zenon
<1> QED  BY <1>2, <1>3, <1>4, Zenon DEF DatabaseOK

\* A done row makes way for another change.
LEMMA ReplaceDoneRowInv == ASSUME Inv, NEW e \in Engine, ReplaceDoneRow(e) PROVE Inv'
<1>1. PICK w : eng' = [eng EXCEPT ![e] = w] /\ Moves(eng[e], w, "build") /\ EngineType(w)
  BY Moved, Zenon DEF ReplaceDoneRow
<1>2. /\ UNCHANGED <<names, table, wal, slot, lock, slotLock, ax, reaper, used>> /\ row' = NoRow
      /\ eng[e].pc = "dispatch" /\ ax = NoSwap
  BY Zenon DEF ReplaceDoneRow, at, Terminal, Inv, DatabaseOK, SwapOK
<1>3. w.saver = NoRow /\ slot'.holder # e /\ (MaxLosses = 0 => lock' = e)
  BY <1>1, <1>2, NotCopying, Here, Zenon DEF LocksOK, copying, checking, Moves
<1>4. EngineOK(e, w)'
  BY <1>1, <1>2, <1>3, OffOK, Zenon DEF Moves, starting
<1>5. ReaperOK'
  BY <1>2, Zenon DEF Inv, DatabaseOK, ReaperOK, ownsSlot
<1>6. DatabaseOK'
  BY <1>2, <1>5, SlotQuiet, RowWritten, Zenon DEF Inv
<1> QED  BY <1>1, <1>2, <1>4, <1>6, EngineStep, Zenon

\* The discarded change's row goes last.
LEMMA DeleteRowInv == ASSUME Inv, NEW e \in Engine, DeleteRow(e) PROVE Inv'
<1>1. /\ UNCHANGED <<names, table, wal, ax, reaper, used>> /\ row' = NoRow /\ eng[e].pc = "discardRow"
  BY Zenon DEF DeleteRow, at
<1>2. ax = NoSwap /\ eng[e].then \in {"build", "idle"}
  BY <1>1, Here, Zenon DEF LocksOK, PhaseFits
<1>3. LessSlot
  BY SlotQuiet, Zenon DEF DeleteRow, halt
<1>4. ReaperOK'
  BY <1>1, RunnerBounds, Zenon DEF Inv, DatabaseOK, ReaperOK, ownsSlot, DeleteRow, halt
<1>5. DatabaseOK'
  BY <1>1, <1>2, <1>3, <1>4, RowWritten, Zenon DEF Inv
<1>6. CASE eng[e].then = "idle"
  BY <1>1, <1>5, <1>6, HaltStep, Zenon DEF DeleteRow
<1>7. CASE eng[e].then = "build"
  <2>1. PICK w : eng' = [eng EXCEPT ![e] = w] /\ Moves(eng[e], w, "build") /\ EngineType(w)
    BY <1>7, Moved, Zenon DEF DeleteRow
  <2>2. UNCHANGED <<lock, slotLock, slot>>
    BY <1>7, Zenon DEF DeleteRow
  <2>3. w.saver = NoRow /\ slot'.holder # e /\ (MaxLosses = 0 => lock' = e)
    BY <1>1, <2>1, <2>2, NotCopying, Here, Zenon DEF LocksOK, copying, checking, Moves
  <2>4. EngineOK(e, w)'
    BY <1>1, <1>2, <2>1, <2>3, OffOK, Zenon DEF Moves, starting
  <2> QED  BY <1>1, <1>5, <2>1, <2>2, <2>4, EngineStep, Zenon
<1> QED  BY <1>2, <1>6, <1>7, Zenon

\* A fresh start that fails may have left its row; the slot's name is still
\* its own then.
LEMMA FreshFailsInv == ASSUME Inv, NEW e \in Engine, FreshFails(e) PROVE Inv'
<1>1. PICK w : eng' = [eng EXCEPT ![e] = w] /\ Moves(eng[e], w, "unbuildHold") /\ EngineType(w)
  BY Moved, Zenon DEF FreshFails, unbuild, moveTo
<1>2. /\ UNCHANGED <<names, table, wal, slot, lock, ax, reaper>> /\ mishap
      /\ slotLock' = IF slotLock = e THEN None ELSE slotLock
      /\ eng[e].pc \in {"fence", "claim", "create", "release", "save", "commit"}
  BY Zenon DEF FreshFails, unbuild
<1>3. row' = row \/ (row' = target(eng[e]) /\ eng[e].pc = "commit" /\ first(eng[e]))
  BY Zenon DEF FreshFails, firstSave, first, saving, at, saved, target, cp
<1>4. ax = NoSwap /\ (MaxLosses = 0 => lock' = e) /\ w.saver = NoRow
  BY <1>1, <1>2, Here, Zenon DEF LocksOK, CopyOK, Moves
<1>5. slot'.holder # e
  <2>1. (first(eng[e]) /\ goal(eng[e]) \in {"release", "clear"}) \/ goal(eng[e]) \in making \cup {"release"}
    BY Zenon DEF FreshFails, firstSave, first, saving, at, goal, making
  <2>2. goal(eng[e]) \in copying \cup checking => ~eng[e].live
    BY <2>1, Here DEF PhaseFits, copying, checking, making, first, goal
  <2> QED  BY <1>2, <2>2, Here, Zenon DEF StreamOK
<1>6. EngineOK(e, w)'
  BY <1>1, <1>2, <1>4, <1>5, OffOK, Zenon DEF Moves, starting
<1>7. DatabaseOK'
  <2>1. LessSlot
    BY <1>2, SlotQuiet, Zenon
  <2>2. CASE row' = row
    <3>1. ReaperOK'
      BY <1>2, <2>2, ReaperWaits, RunnerBounds, Zenon DEF Inv
    <3> QED  BY <1>2, <1>4, <2>1, <2>2, <3>1, RowWritten, Zenon DEF Inv, DatabaseOK
  <2>3. CASE row' = target(eng[e]) /\ eng[e].pc = "commit" /\ first(eng[e])
    <3>1. goal(eng[e]) \in {"release", "clear"} /\ goal(eng[e]) \in working
      BY <2>3, Zenon DEF first, goal, working, ready, copying
    <3>2. RowOK(target(eng[e])) /\ target(eng[e]).live = eng[e].live
      BY <3>1, Here, AtWork, TargetIs DEF PhaseFits
    <3>3. eng[e].live => slotLock = e
      BY <2>3, <3>1, Here, Zenon DEF LocksOK, PhaseFits, first, goal
    <3>4. ReaperOK'
      BY <1>2, <2>3, <3>2, <3>3, RunnerBounds, Zenon DEF Inv, DatabaseOK, ReaperOK, ownsSlot
    <3> QED  BY <1>2, <1>4, <2>1, <2>3, <3>2, <3>4, RowWritten, Zenon DEF Inv
  <2> QED  BY <1>3, <2>2, <2>3, Zenon
<1> QED  BY <1>1, <1>2, <1>6, <1>7, EngineStep, Zenon

\* What a saved row makes of the world: only the row is new.
LEMMA SaveCommitInv == ASSUME Inv, NEW e \in Engine, SaveCommit(e) PROVE Inv'
<1>1. PICK v, c : v = eng[e] /\ c = target(v)
  BY Zenon
<1>2. /\ UNCHANGED <<names, table, wal, slot, lock, slotLock, ax, reaper, used>> /\ v.pc = "commit" /\ row' = c
      /\ saving(v) /\ saved(e) = c /\ goal(v) = v.then
  BY <1>1, Zenon DEF SaveCommit, at, saved, target, saving, cp, goal
<1>3. PICK w : w = [v EXCEPT !.pc = v.then, !.cp = c, !.to = "none", !.then = "idle"]
  BY Zenon
<1>4. eng' = [eng EXCEPT ![e] = w]
  BY <1>1, <1>2, <1>3, Zenon DEF SaveCommit
<1>5. EngineType(v) /\ ax = NoSwap /\ (MaxLosses = 0 => lock' = e) /\ v.saver = NoRow
  BY <1>1, <1>2, Here, Zenon DEF LocksOK, CopyOK
<1>6. /\ Whole(w) /\ w.pc = v.then /\ w.live = v.live /\ w.st = v.st /\ w.cp = c /\ w.landed = v.landed
      /\ w.applied = v.applied /\ w.mark = v.mark /\ w.saver = NoRow /\ w.then = "idle"
  BY <1>3, <1>5, Zenon DEF EngineType, Whole, Fields
<1>7. /\ v.then \in {"release", "ready", "recDrop", "open", "clear", "mark", "verify", "swap", "finish"}
      /\ v.to \in Phases /\ PhaseFits(v) /\ RowIsOurs(v) /\ WorkOK(v)
  BY <1>1, <1>2, Here, Zenon DEF PhaseFits
<1>8. v.cp \in RowType /\ v.cp # NoRow
  <2>1. CASE v.then = "finish"
    BY <1>1, <1>2, <1>5, <2>1, Here, Zenon DEF EndOK, ending, EngineType
  <2>2. CASE v.then # "finish"
    BY <1>2, <1>5, <1>7, <2>2, Zenon DEF WorkOK, EngineType, working, ready, recopying, copying, checking, swapping
  <2> QED  BY <2>1, <2>2, Zenon
<1>9. /\ c \in RowType /\ c.shadow = v.cp.shadow /\ c.src = v.cp.src /\ c.st = v.cp.st /\ c.live = v.cp.live
      /\ c.wm = v.cp.wm /\ c.lsn = v.cp.lsn /\ c.phase = v.to /\ c # NoRow
  <2>1. target(v) \in RowType
    BY <1>7, <1>8, TargetIs, Zenon
  <2>2. c # NoRow
    BY <1>1, <2>1 DEF RowType, NoRow
  <2> QED  BY <1>1, <1>2, <1>7, <1>8, <2>1, <2>2, TargetIs
<1>10. EngineType(w)
  BY <1>5, <1>6, <1>9, Zenon DEF EngineType
<1>11. RowOK(c)
  <2>1. CASE v.then = "finish"
    <3>1. row = v.cp /\ names.source = v.cp.shadow /\ row # NoRow
      BY <1>1, <1>2, <1>8, <2>1, Here, Zenon DEF EndOK, RowIsOurs, ending
    <3>2. RowOK(row)
      BY <3>1, Zenon DEF Inv, DatabaseOK
    <3>3. c.phase = "done" /\ row.phase \in {"cutover", "done"} /\ names.shadow = 0
      BY <1>1, <1>2, <1>7, <2>1, <3>1, <3>2, Zenon DEF PhaseFits, RowOK, Recorded
    <3>4. RowFits(c) /\ Stands(c)
      BY <1>9, <3>1, <3>2, <3>3, Zenon DEF RowOK, RowFits, Stands
    <3>5. Recorded(c) /\ Copied(c)
      BY <1>9, <3>1, <3>3, <3>4, Zenon DEF Recorded, Copied, RowFits
    <3> QED  BY <1>9, <3>4, <3>5, Zenon DEF RowOK
  <2>2. CASE v.then # "finish"
    BY <1>1, <1>2, <1>7, <2>2, Zenon DEF WorkOK, working, ready, recopying, copying, checking, swapping
  <2> QED  BY <2>1, <2>2, Zenon
<1>12. LessSlot
  BY <1>2, SlotQuiet, Zenon
<1>13. ReaperOK'
  <2>1. CASE first(v)
    <3>1. c.live => slotLock = e
      <4>1. v.then \in {"release", "clear"} /\ v.cp.live = v.live
        BY <1>2, <1>7, <2>1, Zenon DEF first, WorkOK, working, ready, copying
      <4> QED  BY <1>1, <1>2, <1>9, <2>1, <4>1, Here, Zenon DEF LocksOK, PhaseFits
    <3> QED  BY <1>2, <3>1, RunnerBounds, Zenon DEF Inv, DatabaseOK, ReaperOK, ownsSlot
  <2>2. CASE ~first(v)
    <3>1. row # NoRow /\ ~Terminal(row) /\ row.live = c.live
      BY <1>2, <1>7, <1>9, <2>2, Zenon DEF RowIsOurs
    <3> QED  BY <1>2, <3>1, Zenon DEF Inv, DatabaseOK, ReaperOK, ownsSlot
  <2> QED  BY <2>1, <2>2, Zenon
<1>14. DatabaseOK' /\ RowOK(c)'
  BY <1>2, <1>5, <1>11, <1>12, <1>13, RowWritten, RowStays, Zenon DEF Inv
<1>15. goal(w)' = v.then /\ ~saving(w)' /\ ~first(w)' /\ target(w)' = c
  BY <1>6, <1>7, Zenon DEF goal, saving, first, target
<1>16. RowIsOurs(w)' /\ PhaseFits(w)'
  <2>1. RowIsOurs(w)'
    BY <1>2, <1>6, <1>7, <1>15, ZenonT(30) DEF RowIsOurs, starting, making
  <2>2. PhaseFits(w)'
    BY <1>1, <1>2, <1>6, <1>7, <1>15 DEF PhaseFits, making
  <2> QED  BY <2>1, <2>2, Zenon
<1>17. WorkOK(w)'
  BY <1>2, <1>6, <1>7, <1>9, <1>14, <1>15, Zenon DEF WorkOK, describes
<1>18. StreamOK(e, w)'
  <2>1. StreamOK(e, v) /\ w.cp.lsn = v.cp.lsn /\ w.cp.wm = v.cp.wm /\ w.cp.shadow = v.cp.shadow
    BY <1>1, <1>6, <1>9, Here, Zenon
  <2> QED  BY <1>2, <1>6, <1>15, <2>1, SameWal, Zenon DEF StreamOK
<1>19. CopyOK(w)' /\ RecopyOK(w)'
  BY <1>6, <1>7, Zenon DEF CopyOK, RecopyOK
<1>20. QuietOK(w)'
  <2>1. QuietOK(v) /\ w.cp.shadow = v.cp.shadow
    BY <1>1, <1>6, <1>9, Here, Zenon
  <2> QED  BY <1>2, <1>6, <1>15, <2>1, SameWal, Zenon DEF QuietOK
<1>21. EndOK(w)'
  <2>1. EndOK(v) /\ w.cp.shadow = v.cp.shadow /\ w.cp.st = v.cp.st /\ w.cp.live = v.cp.live /\ w.cp # NoRow
    BY <1>1, <1>6, <1>9, Here, Zenon
  <2> QED  BY <1>2, <1>6, <1>15, <2>1, Zenon DEF EndOK
<1>22. LocksOK(e, w)'
  <2>1. v.then \in {"release", "recDrop"} => slotLock = e
    BY <1>1, <1>2, Here, Zenon DEF LocksOK
  <2> QED  BY <1>2, <1>5, <1>6, <1>7, <1>15, <2>1, Zenon DEF LocksOK
<1>23. EngineOK(e, w)'
  BY <1>10, <1>16, <1>17, <1>18, <1>19, <1>20, <1>21, <1>22, Zenon DEF EngineOK, EngineType, Whole
<1>24. eng[e].pc # "idle" /\ slot'.holder \in {slot.holder, None, e}
  BY <1>1, <1>2, Zenon
<1> QED  BY <1>4, <1>14, <1>23, <1>24, EngineStep, Zenon

\* The saver's row is saved while the copy goes on.
LEMMA SaverCommitInv == ASSUME Inv, NEW e \in Engine, SaverCommit(e) PROVE Inv'
<1>1. PICK v, c : v = eng[e] /\ c = v.saver
  BY Zenon
<1>2. /\ UNCHANGED <<names, table, wal, slot, lock, slotLock, ax, reaper, used>> /\ v.pc = "copy" /\ row' = c
      /\ c # NoRow
  BY <1>1, Zenon DEF SaverCommit, at
<1>3. PICK w : w = [v EXCEPT !.cp = c, !.saver = NoRow]
  BY Zenon
<1>4. eng' = [eng EXCEPT ![e] = w]
  BY <1>1, <1>3, Zenon DEF SaverCommit
<1>5. EngineType(v) /\ ax = NoSwap /\ (MaxLosses = 0 => lock' = e)
  BY <1>1, <1>2, Here, Zenon DEF LocksOK
<1>6. /\ Whole(w) /\ w.pc = "copy" /\ w.live = v.live /\ w.st = v.st /\ w.cp = c /\ w.landed = v.landed
      /\ w.applied = v.applied /\ w.mark = v.mark /\ w.saver = NoRow
  BY <1>2, <1>3, <1>5, Zenon DEF EngineType, Whole, Fields
<1>7. /\ goal(v) = "copy" /\ ~saving(v) /\ target(v) = v.cp /\ "copy" \in working /\ "copy" \in copying
  BY <1>2, GoalIs, Zenon DEF working, copying
<1>8. /\ c.phase = "copying" /\ c.src = v.cp.src /\ c.shadow = v.cp.shadow /\ c.st = v.cp.st /\ c.live = v.cp.live
      /\ c.wm <= v.landed /\ RowOK(c)
  BY <1>1, <1>2, Here, ZenonT(30) DEF CopyOK, sameIdentity
<1>9. /\ v.cp.shadow = names.shadow /\ v.cp.src = names.source /\ v.cp.live = v.live /\ v.cp.st = v.st
      /\ row = v.cp /\ row # NoRow /\ row.phase = "copying"
  BY <1>1, <1>7, Here, AtWork DEF RowIsOurs, PhaseFits
<1>10. EngineType(w)
  BY <1>5, <1>6, <1>8, Zenon DEF EngineType, RowOK
<1>11. ReaperOK'
  BY <1>2, <1>8, <1>9, Zenon DEF Inv, DatabaseOK, ReaperOK, ownsSlot, Terminal
<1>12. DatabaseOK' /\ RowOK(c)'
  BY <1>2, <1>5, <1>8, <1>11, SlotQuiet, RowWritten, RowStays, Zenon DEF Inv
<1>13. goal(w)' = "copy" /\ ~saving(w)' /\ ~first(w)' /\ target(w)' = c
  BY <1>6, Zenon DEF goal, saving, first, target
<1>14. RowIsOurs(w)' /\ PhaseFits(w)' /\ WorkOK(w)'
  BY <1>2, <1>6, <1>8, <1>9, <1>12, <1>13, ZenonT(30) DEF RowIsOurs, PhaseFits, WorkOK, describes, starting, making, ready,
     recopying, copying, checking, swapping
<1>15. StreamOK(e, w)'
  <2>1. StreamOK(e, v)
    BY <1>1, Here, ZenonT(30)
  <2> QED  BY <1>1, <1>2, <1>6, <1>7, <1>8, <1>13, <2>1, SameWal DEF StreamOK, checking
<1>16. CopyOK(w)' /\ RecopyOK(w)'
  BY <1>1, <1>2, <1>6, <1>8, Here, ZenonT(30) DEF CopyOK, RecopyOK
<1>17. QuietOK(w)' /\ EndOK(w)' /\ LocksOK(e, w)'
  BY <1>2, <1>5, <1>6, <1>13, Zenon DEF QuietOK, EndOK, LocksOK, swapping, ending
<1>18. EngineOK(e, w)'
  BY <1>10, <1>14, <1>15, <1>16, <1>17, Zenon DEF EngineOK, EngineType, Whole
<1> QED  BY <1>1, <1>2, <1>4, <1>12, <1>18, EngineStep, Zenon

\* A relation loses its name, and is gone.
LEMMA NameGone ==
    ASSUME DatabaseOK, ax = NoSwap, ax' = NoSwap, NEW o, table' = dropped(o),
           \/ o = names.shadow /\ names' = [names EXCEPT !.shadow = 0]
           \/ o = names.old /\ names' = [names EXCEPT !.old = 0],
           UNCHANGED <<wal, row, used>>, LessSlot, ReaperOK'
    PROVE  DatabaseOK'
<1>1. /\ names \in [source : 0 .. used.oid, shadow : 0 .. used.oid, old : 0 .. used.oid] /\ used.oid \in Nat
      /\ table \in [OID -> [rows : [Part -> Int], shape : Statement \cup {BaseShape}, fence : BOOLEAN]]
  BY RunnerBounds DEF DatabaseOK, DatabaseType, OID
<1>2. NoTable \in [rows : [Part -> Int], shape : Statement \cup {BaseShape}, fence : BOOLEAN]
  BY DEF NoTable, EmptyRows, Absent
<1>3. /\ table' \in [OID -> [rows : [Part -> Int], shape : Statement \cup {BaseShape}, fence : BOOLEAN]]
      /\ \A q \in OID : q # o => table'[q] = table[q]
  BY <1>1, <1>2, Zenon DEF dropped
<1>4. /\ names' \in [source : 0 .. used.oid, shadow : 0 .. used.oid, old : 0 .. used.oid]
      /\ names'.source = names.source /\ names'.source # o /\ names'.shadow \in {0, names.shadow}
      /\ names'.old \in {0, names.old} /\ (names'.shadow # 0 => names'.shadow # o)
  BY <1>1 DEF DatabaseOK, NamesOK
<1>5. DatabaseType'
  BY <1>3, <1>4, Zenon DEF DatabaseOK, DatabaseType, LessSlot
<1>6. NamesOK' /\ TruthOK' /\ SwapOK' /\ FreshOK'
  <2>1. FreshOK'
    <3>1. \A q \in OID : table'[q].fence => table[q].fence
      BY <1>1, <1>2, <1>3, Zenon DEF dropped, NoTable
    <3> QED  BY <3>1, Zenon DEF DatabaseOK, FreshOK
  <2> QED  BY <1>1, <1>4, <2>1, SameWal, Zenon DEF DatabaseOK, NamesOK, SwapOK
<1>7. LiveTableIsTruth'
  BY <1>3, <1>4, Relations, SameWal, Zenon DEF DatabaseOK, LiveTableIsTruth
<1>8. ASSUME row # NoRow PROVE RowOK(row)'
  <2>1. RowOK(row) /\ row.shadow \in OID /\ row.shadow # 0
    BY <1>8, Relations, Zenon DEF DatabaseOK
  <2>2. RowFits(row)' /\ Recorded(row)'
    BY <1>4, <2>1, Zenon DEF RowOK, RowFits, Recorded
  <2>3. row.shadow \in {names'.shadow, names'.source} => table'[row.shadow] = table[row.shadow]
    BY <1>3, <1>4, <2>1, Zenon
  <2>4. Stands(row)'
    BY <1>4, <2>1, <2>3, Zenon DEF RowOK, Stands
  <2>5. Copied(row)'
    BY <1>4, <2>1, <2>3, SameWal, Zenon DEF RowOK, Copied, LessSlot
  <2> QED  BY <2>1, <2>2, <2>4, <2>5, Zenon DEF RowOK
<1> QED  BY <1>5, <1>6, <1>7, <1>8, Zenon DEF DatabaseOK

\* The shadow is dropped: a row claims nothing of a shadow that is gone.
LEMMA DropShadowInv == ASSUME Inv, NEW e \in Engine, DropShadow(e) PROVE Inv'
<1>1. /\ UNCHANGED <<wal, row, ax, reaper, used>> /\ ax = NoSwap
      /\ eng[e].pc \in {"discardShadow", "unrecordedShadow", "unbuildShadow"}
  BY Zenon DEF DropShadow
<1>2. LessSlot
  BY SlotQuiet, Zenon DEF DropShadow, halt
<1>3. ReaperOK'
  BY <1>1, ReaperWaits, RunnerBounds, Zenon DEF Inv, DropShadow, halt
<1>4. DatabaseOK'
  BY <1>1, <1>2, <1>3, NameGone, Zenon DEF Inv, DropShadow
<1>5. CASE eng[e].pc = "unbuildShadow"
  BY <1>4, <1>5, HaltStep, Zenon DEF DropShadow, at
<1>6. CASE eng[e].pc # "unbuildShadow"
  <2>1. PICK x : /\ moveTo(e, x) /\ UNCHANGED <<lock, slotLock, slot>>
                 /\ \/ eng[e].pc = "discardShadow" /\ x = "discardHold"
                    \/ eng[e].pc = "unrecordedShadow" /\ x = "unrecordedFence"
    BY <1>1, <1>6, Zenon DEF DropShadow, at
  <2>2. PICK w : eng' = [eng EXCEPT ![e] = w] /\ Moves(eng[e], w, x) /\ EngineType(w)
    BY <2>1, Moved, Zenon
  <2>3. w.saver = NoRow /\ slot'.holder # e /\ (MaxLosses = 0 => lock' = e)
    BY <1>1, <2>1, <2>2, NotCopying, Here, Zenon DEF LocksOK, copying, checking, Moves
  <2>4. x = "unrecordedFence" => row' = NoRow
    BY <1>1, <2>1, Here, GoalIs, Zenon DEF RowIsOurs, starting
  <2>5. x = "discardHold" => w.then \in {"build", "idle"}
    BY <2>1, <2>2, Here, Zenon DEF PhaseFits, Moves
  <2>6. EngineOK(e, w)'
    BY <1>1, <2>1, <2>2, <2>3, <2>4, <2>5, OffOK, Zenon DEF Moves, starting
  <2> QED  BY <1>1, <1>4, <2>1, <2>2, <2>6, EngineStep, Zenon
<1> QED  BY <1>5, <1>6, Zenon

\* The old table is dropped, or its fence is, before the row says done.
LEMMA SettleOldTableInv == ASSUME Inv, NEW e \in Engine, SettleOldTable(e) PROVE Inv'
<1>1. PICK v : v = eng[e]
  OBVIOUS
<1>2. /\ UNCHANGED <<wal, slot, row, lock, slotLock, ax, reaper, used>> /\ ax = NoSwap /\ v.pc = "settle"
      /\ save(e, v.cp, "done", "finish") /\ goal(v) = "settle" /\ ~saving(v) /\ target(v) = v.cp
  BY <1>1, GoalIs, Zenon DEF SettleOldTable, at, cp
<1>3. /\ EngineType(v) /\ v.cp # NoRow /\ names.source = v.cp.shadow /\ v.cp.st = v.st /\ v.cp.live = v.live
      /\ (v.live => ~slot.exists) /\ row = v.cp /\ v.cp.phase = "cutover" /\ v.cp \in RowType
  BY <1>1, <1>2, Here, Zenon DEF EndOK, RowIsOurs, PhaseFits, ending, EngineType
<1>4. PICK w : eng' = [eng EXCEPT ![e] = w] /\ Saves(v, w, v.cp, "done", "finish") /\ EngineType(w)
  BY <1>1, <1>2, <1>3, Saved, Zenon
<1>5. v.saver = NoRow /\ slot'.holder # e /\ (MaxLosses = 0 => lock' = e)
  BY <1>1, <1>2, NotCopying, Here, Zenon DEF LocksOK, copying, checking
<1>6. ReaperOK' /\ LessSlot
  BY <1>2, SameReaper, SlotQuiet, Zenon DEF Inv
<1>7. DatabaseOK' /\ names'.source = names.source /\ (names'.old # 0 => ~table'[names'.old].fence)
  <2>1. CASE table' = (IF names.old = 0 THEN table ELSE unfenced(names.old)) /\ UNCHANGED names
    <3>1. table' = table \/ \E o \in OID : table' = [table EXCEPT ![o].fence = FALSE]
      BY <2>1, Relations, Zenon DEF Inv, unfenced
    <3>2. Quieter
      BY <1>2, <1>6, <2>1, <3>1, TablesQuiet, UsedQuiet, Zenon DEF Quieter, Inv
    <3>3. names.old # 0 => ~table'[names.old].fence
      BY <2>1, Relations DEF Inv, DatabaseOK, DatabaseType, unfenced
    <3> QED  BY <1>6, <2>1, <3>2, <3>3, QuietDatabase, Zenon DEF Inv
  <2>2. CASE table' = dropped(names.old) /\ names' = [names EXCEPT !.old = 0]
    <3>1. DatabaseOK'
      BY <1>2, <1>6, <2>2, NameGone, Zenon DEF Inv
    <3>2. names'.source = names.source /\ names'.old = 0
      BY <2>2, Zenon DEF Inv, DatabaseOK, DatabaseType
    <3> QED  BY <3>1, <3>2, Zenon
  <2> QED  BY <2>1, <2>2, Zenon DEF SettleOldTable
<1>8. /\ w.pc = "save" /\ w.cp = v.cp /\ w.to = "done" /\ w.then = "finish" /\ w.live = v.live /\ w.st = v.st
      /\ w.saver = NoRow /\ goal(w)' = "finish" /\ saving(w)' /\ ~first(w)' /\ target(w)' = [v.cp EXCEPT !.phase = "done"]
  BY <1>4, <1>5, Zenon DEF Saves, goal, saving, first, target
<1>9. RowIsOurs(w)'
  BY <1>2, <1>3, <1>8 DEF RowIsOurs, starting, making, ending, Terminal, sameIdentity, RowType
<1>10. PhaseFits(w)'
  <2>1. target(w)'.phase = "done"
    BY <1>3, <1>8, Zenon DEF RowType
  <2> QED  BY <1>8, <2>1, Zenon DEF PhaseFits, Phases, making, ready, recopying, copying, checking, swapping
<1>11. WorkOK(w)' /\ StreamOK(e, w)' /\ CopyOK(w)' /\ RecopyOK(w)' /\ QuietOK(w)'
  BY <1>5, <1>8, Zenon DEF WorkOK, StreamOK, CopyOK, RecopyOK, QuietOK, working, making, ready, recopying, copying,
     checking, swapping
<1>12. EndOK(w)'
  BY <1>2, <1>3, <1>7, <1>8, Zenon DEF EndOK
<1>13. LocksOK(e, w)'
  BY <1>2, <1>5, <1>8, Zenon DEF LocksOK
<1>14. EngineOK(e, w)'
  BY <1>4, <1>9, <1>10, <1>11, <1>12, <1>13, Zenon DEF EngineOK, EngineType, Whole
<1> QED  BY <1>1, <1>2, <1>4, <1>7, <1>14, EngineStep, Zenon
=============================================================================
