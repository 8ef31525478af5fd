------------------------------- MODULE Runner -------------------------------
(***************************************************************************)
(* One copy-and-swap schema change of pkg/schemachange from end to end:    *)
(* the checkpoint row (pkg/checkpoint), the table lock (pkg/dbconn), the   *)
(* replication slot and its reaper (pkg/decode, pkg/checkpoint), the       *)
(* shadow's build and fill, the cutover and what follows it, run by one or *)
(* more engines that crash, lose their lock session, are restarted, or     *)
(* meet a slot that was lost, while clients keep writing the source.       *)
(*                                                                         *)
(* The data is abstracted to Parts, consecutive ranges of the key space.   *)
(* A write commits at the next WAL position, and a part's content is the   *)
(* position of the last write it holds (0: the row the table began with,   *)
(* Absent: not copied).  The interleavings inside one copy and one flush   *)
(* are those of modules Copier and Catchup; here a chunk and a flush are   *)
(* one step.                                                               *)
(***************************************************************************)
EXTENDS Integers, Sequences

CONSTANTS
    Engine,       \* the processes that may run the engine on the table
    None,         \* no engine
    Reaper,       \* the process reaping orphan slots
    LastPart,     \* the copy's last chunk; parts are 1 .. LastPart
    Statement,    \* the statements callers run
    BaseShape,    \* the shape the table has before any of them
    Kinds,        \* the routes of the runs: "live" and "quiesced"
    Restarts,     \* RunOptions.Restart values callers pass
    ReplaceDone,  \* RunOptions.ReplaceDone
    KeepOlds,     \* RunOptions.KeepOld values callers pass
    LockAttempts, \* CutoverOptions.LockAttempts
    MaxWrites,    \* bound: client writes
    MaxOID,       \* bound: relations ever created
    MaxMishaps,   \* bound: crashes, lost slots, lost lock sessions, failed
                  \* statements, data faults and fences tampered with, together
    MaxLosses     \* bound: the lost lock sessions among them

ASSUME RunnerBounds ==
    /\ LastPart \in Nat \ {0} /\ LockAttempts \in Nat \ {0}
    /\ MaxWrites \in Nat /\ MaxOID \in Nat \ {0}
    /\ MaxMishaps \in Nat /\ MaxLosses \in Nat
    /\ None \notin Engine /\ Reaper \notin Engine \cup {None}

VARIABLES
    names,    \* the catalog: which relation bears each name, 0 for none
    table,    \* relation -> its rows, shape and write fence
    wal,      \* the parts written, in commit order
    slot,     \* the replication slot under the table's derived name
    row,      \* the table's checkpoint row: its phase, route, watermark, position,
              \* relations and statement, or none
    lock,     \* the engine whose session holds the table lock (LK-1)
    slotLock, \* who holds the engine's lock on the slot's name (ST-3)
    ax,       \* the swap transaction holding ACCESS EXCLUSIVE, on the server
    eng,      \* the engines
    reaper,   \* the reaper's step
    used      \* how much of each bound has been spent, and the parts a swap
              \* left behind because they were written past the fence

vars == <<names, table, wal, slot, row, lock, slotLock, ax, eng, reaper, used>>

-----------------------------------------------------------------------------
(* The database. *)

Part == 1 .. LastPart
OID == 1 .. MaxOID
Absent == -1
EmptyRows == [p \in Part |-> Absent]
NoTable == [rows |-> EmptyRows, shape |-> BaseShape, fence |-> FALSE]
NoSlot == [exists |-> FALSE, at |-> 0, lost |-> FALSE, holder |-> None]
NoRow == [phase |-> "none"]
NoSwap == [src |-> 0]

Terminal(r) == r.phase = "done"

(* The content every write so far leaves in the live table. *)
lastWrite(p, from, rows) ==
    LET hits == {i \in from + 1 .. Len(wal) : wal[i] = p}
    IN IF hits = {} THEN rows[p] ELSE CHOOSE i \in hits : \A j \in hits : i >= j
truth == [p \in Part |-> lastWrite(p, 0, [q \in Part |-> 0])]

(* What applying the stream from a position on leaves in the shadow: the   *)
(* stream's images overwrite whatever is there, newer or not.              *)
Replay(rows, from) == [p \in Part |-> lastWrite(p, from, rows)]

Larger(a, b) == IF a >= b THEN a ELSE b

(* Variant: the clear takes the watermark's own part too. *)
ClearedInclusive(rows, wm) == [p \in Part |-> IF p < wm THEN rows[p] ELSE Absent]

cleared(rows, wm) == [p \in Part |-> IF p <= wm THEN rows[p] ELSE Absent]
spend(what) == used' = [used EXCEPT ![what] = @ + 1]
mishap == used.mishap < MaxMishaps /\ spend("mishap")

(* A client's transaction commits on whatever relation bears the source's  *)
(* name; the write fence refuses it, the swap's lock makes it wait.        *)
ClientWrite(p) ==
    /\ Len(wal) < MaxWrites
    /\ ~table[names.source].fence
    /\ ax = NoSwap
    /\ wal' = Append(wal, p)
    /\ table' = [table EXCEPT ![names.source].rows[p] = Len(wal) + 1]
    /\ UNCHANGED <<names, slot, row, lock, slotLock, ax, eng, reaper, used>>

(* The server invalidates the slot (max_slot_wal_keep_size), which ends    *)
(* the stream on it, or an operator drops an idle one.                     *)
LoseSlot ==
    /\ slot.exists /\ ~slot.lost
    /\ mishap
    /\ \/ slot' = [slot EXCEPT !.lost = TRUE, !.holder = None]
       \/ slot.holder = None /\ slot' = NoSlot
    /\ UNCHANGED <<names, table, wal, row, lock, slotLock, ax, eng, reaper>>

(* The fence trigger is not tamper-proof: its owner may disable it ... *)
DisableFence ==
    /\ table[names.source].fence
    /\ mishap
    /\ table' = [table EXCEPT ![names.source].fence = FALSE]
    /\ UNCHANGED <<names, wal, slot, row, lock, slotLock, ax, eng, reaper>>

(* ... or disable it, write, and put it back.  No run has seen that write  *)
(* until its next verification pass.                                       *)
WritePastFence(p) ==
    /\ table[names.source].fence /\ ax = NoSwap
    /\ Len(wal) < MaxWrites
    /\ mishap
    /\ wal' = Append(wal, p)
    /\ table' = [table EXCEPT ![names.source].rows[p] = Len(wal) + 1]
    /\ eng' = [e \in Engine |-> [eng[e] EXCEPT !.unseen = @ \cup {p}]]
    /\ UNCHANGED <<names, slot, row, lock, slotLock, ax, reaper>>

(* The lock session's connection is gone and the engine has not noticed;   *)
(* its statements in flight go on.                                         *)
LoseLock ==
    /\ lock # None
    /\ used.loss < MaxLosses /\ used.mishap < MaxMishaps
    /\ used' = [used EXCEPT !.loss = @ + 1, !.mishap = @ + 1]
    /\ lock' = None
    /\ UNCHANGED <<names, table, wal, slot, row, slotLock, ax, eng, reaper>>

-----------------------------------------------------------------------------
(* Engines. *)

Idle == [pc |-> "idle", live |-> FALSE, st |-> BaseShape, restart |-> FALSE,
         cp |-> NoRow, landed |-> 0, applied |-> 0, mark |-> 0,
         to |-> "none", then |-> "idle", saver |-> NoRow, made |-> FALSE,
         tries |-> 0, unseen |-> {}]

at(e, pc) == eng[e].pc = pc
cp(e) == eng[e].cp
holds(e) == lock = e
moveTo(e, pc) == eng' = [eng EXCEPT ![e].pc = pc]
shadowRows(e) == table[cp(e).shadow].rows

(* r.save: the row the state is about to record, and the step after it; no *)
(* marker is waited for across it.                                         *)
save(e, c, phase, then) ==
    eng' = [eng EXCEPT ![e] = [@ EXCEPT !.pc = "save", !.cp = c, !.mark = 0,
                                        !.to = phase, !.then = then]]

(* The run ends: its table lock session, its lock on the slot's name and   *)
(* its stream go with it.  A swap transaction already on the server stays. *)
halt(e) ==
    /\ eng' = [eng EXCEPT ![e] = Idle]
    /\ lock' = IF lock = e THEN None ELSE lock
    /\ slotLock' = IF slotLock = e THEN None ELSE slotLock
    /\ slot' = IF slot.holder = e THEN [slot EXCEPT !.holder = None] ELSE slot

(* Runner.Run: the table lock is taken for the whole run. *)
Run(e, live, st, restart) ==
    /\ at(e, "idle") /\ lock = None
    /\ lock' = e
    /\ eng' = [eng EXCEPT ![e] = [Idle EXCEPT !.pc = "dispatch", !.live = live,
                                              !.st = st, !.restart = restart]]
    /\ UNCHANGED <<names, table, wal, slot, row, slotLock, ax, reaper, used>>

(* A crash, a cancelled context or an error the model does not otherwise   *)
(* produce, anywhere in a run.                                             *)
Crash(e) ==
    /\ ~at(e, "idle")
    /\ mishap
    /\ halt(e)
    /\ UNCHANGED <<names, table, wal, row, ax, reaper>>

-----------------------------------------------------------------------------
(* What the catalog answers about a row (InspectSwapped, InspectShadow). *)

committed(r) == names.source = r.shadow /\ names.old = r.src
oldTableGone(r) == names.source = r.shadow /\ names.old = 0
notSwapped(r) == names.source = r.src
describes(r) == names.source = r.src /\ names.shadow = r.shadow

(* dispatch: a run with no row starts fresh. *)
DispatchNoRow(e) ==
    /\ at(e, "dispatch") /\ holds(e) /\ row = NoRow
    /\ moveTo(e, IF eng[e].restart THEN "unrecordedShadow" ELSE "build")
    /\ UNCHANGED <<names, table, wal, slot, row, lock, slotLock, ax, reaper, used>>

(* replaceDoneRow: refused while the retained source still bears its name. *)
ReplaceDoneRow(e) ==
    /\ at(e, "dispatch") /\ holds(e)
    /\ row # NoRow /\ Terminal(row) /\ ReplaceDone /\ names.old = 0
    /\ row' = NoRow
    /\ moveTo(e, "build")
    /\ UNCHANGED <<names, table, wal, slot, lock, slotLock, ax, reaper, used>>

(* discardRow, up to its first drop: a cutover row is answered by the      *)
(* catalog, and one whose swap committed or is in flight is refused.       *)
mayDiscard(r) == r.phase = "cutover" => ax = NoSwap /\ notSwapped(r)

Restart(e) ==
    /\ at(e, "dispatch") /\ holds(e)
    /\ row # NoRow /\ ~Terminal(row) /\ eng[e].restart /\ mayDiscard(row)
    /\ eng' = [eng EXCEPT ![e].pc = "discardShadow", ![e].cp = row,
                          ![e].then = "build"]
    /\ UNCHANGED <<names, table, wal, slot, row, lock, slotLock, ax, reaper, used>>

(* Variant: a resume that does not compare the row's statement. *)
RowIsAnyones(e) ==
    /\ row # NoRow /\ ~Terminal(row) /\ ~eng[e].restart
    /\ row.live = eng[e].live

(* checkQuiescedRow, checkLiveRow, checkRowStatement and resumeOnRow.      *)
rowIsRuns(e) ==
    /\ row # NoRow /\ ~Terminal(row) /\ ~eng[e].restart
    /\ row.live = eng[e].live /\ row.st = eng[e].st

swapAnswered(r) == r.phase = "cutover" /\ ax = NoSwap

ResumeSwapped(e) ==
    /\ at(e, "dispatch") /\ holds(e) /\ rowIsRuns(e)
    /\ swapAnswered(row) /\ (committed(row) \/ oldTableGone(row))
    /\ eng' = [eng EXCEPT ![e].pc = "swapped", ![e].cp = row]
    /\ UNCHANGED <<names, table, wal, slot, row, lock, slotLock, ax, reaper, used>>

mayResume(r) ==
    /\ r.phase = "cutover" => swapAnswered(r) /\ notSwapped(r)
    /\ describes(r)

Resume(e) ==
    /\ at(e, "dispatch") /\ holds(e) /\ rowIsRuns(e) /\ mayResume(row)
    /\ IF eng[e].live /\ row.phase = "cutover"
       THEN save(e, row, "catching_up", "ready")
       ELSE eng' = [eng EXCEPT ![e].cp = row,
                       ![e].pc = IF eng[e].live THEN "ready" ELSE "refence"]
    /\ UNCHANGED <<names, table, wal, slot, row, lock, slotLock, ax, reaper, used>>

dispatchRefused(e) ==
    /\ at(e, "dispatch") /\ row # NoRow
    /\ \/ Terminal(row) /\ ~(ReplaceDone /\ names.old = 0)
       \/ ~Terminal(row) /\ eng[e].restart /\ ~mayDiscard(row)
       \/ /\ ~Terminal(row) /\ ~eng[e].restart
          /\ ~(/\ rowIsRuns(e)
               /\ \/ mayResume(row)
                  \/ swapAnswered(row) /\ (committed(row) \/ oldTableGone(row)))

-----------------------------------------------------------------------------
(* Discarding a stopped run: the shadow, then the slot or the fence, then  *)
(* the row (discardRow, discardUnrecorded, unbuild, unbuildLive).          *)

dropped(o) == IF o = 0 THEN table ELSE [table EXCEPT ![o] = NoTable]
unfenced(o) == [table EXCEPT ![o].fence = FALSE]

(* DropShadow, by name and under a confirmed lock. *)
DropShadow(e) ==
    /\ eng[e].pc \in {"discardShadow", "unrecordedShadow", "unbuildShadow"}
    /\ holds(e) /\ ax = NoSwap
    /\ names' = [names EXCEPT !.shadow = 0]
    /\ table' = dropped(names.shadow)
    /\ IF at(e, "unbuildShadow")
       THEN halt(e)
       ELSE /\ moveTo(e, IF at(e, "discardShadow") THEN "discardHold"
                         ELSE "unrecordedFence")
            /\ UNCHANGED <<lock, slotLock, slot>>
    /\ UNCHANGED <<wal, row, ax, reaper, used>>

(* DropSlot waits for the slot's holder to leave; a missing slot is done.  *)
(* No slot command reads the table lock.                                   *)
DropSlot(e) ==
    /\ \/ at(e, "discardHold") /\ cp(e).live
       \/ at(e, "unbuildHold") /\ eng[e].live /\ eng[e].made
       \/ at(e, "swapped") /\ cp(e).live
    /\ slot.holder = None
    /\ slot' = NoSlot
    /\ moveTo(e, CASE at(e, "discardHold") -> "discardRow"
                   [] at(e, "unbuildHold") -> "unbuildShadow"
                   [] at(e, "swapped") -> "settle")
    /\ UNCHANGED <<names, table, wal, row, lock, slotLock, ax, reaper, used>>

DropWriteFence(e) ==
    /\ \/ at(e, "discardHold") /\ ~cp(e).live
       \/ at(e, "unbuildHold") /\ ~eng[e].live
       \/ at(e, "unrecordedFence")
    /\ holds(e) /\ ax = NoSwap
    /\ table' = unfenced(names.source)
    /\ moveTo(e, CASE at(e, "discardHold") -> "discardRow"
                   [] at(e, "unbuildHold") -> "unbuildShadow"
                   [] at(e, "unrecordedFence") -> "build")
    /\ UNCHANGED <<names, wal, slot, row, lock, slotLock, ax, reaper, used>>

(* A slot the attempt did not make is not its to drop. *)
SkipSlot(e) ==
    /\ at(e, "unbuildHold") /\ eng[e].live /\ ~eng[e].made
    /\ moveTo(e, "unbuildShadow")
    /\ UNCHANGED <<names, table, wal, slot, row, lock, slotLock, ax, reaper, used>>

sameIdentity(r, c) == r.src = c.src /\ r.shadow = c.shadow /\ r.st = c.st
accepts(c) == row # NoRow => sameIdentity(row, c)

(* Store.Delete, by the identity of the row the run was shown. *)
DeleteRow(e) ==
    /\ at(e, "discardRow") /\ holds(e) /\ accepts(cp(e))
    /\ row' = NoRow
    /\ IF eng[e].then = "idle"
       THEN halt(e)
       ELSE moveTo(e, eng[e].then) /\ UNCHANGED <<lock, slotLock, slot>>
    /\ UNCHANGED <<names, table, wal, ax, reaper, used>>

-----------------------------------------------------------------------------
(* Store.Save: the transaction confirms the table lock, then upserts and   *)
(* commits; the confirmation is a read, so the lock may go in between.     *)

firstSave(e) == eng[e].to = "copying" /\ eng[e].then \in {"release", "clear"}
saved(e) == [cp(e) EXCEPT !.phase = eng[e].to]

SaveConfirm(e) ==
    /\ at(e, "save") /\ holds(e)
    /\ moveTo(e, "commit")
    /\ UNCHANGED <<names, table, wal, slot, row, lock, slotLock, ax, reaper, used>>

SaveCommit(e) ==
    /\ at(e, "commit") /\ accepts(cp(e))
    /\ row' = saved(e)
    /\ eng' = [eng EXCEPT ![e] = [@ EXCEPT !.pc = eng[e].then, !.cp = saved(e),
                                          !.to = "none", !.then = "idle"]]
    /\ UNCHANGED <<names, table, wal, slot, lock, slotLock, ax, reaper, used>>

(* startFresh and startFreshLive when a step fails: what this run made is  *)
(* taken back.  The failure may be the save's own, with its commit refused *)
(* or not heard, or the slot connection's after the row landed.            *)
unbuild(e) ==
    /\ eng' = [eng EXCEPT ![e].pc = "unbuildHold"]
    /\ slotLock' = IF slotLock = e THEN None ELSE slotLock

FreshFails(e) ==
    /\ \/ eng[e].pc \in {"fence", "claim", "create", "release"}
       \/ eng[e].pc \in {"save", "commit"} /\ firstSave(e)
    /\ mishap
    /\ row' \in {row} \cup (IF at(e, "commit") /\ accepts(cp(e))
                            THEN {saved(e)} ELSE {})
    /\ unbuild(e)
    /\ UNCHANGED <<names, table, wal, slot, lock, ax, reaper>>

(* BuildShadow; a relation already under the shadow's name is refused. *)
BuildShadow(e) ==
    /\ at(e, "build") /\ holds(e) /\ names.shadow = 0 /\ ax = NoSwap
    /\ used.oid < MaxOID /\ spend("oid")
    /\ LET o == used.oid + 1 IN
       /\ names' = [names EXCEPT !.shadow = o]
       /\ table' = [table EXCEPT ![o].shape = eng[e].st]
       /\ eng' = [eng EXCEPT
             ![e].pc = IF eng[e].live THEN "claim" ELSE "fence",
             ![e].cp = [phase |-> "copying", live |-> eng[e].live, wm |-> 0,
                        lsn |-> 0, src |-> names.source, shadow |-> o,
                        st |-> eng[e].st]]
    /\ UNCHANGED <<wal, slot, row, lock, slotLock, ax, reaper>>

(* installWriteFence, in a fresh quiesced run and again in a resumed one. *)
InstallWriteFence(e) ==
    /\ eng[e].pc \in {"fence", "refence"} /\ holds(e)
    /\ ax = NoSwap /\ names.source = cp(e).src
    /\ table' = [table EXCEPT ![names.source].fence = TRUE]
    /\ IF at(e, "fence")
       THEN save(e, cp(e), "copying", "clear")
       ELSE moveTo(e, IF cp(e).phase = "copying" THEN "clear" ELSE "verify")
    /\ UNCHANGED <<names, wal, slot, row, lock, slotLock, ax, reaper, used>>

(* WithSlotLock: taken to create a slot or to replace one, and let go. *)
LockSlotName(e) ==
    /\ eng[e].pc \in {"claim", "recClaim"} /\ slotLock = None
    /\ slotLock' = e
    /\ IF at(e, "claim")
       THEN moveTo(e, "create")
       ELSE save(e, cp(e), "reconciling", "recDrop")
    /\ UNCHANGED <<names, table, wal, slot, row, lock, ax, reaper, used>>

(* A new slot starts where the WAL ends; the server makes it only once     *)
(* every transaction that holds an xid, a swap among them, has ended.      *)
newSlot == [exists |-> TRUE, at |-> Len(wal), lost |-> FALSE, holder |-> None]

CreateSlot(e) ==
    /\ at(e, "create") /\ ~slot.exists /\ ax = NoSwap
    /\ slot' = newSlot
    /\ eng' = [eng EXCEPT ![e] = [@ EXCEPT !.pc = "save", !.made = TRUE,
                  !.cp.lsn = Len(wal), !.to = "copying", !.then = "release"]]
    /\ UNCHANGED <<names, table, wal, row, lock, slotLock, ax, reaper, used>>

(* SlotExistsError: a slot of the derived name was there before the run. *)
SlotExists(e) ==
    /\ at(e, "create") /\ slot.exists
    /\ unbuild(e)
    /\ UNCHANGED <<names, table, wal, slot, row, lock, ax, reaper, used>>

UnlockSlotName(e) ==
    /\ at(e, "release")
    /\ slotLock' = None
    /\ moveTo(e, "ready")
    /\ UNCHANGED <<names, table, wal, slot, row, lock, ax, reaper, used>>

-----------------------------------------------------------------------------
(* liveReady: InspectResume reads the slot; a row left reconciling, or a   *)
(* slot missing or lost, is reconciled before the stream opens.            *)

(* Variant: a reconcile that was cut short is not finished. *)
NeedsNewSlotOnly(e) == ~slot.exists \/ slot.lost

needsReconcile(e) == cp(e).phase = "reconciling" \/ ~slot.exists \/ slot.lost

InspectResume(e) ==
    /\ at(e, "ready")
    /\ needsReconcile(e) \/ slot.holder = None
    /\ moveTo(e, IF needsReconcile(e) THEN "recClear" ELSE "open")
    /\ UNCHANGED <<names, table, wal, slot, row, lock, slotLock, ax, reaper, used>>

(* confirmShadowRelations and clearAbove, before any slot command. *)
ReconcileClear(e) ==
    /\ at(e, "recClear") /\ holds(e) /\ describes(cp(e)) /\ ax = NoSwap
    /\ table' = IF cp(e).wm = 0 THEN table
                ELSE [table EXCEPT ![cp(e).shadow].rows = cleared(@, cp(e).wm)]
    /\ moveTo(e, "recClaim")
    /\ UNCHANGED <<names, wal, slot, row, lock, slotLock, ax, reaper, used>>

(* ReplaceSlot, under the slot lock and after the row says reconciling. *)
ReplaceSlotDrop(e) ==
    /\ at(e, "recDrop") /\ slot.holder = None
    /\ slot' = NoSlot
    /\ moveTo(e, "recCreate")
    /\ UNCHANGED <<names, table, wal, row, lock, slotLock, ax, reaper, used>>

ReplaceSlotCreate(e) ==
    /\ at(e, "recCreate") /\ ~slot.exists /\ ax = NoSwap
    /\ slot' = newSlot
    /\ slotLock' = None
    /\ eng' = [eng EXCEPT ![e] = [@ EXCEPT !.pc = "recCopy", !.landed = 0,
                                           !.mark = Len(wal)]]
    /\ UNCHANGED <<names, table, wal, row, lock, ax, reaper, used>>

(* The recopy pass: every chunk through the watermark is made the source's. *)
ReconcileCopy(e) ==
    /\ at(e, "recCopy") /\ eng[e].landed < cp(e).wm /\ holds(e)
    /\ describes(cp(e)) /\ ax = NoSwap
    /\ LET p == eng[e].landed + 1 IN
       /\ table' = [table EXCEPT ![cp(e).shadow].rows[p] =
                                    table[names.source].rows[p]]
       /\ eng' = [eng EXCEPT ![e].landed = p]
    /\ UNCHANGED <<names, wal, slot, row, lock, slotLock, ax, reaper, used>>

phaseAfterReconcile(c) == IF c.wm = LastPart THEN "catching_up" ELSE "copying"

ReconcileDone(e) ==
    /\ at(e, "recCopy") /\ eng[e].landed = cp(e).wm
    /\ save(e, [cp(e) EXCEPT !.lsn = eng[e].mark],
            phaseAfterReconcile(cp(e)), "open")
    /\ UNCHANGED <<names, table, wal, slot, row, lock, slotLock, ax, reaper, used>>

-----------------------------------------------------------------------------
(* The fill.  A live run applies the stream beside it (the capture): every *)
(* step of the fill is bound to the capture's context.                     *)

capturing(e) == eng[e].live => slot.holder = e

(* startCapture: the server starts the stream at the later of the row's    *)
(* position and the slot's own.                                            *)
OpenStream(e) ==
    /\ at(e, "open") /\ slot.exists /\ ~slot.lost /\ slot.holder = None
    /\ slot' = [slot EXCEPT !.holder = e]
    /\ eng' = [eng EXCEPT ![e] = [@ EXCEPT
           !.pc = IF cp(e).phase = "copying" THEN "clear" ELSE "mark",
           !.applied = Larger(slot.at, cp(e).lsn), !.landed = cp(e).wm]]
    /\ UNCHANGED <<names, table, wal, row, lock, slotLock, ax, reaper, used>>

(* One change of the stream reaches the shadow, or is discarded because    *)
(* its part has not been copied yet (CO-4).                                *)
ApplyNext(e) ==
    /\ slot.holder = e /\ holds(e) /\ eng[e].applied < Len(wal) /\ ax = NoSwap
    /\ describes(cp(e))
    /\ LET i == eng[e].applied + 1 IN
       /\ table' = IF wal[i] <= eng[e].landed
                   THEN [table EXCEPT ![cp(e).shadow].rows[wal[i]] = i]
                   ELSE table
       /\ eng' = [eng EXCEPT ![e].applied = i]
    /\ UNCHANGED <<names, wal, slot, row, lock, slotLock, ax, reaper, used>>

ConfirmApplied(e) ==
    /\ slot.holder = e /\ slot.at < eng[e].applied
    /\ slot' = [slot EXCEPT !.at = eng[e].applied]
    /\ UNCHANGED <<names, table, wal, row, lock, slotLock, ax, eng, reaper, used>>

(* The copier's start clears the shadow above the row's watermark. *)
ClearAbove(e) ==
    /\ at(e, "clear") /\ holds(e) /\ capturing(e) /\ describes(cp(e)) /\ ax = NoSwap
    /\ table' = [table EXCEPT ![cp(e).shadow].rows = cleared(@, cp(e).wm)]
    /\ eng' = [eng EXCEPT ![e].pc = "copy", ![e].landed = cp(e).wm]
    /\ UNCHANGED <<names, wal, slot, row, lock, slotLock, ax, reaper, used>>

CopyChunk(e) ==
    /\ at(e, "copy") /\ holds(e) /\ capturing(e) /\ describes(cp(e)) /\ ax = NoSwap
    /\ eng[e].landed < LastPart
    /\ LET p == eng[e].landed + 1 IN
       /\ table' = [table EXCEPT ![cp(e).shadow].rows[p] =
                                    table[names.source].rows[p]]
       /\ eng' = [eng EXCEPT ![e].landed = p]
    /\ UNCHANGED <<names, wal, slot, row, lock, slotLock, ax, reaper, used>>

(* The position the row records: the quiesced run's never moves. *)
confirmed(e) == IF eng[e].live THEN Larger(cp(e).lsn, slot.at) ELSE cp(e).lsn

(* watermarkSaver: reads the copy's progress, confirms the lock, and       *)
(* commits while the copy goes on.                                         *)
SaverRead(e) ==
    /\ at(e, "copy") /\ holds(e) /\ capturing(e)
    /\ eng[e].saver = NoRow /\ eng[e].landed > cp(e).wm
    /\ eng' = [eng EXCEPT ![e].saver =
                  [cp(e) EXCEPT !.wm = eng[e].landed, !.lsn = confirmed(e)]]
    /\ UNCHANGED <<names, table, wal, slot, row, lock, slotLock, ax, reaper, used>>

SaverCommit(e) ==
    /\ at(e, "copy") /\ eng[e].saver # NoRow /\ accepts(eng[e].saver)
    /\ row' = eng[e].saver
    /\ eng' = [eng EXCEPT ![e].cp = eng[e].saver, ![e].saver = NoRow]
    /\ UNCHANGED <<names, table, wal, slot, lock, slotLock, ax, reaper, used>>

(* runCopy's end: the watermark is complete and the row moves on. *)
CopyDone(e) ==
    /\ at(e, "copy") /\ capturing(e) /\ eng[e].saver = NoRow
    /\ eng[e].landed = LastPart
    /\ save(e, [cp(e) EXCEPT !.wm = LastPart, !.lsn = confirmed(e)],
            IF eng[e].live THEN "catching_up" ELSE "verifying",
            IF eng[e].live THEN "mark" ELSE "verify")
    /\ UNCHANGED <<names, table, wal, slot, row, lock, slotLock, ax, reaper, used>>

(* awaitCaughtUp: a marker past every change committed so far, waited for. *)
MarkWAL(e) ==
    /\ at(e, "mark") /\ capturing(e)
    /\ eng' = [eng EXCEPT ![e].pc = "await", ![e].mark = Len(wal)]
    /\ UNCHANGED <<names, table, wal, slot, row, lock, slotLock, ax, reaper, used>>

CaughtUp(e) ==
    /\ at(e, "await") /\ capturing(e) /\ slot.at >= eng[e].mark
    /\ save(e, [cp(e) EXCEPT !.lsn = confirmed(e)], "verifying", "verify")
    /\ UNCHANGED <<names, table, wal, slot, row, lock, slotLock, ax, reaper, used>>

(* The verification pass.  A live pass waits, chunk by chunk, for the      *)
(* stream to explain a difference; what it cannot explain stops the run.   *)
matches(e) ==
    IF eng[e].live
    THEN Replay(shadowRows(e), slot.at) = table[cp(e).src].rows
    ELSE shadowRows(e) = table[cp(e).src].rows

Verify(e) ==
    /\ at(e, "verify") /\ holds(e) /\ capturing(e) /\ describes(cp(e))
    /\ ax = NoSwap /\ cp(e).wm = LastPart /\ matches(e)
    /\ eng' = [eng EXCEPT ![e].pc = "gate", ![e].unseen = {}]
    /\ UNCHANGED <<names, table, wal, slot, row, lock, slotLock, ax, reaper, used>>

-----------------------------------------------------------------------------
(* The cutover. *)

gateOpen(e) == describes(cp(e)) /\ names.old = 0

(* Variant: the swap is attempted before the row says cutover. *)
GateWithoutSave(e) ==
    /\ at(e, "gate") /\ holds(e) /\ capturing(e) /\ gateOpen(e) /\ ax = NoSwap
    /\ moveTo(e, "swap")
    /\ slot' = IF eng[e].live THEN [slot EXCEPT !.holder = None] ELSE slot
    /\ UNCHANGED <<names, table, wal, row, lock, slotLock, ax, reaper, used>>

(* GateCutover; a live run then ends its capture, so the swap's drain is   *)
(* the only stream on the slot; the row says cutover before the swap.      *)
GateCutover(e) ==
    /\ at(e, "gate") /\ holds(e) /\ capturing(e) /\ gateOpen(e) /\ ax = NoSwap
    /\ IF ~eng[e].live /\ cp(e).phase = "cutover"
       THEN moveTo(e, "swap")
       ELSE save(e, [cp(e) EXCEPT !.lsn = confirmed(e)], "cutover", "swap")
    /\ slot' = IF eng[e].live THEN [slot EXCEPT !.holder = None] ELSE slot
    /\ UNCHANGED <<names, table, wal, row, lock, slotLock, ax, reaper, used>>

(* swapOnce confirms the table lock as its transaction begins, ... *)
SwapBegin(e) ==
    /\ at(e, "swap") /\ holds(e) /\ eng[e].tries < LockAttempts
    /\ moveTo(e, "lock")
    /\ UNCHANGED <<names, table, wal, slot, row, lock, slotLock, ax, reaper, used>>

(* ... waits for ACCESS EXCLUSIVE on both relations, at most lock_timeout  *)
(* and at most LockAttempts times, ...                                     *)
LockTimeout(e) ==
    /\ at(e, "lock")
    /\ eng' = [eng EXCEPT ![e].pc = "swap", ![e].tries = @ + 1]
    /\ UNCHANGED <<names, table, wal, slot, row, lock, slotLock, ax, reaper, used>>

drainable == slot.exists /\ ~slot.lost /\ slot.holder = None
(* Variant: the swap trusts the verification and drains nothing. *)
DrainsNothing(e) == shadowRows(e)

drained(e) ==
    IF eng[e].live THEN Replay(shadowRows(e), Larger(slot.at, cp(e).lsn))
    ELSE shadowRows(e)

swapReady(e) ==
    /\ gateOpen(e)
    /\ IF eng[e].live THEN drainable ELSE table[names.source].fence

(* ... and under the lock confirms the fence or drains the stream, repeats *)
(* the gate and renames.  COMMIT is sent; the server decides.              *)
SwapLock(e) ==
    /\ at(e, "lock") /\ ax = NoSwap /\ swapReady(e)
    /\ ax' = [src |-> cp(e).src, shadow |-> cp(e).shadow, rows |-> drained(e),
              unseen |-> IF eng[e].live THEN {} ELSE eng[e].unseen]
    /\ moveTo(e, "committing")
    /\ UNCHANGED <<names, table, wal, slot, row, lock, slotLock, reaper, used>>

ServerCommit ==
    /\ ax # NoSwap
    /\ names' = [source |-> ax.shadow, shadow |-> 0, old |-> ax.src]
    /\ table' = [table EXCEPT ![ax.shadow].rows = ax.rows]
    /\ used' = [used EXCEPT !.lost = @ \cup ax.unseen]
    /\ ax' = NoSwap
    /\ UNCHANGED <<wal, slot, row, lock, slotLock, eng, reaper>>

(* The swap's backend ends without committing: its client is gone, or its  *)
(* COMMIT failed.                                                          *)
ServerAbort ==
    /\ ax # NoSwap
    /\ IF \E e \in Engine : at(e, "committing")
       THEN mishap
       ELSE UNCHANGED used
    /\ ax' = NoSwap
    /\ UNCHANGED <<names, table, wal, slot, row, lock, slotLock, eng, reaper>>

(* Cutover's answer: heard from the server, or read from the catalog once  *)
(* the swap's backend has gone (resolveUnknownOutcome, readOutcome).       *)
SwapDone(e) ==
    /\ at(e, "committing") /\ ax = NoSwap /\ committed(cp(e))
    /\ moveTo(e, "swapped")
    /\ UNCHANGED <<names, table, wal, slot, row, lock, slotLock, ax, reaper, used>>

(* A quiesced run has no slot to drop. *)
NoSlotToDrop(e) ==
    /\ at(e, "swapped") /\ ~cp(e).live
    /\ moveTo(e, "settle")
    /\ UNCHANGED <<names, table, wal, slot, row, lock, slotLock, ax, reaper, used>>

(* settleOldTable: the retained source is dropped, or kept without its     *)
(* fence; one already gone has nothing to settle.                          *)
SettleOldTable(e) ==
    /\ at(e, "settle") /\ holds(e) /\ names.old \in {0, cp(e).src} /\ ax = NoSwap
    /\ \E keepOld \in KeepOlds :
          IF keepOld
          THEN /\ table' = IF names.old = 0 THEN table ELSE unfenced(names.old)
               /\ UNCHANGED names
          ELSE /\ table' = dropped(names.old)
               /\ names' = [names EXCEPT !.old = 0]
    /\ save(e, cp(e), "done", "finish")
    /\ UNCHANGED <<wal, slot, row, lock, slotLock, ax, reaper, used>>

Finish(e) ==
    /\ at(e, "finish")
    /\ halt(e)
    /\ UNCHANGED <<names, table, wal, row, ax, reaper, used>>

(* abandonOnDataFault: the server rejects the data under the new shape in  *)
(* the fill or in the swap, whose transaction rolls back; the run is       *)
(* discarded as a restart would discard it.                                *)
DataFault(e) ==
    /\ eng[e].pc \in {"copy", "mark", "await", "verify", "lock"} /\ eng[e].saver = NoRow
    /\ holds(e) /\ mayDiscard(cp(e))
    /\ mishap
    /\ eng' = [eng EXCEPT ![e].pc = "discardShadow", ![e].then = "idle"]
    /\ slot' = IF slot.holder = e THEN [slot EXCEPT !.holder = None] ELSE slot
    /\ UNCHANGED <<names, table, wal, row, lock, slotLock, ax, reaper>>

(* Every other way a run ends: a step is refused and what the run made     *)
(* stays for the next one, or the lost lock session is noticed.            *)
filling(e) == eng[e].pc \in {"clear", "copy", "mark", "await", "verify", "gate"}

refused(e) ==
    \/ dispatchRefused(e)
    \/ ~at(e, "idle") /\ ~holds(e)
    \/ at(e, "build") /\ (names.shadow # 0 \/ used.oid = MaxOID)
    \/ at(e, "discardRow") /\ ~accepts(cp(e))
    \/ at(e, "commit") /\ ~accepts(cp(e))
    \/ at(e, "copy") /\ eng[e].saver # NoRow /\ ~accepts(eng[e].saver)
    \/ at(e, "ready") /\ ~needsReconcile(e) /\ slot.holder # None
    \/ at(e, "open") /\ ~drainable
    \/ filling(e) /\ (~capturing(e) \/ ~describes(cp(e)))
    \/ eng[e].pc \in {"refence", "recClear", "recCopy"} /\ ~describes(cp(e))
    \/ at(e, "verify") /\ ~matches(e)
    \/ at(e, "gate") /\ ~gateOpen(e)
    \/ at(e, "swap") /\ eng[e].tries = LockAttempts
    \/ at(e, "lock") /\ ax = NoSwap /\ ~swapReady(e)
    \/ at(e, "committing") /\ ax = NoSwap /\ ~committed(cp(e))
    \/ at(e, "settle") /\ names.old \notin {0, cp(e).src}

Refuse(e) ==
    /\ refused(e)
    /\ halt(e)
    /\ UNCHANGED <<names, table, wal, row, ax, reaper, used>>

-----------------------------------------------------------------------------
(* ReapOrphanSlots: slots are listed, then each orphan is judged again and *)
(* dropped under the engine's lock on its name.                            *)

ownsSlot(r) == r # NoRow /\ ~Terminal(r) /\ r.live

ReapList ==
    /\ reaper = "idle" /\ slot.exists /\ slot.holder = None /\ ~ownsSlot(row)
    /\ reaper' = "lock"
    /\ UNCHANGED <<names, table, wal, slot, row, lock, slotLock, ax, eng, used>>

(* Variant: the reaper judges without the lock on the slot's name. *)
ReapUnlocked ==
    /\ reaper = "lock"
    /\ reaper' = "judge"
    /\ UNCHANGED <<names, table, wal, slot, row, lock, slotLock, ax, eng, used>>

ReapLock ==
    /\ reaper = "lock" /\ slotLock = None
    /\ slotLock' = Reaper
    /\ reaper' = "judge"
    /\ UNCHANGED <<names, table, wal, slot, row, lock, ax, eng, used>>

ReapJudge ==
    /\ reaper = "judge"
    /\ reaper' = IF ownsSlot(row) THEN "idle" ELSE "drop"
    /\ slotLock' = IF ownsSlot(row) THEN None ELSE slotLock
    /\ UNCHANGED <<names, table, wal, slot, row, lock, ax, eng, used>>

(* DropIdleSlot: a held slot is reported and left. *)
ReapDrop ==
    /\ reaper = "drop"
    /\ slot' = IF slot.holder = None THEN NoSlot ELSE slot
    /\ reaper' = "idle"
    /\ slotLock' = None
    /\ UNCHANGED <<names, table, wal, row, lock, ax, eng, used>>

-----------------------------------------------------------------------------
Init ==
    /\ wal = <<>>
    /\ names = [source |-> 1, shadow |-> 0, old |-> 0]
    /\ table = [o \in OID |-> IF o = 1 THEN [NoTable EXCEPT !.rows = truth]
                              ELSE NoTable]
    /\ slot = NoSlot /\ row = NoRow
    /\ lock = None /\ slotLock = None /\ ax = NoSwap
    /\ eng = [e \in Engine |-> Idle]
    /\ reaper = "idle"
    /\ used = [oid |-> 1, mishap |-> 0, loss |-> 0, lost |-> {}]

Environment ==
    \/ \E p \in Part : ClientWrite(p) \/ WritePastFence(p)
    \/ LoseSlot \/ DisableFence \/ LoseLock

Dispatch(e) ==
    \/ DispatchNoRow(e) \/ ReplaceDoneRow(e) \/ Restart(e)
    \/ ResumeSwapped(e) \/ Resume(e)

Discard(e) ==
    DropShadow(e) \/ DropSlot(e) \/ DropWriteFence(e) \/ SkipSlot(e) \/ DeleteRow(e)

Fresh(e) ==
    \/ BuildShadow(e) \/ InstallWriteFence(e) \/ LockSlotName(e)
    \/ CreateSlot(e) \/ SlotExists(e) \/ UnlockSlotName(e)

Reconcile(e) ==
    \/ InspectResume(e) \/ ReconcileClear(e) \/ ReplaceSlotDrop(e)
    \/ ReplaceSlotCreate(e) \/ ReconcileCopy(e) \/ ReconcileDone(e)

Fill(e) ==
    \/ OpenStream(e) \/ ApplyNext(e) \/ ConfirmApplied(e) \/ ClearAbove(e)
    \/ CopyChunk(e) \/ CopyDone(e) \/ MarkWAL(e) \/ CaughtUp(e) \/ Verify(e)

Saver(e) == SaverRead(e) \/ SaverCommit(e)

Cutover(e) ==
    GateCutover(e) \/ SwapBegin(e) \/ SwapLock(e) \/ SwapDone(e)

Settle(e) == NoSlotToDrop(e) \/ SettleOldTable(e) \/ Finish(e)

Work(e) ==
    \/ Dispatch(e) \/ Discard(e) \/ SaveConfirm(e) \/ SaveCommit(e) \/ Fresh(e)
    \/ Reconcile(e) \/ Fill(e) \/ Cutover(e) \/ Settle(e) \/ Refuse(e)

Fails(e) == Crash(e) \/ FreshFails(e) \/ DataFault(e) \/ LockTimeout(e)

Reap == ReapList \/ ReapLock \/ ReapJudge \/ ReapDrop

Next ==
    \/ Environment \/ ServerCommit \/ ServerAbort \/ Reap
    \/ \E e \in Engine :
          \/ \E k \in Kinds, st \in Statement, r \in Restarts :
                Run(e, k = "live", st, r)
          \/ Work(e) \/ Saver(e) \/ Fails(e)

Spec == Init /\ [][Next]_vars

-----------------------------------------------------------------------------
(* Properties. *)

(* CO-1: the relation that bears the source's name holds every write a     *)
(* client committed, through every crash, restart, reconcile and swap.     *)
(* The one exemption is runner.go's own: the table's owner "can disable it, *)
(* write, and put it back between the verification pass and the swap, and  *)
(* that write is not seen" (runner.go:179-181).  A part so written is       *)
(* exempt once the swap of that very run has committed, and no other is.   *)
LiveTableHoldsEveryWrite ==
    \A p \in Part \ used.lost : table[names.source].rows[p] = truth[p]

(* CO-4, ST-4: a live run that reaches its verification pass holding the   *)
(* lock has a shadow the stream completes: the copy, the resume and the    *)
(* reconcile leave nothing for the checksum to find.                       *)
VerifyFindsNothing ==
    \A e \in Engine :
        at(e, "verify") /\ eng[e].live /\ holds(e) /\ capturing(e)
            => matches(e)

(* LK-4: once the row's shadow is the live table, the row says cutover or  *)
(* done, so the next run asks the catalog before it touches either.        *)
SwapIsRecorded ==
    row # NoRow /\ names.source = row.shadow => row.phase \in {"cutover", "done"}

(* A row never claims more than is there: while its shadow stands, every   *)
(* part through its watermark has been copied (ST-1, TM-3).                *)
RowIsHonest ==
    row # NoRow /\ ~Terminal(row) /\ names.shadow = row.shadow =>
        \A p \in Part : p <= row.wm => table[row.shadow].rows[p] # Absent

(* ST-3: the reaper never drops a slot a row in flight names. *)
ReaperSparesLiveSlots ==
    [][reaper = "drop" /\ slot.exists /\ ~slot'.exists => ~ownsSlot(row)]_vars

(* ST-2: a run that reports its change done has left the table in the      *)
(* shape of the statement it was given, with no shadow, no slot, and no    *)
(* fence on it or on a source kept for a rollback.                         *)
DoneIsWhatWasAsked ==
    \A e \in Engine :
        at(e, "finish") =>
            /\ table[names.source].shape = eng[e].st
            /\ names.shadow = 0
            /\ eng[e].live => ~slot.exists
            /\ ~table[names.source].fence
            /\ names.old # 0 => ~table[names.old].fence

(* LK-1: while an engine that holds the table lock works from its row, the *)
(* row is the one that engine last saved; no run whose lock went to        *)
(* another engine stamps its stale state over it (store.go, Save).         *)
RowIsTheHolders ==
    \A e \in Engine :
        holds(e) /\ (filling(e) \/ eng[e].pc \in {"ready", "open", "swap", "lock"})
            => row # NoRow /\ row.phase = cp(e).phase /\ row.wm = cp(e).wm
=============================================================================
