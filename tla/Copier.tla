------------------------------- MODULE Copier -------------------------------
(***************************************************************************)
(* The chunked copy of pkg/copier: a chunker cuts the primary-key space    *)
(* into consecutive closed ranges, workers copy them in transactions of    *)
(* their own, and a ledger records which chunks are claimed, settled and   *)
(* landed.  The applier judges every captured change by Classify, so the   *)
(* ledger must never call a key landed that no committed pass has read     *)
(* (CO-4).  A run may fail, crash or lose its table lock at any point; the *)
(* next run resumes from the saved watermark after clearing the shadow     *)
(* above it behind a fence, while transactions of the earlier run may      *)
(* still be committing on the server ("stragglers").                       *)
(*                                                                         *)
(* Source rows are abstracted: every key of a chunk carries one, and a     *)
(* shadow row is the number of the run whose transaction inserted it.      *)
(***************************************************************************)
EXTENDS Integers, FiniteSets

CONSTANTS
    MinInt64, MaxInt64,   \* the ends of the key space
    Workers,              \* the worker goroutines of one run
    BatchRows,            \* rows one clear batch deletes
    Limits                \* the copies explored: Options.CollisionAttempts, a bound on
                          \* the number of runs, the watermark the first one resumes after

ASSUME KeySpace == MinInt64 \in Int /\ MaxInt64 \in Int /\ MinInt64 < MaxInt64
\* Options.validate refuses less than one worker and less than one pass; a clear
\* batch deletes at least one row.
ASSUME LimitsAssumption ==
    /\ Workers # {}
    /\ BatchRows \in Nat \ {0}
    /\ \A l \in Limits : l.attempts \in Nat \ {0} /\ l.runs \in Nat \ {0}

VARIABLES
    limits,     \* the member of Limits this behaviour explores
    run,        \* the number of the current Run
    session,    \* the table lock session the current run was given
    holder,     \* the session the server shows holding the table lock, 0 none
    sessions,   \* how many table lock sessions have been opened
    from,       \* the watermark the current run resumed after
    saved,      \* the watermark the checkpoint row holds
    phase,      \* the current run: clear, copy, done or failed
    clear,      \* the current run's clear: its transaction and fence flag
    chunker,    \* Chunker: lower bound of the next chunk, and done
    cut, watermark, next, complete, inFlight, landed, partial,  \* ledger
    wk,         \* the workers of the current run
    stopping,   \* the workers' context has been cancelled
    stragglers, \* server-side transactions whose client has gone
    shadow,     \* key -> run that inserted its row, 0 for no row
    covered     \* history: keys a committed pass of this copy has read

ledger == <<cut, watermark, next, complete, inFlight, landed, partial>>
lockVars == <<session, holder, sessions>>
vars == <<limits, run, lockVars, from, saved, phase, clear, chunker, ledger, wk,
          stopping, stragglers, shadow, covered>>

-----------------------------------------------------------------------------
(* Keys, chunks and watermarks. *)

Key == MinInt64 .. MaxInt64
KeysOf(c) == c.lower .. c.upper

NewWatermark(k) == [valid |-> TRUE, value |-> k]
ZeroWatermark == [valid |-> FALSE, value |-> 0]
Watermark == {ZeroWatermark} \cup {NewWatermark(k) : k \in Key}
Complete(w) == w.valid /\ w.value = MaxInt64

\* A checkpoint row holds no watermark or one of an int64 key.
ASSUME FromAssumption == \A l \in Limits : l.from \in Watermark

\* int64 addition of one: it wraps at the end of the key space.
Inc(k) == IF k = MaxInt64 THEN MinInt64 ELSE k + 1

\* The keys at or below a watermark.
Through(w) == {k \in Key : w.valid /\ k <= w.value}

\* startAfter: the lower bound that follows a watermark, and whether none does.
startAfter(w) ==
    IF ~w.valid THEN [next |-> MinInt64, done |-> FALSE]
    ELSE IF Complete(w) THEN [next |-> 0, done |-> TRUE]
    ELSE [next |-> Inc(w.value), done |-> FALSE]

-----------------------------------------------------------------------------
(* The ledger: claim, settle, land and the position the applier reads. *)

startsAtFrontier(c) ==
    IF ~cut.valid THEN c.lower = MinInt64
    ELSE cut.value # MaxInt64 /\ c.lower = Inc(cut.value)

\* Variant: a partly copied chunk counts as landed, its pending keys included.
ClassifyIgnoresPending(c, k) == IF c \in DOMAIN partial THEN "landed" ELSE "inFlight"

\* classifyWithin: a chunk that has committed around its pending keys owes
\* those alone.
classifyWithin(c, k) ==
    IF c \in DOMAIN partial /\ k \notin partial[c] THEN "landed" ELSE "inFlight"

Classify(k) ==
    IF ~cut.valid \/ k > cut.value THEN "uncut"
    ELSE IF \E c \in inFlight : k \in KeysOf(c)
         THEN classifyWithin(CHOOSE c \in inFlight : k \in KeysOf(c), k)
         ELSE "landed"

\* The landed chunks the watermark absorbs: the ones every key between next and
\* them has landed too.  Chunks are consecutive, so the loop of advance, which
\* matches lower bounds one chunk at a time, stops after exactly these.
Contiguous(ls) ==
    {c \in ls : \A k \in next .. c.upper : \E d \in ls : k \in KeysOf(d)}

\* advance, over the landed chunks ls.
advance(ls) ==
    LET prefix == Contiguous(ls)
        last   == CHOOSE c \in prefix : \A d \in prefix : d.upper <= c.upper
    IN  IF complete \/ prefix = {}
        THEN landed' = ls /\ UNCHANGED <<watermark, next, complete>>
        ELSE /\ landed' = ls \ prefix
             /\ watermark' = NewWatermark(last.upper)
             /\ complete' = (last.upper = MaxInt64)
             /\ next' = IF last.upper = MaxInt64 THEN last.lower ELSE Inc(last.upper)

idleWorker == [pc |-> "idle", chunk |-> [lower |-> MinInt64, upper |-> MinInt64],
               mode |-> "strict", pass |-> 1, pending |-> {}]

\* newLedger and NewChunker: the bookkeeping of a run that resumes after w.
FreshRun(w) ==
    /\ from' = w
    /\ cut' = w /\ watermark' = w
    /\ next' = startAfter(w).next /\ complete' = startAfter(w).done
    /\ inFlight' = {} /\ landed' = {} /\ partial' = <<>>
    /\ chunker' = startAfter(w)
    /\ wk' = [i \in Workers |-> idleWorker]
    /\ clear' = [pc |-> "begin", fence |-> TRUE]
    /\ stopping' = FALSE
    /\ covered' = Through(w)

Init ==
    /\ limits \in Limits
    /\ run = 1 /\ session = 1 /\ holder = 1 /\ sessions = 1
    /\ from = limits.from /\ saved = from
    /\ phase = "clear"
    /\ clear = [pc |-> "begin", fence |-> TRUE]
    /\ chunker = startAfter(from)
    /\ cut = from /\ watermark = from
    /\ next = startAfter(from).next /\ complete = startAfter(from).done
    /\ inFlight = {} /\ landed = {} /\ partial = <<>>
    /\ wk = [i \in Workers |-> idleWorker]
    /\ stopping = FALSE
    /\ stragglers = {}
    /\ shadow = [k \in Key |-> IF k \in Through(from) THEN run ELSE 0]
    /\ covered = Through(from)

-----------------------------------------------------------------------------
(* Guarded transactions.  A chunk transaction and a clear batch both hold   *)
(* the shadow before they confirm the table lock; the fence conflicts with  *)
(* every other holder, the plain mode only with a fence.                    *)

holding == {"locked", "confirmed"}
fenceHeld ==
    \/ \E s \in stragglers : s.fence /\ s.pc \in holding
    \/ phase = "clear" /\ clear.fence /\ clear.pc \in holding
shadowHeld ==
    \/ \E s \in stragglers : s.pc \in holding
    \/ phase = "clear" /\ clear.pc \in holding
    \/ phase = "copy" /\ \E w \in Workers : wk[w].pc \in holding

\* Variant: the clear holds the shadow as a chunk does, so it waits for no one.
GrantableUnfenced(fence) == fence \in BOOLEAN /\ ~fenceHeld

\* clearShadowLockMode and holdRelations, as one test: may the lock be granted?
grantable(fence) == IF fence THEN ~shadowHeld ELSE ~fenceHeld

\* The lowest BatchRows rows of the shadow at or above a bound: clearAboveSQL.
batchOf(ks) ==
    LET rows == {k \in ks : shadow[k] # 0}
    IN  {k \in rows : Cardinality({j \in rows : j < k}) < BatchRows}

remove(ks) == shadow' = [k \in Key |-> IF k \in ks THEN 0 ELSE shadow[k]]
\* chunksql.Insert: a key the shadow already holds is left alone.
insert(ks, r) ==
    shadow' = [k \in Key |-> IF k \in ks /\ shadow[k] = 0 THEN r ELSE shadow[k]]

\* Variant: off by one, the clear takes the watermark's own row.
AboveInclusive ==
    IF startAfter(from).done THEN {} ELSE IF from.valid THEN from.value .. MaxInt64 ELSE Key

above == IF startAfter(from).done THEN {} ELSE startAfter(from).next .. MaxInt64

copyStraggler(pc, ks) ==
    [kind |-> "copy", run |-> run, session |-> session, pc |-> pc, keys |-> ks, fence |-> FALSE]
clearStraggler ==
    [kind |-> "clear", run |-> run, session |-> session, pc |-> clear.pc, keys |-> above,
     fence |-> clear.fence]

-----------------------------------------------------------------------------
(* clearAbove: the resumed run clears the shadow above its watermark, the   *)
(* first batch behind the fence.                                            *)

ClearNothing ==
    /\ phase = "clear" /\ clear.pc = "begin"
    /\ startAfter(from).done
    /\ phase' = "copy"
    /\ UNCHANGED <<run, lockVars, from, saved, clear, chunker, ledger, wk, stopping,
                   stragglers, shadow, covered>>

ClearHold ==
    /\ phase = "clear" /\ clear.pc = "begin"
    /\ ~startAfter(from).done
    /\ grantable(clear.fence)
    /\ clear' = [clear EXCEPT !.pc = "locked"]
    /\ UNCHANGED <<run, lockVars, from, saved, phase, chunker, ledger, wk, stopping,
                   stragglers, shadow, covered>>

ClearConfirm ==
    /\ phase = "clear" /\ clear.pc = "locked"
    /\ IF holder = session
       THEN clear' = [clear EXCEPT !.pc = "confirmed"] /\ UNCHANGED phase
       ELSE phase' = "failed" /\ UNCHANGED clear
    /\ UNCHANGED <<run, lockVars, from, saved, chunker, ledger, wk, stopping,
                   stragglers, shadow, covered>>

ClearCommit ==
    /\ phase = "clear" /\ clear.pc = "confirmed"
    /\ remove(batchOf(above))
    /\ clear' = [pc |-> "begin", fence |-> FALSE]
    /\ phase' = IF Cardinality(batchOf(above)) < BatchRows THEN "copy" ELSE "clear"
    /\ UNCHANGED <<run, lockVars, from, saved, chunker, ledger, wk, stopping,
                   stragglers, covered>>

\* A batch fails; a client that goes away while the batch commits leaves it to
\* the server.
ClearFail ==
    /\ phase = "clear"
    /\ phase' = "failed"
    /\ \/ UNCHANGED stragglers
       \/ clear.pc = "confirmed" /\ stragglers' = stragglers \cup {clearStraggler}
    /\ UNCHANGED <<run, lockVars, from, saved, clear, chunker, ledger, wk, stopping,
                   shadow, covered>>

-----------------------------------------------------------------------------
(* work: claim a chunk, copy it until it is clear, land it. *)

set(w, rec) == wk' = [wk EXCEPT ![w] = rec]
moveTo(w, pc) == wk' = [wk EXCEPT ![w].pc = pc]
claimMuFree == \A v \in Workers : wk[v].pc # "claimed"

\* Variant: the chunker stops one key early.
ChunkerStopsEarly(upper) ==
    IF upper >= MaxInt64 - 1 THEN [chunker EXCEPT !.done = TRUE]
    ELSE [chunker EXCEPT !.next = Inc(upper)]

\* Chunker.advance, past a chunk closed at upper.
chunkerPast(upper) ==
    IF upper = MaxInt64 THEN [chunker EXCEPT !.done = TRUE]
    ELSE [chunker EXCEPT !.next = Inc(upper)]

\* cut, under claimMu: the boundary is read from the live table, so the upper
\* bound is any key at or above the lower one.  The cursor moves before the
\* bounded read commits; a commit that fails leaves it moved.
Cut(w) ==
    /\ phase = "copy" /\ wk[w].pc = "idle" /\ ~stopping
    /\ claimMuFree
    /\ ~chunker.done
    /\ \E upper \in chunker.next .. MaxInt64 :
         /\ chunker' = chunkerPast(upper)
         /\ \/ set(w, [idleWorker EXCEPT !.pc = "claimed",
                                         !.chunk = [lower |-> chunker.next, upper |-> upper]])
            \/ moveTo(w, "failed")
    /\ UNCHANGED <<run, lockVars, from, saved, phase, clear, ledger, stopping, stragglers,
                   shadow, covered>>

\* The boundary query fails before it moves the cursor.
CutFail(w) ==
    /\ phase = "copy" /\ wk[w].pc = "idle" /\ ~stopping
    /\ claimMuFree /\ ~chunker.done
    /\ moveTo(w, "failed")
    /\ UNCHANGED <<run, lockVars, from, saved, phase, clear, chunker, ledger, stopping,
                   stragglers, shadow, covered>>

\* No chunk is left, or the context has ended: the worker's loop is over.
Leave(w) ==
    /\ phase = "copy" /\ wk[w].pc = "idle"
    /\ stopping \/ (chunker.done /\ claimMuFree)
    /\ moveTo(w, "exited")
    /\ UNCHANGED <<run, lockVars, from, saved, phase, clear, chunker, ledger, stopping,
                   stragglers, shadow, covered>>

\* ledger.claim, still under claimMu.
Register(w) ==
    /\ phase = "copy" /\ wk[w].pc = "claimed"
    /\ IF startsAtFrontier(wk[w].chunk)
       THEN /\ inFlight' = inFlight \cup {wk[w].chunk}
            /\ cut' = NewWatermark(wk[w].chunk.upper)
            /\ moveTo(w, "copying")
       ELSE moveTo(w, "failed") /\ UNCHANGED <<inFlight, cut>>
    /\ UNCHANGED <<run, lockVars, from, saved, phase, clear, chunker, watermark, next,
                   complete, landed, partial, stopping, stragglers, shadow, covered>>

\* chunkTx's guard, first half: hold the shadow.
Hold(w) ==
    /\ phase = "copy" /\ wk[w].pc = "copying"
    /\ grantable(FALSE)
    /\ moveTo(w, "locked")
    /\ UNCHANGED <<run, lockVars, from, saved, phase, clear, chunker, ledger, stopping,
                   stragglers, shadow, covered>>

\* Second half: the server must show the table lock held by this session.
Confirm(w) ==
    /\ phase = "copy" /\ wk[w].pc = "locked"
    /\ moveTo(w, IF holder = session THEN "confirmed" ELSE "failed")
    /\ UNCHANGED <<run, lockVars, from, saved, phase, clear, chunker, ledger, stopping,
                   stragglers, shadow, covered>>

\* The keys the next pass of a worker reads.
passKeys(w) == IF wk[w].pending = {} THEN KeysOf(wk[w].chunk) ELSE wk[w].pending

\* The strict insert commits the whole range.
CommitWhole(w) ==
    /\ phase = "copy" /\ wk[w].pc = "confirmed" /\ wk[w].mode # "around"
    /\ insert(KeysOf(wk[w].chunk), run)
    /\ covered' = covered \cup KeysOf(wk[w].chunk)
    /\ moveTo(w, "landing")
    /\ UNCHANGED <<run, lockVars, from, saved, phase, clear, chunker, ledger, stopping,
                   stragglers>>

\* A pass around collisions commits every key it reads but the held-off ones.
CommitAround(w) ==
    /\ phase = "copy" /\ wk[w].pc = "confirmed" /\ wk[w].mode = "around"
    /\ \E held \in SUBSET passKeys(w) :
         /\ insert(passKeys(w) \ held, run)
         /\ covered' = covered \cup (passKeys(w) \ held)
         /\ set(w, [wk[w] EXCEPT !.pc = IF held = {} THEN "landing" ELSE "settling",
                                 !.pending = held])
    /\ UNCHANGED <<run, lockVars, from, saved, phase, clear, chunker, ledger, stopping,
                   stragglers>>

\* Variant: a chunk that collides is retried without a limit.
NextPassUnlimited(w, mode) == [wk[w] EXCEPT !.mode = mode, !.pc = "copying"]

\* The next pass, or the end of the copy when the chunk has used its passes.
nextPass(w, mode) ==
    [wk[w] EXCEPT !.mode = mode,
                  !.pass = wk[w].pass + 1,
                  !.pc = IF wk[w].pass < limits.attempts THEN "copying" ELSE "failed"]

\* The server rolls the pass back on a collision or to break a deadlock.
Collide(w) ==
    /\ phase = "copy" /\ wk[w].pc = "confirmed"
    /\ set(w, nextPass(w, IF wk[w].mode = "strict" THEN "around" ELSE wk[w].mode))
    /\ UNCHANGED <<run, lockVars, from, saved, phase, clear, chunker, ledger, stopping,
                   stragglers, shadow, covered>>

\* A DEFERRABLE constraint refuses the first pass around: rerun the range whole.
RefuseAround(w) ==
    /\ phase = "copy" /\ wk[w].pc = "confirmed"
    /\ wk[w].mode = "around" /\ wk[w].pending = {}
    /\ set(w, nextPass(w, "whole"))
    /\ UNCHANGED <<run, lockVars, from, saved, phase, clear, chunker, ledger, stopping,
                   stragglers, shadow, covered>>

\* ledger.settle: the chunk stays in flight and owes its pending keys.
Settle(w) ==
    /\ phase = "copy" /\ wk[w].pc = "settling"
    /\ IF wk[w].chunk \in inFlight /\ wk[w].pending # {}
       THEN /\ partial' = [c \in DOMAIN partial \cup {wk[w].chunk} |->
                             IF c = wk[w].chunk THEN wk[w].pending ELSE partial[c]]
            /\ set(w, nextPass(w, "around"))
       ELSE moveTo(w, "failed") /\ UNCHANGED partial
    /\ UNCHANGED <<run, lockVars, from, saved, phase, clear, chunker, cut, watermark, next,
                   complete, inFlight, landed, stopping, stragglers, shadow, covered>>

\* ledger.land, then the chunker's feedback; the worker returns to its loop.
Land(w) ==
    /\ phase = "copy" /\ wk[w].pc = "landing"
    /\ IF wk[w].chunk \in inFlight
       THEN /\ inFlight' = inFlight \ {wk[w].chunk}
            /\ partial' = [c \in DOMAIN partial \ {wk[w].chunk} |-> partial[c]]
            /\ advance(landed \cup {wk[w].chunk})
            /\ set(w, idleWorker)
       ELSE /\ moveTo(w, "failed")
            /\ UNCHANGED <<inFlight, partial, landed, watermark, next, complete>>
    /\ UNCHANGED <<run, lockVars, from, saved, phase, clear, chunker, cut, stopping,
                   stragglers, shadow, covered>>

\* Variant: a failed pass drops what the chunk had settled.
TxFailUnsettles(w) ==
    /\ phase = "copy" /\ wk[w].pc \in {"copying", "locked", "confirmed"}
    /\ moveTo(w, "failed")
    /\ partial' = [c \in DOMAIN partial \ {wk[w].chunk} |-> partial[c]]
    /\ UNCHANGED <<run, lockVars, from, saved, phase, clear, chunker, cut, watermark, next,
                   complete, inFlight, landed, stopping, stragglers, shadow, covered>>

\* A pass ends in any other error.  The client may be gone while the server is
\* still committing; the chunk stays in flight either way.
TxFail(w) ==
    /\ phase = "copy" /\ wk[w].pc \in {"copying", "locked", "confirmed"}
    /\ moveTo(w, "failed")
    /\ \/ UNCHANGED stragglers
       \/ /\ wk[w].pc = "confirmed"
          /\ stragglers' = stragglers \cup {copyStraggler("confirmed", passKeys(w))}
    /\ UNCHANGED <<run, lockVars, from, saved, phase, clear, chunker, ledger, stopping,
                   shadow, covered>>

\* The failed worker returns and its error cancels the others.
Stop(w) ==
    /\ phase = "copy" /\ wk[w].pc = "failed"
    /\ moveTo(w, "exited")
    /\ stopping' = TRUE
    /\ UNCHANGED <<run, lockVars, from, saved, phase, clear, chunker, ledger, stragglers,
                   shadow, covered>>

-----------------------------------------------------------------------------
(* The run as a whole, the table lock and the checkpoint. *)

\* The caller ends Run's context.
Cancel ==
    /\ phase = "copy" /\ ~stopping
    /\ stopping' = TRUE
    /\ UNCHANGED <<run, lockVars, from, saved, phase, clear, chunker, ledger, wk,
                   stragglers, shadow, covered>>

\* finish, once every worker has exited: a lost lock outranks the cause, and a
\* clean stop must have covered the key space with nothing in flight.
Finish ==
    /\ phase = "copy" /\ \A w \in Workers : wk[w].pc = "exited"
    /\ \/ (stopping \/ holder # session) /\ phase' = "failed"
       \/ /\ ~stopping
          /\ phase' = IF inFlight = {} /\ Complete(watermark) THEN "done" ELSE "refused"
    /\ UNCHANGED <<run, lockVars, from, saved, clear, chunker, ledger, wk, stopping,
                   stragglers, shadow, covered>>

\* The runner checkpoints Position().Watermark under the table lock.
Save ==
    /\ holder = session
    /\ saved # watermark
    /\ saved' = watermark
    /\ UNCHANGED <<run, lockVars, from, phase, clear, chunker, ledger, wk, stopping,
                   stragglers, shadow, covered>>

LoseLock ==
    /\ holder = session
    /\ holder' = 0
    /\ UNCHANGED <<run, session, sessions, from, saved, phase, clear, chunker, ledger, wk,
                   stopping, stragglers, shadow, covered>>

\* The same process runs a new Copier under the session it still holds, once
\* the failed Run has returned, from the position that run reached.
ResumeSame ==
    /\ run < limits.runs
    /\ phase = "failed" /\ holder = session
    /\ run' = run + 1
    /\ FreshRun(watermark)
    /\ phase' = "clear"
    /\ UNCHANGED <<lockVars, saved, stragglers, shadow>>

\* What a crash or a lost lock leaves on the server: the transactions of the
\* workers and of the clear.
leftBehind ==
    {copyStraggler(wk[w].pc, passKeys(w)) :
        w \in {v \in Workers : wk[v].pc \in {"copying", "locked", "confirmed"}}}
    \cup (IF phase = "clear" THEN {clearStraggler} ELSE {})

\* Another lock session takes the table, after a crash or a lost lock, and
\* resumes from the checkpoint row.
ResumeNew ==
    /\ run < limits.runs
    /\ run' = run + 1
    /\ sessions' = sessions + 1
    /\ session' = sessions + 1 /\ holder' = sessions + 1
    /\ stragglers' = stragglers \cup leftBehind
    /\ FreshRun(saved)
    /\ phase' = "clear"
    /\ UNCHANGED <<saved, shadow>>

-----------------------------------------------------------------------------
(* Stragglers take the rest of their transaction's steps on the server. *)

become(s, pc) == stragglers' = (stragglers \ {s}) \cup {[s EXCEPT !.pc = pc]}
end(s) == stragglers' = stragglers \ {s}
runVars == <<run, lockVars, from, saved, phase, clear, chunker, ledger, wk, stopping, covered>>

StragglerHold(s) ==
    /\ s.pc \notin holding
    /\ grantable(s.fence)
    /\ become(s, "locked")
    /\ UNCHANGED <<runVars, shadow>>

StragglerConfirm(s) ==
    /\ s.pc = "locked"
    /\ IF holder = s.session THEN become(s, "confirmed") ELSE end(s)
    /\ UNCHANGED <<runVars, shadow>>

StragglerCommit(s) ==
    /\ s.pc = "confirmed"
    /\ IF s.kind = "copy" THEN insert(s.keys, s.run) ELSE remove(batchOf(s.keys))
    /\ end(s)
    /\ UNCHANGED runVars

StragglerAbort(s) ==
    /\ end(s)
    /\ UNCHANGED <<runVars, shadow>>

-----------------------------------------------------------------------------
ClearStep == ClearNothing \/ ClearHold \/ ClearConfirm \/ ClearCommit \/ ClearFail
WorkerStep(w) ==
    \/ Cut(w) \/ CutFail(w) \/ Leave(w) \/ Register(w) \/ Hold(w) \/ Confirm(w)
    \/ CommitWhole(w) \/ CommitAround(w) \/ Collide(w) \/ RefuseAround(w)
    \/ Settle(w) \/ Land(w) \/ TxFail(w) \/ Stop(w)
RunStep == Cancel \/ Finish \/ Save \/ LoseLock \/ ResumeSame \/ ResumeNew
StragglerStep(s) ==
    StragglerHold(s) \/ StragglerConfirm(s) \/ StragglerCommit(s) \/ StragglerAbort(s)

Next ==
    /\ \/ ClearStep
       \/ \E w \in Workers : WorkerStep(w)
       \/ RunStep
       \/ \E s \in stragglers : StragglerStep(s)
    /\ UNCHANGED limits

Spec == Init /\ [][Next]_vars

\* Goroutines are scheduled and every statement ends within its timeout, so a
\* worker and the clear keep taking steps; the server ends every straggler.
FairSpec ==
    /\ Spec
    /\ WF_vars(ClearStep /\ UNCHANGED limits)
    /\ \A w \in Workers : WF_vars(WorkerStep(w) /\ UNCHANGED limits)
    /\ WF_vars(Finish /\ UNCHANGED limits)
    /\ WF_vars((\E s \in stragglers : StragglerStep(s)) /\ UNCHANGED limits)

-----------------------------------------------------------------------------
(* Properties. *)

\* CO-4: a key Position().Classify calls landed was read by a committed pass of
\* this copy (or lies at or below the watermark it resumed after), whatever
\* workers failed, whichever cut was lost and in whatever order chunks landed:
\* the applier writes a change for it at once and nothing will copy it again.
LandedIsCovered ==
    phase \in {"copy", "done", "failed"} =>
        \A k \in Key : Classify(k) = "landed" => k \in covered

\* CO-4: once the clear is over, a shadow row above the resume watermark is one
\* this run's own passes inserted; no transaction of an earlier run, however
\* late it commits, leaves a row there that the copy would never overwrite, and
\* a key the applier discards changes for has no row at all.
NoStaleRow ==
    phase \in {"copy", "done"} =>
        \A k \in Key \ Through(from) :
            shadow[k] \in {0, run} /\ (Classify(k) = "uncut" => shadow[k] = 0)

\* ST-4: the row of every key at or below the checkpointed watermark is in the
\* shadow, in every state a crash can leave: a late clear batch of an earlier
\* run never removes what a later run has landed.
SavedIsPresent == \A k \in Through(saved) \cup covered : shadow[k] # 0

\* LK-3, CO-4: a Run whose workers all ended without an error has covered the
\* key space with nothing in flight, so finish never refuses.
NeverRefuses == phase # "refused"

\* The ledger and the checkpoint as the contract sees them.
position == [k \in Key |-> Classify(k)]
Contract == INSTANCE CopyPosition WITH run <- run, state <- position, saved <- Through(saved)

\* CO-4, ST-1: through passes around collisions, failures, crashes and resumes,
\* the positions the applier reads and the checkpoints the runner saves are
\* those of module CopyPosition: within a run a key only moves uncut, in flight,
\* landed, in claims that leave nothing out; what is saved is a prefix of landed
\* keys that never shrinks; a run starts after such a prefix
\* (position.go Classify, ledger.go claim, settle, land, resume.go).
MeetsContract == Contract!Spec

\* A Run returns: no chunk's passes, no lock and no straggler keeps the clear
\* or the workers from ending.
RunReturns == \A r \in UNION {1 .. l.runs : l \in Limits} :
    (run = r /\ phase \in {"clear", "copy"}) ~> (run # r \/ phase \notin {"clear", "copy"})
=============================================================================
