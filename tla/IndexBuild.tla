----------------------------- MODULE IndexBuild -----------------------------
(***************************************************************************)
(* pkg/executor, the concurrent index build: CREATE INDEX CONCURRENTLY on  *)
(* a session of its own (cic_build.go), the proof of what a failed build   *)
(* left behind (cic_backend.go, cic_invalid_index.go), the recovery that   *)
(* quarantines and drops it (recover.go), and the operator's cancel        *)
(* (pkg/progress).                                                         *)
(*                                                                         *)
(* The build runs in a backend that outlives the client: a cancelled       *)
(* caller, a lost connection or a dead process leaves it running.          *)
(***************************************************************************)
EXTENDS Executor

Pids == 1..3

indexName == step[1].name

\* An invalid index under the name, and what the inspection can say of it
\* (classifyInvalidIndex): another role's progress row may be hidden.
Invalid(n) == n \in DOMAIN live.idx /\ ~live.idx[n].valid

BuilderOf(oid) == {p \in DOMAIN builders : builders[p].oid = oid /\ builders[p].stage = "building"}

classifyInvalidIndex(oid, silence) ==
    IF scenario.observable THEN (IF BuilderOf(oid) # {} THEN "in-flight" ELSE silence)
    ELSE "unobservable"

Recoverable(err) == err \in {"left-invalid", "abandoned", "unobservable"}

\* Droppable quarantined entries of the table.
Quarantined == {n \in DOMAIN live.idx : ~live.idx[n].valid /\ n = Quarantine[live.idx[n].oid]}

-----------------------------------------------------------------------------
(* buildIndexConcurrently *)

Builder(owner, n, def) == [owner |-> owner, name |-> n, def |-> def, stage |-> "waiting", oid |-> 0]

\* A session for the statement: one the build still holds is not another's.
FreePid == CHOOSE p \in Pids \ (DOMAIN builders \cup {x.tracked}) : TRUE

InBuild(err) == Return(err, x.kind = "sequence")

\* Sessions, the target, the debris checks, then the statement is sent and
\* the tracker learns which backend runs it.
StartBuild ==
    /\ x.pc = "step"
    /\ x.kind = "recover" \/ (x.kind = "sequence" /\ StepKind(step) = "build")
    /\ \/ InBuild("operational") /\ UNCHANGED builders
       \/ /\ Invalid(indexName)
          /\ InBuild(classifyInvalidIndex(live.idx[indexName].oid, "abandoned")) /\ UNCHANGED builders
       \/ /\ ~Invalid(indexName) /\ Quarantined # {}
          /\ \E n \in Quarantined : InBuild(classifyInvalidIndex(live.idx[n].oid, "abandoned"))
          /\ UNCHANGED builders
       \/ /\ ~Invalid(indexName) /\ Quarantined = {}
          /\ LET pid == FreePid
             IN  /\ builders' = Put(builders, pid, Builder("executor", indexName, step[1].def))
                 /\ x' = [x EXCEPT !.pc = "building", !.pid = pid, !.tracked = pid, !.table = live.oid,
                                   !.seen = 0, !.outcome = "none"]
                 /\ tx' = tx
    /\ UNCHANGED <<scenario, live, moves>>

\* The backend: it waits for the table's lock, creates the invalid entry in
\* its first transaction, and makes it valid in its last.
Mine(p) == x.pc = "building" /\ x.pid = p /\ builders[p].owner = "executor"

Tell(p, outcome) == x' = IF Mine(p) THEN [x EXCEPT !.outcome = outcome] ELSE x

BackendStarts(p) ==
    /\ builders[p].stage = "waiting" /\ TableLockFree
    /\ LET b == builders[p] IN
       IF b.name \in RelNames(live)
       THEN builders' = Del(builders, p) /\ Tell(p, "failed") /\ UNCHANGED live
       ELSE /\ live' = [live EXCEPT !.idx = Put(@, b.name, [b.def EXCEPT !.oid = live.next, !.valid = FALSE]),
                                    !.next = @ + 1]
            /\ builders' = [builders EXCEPT ![p].stage = "building", ![p].oid = live.next]
            /\ x' = IF x.pid = p /\ b.owner = "executor" THEN [x EXCEPT !.seen = live.next] ELSE x
    /\ UNCHANGED <<scenario, tx, moves>>

BackendFinishes(p) ==
    /\ builders[p].stage = "building"
    /\ live' = [live EXCEPT !.idx = [n \in DOMAIN @ |-> IF @[n].oid = builders[p].oid
                                                         THEN [@[n] EXCEPT !.valid = TRUE] ELSE @[n]]]
    /\ builders' = Del(builders, p)
    /\ Tell(p, "ok")
    /\ UNCHANGED <<scenario, tx, moves>>

\* A duplicate in the rows, a budget, a cancel signal, a terminated backend.
BackendFails(p) ==
    /\ builders' = Del(builders, p)
    /\ Tell(p, "failed")
    /\ UNCHANGED <<scenario, live, tx, moves>>

\* The client learns of its build, or its context or connection ends first.
BuildEnds ==
    /\ x.pc = "building"
    /\ \/ x.outcome # "none" /\ x' = [x EXCEPT !.pc = "stop"]
       \/ x.outcome = "none" /\ x' = [x EXCEPT !.pc = "stop", !.outcome = "failed"]
    /\ UNCHANGED <<scenario, live, tx, builders, moves>>

\* Mutant: the build is retired under a signal on its way.
StopUnfenced ==
    /\ x.pc = "stop"
    /\ x' = [x EXCEPT !.tracked = 0, !.pc = IF x.outcome = "ok" THEN "verify" ELSE "verdict"]
    /\ UNCHANGED <<scenario, live, tx, builders, moves>>

\* The fence: no signal that read the pid is still on its way.
StopConcurrentBuild ==
    /\ x.pc = "stop" /\ x.gate = 0
    /\ x' = [x EXCEPT !.tracked = 0, !.pc = IF x.outcome = "ok" THEN "verify" ELSE "verdict"]
    /\ UNCHANGED <<scenario, live, tx, builders, moves>>

verifiedBuildReport ==
    /\ x.pc = "verify"
    /\ \/ InBuild("unverified")
       \/ Invalid(indexName) /\ InBuild("left-invalid")
       \/ /\ indexName \in DOMAIN live.idx /\ live.idx[indexName].valid
          /\ Advance
          /\ tx' = tx
    /\ UNCHANGED <<scenario, live, builders, moves>>

\* awaitBackendStopped, then one snapshot of the catalog.
OwnBackendRuns == x.pid \in DOMAIN builders /\ builders[x.pid].owner = "executor"

\* Mutant: the client's error is taken for the end of the backend.
BackendPresumedStopped == TRUE

awaitBackendStopped == ~OwnBackendRuns

catalogVerdict ==
    IF live.oid # x.table THEN "identity-changed"
    ELSE IF Invalid(indexName) THEN classifyInvalidIndex(live.idx[indexName].oid, "left-invalid")
    ELSE "build-failed"

failedBuildVerdict ==
    /\ x.pc = "verdict"
    /\ \/ (OwnBackendRuns \/ ~scenario.observable) /\ InBuild("unproven")
       \/ awaitBackendStopped /\ InBuild(catalogVerdict)
    /\ UNCHANGED <<scenario, live, builders, moves>>

-----------------------------------------------------------------------------
(* recoverAbandonedIndex *)

RecoverInspects ==
    /\ x.pc = "admit" /\ x.kind \in {"recover", "drop"}
    /\ IF scenario.pool < (IF x.kind = "recover" THEN 3 ELSE 2) THEN Return("pool-too-small", FALSE)
       ELSE IF ~Invalid(indexName) THEN x' = [x EXCEPT !.pc = "sweep", !.table = live.oid] /\ tx' = tx
       ELSE LET oid == live.idx[indexName].oid
                err == classifyInvalidIndex(oid, "abandoned")
            IN  IF Recoverable(err)
                THEN x' = [x EXCEPT !.pc = "quarantine", !.seen = oid, !.table = live.oid] /\ tx' = tx
                ELSE Return(err, FALSE)
    /\ UNCHANGED <<scenario, live, builders, moves>>

Entry(oid) == {n \in DOMAIN live.idx : live.idx[n].oid = oid}

isAbandonmentCandidate(oid, n) == n \in Entry(oid) /\ ~live.idx[n].valid

\* quarantineAbandonedIndex: the table's lock proves that no concurrent build
\* runs on it; what was inspected is read again under it.
\* Mutant: the entry is renamed without the lock that proves it dead.
NoProofLock == tx.held = "none"

ProofLock == TableLockFree

QuarantineProves ==
    /\ x.pc = "quarantine"
    /\ \/ Return("lock-budget", FALSE)
       \/ /\ ProofLock
          /\ IF Entry(x.seen) = {} THEN x' = [x EXCEPT !.pc = "sweep"] /\ tx' = tx
             ELSE IF live.oid # x.table THEN Return("identity-changed", FALSE)
             ELSE IF ~isAbandonmentCandidate(x.seen, indexName) THEN Return("unproven", FALSE)
             ELSE IF scenario.observable /\ BuilderOf(x.seen) # {} THEN Return("in-flight", FALSE)
             ELSE x' = [x EXCEPT !.pc = "rename-entry"] /\ tx' = [tx EXCEPT !.held = "SUE"]
    /\ UNCHANGED <<scenario, live, builders, moves>>

RenamedEntry ==
    [live EXCEPT !.idx = Put(Del(@, indexName), Quarantine[x.seen], live.idx[indexName])]

QuarantineRenames ==
    /\ x.pc = "rename-entry"
    /\ \/ Return("operational", FALSE) /\ UNCHANGED live
       \/ /\ indexName \notin Entry(x.seen)
          /\ Return("unproven", FALSE) /\ UNCHANGED live
       \/ /\ indexName \in Entry(x.seen)
          /\ live' = RenamedEntry
          /\ \/ x' = [x EXCEPT !.pc = "sweep"] /\ tx' = NoTx
             \/ Return("operational", FALSE)            \* COMMIT landed, its answer did not
    /\ UNCHANGED <<scenario, builders, moves>>

\* dropQuarantinedIndexes.
Sweep ==
    /\ x.pc = "sweep"
    /\ tx' = tx
    /\ IF Quarantined = {}
       THEN x' = [x EXCEPT !.pc = IF x.kind = "recover" THEN "step" ELSE "returned"]
       ELSE \E n \in Quarantined :
               IF scenario.observable /\ BuilderOf(live.idx[n].oid) # {}
               THEN x' = [x EXCEPT !.pc = "returned", !.err = "in-flight"]
               ELSE x' = [x EXCEPT !.pc = "reverify", !.seen = live.idx[n].oid]
    /\ UNCHANGED <<scenario, live, builders, moves>>

\* dropQuarantinedIndex: the name is read once more, under no lock, ...
ReverifyEntry ==
    /\ x.pc = "reverify"
    /\ \/ Return("operational", FALSE)
       \/ IF isAbandonmentCandidate(x.seen, Quarantine[x.seen])
          THEN x' = [x EXCEPT !.pc = "drop-entry"] /\ tx' = tx
          ELSE Return("unproven", FALSE)
    /\ UNCHANGED <<scenario, live, builders, moves>>

\* ... then DROP INDEX CONCURRENTLY drops whatever bears it.  A drop that was
\* heard to succeed is believed once the entry's own oid is gone; one that
\* landed unheard, or could not be verified, is an error all the same.
DropEntry ==
    /\ x.pc = "drop-entry"
    /\ \/ Return("lock-budget", FALSE) /\ UNCHANGED live
       \/ Return("operational", FALSE) /\ UNCHANGED live
       \/ /\ TableLockFree /\ Quarantine[x.seen] \in DOMAIN live.idx
          /\ live' = [live EXCEPT !.idx = Del(@, Quarantine[x.seen])]
          /\ \/ Return("operational", FALSE)
             \/ IF Entry(x.seen) \subseteq {Quarantine[x.seen]}
                THEN x' = [x EXCEPT !.pc = "sweep"] /\ tx' = tx
                ELSE Return("unproven", FALSE)
    /\ UNCHANGED <<scenario, builders, moves>>

-----------------------------------------------------------------------------
(* progress.Tracker: an operator cancels the build *)

\* Both a cancel and a poll take the gate, which one caller holds at a time,
\* and read the running build under it; without one they return.
takePollGate(m) ==
    /\ m \in moves /\ x.gate = 0
    /\ moves' = moves \ {m}
    /\ x' = [x EXCEPT !.gate = x.tracked]
    /\ UNCHANGED <<scenario, live, tx, builders>>

CancelBuild == takePollGate("cancel")

Progress == takePollGate("poll")

\* The signal, or the read of the progress row, goes out on the session the
\* build's verdict will need, and the gate is released.
SignalBackend ==
    /\ x.gate # 0
    /\ x' = [x EXCEPT !.gate = 0]
    /\ builders' = builders           \* an active backend fails at its next interrupt check
    /\ UNCHANGED <<scenario, live, tx, moves>>

\* Another run builds an index of the same name.
OtherBuilds(n, def) ==
    /\ "build" \in moves /\ moves' = moves \ {"build"}
    /\ builders' = Put(builders, FreePid, Builder("other", n, def))
    /\ UNCHANGED <<scenario, live, tx, x>>

-----------------------------------------------------------------------------

BackendStep ==
    \E p \in DOMAIN builders : BackendStarts(p) \/ BackendFinishes(p) \/ BackendFails(p)

IndexBuildStep ==
    \/ StartBuild \/ BuildEnds \/ StopConcurrentBuild \/ verifiedBuildReport \/ failedBuildVerdict
    \/ RecoverInspects \/ QuarantineProves \/ QuarantineRenames \/ Sweep \/ ReverifyEntry \/ DropEntry
    \/ CancelBuild \/ Progress \/ SignalBackend
=============================================================================
