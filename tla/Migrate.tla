------------------------------ MODULE Migrate -------------------------------
(***************************************************************************)
(* pkg/migrate, the two front doors, over the planner, the router and the  *)
(* executor: the imperative Run (one statement the operator wrote, with    *)
(* their acknowledgements) and the declarative RunDesired (the plan of     *)
(* pkg/diffplan, each statement of it back through Run, then a fresh plan  *)
(* as the proof of convergence).  A scenario is a sequence of requests     *)
(* made one after another of the same table, so that a rerun meets what an *)
(* earlier request, or its crashed process, left behind.                   *)
(***************************************************************************)
EXTENDS Shadow

VARIABLE job    \* the front door: the request it serves and its last verdict

vars == <<scenario, live, tx, x, builders, moves, swap, job>>

-----------------------------------------------------------------------------
(* Requests *)

\* Options: each acknowledgement is unset, names the resolved table, or
\* names another one.
NoAcks == [force |-> "none", restart |-> "none", writes |-> "none", allow |-> "none", accept |-> "none"]

\* A request.  "door" is the kind of statement an imperative request holds
\* (an ALTER TABLE or CREATE INDEX; an index rename; a DROP INDEX or REINDEX
\* of one relation; any other), "desired", "row-security" with the mode of its
\* call, or one of the two operator calls of the recovery.
Request(door, ops) ==
    [door |-> door, ops |-> ops, desired |-> <<>>, acks |-> NoAcks, copySwap |-> FALSE, pin |-> {},
     mode |-> "execute"]

Desired(model) == [Request("desired", <<>>) EXCEPT !.desired = model]

Securing(mode, model) == [Request("row-security", <<>>) EXCEPT !.desired = model, !.mode = mode]

Acknowledging(req, ack, what) == [req EXCEPT !.acks = [@ EXCEPT ![ack] = what]]

request == scenario.requests[job.r]

acks == request.acks

\* A verdict, with what it tells the operator of a step that failed, and
\* beside it how many steps did commit; "refresh" is its StatisticsRefresh and
\* "shown" the statements of a row security preview.
NoVerdict ==
    [outcome |-> "none", reason |-> "none", says |-> "nothing", reported |-> 0, landed |-> 0, k |-> 0, door |-> "none",
     refresh |-> "none", shown |-> <<>>]

Verdict(outcome, reason) ==
    [NoVerdict EXCEPT !.outcome = outcome, !.reason = reason, !.k = job.k, !.door = request.door]

NoJob == [r |-> 1, pc |-> "request", plan |-> <<>>, k |-> 0, substituted |-> FALSE, last |-> NoVerdict]

Statement(ops) == [ops |-> ops, adopts |-> {}, validates |-> {}]

-----------------------------------------------------------------------------
(* Ending a statement and a request *)

\* The request's answer, and the next request.
Answer(v) ==
    job' = [NoJob EXCEPT !.r = job.r + 1, !.last = v,
                         !.pc = IF job.r = Len(scenario.requests) THEN "done" ELSE "request"]

\* RunDesired's loop: an executed statement is followed by the next one, and
\* the last one by the fresh plan; any other verdict ends the request.
Continues(v) == request.door = "desired" /\ v.outcome \in {"executed", "executed-via-copy-and-swap"}

EndStatement(v) ==
    IF ~Continues(v) THEN Answer(v)
    ELSE job' = [job EXCEPT !.last = v, !.substituted = FALSE,
                            !.pc = IF job.k = Len(job.plan) THEN "verify" ELSE "statement",
                            !.k = IF job.k = Len(job.plan) THEN @ ELSE @ + 1]

Waiting == UNCHANGED <<scenario, live, tx, x, builders, moves>>

Calling(call) == x' = call /\ UNCHANGED <<scenario, live, tx, builders, moves>>

\* Stopped before a verdict: an operational error of a read.
Stopped == Verdict("failed", "stopped")

-----------------------------------------------------------------------------
(* The statement's gate *)

Gate(door, op) ==
    CASE door \in {"alter", "rename"} -> "admitted"
      [] door = "index" -> IF op.concurrent THEN "run-it-directly" ELSE "index-statement"
      [] OTHER -> "unsupported-statement"

\* LiveFacts: a fresh read of the table for one statement.
LiveFacts == Facts(live, scenario.proofs, scenario.views, scenario.policies,
                   request.door = "rename" /\ request.ops[1].name \in KeyNames(live))

rename == request.door = "rename"

StartRun ==
    /\ job.pc = "request" /\ request.door \in {"alter", "rename", "index", "other"}
    /\ Waiting
    /\ LET refusal == Gate(request.door, request.ops[1]) IN
       IF acks.force # "none" /\ acks.accept # "none" THEN Answer(Verdict("failed", "options"))
       ELSE IF acks.restart # "none" /\ (acks.force # "none" \/ acks.accept # "none")
       THEN Answer(Verdict("failed", "options"))
       ELSE IF refusal = "admitted"
       THEN job' = [job EXCEPT !.pc = "statement", !.k = 1, !.plan = <<Statement(request.ops)>>]
       ELSE IF refusal = "index-statement" /\ acks.accept # "none"
       THEN job' = [job EXCEPT !.pc = "blocking", !.k = 1, !.plan = <<Statement(request.ops)>>]
       ELSE Answer(Verdict("refused", refusal))

\* acceptBlocking: the acknowledgement names the locked table, and a drop
\* needs the second one.
acceptBlocking ==
    /\ job.pc = "blocking"
    /\ \/ Answer(Stopped) /\ Waiting
       \/ IF acks.accept # "right" \/ acks.allow = "wrong" THEN Answer(Verdict("failed", "acknowledgement")) /\ Waiting
          ELSE IF request.ops[1].kind = "DropIndex" /\ acks.allow = "none"
          THEN Answer(Verdict("refused", "destructive-change")) /\ Waiting
          ELSE /\ Calling(Call("blocking", <<request.ops>>, {}, {}))
               /\ job' = [job EXCEPT !.pc = "running"]

-----------------------------------------------------------------------------
(* run: classify, route, the acknowledgement gates, dispatch *)

wrongAck ==
    IF rename THEN acks.force # "none" \/ acks.restart # "none" \/ acks.writes # "none"
    ELSE \E a \in {"force", "restart", "writes", "allow"} : acks[a] = "wrong"

routesToClosedCopySwap(rs) ==
    /\ rs.disposition = "execute" /\ rs.backend = "copy-and-swap"
    /\ acks.force = "none" /\ ~request.copySwap

substitutes(rs, st) == rs.backend = "native" /\ rs.disposition = "execute" /\ rs.steps # <<st.ops>>

forces(rs, st) ==
    /\ acks.force # "none"
    /\ rs.disposition # "refuse"
    /\ rs.backend = "native" /\ rs.disposition = "execute" => substitutes(rs, st)

onlineIdiomPlan(p) == \A i \in DOMAIN p.decisions : p.decisions[i].reason = "online-idiom"

sizeGuardApplies(p, substituted) == ~substituted /\ ~onlineIdiomPlan(p)

\* execute up to the executor: the preflights, in order.
preflightRefusal(rs, st) ==
    LET steps == IF forces(rs, st) THEN <<st.ops>> ELSE rs.steps IN
    IF scenario.big /\ sizeGuardApplies(rs.plan, substitutes(rs, st) /\ ~forces(rs, st)) THEN "table-too-large"
    ELSE IF live.partitioned /\ ~rename /\ RefusesPartitionedParent(steps) THEN "partitioned-parent"
    ELSE IF ~scenario.privileged THEN "insufficient-privileges"
    ELSE "none"

execute(rs, st) ==
    LET forced == forces(rs, st)
        refusal == preflightRefusal(rs, st)
        kind == IF rename THEN "rename" ELSE IF forced THEN "native" ELSE "sequence"
    IN  IF ~live.exists \/ (forced /\ st.adopts \cup st.validates # {})
        THEN EndStatement(Stopped) /\ Waiting
        ELSE IF refusal # "none" THEN EndStatement(Verdict("refused", refusal)) /\ Waiting
        ELSE /\ Calling(Call(kind, IF forced THEN <<st.ops>> ELSE rs.steps, st.adopts, st.validates))
             /\ job' = [job EXCEPT !.pc = "running", !.substituted = substitutes(rs, st) /\ ~forced]

\* routeRefusalVerdict names the first decision that refuses.
RefusedBy(p) == SelectSeq(p.decisions, LAMBDA d : d.route = "refuse")[1]

dispatch(rs, st) ==
    IF rs.disposition = "refuse"
    THEN EndStatement(Verdict("refused", RefusedBy(rs.plan).reason)) /\ Waiting
    ELSE IF rs.disposition # "execute" /\ acks.force = "none"
    THEN EndStatement(Verdict("refused", rs.disposition)) /\ Waiting
    ELSE IF rs.backend = "copy-and-swap" /\ acks.force = "none"
    THEN job' = [job EXCEPT !.pc = "copy-and-swap"] /\ Waiting
    ELSE execute(rs, st)

\* Mutant: the gate looks at a lone operation only.
GateLoneOnly(rs) == destructiveStatement(rs) /\ Len(rs.plan.ops) = 1 /\ acks.allow = "none"

destructiveGate(rs) == destructiveStatement(rs) /\ acks.allow = "none"

runStatement ==
    /\ job.pc = "statement"
    /\ \/ EndStatement(Stopped) /\ Waiting
       \/ LET st == job.plan[job.k]
              rs == routeStatement(Classify(st.ops, LiveFacts))
          IN  IF wrongAck THEN EndStatement(Verdict("failed", "acknowledgement")) /\ Waiting
              ELSE IF rename /\ request.ops[1].name \notin RelNames(live) THEN EndStatement(Stopped) /\ Waiting
              ELSE IF acks.restart # "none" /\ (rs.disposition # "execute" \/ rs.backend # "copy-and-swap")
              THEN EndStatement(Verdict("failed", "restart-route")) /\ Waiting
              ELSE IF destructiveGate(rs)
              THEN EndStatement(Verdict("refused", "destructive-change")) /\ Waiting
              ELSE IF routesToClosedCopySwap(rs)
              THEN EndStatement(Verdict("refused", "copy-and-swap-not-enabled")) /\ Waiting
              ELSE dispatch(rs, st)

\* copyAndSwap: a pool too small or a connection that reaches another database
\* stops it, otherwise the preflight and the run.
copyAndSwap ==
    /\ job.pc = "copy-and-swap" /\ swap.pc = "idle"
    /\ Waiting
    /\ \/ EndStatement(Stopped) /\ swap' = swap
       \/ StartRunner(job.plan[job.k].ops, acks.restart = "right") /\ job' = job

\* copySwapRunVerdict: a refusal of the preflight or of the run is refused, a
\* run abandoned on a data fault starts over, any other stop is resumable.
copySwapRunVerdict ==
    CASE swap.err = "abandoned" -> [Verdict("failed", "copy-and-swap") EXCEPT !.says = "start-over"]
      [] swap.err = "stopped" -> Stopped
      [] swap.err = "error" -> [Verdict("failed", "copy-and-swap") EXCEPT !.says = "resumable"]
      [] OTHER -> Verdict("refused", swap.err)

copySwapOutcome ==
    /\ job.pc = "copy-and-swap" /\ swap.pc = "returned"
    /\ Waiting
    /\ EndStatement([IF swap.err = "none" THEN [Verdict("executed-via-copy-and-swap", "none") EXCEPT !.reported = 1]
                     ELSE copySwapRunVerdict EXCEPT !.landed = swap.landed])
    /\ swap' = AtRest(swap)

-----------------------------------------------------------------------------
(* What the executor's return becomes *)

InvalidIndexErrors ==
    {"in-flight", "abandoned", "unobservable", "left-invalid", "unverified", "unproven", "identity-changed"}

BudgetErrors == {"lock-budget", "statement-budget"}

\* The build's own failure may be its budget's.
buildFailure(budget) == x.err = "build-failed" /\ budget

execRefusal(budget) ==
    CASE x.kind = "blocking" ->
            IF x.err = "replica-identity" THEN "unsupported-statement"
            ELSE IF x.err = "lock-budget" THEN "budget-exceeded" ELSE "none"
      [] x.err = "unsupported-step" -> "unsupported-statement"
      [] x.err = "replica-identity" /\ (~x.stepErr \/ x.i = 1) -> "unsupported-statement"
      [] ~job.substituted /\ (x.err \in BudgetErrors \/ buildFailure(budget)) -> "budget-exceeded"
      [] OTHER -> "none"

\* Mutant: a COMMIT without an answer is reported as a rollback.
FailureRollsBack == IF x.err \in InvalidIndexErrors THEN "names-the-index" ELSE "rolled-back"

\* failureVerdict: what the detail says of the failed step.
failureDetail ==
    IF x.err = "unknown" THEN "unknown"
    ELSE IF x.err \in InvalidIndexErrors \/ x.kind \in {"recover", "drop"} THEN "names-the-index"
    ELSE "rolled-back"

\* createFailureDetail.
createFailureDetail ==
    IF x.err = "unknown" THEN "unknown"
    ELSE IF x.err = "names-unverified" THEN "stands" ELSE "rolled-back"

Measured(v) == [v EXCEPT !.reported = x.report, !.landed = x.landed]

verdictOf(refusal) ==
    IF x.err = "none" THEN Measured(Verdict("executed", "none"))
    ELSE IF refusal # "none" THEN [Verdict("refused", refusal) EXCEPT !.landed = x.landed]
    ELSE [Measured(Verdict("failed", x.err)) EXCEPT
            !.says = IF x.kind = "create" THEN createFailureDetail ELSE failureDetail]

\* RowSecurityRefusal and rowSecurityVerdict: any other error is its own detail.
RowSecurityRefusal ==
    CASE x.err = "privileges" -> "insufficient-privileges"
      [] x.err = "rls-refused" -> "unsupported-statement"
      [] x.err = "table-not-found" -> "row-security-missing-table"
      [] OTHER -> "none"

rowSecurityVerdict ==
    IF x.err = "none" /\ x.policy.mode = "preview"
    THEN [Verdict("previewed", "none") EXCEPT !.shown = x.policy.statements]
    ELSE IF x.err = "none" THEN Measured(Verdict("executed", "none"))
    ELSE [Measured(Verdict("failed", x.err)) EXCEPT
            !.outcome = IF RowSecurityRefusal = "none" THEN @ ELSE "refused",
            !.reason = IF RowSecurityRefusal = "none" THEN @ ELSE RowSecurityRefusal,
            !.says = IF x.err = "unknown" THEN "unknown" ELSE "error"]

\* retypedColumns, of a statement run by execute.
retyped == \E i \in DOMAIN job.plan[job.k].ops : job.plan[job.k].ops[i].kind = "AlterColumnType"

ExecutorReturns ==
    /\ job.pc = "running" /\ x.pc = "returned" /\ x.gate = 0
    /\ \E budget \in BOOLEAN :
          CASE x.kind \in {"recover", "drop"} -> Answer(verdictOf("none"))
            [] x.kind = "create" ->
                  Answer(verdictOf(IF x.err = "collision" THEN "create-collision" ELSE "none"))
            [] x.kind = "row-security" -> Answer(rowSecurityVerdict)
            [] OTHER ->
                  IF x.kind \in {"sequence", "native"} /\ x.err = "none" /\ retyped
                  THEN job' = [job EXCEPT !.pc = "refresh", !.last = verdictOf("none")]
                  ELSE EndStatement(verdictOf(execRefusal(budget)))
    /\ x' = NoCall
    /\ UNCHANGED <<scenario, live, tx, builders, moves>>

\* ANALYZE of the whole table in a transaction of its own, which waits for the
\* table's lock and needs its ownership; only a COMMIT that answered counts.
RefreshTableStatistics(refreshed) ==
    \/ ~refreshed /\ live' = live
    \/ TableLockFree /\ live.exists /\ scenario.privileged /\ live' = [live EXCEPT !.stale = {}]

\* A type change deletes the column's statistics.  A refresh that fails fails
\* nothing: the verdict names the ANALYZE that is left.
refreshRetypedStatistics ==
    /\ job.pc = "refresh"
    /\ UNCHANGED <<scenario, tx, x, builders, moves>>
    /\ \E refreshed \in BOOLEAN :
          /\ RefreshTableStatistics(refreshed)
          /\ EndStatement([job.last EXCEPT !.refresh = IF refreshed THEN "refreshed" ELSE "pending"])

-----------------------------------------------------------------------------
(* RunDesired *)

\* diffplan.Plan of an existing table: the changes and how each would route,
\* every one from the facts of the same read.
ForeignKeyChange(op, t) ==
    \/ op.kind = "AddConstraint" /\ op.constraint = "fk"
    \/ /\ op.kind \in {"DropConstraint", "ValidateConstraint"}
       /\ op.name \in DOMAIN t.cons /\ t.cons[op.name].kind = "fk"

PlannedStatement(change) ==
    LET rs == routeStatement(Classify(<<change.op>>, LiveFacts))
    IN  IF \/ ForeignKeyChange(change.op, live)
           \/ live.partitioned /\ RefusesPartitionedParent(rs.steps)
        THEN [rs EXCEPT !.disposition = "refuse"] ELSE rs

destructivePlanned(rs) == \E i \in DOMAIN rs.plan.decisions : rs.plan.decisions[i].destructive

\* A plan that routes in part to copy-and-swap passes its preflight first.
admitCopySwap(planned) ==
    IF \A i \in DOMAIN planned : planned[i].backend # "copy-and-swap" THEN "admitted"
    ELSE IF ~request.copySwap THEN "copy-and-swap-not-enabled"
    ELSE IF ~scenario.privileged THEN "insufficient-privileges"
    ELSE IF preflightRefuses THEN "copy-swap-preflight"
    ELSE "admitted"

admitPlan(changes) ==
    LET planned == [i \in DOMAIN changes |-> PlannedStatement(changes[i])]
        ops == [i \in DOMAIN changes |-> changes[i].op]
    IN  IF request.pin # {} /\ ops \notin request.pin THEN "plan-fingerprint-mismatch"
        ELSE IF \E i \in DOMAIN planned : destructivePlanned(planned[i]) THEN "destructive-change"
        ELSE IF \E i \in DOMAIN planned : planned[i].disposition # "execute" THEN "not-executable"
        ELSE admitCopySwap(planned)

StartDesired ==
    /\ job.pc = "request" /\ request.door = "desired"
    /\ Waiting
    /\ LET changes == Diff(live, request.desired) IN
       \/ Answer(Stopped)
       \/ IF \E a \in DOMAIN acks : acks[a] # "none" THEN Answer(Verdict("failed", "acknowledgement"))
          ELSE IF ~live.exists
          THEN job' = [job EXCEPT !.pc = "create", !.k = 1]
          ELSE IF Unsupported(live, request.desired) THEN Answer(Verdict("failed", "unsupported-difference"))
          ELSE IF changes = <<>> THEN Answer(Verdict("executed", "already-converged"))
          ELSE IF admitPlan(changes) # "admitted" THEN Answer(Verdict("refused", admitPlan(changes)))
          ELSE job' = [job EXCEPT !.pc = "statement", !.k = 1,
                         !.plan = [i \in DOMAIN changes |->
                                     [Statement(<<changes[i].op>>) EXCEPT !.adopts = changes[i].adopts,
                                                                          !.validates = changes[i].validates]]]

\* runCreate: the CREATE TABLE, then the indexes the file declares.
CreateSteps(model) ==
    <<<<[NoOp EXCEPT !.kind = "CreateTable", !.def = [model EXCEPT !.idx = <<>>]]>>>>
    \o ForEach(Names, LAMBDA n : If(n \in DOMAIN model.idx, <<CreateIndex(n, model.idx[n])>>))

runCreate ==
    /\ job.pc = "create"
    /\ \/ Answer(Stopped) /\ Waiting
       \/ IF live.exists THEN Answer(Verdict("refused", "create-collision")) /\ Waiting
          ELSE IF ~scenario.privileged THEN Answer(Verdict("refused", "insufficient-privileges")) /\ Waiting
          ELSE /\ Calling(Call("create", CreateSteps(request.desired), {}, {}))
               /\ job' = [job EXCEPT !.pc = "running"]

\* verifyConverged: a plan derived after the last commit is empty.
verifyConverged ==
    /\ job.pc = "verify"
    /\ Waiting
    /\ \/ Answer([job.last EXCEPT !.outcome = "failed", !.reason = "unverifiable", !.says = "all-committed"])
       \/ Answer(IF live.exists /\ ~Unsupported(live, request.desired) /\ Diff(live, request.desired) = <<>>
                 THEN [job.last EXCEPT !.outcome = "executed", !.reason = "converged"]
                 ELSE [job.last EXCEPT !.outcome = "failed", !.reason = "not-converged", !.says = "all-committed"])

\* RebuildAbandonedIndex and DropAbandonedIndex, called by the operator.
StartRecovery ==
    /\ job.pc = "request" /\ request.door \in {"recover", "drop"}
    /\ Calling(Call(request.door, <<request.ops>>, {}, {}))
    /\ job' = [job EXCEPT !.pc = "running"]

\* ExecuteRowSecurity, PreviewRowSecurity, and ExecuteReviewedRowSecurity with
\* what the preview before it showed.
StartRowSecurity ==
    /\ job.pc = "request" /\ request.door = "row-security"
    /\ Calling(RowSecurityCall(request.mode, request.desired, job.last.shown))
    /\ job' = [job EXCEPT !.pc = "running"]

-----------------------------------------------------------------------------
(* The process dies: an open transaction rolls back, a COMMIT on its way may
   land, a concurrent build runs on. *)
Crash ==
    /\ "crash" \in moves /\ job.pc # "done"
    /\ moves' = moves \ {"crash"}
    /\ \/ RunDies
       \/ /\ UNCHANGED swap
          /\ \/ x.pc = "commit" /\ live' = AfterStep
             \/ x.pc = "rls-commit" /\ live' = AfterSecurity
             \/ x.pc = "rename-entry" /\ indexName \in Entry(x.seen) /\ live' = RenamedEntry
    /\ tx' = NoTx
    /\ x' = NoCall
    /\ builders' = [p \in DOMAIN builders |-> [builders[p] EXCEPT !.owner = "other"]]
    /\ Answer([NoVerdict EXCEPT !.outcome = "crashed"])
    /\ UNCHANGED scenario

-----------------------------------------------------------------------------

Init ==
    /\ scenario \in Scenarios
    /\ live = scenario.table
    /\ tx = NoTx
    /\ x = NoCall
    /\ builders = <<>>
    /\ moves = scenario.moves
    /\ swap = NoRun
    /\ job = NoJob

FrontDoor ==
    \/ copyAndSwap \/ copySwapOutcome \/ Crash
    \/ /\ UNCHANGED swap
       /\ \/ StartRun \/ acceptBlocking \/ runStatement
          \/ StartDesired \/ runCreate \/ verifyConverged \/ StartRecovery \/ StartRowSecurity
          \/ ExecutorReturns \/ refreshRetypedStatistics

Next ==
    \/ FrontDoor
    \/ UNCHANGED job /\ RunStep
    \/ /\ UNCHANGED <<job, swap>>
       /\ \/ ExecutorStep \/ IndexBuildStep \/ BackendStep \/ RowSecurityStep \/ OthersStep \/ NeighboursStep
          \/ \E b \in scenario.builds : OtherBuilds(b.name, b.def)

Spec == Init /\ [][Next]_vars

-----------------------------------------------------------------------------
(* Properties *)

\* No other session has touched the table so far.
Undisturbed == scenario.moves \ moves \subseteq {"crash", "cancel", "poll"}

\* A verdict tells the operator what is in the catalog.  Refused means that
\* nothing of the statement committed, executed that every step did, a detail
\* that says rolled back that exactly the reported steps did, a detail that
\* says the table stands that one more did, and only an unknown outcome
\* leaves both open.  A failed row security change committed nothing unless it
\* says unknown, a copy-and-swap that executed has its row at done, one that
\* says to start over left nothing behind, and statistics reported as refreshed
\* are there.  A swap whose outcome nobody could read is refused all the same
\* (migrate/verdicts.go execRefusal, failureVerdict; migrate/desired.go
\* createFailureDetail, the owner check aside; migrate/migrate.go
\* refreshRetypedStatistics; internal/cli rowSecurityVerdict).
VerdictIsHonest ==
    LET v == job.last IN
    /\ v.outcome = "refused" /\ v.reason # "outcome-ambiguous" => v.landed = 0
    /\ v.outcome \in {"executed", "executed-via-copy-and-swap"} => v.landed = v.reported
    /\ v.says = "rolled-back" /\ v.reason # "owner-unverified" => v.landed = v.reported
    /\ v.says = "error" => v.landed = 0
    /\ v.refresh = "refreshed" /\ job.pc \in {"request", "statement", "verify", "done"} => live.stale = {}
    /\ v.says = "start-over" /\ job.pc \in {"request", "done"} => v.landed = 0 /\ ~swap.shadow.exists /\ swap.row = NoRow
    /\ v.outcome = "executed-via-copy-and-swap" /\ job.pc \in {"request", "statement", "verify", "done"} =>
          swap.row.phase = "done"
    /\ v.says = "stands" => v.landed = v.reported + 1
    /\ v.says = "unknown" => v.landed \in {v.reported, v.reported + 1}

\* What an admitted plan needed at plan time is what its statements need when
\* they run: without another session's change, no planned statement is
\* refused for its route half way, none meets a table that rejects it, and a
\* plan that ran to its end has converged the table (migrate/desired.go
\* RunDesired, verifyConverged; schemadiff/diff.go Diff).
OwnPlanConverges ==
    Undisturbed =>
        /\ job.last.door = "desired" /\ job.last.k > 0 =>
              /\ job.last.reason # "not-converged"
              /\ job.last.outcome = "refused" =>
                    job.last.reason \in {"table-too-large", "insufficient-privileges", "budget-exceeded", "create-collision",
                                         "shadow-unrecorded", "resume-shadow-gone", "outcome-ambiguous"}
        /\ job.pc = "running" /\ request.door = "desired" /\ x.pc = "exec" => Runnable

\* A rerun of a desired schema picks up what an earlier run of it left: it is
\* refused as destructive only when the declaration itself drops something,
\* or when the leftover is the SET NOT NULL sequence's scaffold
\* (schemadiff/diff.go adoptableIndexes, validatesInPlace, isUnfinishedBuild).
LeftoversAreResumed ==
    /\ job.pc \in {"request", "done"} /\ job.last.door = "desired" /\ job.last.reason = "destructive-change"
    /\ Undisturbed
    => LET desired == scenario.requests[job.r - 1].desired IN
       \/ \E i \in DOMAIN Diff(scenario.table, desired) : destructiveOp(Diff(scenario.table, desired)[i].op.kind)
       \/ \E c \in DOMAIN live.cols : Scaffold[c] \in DOMAIN live.cons \ DOMAIN scenario.table.cons

\* Every step the native route runs without the operator's force is a
\* catalog change or one of the online idioms: it never scans or rewrites the
\* table under ACCESS EXCLUSIVE.  The one exception is a primary key adopted
\* over a nullable column (planner/planner.go classifyKind, classifyTypeChange,
\* classifyAddColumn, the safer sequences).
NativeNeverBlocks ==
    x.kind = "sequence" /\ x.pc = "commit" /\ Undisturbed =>
        \A i \in DOMAIN step :
            LET op == step[i] IN
            \/ Cost(live, op, scenario.truth) = "catalog"
            \/ op.usingIndex /\ op.constraint = "pk" /\ \E c \in op.def.cols : ~live.cols[c].notNull

\* Table u has everything of table t that can be lost.
Kept(t, u) ==
    /\ DOMAIN t.cols \subseteq DOMAIN u.cols
    /\ \A c \in DOMAIN t.cols : t.cols[c].notNull => u.cols[c].notNull
    /\ \A n \in DOMAIN t.cons : ~Key(t.cons[n]) => n \in DOMAIN u.cons
    /\ {Resolved(t, n) : n \in RelNames(t)} \subseteq {Resolved(u, n) : n \in RelNames(u)}

\* The same of a swap, whose indexes are the shadow's.
KeptBySwap(t, u) ==
    /\ DOMAIN t.cols \subseteq DOMAIN u.cols
    /\ \A c \in DOMAIN t.cols : t.cols[c].notNull => u.cols[c].notNull
    /\ \A n \in DOMAIN t.cons : ~Key(t.cons[n]) => n \in DOMAIN u.cons
    /\ {IndexDef(entryOf(t, n)) : n \in RelNames(t)} \subseteq {IndexDef(entryOf(u, n)) : n \in RelNames(u)}

Swaps == swap.pc = "commit" /\ live'.oid # live.oid

DropsOwnScaffold ==
    /\ x.pc = "commit" /\ x.i = 4
    /\ \E c \in DOMAIN live.cols : step = <<NamedOp("DropConstraint", Scaffold[c])>>

\* The front doors discard no column, constraint, index or NOT NULL of the
\* table unless the operator acknowledged the loss on this very table; the
\* scaffold of a SET NOT NULL sequence is its own to drop.  Nor does the
\* recovery drop an index that is valid, unless another session's rename came
\* between its check of the quarantine name and its drop by that name (INV
\* RF-10: migrate/migrate.go run, accept_blocking.go, desired.go admitPlan;
\* INV LK-5: executor/recover.go dropQuarantinedIndex).
DiscardsNothing ==
    [][/\ x.pc = "commit" => Kept(live, live') \/ acks.allow = "right" \/ DropsOwnScaffold
       /\ Swaps => KeptBySwap(live, live') \/ acks.allow = "right"
       /\ DropEntry /\ "swap-names" \notin scenario.moves \ moves =>
             \A n \in DOMAIN live.idx : live.idx[n].valid => n \in DOMAIN live'.idx]_vars

\* Table u is what the statement would have made of table t.
Delivered(t, u) ==
    LET w == Run(t, swap.ops)
        plain(v) == [n \in DOMAIN v.cons \ KeyNames(v) |-> ConDef(v.cons[n])]
        indexes(v) == {definition(v, n, {}) : n \in RelNames(v)}
    IN  /\ u.cols = w.cols /\ u.security = w.security /\ u.grants = w.grants
        /\ Restrict(u.seqs, DOMAIN w.seqs) = w.seqs
        /\ plain(u) = plain(w)
        /\ indexes(u) = indexes(w)
        /\ \A n \in RelNames(w) :
              \/ n \in RelNames(u) /\ definition(u, n, {}) = definition(w, n, {})
              \/ \E m \in RelNames(w) \ {n} : definition(w, m, {}) = definition(w, n, {})

GatedAtCommit ==
    [swap.gated EXCEPT !.seqs = [c \in DOMAIN @ |->
        IF live.cols[c].attr = "identity" THEN [@[c] EXCEPT !.last = live.seqs[c].last] ELSE live.seqs[c]]]

\* The swap puts under the table's name what the statement run directly on the
\* table would have left: its columns, checks, policies and privileges, its
\* indexes and keys by definition and by name (the name aside when two are
\* defined alike), and every sequence with its bounds and at the position it
\* has at the swap, so that no value is issued twice.  The table is the one
\* the gate read under the lock; a GRANT, an ALTER SEQUENCE or an index rename
\* after that read needs no lock on the table (schemachange/shadow.go buildShadow,
\* dependents_retype.go pairIndexes, cutover_handoff.go handOffIdentity,
\* cutover_swap.go swapInTx, renameForSwap).
SwapDelivers == [][Swaps => Delivered(GatedAtCommit, live')]_vars

\* Nothing of others is left hanging on the table that steps aside: no view,
\* trigger, foreign key or publication that came after the preflight, the build
\* or the first gate (INV RF-2: preflight/copy_swap_shape.go
\* RecheckCopySwapShape, cutover_swap.go swapInTx).
SwapStrandsNothing == swap.old.exists => swap.old.attached = {}

\* A statement run again after its copy-and-swap stopped finishes the swap that
\* committed: it is not called executed while its row still stands at cutover,
\* with the retained source and the slot behind it
\* (docs/schemabot-integration.md:728; migrate/copy_swap.go
\* copySwapStoppedRemedy, migrate/migrate.go run).
RerunFinishes ==
    /\ job.pc \in {"request", "done"} /\ job.last.outcome = "executed"
    /\ swap.row.phase = "cutover"
    => swap.row.ops # scenario.requests[job.r - 1].ops

\* What a step commits on is what its check under the lock read: a renamed
\* index is the index that was checked, a validated constraint is the one the
\* plan was made from, a drop leaves the replica identity standing, and a row
\* security change commits the sequence that was reviewed and nothing but the
\* declared policies (executor/rename_index.go, validate_constraint.go,
\* replica_identity.go, row_security.go).  The adopted index is
\* AdoptsTheChecked's.
OnlyTheCheckedObject ==
    /\ x.pc = "commit" =>
          /\ x.kind = "rename" => tx.target = tx.checked
          /\ Validates => ~refuseValidatedConstraintDrift
          /\ Drops \/ x.kind = "blocking" => ~refuseReplicaIdentityLoss
    /\ x.pc = "rls-commit" =>
          /\ x.policy.mode = "reviewed" =>
                SecurityStatements(live.security, x.policy.wanted.security) = x.policy.reviewed
          /\ AfterSecurity.security = x.policy.wanted.security

\* The index an ADD CONSTRAINT ... USING INDEX takes over is the one whose
\* definition was checked: "Holding the lock until the constraint commits means
\* the index cannot change between this read and the attachment"
\* (executor/adopt_index.go:42-43).
AdoptsTheChecked == x.pc = "commit" /\ Adopts => tx.target = tx.checked

\* An entry the recovery has quarantined is dead: it is invalid and no backend
\* is building it, so dropping it destroys nothing (executor/recover.go
\* quarantineAbandonedIndex, dropQuarantinedIndexes).
QuarantinedIsDead ==
    \A n \in DOMAIN live.idx :
        n = Quarantine[live.idx[n].oid] => ~live.idx[n].valid /\ BuilderOf(live.idx[n].oid) = {}

\* A build that fails without an InvalidIndexError left nothing: its backend
\* has stopped and no invalid entry of its own stands under any name, unless
\* another session renamed it away (executor/cic_build.go
\* BuildIndexConcurrently, failedBuildVerdict).
BuildLeavesValidOrNothing ==
    x.pc = "returned" /\ x.pid # 0 /\ x.err \in {"none", "build-failed"} =>
        /\ ~OwnBackendRuns
        /\ x.seen # 0 /\ "swap-names" \notin scenario.moves \ moves => \A n \in Entry(x.seen) : live.idx[n].valid

\* A cancel signal on its way is for the backend of the build that runs: the
\* session is not handed to anything else before the signal is through
\* (progress/progress.go CancelBuild, StopConcurrentBuild).
CancelHitsTheBuild ==
    x.gate # 0 => x.gate = x.pid /\ x.pc \in {"building", "stop"}
=============================================================================
