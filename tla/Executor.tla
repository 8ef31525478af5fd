------------------------------ MODULE Executor ------------------------------
(***************************************************************************)
(* pkg/executor, the native backend: one call runs the steps of one        *)
(* statement in order, each brief step as a bounded attempt in a           *)
(* transaction of its own (optimistic.go) with its drift checks under the  *)
(* table's lock (adopt_index.go, validate_constraint.go,                   *)
(* replica_identity.go, rename_index.go), a CREATE TABLE with its proofs   *)
(* (create.go), or the acknowledged blocking statement                     *)
(* (accepted_blocking.go).  IndexBuild adds the concurrent build steps.    *)
(*                                                                         *)
(* Other sessions work on the same table meanwhile: they take the locks    *)
(* PostgreSQL makes them take, and renaming an index takes none on its     *)
(* table.                                                                  *)
(***************************************************************************)
EXTENDS Planner

CONSTANTS
    Scenarios,     \* what is asked, of which table, and what else goes on
    MaxAttempts    \* RetryPolicy.MaxAttempts

VARIABLES
    scenario,   \* the member of Scenarios this behaviour is about
    live,       \* the table in the server's catalog
    tx,         \* the executor's open transaction
    x,          \* the executor's call
    builders,   \* the backends running a concurrent build, by pid
    moves       \* what other sessions have still to do to the table

NoTx == [held |-> "none", checked |-> 0, target |-> 0]

\* A call: its steps, the planned objects its steps take over, how far it is
\* ("report" is rep.Steps), how it ends.  "landed" counts the steps that did
\* commit, which the client may not know.  The last six fields are the
\* concurrent build's (IndexBuild); "policy" is the row security change's (RowSecurity).
Call(kind, steps, adopts, validates) ==
    [pc |-> "admit", kind |-> kind, steps |-> steps, i |-> 1, attempt |-> 1, adopts |-> adopts,
     validates |-> validates, report |-> 0, landed |-> 0, err |-> "none", stepErr |-> FALSE,
     pid |-> 0, seen |-> 0, table |-> 0, outcome |-> "none", tracked |-> 0, gate |-> 0, policy |-> <<>>]

NoCall == [Call("none", <<>>, {}, {}) EXCEPT !.pc = "idle"]

step == x.steps[x.i]

\* A lone operation, which every statement with a drift check on a named
\* object is.
Lone(kind) == Len(step) = 1 /\ step[1].kind = kind

-----------------------------------------------------------------------------
(* Locks *)

\* A concurrent build holds SHARE UPDATE EXCLUSIVE from its first
\* transaction to its end.
Building == \E p \in DOMAIN builders : builders[p].stage = "building"

\* The two modes the executor and other sessions ask for conflict with each
\* other and with themselves.
TableLockFree == tx.held = "none" /\ ~Building

-----------------------------------------------------------------------------
(* Returning *)

Return(err, inStep) ==
    /\ x' = [x EXCEPT !.pc = "returned", !.err = err, !.stepErr = inStep]
    /\ tx' = NoTx

\* An attempt that failed.  Only an exhausted lock budget is tried again
\* (executeWithLockRetryObserved).
AttemptFails(err) ==
    IF err = "lock-budget" /\ x.attempt < MaxAttempts
    THEN x' = [x EXCEPT !.pc = "step", !.attempt = @ + 1] /\ tx' = NoTx
    ELSE Return(err, x.kind \notin {"native", "rename"})

StepKind(s) ==
    IF Len(s) = 1 /\ s[1].kind = "CreateIndex"
    THEN IF s[1].concurrent THEN "build" ELSE "unsupported"
    ELSE IF \E i \in DOMAIN s : s[i].concurrent \/ s[i].kind \in {"DropIndex", "Reindex"} THEN "unsupported"
    ELSE IF Len(s) = 1 /\ s[1].kind = "ValidateConstraint" THEN "validate"
    ELSE "brief"

\* preflight.RefusesPartitionedParent: what cannot run on a partitioned
\* parent (the NOT VALID foreign key before PostgreSQL 18).
RefusesPartitionedParent(steps) ==
    \E i \in DOMAIN steps : \E j \in DOMAIN steps[i] :
        \/ steps[i][j].usingIndex
        \/ steps[i][j].kind = "CreateIndex"
        \/ steps[i][j].constraint = "fk" /\ steps[i][j].notValid

\* runSequence up to its loop: every step's shape, the partitioned parent
\* and the pool are decided before the first step runs.
admitSequence ==
    IF \E i \in DOMAIN x.steps : StepKind(x.steps[i]) = "unsupported" THEN "unsupported-step"
    ELSE IF live.partitioned /\ RefusesPartitionedParent(x.steps) THEN "partitioned-parent"
    ELSE IF scenario.pool < 2 /\ \E i \in DOMAIN x.steps : StepKind(x.steps[i]) = "build" THEN "pool-too-small"
    ELSE "none"

Admit ==
    /\ x.pc = "admit"
    /\ x.kind \in {"sequence", "native", "rename", "create", "blocking"}
    /\ LET err == CASE x.kind = "sequence" -> admitSequence
                    [] x.kind = "create" -> IF scenario.occupied THEN "collision" ELSE "none"
                    [] OTHER -> "none"
       IN  IF err = "none" THEN x' = [x EXCEPT !.pc = "step"] /\ tx' = tx
                           ELSE Return(err, FALSE)
    /\ UNCHANGED <<scenario, live, builders, moves>>

-----------------------------------------------------------------------------
(* One bounded attempt *)

\* The drift checks the attempt runs under the table's lock before its
\* statement: the mode of the lock, and whether what it reads is what the
\* plan was made from.
Adopts == x.adopts # {} /\ Lone("AddConstraint") /\ step[1].usingIndex

Validates == x.validates # {} /\ Lone("ValidateConstraint")

Drops ==
    x.kind # "blocking" /\ \E i \in DOMAIN step : step[i].kind \in {"DropColumn", "DropConstraint"}

\* Mutant: the validated constraint is read without a lock.
CheckModeUnlockedValidate ==
    IF Adopts \/ Drops THEN "AEL"
    ELSE IF x.kind = "rename" THEN "SUE" ELSE "none"

CheckMode ==
    IF Adopts \/ Drops THEN "AEL"
    ELSE IF Validates \/ x.kind = "rename" THEN "SUE" ELSE "none"

refuseAdoptedIndexDrift ==
    LET n == step[1].name IN
    \/ n \notin DOMAIN live.idx
    \/ ~live.idx[n].valid
    \/ {IndexDef(live.idx[n])} # x.adopts

refuseValidatedConstraintDrift ==
    LET n == step[1].name IN
    \/ n \notin DOMAIN live.cons
    \/ /\ {ConDef(live.cons[n])} # x.validates
       /\ {ConDef([live.cons[n] EXCEPT !.valid = FALSE])} # x.validates

refuseReplicaIdentityLoss == \E i \in DOMAIN step : DroppedBy(live, step[i])

\* ExecuteIndexRename: the name is an index of the table that backs no
\* constraint.
renameRefused == step[1].name \notin DOMAIN live.idx

CheckFails ==
    CASE Adopts /\ refuseAdoptedIndexDrift -> "adopted-index-drift"
      [] Validates /\ refuseValidatedConstraintDrift -> "validated-constraint-drift"
      [] Drops /\ refuseReplicaIdentityLoss -> "replica-identity"
      [] x.kind = "rename" /\ renameRefused -> "rename-drift"
      [] OTHER -> "none"

\* executeBoundedAttemptAs up to the statement: begin, the budgets, the
\* checks under the lock they need.
BeginAttempt ==
    /\ x.pc = "step"
    /\ x.kind \in {"native", "rename", "create"} \/ (x.kind = "sequence" /\ StepKind(step) # "build")
    /\ \/ AttemptFails("operational")                \* begin or the budgets fail
       \/ CheckMode # "none" /\ AttemptFails("lock-budget")
       \/ /\ CheckMode = "none" \/ TableLockFree
          /\ LET err == CheckFails IN
             IF err # "none" THEN AttemptFails(err)
             ELSE /\ tx' = [held |-> CheckMode, checked |-> Resolved(live, step[1].name), target |-> 0]
                  /\ x' = [x EXCEPT !.pc = "exec"]
    /\ UNCHANGED <<scenario, live, builders, moves>>

\* The statement takes the table's lock if no check has, resolves its names,
\* and runs; a rename's result is compared with what was checked.
Run(t, ops) == FoldLeft(LAMBDA u, op : Effect(u, op, Resolved(u, op.name)), t, ops)

Runnable ==
    IF step[1].kind = "CreateTable" THEN ~live.exists
    ELSE \A i \in DOMAIN step : Accepts(Run(live, SubSeq(step, 1, i - 1)), step[i])

ExecStatement ==
    /\ x.pc = "exec" /\ x.kind # "blocking"
    /\ \/ tx.held = "none" /\ AttemptFails("lock-budget")
       \/ AttemptFails("statement-budget")           \* 57014
       \/ AttemptFails("sql")                        \* the rows, the connection
       \/ /\ tx.held # "none" \/ TableLockFree
          /\ IF ~Runnable THEN AttemptFails("sql")
             ELSE IF x.kind = "rename" /\ Resolved(live, step[1].name) # tx.checked
             THEN AttemptFails("rename-drift")
             ELSE /\ tx' = [tx EXCEPT !.held = "AEL", !.target = Resolved(live, step[1].name)]
                  /\ x' = [x EXCEPT !.pc = "commit"]
    /\ UNCHANGED <<scenario, live, builders, moves>>

-----------------------------------------------------------------------------
(* The acknowledged blocking statement *)

\* refuseReplicaIdentityDrop, read under the table's lock.
refuseReplicaIdentityDrop == step[1].kind = "DropIndex" /\ DroppedBy(live, step[1])

\* The lock is asked for in a statement of its own, so that no way its wait
\* can end leaves the outcome open.
acceptedBlockingLockError == {"lock-budget", "cancelled", "sql"}

executeAcceptedBlocking ==
    /\ x.pc = "step" /\ x.kind = "blocking"
    /\ \/ \E err \in {"operational"} \cup acceptedBlockingLockError : Return(err, FALSE)
       \/ /\ TableLockFree
          /\ IF refuseReplicaIdentityDrop THEN Return("replica-identity", FALSE)
             ELSE /\ tx' = [NoTx EXCEPT !.held = "AEL", !.checked = Resolved(live, step[1].name)]
                  /\ x' = [x EXCEPT !.pc = "exec"]
    /\ UNCHANGED <<scenario, live, builders, moves>>

\* A caller that goes away under the statement leaves it unknown.
acceptedBlockingStatementError == {"unknown", "statement-budget", "sql"}

BlockingRuns ==
    /\ x.pc = "exec" /\ x.kind = "blocking"
    /\ \/ \E err \in acceptedBlockingStatementError : Return(err, FALSE)
       \/ IF ~Runnable THEN Return("sql", FALSE)
          ELSE /\ tx' = [tx EXCEPT !.target = Resolved(live, step[1].name)]
               /\ x' = [x EXCEPT !.pc = "commit"]
    /\ UNCHANGED <<scenario, live, builders, moves>>

-----------------------------------------------------------------------------
(* The commit *)

\* What the committed step makes of the table.
CreatedTable(def) == [def EXCEPT !.exists = TRUE, !.oid = live.next, !.next = live.next + 1]

AfterStep ==
    IF step[1].kind = "CreateTable" THEN CreatedTable(step[1].def)
    ELSE IF Len(step) = 1 THEN Effect(live, step[1], tx.target)
    ELSE Run(live, step)

Advance ==
    IF x.i = Len(x.steps)
    THEN x' = [x EXCEPT !.report = @ + 1, !.landed = @ + 1, !.pc = "returned"]
    ELSE x' = [x EXCEPT !.report = @ + 1, !.landed = @ + 1, !.i = @ + 1, !.attempt = 1, !.pc = "step"]

\* COMMIT.  One that does not return success may still have landed, and is
\* never taken for a rollback.
Commit ==
    /\ x.pc = "commit"
    /\ \/ /\ live' = AfterStep
          /\ IF x.kind = "create" /\ x.i = 1 THEN x' = [x EXCEPT !.pc = "owned", !.landed = @ + 1] ELSE Advance
       \/ /\ live' = AfterStep
          /\ x' = [x EXCEPT !.pc = "returned", !.err = "unknown", !.landed = @ + 1,
                            !.stepErr = x.kind \notin {"native", "rename", "blocking"}]
       \/ /\ live' = live
          /\ x' = [x EXCEPT !.pc = "returned", !.err = "unknown",
                            !.stepErr = x.kind \notin {"native", "rename", "blocking"}]
    /\ tx' = NoTx
    /\ UNCHANGED <<scenario, builders, moves>>

\* executeCreate after its first step committed: the table owns the names it
\* claimed, and was born under the owner the proof names.  A mismatch, or a
\* proof that could not be finished, fails the step with the table in place
\* and an empty report.
VerifyCreated ==
    /\ x.pc = "owned"
    /\ \/ Return("names-unverified", TRUE)
       \/ scenario.setsRole /\ Return("owner-unverified", TRUE)
       \/ /\ x' = [x EXCEPT !.report = @ + 1, !.i = @ + 1, !.attempt = 1,
                            !.pc = IF x.i = Len(x.steps) THEN "returned" ELSE "step"]
          /\ tx' = NoTx
    /\ UNCHANGED <<scenario, live, builders, moves>>

-----------------------------------------------------------------------------
(* Other sessions *)

\* A session that needs the table's lock waits for the executor's and for a
\* build's.
Move(m) == m \in moves /\ moves' = moves \ {m} /\ UNCHANGED <<scenario, tx, x, builders>>

OtherReplacesIndex(n) ==
    /\ Move("replace-index") /\ TableLockFree /\ n \in DOMAIN live.idx
    /\ live' = [live EXCEPT !.idx[n] = [@ EXCEPT !.body = 9, !.oid = live.next, !.valid = TRUE], !.next = @ + 1]

OtherReplacesConstraint(n) ==
    /\ Move("replace-constraint") /\ TableLockFree /\ n \in DOMAIN live.cons /\ ~Key(live.cons[n])
    /\ live' = [live EXCEPT !.cons[n].body = 9]

OtherMovesIdentity(n) ==
    /\ Move("identity") /\ TableLockFree
    /\ n \in KeyNames(live) \/ (n \in DOMAIN live.idx /\ live.idx[n].unique /\ live.idx[n].valid)
    /\ live' = [live EXCEPT !.identity = Resolved(live, n)]

\* ALTER INDEX ... RENAME locks the index, not its table: n's name goes to
\* m's index and back.
OtherSwapsNames(n, m) ==
    /\ Move("swap-names")
    /\ n \in DOMAIN live.idx /\ m \in DOMAIN live.idx /\ n # m
    /\ tx.target \notin {live.idx[n].oid, live.idx[m].oid}
    /\ live' = [live EXCEPT !.idx = [@ EXCEPT ![n] = live.idx[m], ![m] = live.idx[n]]]

\* A column's NOT NULL is dropped by another session.
OtherLoosens(c) ==
    /\ Move("loosen") /\ TableLockFree
    /\ c \in DOMAIN live.cols /\ live.cols[c].notNull
    /\ live' = [live EXCEPT !.cols[c].notNull = FALSE]

\* The table is dropped and created again under its name.
OtherReplacesTable ==
    /\ Move("replace-table") /\ TableLockFree /\ live.exists
    /\ live' = [live EXCEPT !.oid = live.next, !.next = @ + 1, !.idx = <<>>]

\* The table's name is taken before the create path gets there.
OtherCreatesTable ==
    /\ Move("create-table") /\ ~live.exists /\ tx.held = "none"
    /\ live' = [live EXCEPT !.exists = TRUE, !.oid = live.next, !.next = @ + 1]

OthersStep ==
    \/ \E n \in DOMAIN live.idx : OtherReplacesIndex(n) \/ \E m \in DOMAIN live.idx : OtherSwapsNames(n, m)
    \/ \E n \in DOMAIN live.cons : OtherReplacesConstraint(n)
    \/ \E n \in RelNames(live) : OtherMovesIdentity(n)
    \/ \E c \in DOMAIN live.cols : OtherLoosens(c)
    \/ OtherReplacesTable \/ OtherCreatesTable

ExecutorStep ==
    \/ Admit \/ BeginAttempt \/ ExecStatement \/ executeAcceptedBlocking \/ BlockingRuns
    \/ Commit \/ VerifyCreated
=============================================================================
