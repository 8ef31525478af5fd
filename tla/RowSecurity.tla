---------------------------- MODULE RowSecurity -----------------------------
(***************************************************************************)
(* pkg/executor, the row security change: one transaction that locks the   *)
(* table, derives under the lock the whole ordered statement sequence from *)
(* the live policies to the declared ones, and runs it, shows it           *)
(* (PreviewRowSecurity) or compares it with the sequence an operator has   *)
(* reviewed (ExecuteReviewedRowSecurity).                                  *)
(***************************************************************************)
EXTENDS IndexBuild

CONSTANT Policies    \* the policy names, in order

\* A policy definition no scratch schema can resolve: a role, a column or a
\* helper that is not there.
Unresolvable == 0

-----------------------------------------------------------------------------
(* The statements *)

SecurityStatement(do, policy, def) == [do |-> do, policy |-> policy, def |-> def]

DropPolicy(n) == SecurityStatement("drop-policy", n, 0)

CreatePolicy(n, def) == SecurityStatement("create-policy", n, def)

\* schemadiff.RenderRowSecurity: both settings, then every policy.
RenderRowSecurity(security) ==
    <<SecurityStatement(IF security.enabled THEN "enable" ELSE "disable", "", 0),
      SecurityStatement(IF security.forced THEN "force" ELSE "no-force", "", 0)>>
    \o ForEach(Policies, LAMBDA n : If(n \in DOMAIN security.policies, CreatePolicy(n, security.policies[n])))

rowSecurityEqual(a, b) == a = b

\* report.Statements.
SecurityStatements(had, want) ==
    IF rowSecurityEqual(had, want) THEN <<>>
    ELSE ForEach(Policies, LAMBDA n : If(n \in DOMAIN had.policies, DropPolicy(n))) \o RenderRowSecurity(want)

\* PostgreSQL runs one of them.
SecurityEffect(security, st) ==
    CASE st.do \in {"enable", "disable"} -> [security EXCEPT !.enabled = st.do = "enable"]
      [] st.do \in {"force", "no-force"} -> [security EXCEPT !.forced = st.do = "force"]
      [] st.do = "drop-policy" -> [security EXCEPT !.policies = Del(@, st.policy)]
      [] st.do = "create-policy" -> [security EXCEPT !.policies = Put(@, st.policy, st.def)]

Secured(security, statements) == FoldLeft(SecurityEffect, security, statements)

\* What schemadiff.Render refuses: a shape a policy change is not admitted on
\* even when the two models match.
Unrenderable(t) ==
    \/ t.partitioned
    \/ \E n \in DOMAIN t.cons : t.cons[n].kind = "fk"
    \/ \E c \in DOMAIN t.cols : t.cols[c].attr = "collated"

admitRowSecurityTable(t, wanted) ==
    LET declared == [wanted EXCEPT !.security = NoSecurity] IN
    /\ ~Unrenderable(t)
    /\ ~Unsupported(t, declared)
    /\ Diff(t, declared) = <<>>

-----------------------------------------------------------------------------
(* executeRowSecurity *)

\* A call: its mode, the declared table, the reviewed sequence, and the one
\* derived under the lock.
RowSecurityCall(mode, wanted, reviewed) ==
    [Call("row-security", <<>>, {}, {}) EXCEPT
        !.policy = [mode |-> mode, wanted |-> wanted, reviewed |-> reviewed, statements |-> <<>>]]

checkRowSecurityPrivileges ==
    IF ~live.exists THEN "table-not-found" ELSE IF ~scenario.privileged THEN "privileges" ELSE "none"

\* Before the lock that stops the application: the budgets, the privileges,
\* the declaration materialised in a scratch schema.
RowSecurityInspects ==
    /\ x.pc = "admit" /\ x.kind = "row-security"
    /\ \/ \E err \in {"operational", "statement-budget"} : Return(err, FALSE)
       \/ LET policies == x.policy.wanted.security.policies IN
          IF checkRowSecurityPrivileges # "none" THEN Return(checkRowSecurityPrivileges, FALSE)
          ELSE IF \E n \in DOMAIN policies : policies[n] = Unresolvable THEN Return("rls-refused", FALSE)
          ELSE x' = [x EXCEPT !.pc = "rls-lock"] /\ tx' = tx
    /\ UNCHANGED <<scenario, live, builders, moves>>

\* Under the lock: the privileges again, the live table, its admission, the
\* sequence (RS-1), and the reviewed sequence against it (RS-5).
RowSecurityDerives ==
    /\ x.pc = "rls-lock"
    /\ \/ \E err \in {"lock-budget", "statement-budget", "operational", "privileges"} : Return(err, FALSE)
       \/ /\ TableLockFree
          /\ LET policy == x.policy
                 statements == SecurityStatements(live.security, policy.wanted.security)
             IN  IF checkRowSecurityPrivileges # "none" THEN Return(checkRowSecurityPrivileges, FALSE)
                 ELSE IF ~admitRowSecurityTable(live, policy.wanted) THEN Return("rls-refused", FALSE)
                 ELSE IF policy.mode = "reviewed" /\ policy.reviewed # statements
                 THEN Return("plan-changed", FALSE)
                 ELSE IF policy.mode = "preview"
                 THEN x' = [x EXCEPT !.pc = "returned", !.policy.statements = statements] /\ tx' = NoTx
                 ELSE /\ x' = [x EXCEPT !.pc = "rls-apply", !.policy.statements = statements]
                      /\ tx' = [NoTx EXCEPT !.held = "AEL"]
    /\ UNCHANGED <<scenario, live, builders, moves>>

\* Every statement, then the proof that the table converged (RS-2).
RowSecurityApplies ==
    /\ x.pc = "rls-apply"
    /\ \/ \E err \in {"statement-budget", "sql"} : Return(err, FALSE)
       \/ LET actual == [live EXCEPT !.security = Secured(@, x.policy.statements)] IN
          IF admitRowSecurityTable(actual, x.policy.wanted)
             /\ rowSecurityEqual(actual.security, x.policy.wanted.security)
          THEN x' = [x EXCEPT !.pc = "rls-commit"] /\ tx' = tx
          ELSE Return("invariant-violation", FALSE)
    /\ UNCHANGED <<scenario, live, builders, moves>>

AfterSecurity == [live EXCEPT !.security = Secured(@, x.policy.statements)]

\* COMMIT, whose answer may be lost (RowSecurityOutcomeUnknownError).
RowSecurityCommits ==
    /\ x.pc = "rls-commit"
    /\ \/ live' = AfterSecurity /\ x' = [x EXCEPT !.pc = "returned", !.report = 1, !.landed = 1]
       \/ live' = AfterSecurity /\ x' = [x EXCEPT !.pc = "returned", !.err = "unknown", !.landed = 1]
       \/ live' = live /\ x' = [x EXCEPT !.pc = "returned", !.err = "unknown"]
    /\ tx' = NoTx
    /\ UNCHANGED <<scenario, builders, moves>>

\* Another session creates, changes or drops a policy, under the table's lock.
OtherChangesPolicy(n) ==
    /\ Move("policy") /\ TableLockFree
    /\ \/ live' = [live EXCEPT !.security.policies = Put(@, n, 9)]
       \/ live' = [live EXCEPT !.security.policies = Del(@, n)]

-----------------------------------------------------------------------------

RowSecurityStep ==
    \/ RowSecurityInspects \/ RowSecurityDerives \/ RowSecurityApplies \/ RowSecurityCommits
    \/ \E i \in DOMAIN Policies : OtherChangesPolicy(Policies[i])
=============================================================================
