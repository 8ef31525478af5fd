----------------------------- MODULE MCMigrate ------------------------------
(* Instances of Migrate: one scenario per question asked of the front doors. *)
EXTENDS Migrate

MCColumns == <<"a", "b", "c">>

MCNames == <<"ck", "fk", "ix", "pk", "sa", "sb", "sc", "uq">>

MCScaffold == [a |-> "sa", b |-> "sb", c |-> "sc"]

MCQuarantine ==
    <<"q1", "q2", "q3", "q4", "q5", "q6", "q7", "q8", "q9", "q10", "q11", "q12",
      "q13", "q14", "q15", "q16", "q17", "q18", "q19", "q20", "q21", "q22", "q23", "q24">>

MCLiked ==
    <<"l1", "l2", "l3", "l4", "l5", "l6", "l7", "l8", "l9", "l10", "l11", "l12",
      "l13", "l14", "l15", "l16", "l17", "l18", "l19", "l20", "l21", "l22", "l23", "l24">>

MCPolicies == <<"p", "q">>

-----------------------------------------------------------------------------

Integer == Type("int", <<>>)

Short == Type("varchar", <<1>>)

T0 == [Model([a |-> Column(Short, TRUE, "none", "plain"), b |-> Column(Integer, FALSE, "none", "plain")], <<>>, <<>>)
         EXCEPT !.next = 5]

WithIndex(t, n, ix) == [t EXCEPT !.idx = Put(@, n, ix)]

WithCon(t, n, con) == [t EXCEPT !.cons = Put(@, n, con)]

Unique(oid) == Constraint("unique", {"b"}, 1, TRUE, oid)

Primary(oid) == Constraint("pk", {"a"}, 1, TRUE, oid)

Check(valid) == Constraint("check", {"a"}, 1, valid, 0)

Plain(oid) == Index({"b"}, FALSE, 2, TRUE, oid)

UniqueIndex(c, oid) == Index({c}, TRUE, 1, TRUE, oid)

\* A server with just what a copy-and-swap needs.
Server == [logical |-> TRUE, foreignSlot |-> FALSE, slots |-> 1, senders |-> 2, disk |-> 2, size |-> 1]

Scenario(t, requests) ==
    [table |-> t, requests |-> requests, moves |-> {}, builds |-> {}, pool |-> 3, occupied |-> FALSE,
     setsRole |-> FALSE, observable |-> TRUE, big |-> FALSE, privileged |-> TRUE, proofs |-> <<>>,
     truth |-> "in-place", views |-> NoDependents, policies |-> NoDependents,
     server |-> Server, immutable |-> TRUE, keepOld |-> FALSE]

Moving(s, ms) == [s EXCEPT !.moves = ms]

Alter(op) == Request("alter", <<op>>)

\* Every pair of types, as written and acknowledged for force.
Types == {Type("varchar", <<>>), Type("varchar", <<1>>), Type("varchar", <<3>>), Type("text", <<>>),
          Type("numeric", <<>>), Type("numeric", <<2, 1>>), Type("numeric", <<3, 1>>), Type("numeric", <<3, 2>>), Integer,
          [Short EXCEPT !.array = TRUE], [Type("varchar", <<3>>) EXCEPT !.array = TRUE]}

TypeChanges ==
    {Scenario([T0 EXCEPT !.cols["a"].type = old], <<[Alter(AlterColumnType("a", new)) EXCEPT !.copySwap = TRUE]>>) :
        old \in Types, new \in Types}

\* A column added with every default and every proof the server may give.
NewColumns == {Column(Integer, FALSE, d, at) : d \in {"none", "const", "expr"}, at \in {"plain", "generated", "identity"}}

AddedColumns ==
    {[Scenario(T0, <<Alter(AddColumn("c", col))>>) EXCEPT !.proofs = [c |-> proof],
        !.truth = IF proof = "in-place" THEN "in-place" ELSE "rewrite"] :
        col \in NewColumns, proof \in {"in-place", "default-rewrites", "type-rewrites", "unproven"}}
    \cup {[Scenario(T0, <<Alter([AddColumn("c", Column(Integer, FALSE, "const", "plain")) EXCEPT !.inline = in])>>)
            EXCEPT !.proofs = [c |-> "in-place"]] : in \in {{"check"}, {"unrecognized"}}}

\* Statements that drop something, under every acknowledgement.
Dropping == WithIndex(WithCon(WithCon(T0, "ck", Check(TRUE)), "uq", Unique(2)), "ix", Plain(3))

Drops1 == {<<ColumnOp("DropColumn", "b")>>, <<NamedOp("DropConstraint", "ck")>>, <<NamedOp("DropConstraint", "uq")>>,
           <<ColumnOp("DropNotNull", "a")>>, <<AlterColumnType("a", Integer), ColumnOp("DropColumn", "b")>>,
           <<SetDefault("b", "const")>>, <<[ColumnOp("DropColumn", "b") EXCEPT !.cascade = TRUE]>>}

Acknowledged ==
    {Moving(Scenario(Dropping, <<Acknowledging(Acknowledging([Request("alter", ops) EXCEPT !.copySwap = TRUE],
                                                            "force", f), "allow", w)>>), {"identity"}) :
        ops \in Drops1, f \in {"none", "right", "wrong"}, w \in {"none", "right", "wrong"}}

Maintenance ==
    {Moving(Scenario(WithIndex(Dropping, "ix", UniqueIndex("b", 3)),
                     <<Acknowledging(Acknowledging(Request("index", <<op>>), "accept", a), "allow", w)>>),
            {"identity"}) :
        op \in {DropIndex("ix"), NamedOp("Reindex", "ix"), Concurrently(DropIndex("ix"))},
        a \in {"none", "right", "wrong"}, w \in {"none", "right", "wrong"}}

\* Other gates.
Gates ==
    {Scenario(T0, <<Acknowledging(Acknowledging(Alter(AlterColumnType("a", Integer)), "restart", r), "force", f)>>) :
        r \in {"none", "right", "wrong"}, f \in {"none", "right"}}
    \cup {Scenario(T0, <<Acknowledging(Acknowledging(Alter(SetDefault("b", "const")), "force", "right"),
                                       "accept", "right")>>)}
    \cup {Scenario(T0, <<Acknowledging(Alter(ColumnOp("SetNotNull", "b")), a, "right")>>) : a \in {"restart", "writes"}}
    \cup {Scenario(T0, <<Request("other", <<NoOp>>)>>)}
    \cup {[Scenario(T0, <<Alter(op)>>) EXCEPT !.big = TRUE] :
            op \in {SetDefault("b", "const"), ColumnOp("SetNotNull", "b"), NoOp}}
    \cup {[Scenario(T0, <<Alter(SetDefault("b", "const"))>>) EXCEPT !.privileged = FALSE]}
    \cup {[Scenario([T0 EXCEPT !.partitioned = TRUE], <<Alter(op)>>) EXCEPT !.big = TRUE] :
            op \in {CreateIndex("ix", Plain(0)), AddConstraint("uq", Unique(0)), ColumnOp("SetNotNull", "b")}}
    \cup {[Scenario(T0, <<Alter(op)>>) EXCEPT !.views.tree = {"a"}, !.policies.drop = {"b"}] :
            op \in {AlterColumnType("a", Type("text", <<>>)), ColumnOp("DropColumn", "b")}}
    \cup {[Scenario(T0, <<Alter(CreateIndex("ix", Plain(0)))>>) EXCEPT !.pool = 1]}
    \cup {Scenario(T0, <<Request("alter", <<ColumnOp("SetNotNull", "b"), SetDefault("b", "const")>>)>>)}

\* An index renamed while another session swaps names or replaces it.
Renames ==
    {Moving(Scenario(WithIndex(WithIndex(WithCon(T0, "uq", Unique(2)), "ix", Plain(3)), "fk", UniqueIndex("b", 4)),
                     <<Request("rename", <<RenameIndex(n, "ck")>>)>>), ms) :
        n \in {"ix", "uq", "pk"}, ms \in {{"swap-names"}, {"replace-index"}}}

\* A declaration that needs every kind of statement, run twice.
Want == WithIndex(WithCon(WithCon(
            [T0 EXCEPT !.cols = [a |-> Column(Type("varchar", <<3>>), TRUE, "const", "plain"),
                                 b |-> Column(Integer, TRUE, "none", "plain"),
                                 c |-> Column(Integer, FALSE, "none", "plain")]],
            "ck", Check(TRUE)), "uq", Unique(0)), "ix", Plain(0))

Converging ==
    {Moving([Scenario(T0, <<Desired(Want), Desired(Want)>>) EXCEPT !.proofs = [c |-> "in-place"]], ms) :
        ms \in {{"crash"}, {"cancel"}}}
    \cup {Moving([Scenario(T0, <<Desired(Want), Request("recover", <<Concurrently(CreateIndex("ix", Plain(0)))>>),
                                 Desired(Want)>>) EXCEPT !.proofs = [c |-> "in-place"]], {"crash", "cancel"})}
    \cup {Moving(Scenario(T0, <<Desired(WithCon(T0, "uq", Unique(0))), Desired(WithCon(T0, "uq", Unique(0)))>>), {"crash"})}
    \cup {Scenario(T0, <<[Desired([T0 EXCEPT !.cols["a"].type = Integer, !.cols["b"].notNull = TRUE]) EXCEPT !.copySwap = cs],
                         [Desired([T0 EXCEPT !.cols["a"].type = Integer, !.cols["b"].notNull = TRUE]) EXCEPT !.copySwap = TRUE]>>) :
            cs \in BOOLEAN}
    \cup {Scenario(Dropping, <<Desired(T0)>>), Scenario(T0, <<Acknowledging(Desired(Want), "force", "right")>>),
          Scenario(T0, <<Desired([T0 EXCEPT !.fixed = 1])>>), Scenario(T0, <<Desired(T0)>>),
          Scenario(T0, <<Desired(WithCon(T0, "fk", Constraint("fk", {"b"}, 1, TRUE, 0)))>>),
          Scenario(T0, <<[Desired(WithCon(T0, "ck", Check(TRUE))) EXCEPT !.pin = {<<AddConstraint("ck", Check(TRUE))>>}],
                         [Desired(WithCon(T0, "ck", Check(TRUE))) EXCEPT !.pin = {<<AddConstraint("ck", Check(TRUE))>>}]>>)}

\* Leftovers taken over while another session changes them.
Half == WithCon(WithIndex(WithIndex(T0, "pk", UniqueIndex("a", 2)), "uq", UniqueIndex("b", 3)), "ck", Check(FALSE))

Whole == WithCon(WithCon(WithCon(T0, "pk", Primary(0)), "uq", Unique(0)), "ck", Check(TRUE))

Adoptions ==
    {Moving(Scenario(Half, <<Desired(Whole), Desired(Whole)>>), {m}) :
        m \in {"replace-index", "replace-constraint", "loosen", "replace-table", "swap-names"}}

\* A build, its cancel, another's build of the same name, a crash, and the
\* recovery, with and without a view of the other backend.
Builds ==
    {[Moving(Scenario(T0, <<Alter(Concurrently(CreateIndex("ix", Plain(0)))),
                            Request(door, <<Concurrently(CreateIndex("ix", Plain(0)))>>)>>), ms)
        EXCEPT !.builds = {[name |-> "ix", def |-> Plain(0)]}, !.observable = o, !.pool = p] :
        door \in {"recover", "drop", "alter"}, ms \in {{"build", "cancel"}, {"crash", "build"}, {"replace-table"}, {"poll", "cancel"}},
        o \in BOOLEAN, p \in {2, 3}}

\* A recovery that is interrupted, or raced by a rename, and a build after it.
Build == Concurrently(CreateIndex("ix", Plain(0)))

Recoveries ==
    {Moving(Scenario(WithIndex(T0, "fk", UniqueIndex("b", 4)),
                     <<Alter(Build), Request("recover", <<Build>>), Request(door, <<Build>>)>>), ms) :
        door \in {"alter", "drop"}, ms \in {{"swap-names"}, {"crash", "cancel"}}}

\* A table that does not exist yet.
Absent == [T0 EXCEPT !.exists = FALSE, !.cols = <<>>, !.next = 2]

Creations ==
    {[Moving(Scenario(Absent, <<Desired(Want), Desired(Want)>>), ms)
        EXCEPT !.setsRole = r, !.occupied = o, !.privileged = pr, !.proofs = [c |-> "in-place"]] :
        ms \in {{}, {"create-table"}, {"crash"}}, r \in BOOLEAN, o \in BOOLEAN, pr \in BOOLEAN}

\* Policies previewed, then changed as reviewed or outright, while another
\* session changes one.
Guarded(t, enabled, policies) ==
    [t EXCEPT !.security = [enabled |-> enabled, forced |-> enabled, policies |-> policies]]

Securities ==
    {[Moving(Scenario(Guarded(T0, TRUE, had),
                      <<Securing("preview", Guarded(t, TRUE, want)), Securing(mode, Guarded(t, TRUE, want))>>), ms)
        EXCEPT !.privileged = (ms # {})] :
        had \in {<<>>, [p |-> 1]}, want \in {<<>>, [p |-> 1], [p |-> 2, q |-> 1], [q |-> Unresolvable]},
        t \in {T0, WithCon(T0, "ck", Check(TRUE))}, mode \in {"execute", "reviewed"},
        ms \in {{}, {"policy"}, {"policy", "crash"}}}
    \cup {Scenario(t, <<Securing("execute", Guarded(T0, FALSE, [p |-> 1]))>>) :
            t \in {[T0 EXCEPT !.exists = FALSE], [T0 EXCEPT !.partitioned = TRUE]}}

-----------------------------------------------------------------------------
(* Copy-and-swap *)

\* A keyed table with an identity, a serial column and two indexes.
Keyed == WithIndex(WithIndex(WithCon(
            [T0 EXCEPT !.cols = [a |-> Column(Integer, TRUE, "none", "identity"), b |-> Column(Integer, FALSE, "seq", "plain")],
                       !.seqs = [a |-> Sequence(2, 1), b |-> Sequence(3, 0)], !.next = 6],
            "pk", Primary(2)), "ix", Plain(3)), "uq", UniqueIndex("b", 4))

Big == Type("bigint", <<>>)

Rewriting(ops) == [Request("alter", ops) EXCEPT !.copySwap = TRUE]

Widen == <<AlterColumnType("a", Big)>>

Convert == <<[AlterColumnType("b", Short) EXCEPT !.using = TRUE]>>

\* Every statement, and what it needs of the shadow.
Rewrites ==
    {Widen, <<AlterColumnType("b", Big)>>, <<AlterColumnType("b", Short), AlterColumnType("a", Big)>>,
     Convert, <<[AlterColumnType("a", Big) EXCEPT !.using = TRUE]>>,
     <<AlterColumnType("a", Big), ColumnOp("DropColumn", "b")>>,
     <<AlterColumnType("a", Big), ColumnOp("DropColumn", "b"), AddColumn("b", Column(Integer, FALSE, "none", "plain"))>>,
     <<AlterColumnType("b", Big), ColumnOp("DropColumn", "a"), AddColumn("a", Column(Integer, TRUE, "none", "plain"))>>,
     <<AlterColumnType("a", Big), AddColumn("c", Column(Integer, TRUE, "none", "plain"))>>,
     <<AlterColumnType("a", Big), AddColumn("c", Column(Integer, FALSE, "expr", "identity"))>>,
     <<AlterColumnType("a", Big), SetDefault("a", "const")>>,
     <<AlterColumnType("a", Big), AddConstraint("uq", Unique(0))>>,
     <<AlterColumnType("a", Big), AddConstraint("ck", Unique(0))>>,
     <<AlterColumnType("a", Big), AddConstraint("ck", Check(TRUE))>>,
     <<AlterColumnType("a", Big), AddConstraint("pk", Check(TRUE))>>}

Statements ==
    {[Scenario(t, <<Acknowledging(Rewriting(ops), "allow", "right")>>) EXCEPT !.immutable = im] :
        t \in {Keyed, WithCon(Keyed, "ck", Check(FALSE)), WithIndex(Keyed, "ck", [Plain(5) EXCEPT !.body = 3])},
        ops \in Rewrites, im \in BOOLEAN}

\* The preflight at each of its boundaries.
Preflights ==
    {[Scenario(Keyed, <<Rewriting(Widen)>>) EXCEPT !.server = server, !.privileged = pr] :
        server \in {[Server EXCEPT !.logical = FALSE], [Server EXCEPT !.foreignSlot = TRUE], [Server EXCEPT !.slots = 0],
                    [Server EXCEPT !.senders = 1], [Server EXCEPT !.disk = 1], Server},
        pr \in BOOLEAN}
    \cup {Scenario(t, <<Rewriting(Widen)>>) :
            t \in {T0, [Keyed EXCEPT !.attached = {"triggers"}], [Keyed EXCEPT !.partitioned = TRUE],
                   Guarded(Keyed, TRUE, <<>>), [Keyed EXCEPT !.identity = 4],
                   WithCon(Keyed, "fk", Constraint("fk", {"b"}, 1, TRUE, 0))}}

\* A text column bounded: a rewrite between types the planner's rules know.
Noted == [Keyed EXCEPT !.cols["b"] = Column(Type("text", <<>>), FALSE, "none", "plain"), !.seqs = [a |-> Sequence(2, 1)]]

Shorten == <<AlterColumnType("b", Short)>>

\* Two statements on end, and one again after it stopped or its process died.
Reruns ==
    {Moving(Scenario(Noted, <<Rewriting(Shorten), Acknowledging(Rewriting(Shorten), "restart", r)>>), ms) :
        r \in {"none", "right"}, ms \in {{}, {"crash"}}}
    \cup {[Moving(Scenario(Keyed, <<Rewriting(ops), Acknowledging(Rewriting(again), "restart", r)>>), ms) EXCEPT !.keepOld = keep] :
        ops \in {Widen, Convert}, again \in {Widen, Convert}, r \in {"none", "right"},
        ms \in {{}, {"crash"}}, keep \in BOOLEAN}

\* Another session's change at any moment of the run, and of its rerun,
\* beside a crash or a second one.
Disturbed ==
    {Moving(Scenario(Guarded(WithCon(Keyed, "ck", Check(FALSE)), FALSE, [p |-> 1]),
                     <<Rewriting(ops), Rewriting(ops)>>), {m, n}) :
        ops \in {Widen, Convert},
        m \in {"attach", "grant", "nextval", "sequence", "add-column", "swap-names", "replace-table", "loosen", "policy",
               "replace-constraint", "replace-index"},
        n \in {"crash", "nextval"}}

\* A declaration that retypes a key, with statements before and after it.
WideKey == [WithCon(Keyed, "ck", Check(TRUE)) EXCEPT !.cols["a"].type = Big, !.cols["b"].notNull = TRUE,
                                                       !.seqs["a"].max = 3]

Declared ==
    {Scenario(Keyed, <<[Desired([WideKey EXCEPT !.seqs["a"].max = 2]) EXCEPT !.copySwap = TRUE]>>)}
    \cup {Moving([Scenario(t, <<[Desired(WideKey) EXCEPT !.copySwap = TRUE], [Desired(WideKey) EXCEPT !.copySwap = TRUE]>>)
               EXCEPT !.server.slots = n], ms) :
        t \in {Keyed, WithCon(Keyed, "fk", Constraint("fk", {"b"}, 1, TRUE, 0))}, n \in {0, 1}, ms \in {{}, {"crash"}}}

CopySwaps == Statements \cup Preflights \cup Reruns \cup Disturbed \cup Declared

FrontDoors ==
    TypeChanges \cup AddedColumns \cup Acknowledged \cup Maintenance \cup Gates \cup Renames
    \cup Converging \cup Adoptions \cup Builds \cup Recoveries \cup Creations \cup Securities \cup CopySwaps

\* A statement run again after its process died.
OneRerun == {Moving(Scenario(Noted, <<Rewriting(Shorten), Rewriting(Shorten)>>), {"crash"})}

\* An index taken over while another session swaps the names of two.
OneAdoption == {Moving(Scenario(Half, <<Desired(Whole)>>), {"swap-names"})}
=============================================================================
