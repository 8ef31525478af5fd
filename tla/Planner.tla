------------------------------ MODULE Planner -------------------------------
(***************************************************************************)
(* pkg/planner and pkg/router: how one statement is classified, operation  *)
(* by operation, into native, copy-and-swap or refuse, and what the router *)
(* then makes of it.  Pure operators; Migrate runs what they decide.       *)
(***************************************************************************)
EXTENDS Schema

\* planner.Facts.  "types" is a set of the columns whose live type is known
\* (none in an offline lint), "proofs" what the server proved about the
\* columns an ADD COLUMN adds, "views" and "policies" the columns a dependent
\* reads in the whole tree, in the part a drop reaches, and in the table.
Facts(t, proofs, views, policies, renamed) ==
    [table |-> t, proofs |-> proofs, views |-> views, policies |-> policies, renamed |-> renamed]

NoDependents == [tree |-> {}, drop |-> {}, own |-> {}]

dependentsReached(op, readers) ==
    CASE op.kind \notin {"AlterColumnType", "DropColumn"} -> FALSE
      [] op.kind \in {"AlterColumnType", "DropColumn"} /\ op.only -> op.column \in readers.own
      [] op.kind = "DropColumn" /\ ~op.only -> op.column \in readers.drop
      [] OTHER -> op.column \in readers.tree

\* Mutant: a wider numeric is taken for coercible whatever its scale.
CoercibleAnyScale(old, next) ==
    /\ old.array = next.array
    /\ \/ old.name = next.name /\ old.mods = next.mods
       \/ Len(old.mods) = 2 /\ Len(next.mods) = 2 /\ next.mods[1] >= old.mods[1]

\* planner.binaryCoercible on the two type shapes.  A target with a schema
\* or a COLLATE clause has no shape (targetTypeShape), written "".
binaryCoercible(old, next) ==
    /\ old.name # "" /\ next.name # ""
    /\ old.array = next.array
    /\ \/ old.name = next.name /\ old.mods = next.mods
       \/ /\ ~old.array
          /\ \/ old.name = "varchar" /\ next.name = "text"
             \/ /\ old.name = "varchar" /\ next.name = "varchar"
                /\ \/ next.mods = <<>>
                   \/ Len(old.mods) = 1 /\ Len(next.mods) = 1 /\ next.mods[1] >= old.mods[1]
             \/ /\ old.name = "numeric" /\ next.name = "numeric"
                /\ \/ next.mods = <<>>
                   \/ /\ Len(old.mods) = 2 /\ Len(next.mods) = 2
                      /\ next.mods[2] = old.mods[2] /\ next.mods[1] >= old.mods[1]

\* A type has two spellings: the grammar's, which the statement's operation
\* carries (typeRef), and format_type's, which the catalog read carries and the
\* planner takes to the grammar's for the types its rules know.  An integer's
\* two spellings never meet.
typeRef(name) ==
    CASE name = "int" -> "int4" [] name = "bigint" -> "int8" [] OTHER -> name

formatType(name) ==
    CASE name = "int" -> "integer" [] name = "varchar" -> "character varying" [] OTHER -> name

catalogTypeName(text) == IF text = "character varying" THEN "varchar" ELSE text

parseTypeText(type) == [type EXCEPT !.name = catalogTypeName(formatType(@))]

targetTypeShape(op) == IF op.collate THEN Type("", <<>>) ELSE [op.type EXCEPT !.name = typeRef(@)]

\* planner.classifyDestructive.
destructiveOp(kind) == kind \in {"DropColumn", "DropConstraint", "DropIndex", "DropNotNull"}

Decision(op, route, reason) ==
    [op |-> op, route |-> route, reason |-> reason, destructive |-> destructiveOp(op.kind), safer |-> <<>>]

\* The three sequences the planner constructs for a single operation.
setNotNullSequence(c) ==
    LET con == Constraint("check", {c}, Scaffold[c], FALSE, 0)
        n   == Scaffold[c]
    IN  <<AddConstraint(n, con), NamedOp("ValidateConstraint", n),
          ColumnOp("SetNotNull", c), NamedOp("DropConstraint", n)>>

usingIndexSequence(op) ==
    <<Concurrently(CreateIndex(op.name, Index(op.def.cols, TRUE, op.def.body, TRUE, 0))),
      AddUsingIndex(op.name, op.def)>>

\* Mutant: the constraint is never validated.
NotValidUnvalidated(op) == <<[op EXCEPT !.notValid = TRUE]>>

notValidSequence(op) ==
    <<[op EXCEPT !.notValid = TRUE], NamedOp("ValidateConstraint", op.name)>>

Safer(op, single, sequence) ==
    [Decision(op, "native", "safer-idiom") EXCEPT !.safer = IF single THEN sequence ELSE <<>>]

concurrentlyDecision(op, single) ==
    IF op.concurrent THEN Decision(op, "native", "online-idiom")
                     ELSE Safer(op, single, <<Concurrently(op)>>)

classifyAddConstraint(op, single) ==
    CASE op.usingIndex \/ op.notValid -> Decision(op, "native", "online-idiom")
      [] ~(op.usingIndex \/ op.notValid) /\ op.constraint \in {"pk", "unique"} ->
            Safer(op, single /\ op.columns # {} /\ ~op.unrenderable, usingIndexSequence(op))
      [] ~(op.usingIndex \/ op.notValid) /\ op.constraint \in {"check", "fk"} ->
            Safer(op, single, notValidSequence(op))
      [] ~(op.usingIndex \/ op.notValid) /\ op.constraint = "notnull" -> Safer(op, FALSE, <<>>)
      [] OTHER -> Decision(op, "refuse", "unsupported-operation")

classifyTypeChange(op, facts) ==
    LET cols == facts.table.cols IN
    CASE op.using -> Decision(op, "copy-and-swap", "type-rewrite")
      [] ~op.using /\ op.column \notin DOMAIN cols -> Decision(op, "copy-and-swap", "type-rewrite")
      [] ~op.using /\ op.column \in DOMAIN cols ->
            IF cols[op.column].attr # "collated" /\ binaryCoercible(parseTypeText(cols[op.column].type), targetTypeShape(op))
            THEN Decision(op, "native", "binary-coercible")
            ELSE Decision(op, "copy-and-swap", "type-rewrite")

\* The reasons ADD COLUMN leaves the native route, first match first.
classifyAddColumn(op, facts) ==
    LET proof == IF op.column \in DOMAIN facts.proofs THEN facts.proofs[op.column] ELSE "none"
        unproven == IF op.default = "expr" THEN "volatile-default" ELSE "type-rewrite"
    IN
    IF "unrecognized" \in op.inline THEN Decision(op, "refuse", "unsupported-operation")
        ELSE IF op.generated THEN Decision(op, "copy-and-swap", "generated-stored")
        ELSE IF proof = "default-rewrites" THEN Decision(op, "copy-and-swap", "volatile-default")
        ELSE IF proof = "type-rewrites" THEN Decision(op, "copy-and-swap", "type-rewrite")
        ELSE IF proof = "unproven" THEN Decision(op, "copy-and-swap", unproven)
        ELSE IF op.default = "expr" /\ proof # "in-place" THEN Decision(op, "copy-and-swap", "volatile-default")
        ELSE IF op.inline # {} THEN Decision(op, "native", "safer-idiom")
        ELSE IF op.default # "none" THEN Decision(op, "native", "fast-default")
        ELSE Decision(op, "native", "metadata-only")

MetadataKinds ==
    {"DropColumn", "SetDefault", "DropDefault", "DropNotNull", "SetColumnOptions", "SetRelOptions",
     "SetSchema", "DropConstraint"}

classifyKind(op, facts, single) ==
    CASE op.kind = "CreateTable" ->
            Decision(op, "native", IF op.partitionOf THEN "partition-parent-lock" ELSE "metadata-only")
      [] op.kind = "AddColumn" -> classifyAddColumn(op, facts)
      [] op.kind \in MetadataKinds -> Decision(op, "native", "metadata-only")
      [] op.kind \in {"RenameColumn", "RenameTable"} -> Decision(op, "native", "app-breaking-rename")
      [] op.kind = "RenameIndex" ->
            Decision(op, "native", IF facts.renamed THEN "app-breaking-rename" ELSE "metadata-only")
      [] op.kind = "AlterColumnType" -> classifyTypeChange(op, facts)
      [] op.kind = "SetNotNull" -> Safer(op, single, setNotNullSequence(op.column))
      [] op.kind = "SetTablespace" -> Decision(op, "copy-and-swap", "relocation")
      [] op.kind = "AddConstraint" -> classifyAddConstraint(op, single)
      [] op.kind = "ValidateConstraint" -> Decision(op, "native", "online-idiom")
      [] op.kind = "AttachPartition" -> Safer(op, FALSE, <<>>)
      [] op.kind \in {"DetachPartition", "CreateIndex", "DropIndex", "Reindex"} ->
            concurrentlyDecision(op, single)
      [] OTHER -> Decision(op, "refuse", "unsupported-operation")

classifyOp(op, facts, single) ==
    IF DroppedBy(facts.table, op) THEN Decision(op, "refuse", "replica-identity")
    ELSE IF op.cascade THEN Decision(op, "refuse", "cascading-drop")
    ELSE IF dependentsReached(op, facts.views) THEN Decision(op, "refuse", "dependent-view")
    ELSE IF dependentsReached(op, facts.policies) THEN Decision(op, "refuse", "dependent-policy")
    ELSE classifyKind(op, facts, single)

\* planner.Classify on the operations of one statement.
Worst(order, values) == order[CHOOSE i \in DOMAIN order : order[i] \in values /\ \A j \in 1..i-1 : order[j] \notin values]

Classify(ops, facts) ==
    LET decisions == [i \in DOMAIN ops |-> classifyOp(ops[i], facts, Len(ops) = 1)]
    IN  [ops |-> ops, decisions |-> decisions,
         route |-> Worst(<<"refuse", "copy-and-swap", "native">>,
                         {decisions[i].route : i \in DOMAIN decisions} \cup {"native"})]

-----------------------------------------------------------------------------
(* pkg/router *)

\* Statement.ExecutableAsSubmitted.
ExecutableAsSubmitted(d) == d.reason \notin {"safer-idiom", "app-breaking-rename"}

copyAndSwapCarries(p) ==
    \A i \in DOMAIN p.decisions :
        p.decisions[i].route = "copy-and-swap" =>
            p.decisions[i].op.kind = "AlterColumnType" /\ p.decisions[i].reason = "type-rewrite"

\* The literal steps the native backend would run: a sequence of statements,
\* each the sequence of its operations; empty when there are none.
nativeExecSQL(p) ==
    IF Len(p.decisions) = 1 /\ p.decisions[1].safer # <<>>
    THEN [i \in DOMAIN p.decisions[1].safer |-> <<p.decisions[1].safer[i]>>]
    ELSE IF \A i \in DOMAIN p.decisions : ExecutableAsSubmitted(p.decisions[i]) THEN <<p.ops>>
    ELSE <<>>

routeStatement(p) ==
    LET disposition ==
            IF p.route = "refuse" THEN "refuse"
            ELSE IF p.route = "copy-and-swap" THEN (IF copyAndSwapCarries(p) THEN "execute" ELSE "unavailable")
            ELSE IF nativeExecSQL(p) = <<>> THEN "rewrite-required"
            ELSE "execute"
    IN  [plan |-> p, backend |-> p.route, disposition |-> disposition,
         steps |-> IF p.route = "native" /\ disposition = "execute" THEN nativeExecSQL(p) ELSE <<>>]

destructiveStatement(st) ==
    /\ st.disposition # "refuse"
    /\ \E i \in DOMAIN st.plan.decisions : st.plan.decisions[i].destructive

-----------------------------------------------------------------------------
(* What PostgreSQL does while it runs an operation, the reference the       *)
(* classification is checked against: "rewrite" and "scan" hold the table's *)
(* ACCESS EXCLUSIVE lock for as long as the table is big.                   *)

\* A value of a type, as it is stored, and its conversion to another: a
\* string by its length, a numeric by its digits and its scale.
Values(type) ==
    CASE type.name = "varchar" /\ Len(type.mods) = 1 -> {[len |-> l, scale |-> 0] : l \in 0..type.mods[1]}
      [] type.name \in {"varchar", "text"} /\ type.mods = <<>> -> {[len |-> l, scale |-> 0] : l \in 0..9}
      [] type.name = "numeric" /\ Len(type.mods) = 2 -> {[len |-> l, scale |-> type.mods[2]] : l \in 0..type.mods[1]}
      [] type.name = "numeric" /\ type.mods = <<>> -> {[len |-> l, scale |-> s] : l \in 0..9, s \in 0..2}
      [] OTHER -> {}

Family(type) == IF type.name = "text" THEN "varchar" ELSE type.name

\* A conversion keeps the stored bytes of every row exactly when each value
\* of the old type is one of the new.
Relabels(old, next) == Family(old) = Family(next) /\ old.array = next.array
                       /\ (old = next \/ (~old.array /\ Values(old) \subseteq Values(next)))

\* What the server itself proved or would do with the default of a column
\* an ADD COLUMN adds; "truth" is the proof a live read would return.
Cost(t, op, truth) ==
    CASE op.kind = "AddColumn" ->
            IF op.generated \/ truth # "in-place" THEN "rewrite" ELSE IF op.inline # {} THEN "scan" ELSE "catalog"
      [] op.kind = "AlterColumnType" ->
            IF /\ ~op.using /\ ~op.collate
               /\ op.column \in DOMAIN t.cols
               /\ t.cols[op.column].attr # "collated"
               /\ Relabels(t.cols[op.column].type, op.type)
            THEN "catalog" ELSE "rewrite"
      [] op.kind = "SetTablespace" -> "rewrite"
      [] op.kind = "SetNotNull" ->
            IF \E n \in DOMAIN t.cons : t.cons[n].kind = "check" /\ t.cons[n].valid /\ t.cons[n].body = Scaffold[op.column]
            THEN "catalog" ELSE "scan"
      [] op.kind = "AddConstraint" ->
            IF op.usingIndex
            THEN IF op.constraint = "pk" /\ \E c \in op.def.cols : ~t.cols[c].notNull THEN "scan" ELSE "catalog"
            ELSE IF op.notValid THEN "catalog" ELSE "scan"
      [] op.kind \in {"CreateIndex", "Reindex"} -> IF op.concurrent THEN "catalog" ELSE "scan"
      [] op.kind \in {"AttachPartition", "DetachPartition"} -> IF op.concurrent THEN "catalog" ELSE "scan"
      [] OTHER -> "catalog"
=============================================================================
