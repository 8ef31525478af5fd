------------------------------- MODULE Schema -------------------------------
(***************************************************************************)
(* One table as the desired-schema front door sees it: the canonical model *)
(* of pkg/schemadiff, the operations of pkg/statement, the diff of a live  *)
(* table against its declaration, and what PostgreSQL does with each       *)
(* operation the diff or an operator submits.                              *)
(*                                                                         *)
(* A definition the code compares textually (pg_get_constraintdef,         *)
(* pg_get_indexdef, pg_get_expr) is a member of a small set here: two      *)
(* definitions are equal exactly when the server would print them equal.   *)
(***************************************************************************)
EXTENDS Naturals, FiniteSets, Sequences, SequencesExt, Functions, TLC

CONSTANTS
    Columns,     \* the column names, in attribute order
    Names,       \* the names a constraint or an index may carry, in order
    Scaffold,    \* column |-> the name of its <t>_<c>_not_null_check scaffold
    Quarantine   \* oid |-> the name pgsprite_abandoned_<oid>

Put(f, k, v) == (k :> v) @@ f

Del(f, k) == Restrict(f, DOMAIN f \ {k})

-----------------------------------------------------------------------------
(* The model of a table *)

\* A column type: its family, its modifiers, and whether it is an array.
Type(name, mods) == [name |-> name, mods |-> mods, array |-> FALSE]

\* schemadiff.Column.  "attr" folds Identity, Generated, Virtual and
\* Collation, which the diff only ever compares: "plain", "identity",
\* "generated" or "collated".
Column(type, notNull, default, attr) ==
    [type |-> type, notNull |-> notNull, default |-> default, attr |-> attr]

\* schemadiff.Constraint: a key carries its index (the oid and its
\* definition), any other constraint carries no index (oid 0).
Constraint(kind, cols, body, valid, oid) ==
    [kind |-> kind, cols |-> cols, body |-> body, valid |-> valid, oid |-> oid]

\* schemadiff.Index: one that backs no constraint.
Index(cols, unique, body, valid, oid) ==
    [cols |-> cols, unique |-> unique, body |-> body, valid |-> valid, oid |-> oid]

\* schemadiff.RowSecurity, with each policy's definition (command, roles,
\* expressions, comment) by its name, and schemadiff.Model.  "fixed" folds what no ALTER of the diff changes (the
\* partition attachment, persistence, storage parameters); "identity" is the
\* oid of the index the replica identity is built on, 0 for none; "stale" is
\* the columns whose planner statistics a type change deleted; "seqs" is the
\* sequence each column owns, "grants" folds the owner, the privileges, the
\* comment and the other metadata no model holds, and "attached" is the kinds
\* of object of others that hang on the table; "oid" names the table itself and
\* "next" is the next oid the server hands out.
NoSecurity == [enabled |-> FALSE, forced |-> FALSE, policies |-> <<>>]

Model(cols, cons, idx) ==
    [oid |-> 1, exists |-> TRUE, partitioned |-> FALSE, fixed |-> 0, security |-> NoSecurity,
     cols |-> cols, cons |-> cons, idx |-> idx, identity |-> 0, stale |-> {}, seqs |-> <<>>,
     grants |-> 0, attached |-> {}, next |-> 2]

\* A sequence: the largest value it may issue, the last one it has, and who
\* may use it.
Sequence(max, last) == [max |-> max, last |-> last, grants |-> 0]

Key(con) == con.kind \in {"pk", "unique"}

\* Constraint.Def, which ends in NOT VALID for one the server has not
\* validated, and Index.Def / Constraint.IndexDef.
ConDef(con) == [kind |-> con.kind, cols |-> con.cols, body |-> con.body, valid |-> con.valid]

IndexDef(ix) ==
    [cols |-> ix.cols, unique |-> (IF "unique" \in DOMAIN ix THEN ix.unique ELSE TRUE), body |-> ix.body]

-----------------------------------------------------------------------------
(* The operations *)

\* statement.Op: one subcommand of an ALTER TABLE, or one CREATE or DROP.
\* "def" is the column, constraint or index it declares.
NoOp ==
    [kind |-> "Unrecognized", column |-> "", name |-> "", to |-> "", only |-> FALSE, cascade |-> FALSE,
     indexes |-> {}, columns |-> {}, unrenderable |-> FALSE, constraint |-> "none",
     notValid |-> FALSE, usingIndex |-> FALSE, concurrent |-> FALSE, generated |-> FALSE,
     inline |-> {}, partitionOf |-> FALSE, default |-> "none", type |-> Type("", <<>>),
     using |-> FALSE, collate |-> FALSE, def |-> <<>>]

ColumnOp(kind, c) == [NoOp EXCEPT !.kind = kind, !.column = c]

\* statement.addColumnOp on the definition columnDef renders.  An identity
\* column fills itself, so it is a DefaultExpression like serial.
AddColumn(c, col) ==
    [ColumnOp("AddColumn", c) EXCEPT
        !.def = col, !.type = col.type, !.generated = (col.attr = "generated"),
        !.default = CASE col.attr = "identity" -> "expr"
                      [] col.attr = "generated" -> "none"
                      [] OTHER -> col.default]

AlterColumnType(c, type) == [ColumnOp("AlterColumnType", c) EXCEPT !.type = type]

SetDefault(c, default) == [ColumnOp("SetDefault", c) EXCEPT !.default = default]

\* statement.addConstraintOp.
AddConstraint(n, con) ==
    [NoOp EXCEPT !.kind = "AddConstraint", !.name = n, !.constraint = con.kind,
                 !.columns = (IF Key(con) THEN con.cols ELSE {}), !.notValid = ~con.valid, !.def = con]

AddUsingIndex(n, con) == [AddConstraint(n, con) EXCEPT !.usingIndex = TRUE, !.columns = {}]

NamedOp(kind, n) == [NoOp EXCEPT !.kind = kind, !.name = n]

CreateIndex(n, ix) == [NamedOp("CreateIndex", n) EXCEPT !.def = ix]

DropIndex(n) == [NamedOp("DropIndex", n) EXCEPT !.indexes = {n}]

RenameIndex(n, m) == [NamedOp("RenameIndex", n) EXCEPT !.to = m]

Concurrently(op) == [op EXCEPT !.concurrent = TRUE]

-----------------------------------------------------------------------------
(* schemadiff.Diff *)

\* One planned change: the operation, and the live object it was planned
\* from when it takes one over (Change.Adopts, Change.Validates).
Change(op) == [op |-> op, adopts |-> {}, validates |-> {}]

Adopting(op, def) == [Change(op) EXCEPT !.adopts = {def}]

Validating(op, def) == [Change(op) EXCEPT !.validates = {def}]

ForEach(order, Changes(_)) == FlattenSeq([i \in DOMAIN order |-> Changes(order[i])])

If(cond, change) == IF cond THEN <<change>> ELSE <<>>

isUnfinishedBuild(partitioned, ix) == ~partitioned /\ ~ix.valid

indexNeedsDrop(live, n, desired) ==
    /\ n \in DOMAIN live.idx
    /\ ~isUnfinishedBuild(live.partitioned, live.idx[n])
    /\ n \in DOMAIN desired.idx => IndexDef(desired.idx[n]) # IndexDef(live.idx[n])

indexNeedsCreate(live, n, desired) ==
    /\ n \in DOMAIN desired.idx
    /\ n \in DOMAIN live.idx =>
          \/ IndexDef(desired.idx[n]) # IndexDef(live.idx[n])
          \/ isUnfinishedBuild(live.partitioned, live.idx[n])

\* Mutant: the diff takes over no index.
AdoptsNothing(live, desired) == {}

\* The live indexes a new key takes over instead of building its own.
adoptableIndexes(live, desired) ==
    {n \in DOMAIN desired.cons :
        /\ ~live.partitioned
        /\ Key(desired.cons[n])
        /\ n \notin DOMAIN live.cons
        /\ n \in DOMAIN live.idx
        /\ live.idx[n].valid
        /\ IndexDef(live.idx[n]) = IndexDef(desired.cons[n])}

validatesInPlace(had, want) ==
    /\ ~had.valid
    /\ want.valid
    /\ ConDef([had EXCEPT !.valid = TRUE]) = ConDef(want)

\* The largest value of an integer type, in the order of the types, 0 for any
\* other type.
IntegerMax(type) ==
    CASE type.name = "smallint" -> 1 [] type.name = "int" -> 2 [] type.name = "bigint" -> 3 [] OTHER -> 0

\* ALTER SEQUENCE ... AS: a bound nobody chose follows the type, which is what
\* identitySequenceAfterRetype expects.
Retyped(seq, from, to) ==
    [seq EXCEPT !.max = IF IntegerMax(from) # 0 /\ IntegerMax(to) # 0 /\ @ = IntegerMax(from) THEN IntegerMax(to) ELSE @]

\* What alterColumnChanges, the add-column bucket and Diff itself refuse.
UnsupportedColumn(live, desired, c) ==
    IF c \in DOMAIN live.cols
    THEN LET had == live.cols[c]  want == desired.cols[c] IN
         \/ had.attr # want.attr
         \/ /\ want.attr = "identity"
            /\ Retyped(live.seqs[c], had.type, want.type).max # desired.seqs[c].max
         \/ want.attr = "generated" /\ had.type # want.type
         \/ want.attr \notin {"generated", "identity"} /\ had.default # want.default /\ want.default = "seq"
    ELSE desired.cols[c].default = "seq" \/ desired.cols[c].attr = "collated"

Unsupported(live, desired) ==
    \/ live.partitioned # desired.partitioned
    \/ live.fixed # desired.fixed
    \/ desired.security # NoSecurity
    \/ \E c \in DOMAIN desired.cols : UnsupportedColumn(live, desired, c)

alterColumnChanges(c, had, want) ==
    If(want.attr = "generated" /\ had.default # want.default, Change(ColumnOp("Unrecognized", c)))
    \o If(had.type # want.type, Change(AlterColumnType(c, want.type)))
    \o If(want.attr \notin {"generated", "identity"} /\ had.default # want.default,
          Change(IF want.default = "none" THEN ColumnOp("DropDefault", c)
                                          ELSE SetDefault(c, want.default)))
    \o If(had.notNull # want.notNull,
          Change(ColumnOp(IF want.notNull THEN "SetNotNull" ELSE "DropNotNull", c)))

addConstraintChanges(live, desired, n) ==
    IF n \notin DOMAIN desired.cons THEN <<>>
    ELSE LET want == desired.cons[n]
             had  == n \in DOMAIN live.cons
         IN  IF n \in adoptableIndexes(live, desired)
             THEN <<Adopting(AddUsingIndex(n, want), IndexDef(want))>>
             ELSE IF had /\ validatesInPlace(live.cons[n], want)
             THEN <<Validating(NamedOp("ValidateConstraint", n), ConDef(live.cons[n]))>>
             ELSE If(~had \/ ConDef(live.cons[n]) # ConDef(want), Change(AddConstraint(n, want)))

Diff(live, desired) ==
    LET had(c) == c \in DOMAIN live.cols
        want(c) == c \in DOMAIN desired.cols
        dropIndex(n) == If(n \notin adoptableIndexes(live, desired) /\ indexNeedsDrop(live, n, desired),
                           Change(DropIndex(n)))
        dropConstraint(n) ==
            If(/\ n \in DOMAIN live.cons
               /\ n \in DOMAIN desired.cons =>
                     /\ ConDef(desired.cons[n]) # ConDef(live.cons[n])
                     /\ ~validatesInPlace(live.cons[n], desired.cons[n]),
               Change(NamedOp("DropConstraint", n)))
        dropColumn(c) == If(had(c) /\ ~want(c), Change(ColumnOp("DropColumn", c)))
        addColumn(c) == If(~had(c) /\ want(c), Change(AddColumn(c, desired.cols[c])))
        alterColumn(c) == IF had(c) /\ want(c) THEN alterColumnChanges(c, live.cols[c], desired.cols[c])
                                               ELSE <<>>
        addConstraint(n) == addConstraintChanges(live, desired, n)
        createIndex(n) == If(indexNeedsCreate(live, n, desired), Change(CreateIndex(n, desired.idx[n])))
    IN  ForEach(Names, dropIndex) \o ForEach(Names, dropConstraint)
        \o ForEach(Columns, dropColumn) \o ForEach(Columns, addColumn) \o ForEach(Columns, alterColumn)
        \o ForEach(Names, addConstraint) \o ForEach(Names, createIndex)

-----------------------------------------------------------------------------
(* schemadiff.ReplicaIdentityKeys, of a table with none below it *)

IdentityIndexes(t) == {n \in DOMAIN t.idx : t.idx[n].oid = t.identity}

IdentityConstraints(t) == {n \in DOMAIN t.cons : t.cons[n].oid = t.identity /\ t.identity # 0}

IdentityColumns(t) ==
    UNION ({t.idx[n].cols : n \in IdentityIndexes(t)} \cup {t.cons[n].cols : n \in IdentityConstraints(t)})

DroppedBy(t, op) ==
    CASE op.kind = "DropIndex" -> op.indexes \cap (IdentityIndexes(t) \cup IdentityConstraints(t)) # {}
      [] op.kind = "DropConstraint" -> op.name \in IdentityConstraints(t)
      [] op.kind = "DropColumn" -> op.column \in IdentityColumns(t)
      [] OTHER -> FALSE

-----------------------------------------------------------------------------
(* PostgreSQL: which operations it accepts on a table, and what they do *)

KeyNames(t) == {n \in DOMAIN t.cons : Key(t.cons[n])}

RelNames(t) == DOMAIN t.idx \cup KeyNames(t)

\* The server's own refusals (a duplicate name, a name that is not there).
\* A statement it accepts may still fail on the rows.
Accepts(t, op) ==
    CASE op.kind = "AddColumn" -> op.column \notin DOMAIN t.cols
      [] op.kind = "AddConstraint" ->
            /\ op.name \notin DOMAIN t.cons
            /\ op.def.cols \subseteq DOMAIN t.cols
            /\ IF op.usingIndex THEN op.name \in DOMAIN t.idx /\ t.idx[op.name].valid /\ t.idx[op.name].unique
                                ELSE Key(op.def) => op.name \notin RelNames(t)
      [] op.kind \in {"ValidateConstraint", "DropConstraint"} -> op.name \in DOMAIN t.cons
      [] op.kind = "CreateIndex" -> op.name \notin RelNames(t) /\ op.def.cols \subseteq DOMAIN t.cols
      [] op.kind = "DropIndex" -> op.indexes \subseteq DOMAIN t.idx
      [] op.kind = "RenameIndex" -> op.name \in RelNames(t) /\ op.to \notin RelNames(t)
      [] op.kind = "Reindex" -> op.name \in RelNames(t)
      [] op.kind \in {"SetTablespace", "SetRelOptions"} -> TRUE
      [] OTHER -> op.column \in DOMAIN t.cols

Without(t, names) ==
    [t EXCEPT !.cons = Restrict(@, DOMAIN @ \ names), !.idx = Restrict(@, DOMAIN @ \ names)]

\* The object a statement's name resolves to when it runs, 0 if none.
Resolved(t, n) == IF n \in DOMAIN t.idx THEN t.idx[n].oid
                  ELSE IF n \in DOMAIN t.cons THEN t.cons[n].oid ELSE 0

NameOf(t, oid) == CHOOSE n \in DOMAIN t.idx : t.idx[n].oid = oid

OwnsSequence(col) == col.attr = "identity" \/ col.default = "seq"

\* The table after op, which resolved its index name to target.
Effect(t, op, target) ==
    LET c == op.column
        n == op.name
    IN CASE op.kind = "AddColumn" ->
               [t EXCEPT !.cols = Put(@, c, op.def),
                         !.seqs = IF OwnsSequence(op.def) THEN Put(@, c, Sequence(IntegerMax(op.def.type), 0)) ELSE @]
         [] op.kind = "DropColumn" ->
               Without([t EXCEPT !.cols = Del(@, c), !.seqs = Del(@, c)],
                       {m \in DOMAIN t.cons : c \in t.cons[m].cols} \cup {m \in DOMAIN t.idx : c \in t.idx[m].cols})
         [] op.kind = "AlterColumnType" ->
               [t EXCEPT !.cols[c].type = op.type, !.stale = @ \cup {c},
                         !.seqs = IF t.cols[c].attr = "identity"
                                  THEN [@ EXCEPT ![c] = Retyped(@, t.cols[c].type, op.type)] ELSE @]
         [] op.kind = "SetDefault" -> [t EXCEPT !.cols[c].default = op.default]
         [] op.kind = "DropDefault" -> [t EXCEPT !.cols[c].default = "none"]
         [] op.kind = "SetNotNull" -> [t EXCEPT !.cols[c].notNull = TRUE]
         [] op.kind = "DropNotNull" -> [t EXCEPT !.cols[c].notNull = FALSE]
         [] op.kind = "AddConstraint" ->
               LET oid == IF op.usingIndex THEN target ELSE IF Key(op.def) THEN t.next ELSE 0
                   ix  == t.idx[NameOf(t, target)]
                   con == IF op.usingIndex
                          THEN Constraint(op.def.kind, ix.cols, ix.body, TRUE, target)
                          ELSE [op.def EXCEPT !.valid = ~op.notValid, !.oid = oid]
                   nullable == IF con.kind = "pk" THEN con.cols ELSE {}
               IN  [t EXCEPT !.cons = Put(@, n, con),
                             !.idx = IF op.usingIndex THEN Del(@, NameOf(t, target)) ELSE @,
                             !.cols = [d \in DOMAIN @ |->
                                         IF d \in nullable THEN [@[d] EXCEPT !.notNull = TRUE] ELSE @[d]],
                             !.next = IF oid = @ THEN @ + 1 ELSE @]
         [] op.kind = "ValidateConstraint" -> [t EXCEPT !.cons[n].valid = TRUE]
         [] op.kind = "DropConstraint" -> [t EXCEPT !.cons = Del(@, n)]
         [] op.kind = "CreateIndex" ->
               [t EXCEPT !.idx = Put(@, n, [op.def EXCEPT !.oid = t.next, !.valid = TRUE]), !.next = @ + 1]
         [] op.kind = "DropIndex" -> Without(t, op.indexes)
         [] op.kind = "RenameIndex" ->
               LET m == NameOf(t, target)
               IN  [t EXCEPT !.idx = Put(Del(@, m), op.to, t.idx[m])]
         [] OTHER -> t
=============================================================================
