------------------------------- MODULE Shadow -------------------------------
(***************************************************************************)
(* pkg/schemachange and pkg/preflight, the shape of a copy-and-swap: the   *)
(* preflight of the table and the server, the shadow that CREATE TABLE ... *)
(* LIKE and the gated statement make of the table, the proof of it the     *)
(* checkpoint row keeps, the inspections a rerun makes, the gate, and the  *)
(* swap that renames the indexes and hands the sequences over, while other *)
(* sessions change the table.  The rows, their capture and their           *)
(* verification are modules Copier, Catchup and Checksum; the engines, the *)
(* table lock, the slot and the row's saves are module Runner.             *)
(***************************************************************************)
EXTENDS RowSecurity

CONSTANT Liked    \* oid |-> the name the server gives the clone of an index

VARIABLE swap     \* the run, its checkpoint row, and the two other relations

Nothing == [exists |-> FALSE, oid |-> 0]

NoRow == [phase |-> "none"]

\* The run: its target and statement (RunOptions.Restart, KeepOld), the source
\* as the build read it, the proof, the source and the pairing the gate read
\* under the lock, its error; the relations under the derived names; the row.
NoRun ==
    [pc |-> "idle", ops |-> <<>>, restart |-> FALSE, target |-> 0, key |-> "", read |-> Nothing,
     proof |-> <<>>, gated |-> Nothing, pairs |-> {}, err |-> "none", landed |-> 0,
     shadow |-> Nothing, old |-> Nothing, row |-> NoRow]

-----------------------------------------------------------------------------
(* Preflight *)

KeyColumns(t) == UNION {t.cons[n].cols : n \in {m \in DOMAIN t.cons : t.cons[m].kind = "pk"}}

\* The shapes the route refuses, each by its cause.
refuseCopySwapShape(t) ==
    t.attached
    \cup (IF t.security.forced THEN {"force-rls"} ELSE {})
    \cup (IF t.partitioned THEN {"partitioned"} ELSE {})
    \cup (IF Cardinality(KeyColumns(t)) = 1 /\ \A c \in KeyColumns(t) : IntegerMax(t.cols[c].type) # 0
          THEN {} ELSE {"pk-unsupported"})
    \cup (IF t.identity # 0 THEN {"replica-identity"} ELSE {})
    \cup (IF \E n \in DOMAIN t.cons : t.cons[n].kind = "fk" THEN {"foreign-keys"} ELSE {})

\* The server's settings and the disk, for a run that decodes WAL.
copySwapWALSenders == 2

copySwapDiskHeadroomFactor == 2

refuseCopySwapEnvironment(f) ==
    \/ ~f.logical \/ f.foreignSlot
    \/ f.slots < 1 \/ f.senders < copySwapWALSenders
    \/ f.disk < 1 \/ f.disk < f.size * copySwapDiskHeadroomFactor

preflightRefuses == refuseCopySwapShape(live) # {} \/ refuseCopySwapEnvironment(scenario.server)

\* RecheckCopySwapShape, inside a transaction of the run.
recheckFails == ~live.exists \/ live.oid # swap.target \/ refuseCopySwapShape(live) # {}

-----------------------------------------------------------------------------
(* What the build reads of a table *)

\* schemadiff.IntrospectTx, fingerprinted whole.
Introspect(t) ==
    [cols |-> t.cols, partitioned |-> t.partitioned, fixed |-> t.fixed,
     cons |-> [n \in DOMAIN t.cons |-> ConDef(t.cons[n])],
     idx |-> [n \in DOMAIN t.idx |-> [def |-> IndexDef(t.idx[n]), valid |-> t.idx[n].valid]]]

unvalidatedChecks(t) == {n \in DOMAIN t.cons : ~t.cons[n].valid}

readFidelity(t) == [grants |-> t.grants, security |-> t.security, unvalidated |-> unvalidatedChecks(t)]

\* readIdentityColumns: the options of each identity's sequence, and not its
\* position.
readIdentityColumns(t) ==
    [c \in {d \in DOMAIN t.cols : t.cols[d].attr = "identity"} |-> t.seqs[c].max]

handoffIdentities(t, shadow) ==
    Restrict(readIdentityColumns(t), DOMAIN readIdentityColumns(t) \cap DOMAIN shadow.cols)

\* The columns that are still the same on the shadow: a column dropped and
\* added again has a number past the source's.
sameColumns(t, shadow) ==
    {c \in DOMAIN t.cols \cap DOMAIN shadow.cols :
        \A i \in DOMAIN swap.ops : swap.ops[i].kind = "DropColumn" => swap.ops[i].column # c}

copyColumns(t, shadow) == {c \in sameColumns(t, shadow) : t.cols[c].attr # "generated"}

\* newBuiltShadow: the proof, of the source as it was read and the shadow.
newBuiltShadow(source, t, shadow) ==
    [source |-> t.oid, shadow |-> shadow.oid,
     sourceFingerprint |-> Introspect(source), targetFingerprint |-> Introspect(shadow),
     fidelity |-> readFidelity(source), shadowFidelity |-> readFidelity(shadow),
     identities |-> handoffIdentities(source, shadow), columns |-> copyColumns(t, shadow)]

-----------------------------------------------------------------------------
(* The shadow *)

\* f under the names m gives some of its names.
Renamed(f, m) ==
    LET to(n) == IF n \in DOMAIN m THEN m[n] ELSE n
    IN  [k \in {to(n) : n \in DOMAIN f} |-> f[CHOOSE n \in DOMAIN f : to(n) = k]]

\* CREATE TABLE ... (LIKE source INCLUDING ALL EXCLUDING IDENTITY): the server
\* names the clones of the indexes, and builds each of them valid, as it makes
\* each check.
createShadow(t) ==
    LET oids == {Resolved(t, n) : n \in RelNames(t)}
        clone(oid) == t.next + 1 + Cardinality({o \in oids : o < oid})
        names == [n \in RelNames(t) |-> Liked[clone(Resolved(t, n))]]
        made(o) == [o EXCEPT !.valid = TRUE, !.oid = IF @ = 0 THEN 0 ELSE clone(@)]
    IN  [t EXCEPT !.oid = t.next, !.next = @ + 1 + Cardinality(oids),
                  !.cols = [c \in DOMAIN @ |-> IF @[c].attr = "identity" THEN [@[c] EXCEPT !.attr = "plain"] ELSE @[c]],
                  !.cons = Renamed([n \in DOMAIN @ |-> made(@[n])], Restrict(names, KeyNames(t))),
                  !.idx = Renamed([n \in DOMAIN @ |-> made(@[n])], names),
                  !.security = NoSecurity, !.grants = 0, !.seqs = <<>>, !.stale = DOMAIN t.cols]

\* An identity column draws from the source's sequence until the swap.
applyIdentityDefaults(shadow, source) ==
    [shadow EXCEPT !.cols = [c \in DOMAIN @ |->
        IF c \in DOMAIN readIdentityColumns(source) THEN [@[c] EXCEPT !.default = "handoff"] ELSE @[c]]]

syncGrants(shadow, source) == [shadow EXCEPT !.grants = source.grants]

applyFidelity(shadow, source) ==
    [syncGrants(shadow, source) EXCEPT
                   !.security = source.security,
                   !.cons = [n \in DOMAIN @ |->
                               IF n \in unvalidatedChecks(source) THEN [@[n] EXCEPT !.valid = FALSE] ELSE @[n]]]

\* The shadow before the gated statement, and whether the statements that make
\* it find what the source was read to have.
Scaffolded == applyFidelity(applyIdentityDefaults(createShadow(live), swap.read), swap.read)

scaffoldFails ==
    \/ ~live.exists
    \/ ~(DOMAIN readIdentityColumns(swap.read) \subseteq DOMAIN live.cols)
    \/ ~(unvalidatedChecks(swap.read) \subseteq DOMAIN live.cons)

\* The retargeted statement runs; index names are the schema's, the source's
\* among them.
statementFails ==
    \E i \in DOMAIN swap.ops :
        LET op == swap.ops[i] IN
        \/ ~Accepts(Run(Scaffolded, SubSeq(swap.ops, 1, i - 1)), op)
        \/ op.kind = "AddConstraint" /\ Key(op.def) /\ op.name \in RelNames(live)

Built == Run(Scaffolded, swap.ops)

\* A USING expression the copy cannot carry: of the key, or one the server does
\* not hold immutable.
columnConversions == \E i \in DOMAIN swap.ops : swap.ops[i].using /\ swap.ops[i].column = swap.key

probeConversions == ~scenario.immutable /\ \E i \in DOMAIN swap.ops : swap.ops[i].using

requiresAValueTheCopyCannotGive(col) ==
    col.notNull /\ col.default = "none" /\ col.attr \notin {"identity", "generated"}

refuseUnfillableReadds(t, shadow) ==
    \E c \in (DOMAIN t.cols \cap DOMAIN shadow.cols) \ sameColumns(t, shadow) :
        \/ c = swap.key
        \/ c \in DOMAIN readIdentityColumns(swap.read)
        \/ requiresAValueTheCopyCannotGive(shadow.cols[c])

refuseUnfillableNewColumns(t, shadow) ==
    \/ swap.key \notin sameColumns(t, shadow)
    \/ \E c \in DOMAIN shadow.cols \ sameColumns(t, shadow) : requiresAValueTheCopyCannotGive(shadow.cols[c])

refuseNewSequenceColumns(shadow) == shadow.seqs # <<>>

verifyIdentityDefaults(t, shadow) ==
    \A c \in DOMAIN handoffIdentities(t, shadow) : shadow.cols[c].default = "handoff"

buildRefusal ==
    IF refuseUnfillableReadds(live, Built) THEN "statement-readd"
    ELSE IF refuseUnfillableNewColumns(live, Built) THEN "statement-new-column"
    ELSE IF refuseNewSequenceColumns(Built) THEN "statement-new-sequence"
    ELSE IF ~verifyIdentityDefaults(swap.read, Built) THEN "identity-handoff"
    ELSE "none"

-----------------------------------------------------------------------------
(* Pairing the indexes *)

\* ORDER BY relname.
NameOrder == Names \o Liked \o Quarantine

nameRank(n) == CHOOSE i \in DOMAIN NameOrder : NameOrder[i] = n

entryOf(t, n) == IF n \in DOMAIN t.idx THEN t.idx[n] ELSE t.cons[n]

\* The default operator class of a column's type.
opclass(type) == IF type.name \in {"varchar", "text"} THEN "text" ELSE type.name

\* indexDefinition, relaxed across the retyped columns.
definition(t, n, retyped) ==
    [index |-> IndexDef(entryOf(t, n)),
     constraint |-> IF n \in KeyNames(t) THEN t.cons[n].kind ELSE "none",
     opclasses |-> [c \in entryOf(t, n).cols |-> IF c \in retyped THEN "" ELSE opclass(t.cols[c].type)]]

retypedColumns(t, shadow) ==
    {c \in DOMAIN t.cols \cap DOMAIN shadow.cols : t.cols[c].type # shadow.cols[c].type}

\* Equal definitions pair off in name order.
pairByDefinition(t, shadow) ==
    LET rank(u, n) ==
            Cardinality({m \in RelNames(u) : definition(u, m, {}) = definition(u, n, {}) /\ nameRank(m) < nameRank(n)})
    IN  {p \in RelNames(t) \X RelNames(shadow) :
            /\ definition(t, p[1], {}) = definition(shadow, p[2], {})
            /\ rank(t, p[1]) = rank(shadow, p[2])}

\* What is left pairs across the retyped columns, unless the relaxed
\* definition is shared.
pairRelaxed(t, shadow, exact) ==
    LET retyped == retypedColumns(t, shadow)
        left == RelNames(t) \ {p[1] : p \in exact}
        right == RelNames(shadow) \ {p[2] : p \in exact}
        alone(u, S, n) == \A m \in S : definition(u, m, retyped) = definition(u, n, retyped) => m = n
    IN  {p \in left \X right :
            /\ definition(t, p[1], retyped) = definition(shadow, p[2], retyped)
            /\ alone(t, left, p[1]) /\ alone(shadow, right, p[2])}

pairIndexes(t, shadow) ==
    LET exact == pairByDefinition(t, shadow) IN exact \cup pairRelaxed(t, shadow, exact)

\* A source constraint's name that another constraint of the shadow holds.
constraintNamesTaken(shadow, pairs) ==
    \E p \in pairs : p[2] \in KeyNames(shadow) /\ p[1] \in DOMAIN shadow.cons \ {q[2] : q \in pairs}

-----------------------------------------------------------------------------
(* The gate and the swap *)

\* The facts of a table that are no longer what the build read.
fidelityDrift(was, now) == {fact \in DOMAIN was : was[fact] # now[fact]}

confirmFidelity(proof) ==
    /\ fidelityDrift(proof.fidelity, readFidelity(live)) = {}
    /\ fidelityDrift(proof.shadowFidelity, readFidelity(swap.shadow)) = {}
    /\ live.grants = swap.shadow.grants

confirmIdentities(proof) ==
    /\ \A c \in DOMAIN proof.identities : swap.shadow.cols[c].default = "handoff"
    /\ handoffIdentities(live, swap.shadow) = proof.identities

\* gateCutoverTx.
gateRefusal ==
    LET proof == swap.proof  shadow == swap.shadow IN
    IF live.oid # proof.source \/ shadow.oid # proof.shadow \/ ~live.exists THEN "relation-replaced"
    ELSE IF \E n \in DOMAIN shadow.idx : ~shadow.idx[n].valid THEN "index-invalid"
    ELSE IF Introspect(live) # proof.sourceFingerprint \/ Introspect(shadow) # proof.targetFingerprint THEN "schema-drift"
    ELSE IF ~confirmFidelity(proof) \/ ~confirmIdentities(proof) THEN "fidelity-drift"
    ELSE IF swap.old.exists \/ constraintNamesTaken(shadow, pairIndexes(live, shadow)) THEN "name-taken"
    ELSE "none"

carrySequenceGrants(from, to) == [to EXCEPT !.grants = from.grants]

\* Mutant: the identity goes on from where the gate found it.
HandOffAsGated(t, c, to) ==
    carrySequenceGrants(t.seqs[c],
        Retyped(Sequence(swap.proof.identities[c], swap.gated.seqs[c].last), t.cols[c].type, to))

\* An identity is declared anew with the options the build read, the bound it
\* took from its type moved to the new one, and given the grants and the
\* position of the sequence it replaces.
handOffIdentity(t, c, to) ==
    carrySequenceGrants(t.seqs[c],
        Retyped(Sequence(swap.proof.identities[c], t.seqs[c].last), t.cols[c].type, to))

\* Any other owned sequence is owned by the live column.
handOffSequences(t, shadow) ==
    [c \in DOMAIN t.seqs \cap DOMAIN shadow.cols |->
        IF c \in DOMAIN swap.proof.identities THEN handOffIdentity(t, c, shadow.cols[c].type) ELSE t.seqs[c]]

\* renameForSwap and the handoff, of the source t at the end of the transaction.
renameForSwap(t) ==
    LET shadow == swap.shadow
        names == [m \in {p[2] : p \in swap.pairs} |-> (CHOOSE p \in swap.pairs : p[2] = m)[1]]
    IN  [shadow EXCEPT
            !.cons = Renamed(@, Restrict(names, DOMAIN names \cap KeyNames(shadow))),
            !.idx = Renamed(@, names),
            !.cols = [c \in DOMAIN @ |-> IF c \in DOMAIN swap.proof.identities
                                          THEN [@[c] EXCEPT !.attr = "identity", !.default = "none"] ELSE @[c]],
            !.seqs = handOffSequences(t, shadow), !.next = t.next]

-----------------------------------------------------------------------------
(* The run *)

OnlyRun == UNCHANGED <<scenario, live, tx, x, builders, moves>>

Ends(err) == swap' = [swap EXCEPT !.pc = "returned", !.err = err]

\* What a run leaves to the next one.
AtRest(run) == [NoRun EXCEPT !.shadow = run.shadow, !.old = run.old, !.row = run.row]

StartRunner(ops, restart) ==
    swap' = [AtRest(swap) EXCEPT !.pc = "preflight", !.ops = ops, !.restart = restart]

\* CheckCopySwap, which proves the target and its key column.
CheckCopySwap ==
    /\ swap.pc = "preflight"
    /\ OnlyRun
    /\ IF ~scenario.privileged THEN Ends("insufficient-privileges")
       ELSE IF preflightRefuses THEN Ends("copy-swap-preflight")
       ELSE swap' = [swap EXCEPT !.pc = "dispatch", !.target = live.oid,
                                 !.key = CHOOSE c \in KeyColumns(live) : TRUE]

\* What the catalog shows of the swap a cutover row records: readSwappedTable.
inspectSwapped(proof) ==
    IF ~live.exists \/ live.oid \notin {proof.source, proof.shadow} THEN "outcome-ambiguous"
    ELSE IF live.oid = proof.source THEN "not-swapped"
    ELSE IF swap.old.exists /\ swap.old.oid # proof.source THEN "relation-replaced"
    ELSE IF ~(DOMAIN proof.identities \subseteq DOMAIN readIdentityColumns(live)) THEN "swap-mismatch"
    ELSE "swapped"

\* A row, or a shadow no row records, that a restart discards: the shadow, the
\* hold on the source, the row.
discardRow ==
    IF swap.row.phase = "cutover" /\ inspectSwapped(swap.row.proof) # "not-swapped"
    THEN Ends(IF inspectSwapped(swap.row.proof) = "swapped" THEN "restart-swap-committed"
              ELSE inspectSwapped(swap.row.proof))
    ELSE swap' = [swap EXCEPT !.pc = "build", !.shadow = Nothing, !.row = NoRow]

\* A done row is replaced (RunOptions.ReplaceDone) unless the retained source
\* still stands.
replaceDoneRow ==
    IF swap.old.exists THEN Ends("resume-terminal")
    ELSE swap' = [swap EXCEPT !.pc = "build", !.row = NoRow]

\* InspectShadow and checkRowDescribes: the proof of what is there is the
\* row's, whole.
resumeOnRow ==
    LET proof == swap.row.proof
        found == inspectSwapped(proof)
    IN  IF swap.row.ops # swap.ops THEN Ends("resume-row-mismatch")
        ELSE IF swap.row.phase = "cutover" /\ found = "swapped"
        THEN swap' = [swap EXCEPT !.pc = "finish", !.proof = proof, !.landed = 1]
        ELSE IF swap.row.phase = "cutover" /\ found # "not-swapped" THEN Ends(found)
        ELSE IF recheckFails THEN Ends("error")
        ELSE IF ~swap.shadow.exists THEN Ends("resume-shadow-gone")
        ELSE IF ~verifyIdentityDefaults(live, swap.shadow) THEN Ends("identity-handoff")
        ELSE IF newBuiltShadow(live, live, swap.shadow) # proof THEN Ends("resume-shadow-drift")
        ELSE swap' = [swap EXCEPT !.pc = "copy", !.proof = proof]

dispatchRun ==
    /\ swap.pc = "dispatch"
    /\ OnlyRun
    /\ CASE swap.row.phase = "done" -> replaceDoneRow
         [] swap.row.phase # "done" /\ swap.restart -> discardRow
         [] swap.row.phase = "none" /\ ~swap.restart -> swap' = [swap EXCEPT !.pc = "build"]
         [] OTHER -> resumeOnRow

\* buildShadow reads the source in a transaction that holds no lock on it yet.
buildReads ==
    /\ swap.pc = "build"
    /\ OnlyRun
    /\ IF columnConversions THEN Ends("statement-conversion")
       ELSE IF recheckFails THEN Ends("error")
       ELSE IF swap.shadow.exists THEN Ends("shadow-unrecorded")
       ELSE swap' = [swap EXCEPT !.pc = "create", !.read = live]

\* LIKE takes its lock on the source, and the rest of the transaction runs
\* under it; the answer of its COMMIT may be lost.
buildShadow ==
    /\ swap.pc = "create"
    /\ UNCHANGED <<scenario, tx, x, builders, moves>>
    /\ IF scaffoldFails THEN Ends("error") /\ live' = live
       ELSE IF probeConversions THEN Ends("statement-conversion") /\ live' = live
       ELSE IF statementFails THEN Ends("error") /\ live' = live
       ELSE IF buildRefusal # "none" THEN Ends(buildRefusal) /\ live' = live
       ELSE /\ live' = [live EXCEPT !.next = Built.next]
            /\ \/ swap' = [swap EXCEPT !.pc = "save", !.shadow = Built, !.proof = newBuiltShadow(swap.read, live, Built)]
               \/ swap' = [swap EXCEPT !.pc = "returned", !.err = "error", !.shadow = Built]

FirstRow == [phase |-> "copying", ops |-> swap.ops, proof |-> swap.proof]

\* The first save; one that fails takes the shadow with it (unbuild), if the
\* server answers, and may have landed all the same.
startFresh ==
    /\ swap.pc = "save"
    /\ OnlyRun
    /\ \/ swap' = [swap EXCEPT !.pc = "copy", !.row = FirstRow]
       \/ \E undone, landed \in BOOLEAN :
             swap' = [swap EXCEPT !.pc = "returned", !.err = "error",
                                  !.shadow = IF undone THEN Nothing ELSE @, !.row = IF landed THEN FirstRow ELSE @]

\* The copy, the catch-up and the verification, or a data fault that abandons
\* the run.
fill ==
    /\ swap.pc = "copy"
    /\ OnlyRun
    /\ \/ swap' = [swap EXCEPT !.pc = "gate"]
       \/ swap' = [swap EXCEPT !.pc = "returned", !.err = "abandoned", !.shadow = Nothing, !.row = NoRow]

GateCutover ==
    /\ swap.pc = "gate"
    /\ OnlyRun
    /\ IF gateRefusal # "none" THEN Ends(gateRefusal)
       ELSE swap' = [swap EXCEPT !.pc = "lock", !.row.phase = "cutover"]

lockForSwap ==
    /\ swap.pc = "lock" /\ TableLockFree
    /\ tx' = [NoTx EXCEPT !.held = "AEL"]
    /\ swap' = [swap EXCEPT !.pc = "swap"]
    /\ UNCHANGED <<scenario, live, x, builders, moves>>

\* Mutant: the shape is not checked again under the lock.
RegateOnly == gateRefusal

\* The shape and the gate again, under the lock.
regate == IF recheckFails THEN "error" ELSE gateRefusal

swapInTx ==
    /\ swap.pc = "swap"
    /\ UNCHANGED <<scenario, live, x, builders, moves>>
    /\ IF regate # "none" THEN tx' = NoTx /\ Ends(regate)
       ELSE /\ tx' = tx
            /\ swap' = [swap EXCEPT !.pc = "commit", !.gated = live, !.pairs = pairIndexes(live, swap.shadow)]

\* The relations after the swap has committed.
Committed == [swap EXCEPT !.shadow = Nothing, !.old = live, !.landed = 1]

\* The renames, the handoff and COMMIT, whose answer may be lost.
swapOnce ==
    /\ swap.pc = "commit"
    /\ tx' = NoTx
    /\ UNCHANGED <<scenario, x, builders, moves>>
    /\ \/ live' = renameForSwap(live) /\ \E pc \in {"finish", "resolve"} : swap' = [Committed EXCEPT !.pc = pc]
       \/ live' = live /\ swap' = [swap EXCEPT !.pc = "resolve"]

\* The backend may outlive the wait; otherwise the catalog answers.
resolveUnknownOutcome ==
    /\ swap.pc = "resolve"
    /\ OnlyRun
    /\ \/ Ends("outcome-ambiguous")
       \/ LET found == inspectSwapped(swap.proof) IN
          IF found = "swapped" THEN swap' = [swap EXCEPT !.pc = "finish"]
          ELSE Ends(IF found = "not-swapped" THEN "error" ELSE found)

\* The retained source dropped, or kept for a rollback, and the row done.
settle ==
    /\ swap.pc = "finish"
    /\ OnlyRun
    /\ swap' = [swap EXCEPT !.pc = "returned", !.err = "none", !.row.phase = "done",
                            !.old = IF scenario.keepOld THEN @ ELSE Nothing]

\* Any statement of the run that fails, a lock not granted in time, a lost
\* session: the row stays at its last save.
RunStops ==
    /\ swap.pc \notin {"idle", "returned", "resolve"}
    /\ Ends(IF swap.pc = "preflight" THEN "stopped" ELSE "error")
    /\ tx' = NoTx
    /\ UNCHANGED <<scenario, live, x, builders, moves>>

RunStep ==
    \/ CheckCopySwap \/ dispatchRun \/ buildReads \/ buildShadow \/ startFresh \/ fill
    \/ GateCutover \/ lockForSwap \/ swapInTx \/ swapOnce \/ resolveUnknownOutcome \/ settle \/ RunStops

\* The process dies: what is on its way to the server may still land.
RunDies ==
    \/ live' = live /\ swap' = AtRest(swap)
    \/ /\ swap.pc = "create" /\ ~scaffoldFails /\ ~probeConversions /\ ~statementFails /\ buildRefusal = "none"
       /\ live' = [live EXCEPT !.next = Built.next] /\ swap' = AtRest([swap EXCEPT !.shadow = Built])
    \/ /\ swap.pc = "save" /\ live' = live
       /\ swap' = AtRest([swap EXCEPT !.row = FirstRow])
    \/ /\ swap.pc = "commit"
       /\ live' = renameForSwap(live) /\ swap' = AtRest(Committed)

-----------------------------------------------------------------------------
(* Other sessions *)

\* A view, trigger, foreign key or publication comes to hang on the table.
OtherAttaches ==
    /\ Move("attach") /\ TableLockFree
    /\ live' = [live EXCEPT !.attached = {"views"}]

\* GRANT and REVOKE take no lock on the table.
OtherGrants == Move("grant") /\ live' = [live EXCEPT !.grants = @ + 1]

\* nextval takes no lock on the table either; the swap's rename of the sequence
\* makes it wait for the commit.
OtherDraws(c) ==
    /\ Move("nextval")
    /\ live' = [live EXCEPT !.seqs[c].last = @ + 1]

OtherAltersSequence(c) == Move("sequence") /\ live' = [live EXCEPT !.seqs[c].max = 4]

OtherAddsColumn(c) ==
    /\ Move("add-column") /\ TableLockFree /\ c \notin DOMAIN live.cols
    /\ live' = [live EXCEPT !.cols = Put(@, c, Column(Type("int", <<>>), FALSE, "none", "plain"))]

NeighboursStep ==
    \/ OtherAttaches \/ OtherGrants
    \/ \E c \in DOMAIN live.seqs : OtherDraws(c) \/ OtherAltersSequence(c)
    \/ \E i \in DOMAIN Columns : OtherAddsColumn(Columns[i])
=============================================================================
