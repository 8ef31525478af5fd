# pg-sprite: a TLA+ verification

pg-sprite changes the schema of a PostgreSQL table while clients keep writing
it. A statement, or the difference between the live table and a declaration, is
planned; what PostgreSQL can do without blocking is run natively; the rest is
done by copy-and-swap: the engine builds a shadow table with the new shape,
copies the source into it chunk by chunk, captures the writes made meanwhile
through logical decoding, verifies the shadow by checksum, and swaps the two
tables in one short transaction. This directory models both routes, checks them
with TLC on small instances, and proves part of them with TLAPS for every size.

## The system and its parts

| Part | State it owns | Operations | Interacts with |
|---|---|---|---|
| migrate (`pkg/migrate`), with `pkg/planner`, `pkg/router`, `pkg/schemadiff`, `pkg/diffplan` | a request's own: plan, acknowledgements, verdicts | run a statement, run a desired definition, recover, preview and execute row security | executor, runner, catalog |
| executor (`pkg/executor`) | none durable; PostgreSQL's catalog | bounded attempt, step sequence, creation, adoption, concurrent build and its recovery, row security, ANALYZE | server, other sessions |
| progress (`pkg/progress`) | the build under way | begin, poll, cancel, end | concurrent build |
| preflight (`pkg/preflight`) | none | admit a table and a server to copy-and-swap | migrate, shadow |
| shadow (`pkg/schemachange`: shadow, identity, grants, fidelity, dependents, cutover) | the shadow, its proof in the checkpoint row | build, inspect, gate, rename indexes, hand sequences over, drop | catalog, other sessions |
| runner (`pkg/schemachange`: runner*) | phase, fence, capture | dispatch, start fresh, resume, restart, reconcile, fill, verify, cut over, settle, abandon | all of the parts below |
| copier (`pkg/copier`, `pkg/internal/chunksql`) | chunker cursor, ledger, workers | cut, claim, copy in passes, settle, land, clear above, resume | shadow, applier (`Position`), checkpoint (watermark) |
| change buffer (`pkg/applier`: buffer, entry, drain, hold, requeue) | entries by key, old-key index, held completions, oldest position | Add, Drain, Hold, Release, Requeue | catch-up |
| catch-up and flusher (`pkg/applier`) | delivered and confirmed positions, batch in hand | gather, snapshot, drain, flush, confirm, pause | stream, copier, shadow |
| decoding (`pkg/decode`) | slot, publication, stream position | create, replace, drop, open, confirm, mark WAL | server, catch-up, runner |
| checkpoint (`pkg/checkpoint`) | one row per table, slot-name lock | Save, Load, Delete, WithSlotLock, ReapOrphanSlots | runner, reaper |
| table lock (`pkg/dbconn`) | advisory lock held by a session | acquire, confirm, lose, release | everything that writes |
| checksum (`pkg/checksum`) | sweep position, differing chunks | Check, CheckLive, settle, repair, recopy | shadow, catch-up |

What is hard about it: chunks land out of order; a transaction is in the WAL
before its rows are visible; a flush races the copier for the same key; a
unique value moves between rows; an update omits an unchanged TOAST column and
a key moves away before the column is filled in; an engine dies between any two
steps while its statements go on at the server; a slot is invalidated; the
table lock is lost silently; a COMMIT is sent and not answered; a concurrent
index build outlives its client; another session renames, replaces, grants or
attaches between a check and the commit that relies on it. The properties the
code must have are named in the repository's `docs/invariants.md` (CO-1 data
equality, CO-4 discard rule, CO-5, CO-6, CO-8, LK-1 to LK-4, ST-1 to ST-6, RF-2,
RF-10). `PROJECT.json` lists each hazard at its line, with the property that
covers it or the reason none does.

## Modules

The modules form two groups. The data path, one module per component:

**`CopyPosition`** is the contract between the copier and the rest: a key is
uncut, in flight or landed; keys are claimed in order with nothing left out;
what is saved is a prefix of landed keys that never shrinks; a run starts after
such a prefix. It has no chunk, worker, lock or transaction.

**`Copier`** models `pkg/copier` with its concurrent workers, and implements
`CopyPosition` (`MeetsContract`). The ledger's variables keep their names
(`cut`, `watermark`, `next`, `complete`, `inFlight`, `landed`, `partial`). Each
worker walks claim, hold, confirm, commit, settle, land. A chunk transaction
takes its lock on the shadow and then confirms the table lock, in two steps,
because other sessions act in between. A transaction whose client has gone
becomes a *straggler* that the server may still commit. A resumed run clears the
shadow above its watermark, the first batch behind the SHARE ROW EXCLUSIVE
fence. A row of the shadow is the number of the run that wrote it, which is all
that "stale" needs. A chunk's upper bound is any key, so the sizing feedback is
abstracted. Keys are the whole range `MinInt64 .. MaxInt64`, whose top is where
the successor wraps.

**`Buffer`** is the applier's buffer as a value and one operator per method:
`Add`, `Drain`, `Hold`, `Release`, `Requeue` and their helpers. A row has a
plain column `u`, which may be uniquely indexed, and a TOASTable one `t` that an
update may leave out (`Marker`). A value is in source form or, when it was read
from the shadow, in shadow form; `convert` tells the two apart.

**`Catchup`** puts the buffer in its cycle: gather, Release, snapshot, position,
Drain, flush, Hold or Requeue, confirm. Beside it run clients, whose
transactions are first in the WAL and only later visible, and an abstract
copier, in which a pass reads in one step and commits in another. That copier
implements `CopyPosition` too, so what is checked of the catch-up relies on the
positions `Copier` really gives. A restart resumes from any watermark saved and
any position confirmed. Transactions are numbered without bound.

**`Snapshot`** is the other half of visibility: the stream carries the low 32
bits of a transaction id, and `lift` widens them around the snapshot's xmax
before `Visible` compares them.

**`Checksum`** is one pass, quiesced or live, with its policies (abort, repair,
recopy): the sweep, the settle rounds against the confirmed position, the repair
under the fence with flushes paused, the sweep after a repair, and every
outcome. A digest is the chunk's rows, so the hash is taken to be injective.

**`Runner`** composes the checkpoint row, the table lock, the slot with its name
lock and reaper, the shadow, the write fence and the cutover into one schema
change, run by one or more engines on both routes (live with a slot, quiesced
with a fence). The table is a few *parts*, and a part's content is the WAL
position of its last write. A chunk, a flush and any other transaction made
under the table lock is one step here; their interior is `Copier`'s and
`Catchup`'s. Three things are split because the code splits them: a save
confirms the lock and then commits; a swap confirms the lock, then waits for
ACCESS EXCLUSIVE, then drains and renames, and only the server decides the
commit; slot commands never look at the table lock. `CheckLive` is abstracted
to its verdict. Besides clients, the table's owner acts: they disable the fence, or
write past it and put it back. `KeepOld` is chosen at settlement rather than at the start,
which gives the same behaviours with fewer states.

The catalog path, where each module extends the one before and adds its
variables and steps:

**`Schema`** is one table as `pkg/schemadiff` sees it (columns, constraints,
indexes, sequences, grants, policies, each with an identity), the operations of
`pkg/statement`, what PostgreSQL does with each, and `Diff`. A definition the
code compares as text is a member of a small set: two are equal exactly when
the server would print them equal. **`Planner`** classifies a statement
operation by operation, rewrites it into an online sequence where there is one,
and routes it; pure operators. A type has the two spellings the code compares,
the grammar's (`typeRef`) and the catalog's (`formatType`), and `parseTypeText`
takes the second to the first where `catalogTypeName` does. **`Executor`** runs the steps
of one statement, each a bounded attempt in its own transaction with its checks
under the lock, beside other sessions that take the locks PostgreSQL makes them
take. **`IndexBuild`** adds the concurrent build in a backend that outlives its
client, the judgement of what it left, quarantine and recovery, and the
operator's cancel. **`RowSecurity`** adds the policy change that is previewed,
reviewed and executed. **`Shadow`** adds copy-and-swap as the catalog sees it:
preflight, `CREATE TABLE ... LIKE`, the statement on the shadow, the proof the
row keeps, the inspections of a rerun, the gate before and under the lock, the
pairing and renaming of indexes across retyped columns, the hand-off of
sequences, the settlement. **`Migrate`** adds the front doors: a scenario is a
list of requests for the same table, so that a rerun meets what an earlier
request, or its dead process, left.

**`CatchupProofs`**, **`CopierLedgerProofs`**, **`CopierProofs`**,
**`ChecksumProofs`**, **`RunnerInvariant`**, **`RunnerStepProofs`**,
**`RunnerFillProofs`** and **`RunnerProofs`** hold the theorems and their lemmas;
**`MCCopier`**, **`MCCatchup`**, **`MCChecksum`**, **`MCRunner`**, **`MCMigrate`**
the definitions TLC's instances need.

Definitions introduced by a comment "Variant" are deliberately wrong versions of
the definition below them (a dropped guard, an off-by-one). No specification
uses them; with one substituted, TLC must find the property it belongs to
violated, which shows the property is about that code.

## Runs

| Run | Shows | Distinct states |
|---|---|---|
| `copier` | two workers, passes around collisions, failures, two runs with stragglers: a landed key is covered, no stale row stands above a watermark, what is saved is present, finish never refuses, every run returns, and the copier implements `CopyPosition` | 84,978 |
| `catchup` | two transactions under a unique index beside the copy, three after it, a restart anywhere, a transaction of two changes: a landed key with nothing pending equals its source row, only landed keys are flushed, confirmed positions are safe, no protocol error, and its copier implements `CopyPosition` | 711,681 |
| `catchup_live` | convergence, under fairness | 18,030 |
| `checksum` | every policy, live and quiesced, over shadows that are right, lag, miss a row or have a wrong one: a clean pass is right, a divergence is real, every pass ends | 701,843 |
| `runner` | one engine run again on both routes, two mishaps (a silently lost lock session among them), one write, two statements, restart and reaper: the live table holds every write, the checksum of a live run finds nothing, a swap and a watermark are recorded honestly, the reaper spares live slots, done is what was asked | 841,354 |
| `migrate` | 664 scenarios: verdicts are honest; a plan converges the table and its leftovers are resumed; the native route never blocks; a step commits on the object it checked; quarantined entries are dead; a failed build leaves nothing; a cancel hits its build; nothing is discarded unacknowledged; a swap delivers what the statement would have made and strands nothing of others | 609,546 |

and six runs in which a statement of the repository does not hold:

* `catchup_cannot_converge`: row 1 moves to key 3, then row 2 moves to key 1
  leaving its TOAST column unchanged, in one gather. The image of key 1 is held
  back for completion, so the old shadow row 1 keeps the unique value that key 3
  now needs. The flush is refused although the copy has landed, and the run ends
  with "cannot converge".
* `runner_stale_save`: the lock's confirmation in `Save` is a read, so an engine
  that loses its lock between it and the commit overwrites the row of its
  successor.
* `runner_lost_lock`: a swap waiting for its lock survives the loss of its lock
  session *and* of its slot while another engine reconciles onto a new slot of
  the same name; the drain then starts at the new slot's later position. The
  three events must coincide; with a single engine (run `runner`), a lost lock
  session included, the property holds.
* `checksum_toggle`: a row that changes and changes back between the two reads
  makes both digests equal the earlier ones while the shadow only lags, and a
  divergence is reported. It fails closed.
* `adopted_index`: a constraint that adopts an index reads it under ACCESS
  EXCLUSIVE on its table, which `adopt_index.go:38-43` says keeps the index from
  changing until the commit. `ALTER INDEX ... RENAME` takes no lock on the table,
  as `rename_index.go:40-44` says, so another session that exchanges the names of
  two indexes makes the constraint take the one nobody checked.
* `rerun_unfinished`: a change of `text` to `varchar(n)` whose swap committed
  before its process died is run again as the documentation says. The planner
  reads the swapped table, the type is already the new one, the statement is
  executed natively as a relabel, and the row at cutover, the retained source and
  the slot are left behind. It takes a type the grammar and the catalog end up
  spelling alike (`varchar`, `text`, `numeric`). A change to `bigint` is not
  affected: the statement says `int8` and the catalog `bigint`, the two never
  match, and the rerun goes back to copy-and-swap, which finishes the row.

### Smaller observations

Met while modelling. Each is a condition or an exemption in a property, or an
exclusion in a scenario, so that the property states what does hold.

* A CREATE TABLE that committed under an owner other than the expected one is
  reported as rolled back: `createFailureDetail` (`migrate/desired.go:456-476`)
  knows two of the three errors that follow the commit. `VerdictIsHonest` excepts
  the third.
* `docs/execution-model.md:240-248` finishes a SET NOT NULL sequence by dropping
  its leftover scaffold, "no force needed"; a DROP CONSTRAINT is refused unless
  the operator acknowledges a destructive change (RF-10), and so is a desired
  plan that contains one. `LeftoversAreResumed` has that case.
* A first save that landed but whose reply was lost, or a slot connection that
  fails to close afterwards, makes the fresh start drop the slot and the shadow
  that the row records, although `runner_live_dispatch.go:29` says that with a row
  that landed both stay. `Runner` has these steps; no data is lost, and the next
  run refuses to resume.
* `runner.go:179-181` says that the table's owner can disable the write fence of a
  quiesced run, write, and put the fence back between the verification and the
  swap, "and that write is not seen". `WritePastFence` is that step. An engine
  remembers the parts so written since it verified (`unseen`), the swap that
  commits passes them on to `used.lost`, and `LiveTableHoldsEveryWrite` excepts
  those parts and no others. Without the exemption TLC finds the documented loss.
  A fence that is disabled and left so (`DisableFence`) is covered: the swap
  refuses.
* The recovery of an abandoned index verifies a quarantined entry by its OID and
  then drops by name, with no lock on either (`recover.go:549-573`;
  `ReverifyEntry`, `DropEntry`). Another session that renames a valid index onto
  the quarantine name in between loses it; the check after the drop notices, too
  late, and reports the entry as unproven. `DiscardsNothing` covers the drop except
  after such an exchange of names.
* A swap that committed but could not be confirmed is reported with the outcome
  refused, which `verdict/verdict.go:58` describes as not executed; the reason
  tells them apart, and `VerdictIsHonest` reads it.
* `GRANT`, `REVOKE`, `ALTER SEQUENCE` and `ALTER INDEX RENAME` need no lock on
  the table, so one that lands between the gate's read under the lock and the
  swap's commit is lost. `SwapDelivers` compares with what the gate read.
* A change of the source that is undone after the shadow was built from it
  passes the gate.
* Indexes with identical definitions pair in name order, and on a retyped column
  keep generated names; `SwapDelivers` exempts the names of such indexes.
* The recheck of the preflight does not compare the key column with the one the
  row was proved with.

### Bounds

Three keys are enough for a move, a reuse and a bystander, and for a middle
chunk to land last. Three transactions chain two moves through one key with a
completion pending. Three passes are what it takes for a chunk to settle around
a pending key and still land. Two parts give a landed and an unlanded one at
every crash. Two mishaps allow a crash during the recovery from another (a crash
inside a reconcile that a lost slot caused). One write suffices for a lost
write; an instance with two (3,962,806 states) was checked as well and holds.
`MaxOID = 3` gives a second shadow after a restart. In `Checksum`, two writes
give a change that reaches the source before a read and the shadow after it, and
two attempts a settled and an unsettled round. In `Migrate` a scenario has at
most two kinds of disturbance, each once and at any moment, three requests, and
two lock attempts; three columns and eight names let every rename, reuse and
pairing happen.

Deadlock checking is off where a copy that has returned, a catch-up that ended
in an error, a pass that is done and a list of requests that is served really
stop; it is on in `catchup_live` and in the runs of `Runner`. `MCRunner.cfg`
declares the statements symmetric: the runner only compares them for equality.

### Fairness

`copier` assumes that a worker, a clear and a straggler that can step do so:
every transaction runs under `statement_timeout` and `lock_timeout`.
`catchup_live` assumes weak fairness for the copier, visibility and the steps of
a begun cycle, and strong fairness for delivery and for the snapshot with which
a cycle goes on to flush: a gather lasts its whole `Interval` and reads what the
stream has, and a `Pause` is given back by its holder, so a cycle that could
flush is not passed over forever.
`checksum` assumes weak fairness for the pass's own steps only: neither clients
nor the catch-up need move, since the waits for the stream are bounded by an
attempt count. Nothing is assumed of clients, crashes or restarts.

## What is proved

For every value of the constants, under the assumptions named beside them. Each
argument is an inductive invariant, which TLC checked on small instances first.
A proof leaf names its backend where one of the two is much the quicker.

### The change buffer and the catch-up (`CatchupProofs`)

For any set of integer keys with a least and a greatest one, any positive unique
values, any initial table, any number of workers, transactions and restarts, and
with or without a unique index, under the assumptions of `Buffer` and `Catchup`:

* `CatchupTypeCorrect`: `Spec => []TypeOK`, including `slot <= confirmed <=
  delivered <= Len(wal)` and `from <= watermark <= cut`.
* `BufferAlwaysCoherent`: `Spec => []BufferCoherent`. The old-key index holds
  exactly the images that left each key, a pending completion belongs to an
  image, and `oldest` is the least first position of the entries.
* `ConfirmIsSafe`: `Spec => []ConfirmedBelowUnapplied` (ST-4).
* `PositionMeetsContract`: `Spec => MeetsContract`. The copier of `Catchup`
  implements `CopyPosition`, restarts included.
* `LiftIsExact` and `VisibleIsExact`, about module `Snapshot` with ids of 32 bits
  and every pair of 64-bit ids: an id less than half an epoch from the snapshot's
  xmax is widened to itself, across either epoch boundary, and what `Visible`
  answers from the low bits is what the server's snapshot rule answers for the
  whole id.

The first three follow from `Invariance`, `Spec => []IInv`.
`ConfirmedBelowUnapplied` is not inductive: an entry leaves the buffer in a
drain, travels in the batch and may come back, and its position is compared with
`oldest`, which the buffer keeps. `IInv` therefore conjoins `TypeOK`;
`ChunksAbove`, which puts every claimed chunk between the watermark the run
resumed from and the cut; and `Owed`, which says that the buffer is coherent,
that every entry in the buffer or in the batch was first delivered at a position
no lower than `confirmed`, and that there is a batch only while a flush is under
way. The buffer's part of each step is a lemma stated for any buffer
(`PutSound`, `AddSound`, `DrainSound`, `HoldSound`, `ReleaseSound`,
`RequeueSound`, ...).

The mapping of `MeetsContract` takes a key's state from `Classify`, the run's
number from the restarts and what is saved from the watermark the run resumed
after; one lemma per step shows a step of the contract or a stutter. `IInv` is
not enough: that a pass's commit only lands keys needs to know that a chunk owes
keys of its own range only and holds rows of keys it owes only (`ChunksOwn`),
and that a restart resumes after landed keys needs every key up to the watermark
to be owed by no chunk (`BelowWatermark`).

### The copier (`CopierLedgerProofs`, `CopierProofs`)

For any interval of keys, any number of workers, passes, runs and stragglers,
under `KeySpace`, `LimitsAssumption` and `FromAssumption`:

* `LandedKeysAreCovered`: `Spec => []LandedIsCovered`. A key that counts as
  landed has been read by a committed pass.
* `FinishNeverRefuses`: `Spec => []NeverRefuses`. A copy that stops without an
  error has landed the whole key space.
* `CopierMeetsContract`: `Spec => MeetsContract`. The ledger and its workers
  implement `CopyPosition`.
* `NoStaleRowEver`: `Spec => []NoStaleRow`. Above the watermark a run resumed
  after, no row is an earlier run's.
* `SavedRowsStay`: `Spec => []SavedIsPresent`.

`CopierInvariance` proves `Inv`: the ledger's `Tiling` (claimed and landed chunks
tile the keys between the watermark and the frontier, and the watermark has
absorbed all it can) and `Coverage`; `Working` (each worker has a chunk of its
own, in flight until it lands, and owes what the ledger says it owes);
`Claiming` (one worker cuts at a time, from where the frontier is). The step that
advances the watermark through the landed chunks is an argument over the finite
set of those chunks. `ShadowInvariance` adds the rows: `StragglersOK` says which
transactions of earlier runs can still commit once the fence has been held, and
`RowsOK` what is in the shadow because of it.

### The checksum (`ChecksumProofs`)

For any table, watermark, number of attempts and set of scenarios, under
`BoundsAssumption` and `ScenariosAssumption`:

* `ProofsAreSound`: `Spec => []PassIsSound`. A pass that vouches for the shadow
  is right for every key through the watermark.
* `DivergenceIsNeverGuessed`: `Spec => []DivergenceIsReal`, when no scenario of a
  live pass sets a row back to a value it held. Run `checksum_toggle` violates the
  property without that condition.

`PassInvariance` proves `PInv`. Of the world it says that a key whose value
differs between two positions changed in between (`Recorded`) and that the
stream mends what it touches and confirms what it applied (`StreamOK`). Of the
pass: every key compared so far is right, or pending, or found, or given up
(`Accounted`); what a reread showed is still so when it is judged
(`JudgedRight`), which rests on the wait for the first read's marker; and the
rows a recopy put back are the source's or the stream's to mend (`CopiedRight`).
`Honest` carries the second theorem.

### The runner (`RunnerInvariant`, `RunnerStepProofs`, `RunnerFillProofs`, `RunnerProofs`)

For any number of parts, statements, writes, relations, mishaps and engines,
under `RunnerBounds` and two hypotheses. `OneAtATime`: no lock session is lost, or
there is only one engine. It is what the table lock is there for, and it is needed:
run `runner_lost_lock` has two engines and one lost session, and violates
`LiveTableHoldsEveryWrite`. `FenceKept`, of every step: nobody disables the fence,
writes and puts it back, the case `runner.go:179-181` excludes. Fences that are
disabled and left so are among the mishaps. With `S` for
`Spec /\ [][FenceKept]_vars`:

* `NoWriteIsLost`: `S => []LiveTableHoldsEveryWrite`.
* `LiveShadowIsComplete`: `S => []VerifyFindsNothing`.
* `SwapLeavesItsRecord`: `S => []SwapIsRecorded`.
* `WatermarkIsCopied`: `S => []RowIsHonest`.
* `DoneIsDone`: `S => []DoneIsWhatWasAsked`.
* `ReaperIsSafe`: `S => ReaperSparesLiveSlots`, an action property.

All six follow from one invariant, `Inv`. None of them is inductive: whether a
swap loses a write depends on what the engine that asked for it verified, that on
what its stream has applied, that on the position its slot was created at, and
that on the row a crashed run left. `Inv` says of the database (`DatabaseOK`) that
the saved row's shadow has, through its watermark, every part, each right or
still to come from the slot (`RowOK`), and that a swap on the server carries
what clients wrote; of the engines that at most one is at work (`OneWorks`); and
of an engine, by where it stands (`EngineOK`): the saved row is its own or the
one before it (`RowIsOurs`, `PhaseFits`), its row describes the catalog
(`WorkOK`), what its stream has not applied is all the shadow lacks (`StreamOK`,
`RecopyOK`), what it is about to save is already true (`CopyOK`), a verified
quiesced shadow is the source while the fence stands (`QuietOK`), and the locks
it counts on are held (`LocksOK`). Under `FenceKept` no part is ever exempt, so
the invariant asks for the live table to be exactly what clients wrote
(`LiveTableIsTruth`).

`RunnerInvariant` has the invariant and the lemmas about steps that touch little of
it; `RunnerFillProofs` the steps that fill the shadow, set the fence or make and
move the slot (build, copy, clear, reconcile, apply, confirm);
`RunnerStepProofs` most of the others (mishaps, the reaper, the resume, the saves,
the gate, the settlement); `RunnerProofs` the swap, the client's write and the
theorems.

### Only model-checked

* All liveness: `RunReturns`, `Converges`, `PassEnds`. Fairness and
  `ENABLED` are outside what the provers handle.
* `InSync`, `FlushOnlyLanded` and `NoProtocolError` of `Catchup`. What the batches
  make of the shadow is a replay over sequences, and needs induction over data,
  which the provers cannot do.
* The catalog path (`Schema` to `Migrate`). Its properties are about what pure
  operators compute for a table and a statement; TLC enumerates those.
* `Runner` with several engines and lost lock sessions, where the properties that
  fail are the violation runs above, and with writes past the fence, for which run
  `runner` checks that only the documented parts are lost.

No module uses recursive operators.

## Not modelled

* Text: parsing, deparsing, rendering, reports, lint, suggestions, flags and exit
  codes. Their inputs and outputs are members of small sets where a property
  needs them.
* Connections: set-up, TLS, pools. A lost connection is a step of the models that
  hold one; a pool too small for the build's sessions is an input of a scenario.
* The interior of a flush. It is one transaction and one step of `Catchup`, so a
  flush that outlives its engine is not there, and the holder of the Pause gate
  appears only in `Checksum`.
* The wire protocol: message parsing and keepalive timing of the stream; the
  ping and the order of notifications of the table-lock monitor, whose loss is
  noticed at any later step.
* Numbers without control: chunk sizing, progress percentages, disk estimates
  beyond their boundary.
* Catalog objects the code treats like one that is modelled: extended statistics,
  storage parameters, comments, statistics targets, domain fills, publications,
  the renaming of the retained source's dependents, format versions of the
  checkpoint row, and the pin of a plan that creates an absent table.
* Engines, locks and slots inside `Shadow`: a swap whose reply is lost and that
  commits late is a behaviour of `Runner`.

`PROJECT.json` gives the status and the reason for each part.
