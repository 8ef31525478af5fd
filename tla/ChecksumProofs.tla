--------------------------- MODULE ChecksumProofs ---------------------------
(***************************************************************************)
(* A pass that vouches for the shadow is right, and what a live pass calls *)
(* divergent is, for every table, watermark, policy and history of the     *)
(* source, and any interleaving of the pass, its repairs and the catch-up. *)
(***************************************************************************)
EXTENDS Checksum, TLAPS

\* The rows of a chunk, and what a pass remembers of one.
RowsType == UNION {[S -> Int] : S \in SUBSET Keys}

Observation ==
    [lo : Int, hi : Int, source : RowsType, shadow : RowsType, lsn : Nat, real : BOOLEAN]

Fields ==
    {"pc", "lower", "differing", "i", "prior", "now", "rereads", "mismatches", "unsettled", "repairing",
     "copied", "attempt", "outcome"}

\* A record of these fields, and their types.
PassRecord(w) == w = [f \in Fields |-> w[f]]

PassType(w) ==
    /\ w.lower \in Nat /\ w.i \in Nat /\ w.unsettled \in Nat /\ w.repairing \in BOOLEAN
    /\ w.prior \in Observation /\ w.now \in Observation
    /\ w.differing \in Seq(Observation) /\ w.mismatches \in Seq(Observation)
    /\ w.copied \in RowsType

WorldType ==
    /\ scenario \in Scenarios
    /\ history \in Seq([Keys -> Int]) /\ Len(history) >= 1
    /\ shadow \in [Keys -> Int] /\ oid \in {1, 2}
    /\ applied \in [Keys -> 1 .. Len(history)]
    /\ confirmed \in 1 .. Len(history)

\* A key that holds another value than it did has changed in between.
Recorded ==
    \A k \in Keys : \A a, b \in 1 .. Len(history) :
        a <= b => history[a][k] = history[b][k] \/ Changes(k, a, b)

\* The stream repairs whatever it touches, and confirms what it has applied.
StreamOK ==
    /\ oid = 1 => \A k \in Keys : applied[k] > 1 => ~Differs(k)
    /\ \A k \in Keys : ~Changes(k, applied[k], confirmed)

\* The source never sets a row back to a value it held.
NeverReturns ==
    \A k \in Keys : \A a, b \in 1 .. Len(history) :
        a <= b /\ history[a][k] = history[b][k] => ~Changes(k, a, b)

WorldInv == WorldType /\ Recorded /\ StreamOK /\ (scenario.writes # "toggle" => NeverReturns)

\* The observation was read from the source at or before its marker.
ReadBy(o, m) ==
    \E p \in 1 .. m : p <= Len(history) /\ o.source = Rows(history[p], o.lo, o.hi)

sweeping == {"sweep", "mark"}
settling == {"settle", "await", "reread", "judge"}
rereading == {"await", "reread", "judge"}
recopying == {"delete", "copy", "commit"}

Pending(w, k) == \E n \in w.i .. Len(w.differing) : w.differing[n].lo <= k /\ k <= w.differing[n].hi

Found(w, k) == \E n \in DOMAIN w.mismatches : w.mismatches[n].lo <= k /\ k <= w.mismatches[n].hi

\* Where the pass is: what it has to hand there.
PassShape(w) ==
    /\ w.pc \in settling \cup {"mark"} => scenario.live
    /\ scenario.live \/ (w.unsettled = 0 /\ w.differing = <<>>)
    /\ w.outcome # "none" => w.pc = "done"
    /\ w.pc = "start" => w = NewPass
    /\ w.i >= 1 /\ w.lower >= 1
    /\ w.pc \in sweeping => w.i = 1
    /\ w.pc = "decide" => w.i > Len(w.differing)
    /\ w.repairing => w.pc \in settling
    /\ w.pc = "recheck" => ~scenario.live
    /\ w.pc \in {"delete", "copy"} => w.mismatches # <<>>
    /\ w.pc = "copy" => w.i <= Len(w.mismatches)

\* What it has read: the chunks, and that each read of the source was made at or
\* before its marker.
PassReads(w) ==
    /\ w.pc = "mark" => w.now.lo = w.lower /\ w.now.hi \in w.lower .. through /\ w.now.source # w.now.shadow
    /\ w.pc = "judge" => w.now.lo = w.prior.lo /\ w.now.hi = w.prior.hi
    /\ w.pc \in {"mark", "judge"} => ReadBy(w.now, Len(history))
    /\ w.pc \in rereading => /\ w.i <= Len(w.differing)
                             /\ w.prior.lo = w.differing[w.i].lo /\ w.prior.hi = w.differing[w.i].hi
    /\ w.pc \in sweeping \cup settling =>
          w.repairing \/ \A n \in DOMAIN w.differing : ReadBy(w.differing[n], w.differing[n].lsn)
    /\ w.pc \in rereading => w.repairing \/ ReadBy(w.prior, w.prior.lsn)
    /\ w.pc = "reread" => confirmed >= w.prior.lsn

\* A key compared so far is right, is to be settled or repaired, or was given up.
Accounted(w) ==
    /\ w.pc \in sweeping => \A k \in 1 .. w.lower - 1 : k \in Keys =>
          ~Differs(k) \/ Pending(w, k) \/ Found(w, k) \/ w.unsettled > 0
    /\ w.pc \in settling \cup {"decide"} => w.repairing \/ \A k \in 1 .. through :
          ~Differs(k) \/ Pending(w, k) \/ Found(w, k) \/ w.unsettled > 0
    /\ w.pc \in recopying => \A k \in 1 .. through : ~Differs(k) \/ Found(w, k) \/ w.unsettled > 0
    /\ w.pc = "recheck" \/ w.repairing => \A k \in 1 .. through : ~Differs(k) \/ w.unsettled > 0

\* What a reread showed is still so when it is judged.
JudgedRight(w) ==
    w.pc = "judge" => w.repairing \/ \A k \in w.prior.lo .. w.prior.hi : k \in Keys =>
        \/ ~Differs(k)
        \/ w.now.shadow[k] # w.now.source[k] /\ w.now.shadow[k] # w.prior.source[k]

\* The rows a recopy has put back are the source's, or the stream's to mend.
CopiedRight(w) ==
    w.pc \in {"copy", "commit"} =>
        /\ \A k \in DOMAIN w.copied : w.copied[k] = source[k] \/ Owed(k)
        /\ \A n \in DOMAIN w.mismatches : w.pc = "commit" \/ n < w.i =>
              \A k \in Keys : w.mismatches[n].lo <= k /\ k <= w.mismatches[n].hi => k \in DOMAIN w.copied

\* What the pass vouches for is so.
Vouched(w) == w.outcome \in {"proved", "repaired", "recopied"} => \A k \in 1 .. through : ~Differs(k)

PassSound(w) == oid = 1 => Accounted(w) /\ JudgedRight(w) /\ CopiedRight(w) /\ Vouched(w)

\* A reread that finds what was there before has caught a row nobody will mend,
\* and so has every mismatch of a live pass.
Honest(w) ==
    scenario.live /\ scenario.writes # "toggle" =>
        /\ w.pc = "judge" /\ w.now.source = w.prior.source /\ w.now.shadow # w.now.source
              => w.repairing \/ w.now.real
        /\ \A n \in DOMAIN w.mismatches : w.mismatches[n].real

PassOK(w) == PassRecord(w) /\ PassType(w) /\ PassShape(w) /\ PassReads(w) /\ PassSound(w) /\ Honest(w)

PInv == WorldInv /\ PassOK(v)

-----------------------------------------------------------------------------
(* Chunks and observations *)

\* No rows are the rows of an empty chunk.
LEMMA EmptyRows == <<>> \in RowsType /\ DOMAIN <<>> = {}
<1>1. <<>> = [x \in {} |-> 0]
  OBVIOUS
<1> QED  BY <1>1, Zenon DEF RowsType

\* The rows of a chunk are those of its keys.
LEMMA RowsAre ==
    ASSUME NEW t \in [Keys -> Int], NEW lo \in Int, NEW hi \in Int
    PROVE  /\ Rows(t, lo, hi) \in RowsType
           /\ DOMAIN Rows(t, lo, hi) = {j \in Keys : lo <= j /\ j <= hi}
           /\ \A k \in Keys : lo <= k /\ k <= hi => Rows(t, lo, hi)[k] = t[k]
<1> DEFINE S == {j \in Keys : lo <= j /\ j <= hi}
<1>1. Rows(t, lo, hi) \in [S -> Int] /\ S \in SUBSET Keys
  BY BoundsAssumption, Zenon DEF Rows
<1> QED  BY <1>1, Zenon DEF Rows, RowsType

\* One of them.
LEMMA RowAt ==
    ASSUME NEW t, NEW lo \in Int, NEW hi \in Int, NEW k \in Keys, lo <= k, k <= hi
    PROVE  Rows(t, lo, hi)[k] = t[k]
BY BoundsAssumption, Zenon DEF Rows

\* Rows are rows of keys.
LEMMA RowsOfKeys == ASSUME NEW f \in RowsType PROVE DOMAIN f \subseteq Keys
BY Zenon DEF RowsType

\* Nothing observed is an observation, and no observations are a sequence of them.
LEMMA NothingTyped == Nothing \in Observation /\ <<>> \in Seq(Observation)
<1>1. Nothing \in Observation
  BY EmptyRows DEF Nothing, Observation
<1>2. <<>> \in Seq(Observation)
  OBVIOUS
<1> QED  BY <1>1, <1>2, Zenon

\* One snapshot of a chunk.
LEMMA DigestTyped ==
    ASSUME WorldType, NEW lo \in Int, NEW hi \in Int
    PROVE  digestRange(lo, hi) \in Observation
<1>1. source \in [Keys -> Int] /\ shadow \in [Keys -> Int]
  BY DEF WorldType, source
<1> QED  BY <1>1, RowsAre, Zenon DEF digestRange, Observation

-----------------------------------------------------------------------------
(* The source and the catch-up *)

\* A transaction adds a table to the history, one that returns to no value
\* unless the source toggles.
LEMMA WriteIs ==
    ASSUME WorldType, Write
    PROVE  \E t \in [Keys -> Int] :
              history' = Append(history, t) /\ (scenario.writes # "toggle" => ~Returns(t))
<1>1. source \in [Keys -> Int] /\ scenario.touches \subseteq Keys /\ Len(history) \in Nat
  BY ScenariosAssumption DEF WorldType, source
<1>2. PICK k \in scenario.touches, j \in scenario.touches : \E t \in Written(k, j) : history' = Append(history, t)
  BY Zenon DEF Write
<1>3. PICK t \in Written(k, j) : history' = Append(history, t)
  BY <1>2, Zenon
<1>4. CASE scenario.writes = "none"
  BY <1>3, <1>4, Zenon DEF Written
<1>5. CASE scenario.writes = "toggle"
  <2>1. t = [source EXCEPT ![k] = 3 - @]
    BY <1>5, Zenon DEF Written
  <2> QED  BY <1>1, <1>3, <1>5, <2>1
<1>6. CASE scenario.writes # "none" /\ scenario.writes # "toggle"
  <2>1. /\ t \in {[source EXCEPT ![k] = 9 + Len(history)], [source EXCEPT ![k] = 0],
                  [source EXCEPT ![k] = 0, ![j] = source[k]]}
        /\ ~Returns(t)
    BY <1>6, Zenon DEF Written
  <2>2. t \in [Keys -> Int]
    BY <1>1, <2>1
  <2> QED  BY <1>3, <2>1, <2>2, Zenon
<1> QED  BY <1>4, <1>5, <1>6, Zenon

\* What a longer history holds.
LEMMA Grown ==
    ASSUME WorldType, NEW t \in [Keys -> Int], history' = Append(history, t)
    PROVE  /\ history' \in Seq([Keys -> Int]) /\ Len(history) \in Nat /\ Len(history') = Len(history) + 1
           /\ \A p \in 1 .. Len(history) : history'[p] = history[p]
           /\ history'[Len(history) + 1] = t /\ source' = t
           /\ \A k \in Keys : \A a \in Nat \ {0} :
                /\ \A b \in 1 .. Len(history) : Changes(k, a, b)' <=> Changes(k, a, b)
                /\ \A n \in {Len(history)} : Changes(k, a, n + 1)' <=>
                     Changes(k, a, n) \/ (a <= n /\ t[k] # source[k])
<1>1. /\ history' \in Seq([Keys -> Int]) /\ Len(history) \in Nat /\ Len(history') = Len(history) + 1
      /\ \A p \in 1 .. Len(history) : history'[p] = history[p]
      /\ history'[Len(history) + 1] = t
  BY DEF WorldType
<1>2. source' = t
  BY <1>1, Zenon DEF source
<1>3. ASSUME NEW k \in Keys, NEW a \in Nat \ {0}, NEW b \in 1 .. Len(history)
      PROVE  Changes(k, a, b)' <=> Changes(k, a, b)
  <2>1. \A p \in a + 1 .. b : history'[p] = history[p] /\ history'[p - 1] = history[p - 1]
    BY <1>1
  <2> QED  BY <2>1, Zenon DEF Changes
<1>4. ASSUME NEW k \in Keys, NEW a \in Nat \ {0}, NEW n \in {Len(history)}
      PROVE  Changes(k, a, n + 1)' <=> Changes(k, a, n) \/ (a <= n /\ t[k] # source[k])
  <2>0. n = Len(history) /\ n \in Nat /\ a \in Nat /\ a >= 1
    BY <1>1
  <2>1. \A p \in a + 1 .. n : history'[p] = history[p] /\ history'[p - 1] = history[p - 1]
    BY <1>1
  <2>2. history'[n + 1] = t /\ (a <= n => history'[n] = source)
    <3>1. a <= n => n \in 1 .. Len(history)
      BY <2>0
    <3> QED  BY <1>1, <2>0, <3>1, Zenon DEF source
  <2>3. Changes(k, a, n) => Changes(k, a, n + 1)'
    <3>1. \A p \in a + 1 .. n : p \in a + 1 .. n + 1
      BY <2>0
    <3> QED  BY <2>1, <3>1, Zenon DEF Changes
  <2>4. a <= n /\ t[k] # source[k] => Changes(k, a, n + 1)'
    <3>1. a <= n => n + 1 \in a + 1 .. n + 1 /\ (n + 1) - 1 = n
      BY <2>0
    <3> QED  BY <2>2, <3>1, Zenon DEF Changes
  <2>5. ASSUME Changes(k, a, n + 1)' PROVE Changes(k, a, n) \/ (a <= n /\ t[k] # source[k])
    <3>1. PICK p \in a + 1 .. n + 1 : history'[p][k] # history'[p - 1][k]
      BY <2>5, Zenon DEF Changes
    <3>2. CASE p = n + 1
      BY <2>0, <2>2, <3>1, <3>2
    <3>3. CASE p # n + 1
      BY <2>0, <2>1, <3>1, <3>3 DEF Changes
    <3> QED  BY <3>2, <3>3, Zenon
  <2> QED  BY <2>3, <2>4, <2>5, Zenon
<1> QED  BY <1>1, <1>2, <1>3, <1>4, Zenon

\* What holds the source's value, or the stream will mend, still does or still
\* will after another transaction.
LEMMA WriteKeeps ==
    ASSUME WorldType, NEW t \in [Keys -> Int], history' = Append(history, t), applied' = applied,
           NEW k \in Keys, NEW x, x = source[k] \/ Owed(k)
    PROVE  x = source'[k] \/ Owed(k)'
<1>1. PICK n : n = Len(history)
  BY Zenon
<1>2. n \in Nat /\ n >= 1 /\ Len(history') = n + 1 /\ source' = t
  BY <1>1, Grown, Zenon DEF WorldType
<1>3. PICK a : a = applied[k] /\ a \in Nat \ {0} /\ a <= n
  BY <1>1, <1>2 DEF WorldType
<1>4. Owed(k) <=> Changes(k, a, n)
  BY <1>1, <1>3, Zenon DEF Owed
<1>5. Owed(k)' <=> Changes(k, a, n + 1)'
  <2>1. a = applied'[k] /\ n + 1 = Len(history')
    BY <1>2, <1>3, Zenon
  <2> QED  BY <2>1, Zenon DEF Owed, Changes
<1>6. Changes(k, a, n + 1)' <=> Changes(k, a, n) \/ (a <= n /\ t[k] # source[k])
  BY <1>1, <1>3, Grown, Zenon
<1> QED  BY <1>2, <1>3, <1>4, <1>5, <1>6, Zenon

\* So a key that does not differ goes on not differing.
LEMMA WriteDiffers ==
    ASSUME WorldType, NEW t \in [Keys -> Int], history' = Append(history, t), UNCHANGED <<applied, shadow>>,
           NEW k \in Keys, ~Differs(k)
    PROVE  ~Differs(k)'
<1>1. shadow[k] = source[k] \/ Owed(k)
  BY Zenon DEF Differs
<1>2. shadow[k] = source'[k] \/ Owed(k)'
  BY <1>1, WriteKeeps, Zenon
<1> QED  BY <1>2, Zenon DEF Differs

\* A transaction of the source keeps the world right.
LEMMA WriteWorld ==
    ASSUME WorldInv, Write
    PROVE  WorldInv'
<1>1. PICK t \in [Keys -> Int] : history' = Append(history, t) /\ (scenario.writes # "toggle" => ~Returns(t))
  BY WriteIs, Zenon DEF WorldInv
<1>2. UNCHANGED <<scenario, shadow, oid, applied, confirmed>>
  BY Zenon DEF Write
<1>3. WorldType
  BY Zenon DEF WorldInv
<1>4. PICK n : n = Len(history)
  BY Zenon
<1>5. /\ history' \in Seq([Keys -> Int]) /\ n \in Nat /\ n >= 1 /\ Len(history') = n + 1
      /\ \A p \in 1 .. n : history'[p] = history[p]
      /\ history'[n + 1] = t /\ source = history[n]
      /\ \A k \in Keys : \A a \in Nat \ {0} :
            /\ \A b \in 1 .. n : Changes(k, a, b)' <=> Changes(k, a, b)
            /\ Changes(k, a, n + 1)' <=> Changes(k, a, n) \/ (a <= n /\ t[k] # source[k])
  BY <1>1, <1>3, <1>4, Grown, Zenon DEF WorldType, source
<1>6. WorldType'
  BY <1>2, <1>3, <1>4, <1>5 DEF WorldType
<1>7. Recorded'
  <2> SUFFICES ASSUME NEW k \in Keys, NEW a \in 1 .. n + 1, NEW b \in 1 .. n + 1, a <= b
               PROVE  history'[a][k] = history'[b][k] \/ Changes(k, a, b)'
    BY <1>5, Zenon DEF Recorded
  <2>1. CASE b <= n
    <3>1. /\ a \in 1 .. Len(history) /\ b \in 1 .. Len(history)
          /\ history'[a] = history[a] /\ history'[b] = history[b]
          /\ Changes(k, a, b)' <=> Changes(k, a, b)
      BY <1>4, <1>5, <2>1
    <3> QED  BY <3>1, Zenon DEF WorldInv, Recorded
  <2>2. CASE b = n + 1 /\ a <= n
    <3>1. history[a][k] = source[k] \/ Changes(k, a, n)
      BY <1>4, <1>5, <2>2 DEF WorldInv, Recorded
    <3> QED  BY <1>5, <2>2, <3>1
  <2>3. CASE a = b
    BY <2>3, Zenon
  <2> QED  BY <1>5, <2>1, <2>2, <2>3
<1>8. StreamOK'
  <2>1. ASSUME NEW k \in Keys, oid' = 1, applied'[k] > 1 PROVE ~Differs(k)'
    BY <1>1, <1>2, <1>3, <2>1, WriteDiffers, Zenon DEF WorldInv, StreamOK
  <2>2. ASSUME NEW k \in Keys PROVE ~Changes(k, applied[k], confirmed)'
    <3>1. PICK a, b : a = applied[k] /\ b = confirmed
      BY Zenon
    <3>2. a \in Nat \ {0} /\ b \in 1 .. n
      BY <1>3, <1>4, <3>1 DEF WorldType
    <3>3. ~Changes(k, a, b)'
      BY <1>5, <3>1, <3>2, Zenon DEF WorldInv, StreamOK
    <3> QED  BY <1>2, <3>1, <3>3, Zenon DEF Changes
  <2> QED  BY <2>1, <2>2, Zenon DEF StreamOK
<1>9. ASSUME scenario'.writes # "toggle" PROVE NeverReturns'
  <2>0. NeverReturns /\ ~Returns(t)
    BY <1>1, <1>2, <1>9, Zenon DEF WorldInv
  <2> SUFFICES ASSUME NEW k \in Keys, NEW a \in 1 .. n + 1, NEW b \in 1 .. n + 1, a <= b,
                      history'[a][k] = history'[b][k]
               PROVE  ~Changes(k, a, b)'
    BY <1>5, Zenon DEF NeverReturns
  <2>1. CASE b <= n
    <3>1. a \in 1 .. n /\ b \in 1 .. n
      BY <1>4, <2>1
    <3>2. /\ history'[a] = history[a] /\ history'[b] = history[b]
          /\ Changes(k, a, b)' <=> Changes(k, a, b)
      BY <1>5, <3>1
    <3> QED  BY <1>4, <2>0, <3>1, <3>2, Zenon DEF NeverReturns
  <2>2. CASE b = n + 1 /\ a <= n
    <3>1. history[a][k] = t[k] /\ a \in DOMAIN history
      BY <1>3, <1>4, <1>5, <2>2 DEF WorldType
    <3>2. t[k] = source[k]
      BY <2>0, <3>1, Zenon DEF Returns
    <3>3. ~Changes(k, a, n)
      BY <1>4, <1>5, <2>0, <2>2, <3>1, <3>2 DEF NeverReturns
    <3> QED  BY <1>5, <2>2, <3>2, <3>3
  <2>3. CASE a = b
    BY <2>3 DEF Changes
  <2> QED  BY <1>5, <2>1, <2>2, <2>3
<1> QED  BY <1>6, <1>7, <1>8, <1>9, Zenon DEF WorldInv

\* A flush keeps the world right, and mends what it touches.
LEMMA FlushWorld ==
    ASSUME WorldInv, Flush
    PROVE  WorldInv' /\ \A k \in Keys : ~Differs(k) => ~Differs(k)'
<1>0. PICK r \in 2 .. Len(history) : \E ks \in SUBSET {k \in Keys : Changes(k, applied[k], r)} :
          /\ shadow' = [k \in Keys |-> IF k \in ks THEN history[r][k] ELSE shadow[k]]
          /\ applied' = [k \in Keys |-> IF k \in ks THEN r ELSE applied[k]]
  BY Zenon DEF Flush
<1>1. PICK ks \in SUBSET {k \in Keys : Changes(k, applied[k], r)} :
          /\ shadow' = [k \in Keys |-> IF k \in ks THEN history[r][k] ELSE shadow[k]]
          /\ applied' = [k \in Keys |-> IF k \in ks THEN r ELSE applied[k]]
  BY <1>0, Zenon
<1>2. UNCHANGED <<scenario, history, oid, confirmed>>
  BY Zenon DEF Flush
<1>3. /\ WorldType /\ Len(history) \in Nat /\ r \in 1 .. Len(history)
      /\ history[r] \in [Keys -> Int] /\ source' = source
  BY <1>2 DEF WorldInv, WorldType, source
<1>4. WorldType'
  BY <1>1, <1>2, <1>3, Zenon DEF WorldType
<1>5. Recorded' /\ (scenario'.writes # "toggle" => NeverReturns')
  BY <1>2 DEF WorldInv, Recorded, NeverReturns, Changes
<1>6. ASSUME NEW k \in Keys, k \in ks
      PROVE  ~Differs(k)' /\ ~Changes(k, applied[k], confirmed)'
  <2>1. shadow'[k] = history[r][k] /\ applied'[k] = r
    BY <1>1, <1>6, Zenon
  <2>2. history[r][k] = source[k] \/ Changes(k, r, Len(history))
    BY <1>3 DEF WorldInv, Recorded, source
  <2>3. ~Differs(k)'
    BY <1>2, <1>3, <2>1, <2>2, Zenon DEF Differs, Owed, Changes
  <2>4. applied[k] < r
    <3>1. PICK p \in applied[k] + 1 .. r : TRUE
      BY <1>6, Zenon DEF Changes
    <3>2. applied[k] \in Nat
      BY <1>3 DEF WorldType
    <3> QED  BY <1>3, <3>1, <3>2
  <2>5. ~Changes(k, r, confirmed)
    <3>1. applied[k] \in Nat /\ confirmed \in Nat
      BY <1>3 DEF WorldType
    <3>2. \A p \in r + 1 .. confirmed : p \in applied[k] + 1 .. confirmed
      BY <1>3, <2>4, <3>1
    <3> QED  BY <3>2, Zenon DEF WorldInv, StreamOK, Changes
  <2> QED  BY <1>2, <2>1, <2>3, <2>5, Zenon DEF Changes
<1>7. ASSUME NEW k \in Keys, k \notin ks
      PROVE  (Differs(k)' <=> Differs(k)) /\ applied'[k] = applied[k] /\ ~Changes(k, applied[k], confirmed)'
  <2>1. shadow'[k] = shadow[k] /\ applied'[k] = applied[k]
    BY <1>1, <1>7, Zenon
  <2> QED  BY <1>2, <1>3, <2>1, Zenon DEF Differs, Owed, Changes, WorldInv, StreamOK
<1>8. StreamOK'
  BY <1>2, <1>6, <1>7, Zenon DEF WorldInv, StreamOK
<1> QED  BY <1>4, <1>5, <1>6, <1>7, <1>8, Zenon DEF WorldInv

\* The catch-up confirms only what it has applied.
LEMMA ConfirmWorld ==
    ASSUME WorldInv, Confirm
    PROVE  /\ WorldInv' /\ confirmed < confirmed'
           /\ \A k \in Keys : (Differs(k)' <=> Differs(k)) /\ (Owed(k)' <=> Owed(k))
<1>1. PICK p \in confirmed + 1 .. Len(history) :
          (\A k \in Keys : ~Changes(k, applied[k], p)) /\ confirmed' = p
  BY Zenon DEF Confirm
<1>2. UNCHANGED <<scenario, history, shadow, oid, applied>>
  BY Zenon DEF Confirm
<1>3. WorldType' /\ confirmed < confirmed'
  BY <1>1, <1>2 DEF WorldInv, WorldType
<1>4. Recorded' /\ (scenario'.writes # "toggle" => NeverReturns')
  BY <1>2 DEF WorldInv, Recorded, NeverReturns, Changes
<1>5. \A k \in Keys : (Differs(k)' <=> Differs(k)) /\ (Owed(k)' <=> Owed(k))
  BY <1>2, Zenon DEF Differs, Owed, Changes, source
<1>6. StreamOK'
  <2>1. \A k \in Keys : ~Changes(k, applied[k], confirmed)'
    BY <1>1, <1>2, Zenon DEF Changes
  <2> QED  BY <1>2, <1>5, <2>1, Zenon DEF WorldInv, StreamOK
<1> QED  BY <1>3, <1>4, <1>5, <1>6, Zenon DEF WorldInv

\* A step of the pass other than its commit leaves the world as it was.
LEMMA WorldFrame ==
    ASSUME WorldInv, UNCHANGED World
    PROVE  /\ WorldInv' /\ source' = source /\ through' = through
           /\ \A k \in Keys : (Differs(k)' <=> Differs(k)) /\ (Owed(k)' <=> Owed(k))
<1>1. UNCHANGED <<scenario, history, shadow, oid, applied, confirmed>>
  BY Zenon DEF World
<1>2. source' = source /\ through' = through
  BY <1>1, Zenon DEF source, through
<1>3. \A k \in Keys : (Differs(k)' <=> Differs(k)) /\ (Owed(k)' <=> Owed(k))
  BY <1>1, <1>2, Zenon DEF Differs, Owed, Changes
<1>4. WorldType' /\ Recorded' /\ (scenario'.writes # "toggle" => NeverReturns')
  BY <1>1 DEF WorldInv, WorldType, Recorded, NeverReturns, Changes
<1>5. StreamOK'
  <2>1. \A k \in Keys : ~Changes(k, applied[k], confirmed)'
    BY <1>1, Zenon DEF Changes, WorldInv, StreamOK
  <2> QED  BY <1>1, <1>3, <2>1, Zenon DEF WorldInv, StreamOK
<1> QED  BY <1>2, <1>3, <1>4, <1>5, Zenon DEF WorldInv

-----------------------------------------------------------------------------
(* What goes on beside the pass *)

\* A read stays a read of the history as it grows.
LEMMA ReadStays ==
    ASSUME WorldType, WorldType', Len(history) <= Len(history'),
           \A p \in 1 .. Len(history) : history'[p] = history[p]
    PROVE  /\ \A o \in Observation : \A m \in Nat : ReadBy(o, m) => ReadBy(o, m)'
           /\ \A o \in Observation : ReadBy(o, Len(history)) => \A n \in {Len(history')} : ReadBy(o, n)'
<1>0. Len(history) \in Nat /\ Len(history') \in Nat
  BY DEF WorldType
<1>1. ASSUME NEW o \in Observation, NEW m \in Nat, ReadBy(o, m) PROVE ReadBy(o, m)'
  BY <1>0, <1>1 DEF ReadBy
<1>2. ASSUME NEW o \in Observation, ReadBy(o, Len(history)), NEW n \in {Len(history')} PROVE ReadBy(o, n)'
  BY <1>0, <1>2 DEF ReadBy
<1> QED  BY <1>1, <1>2, Zenon

\* What the invariant says of the state the pass is in.
LEMMA Here ==
    ASSUME PInv
    PROVE  /\ WorldInv /\ WorldType /\ through \in Nat /\ 1 .. through \subseteq Keys
           /\ PassRecord(v) /\ PassType(v) /\ PassShape(v) /\ PassReads(v) /\ PassSound(v) /\ Honest(v)
<1>1. WorldType
  BY Zenon DEF PInv, WorldInv
<1>2. through \in Nat /\ 1 .. through \subseteq Keys
  BY <1>1, ScenariosAssumption, Zenon DEF WorldType, through
<1> QED  BY <1>1, <1>2, Zenon DEF PInv, PassOK

\* A step beside the pass that leaves no key worse keeps the invariant.
LEMMA Beside ==
    ASSUME PInv, WorldInv', UNCHANGED <<scenario, oid, v>>, confirmed <= confirmed',
           Len(history) <= Len(history'), \A p \in 1 .. Len(history) : history'[p] = history[p],
           \A k \in Keys : ~Differs(k) => ~Differs(k)',
           v.pc \in {"copy", "commit"} => \A k \in DOMAIN v.copied :
               (v.copied[k] = source[k] \/ Owed(k)) => (v.copied[k] = source'[k] \/ Owed(k)')
    PROVE  PInv'
<1>1. through' = through /\ 1 .. through \subseteq Keys /\ WorldType /\ WorldType' /\ PassType(v)
  BY Here, Zenon DEF WorldInv, through
<1>2. PassRecord(v)' /\ PassType(v)'
  BY Here, Zenon DEF PassRecord, PassType
<1>3. PassShape(v)'
  BY Here DEF PassShape
<1>4. PassReads(v)'
  <2>1. /\ \A o \in Observation : \A m \in Nat : ReadBy(o, m) => ReadBy(o, m)'
        /\ \A o \in Observation : ReadBy(o, Len(history)) => \A n \in {Len(history')} : ReadBy(o, n)'
    BY <1>1, ReadStays, Zenon
  <2>2. \A n \in DOMAIN v.differing : v.differing[n] \in Observation
    BY <1>1 DEF PassType
  <2>3. \A n \in DOMAIN v.differing : v.differing[n] \in Observation /\ v.differing[n].lsn \in Nat
    BY <2>2, Zenon DEF Observation
  <2>4. v.now \in Observation /\ v.prior \in Observation /\ v.prior.lsn \in Nat
    BY <1>1, Zenon DEF PassType, Observation
  <2>5. \A n \in DOMAIN v.differing :
            ReadBy(v.differing[n], v.differing[n].lsn) => ReadBy(v.differing[n], v.differing[n].lsn)'
    BY <2>1, <2>3 DEF ReadBy
  <2>6. ReadBy(v.prior, v.prior.lsn) => ReadBy(v.prior, v.prior.lsn)'
    BY <2>1, <2>4 DEF ReadBy
  <2>7. ReadBy(v.now, Len(history)) => ReadBy(v.now, Len(history))'
    BY <2>1, <2>4, Zenon DEF ReadBy
  <2>8. confirmed >= v.prior.lsn => confirmed' >= v.prior.lsn
    BY <1>1, <2>4 DEF WorldType
  <2> QED  BY <1>1, <2>5, <2>6, <2>7, <2>8, Here, SMTT(30) DEF PassReads
<1>5. ASSUME oid' = 1 PROVE Accounted(v)' /\ JudgedRight(v)' /\ CopiedRight(v)' /\ Vouched(v)'
  <2>0. Accounted(v) /\ JudgedRight(v) /\ CopiedRight(v) /\ Vouched(v)
    BY <1>5, Here, Zenon DEF PassSound
  <2>1. Accounted(v)'
    BY <1>1, <2>0, Zenon DEF Accounted, Pending, Found
  <2>2. JudgedRight(v)'
    BY <2>0, Zenon DEF JudgedRight
  <2>3. CopiedRight(v)'
    BY <2>0, Zenon DEF CopiedRight
  <2>4. Vouched(v)'
    BY <1>1, <2>0, Zenon DEF Vouched
  <2> QED  BY <2>1, <2>2, <2>3, <2>4, Zenon
<1>6. Honest(v)'
  BY Here, Zenon DEF Honest
<1> QED  BY <1>2, <1>3, <1>4, <1>5, <1>6, Zenon DEF PInv, PassOK, PassSound

\* The source's writes.
LEMMA WriteInv == ASSUME PInv, Write PROVE PInv'
<1>1. PICK t \in [Keys -> Int] : history' = Append(history, t)
  BY WriteIs, Zenon DEF PInv, WorldInv
<1>2. UNCHANGED <<scenario, shadow, oid, applied, confirmed, v>> /\ WorldType /\ WorldInv'
  BY WriteWorld, Zenon DEF Write, PInv, WorldInv
<1>3. /\ Len(history) <= Len(history') /\ confirmed <= confirmed'
      /\ \A p \in 1 .. Len(history) : history'[p] = history[p]
  BY <1>1, <1>2, Grown DEF WorldType
<1>4. \A k \in Keys : ~Differs(k) => ~Differs(k)'
  BY <1>1, <1>2, WriteDiffers, Zenon
<1>5. \A k \in DOMAIN v.copied :
          (v.copied[k] = source[k] \/ Owed(k)) => (v.copied[k] = source'[k] \/ Owed(k)')
  <2>1. DOMAIN v.copied \subseteq Keys
    BY Here, RowsOfKeys, Zenon DEF PassType
  <2> QED  BY <1>1, <1>2, <2>1, WriteKeeps, Zenon
<1> QED  BY <1>2, <1>3, <1>4, <1>5, Beside, Zenon

\* The catch-up's flushes, which a recopy holds off.
LEMMA FlushInv == ASSUME PInv, Flush PROVE PInv'
<1>1. UNCHANGED <<scenario, history, oid, confirmed, v>> /\ v.pc \notin {"copy", "commit"}
  BY Zenon DEF Flush, FlushesHeld
<1>2. WorldInv' /\ \A k \in Keys : ~Differs(k) => ~Differs(k)'
  BY FlushWorld, Zenon DEF PInv
<1>3. Len(history) <= Len(history') /\ confirmed <= confirmed'
  BY <1>1 DEF PInv, WorldInv, WorldType
<1> QED  BY <1>1, <1>2, <1>3, Beside, Zenon

\* Its confirmations.
LEMMA ConfirmInv == ASSUME PInv, Confirm PROVE PInv'
<1>1. UNCHANGED <<scenario, history, shadow, oid, applied, v>> /\ source' = source
  BY Zenon DEF Confirm, source
<1>2. /\ WorldInv' /\ confirmed < confirmed'
      /\ \A k \in Keys : (Differs(k)' <=> Differs(k)) /\ (Owed(k)' <=> Owed(k))
  BY ConfirmWorld, Zenon DEF PInv
<1>3. Len(history) <= Len(history') /\ confirmed <= confirmed' /\ DOMAIN v.copied \subseteq Keys
  <2>1. Len(history) <= Len(history') /\ confirmed <= confirmed'
    BY <1>1, <1>2, Here DEF WorldInv, WorldType
  <2>2. DOMAIN v.copied \subseteq Keys
    BY Here, RowsOfKeys, Zenon DEF PassType
  <2> QED  BY <2>1, <2>2, Zenon
<1> QED  BY <1>1, <1>2, <1>3, Beside, Zenon

\* Another session replaces the shadow: the pass vouches for the old one alone.
LEMMA ReplaceShadowInv == ASSUME PInv, ReplaceShadow PROVE PInv'
<1>1. /\ UNCHANGED <<scenario, history, applied, confirmed, v>> /\ oid' = 2
      /\ shadow' = [k \in Keys |-> 0] /\ through' = through
  BY Zenon DEF ReplaceShadow, through
<1>2. WorldInv'
  BY <1>1 DEF PInv, WorldInv, WorldType, Recorded, StreamOK, NeverReturns, Changes
<1>3. PassRecord(v)' /\ PassType(v)' /\ PassShape(v)'
  BY <1>1, Here, SMTT(30) DEF PassRecord, PassType, PassShape
<1>4. PassReads(v)'
  BY <1>1, Here, SMTT(30) DEF PassReads, ReadBy
<1>5. Honest(v)'
  BY <1>1, Here, Zenon DEF Honest
<1> QED  BY <1>1, <1>2, <1>3, <1>4, <1>5 DEF PInv, PassOK, PassSound

-----------------------------------------------------------------------------
(* The steps of the pass: where one leaves it, in the world as it stands *)

\* A step of the pass is right if where it leaves the pass is.
LEMMA PassStep ==
    ASSUME PInv, UNCHANGED World, NEW w, w = v', PassOK(w)
    PROVE  PInv'
<1>1. UNCHANGED <<scenario, history, oid, confirmed, source, through>> /\ WorldInv'
  BY Here, WorldFrame, Zenon DEF World
<1>2. /\ 1 .. through \subseteq Keys
      /\ \A k \in Keys : (Differs(k)' <=> Differs(k)) /\ (Owed(k)' <=> Owed(k))
  BY Here, WorldFrame, Zenon
<1>3. PassRecord(v)' /\ PassType(v)'
  BY Zenon DEF PassOK, PassRecord, PassType
<1>4. PassShape(v)'
  BY <1>1, SMTT(30) DEF PassOK, PassShape
<1>5. PassReads(v)'
  BY <1>1, Zenon DEF PassOK, PassReads, ReadBy
<1>6. ASSUME oid = 1 PROVE Accounted(v)' /\ JudgedRight(v)' /\ CopiedRight(v)' /\ Vouched(v)'
  <2>0. Accounted(w) /\ JudgedRight(w) /\ CopiedRight(w) /\ Vouched(w)
    BY <1>6, Zenon DEF PassOK, PassSound
  <2>1. Accounted(v)'
    BY <1>1, <1>2, <2>0, Zenon DEF Accounted, Pending, Found
  <2>2. JudgedRight(v)' /\ Vouched(v)'
    BY <1>1, <1>2, <2>0, Zenon DEF JudgedRight, Vouched
  <2>3. CopiedRight(v)'
    <3>1. DOMAIN w.copied \subseteq Keys
      BY RowsOfKeys, Zenon DEF PassOK, PassType
    <3> QED  BY <1>1, <1>2, <2>0, <3>1, Zenon DEF CopiedRight
  <2> QED  BY <2>1, <2>2, <2>3, Zenon
<1>7. Honest(v)'
  BY <1>1, Zenon DEF PassOK, Honest
<1> QED  BY <1>1, <1>3, <1>4, <1>5, <1>6, <1>7, Zenon DEF PInv, PassOK, PassSound

\* The pass ends: with a proof only if nothing differs.
LEMMA FinishOK ==
    ASSUME WorldInv, NEW outcome, NEW w, w = [NewPass EXCEPT !.pc = "done", !.outcome = outcome],
           outcome \in {"proved", "repaired", "recopied"} /\ oid = 1 => \A k \in 1 .. through : ~Differs(k)
    PROVE  PassOK(w)
<1>1. /\ PassRecord(w) /\ w.pc = "done" /\ w.lower = 1 /\ w.differing = <<>> /\ w.i = 1 /\ w.prior = Nothing
      /\ w.now = Nothing /\ w.mismatches = <<>> /\ w.unsettled = 0 /\ w.repairing = FALSE /\ w.copied = <<>>
      /\ w.outcome = outcome
  BY Zenon DEF NewPass, PassRecord, Fields
<1>2. PassType(w)
  <2>1. w.lower \in Nat /\ w.i \in Nat /\ w.unsettled \in Nat
    BY <1>1
  <2> QED  BY <1>1, <2>1, NothingTyped, EmptyRows, Zenon DEF PassType
<1>3. PassShape(w) /\ PassReads(w)
  BY <1>1 DEF PassShape, PassReads, settling, sweeping, rereading
<1>4. PassSound(w)
  BY <1>1, Zenon DEF PassSound, Accounted, JudgedRight, CopiedRight, Vouched, settling, sweeping, recopying
<1>5. Honest(w)
  BY <1>1 DEF Honest
<1> QED  BY <1>1, <1>2, <1>3, <1>4, <1>5, Zenon DEF PassOK

\* A step that ends it.
LEMMA FinishInv ==
    ASSUME PInv, UNCHANGED World, NEW outcome, Finish(outcome),
           outcome \in {"proved", "repaired", "recopied"} /\ oid = 1 => \A k \in 1 .. through : ~Differs(k)
    PROVE  PInv'
<1>1. PICK w : w = v'
  BY Zenon
<1>2. w = [NewPass EXCEPT !.pc = "done", !.outcome = outcome]
  BY <1>1, Zenon DEF Finish
<1>3. PassOK(w)
  BY <1>2, Here, FinishOK, Zenon
<1> QED  BY <1>1, <1>3, PassStep, Zenon

\* A sweep begins: the first, or one more after a collision.
LEMMA SweepInv ==
    ASSUME PInv, UNCHANGED World, NEW attempt, v' = [NewPass EXCEPT !.pc = "sweep", !.attempt = attempt]
    PROVE  PInv'
<1>0. PICK w : w = v'
  BY Zenon
<1>1. /\ PassRecord(w) /\ w.pc = "sweep" /\ w.lower = 1 /\ w.differing = <<>> /\ w.i = 1
      /\ w.prior = Nothing /\ w.now = Nothing /\ w.mismatches = <<>> /\ w.unsettled = 0
      /\ w.repairing = FALSE /\ w.copied = <<>> /\ w.outcome = "none"
  BY <1>0, Zenon DEF NewPass, PassRecord, Fields
<1>2. PassType(w)
  <2>1. w.lower \in Nat /\ w.i \in Nat /\ w.unsettled \in Nat
    BY <1>1
  <2> QED  BY <1>1, <2>1, NothingTyped, EmptyRows, Zenon DEF PassType
<1>3. PassShape(w) /\ PassReads(w)
  BY <1>1 DEF PassShape, PassReads, settling, sweeping, rereading
<1>4. PassSound(w)
  BY <1>1 DEF PassSound, Accounted, JudgedRight, CopiedRight, Vouched, settling, sweeping, recopying
<1>5. Honest(w)
  BY <1>1 DEF Honest
<1>6. PassOK(w)
  BY <1>1, <1>2, <1>3, <1>4, <1>5, Zenon DEF PassOK
<1> QED  BY <1>0, <1>6, PassStep, Zenon

\* Check and CheckLive up to the sweep.
LEMMA CheckInv == ASSUME PInv, Check PROVE PInv'
<1>1. UNCHANGED World /\ v = NewPass
  BY Here, Zenon DEF Check, PassShape
<1>2. CASE Finish("refused")
  BY <1>1, <1>2, FinishInv, Zenon
<1>3. CASE v' = [v EXCEPT !.pc = "sweep"]
  <2>1. PICK a : a = v'.attempt
    BY Zenon
  <2>2. v' = [NewPass EXCEPT !.pc = "sweep", !.attempt = a]
    BY <1>1, <1>3, <2>1, ZenonT(30) DEF NewPass
  <2> QED  BY <1>1, <2>2, SweepInv, Zenon
<1> QED  BY <1>2, <1>3, Zenon DEF Check

\* A chunk is compared: it is right, or it is remembered.
LEMMA ComparedOK ==
    ASSUME PInv, NEW o \in Observation, v.pc \in sweeping, NEW w, w = Compared(o),
           o.lo = v.lower, o.hi \in v.lower .. through,
           oid = 1 /\ o.source = o.shadow => \A k \in o.lo .. o.hi : ~Differs(k),
           scenario.live /\ o.source # o.shadow => ReadBy(o, o.lsn)
    PROVE  PassOK(w)
<1>1. /\ v.outcome = "none" /\ v.i = 1 /\ v.repairing = FALSE /\ v.lower >= 1 /\ v.lower \in Nat
      /\ scenario.live \/ (v.unsettled = 0 /\ v.differing = <<>>)
  BY Here, Zenon DEF PassShape, PassType, sweeping, settling
<1>2. /\ o.lo \in Int /\ o.hi \in Nat /\ through \in Nat /\ 1 .. through \subseteq Keys
      /\ v.differing \in Seq(Observation) /\ v.mismatches \in Seq(Observation)
  BY <1>1, Here DEF PassType
<1>3. PICK d, m : /\ d = IF scenario.live /\ o.source # o.shadow THEN Append(v.differing, o) ELSE v.differing
                  /\ m = IF ~scenario.live /\ o.source # o.shadow THEN Append(v.mismatches, o) ELSE v.mismatches
  BY Zenon
<1>4. PICK pc : pc = AfterChunk(o.hi)
  BY Zenon
<1>5. PassRecord(v)
  BY Here, Zenon
<1>6. /\ PassRecord(w) /\ w.pc = pc /\ w.lower = o.hi + 1 /\ w.differing = d /\ w.i = 1 /\ w.prior = v.prior
      /\ w.now = Nothing /\ w.mismatches = m /\ w.unsettled = v.unsettled /\ w.repairing = FALSE
      /\ w.copied = v.copied /\ w.outcome = "none"
  BY <1>1, <1>3, <1>4, <1>5, Zenon DEF Compared, PassRecord, Fields
<1>7. d \in Seq(Observation) /\ m \in Seq(Observation) /\ (~scenario.live => d = <<>>)
  BY <1>1, <1>2, <1>3
<1>8. PassType(w)
  <2>1. w.lower \in Nat /\ w.i \in Nat
    BY <1>2, <1>6
  <2> QED  BY <1>6, <1>7, <2>1, Here, NothingTyped, Zenon DEF PassType
<1>9. /\ pc \in {"sweep", "settle", "decide"} /\ (pc = "settle" => scenario.live)
      /\ (pc = "decide" => ~scenario.live) /\ (pc # "sweep" => o.hi = through)
  BY <1>1, <1>2, <1>4 DEF AfterChunk
<1>10. PassShape(w)
  <2>1. w.lower >= 1 /\ (w.pc = "decide" => w.i > Len(w.differing))
    BY <1>2, <1>6, <1>7, <1>9
  <2> QED  BY <1>1, <1>6, <1>7, <1>9, <2>1 DEF PassShape, sweeping, settling
<1>11. PassReads(w)
  <2>1. \A n \in DOMAIN v.differing : ReadBy(v.differing[n], v.differing[n].lsn)
    BY <1>1, Here, Zenon DEF PassReads
  <2>2. \A n \in DOMAIN d : ReadBy(d[n], d[n].lsn)
    BY <1>2, <1>3, <2>1
  <2> QED  BY <1>6, <1>9, <2>2, SMTT(30) DEF PassReads, rereading
<1>12. ASSUME oid = 1, NEW k \in 1 .. o.hi
       PROVE  ~Differs(k) \/ Pending(w, k) \/ Found(w, k) \/ w.unsettled > 0
  <2>1. CASE k < v.lower
    <3>1. ~Differs(k) \/ Pending(v, k) \/ Found(v, k) \/ v.unsettled > 0
      <4>1. k \in 1 .. v.lower - 1 /\ k \in Keys
        BY <1>1, <1>2, <2>1
      <4> QED  BY <1>12, <4>1, Here, Zenon DEF PassSound, Accounted
    <3>2. Pending(v, k) => Pending(w, k)
      <4>1. ASSUME NEW n \in 1 .. Len(v.differing) PROVE n \in 1 .. Len(d) /\ d[n] = v.differing[n]
        BY <1>2, <1>3
      <4> QED  BY <1>1, <1>6, <4>1, Zenon DEF Pending
    <3>3. Found(v, k) => Found(w, k)
      <4>1. ASSUME NEW n \in DOMAIN v.mismatches PROVE n \in DOMAIN m /\ m[n] = v.mismatches[n]
        BY <1>2, <1>3
      <4> QED  BY <1>6, <4>1, Zenon DEF Found
    <3> QED  BY <1>6, <3>1, <3>2, <3>3, SMTT(30)
  <2>2. CASE k >= v.lower
    <3>1. CASE o.source = o.shadow
      BY <1>1, <1>12, <2>2, <3>1
    <3>2. CASE o.source # o.shadow /\ scenario.live
      <4>1. Len(d) \in 1 .. Len(d) /\ d[Len(d)] = o
        BY <1>2, <1>3, <3>2
      <4> QED  BY <1>1, <1>6, <2>2, <4>1 DEF Pending
    <3>3. CASE o.source # o.shadow /\ ~scenario.live
      <4>1. Len(m) \in DOMAIN m /\ m[Len(m)] = o
        BY <1>2, <1>3, <3>3
      <4> QED  BY <1>1, <1>6, <2>2, <4>1 DEF Found
    <3> QED  BY <3>1, <3>2, <3>3, Zenon
  <2> QED  BY <1>1, <2>1, <2>2
<1>13. PassSound(w)
  <2>1. oid = 1 => Accounted(w)
    BY <1>2, <1>6, <1>9, <1>12, SMTT(30) DEF Accounted, sweeping, settling, recopying
  <2> QED  BY <1>6, <1>9, <2>1, SMTT(30) DEF PassSound, JudgedRight, CopiedRight, Vouched
<1>14. Honest(w)
  <2>1. scenario.live => m = v.mismatches
    BY <1>3, Zenon
  <2> QED  BY <1>6, <1>9, <2>1, Here, Zenon DEF Honest
<1> QED  BY <1>6, <1>8, <1>10, <1>11, <1>13, <1>14, Zenon DEF PassOK

\* The sweep compares a chunk, and a live one marks where the source was read.
LEMMA compareNextInv == ASSUME PInv, compareNext PROVE PInv'
<1>0. PICK w : w = v'
  BY Zenon
<1>1. PICK hi \in v.lower .. through :
          w = IF scenario.live /\ digestRange(v.lower, hi).source # digestRange(v.lower, hi).shadow
              THEN [v EXCEPT !.pc = "mark", !.now = digestRange(v.lower, hi)] ELSE Compared(digestRange(v.lower, hi))
  BY <1>0, Zenon DEF compareNext
<1>2. PICK o : o = digestRange(v.lower, hi)
  BY Zenon
<1>3. v.pc = "sweep" /\ v.lower \in Nat /\ v.lower >= 1 /\ v.i = 1 /\ v.outcome = "none" /\ v.repairing = FALSE
  BY Here, SMTT(30) DEF compareNext, PassType, PassShape, sweeping, settling
<1>4. hi \in Int /\ v.lower <= hi /\ hi <= through /\ through \in Nat /\ 1 .. through \subseteq Keys
  BY <1>1, <1>3, Here
<1>5. /\ o \in Observation /\ o.lo = v.lower /\ o.hi = hi
      /\ o.source = Rows(source, v.lower, hi) /\ o.shadow = Rows(shadow, v.lower, hi)
  BY <1>2, <1>3, <1>4, Here, DigestTyped DEF digestRange
<1>6. CASE scenario.live /\ o.source # o.shadow
  <2>1. w = [v EXCEPT !.pc = "mark", !.now = o] /\ PassRecord(v)
    BY <1>1, <1>2, <1>6, Here, Zenon
  <2>2. /\ PassRecord(w) /\ w.pc = "mark" /\ w.lower = v.lower /\ w.differing = v.differing /\ w.i = v.i
        /\ w.prior = v.prior /\ w.now = o /\ w.mismatches = v.mismatches /\ w.unsettled = v.unsettled
        /\ w.repairing = v.repairing /\ w.copied = v.copied /\ w.outcome = v.outcome
    BY <2>1, Zenon DEF PassRecord, Fields
  <2>3. PassType(w)
    BY <1>5, <2>2, Here, Zenon DEF PassType
  <2>4. PassShape(w)
    BY <1>3, <1>6, <2>2, Here, Zenon DEF PassShape, sweeping
  <2>5. PassReads(w)
    <3>1. ReadBy(o, Len(history))
      <4>1. Len(history) \in 1 .. Len(history) /\ Len(history) \in Nat
        BY Here DEF WorldType
      <4> QED  BY <1>5, <4>1 DEF ReadBy, source
    <3>2. \A n \in DOMAIN v.differing : ReadBy(v.differing[n], v.differing[n].lsn)
      BY <1>3, Here, Zenon DEF PassReads, sweeping
    <3>3. o.hi \in v.lower .. through
      BY <1>1, <1>5, Zenon
    <3> QED  BY <1>5, <1>6, <2>2, <3>1, <3>2, <3>3, Zenon DEF PassReads, sweeping, rereading
  <2>6. PassSound(w)
    <3>1. oid = 1 => Accounted(w)
      BY <1>3, <2>2, Here, ZenonT(30) DEF PassSound, Accounted, Pending, Found, sweeping, settling, recopying
    <3> QED  BY <1>3, <2>2, <3>1, SMTT(30) DEF PassSound, JudgedRight, CopiedRight, Vouched
  <2>7. Honest(w)
    BY <2>2, Here, Zenon DEF Honest
  <2>8. PassOK(w)
    BY <2>2, <2>3, <2>4, <2>5, <2>6, <2>7 DEF PassOK
  <2> QED  BY <1>0, <2>8, PassStep, Zenon DEF compareNext
<1>7. CASE ~(scenario.live /\ o.source # o.shadow)
  <2>1. w = Compared(o)
    BY <1>1, <1>2, <1>7, Zenon
  <2>2. ASSUME o.source = o.shadow, NEW k \in o.lo .. o.hi PROVE ~Differs(k)
    <3>1. k \in Keys /\ v.lower <= k /\ k <= hi
      BY <1>3, <1>4, <1>5
    <3>2. Rows(source, v.lower, hi)[k] = source[k] /\ Rows(shadow, v.lower, hi)[k] = shadow[k]
      BY <1>3, <1>4, <3>1, RowAt
    <3> QED  BY <1>5, <2>2, <3>2, Zenon DEF Differs
  <2>3. o.hi \in v.lower .. through
    BY <1>1, <1>5
  <2>4. PassOK(w)
    BY <1>3, <1>5, <1>7, <2>1, <2>2, <2>3, ComparedOK, Zenon DEF sweeping
  <2> QED  BY <1>0, <2>4, PassStep DEF compareNext
<1> QED  BY <1>6, <1>7, Zenon

\* A chunk that differed is remembered with its marker.
LEMMA markPositionInv == ASSUME PInv, markPosition PROVE PInv'
<1>0. PICK w : w = v'
  OBVIOUS
<1>1. PICK o : o = [v.now EXCEPT !.lsn = Len(history)]
  BY Zenon
<1>2. v.pc = "mark" /\ w = Compared(o) /\ v.now \in Observation /\ Len(history) \in Nat
  BY <1>0, <1>1, Here DEF markPosition, PassType, WorldType
<1>3. /\ o \in Observation /\ o.lo = v.now.lo /\ o.hi = v.now.hi /\ o.lsn = Len(history)
      /\ o.source = v.now.source /\ o.shadow = v.now.shadow
  BY <1>1, <1>2, Zenon DEF Observation
<1>4. /\ v.now.lo = v.lower /\ v.now.hi \in v.lower .. through /\ v.now.source # v.now.shadow
      /\ ReadBy(v.now, Len(history))
  BY <1>2, Here, Zenon DEF PassReads
<1>5. ReadBy(o, o.lsn)
  BY <1>3, <1>4, Zenon DEF ReadBy
<1>6. PassOK(w)
  BY <1>2, <1>3, <1>4, <1>5, ComparedOK, Zenon DEF sweeping
<1> QED  BY <1>0, <1>6, PassStep, Zenon DEF markPosition

\* sweepAndSettle's loop, and repairLive's: the next chunk, or the end.
LEMMA SettleNextInv == ASSUME PInv, SettleNext PROVE PInv'
<1>0. PICK w : w = v'
  OBVIOUS
<1>1. UNCHANGED World /\ PassRecord(v) /\ v.pc = "settle" /\ v.i \in Nat /\ v.i >= 1 /\ v.outcome = "none"
  BY Here, Zenon DEF SettleNext, PassType, PassShape
<1>2. CASE v.i > Len(v.differing) /\ ~v.repairing
  <2>1. w = [v EXCEPT !.pc = "decide"]
    BY <1>0, <1>2, Zenon DEF SettleNext
  <2>2. /\ PassRecord(w) /\ w.pc = "decide" /\ w.lower = v.lower /\ w.differing = v.differing /\ w.i = v.i
        /\ w.prior = v.prior /\ w.now = v.now /\ w.mismatches = v.mismatches /\ w.unsettled = v.unsettled
        /\ w.repairing = v.repairing /\ w.copied = v.copied /\ w.outcome = v.outcome
    BY <1>1, <2>1, Zenon DEF PassRecord, Fields
  <2>3. PassType(w)
    BY <2>2, Here, SMTT(30) DEF PassType
  <2>4. PassShape(w)
    BY <1>1, <1>2, <2>2, Here, Zenon DEF PassShape, sweeping, settling
  <2>5. PassReads(w)
    BY <2>2, Zenon DEF PassReads, sweeping, settling, rereading
  <2>6. PassSound(w)
    <3>1. oid = 1 => Accounted(w)
      BY <1>1, <1>2, <2>2, Here, Zenon DEF PassSound, Accounted, Pending, Found, sweeping, settling, recopying
    <3> QED  BY <1>1, <2>2, <3>1, Zenon DEF PassSound, JudgedRight, CopiedRight, Vouched
  <2>7. Honest(w)
    BY <2>2, Here, Zenon DEF Honest
  <2>8. PassOK(w)
    BY <2>2, <2>3, <2>4, <2>5, <2>6, <2>7, Zenon DEF PassOK
  <2> QED  BY <1>0, <1>1, <2>8, PassStep, Zenon
<1>3. CASE v.i > Len(v.differing) /\ v.repairing /\ v.unsettled > 0
  <2>1. Finish("unresolved")
    BY <1>3, Zenon DEF SettleNext
  <2> QED  BY <1>1, <2>1, FinishInv, Zenon
<1>4. CASE v.i > Len(v.differing) /\ v.repairing /\ ~(v.unsettled > 0)
  <2>1. Finish("repaired")
    BY <1>4, Zenon DEF SettleNext
  <2>2. oid = 1 => \A k \in 1 .. through : ~Differs(k)
    BY <1>4, Here, Zenon DEF PassSound, Accounted
  <2> QED  BY <1>1, <2>1, <2>2, FinishInv, Zenon
<1>5. CASE ~(v.i > Len(v.differing))
  <2>1. w = [v EXCEPT !.pc = "await", !.prior = v.differing[v.i], !.rereads = 0]
    BY <1>0, <1>5, Zenon DEF SettleNext
  <2>2. /\ v.differing \in Seq(Observation) /\ v.i \in DOMAIN v.differing /\ v.i <= Len(v.differing)
        /\ v.differing[v.i] \in Observation
    BY <1>1, <1>5, Here DEF PassType
  <2>3. /\ PassRecord(w) /\ w.pc = "await" /\ w.lower = v.lower /\ w.differing = v.differing /\ w.i = v.i
        /\ w.prior = v.differing[v.i] /\ w.now = v.now /\ w.mismatches = v.mismatches
        /\ w.unsettled = v.unsettled /\ w.repairing = v.repairing /\ w.copied = v.copied
        /\ w.outcome = v.outcome
    BY <1>1, <2>1, ZenonT(30) DEF PassRecord, Fields
  <2>4. PassType(w)
    BY <2>2, <2>3, Here, SMTT(30) DEF PassType
  <2>5. PassShape(w)
    BY <1>1, <2>3, Here, Zenon DEF PassShape, sweeping, settling
  <2>6. PassReads(w)
    <3>1. v.repairing \/ \A n \in DOMAIN v.differing : ReadBy(v.differing[n], v.differing[n].lsn)
      BY <1>1, Here, SMTT(30) DEF PassReads, settling
    <3> QED  BY <2>2, <2>3, <3>1, SMTT(30) DEF PassReads, sweeping, settling, rereading
  <2>7. PassSound(w)
    <3>1. oid = 1 => Accounted(w)
      BY <1>1, <2>3, Here, ZenonT(30) DEF PassSound, Accounted, Pending, Found, sweeping, settling, recopying
    <3> QED  BY <1>1, <2>3, <3>1, Zenon DEF PassSound, JudgedRight, CopiedRight, Vouched
  <2>8. Honest(w)
    BY <2>3, Here, Zenon DEF Honest
  <2>9. PassOK(w)
    BY <2>3, <2>4, <2>5, <2>6, <2>7, <2>8, ZenonT(30) DEF PassOK
  <2> QED  BY <1>0, <1>1, <2>9, PassStep
<1> QED  BY <1>2, <1>3, <1>4, <1>5, Zenon

\* A chunk is done with: its keys are right, given up, or found to differ.
LEMMA NextChunkInv ==
    ASSUME PInv, UNCHANGED World, v.pc \in {"await", "judge"}, NEW w, w = v', PassRecord(w), w.pc = "settle",
           w.i = v.i + 1, w.lower = v.lower, w.differing = v.differing, w.repairing = v.repairing,
           w.prior = v.prior, w.now = v.now, w.copied = v.copied, w.outcome = v.outcome,
           w.unsettled \in Nat, w.unsettled >= v.unsettled, w.mismatches \in Seq(Observation),
           \A n \in DOMAIN v.mismatches : n \in DOMAIN w.mismatches /\ w.mismatches[n] = v.mismatches[n],
           oid = 1 /\ ~v.repairing => \A k \in v.prior.lo .. v.prior.hi : k \in 1 .. through =>
               ~Differs(k) \/ w.unsettled > 0 \/ Found(w, k),
           Honest(w)
    PROVE  PInv'
<1>1. /\ v.i \in Nat /\ v.i >= 1 /\ v.lower >= 1 /\ scenario.live /\ v.unsettled \in Nat
      /\ v.outcome = "none" /\ through \in Nat
  BY Here, SMTT(30) DEF PassType, PassShape, settling
<1>2. v.prior.lo = v.differing[v.i].lo /\ v.prior.hi = v.differing[v.i].hi
  BY Here, Zenon DEF PassReads, rereading
<1>3. v.prior.lo \in Int /\ v.prior.hi \in Int
  BY Here, Zenon DEF PassType, Observation
<1>4. PassType(w)
  BY <1>1, Here DEF PassType
<1>5. PassShape(w)
  BY <1>1, SMTT(30) DEF PassShape, sweeping, settling
<1>6. PassReads(w)
  <2>1. v.repairing \/ \A n \in DOMAIN v.differing : ReadBy(v.differing[n], v.differing[n].lsn)
    BY Here, ZenonT(30) DEF PassReads, settling
  <2> QED  BY <2>1, Zenon DEF PassReads, rereading
<1>7. PassSound(w)
  <2> SUFFICES ASSUME oid = 1 PROVE Accounted(w) /\ JudgedRight(w) /\ CopiedRight(w) /\ Vouched(w)
    BY SMTT(30) DEF PassSound
  <2>0. Accounted(v)
    BY Here, SMTT(30) DEF PassSound
  <2>1. ASSUME ~v.repairing, NEW k \in 1 .. through
        PROVE  ~Differs(k) \/ Pending(w, k) \/ Found(w, k) \/ w.unsettled > 0
    <3>1. ~Differs(k) \/ Pending(v, k) \/ Found(v, k) \/ v.unsettled > 0
      BY <2>0, <2>1, Zenon DEF Accounted, settling
    <3>2. Found(v, k) => Found(w, k)
      BY DEF Found
    <3>3. Pending(v, k) => Pending(w, k) \/ (v.prior.lo <= k /\ k <= v.prior.hi)
      <4>1. v.differing \in Seq(Observation)
        BY Here, SMTT(30) DEF PassType
      <4> QED  BY <1>1, <1>2, <4>1, SMTT(30) DEF Pending
    <3> QED  BY <1>1, <1>3, <2>1, <3>1, <3>2, <3>3, SMTT(30)
  <2>2. v.repairing => \A k \in 1 .. through : ~Differs(k) \/ w.unsettled > 0
    BY <1>1, <2>0, SMTT(30) DEF Accounted
  <2>3. Accounted(w)
    BY <2>1, <2>2, Zenon DEF Accounted, sweeping, recopying
  <2> QED  BY <1>1, <2>3, SMTT(30) DEF JudgedRight, CopiedRight, Vouched
<1>8. PassOK(w)
  BY <1>4, <1>5, <1>6, <1>7, Zenon DEF PassOK
<1> QED  BY <1>8, PassStep, SMTT(30)

\* A chunk nobody could settle counts as given up.
LEMMA UnresolvedInv ==
    ASSUME PInv, UNCHANGED World, v.pc \in {"await", "judge"}, Unresolved
    PROVE  PInv'
<1>1. PassRecord(v) /\ v.unsettled \in Nat /\ v.mismatches \in Seq(Observation) /\ Honest(v)
  BY Here, Zenon DEF PassType
<1>2. CASE v.repairing
  <2>1. Finish("unresolved")
    BY <1>2, Zenon DEF Unresolved
  <2> QED  BY <2>1, FinishInv, Zenon
<1>3. CASE ~v.repairing
  <2>0. PICK w : w = v'
    BY Zenon
  <2>1. w = [v EXCEPT !.pc = "settle", !.i = @ + 1, !.unsettled = @ + 1]
    BY <1>3, <2>0, Zenon DEF Unresolved
  <2>2. /\ PassRecord(w) /\ w.pc = "settle" /\ w.lower = v.lower /\ w.differing = v.differing
        /\ w.i = v.i + 1 /\ w.prior = v.prior /\ w.now = v.now /\ w.mismatches = v.mismatches
        /\ w.unsettled = v.unsettled + 1 /\ w.repairing = v.repairing /\ w.copied = v.copied
        /\ w.outcome = v.outcome
    BY <1>1, <2>1, Zenon DEF PassRecord, Fields
  <2>3. w.unsettled \in Nat /\ w.unsettled >= v.unsettled /\ w.unsettled > 0
    BY <1>1, <2>2, SMTT(30)
  <2>4. Honest(w)
    BY <1>1, <2>2, Zenon DEF Honest
  <2> QED  BY <1>1, <2>0, <2>2, <2>3, <2>4, NextChunkInv, Zenon
<1> QED  BY <1>2, <1>3, Zenon

\* The wait for the catch-up.
LEMMA awaitConfirmedInv == ASSUME PInv, awaitConfirmed PROVE PInv'
<1>0. PICK w : w = v'
  OBVIOUS
<1>1. UNCHANGED World /\ PassRecord(v) /\ v.pc = "await" /\ v.outcome = "none"
  BY Here, Zenon DEF awaitConfirmed, PassShape
<1>2. CASE confirmed >= v.prior.lsn /\ v' = [v EXCEPT !.pc = "reread"]
  <2>1. w = [v EXCEPT !.pc = "reread"]
    BY <1>0, <1>2, Zenon
  <2>2. /\ PassRecord(w) /\ w.pc = "reread" /\ w.lower = v.lower /\ w.differing = v.differing /\ w.i = v.i
        /\ w.prior = v.prior /\ w.now = v.now /\ w.mismatches = v.mismatches /\ w.unsettled = v.unsettled
        /\ w.repairing = v.repairing /\ w.copied = v.copied /\ w.outcome = v.outcome
    BY <1>1, <2>1, SMTT(30) DEF PassRecord, Fields
  <2>3. PassType(w)
    BY <2>2, Here, SMTT(30) DEF PassType
  <2>4. PassShape(w)
    BY <1>1, <2>2, Here, Zenon DEF PassShape, sweeping, settling
  <2>5. PassReads(w)
    BY <1>1, <1>2, <2>2, Here, SMTT(30) DEF PassReads, sweeping, settling, rereading
  <2>6. PassSound(w)
    <3>1. oid = 1 => Accounted(w)
      BY <1>1, <2>2, Here, ZenonT(30) DEF PassSound, Accounted, Pending, Found, sweeping, settling, recopying
    <3> QED  BY <1>1, <2>2, <3>1, Zenon DEF PassSound, JudgedRight, CopiedRight, Vouched
  <2>7. Honest(w)
    BY <2>2, Here, Zenon DEF Honest
  <2>8. PassOK(w)
    BY <2>2, <2>3, <2>4, <2>5, <2>6, <2>7, Zenon DEF PassOK
  <2> QED  BY <1>0, <1>1, <2>8, PassStep, Zenon
<1>3. CASE Unresolved
  BY <1>1, <1>3, UnresolvedInv, Zenon
<1> QED  BY <1>2, <1>3, Zenon DEF awaitConfirmed

-----------------------------------------------------------------------------
(* The reread and its judgement *)

\* A key that differs has not been touched by the stream, and the source has not
\* touched it either since the stream was opened.
LEMMA UntouchedKey ==
    ASSUME WorldInv, oid = 1, NEW k \in Keys, Differs(k), NEW p \in 1 .. Len(history)
    PROVE  history[p][k] = source[k]
<1>1. Len(history) \in Nat /\ applied[k] \in Nat /\ applied[k] >= 1 /\ Len(history) >= 1
  BY DEF WorldInv, WorldType
<1>2. applied[k] = 1
  BY <1>1 DEF WorldInv, StreamOK
<1>3. ~Changes(k, 1, Len(history))
  BY <1>2, Zenon DEF Differs, Owed
<1>4. ~Changes(k, p, Len(history))
  <2>1. \A q \in p + 1 .. Len(history) : q \in 1 + 1 .. Len(history)
    BY <1>1
  <2> QED  BY <1>3, <2>1, Zenon DEF Changes
<1> QED  BY <1>1, <1>4 DEF WorldInv, Recorded, source

\* The reread behind the catch-up, of a source that returns to no value: what is
\* still there was there before, and the stream has nothing left for it.
LEMMA RereadIsReal ==
    ASSUME PInv, v.pc = "reread", ~v.repairing, scenario.writes # "toggle",
           NEW o, o = digestRange(v.prior.lo, v.prior.hi), o.source = v.prior.source, o.shadow # o.source
    PROVE  o.real
<1> DEFINE lo == v.prior.lo
           hi == v.prior.hi
<1>1. lo \in Int /\ hi \in Int /\ v.prior.lsn \in Nat
  BY Here, Zenon DEF PassType, Observation
<1>2. WorldType /\ NeverReturns /\ StreamOK /\ Len(history) \in Nat /\ confirmed \in Nat
  BY Here DEF WorldInv, WorldType
<1>3. ReadBy(v.prior, v.prior.lsn) /\ confirmed >= v.prior.lsn
  BY Here, Zenon DEF PassReads, rereading
<1>4. /\ o.source = Rows(source, lo, hi) /\ o.shadow = Rows(shadow, lo, hi)
      /\ o.real = \E k \in lo .. hi : Differs(k)
  BY Zenon DEF digestRange
<1>5. PICK p \in 1 .. v.prior.lsn : p <= Len(history) /\ v.prior.source = Rows(history[p], lo, hi)
  BY <1>3, Zenon DEF ReadBy
<1> HIDE DEF lo, hi
<1>6. PICK k \in Keys : lo <= k /\ k <= hi /\ shadow[k] # source[k]
  <2>1. ASSUME \A k \in Keys : lo <= k /\ k <= hi => shadow[k] = source[k]
        PROVE  Rows(shadow, lo, hi) = Rows(source, lo, hi)
    BY <2>1, Zenon DEF Rows
  <2> QED  BY <1>4, <2>1, Zenon
<1>7. history[p][k] = source[k]
  <2>1. Rows(history[p], lo, hi)[k] = history[p][k] /\ Rows(source, lo, hi)[k] = source[k]
    BY <1>1, <1>6, RowAt
  <2> QED  BY <1>4, <1>5, <2>1, Zenon
<1>8. ~Changes(k, p, Len(history))
  <2>1. p \in 1 .. Len(history) /\ Len(history) \in 1 .. Len(history)
    BY <1>1, <1>2, <1>5 DEF WorldType
  <2> QED  BY <1>2, <1>7, <2>1 DEF NeverReturns, source
<1>9. ~Owed(k)
  <2>1. ~Changes(k, applied[k], confirmed) /\ applied[k] \in Nat
    BY <1>2 DEF StreamOK, WorldType
  <2>2. p <= confirmed /\ p \in Nat
    BY <1>1, <1>2, <1>3, <1>5
  <2>3. \A q \in applied[k] + 1 .. Len(history) : q \in applied[k] + 1 .. confirmed \/ q \in p + 1 .. Len(history)
    BY <1>2, <2>1, <2>2
  <2> QED  BY <1>8, <2>1, <2>3, Zenon DEF Owed, Changes
<1>10. Differs(k) /\ k \in lo .. hi
  BY <1>1, <1>6, <1>9, BoundsAssumption DEF Differs
<1> QED  BY <1>4, <1>10, Zenon

\* The reread.
LEMMA observeInv == ASSUME PInv, observe PROVE PInv'
<1>0. PICK w, o : w = v' /\ o = digestRange(v.prior.lo, v.prior.hi)
  BY Zenon
<1>1. UNCHANGED World /\ PassRecord(v) /\ v.pc = "reread" /\ oid = 1 /\ WorldInv /\ v.outcome = "none"
  BY Here, Zenon DEF observe, guard, PassShape
<1>2. w = [v EXCEPT !.pc = "judge", !.now = o]
  BY <1>0, Zenon DEF observe
<1>3. v.prior.lo \in Int /\ v.prior.hi \in Int /\ v.prior.lsn \in Nat
  BY Here, SMTT(30) DEF PassType, Observation
<1>4. /\ o \in Observation /\ o.lo = v.prior.lo /\ o.hi = v.prior.hi
      /\ o.source = Rows(source, v.prior.lo, v.prior.hi) /\ o.shadow = Rows(shadow, v.prior.lo, v.prior.hi)
  BY <1>0, <1>3, Here, DigestTyped, Zenon DEF digestRange
<1>5. /\ PassRecord(w) /\ w.pc = "judge" /\ w.lower = v.lower /\ w.differing = v.differing /\ w.i = v.i
      /\ w.prior = v.prior /\ w.now = o /\ w.mismatches = v.mismatches /\ w.unsettled = v.unsettled
      /\ w.repairing = v.repairing /\ w.copied = v.copied /\ w.outcome = v.outcome
  BY <1>1, <1>2, Zenon DEF PassRecord, Fields
<1>6. PassType(w)
  BY <1>4, <1>5, Here, Zenon DEF PassType
<1>7. PassShape(w)
  BY <1>1, <1>5, Here, Zenon DEF PassShape, sweeping, settling
<1>8. PassReads(w)
  <2>1. ReadBy(o, Len(history))
    <3>1. Len(history) \in 1 .. Len(history)
      BY Here DEF WorldType
    <3> QED  BY <1>4, <3>1 DEF ReadBy, source
  <2> QED  BY <1>1, <1>4, <1>5, <2>1, Here, Zenon DEF PassReads, sweeping, settling, rereading
<1>9. Accounted(w)
  BY <1>1, <1>5, Here, Zenon DEF PassSound, Accounted, Pending, Found, sweeping, settling, recopying
<1>10. JudgedRight(w)
  <2> SUFFICES ASSUME ~v.repairing, NEW k \in Keys, v.prior.lo <= k, k <= v.prior.hi, Differs(k)
               PROVE  o.shadow[k] # o.source[k] /\ o.shadow[k] # v.prior.source[k]
    BY <1>3, <1>5 DEF JudgedRight
  <2>1. o.source[k] = source[k]
    BY <1>3, <1>4, RowAt
  <2>2. o.shadow[k] = shadow[k]
    BY <1>3, <1>4, RowAt
  <2>3. ReadBy(v.prior, v.prior.lsn)
    BY <1>1, Here, Zenon DEF PassReads, rereading
  <2>4. PICK p \in 1 .. v.prior.lsn :
            p <= Len(history) /\ v.prior.source = Rows(history[p], v.prior.lo, v.prior.hi)
    BY <2>3, Zenon DEF ReadBy
  <2>5. p \in 1 .. Len(history)
    BY <1>3, <2>4, Here DEF WorldType
  <2>6. v.prior.source[k] = history[p][k]
    BY <1>3, <2>4, RowAt
  <2>7. history[p][k] = source[k]
    BY <1>1, <2>5, UntouchedKey, Zenon
  <2> QED  BY <2>1, <2>2, <2>6, <2>7, Zenon DEF Differs
<1>11. CopiedRight(w) /\ Vouched(w)
  BY <1>1, <1>5, Zenon DEF CopiedRight, Vouched
<1>12. Honest(w)
  <2>1. scenario.writes # "toggle" /\ o.source = v.prior.source /\ o.shadow # o.source => v.repairing \/ o.real
    BY <1>0, <1>1, RereadIsReal, Zenon
  <2> QED  BY <1>5, <2>1, Here, Zenon DEF Honest
<1>13. PassOK(w)
  BY <1>5, <1>6, <1>7, <1>8, <1>9, <1>10, <1>11, <1>12 DEF PassOK, PassSound
<1> QED  BY <1>0, <1>1, <1>13, PassStep, Zenon

\* The chunk a reread finds equal, or brought to what was read before, is right.
LEMMA SettledInv ==
    ASSUME PInv, UNCHANGED World, v.pc = "judge", Settled,
           v.now.shadow = v.now.source \/ v.now.shadow = v.prior.source
    PROVE  PInv'
<1>0. PICK w : w = v'
  BY Zenon
<1>1. PassRecord(v) /\ v.unsettled \in Nat /\ v.mismatches \in Seq(Observation)
  BY Here, Zenon DEF PassType
<1>2. w = [v EXCEPT !.pc = "settle", !.i = @ + 1]
  BY <1>0, Zenon DEF Settled
<1>3. /\ PassRecord(w) /\ w.pc = "settle" /\ w.lower = v.lower /\ w.differing = v.differing /\ w.i = v.i + 1
      /\ w.prior = v.prior /\ w.now = v.now /\ w.mismatches = v.mismatches /\ w.unsettled = v.unsettled
      /\ w.repairing = v.repairing /\ w.copied = v.copied /\ w.outcome = v.outcome
  BY <1>1, <1>2, Zenon DEF PassRecord, Fields
<1>4. w.unsettled \in Nat /\ w.unsettled >= v.unsettled
  BY <1>1, <1>3
<1>5. oid = 1 /\ ~v.repairing => \A k \in v.prior.lo .. v.prior.hi : k \in 1 .. through => ~Differs(k)
  BY Here, Zenon DEF PassSound, JudgedRight
<1>6. Honest(w)
  BY <1>3, Here, Zenon DEF Honest
<1> QED  BY <1>0, <1>1, <1>3, <1>4, <1>5, <1>6, NextChunkInv, Zenon

\* One found divergent is a mismatch, or the failure of a repair.
LEMMA DivergedInv ==
    ASSUME PInv, UNCHANGED World, v.pc = "judge", NEW o \in Observation, Diverged(o),
           o.lo = v.prior.lo, o.hi = v.prior.hi, o.real = v.now.real,
           v.now.source = v.prior.source, v.now.shadow # v.now.source
    PROVE  PInv'
<1>1. PassRecord(v) /\ v.unsettled \in Nat /\ v.mismatches \in Seq(Observation)
  BY Here, Zenon DEF PassType
<1>2. CASE v.repairing
  <2>1. Finish("repair-error")
    BY <1>2, Zenon DEF Diverged
  <2> QED  BY <2>1, FinishInv, Zenon
<1>3. CASE ~v.repairing
  <2>0. PICK w, ms : w = v' /\ ms = Append(v.mismatches, o)
    BY Zenon
  <2>1. w = [v EXCEPT !.pc = "settle", !.i = @ + 1, !.mismatches = ms]
    BY <1>1, <1>3, <2>0, Zenon DEF Diverged, PassRecord, Fields
  <2>2. /\ PassRecord(w) /\ w.pc = "settle" /\ w.lower = v.lower /\ w.differing = v.differing
        /\ w.i = v.i + 1 /\ w.prior = v.prior /\ w.now = v.now /\ w.mismatches = ms
        /\ w.unsettled = v.unsettled /\ w.repairing = v.repairing /\ w.copied = v.copied
        /\ w.outcome = v.outcome
    BY <1>1, <2>1, Zenon DEF PassRecord, Fields
  <2>3. /\ ms \in Seq(Observation) /\ Len(ms) \in DOMAIN ms /\ ms[Len(ms)] = o
        /\ \A n \in DOMAIN v.mismatches : n \in DOMAIN ms /\ ms[n] = v.mismatches[n]
        /\ \A n \in DOMAIN ms : (n \in DOMAIN v.mismatches /\ ms[n] = v.mismatches[n]) \/ ms[n] = o
    BY <1>1, <2>0
  <2>4. w.unsettled \in Nat /\ w.unsettled >= v.unsettled
    BY <1>1, <2>2
  <2>5. \A k \in v.prior.lo .. v.prior.hi : Found(w, k)
    <3>1. v.prior.lo \in Int /\ v.prior.hi \in Int
      BY Here, Zenon DEF PassType, Observation
    <3> QED  BY <2>2, <2>3, <3>1 DEF Found
  <2>6. Honest(w)
    BY <1>3, <2>2, <2>3, Here, Zenon DEF Honest
  <2> QED  BY <2>0, <2>2, <2>3, <2>4, <2>5, <2>6, NextChunkInv, Zenon
<1> QED  BY <1>2, <1>3, Zenon

\* One that moved is read again.
LEMMA AgainInv ==
    ASSUME PInv, UNCHANGED World, v.pc = "judge", NEW o \in Observation,
           o.lo = v.prior.lo, o.hi = v.prior.hi, ReadBy(o, o.lsn),
           v' = [v EXCEPT !.pc = "await", !.prior = o, !.now = Nothing, !.rereads = @ + 1]
    PROVE  PInv'
<1>0. PICK w : w = v'
  BY Zenon
<1>1. PassRecord(v) /\ v.outcome = "none"
  BY Here, Zenon DEF PassShape
<1>2. /\ PassRecord(w) /\ w.pc = "await" /\ w.lower = v.lower /\ w.differing = v.differing /\ w.i = v.i
      /\ w.prior = o /\ w.now = Nothing /\ w.mismatches = v.mismatches /\ w.unsettled = v.unsettled
      /\ w.repairing = v.repairing /\ w.copied = v.copied /\ w.outcome = v.outcome
  BY <1>0, <1>1, Zenon DEF PassRecord, Fields
<1>3. PassType(w)
  BY <1>2, Here, NothingTyped, Zenon DEF PassType
<1>4. PassShape(w)
  BY <1>1, <1>2, Here, Zenon DEF PassShape, sweeping, settling
<1>5. PassReads(w)
  BY <1>2, Here, Zenon DEF PassReads, sweeping, settling, rereading
<1>6. PassSound(w)
  <2>1. oid = 1 => Accounted(w)
    BY <1>2, Here, Zenon DEF PassSound, Accounted, Pending, Found, sweeping, settling, recopying
  <2> QED  BY <1>1, <1>2, <2>1, Zenon DEF PassSound, JudgedRight, CopiedRight, Vouched
<1>7. Honest(w)
  BY <1>2, Here, Zenon DEF Honest
<1>8. PassOK(w)
  BY <1>2, <1>3, <1>4, <1>5, <1>6, <1>7, Zenon DEF PassOK
<1> QED  BY <1>0, <1>8, PassStep, Zenon

\* The judgement of a reread.
LEMMA settleInv == ASSUME PInv, settle PROVE PInv'
<1>1. v.pc = "judge" /\ UNCHANGED World /\ v.now \in Observation /\ Len(history) \in Nat
  BY Here DEF settle, PassType, WorldType
<1>2. PICK o : o = [v.now EXCEPT !.lsn = Len(history)]
  BY Zenon
<1>3. /\ o \in Observation /\ o.lo = v.now.lo /\ o.hi = v.now.hi /\ o.source = v.now.source
      /\ o.shadow = v.now.shadow /\ o.lsn = Len(history) /\ o.real = v.now.real
  BY <1>1, <1>2, Zenon DEF Observation
<1>4. v.now.lo = v.prior.lo /\ v.now.hi = v.prior.hi /\ ReadBy(v.now, Len(history))
  BY <1>1, Here, Zenon DEF PassReads
<1>5. ReadBy(o, o.lsn)
  BY <1>3, <1>4, Zenon DEF ReadBy
<1>6. PICK verdict : verdict = judge(v.prior, o)
  BY Zenon
<1>7. \/ verdict \in {"equal", "settled"} /\ Settled
      \/ verdict = "diverged" /\ Diverged(o)
      \/ Unresolved
      \/ v' = [v EXCEPT !.pc = "await", !.prior = o, !.now = Nothing, !.rereads = @ + 1]
  <2>1. (CASE verdict \in {"equal", "settled"} -> Settled
           [] verdict = "diverged" -> Diverged(o)
           [] verdict = "hot" /\ v.rereads + 1 >= Attempts /\ v.prior.source # <<>> -> Unresolved
           [] OTHER -> v' = [v EXCEPT !.pc = "await", !.prior = o, !.now = Nothing, !.rereads = @ + 1])
    BY <1>2, <1>6, Zenon DEF settle
  <2> QED  BY <2>1, Zenon
<1>8. CASE verdict \in {"equal", "settled"} /\ Settled
  <2>1. v.now.shadow = v.now.source \/ v.now.shadow = v.prior.source
    BY <1>3, <1>6, <1>8, Zenon DEF judge
  <2> QED  BY <1>1, <1>8, <2>1, SettledInv, Zenon
<1>9. CASE verdict = "diverged" /\ Diverged(o)
  <2>1. v.now.source = v.prior.source /\ v.now.shadow # v.now.source
    BY <1>3, <1>6, <1>9, Zenon DEF judge
  <2> QED  BY <1>1, <1>3, <1>4, <1>9, <2>1, DivergedInv, Zenon
<1>10. CASE Unresolved
  BY <1>1, <1>10, UnresolvedInv, Zenon
<1>11. CASE v' = [v EXCEPT !.pc = "await", !.prior = o, !.now = Nothing, !.rereads = @ + 1]
  BY <1>1, <1>3, <1>4, <1>5, <1>11, AgainInv, Zenon
<1> QED  BY <1>7, <1>8, <1>9, <1>10, <1>11, Zenon

\* What the policy makes of the report.
LEMMA DecideInv == ASSUME PInv, Decide PROVE PInv'
<1>0. PICK w : w = v'
  OBVIOUS
<1>1. /\ UNCHANGED World /\ PassRecord(v) /\ v.pc = "decide" /\ v.repairing = FALSE /\ v.outcome = "none"
      /\ v.i > Len(v.differing) /\ v.i \in Nat /\ Len(v.differing) \in Nat
  BY Here DEF Decide, PassShape, PassType, settling
<1>2. oid = 1 => \A k \in 1 .. through : ~Differs(k) \/ Found(v, k) \/ v.unsettled > 0
  <2>1. \A k : ~Pending(v, k)
    BY <1>1 DEF Pending
  <2> QED  BY <1>1, <2>1, Here, Zenon DEF PassSound, Accounted
<1>3. CASE Clean
  <2>1. Finish("proved") /\ v.mismatches = <<>> /\ v.unsettled = 0
    BY <1>3, Zenon DEF Decide, Clean
  <2>2. \A k : ~Found(v, k)
    BY <2>1 DEF Found
  <2> QED  BY <1>1, <1>2, <2>1, <2>2, FinishInv
<1>4. CASE Finish("unresolved") \/ Finish("divergence")
  BY <1>1, <1>4, FinishInv, Zenon
<1>5. CASE v' = [v EXCEPT !.pc = "delete"] /\ v.mismatches # <<>>
  <2>1. w = [v EXCEPT !.pc = "delete"]
    BY <1>0, <1>5, Zenon
  <2>2. /\ PassRecord(w) /\ w.pc = "delete" /\ w.lower = v.lower /\ w.differing = v.differing /\ w.i = v.i
        /\ w.prior = v.prior /\ w.now = v.now /\ w.mismatches = v.mismatches /\ w.unsettled = v.unsettled
        /\ w.repairing = v.repairing /\ w.copied = v.copied /\ w.outcome = v.outcome
    BY <1>1, <2>1, Zenon DEF PassRecord, Fields
  <2>3. PassType(w)
    BY <2>2, Here, Zenon DEF PassType
  <2>4. PassShape(w)
    BY <1>1, <1>5, <2>2, Here, Zenon DEF PassShape, sweeping, settling
  <2>5. PassReads(w)
    BY <2>2, Zenon DEF PassReads, sweeping, settling, rereading
  <2>6. PassSound(w)
    <3>1. oid = 1 => Accounted(w)
      BY <1>1, <1>2, <2>2, Zenon DEF Accounted, Found, sweeping, settling
    <3> QED  BY <1>1, <2>2, <3>1, Zenon DEF PassSound, JudgedRight, CopiedRight, Vouched
  <2>7. Honest(w)
    BY <2>2, Here, Zenon DEF Honest
  <2>8. PassOK(w)
    BY <2>2, <2>3, <2>4, <2>5, <2>6, <2>7, Zenon DEF PassOK
  <2> QED  BY <1>0, <1>1, <2>8, PassStep, Zenon
<1> QED  BY <1>3, <1>4, <1>5, Zenon DEF Decide

\* The recopy opens.
LEMMA DeleteChunksInv == ASSUME PInv, DeleteChunks PROVE PInv'
<1>0. PICK w : w = v'
  OBVIOUS
<1>1. /\ UNCHANGED World /\ PassRecord(v) /\ v.pc = "delete" /\ v.repairing = FALSE /\ v.outcome = "none"
      /\ v.mismatches # <<>> /\ v.mismatches \in Seq(Observation)
  BY Here, Zenon DEF DeleteChunks, PassShape, PassType, settling
<1>2. w = [v EXCEPT !.pc = "copy", !.i = 1, !.copied = <<>>]
  BY <1>0, Zenon DEF DeleteChunks
<1>3. /\ PassRecord(w) /\ w.pc = "copy" /\ w.lower = v.lower /\ w.differing = v.differing /\ w.i = 1
      /\ w.prior = v.prior /\ w.now = v.now /\ w.mismatches = v.mismatches /\ w.unsettled = v.unsettled
      /\ w.repairing = v.repairing /\ w.copied = <<>> /\ w.outcome = v.outcome
  BY <1>1, <1>2, Zenon DEF PassRecord, Fields
<1>4. PassType(w)
  <2>1. 1 \in Nat
    BY Zenon
  <2> QED  BY <1>3, <2>1, Here, EmptyRows, Zenon DEF PassType
<1>5. PassShape(w)
  <2>1. Len(v.mismatches) >= 1
    BY <1>1
  <2> QED  BY <1>1, <1>3, <2>1, Here DEF PassShape, sweeping, settling
<1>6. PassReads(w)
  BY <1>3, Zenon DEF PassReads, sweeping, settling, rereading
<1>7. PassSound(w)
  <2>1. oid = 1 => Accounted(w)
    BY <1>1, <1>3, Here, Zenon DEF PassSound, Accounted, Found, sweeping, settling, recopying
  <2>2. CopiedRight(w)
    <3>1. \A n \in DOMAIN w.mismatches : ~(n < w.i)
      BY <1>1, <1>3
    <3> QED  BY <1>3, <3>1, EmptyRows, Zenon DEF CopiedRight
  <2> QED  BY <1>1, <1>3, <2>1, <2>2, Zenon DEF PassSound, JudgedRight, Vouched
<1>8. Honest(w)
  BY <1>3, Here, Zenon DEF Honest
<1>9. PassOK(w)
  BY <1>3, <1>4, <1>5, <1>6, <1>7, <1>8, Zenon DEF PassOK
<1> QED  BY <1>0, <1>1, <1>9, PassStep, Zenon

-----------------------------------------------------------------------------
(* The recopy *)

\* Rows put over other rows.
LEMMA RowsOver ==
    ASSUME NEW f \in RowsType, NEW g \in RowsType
    PROVE  /\ Over(f, g) \in RowsType /\ DOMAIN Over(f, g) = DOMAIN f \cup DOMAIN g
           /\ \A k \in DOMAIN f : Over(f, g)[k] = f[k]
           /\ \A k \in DOMAIN g \ DOMAIN f : Over(f, g)[k] = g[k]
<1>1. PICK S \in SUBSET Keys : f \in [S -> Int]
  BY Zenon DEF RowsType
<1>2. PICK T \in SUBSET Keys : g \in [T -> Int]
  BY Zenon DEF RowsType
<1>3. Over(f, g) = [x \in S \cup T |-> IF x \in S THEN f[x] ELSE g[x]]
  BY <1>1, <1>2, Zenon DEF Over
<1>4. Over(f, g) \in [S \cup T -> Int] /\ S \cup T \in SUBSET Keys
  BY <1>1, <1>2, <1>3, Zenon
<1>5. Over(f, g) \in RowsType
  BY <1>4, Zenon DEF RowsType
<1> QED  BY <1>1, <1>2, <1>3, <1>5, Zenon

\* A chunk is copied from the source, or collides with a row that stays.
LEMMA CopyChunkInv == ASSUME PInv, CopyChunk PROVE PInv'
<1>0. PICK w, m : w = v' /\ m = v.mismatches[v.i]
  BY Zenon
<1>1. /\ UNCHANGED World /\ PassRecord(v) /\ v.pc = "copy" /\ v.repairing = FALSE /\ v.outcome = "none"
      /\ v.i \in Nat /\ v.i >= 1 /\ v.i <= Len(v.mismatches) /\ v.mismatches \in Seq(Observation)
  BY Here, Zenon DEF CopyChunk, PassShape, PassType, settling
<1>2. m \in Observation /\ v.i \in DOMAIN v.mismatches
  BY <1>0, <1>1
<1>3. m.lo \in Int /\ m.hi \in Int
  BY <1>2, Zenon DEF Observation
<1>4. CASE Collided
  <2>1. CASE Finish("failed")
    BY <1>1, <2>1, FinishInv, Zenon
  <2>2. CASE v' = [NewPass EXCEPT !.pc = "sweep", !.attempt = v.attempt + 1]
    <3>1. PICK a : a = v.attempt + 1
      BY Zenon
    <3>2. v' = [NewPass EXCEPT !.pc = "sweep", !.attempt = a]
      BY <2>2, <3>1, Zenon
    <3> QED  BY <1>1, <3>2, SweepInv, Zenon
  <2> QED  BY <1>4, <2>1, <2>2, Zenon DEF Collided
<1>5. CASE v' = [v EXCEPT !.copied = Over(Rows(source, m.lo, m.hi), @), !.i = @ + 1,
                          !.pc = IF v.i = Len(v.mismatches) THEN "commit" ELSE "copy"]
  <2>1. PICK c, pc : /\ c = Over(Rows(source, m.lo, m.hi), v.copied)
                     /\ pc = IF v.i = Len(v.mismatches) THEN "commit" ELSE "copy"
    BY Zenon
  <2>2. w = [v EXCEPT !.copied = c, !.i = @ + 1, !.pc = pc]
    BY <1>0, <1>1, <1>5, <2>1, Zenon DEF PassRecord, Fields
  <2>3. /\ PassRecord(w) /\ w.pc = pc /\ w.lower = v.lower /\ w.differing = v.differing /\ w.i = v.i + 1
        /\ w.prior = v.prior /\ w.now = v.now /\ w.mismatches = v.mismatches /\ w.unsettled = v.unsettled
        /\ w.repairing = v.repairing /\ w.copied = c /\ w.outcome = v.outcome
    BY <1>1, <2>2, Zenon DEF PassRecord, Fields
  <2>4. source \in [Keys -> Int] /\ v.copied \in RowsType
    BY Here DEF WorldType, source, PassType
  <2>5. /\ Rows(source, m.lo, m.hi) \in RowsType
        /\ DOMAIN Rows(source, m.lo, m.hi) = {j \in Keys : m.lo <= j /\ j <= m.hi}
        /\ \A k \in Keys : m.lo <= k /\ k <= m.hi => Rows(source, m.lo, m.hi)[k] = source[k]
    BY <1>3, <2>4, RowsAre, Zenon
  <2>6. /\ c \in RowsType /\ DOMAIN c = {j \in Keys : m.lo <= j /\ j <= m.hi} \cup DOMAIN v.copied
        /\ \A k \in DOMAIN c : c[k] = source[k] \/ (k \in DOMAIN v.copied /\ c[k] = v.copied[k])
    <3>1. PICK r : r = Rows(source, m.lo, m.hi)
      BY Zenon
    <3>2. c = Over(r, v.copied) /\ r \in RowsType
      BY <2>1, <2>5, <3>1, Zenon
    <3>3. /\ c \in RowsType /\ DOMAIN c = DOMAIN r \cup DOMAIN v.copied
          /\ \A k \in DOMAIN r : c[k] = r[k]
          /\ \A k \in DOMAIN v.copied \ DOMAIN r : c[k] = v.copied[k]
      BY <2>4, <3>2, RowsOver, ZenonT(30)
    <3> QED  BY <2>5, <3>1, <3>3, Zenon
  <2>7. PassType(w)
    <3>1. v.i + 1 \in Nat
      BY <1>1
    <3> QED  BY <2>3, <2>6, <3>1, Here, Zenon DEF PassType
  <2>8. PassShape(w)
    BY <1>1, <2>1, <2>3, Here DEF PassShape, sweeping, settling
  <2>9. PassReads(w)
    BY <2>1, <2>3, Zenon DEF PassReads, sweeping, settling, rereading
  <2>10. ASSUME oid = 1 PROVE CopiedRight(w)
    <3>0. CopiedRight(v)
      BY <2>10, Here, Zenon DEF PassSound
    <3>1. \A k \in DOMAIN c : c[k] = source[k] \/ Owed(k)
      BY <1>1, <2>6, <3>0, Zenon DEF CopiedRight
    <3>2. ASSUME NEW n \in DOMAIN v.mismatches, pc = "commit" \/ n < v.i + 1, NEW k \in Keys,
                 v.mismatches[n].lo <= k, k <= v.mismatches[n].hi
          PROVE  k \in DOMAIN c
      <4>1. n \in Nat /\ n <= Len(v.mismatches)
        BY <1>1
      <4>2. CASE n = v.i
        BY <1>0, <2>6, <3>2, <4>2, Zenon
      <4>3. CASE n < v.i
        BY <1>1, <2>6, <3>0, <3>2, <4>3 DEF CopiedRight
      <4> QED  BY <1>1, <2>1, <3>2, <4>1, <4>2, <4>3
    <3> QED  BY <2>3, <3>1, <3>2, Zenon DEF CopiedRight
  <2>11. PassSound(w)
    <3>1. oid = 1 => Accounted(w)
      BY <1>1, <2>1, <2>3, Here, Zenon DEF PassSound, Accounted, Found, sweeping, settling, recopying
    <3> QED  BY <1>1, <2>1, <2>3, <2>10, <3>1, SMTT(30) DEF PassSound, JudgedRight, Vouched
  <2>12. Honest(w)
    BY <2>1, <2>3, Here, Zenon DEF Honest
  <2>13. PassOK(w)
    BY <2>3, <2>7, <2>8, <2>9, <2>11, <2>12, Zenon DEF PassOK
  <2> QED  BY <1>0, <1>1, <2>13, PassStep, Zenon
<1> QED  BY <1>0, <1>4, <1>5, Zenon DEF CopyChunk

\* The commit leaves every chunk it repaired as the source has it, or for the
\* stream to mend.
LEMMA CommitWorld ==
    ASSUME PInv, CommitRecopy
    PROVE  /\ WorldInv' /\ UNCHANGED <<scenario, history, oid, applied, confirmed, through>>
           /\ oid = 1 => \A k \in Keys : ~Differs(k) \/ Found(v, k) => ~Differs(k)'
<1>1. /\ UNCHANGED <<scenario, history, oid, applied, confirmed>> /\ shadow' = TxView /\ v.pc = "commit"
      /\ source' = source /\ through' = through
  BY Zenon DEF CommitRecopy, source, through
<1>2. WorldInv /\ WorldType /\ v.copied \in RowsType /\ \A k \in DOMAIN v.copied : v.copied[k] \in Int
  BY Here, Zenon DEF PassType, RowsType
<1>3. shadow' \in [Keys -> Int]
  BY <1>1, <1>2 DEF TxView, WorldType
<1>4. WorldType'
  BY <1>1, <1>2, <1>3, Zenon DEF WorldType
<1>5. ASSUME oid = 1, NEW k \in Keys, ~Differs(k) \/ Found(v, k) PROVE ~Differs(k)'
  <2>0. Owed(k)' <=> Owed(k)
    BY <1>1, Zenon DEF Owed, Changes
  <2>1. CASE k \in DOMAIN v.copied
    <3>1. shadow'[k] = v.copied[k]
      BY <1>1, <2>1, Zenon DEF TxView
    <3>2. v.copied[k] = source[k] \/ Owed(k)
      BY <1>1, <1>5, <2>1, Here, Zenon DEF PassSound, CopiedRight
    <3> QED  BY <1>1, <2>0, <3>1, <3>2, Zenon DEF Differs
  <2>2. CASE k \notin DOMAIN v.copied
    <3>1. ~Found(v, k)
      BY <1>1, <1>5, <2>2, Here, Zenon DEF PassSound, CopiedRight, Found
    <3>2. shadow'[k] = shadow[k]
      BY <1>1, <2>2, <3>1, Zenon DEF TxView, InMismatch, Found
    <3> QED  BY <1>1, <1>5, <2>0, <3>1, <3>2, Zenon DEF Differs
  <2> QED  BY <2>1, <2>2, Zenon
<1>6. StreamOK'
  <2>1. \A k \in Keys : ~Changes(k, applied[k], confirmed)'
    BY <1>1, <1>2, Zenon DEF WorldInv, StreamOK, Changes
  <2> QED  BY <1>1, <1>2, <1>5, <2>1, Zenon DEF WorldInv, StreamOK
<1>7. Recorded' /\ (scenario'.writes # "toggle" => NeverReturns')
  BY <1>1, <1>2 DEF WorldInv, Recorded, NeverReturns, Changes
<1> QED  BY <1>1, <1>4, <1>5, <1>6, <1>7, Zenon DEF WorldInv

\* The commit of a recopy.
LEMMA CommitRecopyInv == ASSUME PInv, CommitRecopy PROVE PInv'
<1>0. /\ WorldInv' /\ UNCHANGED <<scenario, history, oid, confirmed, through>>
      /\ oid = 1 => \A k \in Keys : ~Differs(k) \/ Found(v, k) => ~Differs(k)'
  BY CommitWorld, Zenon
<1>1. /\ PassRecord(v) /\ v.pc = "commit" /\ v.repairing = FALSE /\ v.outcome = "none" /\ v.lower >= 1
      /\ scenario.live \/ (v.unsettled = 0 /\ v.differing = <<>>)
      /\ v.mismatches \in Seq(Observation) /\ Len(history) \in Nat
  BY Here DEF CommitRecopy, PassShape, PassType, WorldType, settling
<1>2. oid = 1 => \A k \in 1 .. through : ~Differs(k)' \/ v.unsettled > 0
  <2>1. oid = 1 => \A k \in 1 .. through : k \in Keys /\ (~Differs(k) \/ Found(v, k) \/ v.unsettled > 0)
    BY <1>1, Here, Zenon DEF PassSound, Accounted, recopying
  <2> QED  BY <1>0, <2>1, Zenon
<1>3. PICK w : w = v'
  OBVIOUS
<1>4. CASE scenario.live
  <2>1. PICK d : d = [n \in DOMAIN v.mismatches |->
                         [Nothing EXCEPT !.lo = v.mismatches[n].lo, !.hi = v.mismatches[n].hi,
                                         !.lsn = Len(history)]]
    BY Zenon
  <2>2. w = [v EXCEPT !.pc = "settle", !.i = 1, !.repairing = TRUE, !.copied = <<>>, !.differing = d]
    BY <1>3, <1>4, <2>1, Zenon DEF CommitRecopy
  <2>3. /\ PassRecord(w) /\ w.pc = "settle" /\ w.lower = v.lower /\ w.differing = d /\ w.i = 1
        /\ w.prior = v.prior /\ w.now = v.now /\ w.mismatches = v.mismatches /\ w.unsettled = v.unsettled
        /\ w.repairing = TRUE /\ w.copied = <<>> /\ w.outcome = v.outcome
    BY <1>1, <2>2, Zenon DEF PassRecord, Fields
  <2>4. d \in Seq(Observation)
    <3>1. ASSUME NEW n \in DOMAIN v.mismatches
          PROVE  [Nothing EXCEPT !.lo = v.mismatches[n].lo, !.hi = v.mismatches[n].hi,
                                 !.lsn = Len(history)] \in Observation
      <4>1. v.mismatches[n] \in Observation
        BY <1>1
      <4>2. v.mismatches[n].lo \in Int /\ v.mismatches[n].hi \in Int
        BY <4>1, Zenon DEF Observation
      <4> QED  BY <1>1, <4>2, NothingTyped, Zenon DEF Observation
    <3>2. DOMAIN v.mismatches = 1 .. Len(v.mismatches) /\ Len(v.mismatches) \in Nat
      BY <1>1
    <3>3. d \in [1 .. Len(v.mismatches) -> Observation]
      BY <2>1, <3>1, <3>2, Zenon
    <3>4. \A n \in Nat : \A f \in [1 .. n -> Observation] : f \in Seq(Observation)
      OBVIOUS
    <3> QED  BY <3>2, <3>3, <3>4, Zenon
  <2>5. PassType(v)'
    <3>1. 1 \in Nat
      OBVIOUS
    <3> QED  BY <1>3, <2>3, <2>4, <3>1, Here, EmptyRows, Zenon DEF PassType
  <2>6. PassRecord(v)' /\ PassShape(v)'
    BY <1>0, <1>1, <1>3, <1>4, <2>3 DEF PassRecord, PassShape, sweeping, settling
  <2>7. PassReads(v)'
    BY <1>3, <2>3, Zenon DEF PassReads, rereading
  <2>8. PassSound(v)'
    <3>1. oid' = 1 => Accounted(v)'
      BY <1>0, <1>2, <1>3, <2>3, Zenon DEF Accounted, sweeping, recopying
    <3> QED  BY <1>1, <1>3, <2>3, <3>1, Zenon DEF PassSound, JudgedRight, CopiedRight, Vouched
  <2>9. Honest(v)'
    BY <1>0, <1>3, <2>3, Here, Zenon DEF Honest
  <2> QED  BY <1>0, <2>5, <2>6, <2>7, <2>8, <2>9, Zenon DEF PInv, PassOK
<1>5. CASE ~scenario.live /\ scenario.policy = "repair"
  <2>1. w = [v EXCEPT !.pc = "recheck", !.i = 1, !.copied = <<>>]
    BY <1>3, <1>5, Zenon DEF CommitRecopy
  <2>2. /\ PassRecord(w) /\ w.pc = "recheck" /\ w.lower = v.lower /\ w.differing = v.differing /\ w.i = 1
        /\ w.prior = v.prior /\ w.now = v.now /\ w.mismatches = v.mismatches /\ w.unsettled = v.unsettled
        /\ w.repairing = v.repairing /\ w.copied = <<>> /\ w.outcome = v.outcome
    BY <1>1, <2>1, Zenon DEF PassRecord, Fields
  <2>3. PassType(v)'
    <3>1. 1 \in Nat
      OBVIOUS
    <3> QED  BY <1>3, <2>2, <3>1, Here, EmptyRows, Zenon DEF PassType
  <2>4. PassRecord(v)' /\ PassShape(v)'
    BY <1>0, <1>1, <1>3, <1>5, <2>2 DEF PassRecord, PassShape, sweeping, settling
  <2>5. PassReads(v)'
    BY <1>3, <2>2, Zenon DEF PassReads, sweeping, settling, rereading
  <2>6. PassSound(v)'
    <3>1. oid' = 1 => Accounted(v)'
      BY <1>0, <1>1, <1>2, <1>3, <2>2, Zenon DEF Accounted, sweeping, settling, recopying
    <3> QED  BY <1>1, <1>3, <2>2, <3>1, Zenon DEF PassSound, JudgedRight, CopiedRight, Vouched
  <2>7. Honest(v)'
    BY <1>0, <1>5 DEF Honest
  <2> QED  BY <1>0, <2>3, <2>4, <2>5, <2>6, <2>7 DEF PInv, PassOK
<1>6. CASE ~scenario.live /\ scenario.policy # "repair"
  <2>1. w = [NewPass EXCEPT !.pc = "done", !.outcome = "recopied"]
    BY <1>3, <1>6, Zenon DEF CommitRecopy, Finish
  <2>2. /\ PassRecord(w) /\ w.pc = "done" /\ w.lower = 1 /\ w.differing = <<>> /\ w.i = 1
        /\ w.prior = Nothing /\ w.now = Nothing /\ w.mismatches = <<>> /\ w.unsettled = 0
        /\ w.repairing = FALSE /\ w.copied = <<>> /\ w.outcome = "recopied"
    BY <2>1, Zenon DEF NewPass, PassRecord, Fields
  <2>3. PassType(v)'
    <3>1. 0 \in Nat /\ 1 \in Nat
      BY Zenon
    <3> QED  BY <1>3, <2>2, <3>1, NothingTyped, EmptyRows, Zenon DEF PassType
  <2>4. PassRecord(v)' /\ PassShape(v)'
    BY <1>3, <2>2 DEF PassRecord, PassShape, sweeping, settling
  <2>5. PassReads(v)'
    BY <1>3, <2>2, Zenon DEF PassReads, sweeping, settling, rereading
  <2>6. PassSound(v)'
    <3>1. ~(v.unsettled > 0)
      BY <1>1, <1>6
    <3>2. oid' = 1 => Vouched(v)'
      BY <1>0, <1>2, <3>1, Zenon DEF Vouched
    <3> QED  BY <1>3, <2>2, <3>2, Zenon DEF PassSound, Accounted, JudgedRight, CopiedRight, sweeping, settling, recopying
  <2>7. Honest(v)'
    BY <1>0, <1>6, Zenon DEF Honest
  <2> QED  BY <1>0, <2>3, <2>4, <2>5, <2>6, <2>7 DEF PInv, PassOK
<1> QED  BY <1>4, <1>5, <1>6, Zenon

\* The reread of a quiesced repair.
LEMMA RereadInv == ASSUME PInv, Reread PROVE PInv'
<1>0. PICK w : w = v'
  OBVIOUS
<1>1. /\ UNCHANGED World /\ PassRecord(v) /\ v.pc = "recheck" /\ v.repairing = FALSE /\ v.outcome = "none"
      /\ ~(v.unsettled > 0) /\ v.i \in Nat
  BY Here DEF Reread, PassShape, PassType, settling
<1>2. CASE Finish("repair-error")
  BY <1>1, <1>2, FinishInv, Zenon
<1>3. CASE Finish("repaired")
  <2>1. oid = 1 => \A k \in 1 .. through : ~Differs(k)
    BY <1>1, Here, Zenon DEF PassSound, Accounted
  <2> QED  BY <1>1, <1>3, <2>1, FinishInv, Zenon
<1>4. CASE v' = [v EXCEPT !.i = @ + 1]
  <2>1. w = [v EXCEPT !.i = @ + 1]
    BY <1>0, <1>4, Zenon
  <2>2. /\ PassRecord(w) /\ w.pc = "recheck" /\ w.lower = v.lower /\ w.differing = v.differing
        /\ w.i = v.i + 1 /\ w.prior = v.prior /\ w.now = v.now /\ w.mismatches = v.mismatches
        /\ w.unsettled = v.unsettled /\ w.repairing = v.repairing /\ w.copied = v.copied
        /\ w.outcome = v.outcome
    BY <1>1, <2>1, Zenon DEF PassRecord, Fields
  <2>3. PassType(w)
    <3>1. v.i + 1 \in Nat
      BY <1>1
    <3> QED  BY <2>2, <3>1, Here, Zenon DEF PassType
  <2>4. PassShape(w)
    BY <1>1, <2>2, Here DEF PassShape, sweeping, settling
  <2>5. PassReads(w)
    BY <2>2, Zenon DEF PassReads, sweeping, settling, rereading
  <2>6. PassSound(w)
    <3>1. oid = 1 => Accounted(w)
      BY <1>1, <2>2, Here, Zenon DEF PassSound, Accounted, sweeping, settling, recopying
    <3> QED  BY <1>1, <2>2, <3>1, Zenon DEF PassSound, JudgedRight, CopiedRight, Vouched
  <2>7. Honest(w)
    BY <2>2, Here, Zenon DEF Honest
  <2>8. PassOK(w)
    BY <2>2, <2>3, <2>4, <2>5, <2>6, <2>7 DEF PassOK
  <2> QED  BY <1>0, <1>1, <2>8, PassStep, Zenon
<1> QED  BY <1>2, <1>3, <1>4, Zenon DEF Reread

\* The guard of a transaction refuses, or anything fails: the pass vouches for nothing.
LEMMA PassFailsInv == ASSUME PInv, PassFails \/ GuardRefuses PROVE PInv'
<1>1. UNCHANGED World /\ (Finish("failed") \/ Finish("refused"))
  BY Zenon DEF PassFails, GuardRefuses
<1> QED  BY <1>1, FinishInv, Zenon

-----------------------------------------------------------------------------
(* The theorems *)

\* The pass has not begun, and the stream has delivered nothing.
LEMMA InitInv == Init => PInv
<1> SUFFICES ASSUME Init PROVE PInv
  BY Zenon
<1>1. /\ scenario \in Scenarios /\ history = <<scenario.source>> /\ shadow = scenario.shadow /\ oid = 1
      /\ applied = [k \in Keys |-> 1] /\ confirmed = 1 /\ v = NewPass
  BY Zenon DEF Init
<1>2. /\ history \in Seq([Keys -> Int]) /\ Len(history) = 1
      /\ shadow \in [Keys -> Int]
  BY <1>1, ScenariosAssumption
<1>3. WorldType
  BY <1>1, <1>2 DEF WorldType
<1>4. Recorded /\ NeverReturns /\ \A k \in Keys : ~Changes(k, applied[k], confirmed)
  BY <1>1, <1>2 DEF Recorded, NeverReturns, Changes
<1>5. WorldInv
  BY <1>1, <1>3, <1>4 DEF WorldInv, StreamOK
<1>6. PICK w : w = v
  BY Zenon
<1>7. /\ PassRecord(w) /\ w.pc = "start" /\ w.lower = 1 /\ w.differing = <<>> /\ w.i = 1
      /\ w.prior = Nothing /\ w.now = Nothing /\ w.mismatches = <<>> /\ w.unsettled = 0
      /\ w.repairing = FALSE /\ w.copied = <<>> /\ w.outcome = "none"
  BY <1>1, <1>6, Zenon DEF NewPass, PassRecord, Fields
<1>8. PassType(w)
  <2>1. w.lower \in Nat /\ w.i \in Nat /\ w.unsettled \in Nat
    BY <1>7
  <2> QED  BY <1>7, <2>1, NothingTyped, EmptyRows, Zenon DEF PassType
<1>9. PassShape(w) /\ PassReads(w)
  BY <1>1, <1>6, <1>7 DEF PassShape, PassReads, settling, sweeping, rereading
<1>10. PassSound(w) /\ Honest(w)
  BY <1>7 DEF PassSound, Accounted, JudgedRight, CopiedRight, Vouched, Honest, settling, sweeping, recopying
<1> QED  BY <1>5, <1>6, <1>7, <1>8, <1>9, <1>10 DEF PInv, PassOK

\* Every step keeps the invariant.
LEMMA StepInv == PInv /\ [Next]_vars => PInv'
<1> SUFFICES ASSUME PInv, [Next]_vars PROVE PInv'
  BY Zenon
<1>1. CASE Write \/ Flush \/ Confirm \/ ReplaceShadow
  BY <1>1, WriteInv, FlushInv, ConfirmInv, ReplaceShadowInv, Zenon
<1>2. CASE Check \/ compareNext \/ markPosition
  BY <1>2, CheckInv, compareNextInv, markPositionInv
<1>3. CASE SettleNext \/ awaitConfirmed \/ observe \/ settle
  BY <1>3, SettleNextInv, awaitConfirmedInv, observeInv, settleInv
<1>4. CASE Decide \/ DeleteChunks \/ CopyChunk \/ CommitRecopy \/ Reread
  BY <1>4, DecideInv, DeleteChunksInv, CopyChunkInv, CommitRecopyInv, RereadInv
<1>5. CASE PassFails \/ GuardRefuses
  BY <1>5, PassFailsInv, Zenon
<1>6. CASE UNCHANGED vars
  <2>1. UNCHANGED World /\ v' = v
    BY <1>6, Zenon DEF vars, World
  <2>2. PICK w : w = v
    BY Zenon
  <2>3. PassOK(w) /\ w = v'
    BY <2>1, <2>2, Zenon DEF PInv
  <2> QED  BY <2>1, <2>3, PassStep, Zenon
<1> QED  BY <1>1, <1>2, <1>3, <1>4, <1>5, <1>6, Zenon DEF Next, PassAdvances

\* The inductive invariant holds in every reachable state: what the pass has
\* compared is right, to be settled, to be repaired or given up (check.go,
\* live.go, settle.go, repair.go, live_repair.go, recopy_retry.go).
THEOREM PassInvariance == Spec => []PInv
BY InitInv, StepInv, PTL DEF Spec

\* A pass that mints its proof, or returns its repairs without an error, is right
\* for every key through the watermark (check.go prove, live.go CheckLive,
\* recopy_retry.go recopyUntilClear): whatever the source and the catch-up did
\* meanwhile, no key differs that the stream will not mend.
THEOREM ProofsAreSound == Spec => []PassIsSound
<1>1. PInv => PassIsSound
  BY Zenon DEF PInv, PassOK, PassSound, Vouched, PassIsSound
<1> QED  BY <1>1, PassInvariance, PTL

\* A live pass calls a chunk divergent only when a row of it differs that the
\* stream has nothing left for (settle.go verdictDiverged), as long as the source
\* does not set a row back to a value it held: that is the one history of the
\* source that can deceive it, and run checksum_toggle shows that it does.
THEOREM DivergenceIsNeverGuessed ==
    ASSUME \A s \in Scenarios : s.live => s.writes # "toggle"
    PROVE  Spec => []DivergenceIsReal
<1>1. PInv => DivergenceIsReal
  BY Zenon DEF PInv, WorldInv, WorldType, PassOK, Honest, DivergenceIsReal
<1> QED  BY <1>1, PassInvariance, PTL
=============================================================================
