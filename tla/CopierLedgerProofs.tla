------------------------- MODULE CopierLedgerProofs -------------------------
(***************************************************************************)
(* The copier's ledger and its workers, for every key space and any number *)
(* of workers, passes and runs: claimed and landed chunks tile the keys    *)
(* between the watermark and the frontier, what counts as landed has been  *)
(* read by a committed pass, each worker works on a chunk of its own that  *)
(* stays in flight until it is landed, and a change of the ledger moves    *)
(* keys only as module CopyPosition allows.                                *)
(***************************************************************************)
EXTENDS Copier, TLAPS

Chunk == {c \in [lower : Key, upper : Key] : c.lower <= c.upper}

\* The last key at or below a watermark, one below the key space when there is
\* none: startAfter's lower bound is the key after it.
High(w) == IF w.valid THEN w.value ELSE MinInt64 - 1

LedgerType ==
    /\ cut \in Watermark /\ watermark \in Watermark
    /\ from \in Watermark /\ saved \in Watermark
    /\ inFlight \subseteq Chunk /\ landed \subseteq Chunk /\ covered \subseteq Key
    /\ DOMAIN partial \subseteq inFlight
    /\ \A c \in DOMAIN partial : partial[c] \subseteq KeysOf(c)

\* A claimed or landed chunk lies above the watermark and apart from every
\* other, together they are the keys up to the frontier, and the watermark has
\* absorbed every landed chunk it can.
Tiling ==
    /\ inFlight \cap landed = {}
    /\ \A c, d \in inFlight \cup landed : c # d => (c.upper < d.lower \/ d.upper < c.lower)
    /\ \A k \in Key : (High(watermark) < k /\ k <= High(cut)) <=>
                      (\E c \in inFlight \cup landed : k \in KeysOf(c))
    /\ High(saved) <= High(watermark) /\ High(watermark) <= High(cut)
    /\ complete <=> High(watermark) = MaxInt64
    /\ ~complete => next = High(watermark) + 1
    /\ \A c \in landed : c.lower # High(watermark) + 1

\* What the ledger takes for landed, a committed pass has read.
Coverage ==
    /\ Through(watermark) \subseteq covered
    /\ \A c \in landed : KeysOf(c) \subseteq covered
    /\ \A c \in DOMAIN partial : KeysOf(c) \ partial[c] \subseteq covered

\* The part of the invariant that is about the ledger alone.
LedgerInv == LedgerType /\ Tiling /\ Coverage

-----------------------------------------------------------------------------
(* Watermarks and integers. *)

\* A watermark is read through the last key it covers.
LEMMA WatermarkFacts ==
    ASSUME NEW w \in Watermark
    PROVE  /\ High(w) \in Int /\ MinInt64 - 1 <= High(w) /\ High(w) <= MaxInt64
           /\ Complete(w) <=> High(w) = MaxInt64
           /\ startAfter(w).done <=> High(w) = MaxInt64
           /\ High(w) # MaxInt64 => startAfter(w).next = High(w) + 1
           /\ startAfter(w) \in [next : Int, done : BOOLEAN]
           /\ \A k \in Key : k \in Through(w) <=> k <= High(w)
           /\ Through(w) \subseteq Key
<1>1. CASE w = ZeroWatermark
  BY <1>1, KeySpace DEF ZeroWatermark, High, Complete, startAfter, Through, Key
<1>2. ASSUME NEW k \in Key, w = NewWatermark(k)
      PROVE  /\ w.valid /\ w.value = k /\ k \in Int /\ MinInt64 <= k /\ k <= MaxInt64
             /\ High(w) = k
  BY <1>2, KeySpace DEF NewWatermark, High, Key
<1>3. ASSUME NEW k \in Key, w = NewWatermark(k)
      PROVE  /\ k = MaxInt64 => startAfter(w) = [next |-> 0, done |-> TRUE]
             /\ k # MaxInt64 => startAfter(w) = [next |-> k + 1, done |-> FALSE]
             /\ Complete(w) <=> k = MaxInt64
  BY <1>2, <1>3, KeySpace, Zenon DEF startAfter, Complete, Inc
<1>4. ASSUME NEW k \in Key, w = NewWatermark(k)
      PROVE  /\ \A j \in Key : j \in Through(w) <=> j <= High(w)
             /\ Through(w) \subseteq Key
  BY <1>2, <1>4, Zenon DEF Through
<1>5. CASE \E k \in Key : w = NewWatermark(k)
  <2>1. PICK k \in Key : w = NewWatermark(k)
    BY <1>5, Zenon
  <2>2. k \in Int /\ MinInt64 <= k /\ k <= MaxInt64 /\ High(w) = k
    BY <1>2, <2>1, Zenon
  <2>3. CASE k = MaxInt64
    <3>1. startAfter(w) = [next |-> 0, done |-> TRUE] /\ Complete(w)
      BY <1>3, <2>1, <2>3, Zenon
    <3>2. startAfter(w) \in [next : Int, done : BOOLEAN] /\ startAfter(w).done
      BY <3>1
    <3> QED  BY <1>4, <2>1, <2>2, <2>3, <3>1, <3>2, KeySpace
  <2>4. CASE k # MaxInt64
    <3>1. startAfter(w) = [next |-> k + 1, done |-> FALSE] /\ ~Complete(w)
      BY <1>3, <2>1, <2>4, Zenon
    <3> QED  BY <1>4, <2>1, <2>2, <2>4, <3>1, KeySpace
  <2> QED  BY <2>3, <2>4, Zenon
<1> QED  BY <1>1, <1>5, Zenon DEF Watermark

\* The watermark of a key covers up to that key.
LEMMA NewWatermarkFacts ==
    ASSUME NEW k \in Key
    PROVE  NewWatermark(k) \in Watermark /\ High(NewWatermark(k)) = k
BY Zenon DEF Watermark, NewWatermark, High

\* Key arithmetic does not wrap below the last key.
LEMMA KeyFacts ==
    /\ \A k \in Key : k \in Int /\ MinInt64 <= k /\ k <= MaxInt64
    /\ \A k \in Int : MinInt64 <= k /\ k <= MaxInt64 => k \in Key
    /\ \A k \in Key : k # MaxInt64 => Inc(k) = k + 1
    /\ MinInt64 \in Int /\ MaxInt64 \in Int /\ MinInt64 < MaxInt64
BY KeySpace DEF Key, Inc

\* The bounds and the keys of a chunk.
LEMMA ChunkFacts ==
    ASSUME NEW c \in Chunk
    PROVE  /\ c.lower \in Key /\ c.upper \in Key /\ c.lower <= c.upper
           /\ c.lower \in Int /\ c.upper \in Int
           /\ MinInt64 <= c.lower /\ c.upper <= MaxInt64
           /\ \A k \in Int : k \in KeysOf(c) <=> (c.lower <= k /\ k <= c.upper)
           /\ KeysOf(c) \subseteq Key
           /\ c.lower \in KeysOf(c) /\ c.upper \in KeysOf(c)
<1>1. c.lower \in Key /\ c.upper \in Key /\ c.lower <= c.upper
  BY Zenon DEF Chunk
<1> QED  BY <1>1, KeySpace DEF Key, KeysOf

\* A watermark that grows keeps the keys it had.
LEMMA ThroughGrows ==
    ASSUME NEW v \in Watermark, NEW w \in Watermark, High(v) <= High(w)
    PROVE  Through(v) \subseteq Through(w)
<1>1. /\ High(v) \in Int /\ High(w) \in Int /\ Through(v) \subseteq Key
      /\ \A k \in Key : k \in Through(v) <=> k <= High(v)
      /\ \A k \in Key : k \in Through(w) <=> k <= High(w)
  BY WatermarkFacts, Zenon
<1>2. \A k \in Key : k <= High(v) => k <= High(w)
  BY <1>1, KeyFacts
<1> QED  BY <1>1, <1>2, Zenon

-----------------------------------------------------------------------------
(* The steps of the ledger. *)

\* A step that leaves the ledger alone keeps it, and may cover more keys.
LEMMA LedgerFrame ==
    ASSUME LedgerInv, UNCHANGED <<ledger, from, saved>>,
           covered \subseteq covered', covered' \subseteq Key
    PROVE  LedgerInv'
<1>1. LedgerType'
  BY Zenon DEF LedgerInv, LedgerType, ledger
<1>2. Tiling'
  BY Zenon DEF LedgerInv, Tiling, ledger
<1>3. Coverage'
  BY Zenon DEF LedgerInv, Coverage, ledger
<1> QED  BY <1>1, <1>2, <1>3, Zenon DEF LedgerInv

\* ledger.claim: a chunk that starts right after the frontier becomes it.
LEMMA ClaimKeeps ==
    ASSUME LedgerInv, NEW c \in Chunk, startsAtFrontier(c),
           inFlight' = inFlight \cup {c}, cut' = NewWatermark(c.upper),
           UNCHANGED <<watermark, next, complete, landed, partial, from, saved, covered>>
    PROVE  LedgerInv' /\ c.lower = High(cut) + 1 /\ c \notin inFlight \cup landed
<1> DEFINE F == High(cut)
           H == High(watermark)
<1>1. cut \in Watermark /\ watermark \in Watermark /\ inFlight \cup landed \subseteq Chunk
  BY Zenon DEF LedgerInv, LedgerType
<1>2. F \in Int /\ H \in Int /\ H <= F
  BY <1>1, WatermarkFacts, Zenon DEF LedgerInv, Tiling
<1>3. /\ c.lower \in Int /\ c.upper \in Int /\ c.lower <= c.upper /\ c.upper \in Key
      /\ c.lower \in KeysOf(c) /\ c.lower \in Key
      /\ \A k \in Int : k \in KeysOf(c) <=> (c.lower <= k /\ k <= c.upper)
  BY ChunkFacts, Zenon
<1>4. c.lower = F + 1
  <2>1. CASE cut = ZeroWatermark
    BY <2>1, KeyFacts DEF startsAtFrontier, ZeroWatermark, High
  <2>2. ASSUME NEW k \in Key, cut = NewWatermark(k) PROVE c.lower = F + 1
    <3>1. cut.valid /\ cut.value = k /\ F = k
      BY <2>2, Zenon DEF NewWatermark, High
    <3>2. k # MaxInt64 /\ c.lower = Inc(k)
      BY <3>1, Zenon DEF startsAtFrontier
    <3> QED  BY <3>1, <3>2, KeyFacts, Zenon
  <2> QED  BY <1>1, <2>1, <2>2, Zenon DEF Watermark
<1>5. cut' \in Watermark /\ High(cut') = c.upper
  BY <1>3, NewWatermarkFacts, Zenon
<1>6. \A d \in inFlight \cup landed : d.upper <= F /\ d.upper \in Int /\ d.lower \in Int
  BY <1>1, ChunkFacts, Zenon DEF LedgerInv, Tiling
<1>7. c \notin inFlight \cup landed
  BY <1>2, <1>3, <1>4, <1>6
<1> HIDE DEF F, H
<1>8. LedgerType'
  BY <1>5, Zenon DEF LedgerInv, LedgerType
<1>9. Coverage'
  BY Zenon DEF LedgerInv, Coverage
<1>10. ASSUME NEW k \in Key
       PROVE  (H < k /\ k <= c.upper) <=> (\E d \in inFlight' \cup landed' : k \in KeysOf(d))
  <2>1. (H < k /\ k <= F) <=> (\E d \in inFlight \cup landed : k \in KeysOf(d))
    BY Zenon DEF LedgerInv, Tiling, H, F
  <2>2. (\E d \in inFlight' \cup landed' : k \in KeysOf(d)) <=>
        (k \in KeysOf(c) \/ \E d \in inFlight \cup landed : k \in KeysOf(d))
    BY Zenon
  <2>3. k \in Int
    BY KeyFacts, Zenon
  <2> QED  BY <1>2, <1>3, <1>4, <2>1, <2>2, <2>3
<1>11. Tiling'
  <2>1. \A d, e \in inFlight' \cup landed' : d # e => (d.upper < e.lower \/ e.upper < d.lower)
    <3>1. \A d \in inFlight \cup landed : d.upper < c.lower
      BY <1>2, <1>4, <1>6
    <3>2. \A d, e \in inFlight \cup landed : d # e => (d.upper < e.lower \/ e.upper < d.lower)
      BY Zenon DEF LedgerInv, Tiling
    <3> QED  BY <3>1, <3>2, Zenon
  <2>2. inFlight' \cap landed' = {}
    BY <1>7, Zenon DEF LedgerInv, Tiling
  <2>3. High(watermark') <= c.upper
    BY <1>2, <1>3, <1>4 DEF H
  <2>4. watermark' = watermark /\ saved' = saved /\ H = High(watermark)
    BY Zenon DEF H
  <2>5. /\ High(saved) <= H
        /\ complete' <=> H = MaxInt64
        /\ ~complete' => next' = H + 1
        /\ \A d \in landed' : d.lower # H + 1
    BY Zenon DEF LedgerInv, Tiling, H
  <2> QED  BY <1>5, <1>10, <2>1, <2>2, <2>3, <2>4, <2>5, Zenon DEF Tiling
<1> QED  BY <1>4, <1>7, <1>8, <1>9, <1>11, Zenon DEF LedgerInv, F

\* ledger.settle: the keys a chunk no longer owes are covered.
LEMMA SettleKeeps ==
    ASSUME LedgerInv, NEW c \in inFlight, NEW owed, owed \subseteq KeysOf(c),
           KeysOf(c) \ owed \subseteq covered,
           partial' = [d \in DOMAIN partial \cup {c} |-> IF d = c THEN owed ELSE partial[d]],
           UNCHANGED <<cut, watermark, next, complete, inFlight, landed, from, saved, covered>>
    PROVE  LedgerInv'
<1>1. DOMAIN partial' = DOMAIN partial \cup {c}
      /\ \A d \in DOMAIN partial' : partial'[d] = IF d = c THEN owed ELSE partial[d]
  BY Zenon
<1>2. LedgerType'
  BY <1>1, Zenon DEF LedgerInv, LedgerType
<1>3. Tiling'
  BY Zenon DEF LedgerInv, Tiling
<1>4. Coverage'
  BY <1>1, Zenon DEF LedgerInv, Coverage
<1> QED  BY <1>2, <1>3, <1>4, Zenon DEF LedgerInv

\* newLedger: a run starts with nothing in flight, at its watermark.
LEMMA FreshKeeps ==
    ASSUME NEW w \in Watermark, FreshRun(w), saved' \in Watermark, High(saved') <= High(w)
    PROVE  LedgerInv'
<1>1. /\ from' = w /\ cut' = w /\ watermark' = w /\ inFlight' = {} /\ landed' = {}
      /\ partial' = <<>> /\ covered' = Through(w)
      /\ next' = startAfter(w).next /\ complete' = startAfter(w).done
  BY Zenon DEF FreshRun
<1>2. DOMAIN partial' = {}
  BY <1>1
<1>3. LedgerType'
  BY <1>1, <1>2, WatermarkFacts, Zenon DEF LedgerType
<1>4. Coverage'
  BY <1>1, <1>2, Zenon DEF Coverage, Through
<1>5. Tiling'
  BY <1>1, WatermarkFacts, KeyFacts DEF Tiling
<1> QED  BY <1>3, <1>4, <1>5, Zenon DEF LedgerInv

\* So does the first run.
LEMMA InitLedger == Init => LedgerInv
<1> SUFFICES ASSUME Init PROVE LedgerInv
  BY Zenon
<1>1. /\ from \in Watermark /\ saved = from /\ cut = from /\ watermark = from
      /\ inFlight = {} /\ landed = {} /\ partial = <<>> /\ covered = Through(from)
      /\ next = startAfter(from).next /\ complete = startAfter(from).done
  BY FromAssumption, Zenon DEF Init
<1>2. DOMAIN partial = {}
  BY <1>1
<1>3. LedgerType
  BY <1>1, <1>2, WatermarkFacts, Zenon DEF LedgerType
<1>4. Coverage
  BY <1>1, <1>2, Zenon DEF Coverage
<1>5. Tiling
  BY <1>1, WatermarkFacts, KeyFacts DEF Tiling
<1> QED  BY <1>3, <1>4, <1>5, Zenon DEF LedgerInv

\* With nothing in flight the landed chunks are all absorbed.
LEMMA NothingInFlight ==
    ASSUME LedgerInv, inFlight = {}
    PROVE  High(watermark) = High(cut)
<1> DEFINE k == High(watermark) + 1
<1>1. cut \in Watermark /\ watermark \in Watermark /\ landed \subseteq Chunk
  BY Zenon DEF LedgerInv, LedgerType
<1>2. /\ High(watermark) \in Int /\ High(cut) \in Int /\ High(watermark) <= High(cut)
      /\ High(cut) <= MaxInt64 /\ MinInt64 - 1 <= High(watermark)
  BY <1>1, WatermarkFacts, Zenon DEF LedgerInv, Tiling
<1>3. ASSUME High(watermark) < High(cut) PROVE FALSE
  <2>1. k \in Int /\ k \in Key /\ High(watermark) < k /\ k <= High(cut)
    BY <1>2, <1>3, KeyFacts
  <2>2. PICK c \in landed : k \in KeysOf(c)
    BY <2>1, Zenon DEF LedgerInv, Tiling
  <2>3. c.lower \in Key /\ c.lower \in Int /\ c.lower \in KeysOf(c) /\ c.lower <= k
    BY <1>1, <2>1, <2>2, ChunkFacts, Zenon
  <2>4. High(watermark) < c.lower
    BY <2>2, <2>3, Zenon DEF LedgerInv, Tiling
  <2>5. c.lower # k
    BY <2>2, Zenon DEF LedgerInv, Tiling
  <2> QED  BY <1>2, <2>3, <2>4, <2>5
<1> QED  BY <1>2, <1>3

\* The clear's range is what lies above the watermark the run resumed after.
LEMMA AboveIs ==
    ASSUME LedgerInv
    PROVE  /\ above = Key \ Through(from) /\ Through(from) \subseteq Key
           /\ startAfter(from).done => Through(from) = Key
<1>1. from \in Watermark
  BY Zenon DEF LedgerInv, LedgerType
<1>2. /\ High(from) \in Int /\ High(from) <= MaxInt64 /\ MinInt64 - 1 <= High(from)
      /\ startAfter(from).done <=> High(from) = MaxInt64
      /\ High(from) # MaxInt64 => startAfter(from).next = High(from) + 1
      /\ Through(from) \subseteq Key
      /\ \A k \in Key : k \in Through(from) <=> k <= High(from)
  BY <1>1, WatermarkFacts, Zenon
<1>3. startAfter(from).done => Through(from) = Key
  BY <1>2, KeyFacts, Zenon
<1>4. CASE startAfter(from).done
  BY <1>2, <1>3, <1>4, Zenon DEF above
<1>5. CASE ~startAfter(from).done
  <2>1. above = (High(from) + 1) .. MaxInt64
    BY <1>2, <1>5, Zenon DEF above
  <2>2. \A k \in Int : k \in above <=> (k \in Key /\ ~(k <= High(from)))
    BY <1>2, <2>1, KeyFacts
  <2>3. above \subseteq Int /\ Key \subseteq Int
    BY <2>1, KeyFacts
  <2> QED  BY <1>2, <1>3, <2>2, <2>3, Zenon
<1> QED  BY <1>4, <1>5, Zenon

-----------------------------------------------------------------------------
(* Positions. *)

\* What Position().Classify says of a key, as a matter of the ledger: uncut above
\* the frontier, in flight while a chunk in flight owes it, else landed.
owes(k) == \E c \in inFlight : k \in KeysOf(c) /\ (c \in DOMAIN partial => k \in partial[c])

\* Classify, which searches the chunks in flight and their partial passes, says
\* just that (position.go Classify).
LEMMA ClassifyIs ==
    ASSUME LedgerInv, NEW k \in Key
    PROVE  Classify(k) = IF k > High(cut) THEN "uncut" ELSE IF owes(k) THEN "inFlight" ELSE "landed"
<1>1. cut \in Watermark /\ inFlight \subseteq Chunk /\ k \in Int
  BY KeyFacts, Zenon DEF LedgerInv, LedgerType
<1>2. (~cut.valid \/ k > cut.value) <=> k > High(cut)
  <2>1. CASE cut = ZeroWatermark
    BY <1>1, <2>1, KeyFacts DEF ZeroWatermark, High
  <2>2. ASSUME NEW j \in Key, cut = NewWatermark(j) PROVE (~cut.valid \/ k > cut.value) <=> k > High(cut)
    BY <2>2, Zenon DEF NewWatermark, High
  <2> QED  BY <1>1, <2>1, <2>2, Zenon DEF Watermark
<1>3. CASE \E c \in inFlight : k \in KeysOf(c)
  <2> DEFINE d == CHOOSE c \in inFlight : k \in KeysOf(c)
  <2>1. d \in inFlight /\ k \in KeysOf(d)
    BY <1>3, Zenon
  <2>2. ASSUME NEW c \in inFlight, k \in KeysOf(c) PROVE c = d
    <3> HIDE DEF d
    <3>1. c \in Chunk /\ d \in Chunk
      BY <1>1, <2>1, Zenon
    <3>2. c # d => (c.upper < d.lower \/ d.upper < c.lower)
      BY <2>1, Zenon DEF LedgerInv, Tiling
    <3> QED  BY <1>1, <2>1, <2>2, <3>1, <3>2, ChunkFacts
  <2>3. Classify(k) = IF k > High(cut) THEN "uncut" ELSE classifyWithin(d, k)
    BY <1>2, <1>3, Zenon DEF Classify
  <2> HIDE DEF d
  <2>4. owes(k) <=> (d \in DOMAIN partial => k \in partial[d])
    BY <2>1, <2>2, Zenon DEF owes
  <2> QED  BY <2>3, <2>4, Zenon DEF classifyWithin
<1>4. CASE ~\E c \in inFlight : k \in KeysOf(c)
  <2>1. ~owes(k)
    BY <1>4, Zenon DEF owes
  <2>2. Classify(k) = IF k > High(cut) THEN "uncut" ELSE "landed"
    BY <1>2, <1>4, Zenon DEF Classify
  <2> QED  BY <2>1, <2>2, Zenon
<1> QED  BY <1>3, <1>4, Zenon

\* A key that is neither above the frontier nor owed has been covered.
LEMMA LandedCovered ==
    ASSUME LedgerInv, NEW k \in Key, Classify(k) = "landed"
    PROVE  k \in covered
<1>1. k \in Int /\ k <= High(cut) /\ ~owes(k) /\ High(watermark) \in Int /\ watermark \in Watermark
  BY ClassifyIs, WatermarkFacts, KeyFacts DEF LedgerInv, LedgerType
<1>2. CASE k <= High(watermark)
  BY <1>1, <1>2, WatermarkFacts, Zenon DEF LedgerInv, Coverage
<1>3. CASE High(watermark) < k
  <2>1. PICK c \in inFlight \cup landed : k \in KeysOf(c)
    BY <1>1, <1>3, Zenon DEF LedgerInv, Tiling
  <2> QED  BY <1>1, <2>1, Zenon DEF owes, LedgerInv, Coverage
<1> QED  BY <1>1, <1>2, <1>3

\* ClassifyIs as a state predicate, to read a position before and after a step.
Classified ==
    \A k \in Key :
        Classify(k) = IF k > High(cut) THEN "uncut" ELSE IF owes(k) THEN "inFlight" ELSE "landed"

\* The keys through a watermark are a prefix in the sense of the contract.
LEMMA ThroughIsPrefix ==
    ASSUME NEW w \in Watermark
    PROVE  Through(w) \in SUBSET Key /\ Contract!Prefix(Through(w))
<1>1. /\ High(w) \in Int /\ Through(w) \subseteq Key
      /\ \A k \in Key : k \in Through(w) <=> k <= High(w)
  BY WatermarkFacts, Zenon
<1>2. \A k \in Through(w) : \A j \in Key : j <= k => j \in Through(w)
  BY <1>1, KeyFacts
<1> QED  BY <1>1, <1>2, Zenon DEF Contract!Prefix

\* Every key through the watermark counts as landed.
LEMMA BelowIsLanded ==
    ASSUME LedgerInv, Classified, NEW w \in Watermark, High(w) <= High(watermark)
    PROVE  Through(w) \subseteq Contract!In("landed")
<1> SUFFICES ASSUME NEW k \in Through(w) PROVE k \in Contract!In("landed")
  BY Zenon
<1>1. k \in Key /\ k \in Int /\ k <= High(w) /\ High(w) \in Int
  BY WatermarkFacts, KeyFacts, Zenon
<1>2. watermark \in Watermark /\ cut \in Watermark
  BY Zenon DEF LedgerInv, LedgerType
<1>3. High(watermark) \in Int /\ High(cut) \in Int /\ High(watermark) <= High(cut)
  BY <1>2, WatermarkFacts, Zenon DEF LedgerInv, Tiling
<1>4. k <= High(watermark) /\ ~(k > High(cut))
  BY <1>1, <1>3
<1>5. ~owes(k)
  <2>1. ~\E c \in inFlight \cup landed : k \in KeysOf(c)
    BY <1>1, <1>3, <1>4 DEF LedgerInv, Tiling
  <2> QED  BY <2>1, Zenon DEF owes
<1>6. Classify(k) = "landed"
  BY <1>1, <1>4, <1>5, Zenon DEF Classified
<1> QED  BY <1>1, <1>6, Zenon DEF Contract!In, position

\* Keys leave the state in flight for landed, and in no other way.
LEMMA LandMaps ==
    ASSUME Classified, Classified', cut' = cut, run' = run, saved' = saved,
           \A k \in Key : owes(k)' => owes(k)
    PROVE  Contract!Next
<1> DEFINE S == {k \in Key : Classify(k) = "inFlight" /\ Classify(k)' = "landed"}
<1>1. ASSUME NEW k \in Key PROVE Classify(k)' = IF k \in S THEN "landed" ELSE Classify(k)
  <2>1. Classify(k) = IF k > High(cut) THEN "uncut" ELSE IF owes(k) THEN "inFlight" ELSE "landed"
    BY Zenon DEF Classified
  <2>2. Classify(k)' = IF k > High(cut) THEN "uncut" ELSE IF owes(k)' THEN "inFlight" ELSE "landed"
    BY Zenon DEF Classified
  <2> QED  BY <2>1, <2>2, Zenon
<1>2. S \in SUBSET Key /\ S \subseteq Contract!In("inFlight")
  BY Zenon DEF Contract!In, position
<1> HIDE DEF S
<1>3. position' = [k \in Key |-> IF k \in S THEN "landed" ELSE position[k]]
  BY <1>1, Zenon DEF position
<1>4. Contract!Land(S)
  BY <1>2, <1>3, Zenon DEF Contract!Land, Through
<1> QED  BY <1>2, <1>4, Zenon DEF Contract!Next

\* The position and the checkpoint outlive a step that leaves the ledger alone.
LEMMA PositionFrame ==
    ASSUME UNCHANGED <<ledger, run, saved>>
    PROVE  UNCHANGED Contract!vars
<1>1. \A k \in Key : Classify(k)' = Classify(k)
  BY Zenon DEF Classify, classifyWithin, ledger
<1>2. position' = position
  BY <1>1, Zenon DEF position
<1> QED  BY <1>2, Zenon DEF Contract!vars, Through

\* A checkpoint saves the landed prefix through the watermark.
LEMMA SaveMaps ==
    ASSUME LedgerInv, Classified, Save
    PROVE  Contract!Next
<1>1. run' = run /\ UNCHANGED ledger /\ saved' = watermark
  BY Zenon DEF Save
<1>2. watermark \in Watermark /\ saved \in Watermark /\ High(saved) <= High(watermark)
  BY Zenon DEF LedgerInv, LedgerType, Tiling
<1>3. High(watermark) \in Int /\ High(saved) \in Int
  BY <1>2, WatermarkFacts, Zenon
<1>4. Through(watermark) \in SUBSET Key /\ Contract!Prefix(Through(watermark))
  BY <1>2, ThroughIsPrefix, Zenon
<1>5. Through(watermark) \subseteq Contract!In("landed")
  BY <1>2, <1>3, BelowIsLanded
<1>6. Through(saved) \subseteq Through(watermark)
  BY <1>2, <1>3, WatermarkFacts, KeyFacts
<1>7. \A k \in Key : Classify(k)' = Classify(k)
  BY <1>1, Zenon DEF Classify, classifyWithin, ledger
<1>8. position' = position
  BY <1>7, Zenon DEF position
<1>9. Through(saved)' = Through(watermark)
  BY <1>1, Zenon DEF Through
<1>10. Contract!Save(Through(watermark))
  BY <1>1, <1>4, <1>5, <1>6, <1>8, <1>9, Zenon DEF Contract!Save
<1> QED  BY <1>4, <1>10, Zenon DEF Contract!Next

\* A new run starts after the landed prefix through w.
LEMMA FreshMaps ==
    ASSUME LedgerInv, Classified, Classified', NEW w \in Watermark, FreshRun(w), run' = run + 1,
           saved' = saved, High(saved) <= High(w), High(w) <= High(watermark)
    PROVE  Contract!Next
<1>1. Through(w) \in SUBSET Key /\ Contract!Prefix(Through(w))
  BY ThroughIsPrefix, Zenon
<1>2. Through(w) \subseteq Contract!In("landed")
  BY BelowIsLanded, Zenon
<1>3. saved \in Watermark /\ High(w) \in Int /\ High(saved) \in Int
  BY WatermarkFacts, Zenon DEF LedgerInv, LedgerType
<1>4. Through(saved) \subseteq Through(w)
  BY <1>3, WatermarkFacts, KeyFacts
<1>5. cut' = w /\ inFlight' = {}
  BY Zenon DEF FreshRun
<1>6. ASSUME NEW k \in Key PROVE Classify(k)' = IF k \in Through(w) THEN "landed" ELSE "uncut"
  <2>1. Classify(k)' = IF k > High(w) THEN "uncut" ELSE IF owes(k)' THEN "inFlight" ELSE "landed"
    BY <1>5, Zenon DEF Classified
  <2>2. ~owes(k)'
    BY <1>5, Zenon DEF owes
  <2>3. k \in Int /\ (k \in Through(w) <=> k <= High(w))
    BY WatermarkFacts, KeyFacts, Zenon
  <2> QED  BY <1>3, <2>1, <2>2, <2>3
<1>7. position' = Contract!After(Through(w))
  BY <1>6, Zenon DEF position, Contract!After
<1>8. Through(saved)' = Through(saved)
  BY Zenon DEF Through
<1>9. Contract!Resume(Through(w))
  BY <1>1, <1>2, <1>4, <1>7, <1>8, Zenon DEF Contract!Resume
<1> QED  BY <1>1, <1>9, Zenon DEF Contract!Next

-----------------------------------------------------------------------------
(* The workers. *)

passing == {"copying", "locked", "confirmed"}
busy == passing \cup {"settling", "landing"}

WorkerType ==
    [pc : busy \cup {"idle", "claimed", "failed", "exited"}, chunk : Chunk,
     mode : {"strict", "around", "whole"}, pass : Nat, pending : SUBSET Key]

\* A worker at work has its chunk in flight, and owes what the ledger says the
\* chunk owes, or less when it has not settled yet.
WorkerOK(r) ==
    /\ r.pc \in busy => r.chunk \in inFlight
    /\ r.pc \in passing =>
         IF r.chunk \in DOMAIN partial
         THEN r.pending = partial[r.chunk] /\ r.pending # {}
         ELSE r.pending = {}
    /\ r.pc = "settling" =>
         /\ r.pending # {} /\ r.pending \subseteq KeysOf(r.chunk)
         /\ r.chunk \in DOMAIN partial => r.pending \subseteq partial[r.chunk]
         /\ KeysOf(r.chunk) \ r.pending \subseteq covered
    /\ r.pc = "landing" => KeysOf(r.chunk) \subseteq covered
    /\ r.pc = "claimed" => r.pending = {}

\* No two workers have one chunk, and workers work in the copy phase only.
Working ==
    /\ wk \in [Workers -> WorkerType]
    /\ \A w \in Workers : WorkerOK(wk[w])
    /\ \A v, w \in Workers : (v # w /\ wk[v].pc \in busy /\ wk[w].pc \in busy)
                                => wk[v].chunk # wk[w].chunk
    /\ phase = "clear" => \A w \in Workers : wk[w].pc = "idle"
    /\ phase # "copy" => \A w \in Workers : wk[w].pc \in {"idle", "exited"}

\* The chunker stands right after key h.
chunkerAt(h) == (chunker.done <=> h = MaxInt64) /\ (~chunker.done => chunker.next = h + 1)

\* One worker cuts at a time.  While none has failed, the chunker stands after
\* the frontier, or after the chunk that will be the frontier next, and every
\* chunk in flight is in the hands of a worker.
Claiming ==
    /\ chunker \in [next : Int, done : BOOLEAN]
    /\ ~chunker.done => chunker.next \in Key
    /\ \A v, w \in Workers : wk[v].pc = "claimed" /\ wk[w].pc = "claimed" => v = w
    /\ (~stopping /\ \A w \in Workers : wk[w].pc # "failed") =>
         /\ \A w \in Workers : wk[w].pc = "claimed" =>
              wk[w].chunk.lower = High(cut) + 1 /\ chunkerAt(wk[w].chunk.upper)
         /\ claimMuFree => chunkerAt(High(cut))
         /\ \A c \in inFlight : \E w \in Workers : wk[w].pc \in busy /\ wk[w].chunk = c
    /\ (~stopping /\ \E w \in Workers : wk[w].pc = "exited") => chunker.done /\ claimMuFree
    /\ stopping \in BOOLEAN

Inv == LedgerInv /\ Working /\ Claiming /\ NeverRefuses

-----------------------------------------------------------------------------
(* The workers. *)

\* Ledger steps about another chunk, and passes that cover more keys, leave a
\* worker right.
Spares(w) ==
    \A q \in WorkerType :
        WorkerOK(q) /\ (q.pc \in busy /\ wk[w].pc \in busy => q.chunk # wk[w].chunk)
            => WorkerOK(q)'

\* A step that leaves the ledger's chunks alone and uncovers nothing does.
LEMMA SparesFrame ==
    ASSUME NEW w \in Workers, UNCHANGED <<inFlight, partial>>, covered \subseteq covered'
    PROVE  Spares(w)
BY DEF Spares, WorkerOK

\* One worker moves on, with the others left right.
LEMMA WorkingStep ==
    ASSUME Working, NEW w \in Workers, NEW r \in WorkerType, wk' = [wk EXCEPT ![w] = r],
           phase = "copy", phase' = "copy", WorkerOK(r)', Spares(w),
           r.pc \in busy => \A v \in Workers : (v # w /\ wk[v].pc \in busy) => wk[v].chunk # r.chunk
    PROVE  Working'
<1>1. /\ wk' \in [Workers -> WorkerType] /\ wk'[w] = r
      /\ \A v \in Workers : v # w => wk'[v] = wk[v]
  BY Zenon DEF Working
<1>2. ASSUME NEW v \in Workers PROVE WorkerOK(wk[v])'
  <2>1. CASE v = w
    BY <1>1, <2>1, Zenon DEF WorkerOK
  <2>2. CASE v # w
    <3> DEFINE q == wk[v]
    <3>1. q \in WorkerType /\ WorkerOK(q) /\ (q.pc \in busy /\ wk[w].pc \in busy => q.chunk # wk[w].chunk)
      BY <2>2, Zenon DEF Working
    <3>2. ASSUME NEW u \in WorkerType, u = q PROVE WorkerOK(u)'
      BY <3>1, <3>2, Zenon DEF Spares
    <3>3. wk'[v] = q
      BY <1>1, <2>2, Zenon
    <3> QED  BY <3>1, <3>2, <3>3, Zenon DEF WorkerOK
  <2> QED  BY <2>1, <2>2, Zenon
<1>3. \A u, v \in Workers : (u # v /\ wk'[u].pc \in busy /\ wk'[v].pc \in busy)
                                => wk'[u].chunk # wk'[v].chunk
  BY <1>1 DEF Working
<1> QED  BY <1>1, <1>2, <1>3, Zenon DEF Working

\* A worker moved to another step keeps its chunk and what it owes.
LEMMA Moved ==
    ASSUME Working, NEW w \in Workers, NEW pc, moveTo(w, pc),
           pc \in busy \cup {"idle", "claimed", "failed", "exited"}
    PROVE  \E r \in WorkerType : /\ wk' = [wk EXCEPT ![w] = r] /\ r.pc = pc
                                 /\ r.chunk = wk[w].chunk /\ r.pending = wk[w].pending
<1> DEFINE r == [wk[w] EXCEPT !.pc = pc]
<1>1. wk[w] \in WorkerType /\ wk \in [Workers -> WorkerType]
  BY Zenon DEF Working
<1>2. r \in WorkerType /\ r.pc = pc /\ r.chunk = wk[w].chunk /\ r.pending = wk[w].pending
  BY <1>1, Zenon DEF WorkerType
<1>3. wk' = [wk EXCEPT ![w] = r]
  BY <1>1, Zenon DEF moveTo
<1> QED  BY <1>2, <1>3, Zenon

\* A worker that ends in an error, before or after it has cut.
LEMMA WorkerFails ==
    ASSUME Inv, NEW w \in Workers, NEW r \in WorkerType, wk' = [wk EXCEPT ![w] = r],
           r.pc = "failed", wk[w].pc # "exited",
           phase = "copy", phase' = "copy", stopping' = stopping, Spares(w),
           chunker' \in [next : Int, done : BOOLEAN], ~chunker'.done => chunker'.next \in Key,
           chunker.done => chunker'.done
    PROVE  Working' /\ Claiming'
<1>1. Working'
  BY WorkingStep, Zenon DEF Inv, WorkerOK, busy, passing
<1>2. /\ wk'[w] = r
      /\ \A v \in Workers : v # w => wk'[v] = wk[v]
  BY Zenon DEF Inv, Working
<1>3. /\ \A u, v \in Workers : wk'[u].pc = "claimed" /\ wk'[v].pc = "claimed" => u = v
      /\ \E v \in Workers : wk'[v].pc = "failed"
  BY <1>2 DEF Inv, Claiming
<1>4. (~stopping' /\ \E v \in Workers : wk'[v].pc = "exited") => chunker'.done /\ claimMuFree'
  BY <1>2 DEF Inv, Claiming, claimMuFree
<1>5. stopping' \in BOOLEAN
  BY Zenon DEF Inv, Claiming
<1>6. Claiming'
  BY <1>3, <1>4, <1>5, Zenon DEF Claiming
<1> QED  BY <1>1, <1>6, Zenon

\* A worker that goes on with its chunk.
LEMMA WorkerGoesOn ==
    ASSUME Inv, NEW w \in Workers, NEW r \in WorkerType, wk' = [wk EXCEPT ![w] = r],
           r.pc \in busy, wk[w].pc \in busy, r.chunk = wk[w].chunk,
           phase = "copy", phase' = "copy", WorkerOK(r)', Spares(w),
           UNCHANGED <<chunker, stopping, cut, inFlight>>
    PROVE  Working' /\ Claiming'
<1>1. Working'
  <2>1. \A v \in Workers : (v # w /\ wk[v].pc \in busy) => wk[v].chunk # r.chunk
    BY Zenon DEF Inv, Working
  <2>2. Working
    BY Zenon DEF Inv
  <2> QED  BY <2>1, <2>2, WorkingStep, Zenon
<1>2. /\ wk'[w] = r
      /\ \A v \in Workers : v # w => wk'[v] = wk[v]
  BY Zenon DEF Inv, Working
<1>3. \A v \in Workers : /\ wk'[v].pc \in busy <=> wk[v].pc \in busy
                        /\ wk'[v].chunk = wk[v].chunk
                        /\ \A p \in {"claimed", "failed", "exited"} : wk'[v].pc = p <=> wk[v].pc = p
  BY <1>2, Zenon DEF busy, passing
<1>4. claimMuFree' <=> claimMuFree
  BY <1>3, Zenon DEF claimMuFree
<1>5. ASSUME ~stopping, \A v \in Workers : wk'[v].pc # "failed"
      PROVE  /\ \A v \in Workers : wk'[v].pc = "claimed" =>
                  (wk[v].chunk.lower = High(cut) + 1 /\ chunkerAt(wk[v].chunk.upper))'
             /\ claimMuFree' => chunkerAt(High(cut))'
             /\ \A c \in inFlight : \E v \in Workers : wk'[v].pc \in busy /\ wk'[v].chunk = c
  <2>1. \A v \in Workers : wk[v].pc # "failed"
    BY <1>3, <1>5, Zenon
  <2>2. \A v \in Workers : wk'[v].pc = "claimed" =>
           (wk[v].chunk.lower = High(cut) + 1 /\ chunkerAt(wk[v].chunk.upper))'
    BY <1>3, <1>5, <2>1 DEF Inv, Claiming, chunkerAt
  <2>3. claimMuFree' => chunkerAt(High(cut))'
    BY <1>4, <1>5, <2>1, Zenon DEF Inv, Claiming, chunkerAt
  <2>4. \A c \in inFlight : \E v \in Workers : wk'[v].pc \in busy /\ wk'[v].chunk = c
    BY <1>3, <1>5, <2>1 DEF Inv, Claiming
  <2> QED  BY <2>2, <2>3, <2>4, Zenon
<1>6. /\ \A u, v \in Workers : wk'[u].pc = "claimed" /\ wk'[v].pc = "claimed" => u = v
      /\ (~stopping' /\ \E v \in Workers : wk'[v].pc = "exited") => chunker'.done /\ claimMuFree'
  BY <1>3, <1>4 DEF Inv, Claiming
<1>7. Claiming'
  BY <1>5, <1>6, Zenon DEF Inv, Claiming
<1> QED  BY <1>1, <1>7, Zenon

\* A worker that has nothing to do is right.
LEMMA IdleWorker ==
    /\ idleWorker \in WorkerType /\ idleWorker.pc = "idle" /\ idleWorker.pending = {}
    /\ WorkerOK(idleWorker) /\ WorkerOK(idleWorker)'
<1> DEFINE c == [lower |-> MinInt64, upper |-> MinInt64]
<1>1. c \in Chunk
  BY KeySpace DEF Chunk, Key
<1> HIDE DEF c
<1>2. idleWorker = [pc |-> "idle", chunk |-> c, mode |-> "strict", pass |-> 1, pending |-> {}]
  BY Zenon DEF idleWorker, c
<1>3. idleWorker \in WorkerType /\ idleWorker.pc = "idle" /\ idleWorker.pending = {}
  BY <1>1, <1>2, Zenon DEF WorkerType
<1> HIDE DEF idleWorker
<1> QED  BY <1>3, Zenon DEF WorkerOK, busy, passing

\* cut: the worker takes the chunk after the chunker's bound, or loses it.
LEMMA CutInv ==
    ASSUME Inv, NEW w \in Workers, Cut(w)
    PROVE  Inv'
<1>1. /\ phase = "copy" /\ wk[w].pc = "idle" /\ ~stopping /\ claimMuFree /\ ~chunker.done
      /\ UNCHANGED <<ledger, from, saved, covered, phase, stopping>>
  BY Zenon DEF Cut
<1>2. PICK upper \in chunker.next .. MaxInt64 :
         /\ chunker' = chunkerPast(upper)
         /\ \/ set(w, [idleWorker EXCEPT !.pc = "claimed",
                                         !.chunk = [lower |-> chunker.next, upper |-> upper]])
            \/ moveTo(w, "failed")
  BY Zenon DEF Cut
<1>3. LedgerInv'
  BY <1>1, LedgerFrame, Zenon DEF Inv, LedgerInv, LedgerType
<1>4. Spares(w) /\ phase' = "copy" /\ stopping' = stopping
  BY <1>1, SparesFrame, Zenon DEF ledger
<1>5. /\ chunker.next \in Key /\ chunker.next \in Int /\ upper \in Int /\ upper \in Key
      /\ chunker.next <= upper /\ chunker \in [next : Int, done : BOOLEAN]
  BY <1>1, KeyFacts DEF Inv, Claiming
<1>6. /\ chunker' \in [next : Int, done : BOOLEAN]
      /\ chunker'.done <=> upper = MaxInt64
      /\ ~chunker'.done => chunker'.next = upper + 1
  <2>1. CASE upper = MaxInt64
    <3>1. chunker' = [chunker EXCEPT !.done = TRUE]
      BY <1>2, <2>1, Zenon DEF chunkerPast
    <3> QED  BY <1>5, <2>1, <3>1, Zenon
  <2>2. CASE upper # MaxInt64
    <3>1. chunker' = [chunker EXCEPT !.next = upper + 1]
      BY <1>2, <1>5, <2>2, KeyFacts, Zenon DEF chunkerPast
    <3>2. chunker'.next = upper + 1 /\ chunker'.done = chunker.done
      BY <1>5, <3>1, Zenon
    <3>3. chunker' \in [next : Int, done : BOOLEAN]
      BY <1>5, <3>1
    <3> QED  BY <1>1, <2>2, <3>2, <3>3, Zenon
  <2> QED  BY <2>1, <2>2, Zenon
<1>7. ~chunker'.done => chunker'.next \in Key
  BY <1>5, <1>6, KeyFacts
<1>8. CASE moveTo(w, "failed")
  <2>1. Working /\ "failed" \in busy \cup {"idle", "claimed", "failed", "exited"}
    BY Zenon DEF Inv
  <2>2. PICK r \in WorkerType : wk' = [wk EXCEPT ![w] = r] /\ r.pc = "failed"
    BY <1>8, <2>1, Moved
  <2>3. Working' /\ Claiming'
    BY <1>1, <1>4, <1>6, <1>7, <2>2, WorkerFails, Zenon
  <2> QED  BY <1>3, <1>4, <2>3, Zenon DEF Inv, NeverRefuses
<1>9. CASE set(w, [idleWorker EXCEPT !.pc = "claimed",
                                    !.chunk = [lower |-> chunker.next, upper |-> upper]])
  <2> DEFINE new == [idleWorker EXCEPT !.pc = "claimed",
                                       !.chunk = [lower |-> chunker.next, upper |-> upper]]
  <2>1. PICK c \in Chunk : /\ c = [lower |-> chunker.next, upper |-> upper]
                          /\ c.lower = chunker.next /\ c.upper = upper
    <3>1. [lower |-> chunker.next, upper |-> upper] \in Chunk
      BY <1>5, Zenon DEF Chunk
    <3> QED  BY <3>1, Zenon
  <2>2. new = [idleWorker EXCEPT !.pc = "claimed", !.chunk = c]
    BY <2>1, Zenon
  <2>3. new \in WorkerType /\ new.pc = "claimed" /\ new.chunk = c /\ new.pending = {}
    <3> HIDE DEF new
    <3> QED  BY <2>1, <2>2, IdleWorker, Zenon DEF WorkerType
  <2>4. PICK r \in WorkerType : /\ wk' = [wk EXCEPT ![w] = r]
                               /\ r.pc = "claimed" /\ r.chunk = c /\ r.pending = {}
    BY <1>9, <2>3, Zenon DEF set
  <2>5. WorkerOK(r)' /\ ~(r.pc \in busy)
    BY <2>4, Zenon DEF WorkerOK, busy, passing
  <2>6. Working'
    BY <1>1, <1>4, <2>4, <2>5, WorkingStep, Zenon DEF Inv
  <2>7. wk'[w] = r /\ \A v \in Workers : v # w => wk'[v] = wk[v]
    BY <2>4, Zenon DEF Inv, Working
  <2>8. ~claimMuFree' /\ \A u \in Workers : wk'[u].pc = "claimed" => u = w
    BY <1>1, <2>4, <2>7, Zenon DEF claimMuFree
  <2>9. \A v \in Workers : wk'[v].pc # "exited"
    BY <1>1, <2>4, <2>7 DEF Inv, Claiming
  <2>10. ASSUME \A v \in Workers : wk'[v].pc # "failed"
         PROVE  /\ c.lower = High(cut) + 1
                /\ \A d \in inFlight : \E v \in Workers : wk'[v].pc \in busy /\ wk'[v].chunk = d
    <3>1. \A v \in Workers : wk[v].pc # "failed"
      BY <1>1, <2>7, <2>10, Zenon
    <3>2. chunkerAt(High(cut)) /\ \A d \in inFlight : \E v \in Workers : wk[v].pc \in busy /\ wk[v].chunk = d
      BY <1>1, <3>1, Zenon DEF Inv, Claiming
    <3>3. c.lower = High(cut) + 1
      BY <1>1, <2>1, <3>2, Zenon DEF chunkerAt
    <3>4. ~(wk[w].pc \in busy)
      BY <1>1, Zenon DEF busy, passing
    <3> QED  BY <2>7, <3>2, <3>3, <3>4
  <2>11. \A v \in Workers : wk'[v].pc = "claimed" => wk'[v].chunk = c
    BY <2>4, <2>7, <2>8, Zenon
  <2>12. cut' = cut /\ inFlight' = inFlight /\ ~stopping'
    BY <1>1, Zenon DEF ledger
  <2>13. Claiming'
    <3>1. (~stopping' /\ \A v \in Workers : wk'[v].pc # "failed") =>
         /\ \A v \in Workers : wk'[v].pc = "claimed" =>
              (wk[v].chunk.lower = High(cut) + 1 /\ chunkerAt(wk[v].chunk.upper))'
         /\ claimMuFree' => chunkerAt(High(cut))'
         /\ \A d \in inFlight' : \E v \in Workers : wk'[v].pc \in busy /\ wk'[v].chunk = d
      BY <1>6, <2>1, <2>8, <2>10, <2>11, <2>12 DEF chunkerAt
    <3>2. stopping' \in BOOLEAN
      BY <1>4, Zenon DEF Inv, Claiming
    <3> QED  BY <1>6, <1>7, <2>8, <2>9, <3>1, <3>2 DEF Claiming
  <2> QED  BY <1>3, <1>4, <2>6, <2>13, Zenon DEF Inv, NeverRefuses
<1> QED  BY <1>2, <1>8, <1>9, Zenon

\* A worker that only fails: a cut that moved nothing, a pass that ends in an
\* error, a ledger that refuses.
LEMMA FailInv ==
    ASSUME Inv, NEW w \in Workers, phase = "copy", wk[w].pc # "exited", moveTo(w, "failed"),
           UNCHANGED <<ledger, from, saved, covered, phase, stopping, chunker>>
    PROVE  Inv'
<1>1. LedgerInv'
  BY LedgerFrame, Zenon DEF Inv, LedgerInv, LedgerType
<1>2. Spares(w)
  BY SparesFrame, Zenon DEF ledger
<1>3. Working /\ "failed" \in busy \cup {"idle", "claimed", "failed", "exited"}
  BY Zenon DEF Inv
<1>4. PICK r \in WorkerType : wk' = [wk EXCEPT ![w] = r] /\ r.pc = "failed"
  BY <1>3, Moved
<1>5. chunker' \in [next : Int, done : BOOLEAN] /\ (~chunker'.done => chunker'.next \in Key)
      /\ (chunker.done => chunker'.done)
  BY Zenon DEF Inv, Claiming
<1>6. phase' = "copy" /\ stopping' = stopping
  BY Zenon
<1>7. Working' /\ Claiming'
  BY <1>2, <1>4, <1>5, <1>6, WorkerFails, Zenon
<1> QED  BY <1>1, <1>6, <1>7, Zenon DEF Inv, NeverRefuses

\* ledger.claim: the chunk cut starts at the frontier while nothing has failed.
LEMMA RegisterInv ==
    ASSUME Inv, NEW w \in Workers, Register(w)
    PROVE  Inv'
<1> DEFINE c == wk[w].chunk
<1>1. /\ phase = "copy" /\ wk[w].pc = "claimed"
      /\ UNCHANGED <<from, saved, phase, chunker, watermark, next, complete, landed, partial,
                     stopping, covered>>
  BY Zenon DEF Register
<1>2. wk \in [Workers -> WorkerType] /\ c \in Chunk
  BY Zenon DEF Inv, Working, WorkerType
<1>3. CASE ~startsAtFrontier(c)
  <2>1. moveTo(w, "failed") /\ UNCHANGED <<inFlight, cut>>
    BY <1>3, Zenon DEF Register
  <2> QED  BY <1>1, <2>1, FailInv, Zenon DEF ledger
<1>4. CASE startsAtFrontier(c)
  <2>1. inFlight' = inFlight \cup {c} /\ cut' = NewWatermark(c.upper) /\ moveTo(w, "copying")
    BY <1>4, Zenon DEF Register
  <2>2. LedgerInv' /\ c.lower = High(cut) + 1 /\ c \notin inFlight \cup landed
    BY <1>1, <1>2, <1>4, <2>1, ClaimKeeps, Zenon DEF Inv
  <2>3. High(cut') = c.upper
    BY <1>2, <2>1, ChunkFacts, NewWatermarkFacts, Zenon
  <2>4. PICK r \in WorkerType : /\ wk' = [wk EXCEPT ![w] = r] /\ r.pc = "copying"
                               /\ r.chunk = c /\ r.pending = wk[w].pending
    <3>1. Working /\ "copying" \in busy \cup {"idle", "claimed", "failed", "exited"}
      BY Zenon DEF Inv, busy, passing
    <3> QED  BY <2>1, <3>1, Moved
  <2> HIDE DEF c
  <2>5. wk'[w] = r /\ \A v \in Workers : v # w => wk'[v] = wk[v]
    BY <1>2, <2>4, SMTT(30)
  <2>6. Spares(w)
    BY <1>1, <2>1, ZenonT(30) DEF Spares, WorkerOK
  <2>7. r.pending = {} /\ c \notin DOMAIN partial
    BY <1>1, <2>2, <2>4, Zenon DEF Inv, Working, WorkerOK, LedgerInv, LedgerType
  <2>8. WorkerOK(r)'
    BY <1>1, <2>1, <2>4, <2>7, ZenonT(30) DEF WorkerOK, busy, passing
  <2>9. \A v \in Workers : (v # w /\ wk[v].pc \in busy) => wk[v].chunk # c
    BY <2>2 DEF Inv, Working, WorkerOK
  <2>10. Working'
    BY <1>1, <2>4, <2>6, <2>8, <2>9, WorkingStep, ZenonT(30) DEF Inv
  <2>11. claimMuFree' /\ \A v \in Workers : wk'[v].pc # "claimed"
    <3>1. \A v \in Workers : wk[v].pc = "claimed" => v = w
      BY <1>1, Zenon DEF Inv, Claiming
    <3>2. \A v \in Workers : wk'[v].pc # "claimed"
      BY <2>4, <2>5, <3>1, Zenon
    <3> QED  BY <3>2, Zenon DEF claimMuFree
  <2>12. \A v \in Workers : wk'[v].pc \in {"failed", "exited"} => wk[v].pc = wk'[v].pc
    BY <2>4, <2>5, Zenon
  <2>13. ASSUME ~stopping, \A v \in Workers : wk'[v].pc # "failed"
         PROVE  /\ chunkerAt(High(cut))'
                /\ \A d \in inFlight' : \E v \in Workers : wk'[v].pc \in busy /\ wk'[v].chunk = d
    <3>1. \A v \in Workers : wk[v].pc # "failed"
      BY <1>1, <2>5, <2>13, Zenon
    <3>2. chunkerAt(c.upper) /\ \A d \in inFlight : \E v \in Workers : wk[v].pc \in busy /\ wk[v].chunk = d
      BY <1>1, <2>13, <3>1, Zenon DEF Inv, Claiming, c
    <3>3. chunkerAt(High(cut))'
      BY <1>1, <2>3, <3>2 DEF chunkerAt
    <3>4. ~(wk[w].pc \in busy) /\ wk'[w].pc \in busy /\ wk'[w].chunk = c
      BY <1>1, <2>4, <2>5 DEF busy, passing
    <3> QED  BY <2>1, <2>5, <3>2, <3>3, <3>4
  <2>14. Claiming'
    <3>1. /\ chunker' \in [next : Int, done : BOOLEAN] /\ (~chunker'.done => chunker'.next \in Key)
          /\ stopping' \in BOOLEAN /\ stopping' = stopping
      BY <1>1, Zenon DEF Inv, Claiming
    <3>2. (~stopping' /\ \E v \in Workers : wk'[v].pc = "exited") => chunker'.done
      BY <1>1, <2>12, Zenon DEF Inv, Claiming
    <3> QED  BY <2>11, <2>13, <3>1, <3>2 DEF Claiming
  <2> QED  BY <1>1, <2>2, <2>10, <2>14, Zenon DEF Inv, NeverRefuses
<1> QED  BY <1>3, <1>4, Zenon

\* The record set for a worker's next pass.
LEMMA NextPass ==
    ASSUME Working, NEW w \in Workers, NEW mode \in {"strict", "around", "whole"},
           set(w, nextPass(w, mode))
    PROVE  \E r \in WorkerType : /\ wk' = [wk EXCEPT ![w] = r] /\ r.pc \in {"copying", "failed"}
                                 /\ r.chunk = wk[w].chunk /\ r.pending = wk[w].pending
<1> DEFINE p == IF wk[w].pass < limits.attempts THEN "copying" ELSE "failed"
           r == nextPass(w, mode)
<1>1. wk[w] \in WorkerType /\ p \in {"copying", "failed"}
  BY Zenon DEF Working
<1>2. r = [wk[w] EXCEPT !.mode = mode, !.pass = wk[w].pass + 1, !.pc = p]
  BY Zenon DEF nextPass
<1> HIDE DEF p, r
<1>3. p \in busy \cup {"idle", "claimed", "failed", "exited"} /\ wk[w].pass + 1 \in Nat
  BY <1>1 DEF busy, passing, WorkerType
<1>4. r \in WorkerType /\ r.pc = p /\ r.chunk = wk[w].chunk /\ r.pending = wk[w].pending
  BY <1>1, <1>2, <1>3, Zenon DEF WorkerType
<1>5. wk' = [wk EXCEPT ![w] = r]
  BY Zenon DEF set, r
<1> QED  BY <1>1, <1>4, <1>5, Zenon

\* The steps of a pass over a chunk, before its outcome reaches the ledger.
LEMMA PassInv ==
    ASSUME Inv, NEW w \in Workers,
           Hold(w) \/ Confirm(w) \/ CommitWhole(w) \/ CommitAround(w) \/ Collide(w) \/ RefuseAround(w)
    PROVE  Inv'
<1> DEFINE c == wk[w].chunk
           o == wk[w].pending
           taken == IF o = {} THEN KeysOf(c) ELSE o
<1>1. /\ phase = "copy" /\ wk[w].pc \in passing
      /\ UNCHANGED <<ledger, from, saved, phase, stopping, chunker>>
  BY Zenon DEF Hold, Confirm, CommitWhole, CommitAround, Collide, RefuseAround, passing
<1>2. wk \in [Workers -> WorkerType] /\ c \in Chunk /\ c \in inFlight /\ WorkerOK(wk[w]) /\ Working
  BY <1>1, Zenon DEF Inv, Working, WorkerType, WorkerOK, busy
<1>3. /\ KeysOf(c) \subseteq Key /\ taken \subseteq KeysOf(c)
      /\ KeysOf(c) \ taken \subseteq covered
      /\ c \in DOMAIN partial => taken = partial[c]
  <2>1. KeysOf(c) \subseteq Key
    BY <1>2, ChunkFacts, Zenon
  <2>2. CASE c \in DOMAIN partial
    <3>1. o = partial[c] /\ o # {} /\ partial[c] \subseteq KeysOf(c) /\ KeysOf(c) \ partial[c] \subseteq covered
      BY <1>1, <1>2, <2>2, Zenon DEF WorkerOK, Inv, LedgerInv, LedgerType, Coverage
    <3> QED  BY <2>1, <3>1, Zenon
  <2>3. CASE c \notin DOMAIN partial
    BY <1>1, <1>2, <2>1, <2>3, Zenon DEF WorkerOK
  <2> QED  BY <2>2, <2>3, Zenon
<1>4. covered \subseteq Key /\ passKeys(w) = taken
  BY Zenon DEF Inv, LedgerInv, LedgerType, passKeys
<1> HIDE DEF c, o, taken
<1>5. ASSUME covered' = covered PROVE LedgerInv' /\ Spares(w)
  BY <1>1, <1>4, <1>5, LedgerFrame, SparesFrame DEF Inv, ledger
<1>6. ASSUME NEW r \in WorkerType, wk' = [wk EXCEPT ![w] = r], r.pc \in passing \cup {"failed"},
             r.chunk = c, r.pending = o, covered' = covered
      PROVE  Inv'
  <2>1. CASE r.pc = "failed"
    <3>1. chunker' \in [next : Int, done : BOOLEAN] /\ (~chunker'.done => chunker'.next \in Key)
          /\ (chunker.done => chunker'.done) /\ wk[w].pc # "exited"
      BY <1>1, Zenon DEF Inv, Claiming, passing
    <3>2. Working' /\ Claiming'
      BY <1>1, <1>5, <1>6, <2>1, <3>1, WorkerFails, Zenon
    <3> QED  BY <1>1, <1>5, <1>6, <3>2, SMTT(30) DEF Inv, NeverRefuses
  <2>2. CASE r.pc \in passing
    <3>1. WorkerOK(r)'
      BY <1>1, <1>2, <1>6, <2>2, Zenon DEF WorkerOK, busy, passing, ledger, c, o
    <3>2. r.pc \in busy /\ wk[w].pc \in busy /\ r.chunk = wk[w].chunk
          /\ UNCHANGED <<chunker, stopping, cut, inFlight>>
      BY <1>1, <1>6, <2>2 DEF busy, ledger, c
    <3>3. Working' /\ Claiming'
      BY <1>1, <1>5, <1>6, <3>1, <3>2, WorkerGoesOn, Zenon
    <3> QED  BY <1>1, <1>5, <1>6, <3>3, Zenon DEF Inv, NeverRefuses
  <2> QED  BY <1>6, <2>1, <2>2
<1>7. CASE Hold(w) \/ Confirm(w)
  <2>1. PICK p \in {"locked", "confirmed", "failed"} : moveTo(w, p) /\ covered' = covered
    BY <1>7, Zenon DEF Hold, Confirm
  <2>2. p \in busy \cup {"idle", "claimed", "failed", "exited"} /\ p \in passing \cup {"failed"}
    BY Zenon DEF busy, passing
  <2>3. PICK r \in WorkerType : wk' = [wk EXCEPT ![w] = r] /\ r.pc = p /\ r.chunk = c /\ r.pending = o
    BY <1>2, <2>1, <2>2, Moved DEF c, o
  <2> QED  BY <1>6, <2>1, <2>2, <2>3, Zenon
<1>8. CASE Collide(w) \/ RefuseAround(w)
  <2>1. PICK mode \in {"strict", "around", "whole"} : set(w, nextPass(w, mode)) /\ covered' = covered
    <3>1. wk[w].mode \in {"strict", "around", "whole"}
      BY <1>2, Zenon DEF WorkerType
    <3>2. CASE Collide(w)
      BY <3>1, <3>2, Zenon DEF Collide
    <3>3. CASE RefuseAround(w)
      BY <3>3, Zenon DEF RefuseAround
    <3> QED  BY <1>8, <3>2, <3>3, Zenon
  <2>2. PICK r \in WorkerType : /\ wk' = [wk EXCEPT ![w] = r] /\ r.pc \in {"copying", "failed"}
                               /\ r.chunk = c /\ r.pending = o
    BY <1>2, <2>1, NextPass, Zenon DEF c, o
  <2>3. r.pc \in passing \cup {"failed"}
    BY <2>2, Zenon DEF passing
  <2> QED  BY <1>6, <2>1, <2>2, <2>3, Zenon
<1>9. ASSUME NEW r \in WorkerType, NEW done, done \subseteq taken, wk' = [wk EXCEPT ![w] = r],
             covered' = covered \cup done, r.chunk = c,
             \/ r.pc = "landing" /\ done = taken
             \/ r.pc = "settling" /\ done = taken \ r.pending /\ r.pending # {} /\ r.pending \subseteq taken
      PROVE  Inv'
  <2>1. covered \subseteq covered' /\ covered' \subseteq Key
    BY <1>3, <1>4, <1>9, Zenon
  <2>2. LedgerInv'
    BY <1>1, <2>1, LedgerFrame DEF Inv
  <2>3. Spares(w)
    BY <1>1, <2>1, SparesFrame DEF ledger
  <2>4. WorkerOK(r)'
    <3>1. CASE r.pc = "landing"
      <4>1. KeysOf(c) \subseteq covered' /\ c \in inFlight'
        BY <1>1, <1>2, <1>3, <1>9, <3>1, Zenon DEF ledger
      <4> QED  BY <1>9, <3>1, <4>1 DEF WorkerOK, busy, passing
    <3>2. CASE r.pc = "settling"
      <4>1. /\ r.pending # {} /\ r.pending \subseteq KeysOf(c) /\ c \in inFlight'
            /\ c \in DOMAIN partial' => r.pending \subseteq partial'[c]
            /\ KeysOf(c) \ r.pending \subseteq covered'
        BY <1>1, <1>2, <1>3, <1>9, <3>2, Zenon DEF ledger
      <4> QED  BY <1>9, <3>2, <4>1, Zenon DEF WorkerOK, busy, passing
    <3> QED  BY <1>9, <3>1, <3>2, ZenonT(30)
  <2>5. r.pc \in busy /\ wk[w].pc \in busy /\ r.chunk = wk[w].chunk
        /\ UNCHANGED <<chunker, stopping, cut, inFlight>>
    BY <1>1, <1>9, Zenon DEF busy, ledger, c
  <2>6. Working' /\ Claiming'
    BY <1>1, <1>9, <2>3, <2>4, <2>5, WorkerGoesOn, Zenon
  <2> QED  BY <1>1, <2>2, <2>6, Zenon DEF Inv, NeverRefuses
<1>10. CASE CommitWhole(w)
  <2>1. moveTo(w, "landing") /\ covered' = covered \cup KeysOf(c)
    BY <1>10, Zenon DEF CommitWhole, c
  <2>2. "landing" \in busy \cup {"idle", "claimed", "failed", "exited"}
    BY Zenon DEF busy
  <2>3. PICK r \in WorkerType : wk' = [wk EXCEPT ![w] = r] /\ r.pc = "landing" /\ r.chunk = c
    BY <1>2, <2>1, <2>2, Moved DEF c
  <2>4. covered' = covered \cup taken
    BY <1>3, <2>1, Zenon
  <2> QED  BY <1>9, <2>3, <2>4, Zenon
<1>11. CASE CommitAround(w)
  <2>1. PICK held \in SUBSET taken :
           /\ covered' = covered \cup (taken \ held)
           /\ set(w, [wk[w] EXCEPT !.pc = IF held = {} THEN "landing" ELSE "settling",
                                   !.pending = held])
    BY <1>4, <1>11, ZenonT(30) DEF CommitAround
  <2> DEFINE p == IF held = {} THEN "landing" ELSE "settling"
             new == [wk[w] EXCEPT !.pc = p, !.pending = held]
  <2>2. p \in busy \cup {"idle", "claimed", "failed", "exited"} /\ held \subseteq Key
    BY <1>3, Zenon DEF busy
  <2>3. (held = {} => p = "landing") /\ (held # {} => p = "settling")
    BY Zenon
  <2>4. wk' = [wk EXCEPT ![w] = new]
    BY <2>1, Zenon DEF set
  <2> HIDE DEF p
  <2>5. new \in WorkerType /\ new.pc = p /\ new.chunk = c /\ new.pending = held
    BY <1>2, <2>2, Zenon DEF WorkerType, c
  <2> HIDE DEF new
  <2>6. PICK r \in WorkerType : r = new
    BY <2>5, Zenon
  <2>7. wk' = [wk EXCEPT ![w] = r] /\ r.pc = p /\ r.chunk = c /\ r.pending = held
    BY <2>4, <2>5, <2>6, Zenon
  <2>8. \/ r.pc = "landing" /\ taken \ held = taken
        \/ r.pc = "settling" /\ taken \ held = taken \ r.pending /\ r.pending # {} /\ r.pending \subseteq taken
    BY <2>3, <2>7, Zenon
  <2> QED  BY <1>9, <2>1, <2>7, <2>8, Zenon
<1> QED  BY <1>7, <1>8, <1>10, <1>11, Zenon

\* settle: the ledger learns what the chunk still owes, and the worker goes on
\* with that or has used its passes.
LEMMA SettleInv ==
    ASSUME Inv, NEW w \in Workers, Settle(w)
    PROVE  Inv'
<1>1. /\ phase = "copy" /\ wk[w].pc = "settling"
      /\ UNCHANGED <<from, saved, phase, stopping, chunker, cut, watermark, next, complete,
                     inFlight, landed, covered>>
  BY Zenon DEF Settle
<1>2. /\ Working /\ wk \in [Workers -> WorkerType] /\ wk[w].chunk \in inFlight
      /\ wk[w].pending # {} /\ wk[w].pending \subseteq KeysOf(wk[w].chunk)
      /\ KeysOf(wk[w].chunk) \ wk[w].pending \subseteq covered
  BY <1>1, Zenon DEF Inv, Working, WorkerOK, busy
<1>3. PICK c \in inFlight, owed \in SUBSET KeysOf(wk[w].chunk) :
         c = wk[w].chunk /\ owed = wk[w].pending
  BY <1>2
<1>4. /\ partial' = [d \in DOMAIN partial \cup {c} |-> IF d = c THEN owed ELSE partial[d]]
      /\ set(w, nextPass(w, "around"))
  BY <1>2, <1>3, SMTT(30) DEF Settle
<1>5. LedgerInv'
  BY <1>1, <1>2, <1>3, <1>4, SettleKeeps DEF Inv
<1>6. PICK r \in WorkerType : /\ wk' = [wk EXCEPT ![w] = r] /\ r.pc \in {"copying", "failed"}
                             /\ r.chunk = c /\ r.pending = owed
  BY <1>2, <1>3, <1>4, NextPass, Zenon
<1>7. /\ DOMAIN partial' = DOMAIN partial \cup {c} /\ partial'[c] = owed
      /\ \A d \in DOMAIN partial : d # c => partial'[d] = partial[d]
  BY <1>4, Zenon
<1>8. Spares(w)
  <2> SUFFICES ASSUME NEW q \in WorkerType, WorkerOK(q), q.pc \in busy => q.chunk # c
               PROVE  WorkerOK(q)'
    BY <1>1, <1>3, Zenon DEF Spares, busy
  <2> QED  BY <1>1, <1>7, Zenon DEF WorkerOK, busy, passing
<1>9. CASE r.pc = "failed"
  <2>1. chunker' \in [next : Int, done : BOOLEAN] /\ (~chunker'.done => chunker'.next \in Key)
        /\ (chunker.done => chunker'.done) /\ wk[w].pc # "exited"
    BY <1>1, Zenon DEF Inv, Claiming
  <2>2. Working' /\ Claiming'
    BY <1>1, <1>6, <1>8, <1>9, <2>1, WorkerFails, ZenonT(30)
  <2> QED  BY <1>1, <1>5, <2>2, SMTT(30) DEF Inv, NeverRefuses
<1>10. CASE r.pc = "copying"
  <2>1. WorkerOK(r)'
    BY <1>1, <1>2, <1>3, <1>6, <1>7, <1>10, SMTT(30) DEF WorkerOK, busy, passing
  <2>2. r.pc \in busy /\ wk[w].pc \in busy /\ r.chunk = wk[w].chunk
    BY <1>1, <1>3, <1>6, <1>10, Zenon DEF busy, passing
  <2>3. Working' /\ Claiming'
    BY <1>1, <1>6, <1>8, <2>1, <2>2, WorkerGoesOn, Zenon
  <2> QED  BY <1>1, <1>5, <2>3 DEF Inv, NeverRefuses
<1> QED  BY <1>6, <1>9, <1>10, Zenon

\* A worker's loop is over: nothing is left to claim, or the workers stop.
LEMMA ExitInv ==
    ASSUME Inv, NEW w \in Workers, Leave(w) \/ Stop(w)
    PROVE  Inv'
<1>1. /\ phase = "copy" /\ wk[w].pc \in {"idle", "failed"} /\ moveTo(w, "exited")
      /\ UNCHANGED <<ledger, from, saved, phase, chunker, covered>>
      /\ \/ wk[w].pc = "idle" /\ stopping' = stopping /\ (stopping \/ (chunker.done /\ claimMuFree))
         \/ stopping' = TRUE
  BY Zenon DEF Leave, Stop
<1>2. LedgerInv' /\ Spares(w)
  BY <1>1, LedgerFrame, SparesFrame, Zenon DEF Inv, LedgerInv, LedgerType, ledger
<1>3. PICK r \in WorkerType : wk' = [wk EXCEPT ![w] = r] /\ r.pc = "exited"
  BY <1>1, Moved DEF Inv
<1>4. WorkerOK(r)' /\ ~(r.pc \in busy)
  BY <1>3, Zenon DEF WorkerOK, busy, passing
<1>5. Working'
  BY <1>1, <1>2, <1>3, <1>4, WorkingStep, Zenon DEF Inv
<1>6. wk'[w] = r /\ \A v \in Workers : v # w => wk'[v] = wk[v]
  BY <1>3, Zenon DEF Inv, Working
<1>7. \A v \in Workers : wk'[v].pc = "claimed" <=> wk[v].pc = "claimed"
  BY <1>1, <1>3, <1>6
<1>8. claimMuFree' <=> claimMuFree
  BY <1>7 DEF claimMuFree
<1>9. /\ chunker' \in [next : Int, done : BOOLEAN] /\ (~chunker'.done => chunker'.next \in Key)
      /\ stopping' \in BOOLEAN
      /\ \A u, v \in Workers : wk'[u].pc = "claimed" /\ wk'[v].pc = "claimed" => u = v
  BY <1>1, <1>7, ZenonT(30) DEF Inv, Claiming
<1>10. CASE stopping' = TRUE
  <2>1. Claiming'
    BY <1>9, <1>10, Zenon DEF Claiming
  <2> QED  BY <1>1, <1>2, <1>5, <2>1, Zenon DEF Inv, NeverRefuses
<1>11. CASE ~stopping'
  <2>1. wk[w].pc = "idle" /\ ~stopping /\ chunker.done /\ claimMuFree
    BY <1>1, <1>11
  <2>2. ASSUME \A v \in Workers : wk'[v].pc # "failed"
        PROVE  /\ chunkerAt(High(cut))'
               /\ \A d \in inFlight' : \E v \in Workers : wk'[v].pc \in busy /\ wk'[v].chunk = d
    <3>1. \A v \in Workers : wk[v].pc # "failed"
      BY <1>6, <2>1, <2>2, SMTT(30)
    <3>2. /\ chunkerAt(High(cut))
          /\ \A d \in inFlight : \E v \in Workers : wk[v].pc \in busy /\ wk[v].chunk = d
      BY <2>1, <3>1 DEF Inv, Claiming
    <3>3. ~(wk[w].pc \in busy)
      BY <2>1, Zenon DEF busy, passing
    <3>4. chunkerAt(High(cut))'
      BY <1>1, <3>2, Zenon DEF chunkerAt, ledger
    <3> QED  BY <1>1, <1>6, <3>2, <3>3, <3>4 DEF ledger
  <2>3. chunker'.done /\ claimMuFree' /\ \A v \in Workers : wk'[v].pc # "claimed"
    BY <1>1, <1>8, <2>1, SMTT(30) DEF claimMuFree
  <2>4. Claiming'
    BY <1>9, <2>2, <2>3 DEF Claiming
  <2> QED  BY <1>1, <1>2, <1>5, <2>4, Zenon DEF Inv, NeverRefuses
<1> QED  BY <1>9, <1>10, <1>11, Zenon

-----------------------------------------------------------------------------
(* The run. *)

\* A step that leaves the ledger, the chunker and the workers alone, and ends the
\* copy phase only once the workers have exited.
LEMMA RunFrame ==
    ASSUME Inv, UNCHANGED <<ledger, from, saved, covered, chunker, wk, stopping>>,
           phase' # "refused", phase' = "clear" => phase = "clear",
           (phase = "copy" /\ phase' # "copy") => \A w \in Workers : wk[w].pc = "exited"
    PROVE  Inv'
<1>1. LedgerInv'
  BY LedgerFrame DEF Inv, LedgerInv, LedgerType
<1>2. \A q : WorkerOK(q) => WorkerOK(q)'
  BY Zenon DEF WorkerOK, ledger
<1>3. Working'
  BY <1>2, Zenon DEF Inv, Working, WorkerOK, ledger
<1>4. Claiming'
  BY Zenon DEF Inv, Claiming, ledger, claimMuFree, chunkerAt
<1> QED  BY <1>1, <1>3, <1>4 DEF Inv, NeverRefuses

\* finish: with every worker out and none stopped, the chunker is at its end and
\* no worker holds a chunk.
LEMMA FinishInv ==
    ASSUME Inv, Finish
    PROVE  Inv'
<1>1. /\ phase = "copy" /\ \A w \in Workers : wk[w].pc = "exited"
      /\ UNCHANGED <<ledger, from, saved, covered, chunker, wk, stopping>>
  BY Zenon DEF Finish
<1>2. ASSUME ~stopping PROVE inFlight = {} /\ Complete(watermark)
  <2>1. PICK w \in Workers : wk[w].pc = "exited"
    BY <1>1, LimitsAssumption
  <2>2. chunker.done /\ claimMuFree
    BY <1>2, <2>1 DEF Inv, Claiming
  <2>3. chunkerAt(High(cut)) /\ \A c \in inFlight : \E v \in Workers : wk[v].pc \in busy
    BY <1>1, <1>2, <2>2 DEF Inv, Claiming
  <2>4. inFlight = {}
    BY <1>1, <2>3, Zenon DEF busy, passing
  <2>5. High(cut) = MaxInt64
    BY <2>2, <2>3, Zenon DEF chunkerAt
  <2>6. High(watermark) = MaxInt64 /\ watermark \in Watermark
    BY <2>4, <2>5, NothingInFlight, Zenon DEF Inv, LedgerInv, LedgerType
  <2> QED  BY <2>4, <2>6, WatermarkFacts
<1>3. phase' \in {"failed", "done"}
  BY <1>2, Zenon DEF Finish
<1> QED  BY <1>1, <1>3, RunFrame, Zenon

\* The caller's cancel, the checkpoint and the lock.
LEMMA OutsideInv ==
    ASSUME Inv, Cancel \/ Save \/ LoseLock
    PROVE  Inv'
<1>1. CASE LoseLock
  <2>1. UNCHANGED <<ledger, from, saved, covered, chunker, wk, stopping, phase>>
    BY <1>1, Zenon DEF LoseLock
  <2> QED  BY <2>1, RunFrame, Zenon DEF Inv, NeverRefuses
<1>2. CASE Cancel
  <2>1. UNCHANGED <<ledger, from, saved, covered, chunker, wk, phase>> /\ stopping' = TRUE
    BY <1>2, Zenon DEF Cancel
  <2>2. LedgerInv'
    BY <2>1, LedgerFrame, Zenon DEF Inv, LedgerInv, LedgerType
  <2>3. Working'
    BY <2>1, Zenon DEF Inv, Working, WorkerOK, ledger
  <2>4. Claiming'
    BY <2>1, Zenon DEF Inv, Claiming
  <2> QED  BY <2>1, <2>2, <2>3, <2>4, Zenon DEF Inv, NeverRefuses
<1>3. CASE Save
  <2>1. UNCHANGED <<ledger, from, covered, chunker, wk, phase, stopping>> /\ saved' = watermark
    BY <1>3, Zenon DEF Save
  <2>2. LedgerType' /\ Coverage'
    BY <2>1, Zenon DEF Inv, LedgerInv, LedgerType, Coverage, ledger, Through
  <2>3. High(watermark) \in Int
    BY WatermarkFacts, Zenon DEF Inv, LedgerInv, LedgerType
  <2>4. Tiling'
    BY <2>1, <2>3 DEF Inv, LedgerInv, Tiling, ledger
  <2>5. Working'
    BY <2>1, Zenon DEF Inv, Working, WorkerOK, ledger
  <2>6. Claiming'
    BY <2>1, Zenon DEF Inv, Claiming, ledger, claimMuFree, chunkerAt
  <2> QED  BY <2>1, <2>2, <2>4, <2>5, <2>6, Zenon DEF Inv, LedgerInv, NeverRefuses
<1> QED  BY <1>1, <1>2, <1>3, Zenon

\* A run that starts after w, whichever way the earlier one ended.
LEMMA FreshInv ==
    ASSUME NEW w \in Watermark, FreshRun(w), phase' = "clear",
           saved' \in Watermark, High(saved') <= High(w)
    PROVE  Inv'
<1>1. LedgerInv'
  BY FreshKeeps, Zenon
<1>2. /\ wk' = [i \in Workers |-> idleWorker] /\ chunker' = startAfter(w) /\ stopping' = FALSE
      /\ cut' = w /\ inFlight' = {}
  BY Zenon DEF FreshRun
<1>3. \A v \in Workers : wk'[v] = idleWorker
  BY <1>2, Zenon
<1>4. Working'
  <2>1. wk' \in [Workers -> WorkerType]
    BY <1>2, IdleWorker, Zenon
  <2>2. \A v \in Workers : wk'[v].pc = "idle"
    BY <1>3, IdleWorker, Zenon
  <2>3. \A v \in Workers : WorkerOK(wk[v])'
    BY <2>2, Zenon DEF WorkerOK, busy, passing
  <2>4. ~("idle" \in busy)
    BY Zenon DEF busy, passing
  <2> QED  BY <2>1, <2>2, <2>3, <2>4, Zenon DEF Working
<1>5. Claiming'
  <2>1. \A v \in Workers : wk'[v].pc = "idle"
    BY <1>3, IdleWorker
  <2>2. chunker' \in [next : Int, done : BOOLEAN] /\ (chunker'.done <=> High(w) = MaxInt64)
        /\ (~chunker'.done => chunker'.next = High(w) + 1 /\ chunker'.next \in Key)
    BY <1>2, WatermarkFacts, KeyFacts
  <2>3. chunkerAt(High(cut))'
    BY <1>2, <2>2, Zenon DEF chunkerAt
  <2> QED  BY <1>2, <2>1, <2>2, <2>3, Zenon DEF Claiming
<1> QED  BY <1>1, <1>4, <1>5, Zenon DEF Inv, NeverRefuses

\* A resume starts after the watermark reached or after the one saved.
LEMMA ResumeInv ==
    ASSUME Inv, ResumeSame \/ ResumeNew
    PROVE  Inv'
<1>1. /\ saved' = saved /\ saved \in Watermark /\ watermark \in Watermark
      /\ High(saved) <= High(watermark) /\ phase' = "clear"
  BY Zenon DEF Inv, LedgerInv, LedgerType, Tiling, ResumeSame, ResumeNew
<1>2. High(saved) \in Int
  BY <1>1, WatermarkFacts, Zenon
<1>3. FreshRun(watermark) \/ FreshRun(saved)
  BY Zenon DEF ResumeSame, ResumeNew
<1> QED
  <2>1. CASE FreshRun(watermark)
    <3>1. PICK w \in Watermark : w = watermark
      BY <1>1, Zenon
    <3>2. FreshRun(w)
      BY <2>1, <3>1, Zenon
    <3> QED  BY <1>1, <3>1, <3>2, FreshInv, Zenon
  <2>2. CASE FreshRun(saved)
    <3>1. PICK w \in Watermark : w = saved
      BY <1>1, Zenon
    <3>2. FreshRun(w)
      BY <2>2, <3>1
    <3> QED  BY <1>1, <1>2, <3>1, <3>2, FreshInv
  <2> QED  BY <1>3, <2>1, <2>2, Zenon

\* The first run.
LEMMA InitInv == Init => Inv
<1> SUFFICES ASSUME Init PROVE Inv
  OBVIOUS
<1>1. LedgerInv
  BY InitLedger, Zenon
<1>2. /\ wk = [i \in Workers |-> idleWorker] /\ chunker = startAfter(from) /\ stopping = FALSE
      /\ cut = from /\ inFlight = {} /\ phase = "clear" /\ from \in Watermark
  BY FromAssumption, Zenon DEF Init
<1>3. wk \in [Workers -> WorkerType] /\ \A v \in Workers : wk[v] = idleWorker /\ wk[v].pc = "idle"
  BY <1>2, IdleWorker, SMTT(30)
<1>4. Working
  BY <1>3, IdleWorker, Zenon DEF Working, busy, passing
<1>5. chunker \in [next : Int, done : BOOLEAN] /\ (chunker.done <=> High(from) = MaxInt64)
        /\ (~chunker.done => chunker.next = High(from) + 1 /\ chunker.next \in Key)
  BY <1>2, WatermarkFacts, KeyFacts
<1>6. Claiming
  BY <1>2, <1>3, <1>5, Zenon DEF Claiming, chunkerAt
<1> QED  BY <1>1, <1>2, <1>4, <1>6, Zenon DEF Inv, NeverRefuses
=============================================================================
