---------------------------- MODULE CopierProofs ----------------------------
(***************************************************************************)
(* The copier, for every key space and any number of workers, passes, runs *)
(* and stragglers: the watermark takes in landed chunks alone, a key that  *)
(* counts as landed has been read by a committed pass, a clean stop has    *)
(* covered the key space, positions and checkpoints are those of           *)
(* CopyPosition, the rows of covered keys stay in the shadow, and above    *)
(* the watermark a run resumed after no row is an earlier run's.           *)
(***************************************************************************)
EXTENDS CopierLedgerProofs, WellFoundedInduction, FiniteSetTheorems

-----------------------------------------------------------------------------
(* Landing. *)

\* A non-empty set of keys has a greatest one.
LEMMA GreatestKey ==
    ASSUME NEW S, S \subseteq Key, S # {}
    PROVE  \E x \in S : \A y \in S : y <= x
<1> DEFINE T == {MaxInt64 - y : y \in S}
<1>1. T \subseteq Nat /\ T # {}
  BY KeyFacts
<1>2. \E t \in T : \A u \in T : ~(<<u, t>> \in OpToRel(<, Nat))
  <2> HIDE DEF T
  <2> QED  BY <1>1, NatLessThanWellFounded, WFMin, Zenon
<1>3. PICK t \in T : \A u \in T : ~(<<u, t>> \in OpToRel(<, Nat))
  BY <1>2, Zenon
<1>4. \A u \in T : ~(u < t)
  <2> HIDE DEF T
  <2> QED  BY <1>1, <1>3, Zenon DEF OpToRel
<1>5. PICK x \in S : t = MaxInt64 - x
  BY <1>3, Zenon
<1>6. \A y \in S : ~(MaxInt64 - y < MaxInt64 - x)
  BY <1>4, <1>5, Zenon
<1>7. x \in Int /\ \A y \in S : y \in Int
  BY KeyFacts, Zenon
<1>8. \A y \in S : y <= x
  BY <1>6, <1>7, KeyFacts
<1> QED  BY <1>8, Zenon

\* The last chunk the watermark absorbs: every key from next through it has
\* landed, and no landed chunk follows it without a gap.
LEMMA LastContiguous ==
    ASSUME NEW ls, ls \subseteq Chunk, Contiguous(ls) # {}
    PROVE  \E c \in Contiguous(ls) : /\ \A d \in Contiguous(ls) : d.upper <= c.upper
                                    /\ c = CHOOSE e \in Contiguous(ls) :
                                              \A d \in Contiguous(ls) : d.upper <= e.upper
<1> DEFINE prefix == Contiguous(ls)
           uppers == {c.upper : c \in prefix}
<1>1. prefix \subseteq Chunk /\ prefix # {}
  BY Zenon DEF Contiguous
<1> HIDE DEF prefix
<1>2. uppers \subseteq Key /\ uppers # {}
  BY <1>1, ChunkFacts, Zenon
<1>3. PICK x \in uppers : \A y \in uppers : y <= x
  <2> HIDE DEF uppers
  <2> QED  BY <1>2, GreatestKey, Zenon
<1>4. PICK c \in prefix : x = c.upper
  BY <1>3, Zenon
<1>5. \A d \in prefix : d.upper <= c.upper
  BY <1>3, <1>4, Zenon
<1> QED  BY <1>4, <1>5, Zenon DEF prefix

\* A landed chunk and advance: the watermark moves over the landed chunks that
\* follow it without a gap, and stops at the first key that has not landed.
LEMMA AdvanceKeeps ==
    ASSUME LedgerType, Tiling, NEW c0 \in inFlight,
           inFlight' = inFlight \ {c0}, advance(landed \cup {c0}), UNCHANGED <<cut, saved>>
    PROVE  /\ Tiling'
           /\ landed' \subseteq landed \cup {c0} /\ watermark' \in Watermark
           /\ \A k \in Key : k <= High(watermark') =>
                k <= High(watermark) \/ \E d \in landed \cup {c0} : k \in KeysOf(d)
<1> DEFINE ls == landed \cup {c0}
           prefix == Contiguous(ls)
           H == High(watermark)
           F == High(cut)
<1>1. ls \subseteq Chunk /\ inFlight \subseteq Chunk /\ inFlight' \subseteq Chunk
      /\ watermark \in Watermark /\ cut \in Watermark /\ saved \in Watermark
  BY Zenon DEF LedgerType
<1>2. inFlight' \cap ls = {} /\ inFlight' \cup ls = inFlight \cup landed
  BY Zenon DEF Tiling
<1>3. \A c, d \in inFlight' \cup ls : c # d => (c.upper < d.lower \/ d.upper < c.lower)
  BY <1>2, Zenon DEF Tiling
<1>4. \A k \in Key : (H < k /\ k <= F) <=> (\E c \in inFlight' \cup ls : k \in KeysOf(c))
  BY <1>2, Zenon DEF Tiling
<1>5. H \in Int /\ F \in Int /\ High(saved) \in Int /\ MinInt64 - 1 <= H /\ H <= F /\ F <= MaxInt64
      /\ High(saved) <= H /\ cut' = cut /\ saved' = saved
  BY <1>1, WatermarkFacts, Zenon DEF Tiling
<1>6. (complete <=> H = MaxInt64) /\ (~complete => next = H + 1)
  BY Zenon DEF Tiling
<1>7. \A c \in ls : c.lower > H
  BY <1>1, <1>4, ChunkFacts, Zenon
<1>8. ~complete
  <2>1. c0.lower > H /\ c0.lower <= MaxInt64 /\ c0.lower \in Int
    BY <1>1, <1>7, ChunkFacts, KeyFacts, Zenon
  <2> QED  BY <1>5, <1>6, <2>1, KeyFacts
<1>9. ASSUME NEW c \in ls PROVE c \in prefix <=> \A k \in (H + 1) .. c.upper : \E d \in ls : k \in KeysOf(d)
  BY <1>6, <1>8, Zenon DEF Contiguous
<1>10. prefix \subseteq ls
  BY Zenon DEF Contiguous
<1>11. CASE prefix = {}
  <2>1. landed' = ls /\ watermark' = watermark /\ next' = next /\ complete' = complete
    BY <1>11, Zenon DEF advance
  <2>2. ASSUME NEW c \in ls PROVE c.lower # H + 1
    <3> SUFFICES ASSUME c.lower = H + 1 PROVE FALSE
      BY Zenon
    <3>1. \A k \in (H + 1) .. c.upper : k \in KeysOf(c)
      BY Zenon DEF KeysOf
    <3> QED  BY <1>9, <1>11, <3>1, Zenon
  <2> HIDE DEF ls, prefix
  <2> QED  BY <1>1, <1>2, <1>3, <1>4, <1>5, <1>6, <2>1, <2>2, Zenon DEF Tiling
<1>12. CASE prefix # {}
  <2> DEFINE last == CHOOSE e \in prefix : \A d \in prefix : d.upper <= e.upper
             U == last.upper
  <2>1. last \in prefix /\ \A d \in prefix : d.upper <= U
    BY <1>1, <1>12, LastContiguous, Zenon
  <2>2. /\ landed' = ls \ prefix
        /\ watermark' = NewWatermark(U)
        /\ complete' = (U = MaxInt64)
        /\ next' = IF U = MaxInt64 THEN last.lower ELSE Inc(U)
    BY <1>8, <1>12, Zenon DEF advance
  <2> HIDE DEF last, ls, prefix
  <2>3. last \in ls /\ last \in Chunk /\ U \in Key /\ U \in Int /\ H < last.lower /\ last.lower <= U
        /\ U <= MaxInt64 /\ last.lower \in Int
    BY <1>1, <1>7, <1>10, <2>1, ChunkFacts, Zenon
  <2>4. watermark' \in Watermark /\ High(watermark') = U
    BY <2>2, <2>3, NewWatermarkFacts, Zenon
  <2>5. \A k \in (H + 1) .. U : \E d \in ls : k \in KeysOf(d)
    BY <1>9, <1>10, <2>1, Zenon
  <2>6. ASSUME NEW d \in inFlight' PROVE d.lower > U
    <3>1. d.lower \in Int /\ d.lower \in KeysOf(d) /\ d.lower > H /\ d \in Chunk
      BY <1>1, <1>4, ChunkFacts, Zenon
    <3>2. ASSUME d.lower <= U PROVE FALSE
      <4>1. d.lower \in (H + 1) .. U
        BY <1>5, <2>3, <3>1, <3>2
      <4>2. PICK e \in ls : d.lower \in KeysOf(e)
        BY <2>5, <4>1, Zenon
      <4>3. e # d
        BY <1>2, Zenon
      <4> QED  BY <1>1, <1>3, <3>1, <4>2, <4>3, ChunkFacts
    <3> QED  BY <2>3, <3>1, <3>2
  <2>7. ASSUME NEW d \in ls \ prefix PROVE d.lower > U + 1
    <3>1. d \in Chunk /\ d.lower \in Int /\ d.upper \in Int /\ d.lower <= d.upper
      BY <1>1, ChunkFacts, Zenon
    <3>2. PICK k \in (H + 1) .. d.upper : ~\E e \in ls : k \in KeysOf(e)
      BY <1>9, Zenon
    <3>3. k \in Int /\ k > U /\ k <= d.upper
      BY <1>5, <2>3, <2>5, <3>1, <3>2
    <3>4. ~(d.lower <= k)
      BY <3>1, <3>2, <3>3, ChunkFacts, Zenon
    <3> QED  BY <2>3, <3>1, <3>3, <3>4
  <2>8. ASSUME NEW k \in Key
        PROVE  (U < k /\ k <= F) <=> (\E c \in inFlight' \cup landed' : k \in KeysOf(c))
    <3>0. k \in Int
      BY KeyFacts, Zenon
    <3>1. ASSUME U < k, k <= F PROVE \E c \in inFlight' \cup landed' : k \in KeysOf(c)
      <4>1. H < k
        BY <1>5, <2>3, <3>0, <3>1
      <4>2. PICK c \in inFlight' \cup ls : k \in KeysOf(c)
        BY <1>4, <3>1, <4>1, Zenon
      <4>3. c \notin prefix
        BY <1>1, <1>10, <2>1, <2>3, <3>0, <3>1, <4>2, ChunkFacts
      <4> QED  BY <2>2, <4>2, <4>3, Zenon
    <3>2. ASSUME NEW c \in inFlight' \cup landed', k \in KeysOf(c) PROVE U < k /\ k <= F
      <4>1. c \in inFlight' \cup ls
        BY <2>2, Zenon
      <4>2. k <= F
        BY <1>4, <3>2, <4>1, Zenon
      <4>3. c \in Chunk /\ c.lower > U /\ c.lower \in Int /\ c.lower <= k
        BY <1>1, <2>2, <2>3, <2>6, <2>7, <3>0, <3>2, <4>1, ChunkFacts
      <4> QED  BY <2>3, <3>0, <4>2, <4>3
    <3> QED  BY <3>1, <3>2, Zenon
  <2>9. U <= F
    <3>1. U \in KeysOf(last)
      BY <2>3, ChunkFacts, Zenon
    <3> QED  BY <1>4, <2>3, <3>1, Zenon
  <2>10. \A k \in Key : k <= U => k <= H \/ \E d \in ls : k \in KeysOf(d)
    <3> SUFFICES ASSUME NEW k \in Key, k <= U, ~(k <= H) PROVE \E d \in ls : k \in KeysOf(d)
      BY Zenon
    <3>1. k \in (H + 1) .. U
      BY <1>5, <2>3, KeyFacts
    <3> QED  BY <2>5, <3>1, Zenon
  <2>11. ~complete' => next' = U + 1
    BY <2>2, <2>3, KeyFacts, Zenon
  <2>12. landed' \subseteq ls
    BY <2>2, Zenon
  <2>13. \A c \in landed' : c.lower # U + 1
    BY <1>1, <2>2, <2>3, <2>7, ChunkFacts
  <2>14. High(saved') <= U
    BY <1>5, <2>3
  <2>15. Tiling'
    <3>1. inFlight' \cap landed' = {}
      BY <1>2, <2>12, Zenon
    <3>2. \A c, d \in inFlight' \cup landed' : c # d => (c.upper < d.lower \/ d.upper < c.lower)
      BY <1>3, <2>12, Zenon
    <3>3. complete' <=> U = MaxInt64
      BY <2>2, Zenon
    <3> HIDE DEF U
    <3> QED  BY <1>5, <2>4, <2>8, <2>9, <2>11, <2>13, <2>14, <3>1, <3>2, <3>3, Zenon DEF Tiling
  <2> QED  BY <2>4, <2>10, <2>12, <2>15, Zenon DEF ls
<1> QED  BY <1>11, <1>12, Zenon

\* ledger.land: a covered chunk leaves the chunks in flight.
LEMMA LandKeeps ==
    ASSUME LedgerInv, NEW c \in inFlight, KeysOf(c) \subseteq covered,
           inFlight' = inFlight \ {c},
           partial' = [d \in DOMAIN partial \ {c} |-> partial[d]],
           advance(landed \cup {c}), UNCHANGED <<cut, from, saved, covered>>
    PROVE  LedgerInv'
<1>1. /\ Tiling'
      /\ landed' \subseteq landed \cup {c} /\ watermark' \in Watermark
      /\ \A k \in Key : k <= High(watermark') =>
           k <= High(watermark) \/ \E d \in landed \cup {c} : k \in KeysOf(d)
  BY AdvanceKeeps, Zenon DEF LedgerInv
<1>2. DOMAIN partial' = DOMAIN partial \ {c} /\ \A d \in DOMAIN partial' : partial'[d] = partial[d]
  BY Zenon
<1>3. LedgerType'
  BY <1>1, <1>2, Zenon DEF LedgerInv, LedgerType
<1>4. Coverage'
  <2>1. Through(watermark') \subseteq covered
    <3>1. \A k \in Key : k <= High(watermark) => k \in covered
      BY WatermarkFacts, Zenon DEF LedgerInv, LedgerType, Coverage
    <3>2. \A d \in landed \cup {c} : KeysOf(d) \subseteq covered
      BY Zenon DEF LedgerInv, Coverage
    <3>3. \A k \in Key : k <= High(watermark') => k \in covered
      BY <1>1, <3>1, <3>2, Zenon
    <3> QED  BY <1>1, <3>3, WatermarkFacts, Zenon
  <2>2. \A d \in landed' : KeysOf(d) \subseteq covered
    BY <1>1, Zenon DEF LedgerInv, Coverage
  <2>3. \A d \in DOMAIN partial' : KeysOf(d) \ partial'[d] \subseteq covered
    BY <1>2, Zenon DEF LedgerInv, Coverage
  <2>4. Through(watermark)' = Through(watermark')
    BY Zenon DEF Through
  <2> QED  BY <2>1, <2>2, <2>3, <2>4, Zenon DEF Coverage
<1> QED  BY <1>1, <1>3, <1>4, Zenon DEF LedgerInv

\* land: the chunk is covered, and leaves the chunks in flight with its worker.
LEMMA LandInv ==
    ASSUME Inv, NEW w \in Workers, Land(w)
    PROVE  Inv'
<1>1. /\ phase = "copy" /\ wk[w].pc = "landing"
      /\ UNCHANGED <<from, saved, phase, stopping, chunker, cut, covered>>
  BY Zenon DEF Land
<1>2. /\ Working /\ wk \in [Workers -> WorkerType] /\ wk[w].chunk \in inFlight
      /\ KeysOf(wk[w].chunk) \subseteq covered
  BY <1>1, Zenon DEF Inv, Working, WorkerOK, busy
<1>3. PICK c \in inFlight : c = wk[w].chunk
  BY <1>2, Zenon
<1>4. /\ inFlight' = inFlight \ {c}
      /\ partial' = [d \in DOMAIN partial \ {c} |-> partial[d]]
      /\ advance(landed \cup {c})
      /\ wk' = [wk EXCEPT ![w] = idleWorker]
  BY <1>3, Zenon DEF Land, set
<1>5. LedgerInv'
  BY <1>1, <1>2, <1>3, <1>4, LandKeeps, Zenon DEF Inv
<1>6. PICK r \in WorkerType : r = idleWorker
  BY IdleWorker, Zenon
<1>7. wk' = [wk EXCEPT ![w] = r] /\ r.pc = "idle"
  BY <1>4, <1>6, IdleWorker, Zenon
<1>8. WorkerOK(r)' /\ ~(r.pc \in busy)
  BY <1>7, Zenon DEF WorkerOK, busy, passing
<1>9. Spares(w)
  <2> SUFFICES ASSUME NEW q \in WorkerType, WorkerOK(q), q.pc \in busy => q.chunk # c
               PROVE  WorkerOK(q)'
    BY <1>1, <1>3, Zenon DEF Spares, busy
  <2>1. /\ DOMAIN partial' = DOMAIN partial \ {c}
        /\ \A d \in DOMAIN partial' : partial'[d] = partial[d]
    BY <1>4, Zenon
  <2> QED  BY <1>1, <1>4, <2>1, Zenon DEF WorkerOK, busy, passing
<1>10. Working'
  BY <1>1, <1>2, <1>7, <1>8, <1>9, WorkingStep, Zenon
<1>11. wk'[w] = r /\ \A v \in Workers : v # w => wk'[v] = wk[v]
  BY <1>2, <1>7, Zenon
<1>12. \A v \in Workers : \A p \in {"claimed", "failed", "exited"} : wk'[v].pc = p <=> wk[v].pc = p
  BY <1>1, <1>7, <1>11, Zenon
<1>13. claimMuFree' <=> claimMuFree
  BY <1>12, Zenon DEF claimMuFree
<1>14. ASSUME ~stopping, \A v \in Workers : wk'[v].pc # "failed"
       PROVE  /\ \A v \in Workers : wk'[v].pc = "claimed" =>
                   (wk[v].chunk.lower = High(cut) + 1 /\ chunkerAt(wk[v].chunk.upper))'
              /\ claimMuFree' => chunkerAt(High(cut))'
              /\ \A d \in inFlight' : \E v \in Workers : wk'[v].pc \in busy /\ wk'[v].chunk = d
  <2>1. \A v \in Workers : wk[v].pc # "failed"
    BY <1>12, <1>14, Zenon
  <2>2. /\ \A v \in Workers : wk[v].pc = "claimed" =>
               (wk[v].chunk.lower = High(cut) + 1 /\ chunkerAt(wk[v].chunk.upper))
        /\ claimMuFree => chunkerAt(High(cut))
        /\ \A d \in inFlight : \E v \in Workers : wk[v].pc \in busy /\ wk[v].chunk = d
    BY <1>14, <2>1, Zenon DEF Inv, Claiming
  <2>3. \A v \in Workers : wk'[v].pc = "claimed" =>
           (wk[v].chunk.lower = High(cut) + 1 /\ chunkerAt(wk[v].chunk.upper))'
    BY <1>1, <1>7, <1>11, <2>2 DEF chunkerAt
  <2>4. claimMuFree' => chunkerAt(High(cut))'
    BY <1>1, <1>13, <2>2, SMTT(30) DEF chunkerAt
  <2>5. \A d \in inFlight' : \E v \in Workers : wk'[v].pc \in busy /\ wk'[v].chunk = d
    BY <1>3, <1>4, <1>11, <2>2, Zenon
  <2> QED  BY <2>3, <2>4, <2>5, Zenon
<1>15. /\ \A u, v \in Workers : wk'[u].pc = "claimed" /\ wk'[v].pc = "claimed" => u = v
       /\ (~stopping' /\ \E v \in Workers : wk'[v].pc = "exited") => chunker'.done /\ claimMuFree'
  BY <1>1, <1>12, <1>13, ZenonT(30) DEF Inv, Claiming
<1>16. Claiming'
  BY <1>1, <1>14, <1>15, Zenon DEF Inv, Claiming
<1> QED  BY <1>1, <1>5, <1>10, <1>16, Zenon DEF Inv, NeverRefuses

-----------------------------------------------------------------------------
(* The invariant. *)

\* Every step of the copier keeps the invariant.
LEMMA StepInv ==
    ASSUME Inv, [Next]_vars
    PROVE  Inv'
<1>1. CASE ClearStep
  <2>1. /\ UNCHANGED <<ledger, from, saved, covered, chunker, wk, stopping>>
        /\ phase = "clear" /\ phase' \in {"clear", "copy", "failed"}
    BY <1>1, Zenon DEF ClearStep, ClearNothing, ClearHold, ClearConfirm, ClearCommit, ClearFail
  <2> QED  BY <2>1, RunFrame, Zenon
<1>2. ASSUME NEW w \in Workers, WorkerStep(w) PROVE Inv'
  <2>1. ASSUME CutFail(w) \/ TxFail(w) PROVE Inv'
    <3>1. /\ phase = "copy" /\ wk[w].pc # "exited" /\ moveTo(w, "failed")
          /\ UNCHANGED <<ledger, from, saved, covered, phase, stopping, chunker>>
      BY <2>1, Zenon DEF CutFail, TxFail
    <3> QED  BY <3>1, FailInv, Zenon
  <2> QED  BY <1>2, <2>1, CutInv, RegisterInv, PassInv, SettleInv, LandInv, ExitInv, Zenon DEF WorkerStep
<1>3. CASE RunStep
  BY <1>3, OutsideInv, FinishInv, ResumeInv, Zenon DEF RunStep
<1>4. ASSUME NEW s \in stragglers, StragglerStep(s) PROVE Inv'
  <2>1. UNCHANGED <<ledger, from, saved, covered, chunker, wk, stopping, phase>>
    BY <1>4, Zenon DEF StragglerStep, StragglerHold, StragglerConfirm, StragglerCommit, StragglerAbort, runVars
  <2> QED  BY <2>1, RunFrame, Zenon DEF Inv, NeverRefuses
<1>5. CASE UNCHANGED vars
  <2>1. UNCHANGED <<ledger, from, saved, covered, chunker, wk, stopping, phase>>
    BY <1>5, Zenon DEF vars
  <2> QED  BY <2>1, RunFrame, Zenon DEF Inv, NeverRefuses
<1> QED  BY <1>1, <1>2, <1>3, <1>4, <1>5, Zenon DEF Next

\* The tiling of the key space, the coverage and the workers' claims hold in every
\* state of every copy (copier.go work and finish, ledger.go, chunker.go).
THEOREM CopierInvariance == Spec => []Inv
BY InitInv, StepInv, PTL DEF Spec

\* CO-4: whatever fails and in whatever order chunks land, a key that counts as
\* landed was read by a committed pass (position.go Classify, ledger.go land,
\* settle and advance), for every key space and any number of workers and runs.
THEOREM LandedKeysAreCovered == Spec => []LandedIsCovered
<1>1. Inv => LandedIsCovered
  BY LandedCovered, Zenon DEF Inv, LandedIsCovered
<1> QED  BY <1>1, CopierInvariance, PTL

\* A clean stop has covered the key space: finish never refuses (copier.go finish).
THEOREM FinishNeverRefuses == Spec => []NeverRefuses
<1>1. Inv => NeverRefuses
  BY Zenon DEF Inv
<1> QED  BY <1>1, CopierInvariance, PTL

-----------------------------------------------------------------------------
(* The contract. *)

\* A chunk registered is a claim of its keys.
LEMMA RegisterMaps ==
    ASSUME Inv, Classified, Classified', NEW w \in Workers, Register(w)
    PROVE  Contract!Next \/ UNCHANGED Contract!vars
<1> DEFINE c == wk[w].chunk
           S == KeysOf(c)
<1>1. run' = run /\ Through(saved)' = Through(saved) /\ partial' = partial /\ wk[w].pc = "claimed"
  BY Zenon DEF Register, Through
<1>2. c \in Chunk
  BY Zenon DEF Inv, Working, WorkerType
<1>3. CASE ~startsAtFrontier(c)
  <2>1. inFlight' = inFlight /\ cut' = cut
    BY <1>3, Zenon DEF Register
  <2>2. \A k \in Key : Classify(k)' = Classify(k)
    BY <1>1, <2>1, Zenon DEF Classified, owes
  <2>3. position' = position
    BY <2>2, Zenon DEF position
  <2> QED  BY <1>1, <2>3, Zenon DEF Contract!vars
<1>4. CASE startsAtFrontier(c)
  <2>1. inFlight' = inFlight \cup {c} /\ cut' = NewWatermark(c.upper)
    BY <1>4, Zenon DEF Register
  <2>2. c.lower = High(cut) + 1 /\ c \notin inFlight \cup landed
    BY <1>1, <1>2, <1>4, <2>1, ClaimKeeps, Zenon DEF Inv, Register
  <2>3. High(cut') = c.upper /\ High(cut) \in Int /\ c.upper \in Int /\ c.lower <= c.upper
        /\ c \notin DOMAIN partial /\ S \subseteq Key
        /\ \A k \in Int : k \in S <=> (c.lower <= k /\ k <= c.upper)
    BY <1>2, <2>1, <2>2, ChunkFacts, NewWatermarkFacts, WatermarkFacts, ZenonT(30) DEF Inv, LedgerInv, LedgerType
  <2> HIDE DEF S
  <2>4. ASSUME NEW k \in Key
        PROVE  /\ k \in S => Classify(k) = "uncut" /\ Classify(k)' = "inFlight"
               /\ k \notin S => Classify(k)' = Classify(k)
               /\ Classify(k) = "uncut" <=> k > High(cut)
    <3>1. k \in Int /\ (k \in S <=> (k > High(cut) /\ k <= c.upper))
      BY <2>2, <2>3, KeyFacts, SMTT(30)
    <3>2. owes(k)' <=> (k \in S \/ owes(k))
      BY <1>1, <2>1, <2>3, Zenon DEF owes, S
    <3>3. Classify(k) = IF k > High(cut) THEN "uncut" ELSE IF owes(k) THEN "inFlight" ELSE "landed"
      BY Zenon DEF Classified
    <3>4. Classify(k)' = IF k > c.upper THEN "uncut"
                         ELSE IF k \in S \/ owes(k) THEN "inFlight" ELSE "landed"
      BY <2>3, <3>2, Zenon DEF Classified
    <3> QED  BY <2>2, <2>3, <3>1, <3>3, <3>4, SMTT(30)
  <2>5. S \in SUBSET Key /\ S \subseteq Contract!In("uncut")
    BY <2>3, <2>4, Zenon DEF Contract!In, position
  <2>6. Contract!Prefix(S \cup (Key \ Contract!In("uncut")))
    <3>1. \A k \in Key : k \in S \cup (Key \ Contract!In("uncut")) <=> k <= c.upper
      BY <2>2, <2>3, <2>4, KeyFacts DEF Contract!In, position
    <3>2. \A j, k \in Key : k <= c.upper /\ j <= k => j <= c.upper
      BY <2>3, KeyFacts
    <3> QED  BY <2>5, <3>1, <3>2, Zenon DEF Contract!Prefix
  <2>7. position' = [k \in Key |-> IF k \in S THEN "inFlight" ELSE position[k]]
    BY <2>4, Zenon DEF position
  <2>8. Contract!Claim(S)
    BY <1>1, <2>5, <2>6, <2>7, Zenon DEF Contract!Claim
  <2> QED  BY <2>5, <2>8, Zenon DEF Contract!Next
<1> QED  BY <1>3, <1>4, Zenon

\* A settled or a landed chunk owes less.
LEMMA SettleOrLandMaps ==
    ASSUME Inv, Classified, Classified', NEW w \in Workers, Settle(w) \/ Land(w)
    PROVE  Contract!Next
<1>1. cut' = cut /\ run' = run /\ saved' = saved
  BY Zenon DEF Settle, Land
<1>2. ASSUME NEW k \in Key, owes(k)' PROVE owes(k)
  <2>1. PICK c \in inFlight' : k \in KeysOf(c) /\ (c \in DOMAIN partial' => k \in partial'[c])
    BY <1>2, Zenon DEF owes
  <2>2. CASE Settle(w)
    <3>1. wk[w].pc = "settling" /\ inFlight' = inFlight
      BY <2>2, Zenon DEF Settle
    <3>2. wk[w].chunk \in inFlight /\ wk[w].pending # {}
          /\ (wk[w].chunk \in DOMAIN partial => wk[w].pending \subseteq partial[wk[w].chunk])
      BY <3>1, ZenonT(30) DEF Inv, Working, WorkerOK, busy
    <3>3. partial' = [d \in DOMAIN partial \cup {wk[w].chunk} |->
                        IF d = wk[w].chunk THEN wk[w].pending ELSE partial[d]]
      BY <2>2, <3>2, Zenon DEF Settle
    <3> QED  BY <2>1, <3>1, <3>2, <3>3, ZenonT(30) DEF owes
  <2>3. CASE Land(w)
    <3>1. wk[w].pc = "landing"
      BY <2>3, Zenon DEF Land
    <3>2. wk[w].chunk \in inFlight
      BY <3>1, Zenon DEF Inv, Working, WorkerOK, busy
    <3>3. inFlight' = inFlight \ {wk[w].chunk} /\ partial' = [d \in DOMAIN partial \ {wk[w].chunk} |-> partial[d]]
      BY <2>3, <3>2, Zenon DEF Land
    <3> QED  BY <2>1, <3>3, Zenon DEF owes
  <2> QED  BY <2>2, <2>3, Zenon
<1> QED  BY <1>1, <1>2, LandMaps, Zenon

\* The copier, with its workers, passes, failures, crashes and resumes, gives the
\* positions and saves the checkpoints of the contract (position.go Classify,
\* ledger.go claim, settle, land, resume.go), for every key space and any number
\* of workers, passes and runs.
THEOREM CopierMeetsContract == Spec => MeetsContract
<1>1. Inv => Classified
  BY ClassifyIs, Zenon DEF Inv, Classified
<1>2. Init => Contract!Init
  <2> SUFFICES ASSUME Init PROVE Contract!Init
    BY Zenon
  <2>1. run = 1 /\ saved = from /\ cut = from /\ inFlight = {} /\ from \in Watermark
    BY FromAssumption, Zenon DEF Init
  <2>2. Through(from) \in SUBSET Key /\ Contract!Prefix(Through(from))
    BY <2>1, ThroughIsPrefix, Zenon
  <2>3. ASSUME NEW k \in Key PROVE Classify(k) = IF k \in Through(from) THEN "landed" ELSE "uncut"
    <3>1. ~owes(k) /\ Classified
      BY <1>1, <2>1, InitInv, Zenon DEF owes
    <3>2. k \in Int /\ High(from) \in Int /\ (k \in Through(from) <=> k <= High(from))
      BY <2>1, WatermarkFacts, KeyFacts, Zenon
    <3> QED  BY <2>1, <3>1, <3>2 DEF Classified
  <2>4. position = Contract!After(Through(from))
    BY <2>3, Zenon DEF position, Contract!After
  <2> QED  BY <2>1, <2>2, <2>4, Zenon DEF Contract!Init
<1>3. Inv /\ Classified /\ Classified' /\ [Next]_vars => [Contract!Next]_(Contract!vars)
  <2> SUFFICES ASSUME Inv, Classified, Classified', [Next]_vars
               PROVE  Contract!Next \/ UNCHANGED Contract!vars
    BY Zenon
  <2>1. CASE ClearStep
    <3>1. UNCHANGED <<ledger, run, saved>>
      BY <2>1, Zenon DEF ClearStep, ClearNothing, ClearHold, ClearConfirm, ClearCommit, ClearFail
    <3> QED  BY <3>1, PositionFrame, Zenon
  <2>2. ASSUME NEW w \in Workers, WorkerStep(w) PROVE Contract!Next \/ UNCHANGED Contract!vars
    <3>1. Register(w) \/ Settle(w) \/ Land(w) \/ UNCHANGED <<ledger, run, saved>>
      BY <2>2, Zenon DEF WorkerStep, Cut, CutFail, Leave, Hold, Confirm, CommitWhole, CommitAround,
                  Collide, RefuseAround, TxFail, Stop
    <3> QED  BY <3>1, RegisterMaps, SettleOrLandMaps, PositionFrame, Zenon
  <2>3. CASE RunStep
    <3>1. CASE Cancel \/ Finish \/ LoseLock
      <4>1. UNCHANGED <<ledger, run, saved>>
        BY <3>1, Zenon DEF Cancel, Finish, LoseLock
      <4> QED  BY <4>1, PositionFrame
    <3>2. CASE ResumeSame \/ ResumeNew
      <4>1. run' = run + 1 /\ saved' = saved /\ (FreshRun(watermark) \/ FreshRun(saved))
        BY <3>2, Zenon DEF ResumeSame, ResumeNew
      <4>2. saved \in Watermark /\ watermark \in Watermark /\ High(saved) <= High(watermark)
        BY Zenon DEF Inv, LedgerInv, LedgerType, Tiling
      <4>3. High(saved) \in Int /\ High(watermark) \in Int
        BY <4>2, WatermarkFacts, Zenon
      <4>4. PICK w \in Watermark : FreshRun(w) /\ (w = watermark \/ w = saved)
        BY <4>1, <4>2, Zenon
      <4>5. High(saved) <= High(w) /\ High(w) <= High(watermark)
        BY <4>2, <4>3, <4>4
      <4> QED  BY <4>1, <4>4, <4>5, FreshMaps, Zenon DEF Inv
    <3> QED  BY <2>3, <3>1, <3>2, SaveMaps, SMTT(30) DEF RunStep, Inv
  <2>4. ASSUME NEW s \in stragglers, StragglerStep(s) PROVE Contract!Next \/ UNCHANGED Contract!vars
    <3>1. UNCHANGED <<ledger, run, saved>>
      BY <2>4, Zenon DEF StragglerStep, StragglerHold, StragglerConfirm, StragglerCommit, StragglerAbort, runVars
    <3> QED  BY <3>1, PositionFrame, Zenon
  <2>5. CASE UNCHANGED vars
    BY <2>5, PositionFrame, Zenon DEF vars
  <2> QED  BY <2>1, <2>2, <2>3, <2>4, <2>5, Zenon DEF Next
<1> QED  BY <1>1, <1>2, <1>3, CopierInvariance, PTL DEF Spec, MeetsContract, Contract!Spec

-----------------------------------------------------------------------------
(* The shadow. *)

\* Server-side transactions whose client has gone.
Straggler ==
    [kind : {"copy", "clear"}, run : Nat \ {0}, session : Nat \ {0},
     pc : {"begin", "copying", "locked", "confirmed"}, keys : SUBSET Key, fence : BOOLEAN]

ShadowType ==
    /\ run \in Nat \ {0} /\ session \in Nat \ {0} /\ sessions = session /\ holder \in {0, session}
    /\ clear \in [pc : {"begin", "locked", "confirmed"}, fence : BOOLEAN]
    /\ shadow \in [Key -> Nat] /\ stragglers \subseteq Straggler

\* The run has held the fence over a shadow that is not complete, and has not
\* failed since.
Fenced ==
    \/ phase = "clear" /\ (~clear.fence \/ clear.pc \in holding)
    \/ phase \in {"copy", "done"} /\ ~startAfter(from).done

\* A straggler of the current session has confirmed already, so that none will;
\* behind the fence only this run's own passes are left to commit, on keys it has
\* cut; and a clear left behind has no key to remove that a pass has covered.
StragglersOK ==
    /\ \A s \in stragglers : s.session <= session /\ (s.session = session => s.pc = "confirmed")
    /\ \A s \in stragglers : s.pc = "confirmed" /\ Fenced =>
         phase # "clear" /\ s.kind = "copy" /\ s.run = run /\ s.keys \subseteq Through(cut)
    /\ \A s \in stragglers : s.pc = "confirmed" /\ s.kind = "clear" => s.keys \cap covered = {}

\* What a pass has covered has a row; above the watermark the run resumed after
\* the rows are its own, and none lies above the frontier.
RowsOK ==
    /\ Through(from) \subseteq covered
    /\ phase = "clear" => covered = Through(from)
    /\ \A k \in covered : shadow[k] # 0
    /\ phase \in {"copy", "done"} =>
         \A k \in Key \ Through(from) :
             shadow[k] \in {0, run} /\ (k > High(cut) => shadow[k] = 0)

ShadowInv == ShadowType /\ StragglersOK /\ RowsOK

-----------------------------------------------------------------------------
(* The batches of the clear. *)

\* A set of keys has a least one.
LEMMA LeastKey ==
    ASSUME NEW S, S \subseteq Key, S # {}
    PROVE  \E x \in S : \A y \in S : x <= y
<1> DEFINE T == {y - MinInt64 : y \in S}
<1>1. T \subseteq Nat /\ T # {}
  BY KeyFacts
<1>2. PICK t \in T : \A u \in T : ~(<<u, t>> \in OpToRel(<, Nat))
  <2> HIDE DEF T
  <2> QED  BY <1>1, NatLessThanWellFounded, WFMin
<1>3. \A u \in T : ~(u < t)
  <2> HIDE DEF T
  <2> QED  BY <1>1, <1>2, Zenon DEF OpToRel
<1>4. PICK x \in S : t = x - MinInt64
  BY <1>2, Zenon
<1>5. \A y \in S : ~(y - MinInt64 < x - MinInt64)
  BY <1>3, <1>4, Zenon
<1>6. \A y \in S : x <= y
  BY <1>5, KeyFacts
<1> QED  BY <1>6, Zenon

\* A batch with room left is every row there is: when a clear stops, nothing is
\* left above the watermark.
LEMMA BatchIsAll ==
    ASSUME NEW ks \in SUBSET Key
    PROVE  /\ batchOf(ks) \subseteq ks
           /\ Cardinality(batchOf(ks)) < BatchRows => \A k \in ks \ batchOf(ks) : shadow[k] = 0
<1> DEFINE rows == {k \in ks : shadow[k] # 0}
           before(k) == {j \in rows : j < k}
           rest == rows \ batchOf(ks)
<1>1. batchOf(ks) = {k \in rows : Cardinality(before(k)) < BatchRows}
  BY Zenon DEF batchOf
<1>2. IsFiniteSet(Key)
  BY FS_Interval, KeySpace, Zenon DEF Key
<1>3. rows \subseteq Key /\ batchOf(ks) \subseteq rows
  BY <1>1, Zenon
<1>4. ASSUME Cardinality(batchOf(ks)) < BatchRows, rest # {} PROVE FALSE
  <2>1. PICK m \in rest : \A y \in rest : m <= y
    BY <1>3, <1>4, LeastKey, Zenon
  <2>2. m \in Int /\ (\A j \in rows : j \in Int)
    BY <1>3, <2>1, KeyFacts, Zenon
  <2>3. before(m) \subseteq batchOf(ks)
    <3> SUFFICES ASSUME NEW j \in rows, j < m, j \in rest PROVE FALSE
      BY Zenon
    <3>1. m <= j
      BY <2>1, Zenon
    <3> HIDE DEF rows
    <3> QED  BY <2>2, <3>1
  <2>4. IsFiniteSet(batchOf(ks))
    BY <1>2, <1>3, FS_Subset, Zenon
  <2>5. IsFiniteSet(before(m)) /\ Cardinality(before(m)) <= Cardinality(batchOf(ks))
    BY <2>3, <2>4, FS_Subset, Zenon
  <2>6. Cardinality(before(m)) \in Nat /\ Cardinality(batchOf(ks)) \in Nat
    BY <2>4, <2>5, FS_CardinalityType, Zenon
  <2>7. ~(Cardinality(before(m)) < BatchRows)
    BY <1>1, <2>1, Zenon
  <2> QED  BY <1>4, <2>5, <2>6, <2>7, LimitsAssumption
<1> QED  BY <1>3, <1>4, Zenon

-----------------------------------------------------------------------------
(* What a step does to the rows and to the stragglers. *)

\* A step of the run that leaves rows and stragglers alone.
LEMMA ShadowFrame ==
    ASSUME LedgerInv, LedgerInv', ShadowInv, holder' \in {0, holder}, High(cut) <= High(cut'),
           UNCHANGED <<run, session, sessions, from, clear, stragglers, shadow, covered>>,
           phase' = phase \/ phase' = "failed" \/ (phase = "copy" /\ phase' = "done")
    PROVE  ShadowInv'
<1>1. cut \in Watermark /\ cut' \in Watermark
  BY Zenon DEF LedgerInv, LedgerType
<1>2. High(cut) \in Int /\ High(cut') \in Int
  BY <1>1, WatermarkFacts, Zenon
<1>3. Through(cut) \subseteq Through(cut')
  BY <1>1, ThroughGrows, Zenon
<1>4. Fenced' => Fenced /\ (phase # "clear" => phase' # "clear")
  BY Zenon DEF Fenced, startAfter, Complete
<1>5. ShadowType'
  BY Zenon DEF ShadowInv, ShadowType
<1>6. StragglersOK'
  BY <1>3, <1>4, Zenon DEF ShadowInv, StragglersOK, Through
<1>7. RowsOK'
  <2>1. \A k \in Key : k > High(cut') => k > High(cut)
    BY <1>2, KeyFacts
  <2> QED  BY <2>1, Zenon DEF ShadowInv, RowsOK, Through, High
<1> QED  BY <1>5, <1>6, <1>7, Zenon DEF ShadowInv

\* The keys a pass reads have been cut.
LEMMA PassIsCut ==
    ASSUME Inv, NEW w \in Workers, wk[w].pc \in passing
    PROVE  KeysOf(wk[w].chunk) \subseteq Through(cut) /\ passKeys(w) \subseteq KeysOf(wk[w].chunk)
<1>1. wk[w].chunk \in inFlight /\ wk[w].chunk \in Chunk
  BY Zenon DEF Inv, Working, WorkerOK, WorkerType, busy
<1>2. passKeys(w) \subseteq KeysOf(wk[w].chunk)
  BY <1>1, Zenon DEF Inv, Working, WorkerOK, LedgerInv, LedgerType, passKeys
<1>3. KeysOf(wk[w].chunk) \subseteq Key /\ cut \in Watermark
  BY <1>1, ChunkFacts, Zenon DEF Inv, LedgerInv, LedgerType
<1>4. \A k \in Key : k \in Through(cut) <=> k <= High(cut)
  BY <1>3, WatermarkFacts, Zenon
<1>5. \A k \in Key : k \in KeysOf(wk[w].chunk) => k <= High(cut)
  BY <1>1, Zenon DEF Inv, LedgerInv, Tiling
<1> QED  BY <1>2, <1>3, <1>4, <1>5, Zenon

\* A pass commits: the keys it has read get rows of this run.
LEMMA PassRows ==
    ASSUME LedgerInv, ShadowInv, phase = "copy", NEW ks, ks \subseteq Through(cut),
           insert(ks, run), covered' = covered \cup ks,
           UNCHANGED <<run, lockVars, from, phase, clear, cut, stragglers>>
    PROVE  ShadowInv'
<1>1. /\ cut \in Watermark /\ Through(cut) \subseteq Key /\ High(cut) \in Int
      /\ \A k \in Key : k \in Through(cut) <=> k <= High(cut)
  BY WatermarkFacts, Zenon DEF LedgerInv, LedgerType
<1>2. run \in Nat \ {0} /\ shadow \in [Key -> Nat]
  BY Zenon DEF ShadowInv, ShadowType
<1>3. /\ shadow' \in [Key -> Nat]
      /\ \A k \in Key : shadow'[k] = IF k \in ks /\ shadow[k] = 0 THEN run ELSE shadow[k]
  BY <1>2, Zenon DEF insert
<1>4. ShadowType'
  BY <1>3, Zenon DEF ShadowInv, ShadowType, lockVars
<1>5. ~Fenced => covered' = covered
  <2>1. ~Fenced => startAfter(from).done
    BY Zenon DEF Fenced
  <2>2. startAfter(from).done => Key \subseteq covered
    BY AboveIs, Zenon DEF ShadowInv, RowsOK
  <2> QED  BY <1>1, <2>1, <2>2, Zenon
<1>6. StragglersOK'
  BY <1>5, Zenon DEF ShadowInv, StragglersOK, Fenced, Through, startAfter, Complete, lockVars
<1>7. RowsOK'
  <2>1. \A k \in covered' : shadow'[k] # 0
    BY <1>1, <1>2, <1>3, Zenon DEF ShadowInv, RowsOK, LedgerInv, LedgerType
  <2>2. \A k \in Key \ Through(from) : shadow'[k] \in {0, run} /\ (k > High(cut) => shadow'[k] = 0)
    <3>1. \A k \in Key : k > High(cut) => k \notin ks
      BY <1>1, KeyFacts
    <3> QED  BY <1>3, <3>1, Zenon DEF ShadowInv, RowsOK
  <2> QED  BY <2>1, <2>2, Zenon DEF ShadowInv, RowsOK, Through, High
<1> QED  BY <1>4, <1>6, <1>7, Zenon DEF ShadowInv

\* A client goes away while the server commits its pass or its clear batch.
LEMMA ClientGone ==
    ASSUME LedgerInv, ShadowInv, NEW t \in Straggler, stragglers' = stragglers \cup {t},
           t.session = session, t.pc = "confirmed",
           UNCHANGED <<run, lockVars, from, clear, cut, shadow, covered>>,
           \/ /\ phase = "copy" /\ phase' = phase
              /\ t.kind = "copy" /\ t.run = run /\ t.keys \subseteq Through(cut)
           \/ phase' = "failed" /\ t.kind = "clear" /\ t.keys \cap covered = {}
    PROVE  ShadowInv'
<1>1. ShadowType'
  BY Zenon DEF ShadowInv, ShadowType, lockVars
<1>2. Fenced' => Fenced /\ phase' = phase
  BY Zenon DEF Fenced, startAfter, Complete
<1>3. session \in Nat
  BY Zenon DEF ShadowInv, ShadowType
<1>4. StragglersOK'
  <2>1. \A s \in stragglers' : s.session <= session /\ (s.session = session => s.pc = "confirmed")
    BY <1>3 DEF ShadowInv, StragglersOK
  <2>2. \A s \in stragglers' : s.pc = "confirmed" /\ Fenced' =>
          phase' # "clear" /\ s.kind = "copy" /\ s.run = run /\ s.keys \subseteq Through(cut)
    BY <1>2, Zenon DEF ShadowInv, StragglersOK, Fenced
  <2>3. \A s \in stragglers' : s.pc = "confirmed" /\ s.kind = "clear" => s.keys \cap covered = {}
    BY Zenon DEF ShadowInv, StragglersOK
  <2> QED  BY <2>1, <2>2, <2>3, Zenon DEF StragglersOK, Through, lockVars
<1>5. RowsOK'
  BY Zenon DEF ShadowInv, RowsOK, Through, High
<1> QED  BY <1>1, <1>4, <1>5, Zenon DEF ShadowInv

\* clearAbove: the fence waits for every transaction that holds the shadow, and
\* the clear ends with nothing above the watermark.
LEMMA ClearShadow ==
    ASSUME LedgerInv, LedgerInv', ShadowInv, ClearStep
    PROVE  ShadowInv'
<1>1. CASE ClearNothing
  <2>1. /\ phase' = "copy" /\ startAfter(from).done
        /\ UNCHANGED <<run, lockVars, from, clear, cut, stragglers, shadow, covered>>
    BY <1>1, Zenon DEF ClearNothing, ledger
  <2>2. ~Fenced'
    BY <2>1, Zenon DEF Fenced, startAfter, Complete
  <2>3. ShadowType' /\ StragglersOK'
    BY <2>1, <2>2, Zenon DEF ShadowInv, ShadowType, StragglersOK, lockVars
  <2>4. Key \ Through(from) = {}
    BY <2>1, AboveIs, Zenon
  <2>5. RowsOK'
    BY <2>1, <2>4, Zenon DEF ShadowInv, RowsOK, Through, High
  <2> QED  BY <2>3, <2>5, Zenon DEF ShadowInv
<1>2. CASE ClearHold
  <2>1. /\ phase = "clear" /\ clear' = [clear EXCEPT !.pc = "locked"] /\ grantable(clear.fence)
        /\ UNCHANGED <<run, lockVars, from, phase, cut, stragglers, shadow, covered>>
    BY <1>2, Zenon DEF ClearHold, ledger
  <2>2. clear \in [pc : {"begin", "locked", "confirmed"}, fence : BOOLEAN]
    BY Zenon DEF ShadowInv, ShadowType
  <2>3. clear' \in [pc : {"begin", "locked", "confirmed"}, fence : BOOLEAN]
    BY <2>1, <2>2, Zenon
  <2>4. ShadowType'
    BY <2>1, <2>3, Zenon DEF ShadowInv, ShadowType, lockVars
  <2>5. \A s \in stragglers : s.pc # "confirmed"
    <3>1. CASE clear.fence
      BY <2>1, <3>1, Zenon DEF grantable, shadowHeld, holding
    <3>2. CASE ~clear.fence
      BY <2>1, <3>2, Zenon DEF ShadowInv, StragglersOK, Fenced
    <3> QED  BY <3>1, <3>2, Zenon
  <2>6. StragglersOK'
    BY <2>1, <2>5, Zenon DEF ShadowInv, StragglersOK, lockVars
  <2>7. RowsOK'
    BY <2>1, Zenon DEF ShadowInv, RowsOK, Through
  <2> QED  BY <2>4, <2>6, <2>7, Zenon DEF ShadowInv
<1>3. CASE ClearConfirm
  <2>1. /\ phase = "clear" /\ clear.pc = "locked"
        /\ UNCHANGED <<run, lockVars, from, cut, stragglers, shadow, covered>>
        /\ \/ clear' = [clear EXCEPT !.pc = "confirmed"] /\ phase' = phase
           \/ phase' = "failed" /\ clear' = clear
    BY <1>3, Zenon DEF ClearConfirm, ledger
  <2>2. CASE phase' = "failed" /\ clear' = clear
    <3>1. High(cut) <= High(cut')
      BY <2>1, WatermarkFacts DEF LedgerInv, LedgerType
    <3> QED  BY <2>1, <2>2, <3>1, ShadowFrame, Zenon DEF lockVars
  <2>3. CASE clear' = [clear EXCEPT !.pc = "confirmed"] /\ phase' = phase
    <3>1. clear \in [pc : {"begin", "locked", "confirmed"}, fence : BOOLEAN]
      BY DEF ShadowInv, ShadowType
    <3>2. clear' \in [pc : {"begin", "locked", "confirmed"}, fence : BOOLEAN]
      BY <2>3, <3>1, Zenon
    <3>3. ShadowType'
      BY <2>1, <3>2, Zenon DEF ShadowInv, ShadowType, lockVars
    <3>4. Fenced
      BY <2>1, Zenon DEF Fenced, holding
    <3>5. StragglersOK'
      BY <2>1, <3>4, Zenon DEF ShadowInv, StragglersOK, lockVars
    <3>6. RowsOK'
      BY <2>1, <2>3, Zenon DEF ShadowInv, RowsOK, Through
    <3> QED  BY <3>3, <3>5, <3>6 DEF ShadowInv
  <2> QED  BY <2>1, <2>2, <2>3, Zenon
<1>4. CASE ClearCommit
  <2>1. /\ phase = "clear" /\ clear.pc = "confirmed" /\ remove(batchOf(above))
        /\ clear' = [pc |-> "begin", fence |-> FALSE]
        /\ phase' \in {"clear", "copy"}
        /\ phase' = "copy" => Cardinality(batchOf(above)) < BatchRows
        /\ UNCHANGED <<run, lockVars, from, cut, stragglers, covered>>
    BY <1>4, Zenon DEF ClearCommit, ledger
  <2>2. /\ above = Key \ Through(from) /\ batchOf(above) \subseteq above
        /\ phase' = "copy" => \A k \in above \ batchOf(above) : shadow[k] = 0
    BY <2>1, AboveIs, BatchIsAll, Zenon
  <2>3. shadow \in [Key -> Nat] /\ Through(from) \subseteq Key
    BY AboveIs, Zenon DEF ShadowInv, ShadowType
  <2>4. /\ shadow' \in [Key -> Nat]
        /\ \A k \in Key : shadow'[k] = IF k \in batchOf(above) THEN 0 ELSE shadow[k]
    BY <2>1, <2>3, Zenon DEF remove
  <2>5. ShadowType'
    BY <2>1, <2>4, Zenon DEF ShadowInv, ShadowType, lockVars
  <2>6. Fenced
    BY <2>1, Zenon DEF Fenced, holding
  <2>7. StragglersOK'
    BY <2>1, <2>6, Zenon DEF ShadowInv, StragglersOK, lockVars
  <2>8. covered = Through(from) /\ \A k \in covered : shadow[k] # 0
    BY <2>1, Zenon DEF ShadowInv, RowsOK
  <2>9. \A k \in covered : shadow'[k] # 0
    BY <2>2, <2>3, <2>4, <2>8, Zenon
  <2>10. phase' = "copy" => \A k \in Key \ Through(from) : shadow'[k] = 0
    BY <2>2, <2>4, Zenon
  <2>11. RowsOK'
    BY <2>1, <2>8, <2>9, <2>10, Zenon DEF RowsOK, Through
  <2> QED  BY <2>5, <2>7, <2>11 DEF ShadowInv
<1>5. CASE ClearFail
  <2>1. /\ phase = "clear" /\ phase' = "failed"
        /\ UNCHANGED <<run, lockVars, from, clear, cut, shadow, covered>>
        /\ \/ stragglers' = stragglers
           \/ clear.pc = "confirmed" /\ stragglers' = stragglers \cup {clearStraggler}
    BY <1>5, Zenon DEF ClearFail, ledger
  <2>2. CASE stragglers' = stragglers
    <3>1. High(cut) <= High(cut')
      BY <2>1, WatermarkFacts DEF LedgerInv, LedgerType
    <3> QED  BY <2>1, <2>2, <3>1, ShadowFrame, Zenon DEF lockVars
  <2>3. CASE clear.pc = "confirmed" /\ stragglers' = stragglers \cup {clearStraggler}
    <3>1. covered = Through(from) /\ above = Key \ Through(from)
      BY <2>1, AboveIs, Zenon DEF ShadowInv, RowsOK
    <3>2. clearStraggler \in Straggler
      BY <2>3, <3>1, Zenon DEF ShadowInv, ShadowType, Straggler, clearStraggler
    <3>3. PICK t \in Straggler : t = clearStraggler
      BY <3>2, Zenon
    <3>4. t.session = session /\ t.pc = "confirmed" /\ t.kind = "clear" /\ t.keys \cap covered = {}
      BY <2>3, <3>1, <3>3, Zenon DEF clearStraggler
    <3> QED  BY <2>1, <2>3, <3>3, <3>4, ClientGone, Zenon
  <2> QED  BY <2>1, <2>2, <2>3, Zenon
<1> QED  BY <1>1, <1>2, <1>3, <1>4, <1>5, Zenon DEF ClearStep

\* A worker inserts rows on keys it has cut, or leaves that to the server.
LEMMA WorkShadow ==
    ASSUME Inv, LedgerInv', ShadowInv, NEW w \in Workers, WorkerStep(w)
    PROVE  ShadowInv'
<1>0. LedgerInv /\ run \in Nat \ {0} /\ session \in Nat \ {0}
  BY Zenon DEF Inv, ShadowInv, ShadowType
<1>1. CASE CommitWhole(w) \/ CommitAround(w)
  <2>1. wk[w].pc \in passing /\ phase = "copy"
    BY <1>1, Zenon DEF CommitWhole, CommitAround, passing
  <2>2. KeysOf(wk[w].chunk) \subseteq Through(cut) /\ passKeys(w) \subseteq KeysOf(wk[w].chunk)
    BY <2>1, PassIsCut, Zenon
  <2>3. UNCHANGED <<run, lockVars, from, phase, clear, cut, stragglers>>
    BY <1>1, Zenon DEF CommitWhole, CommitAround, ledger
  <2>4. \E ks : ks \subseteq Through(cut) /\ insert(ks, run) /\ covered' = covered \cup ks
    <3>1. CASE CommitWhole(w)
      BY <2>2, <3>1, Zenon DEF CommitWhole
    <3>2. CASE CommitAround(w)
      <4>1. PICK held \in SUBSET passKeys(w) : /\ insert(passKeys(w) \ held, run)
                                               /\ covered' = covered \cup (passKeys(w) \ held)
        BY <3>2, Zenon DEF CommitAround
      <4>2. passKeys(w) \ held \subseteq Through(cut)
        BY <2>2, Zenon
      <4> QED  BY <4>1, <4>2, Zenon
    <3> QED  BY <1>1, <3>1, <3>2, Zenon
  <2> QED  BY <1>0, <2>1, <2>3, <2>4, PassRows, Zenon
<1>2. CASE TxFail(w) /\ stragglers' # stragglers
  <2>1. /\ phase = "copy" /\ wk[w].pc \in passing
        /\ stragglers' = stragglers \cup {copyStraggler("confirmed", passKeys(w))}
        /\ UNCHANGED <<run, lockVars, from, phase, clear, cut, shadow, covered>>
    BY <1>2, Zenon DEF TxFail, passing, ledger
  <2>2. passKeys(w) \subseteq Through(cut)
    BY <2>1, PassIsCut, Zenon
  <2>3. copyStraggler("confirmed", passKeys(w)) \in Straggler
    BY <1>0, <2>2, Zenon DEF copyStraggler, Straggler, Through
  <2>4. PICK t \in Straggler : t = copyStraggler("confirmed", passKeys(w))
    BY <2>3, Zenon
  <2>5. /\ t.session = session /\ t.pc = "confirmed" /\ t.kind = "copy"
        /\ t.run = run /\ t.keys \subseteq Through(cut)
    BY <2>2, <2>4, Zenon DEF copyStraggler
  <2> QED  BY <1>0, <2>1, <2>4, <2>5, ClientGone, SMTT(30)
<1>3. CASE Register(w)
  <2>1. /\ UNCHANGED <<run, lockVars, from, phase, clear, stragglers, shadow, covered>>
        /\ wk[w].chunk \in Chunk /\ cut \in Watermark
    BY <1>3, Zenon DEF Register, Inv, Working, WorkerType, LedgerInv, LedgerType
  <2>2. High(cut) <= High(cut')
    <3>1. CASE startsAtFrontier(wk[w].chunk)
      <4>1. inFlight' = inFlight \cup {wk[w].chunk} /\ cut' = NewWatermark(wk[w].chunk.upper)
        BY <1>3, <3>1, Zenon DEF Register
      <4>2. wk[w].chunk.lower = High(cut) + 1
        BY <1>0, <1>3, <2>1, <3>1, <4>1, ClaimKeeps, SMTT(30) DEF Register
      <4>3. /\ wk[w].chunk.lower <= wk[w].chunk.upper /\ wk[w].chunk.upper \in Int
            /\ wk[w].chunk.upper \in Key /\ High(cut) \in Int
        BY <2>1, ChunkFacts, WatermarkFacts, Zenon
      <4>4. High(cut') = wk[w].chunk.upper
        BY <4>1, <4>3, NewWatermarkFacts, Zenon
      <4> QED  BY <4>2, <4>3, <4>4, SMTT(30)
    <3>2. CASE ~startsAtFrontier(wk[w].chunk)
      <4>1. cut' = cut /\ High(cut) \in Int
        BY <1>3, <2>1, <3>2, WatermarkFacts, Zenon DEF Register
      <4> QED  BY <4>1
    <3> QED  BY <3>1, <3>2, Zenon
  <2> QED  BY <1>0, <2>1, <2>2, ShadowFrame, SMTT(30) DEF lockVars
<1>4. CASE UNCHANGED <<run, lockVars, from, phase, clear, cut, stragglers, shadow, covered>>
  <2>1. High(cut) <= High(cut')
    BY <1>0, <1>4, WatermarkFacts DEF LedgerInv, LedgerType
  <2> QED  BY <1>0, <1>4, <2>1, ShadowFrame, Zenon DEF lockVars
<1>5. \/ CommitWhole(w) \/ CommitAround(w) \/ (TxFail(w) /\ stragglers' # stragglers) \/ Register(w)
      \/ UNCHANGED <<run, lockVars, from, phase, clear, cut, stragglers, shadow, covered>>
  BY Zenon DEF WorkerStep, Cut, CutFail, Leave, Hold, Confirm, Collide, RefuseAround, Settle, Land,
         TxFail, Stop, ledger
<1> QED  BY <1>1, <1>2, <1>3, <1>4, <1>5, Zenon

\* A resumed run counts as covered what the last one had, and the transactions
\* left on the server belong to a session that will never confirm again.
LEMMA ResumeShadow ==
    ASSUME LedgerInv, ShadowInv, NEW w \in Watermark, Through(w) \subseteq covered, FreshRun(w),
           run' = run + 1, phase' = "clear", shadow' = shadow,
           NEW T, T \subseteq Straggler, stragglers' = stragglers \cup T,
           \A t \in T : t.session = session,
           \A t \in T : t.pc = "confirmed" /\ t.kind = "clear" => t.keys \cap covered = {},
           \/ T = {} /\ UNCHANGED lockVars
           \/ session' = sessions + 1 /\ sessions' = session' /\ holder' = session'
    PROVE  ShadowInv'
<1>1. /\ from' = w /\ covered' = Through(w) /\ clear' = [pc |-> "begin", fence |-> TRUE]
  BY Zenon DEF FreshRun
<1>2. run \in Nat \ {0} /\ session \in Nat \ {0} /\ sessions = session /\ holder \in {0, session}
  BY Zenon DEF ShadowInv, ShadowType
<1>3. /\ session' \in Nat \ {0} /\ sessions' = session' /\ holder' \in {0, session'}
      /\ session' = session \/ session' = session + 1
  BY <1>2 DEF lockVars
<1>4. ShadowType'
  BY <1>1, <1>2, <1>3 DEF ShadowInv, ShadowType
<1>5. ~Fenced'
  BY <1>1, Zenon DEF Fenced, holding
<1>6. \A s \in stragglers' : s.session <= session' /\ (s.session = session' => s.pc = "confirmed")
  <2>1. CASE T = {} /\ UNCHANGED lockVars
    BY <2>1, Zenon DEF ShadowInv, StragglersOK, lockVars
  <2>2. CASE session' = session + 1
    <3>1. \A s \in stragglers' : s.session \in Nat /\ s.session <= session
      BY <1>2 DEF ShadowInv, ShadowType, Straggler, StragglersOK
    <3> QED  BY <1>2, <2>2, <3>1
  <2> QED  BY <1>2, <2>1, <2>2, Zenon
<1>7. \A s \in stragglers' : s.pc = "confirmed" /\ s.kind = "clear" => s.keys \cap covered' = {}
  BY <1>1, Zenon DEF ShadowInv, StragglersOK
<1>8. StragglersOK'
  BY <1>5, <1>6, <1>7, SMTT(30) DEF StragglersOK
<1>9. RowsOK'
  BY <1>1, Zenon DEF ShadowInv, RowsOK, Through
<1> QED  BY <1>4, <1>8, <1>9, Zenon DEF ShadowInv

\* What a crash leaves behind.
LEMMA LeftBehindIs ==
    ASSUME Inv, ShadowInv
    PROVE  /\ leftBehind \subseteq Straggler
           /\ \A t \in leftBehind : t.session = session
           /\ \A t \in leftBehind : t.kind = "clear" => t.keys \cap covered = {}
<1>1. run \in Nat \ {0} /\ session \in Nat \ {0} /\ LedgerInv
      /\ clear \in [pc : {"begin", "locked", "confirmed"}, fence : BOOLEAN]
  BY Zenon DEF ShadowInv, ShadowType, Inv
<1> SUFFICES ASSUME NEW t \in leftBehind
             PROVE  t \in Straggler /\ t.session = session /\ (t.kind = "clear" => t.keys \cap covered = {})
  BY Zenon
<1>2. CASE phase = "clear" /\ t = clearStraggler
  <2>1. covered = Through(from) /\ above = Key \ Through(from)
    BY <1>1, <1>2, AboveIs DEF ShadowInv, RowsOK
  <2> QED  BY <1>1, <1>2, <2>1 DEF clearStraggler, Straggler
<1>3. ASSUME NEW w \in Workers, wk[w].pc \in passing, t = copyStraggler(wk[w].pc, passKeys(w))
      PROVE  t \in Straggler /\ t.session = session /\ t.kind = "copy"
  <2>1. passKeys(w) \subseteq Key
    BY <1>3, PassIsCut DEF Through
  <2> QED  BY <1>1, <1>3, <2>1 DEF copyStraggler, Straggler, passing
<1> QED  BY <1>2, <1>3 DEF leftBehind, passing

\* The run as a whole: only a resume disturbs what is said of rows and stragglers.
LEMMA RunShadow ==
    ASSUME Inv, LedgerInv', ShadowInv, RunStep
    PROVE  ShadowInv'
<1>0. /\ LedgerInv /\ cut \in Watermark /\ watermark \in Watermark /\ saved \in Watermark
      /\ High(saved) <= High(watermark) /\ Through(watermark) \subseteq covered
  BY Zenon DEF Inv, LedgerInv, LedgerType, Tiling, Coverage
<1>1. CASE Cancel \/ Finish \/ Save \/ LoseLock
  <2>1. /\ UNCHANGED <<run, session, sessions, from, clear, cut, stragglers, shadow, covered>>
        /\ holder' \in {0, holder}
    BY <1>1 DEF Cancel, Finish, Save, LoseLock, lockVars, ledger
  <2>2. phase' = phase \/ phase' = "failed" \/ (phase = "copy" /\ phase' \in {"done", "refused"})
    BY <1>1, Zenon DEF Cancel, Finish, Save, LoseLock
  <2>3. phase' = "refused" => Finish
    BY <1>1, Zenon DEF Cancel, Finish, Save, LoseLock, Inv, NeverRefuses
  <2>4. phase' # "refused"
    BY <2>3, FinishInv DEF Inv, NeverRefuses
  <2>5. High(cut) <= High(cut')
    BY <1>0, <2>1, WatermarkFacts
  <2> QED  BY <1>0, <2>1, <2>2, <2>4, <2>5, ShadowFrame
<1>2. Through(saved) \subseteq covered
  BY <1>0, ThroughGrows, Zenon
<1>3. CASE ResumeSame
  <2>1. /\ FreshRun(watermark) /\ run' = run + 1 /\ phase' = "clear" /\ shadow' = shadow
        /\ stragglers' = stragglers /\ UNCHANGED lockVars
    BY <1>3 DEF ResumeSame
  <2>2. PICK T : T = {}
    BY Zenon
  <2>3. /\ T \subseteq Straggler /\ stragglers' = stragglers \cup T
        /\ \A t \in T : t.session = session
        /\ \A t \in T : t.pc = "confirmed" /\ t.kind = "clear" => t.keys \cap covered = {}
    BY <2>1, <2>2, Zenon
  <2> QED  BY <1>0, <2>1, <2>2, <2>3, ResumeShadow, Zenon
<1>4. CASE ResumeNew
  <2>1. /\ FreshRun(saved) /\ run' = run + 1 /\ phase' = "clear" /\ shadow' = shadow
        /\ stragglers' = stragglers \cup leftBehind
        /\ session' = sessions + 1 /\ sessions' = session' /\ holder' = session'
    BY <1>4, Zenon DEF ResumeNew
  <2> QED  BY <1>0, <1>2, <2>1, LeftBehindIs, ResumeShadow
<1> QED  BY <1>1, <1>3, <1>4, SMTT(30) DEF RunStep

\* A straggler takes a step: it never confirms any more, and what it commits is
\* this run's or lies outside what has been covered.
LEMMA StragglerShadow ==
    ASSUME LedgerInv, ShadowInv, NEW s \in stragglers, StragglerStep(s)
    PROVE  ShadowInv'
<1>1. UNCHANGED <<run, lockVars, from, phase, clear, cut, covered>>
  BY Zenon DEF StragglerStep, StragglerHold, StragglerConfirm, StragglerCommit, StragglerAbort, runVars, ledger
<1>2. /\ s \in Straggler /\ s.run \in Nat \ {0} /\ s.session \in Nat \ {0} /\ s.keys \subseteq Key
      /\ shadow \in [Key -> Nat] /\ holder \in {0, session} /\ run \in Nat \ {0}
  BY Zenon DEF ShadowInv, ShadowType, Straggler
<1>3. \/ stragglers' \subseteq stragglers
      \/ /\ s.pc \notin holding
         /\ stragglers' = (stragglers \ {s}) \cup {[s EXCEPT !.pc = "locked"]}
  <2>1. CASE StragglerConfirm(s)
    <3>1. holder # s.session
      BY <1>2, <2>1 DEF StragglerConfirm, ShadowInv, StragglersOK
    <3> QED  BY <2>1, <3>1, SMTT(30) DEF StragglerConfirm, end
  <2>2. CASE StragglerHold(s)
    BY <2>2 DEF StragglerHold, become
  <2> QED  BY <2>1, <2>2, Zenon DEF StragglerStep, StragglerCommit, StragglerAbort, end
<1>4. \A t \in stragglers' :
         t \in stragglers \/ (t \in Straggler /\ t.pc = "locked" /\ t.session = s.session /\ s.pc # "confirmed")
  <2>1. [s EXCEPT !.pc = "locked"] \in Straggler /\ [s EXCEPT !.pc = "locked"].pc = "locked"
        /\ [s EXCEPT !.pc = "locked"].session = s.session
    BY <1>2 DEF Straggler
  <2> QED  BY <1>3, <2>1, Zenon DEF holding
<1>5. Fenced' <=> Fenced
  BY <1>1, ZenonT(30) DEF Fenced, startAfter, Complete
<1>6. \A t \in stragglers' : t.session <= session /\ (t.session = session => t.pc = "confirmed")
  BY <1>4 DEF ShadowInv, StragglersOK
<1>7. StragglersOK'
  BY <1>1, <1>4, <1>5, <1>6, ZenonT(30) DEF ShadowInv, StragglersOK, Through, lockVars
<1>8. /\ shadow' \in [Key -> Nat]
      /\ \A k \in Key : \/ shadow'[k] = shadow[k]
                        \/ shadow'[k] = 0 /\ k \notin covered
                        \/ /\ shadow'[k] \in Nat \ {0}
                           /\ Fenced => k \in Through(cut) /\ shadow'[k] = run
  <2>1. CASE StragglerCommit(s) /\ s.kind = "copy"
    <3>1. shadow' = [k \in Key |-> IF k \in s.keys /\ shadow[k] = 0 THEN s.run ELSE shadow[k]]
      BY <2>1, Zenon DEF StragglerCommit, insert
    <3>2. Fenced => s.run = run /\ s.keys \subseteq Through(cut)
      BY <2>1, Zenon DEF StragglerCommit, ShadowInv, StragglersOK
    <3> QED  BY <1>2, <3>1, <3>2, SMTT(30)
  <2>2. CASE StragglerCommit(s) /\ s.kind # "copy"
    <3>1. shadow' = [k \in Key |-> IF k \in batchOf(s.keys) THEN 0 ELSE shadow[k]]
      BY <2>2 DEF StragglerCommit, remove
    <3>2. s.kind = "clear" /\ s.pc = "confirmed"
      BY <1>2, <2>2, Zenon DEF StragglerCommit, Straggler
    <3>3. batchOf(s.keys) \subseteq s.keys /\ s.keys \cap covered = {}
      BY <1>2, <3>2, BatchIsAll, SMTT(30) DEF ShadowInv, StragglersOK
    <3> QED  BY <1>2, <3>1, <3>3
  <2>3. CASE shadow' = shadow
    BY <1>2, <2>3
  <2> QED  BY <2>1, <2>2, <2>3, SMTT(30) DEF StragglerStep, StragglerHold, StragglerConfirm, StragglerAbort
<1>9. ShadowType'
  BY <1>1, <1>4, <1>8, SMTT(30) DEF ShadowInv, ShadowType, lockVars
<1>10. RowsOK'
  <2>1. \A k \in covered : k \in Key => shadow'[k] # 0
    BY <1>8 DEF ShadowInv, RowsOK
  <2>2. covered \subseteq Key
    BY Zenon DEF LedgerInv, LedgerType
  <2>3. ASSUME phase \in {"copy", "done"}, NEW k \in Key \ Through(from)
        PROVE  shadow'[k] \in {0, run} /\ (k > High(cut) => shadow'[k] = 0)
    <3>1. shadow[k] \in {0, run} /\ (k > High(cut) => shadow[k] = 0)
      BY <2>3, Zenon DEF ShadowInv, RowsOK
    <3>2. Fenced
      BY <2>3, AboveIs DEF Fenced
    <3>3. k > High(cut) => k \notin Through(cut)
      <4>1. cut \in Watermark
        BY Zenon DEF LedgerInv, LedgerType
      <4>2. High(cut) \in Int /\ (k \in Through(cut) <=> k <= High(cut)) /\ k \in Int
        BY <4>1, WatermarkFacts, KeyFacts
      <4> QED  BY <4>2
    <3> QED  BY <1>8, <3>1, <3>2, <3>3, SMTT(30)
  <2> QED  BY <1>1, <2>1, <2>2, <2>3, SMTT(30) DEF ShadowInv, RowsOK, Through, High
<1> QED  BY <1>7, <1>9, <1>10, SMTT(30) DEF ShadowInv

\* The first run finds rows up to the watermark it resumes after, and no straggler.
LEMMA InitShadow == Init => ShadowInv
<1> SUFFICES ASSUME Init PROVE ShadowInv
  OBVIOUS
<1>1. /\ run = 1 /\ session = 1 /\ holder = 1 /\ sessions = 1 /\ phase = "clear"
      /\ clear = [pc |-> "begin", fence |-> TRUE] /\ stragglers = {} /\ covered = Through(from)
      /\ shadow = [k \in Key |-> IF k \in Through(from) THEN run ELSE 0]
  BY Zenon DEF Init
<1>2. ShadowType
  BY <1>1 DEF ShadowType
<1>3. StragglersOK
  BY <1>1 DEF StragglersOK
<1>4. RowsOK
  BY <1>1 DEF RowsOK, Through
<1> QED  BY <1>2, <1>3, <1>4 DEF ShadowInv

-----------------------------------------------------------------------------
(* The theorems. *)

\* The shadow, the stragglers of earlier runs and what the ledger has covered
\* agree in every reachable state: the inductive invariant behind the two
\* theorems below (resume.go clearAbove, copy_chunk.go's guarded transactions).
THEOREM ShadowInvariance == Spec => []ShadowInv
<1>1. Inv /\ Inv' /\ ShadowInv /\ [Next]_vars => ShadowInv'
  <2> SUFFICES ASSUME Inv, Inv', ShadowInv, [Next]_vars PROVE ShadowInv'
    BY Zenon
  <2>0. LedgerInv /\ LedgerInv'
    BY Zenon DEF Inv
  <2>1. CASE UNCHANGED vars
    <3>1. UNCHANGED <<run, lockVars, from, phase, clear, cut, stragglers, shadow, covered>>
      BY <2>1, Zenon DEF vars, ledger
    <3>2. High(cut) <= High(cut')
      BY <2>0, <3>1, WatermarkFacts DEF LedgerInv, LedgerType
    <3> QED  BY <2>0, <3>1, <3>2, ShadowFrame DEF lockVars
  <2>2. CASE ClearStep
    BY <2>0, <2>2, ClearShadow, Zenon
  <2>3. CASE RunStep
    BY <2>0, <2>3, RunShadow
  <2> QED  BY <2>0, <2>1, <2>2, <2>3, WorkShadow, StragglerShadow DEF Next
<1> QED  BY <1>1, InitShadow, CopierInvariance, PTL DEF Spec

\* Once the clear is over, every shadow row above the watermark the run resumed
\* after is the run's own, and an uncut key has none (resume.go clearAbove,
\* copy_chunk.go chunkTx): no straggler of an earlier run gets in, however many there
\* are and however late they commit.
THEOREM NoStaleRowEver == Spec => []NoStaleRow
<1>1. Inv /\ ShadowInv => NoStaleRow
  <2> SUFFICES ASSUME Inv, ShadowInv, phase \in {"copy", "done"}, NEW k \in Key \ Through(from)
               PROVE  shadow[k] \in {0, run} /\ (Classify(k) = "uncut" => shadow[k] = 0)
    BY Zenon DEF NoStaleRow
  <2>1. shadow[k] \in {0, run} /\ (k > High(cut) => shadow[k] = 0)
    BY Zenon DEF ShadowInv, RowsOK
  <2>2. Classify(k) = "uncut" => k > High(cut)
    BY ClassifyIs DEF Inv
  <2> QED  BY <2>1, <2>2
<1> QED  BY <1>1, ShadowInvariance, CopierInvariance, PTL

\* Every key through the checkpointed watermark has its row in the shadow, in
\* every state a crash can leave (resume.go clearAbove).
THEOREM SavedRowsStay == Spec => []SavedIsPresent
<1>1. Inv /\ ShadowInv => SavedIsPresent
  <2> SUFFICES ASSUME Inv, ShadowInv PROVE SavedIsPresent
    BY Zenon
  <2>1. saved \in Watermark /\ watermark \in Watermark /\ High(saved) <= High(watermark)
    BY Zenon DEF Inv, LedgerInv, LedgerType, Tiling
  <2>2. Through(saved) \subseteq Through(watermark)
    BY <2>1, ThroughGrows
  <2>3. Through(saved) \cup covered \subseteq covered
    BY <2>2, Zenon DEF Inv, LedgerInv, Coverage
  <2> QED  BY <2>3, Zenon DEF SavedIsPresent, ShadowInv, RowsOK
<1> QED  BY <1>1, ShadowInvariance, CopierInvariance, PTL
=============================================================================
