---------------------------- MODULE CopyPosition ----------------------------
(***************************************************************************)
(* What pkg/copier promises of Position, with no chunk, worker, lock or    *)
(* transaction in sight: the applier may judge a change by the state of    *)
(* its key at any moment of a run (CO-4), and the runner may save any      *)
(* prefix of landed keys and resume after it (ST-1, ST-4).                 *)
(***************************************************************************)
EXTENDS Integers

CONSTANT Key

VARIABLES
    run,     \* which run of the copy this is
    state,   \* key |-> what Position.Classify says of it
    saved    \* the keys at or below the watermark the checkpoint row holds

vars == <<run, state, saved>>

In(s) == {k \in Key : state[k] = s}

\* The keys at or below some key, or none.
Prefix(S) == \A k \in S : \A j \in Key : j <= k => j \in S

\* A run that starts after the keys of S: they count as landed.
After(S) == [k \in Key |-> IF k \in S THEN "landed" ELSE "uncut"]

Init == \E S \in SUBSET Key : Prefix(S) /\ run = 1 /\ saved = S /\ state = After(S)

\* Keys are claimed in order, with nothing left out below the frontier.
Claim(S) ==
    /\ UNCHANGED <<run, saved>>
    /\ S \subseteq In("uncut") /\ Prefix(S \cup (Key \ In("uncut")))
    /\ state' = [k \in Key |-> IF k \in S THEN "inFlight" ELSE state[k]]

\* Keys in flight land, in any order; none leaves the state landed.
Land(S) ==
    /\ UNCHANGED <<run, saved>>
    /\ S \subseteq In("inFlight")
    /\ state' = [k \in Key |-> IF k \in S THEN "landed" ELSE state[k]]

\* A checkpoint takes more of the landed prefix, and never less.
Save(S) ==
    /\ UNCHANGED <<run, state>>
    /\ saved \subseteq S /\ S \subseteq In("landed") /\ Prefix(S)
    /\ saved' = S

\* A new run starts after a landed prefix that has at least what was saved.
Resume(S) ==
    /\ run' = run + 1
    /\ saved \subseteq S /\ S \subseteq In("landed") /\ Prefix(S)
    /\ state' = After(S)
    /\ saved' \in {saved, S}

Next == \E S \in SUBSET Key : Claim(S) \/ Land(S) \/ Save(S) \/ Resume(S)

Spec == Init /\ [][Next]_vars
=============================================================================
