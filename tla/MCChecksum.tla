----------------------------- MODULE MCChecksum -----------------------------
(* Instances of Checksum: tables of three keys, one scenario per pass. *)
EXTENDS Checksum

Pass(live, policy, t, u, writes) ==
    [live |-> live, policy |-> policy, source |-> t, shadow |-> u, writes |-> writes, replaced |-> FALSE,
     through |-> 2, touches |-> IF live THEN {1, 2} ELSE {1, 2, 3}]

Base == <<1, 2, 0>>

\* The shadow as copied, with a row missing, stale, or two rows swapped, and
\* with a row above the watermark that holds a value of the source.
Shadows == {Base, <<1, 0, 0>>, <<5, 2, 0>>, <<2, 1, 0>>, <<1, 5, 2>>}

Passes ==
    {Pass(TRUE, p, Base, u, "fresh") : p \in {"abort", "repair"}, u \in Shadows \ {<<1, 5, 2>>}}
    \cup {Pass(FALSE, "recopy", Base, u, "fresh") : u \in Shadows}
    \cup {Pass(FALSE, p, Base, u, "none") : p \in {"abort", "repair"}, u \in Shadows}
    \cup {Pass(FALSE, "repair", Base, <<1, 0, 0>>, "fresh")}
    \cup {[Pass(TRUE, "repair", Base, Base, "fresh") EXCEPT !.replaced = TRUE], Pass(TRUE, "recopy", Base, Base, "none"),
          [Pass(TRUE, "abort", Base, Base, "none") EXCEPT !.through = 0]}

\* A row whose value the source sets and sets back.
Toggling == {Pass(TRUE, "abort", <<1, 0, 0>>, <<1, 0, 0>>, "toggle")}
=============================================================================
