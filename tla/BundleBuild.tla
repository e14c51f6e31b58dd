---------------------------- MODULE BundleBuild -----------------------------
(***************************************************************************)
(* What a build of nested bundles promises (buildtools.Bundle.Steps): every *)
(* bundle is filled before any is signed, each is signed after those inside *)
(* it, and what is released carries a valid signature wherever one is       *)
(* wanted.  Which bundles there are, which are inside which, and which are  *)
(* to be signed, is decided when a build begins.                            *)
(***************************************************************************)
CONSTANT Bundles

VARIABLES
    stage,      \* "idle", "filling", "sealing", "released"
    inside,     \* inside[c]: the bundles that c contains, at any depth
    toSign,     \* the bundles to be signed
    pending,    \* those of them that have not been, in this build
    sealed      \* the bundles whose signature covers what they now contain

vars == <<stage, inside, toSign, pending, sealed>>

TypeOK ==
    /\ stage \in {"idle", "filling", "sealing", "released"}
    /\ inside \in [Bundles -> SUBSET Bundles]
    /\ toSign \in SUBSET Bundles
    /\ pending \in SUBSET toSign
    /\ sealed \in SUBSET Bundles

Init == TypeOK /\ stage = "idle"

\* A build begins, on whatever an earlier one has left.
Begin ==
    /\ stage \in {"idle", "released"}
    /\ stage' = "filling"
    /\ inside' \in [Bundles -> SUBSET Bundles]
    /\ toSign' \in SUBSET Bundles /\ pending' = toSign'
    /\ sealed' \in SUBSET Bundles

\* Some contents change: signatures break, none appears.
Fill ==
    /\ stage = "filling" /\ pending = toSign
    /\ sealed' \in SUBSET sealed
    /\ UNCHANGED <<stage, inside, toSign, pending>>

\* b is changed (its executable signed), and what contains b with it.
Prepare(b) ==
    /\ stage \in {"filling", "sealing"}
    /\ b \in pending
    /\ stage' = "sealing"
    /\ sealed' = sealed \ ({b} \cup {c \in Bundles : b \in inside[c]})
    /\ UNCHANGED <<inside, toSign, pending>>

\* b is signed: all that it contains has been.
Seal(b) ==
    /\ stage = "sealing"
    /\ b \in pending /\ inside[b] \cap pending = {}
    /\ pending' = pending \ {b}
    /\ sealed' = (sealed \ {c \in Bundles : b \in inside[c]}) \cup {b}
    /\ UNCHANGED <<stage, inside, toSign>>

Release ==
    /\ stage \in {"filling", "sealing"} /\ pending = {}
    /\ stage' = "released"
    /\ UNCHANGED <<inside, toSign, pending, sealed>>

\* A build that fails promises nothing.
Fail ==
    /\ stage \in {"filling", "sealing"}
    /\ stage' = "idle"
    /\ sealed' \in SUBSET Bundles
    /\ UNCHANGED <<inside, toSign, pending>>

Next == \/ Begin \/ Fill \/ Release \/ Fail
        \/ \E b \in Bundles : Prepare(b) \/ Seal(b)

Spec == Init /\ [][Next]_vars

\* What is released is signed, every signature covering the final contents.
ReleasedIsSealed == stage = "released" => toSign \subseteq sealed
=============================================================================
