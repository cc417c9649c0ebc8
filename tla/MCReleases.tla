----------------------------- MODULE MCReleases -----------------------------
(***************************************************************************)
(* A small instance of Releases: one automation whose checkouts differ in  *)
(* risk tier, artifact and targets.                                        *)
(***************************************************************************)
EXTENDS Releases, TLC

CONSTANTS auto, c1, c2

Manifest(c, tier, targets) ==
  [version |-> "1.0.0", checksum |-> c, tier |-> tier, targets |-> targets]

SomeManifests ==
  {Manifest(c1, "LOW", Environments), Manifest(c1, "HIGH", {"demo"}),
   Manifest(c2, "HIGH", {"demo"})}

SomeCheckouts == {<<[id |-> auto, manifest |-> m]>> : m \in SomeManifests}

Symmetry == Permutations(Processes) \cup Permutations(Ids) \cup Permutations(Requests)
=============================================================================
