----------------------------- MODULE MCStartup -----------------------------
(***************************************************************************)
(* Small instances of Startup: a release, its successor with one more file *)
(* and a changed artifact, and one whose author edited an applied file.    *)
(***************************************************************************)
EXTENDS Startup, TLC

CONSTANTS a1, a2, c1, c2, r1, r2, edited, m1, m2, m3, m4, f1, f2

MCReleaseOf == m1 :> r1 @@ m2 :> r2 @@ m3 :> edited @@ m4 :> r1
MCFiles == r1 :> <<f1>> @@ r2 :> <<f1, f2>> @@ edited :> <<f1>>
MCChecksum ==
  r1 :> (f1 :> c1) @@ r2 :> (f1 :> c1 @@ f2 :> c1) @@ edited :> (f1 :> c2)

Manifest(c) == [version |-> "v", checksum |-> c, tier |-> "LOW", targets |-> {}]

SomeManifests == {Manifest(c) : c \in {c1, c2}}

Entry(a, c) == [id |-> a, manifest |-> Manifest(c)]

MCCatalogOf ==
  r1 :> <<Entry(a1, c1), Entry(a2, c1)>> @@ r2 :> <<Entry(a2, c2), Entry(a1, c2)>>
    @@ edited :> <<Entry(a1, c2)>>

SomeCheckouts == {MCCatalogOf[r] : r \in Releases}

Symmetry == Permutations(Processes)
=============================================================================
