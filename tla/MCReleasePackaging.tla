------------------------- MODULE MCReleasePackaging -------------------------
(* ReleasePackaging for TLC: an image, another file, and one whose flattened name is the image's. *)
EXTENDS ReleasePackaging, TLC

CONSTANTS image, a, b, flatImage, flatFile, r1, r2, r3, v1, v2

MCFlat == (image :> flatImage @@ a :> flatFile @@ b :> flatImage)

MCReleaseOf == (r1 :> v1 @@ r2 :> v1 @@ r3 :> v2)

Symmetry == Permutations(Platforms) \cup Permutations(Digests)
=============================================================================
