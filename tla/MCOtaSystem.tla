---------------------------- MODULE MCOtaSystem ----------------------------
(***************************************************************************)
(* Instances of OtaSystem for TLC.  Every release has a file name and an   *)
(* image of its own in FreshReleases; OldNameReleases publishes the first  *)
(* image again under its own name, as an operator who withdraws a release  *)
(* does.                                                                   *)
(***************************************************************************)
EXTENDS OtaSystem

CONSTANTS a, b, c, v1, v2, v3

Upload(v, i) == [version |-> v, image |-> i]

TwoReleases     == <<Upload(v1, a), Upload(v2, b)>>
FreshReleases   == <<Upload(v1, a), Upload(v2, b), Upload(v3, c)>>
OldNameReleases == <<Upload(v1, a), Upload(v2, b), Upload(v1, a)>>
=============================================================================
