-------------------------- MODULE MCBucketResource --------------------------
(* Values for BucketResource's constants. *)
EXTENDS BucketResource, TLC

AnyTags == [zone : Zones, tags : TagSets \cup {"null", "empty"}]
NullOrTags == [zone : Zones, tags : TagSets \cup {"null"}]

RunSymmetry == Permutations(Runs)
ZoneTagSymmetry == Permutations(Zones) \cup Permutations(TagSets)
Symmetry == RunSymmetry \cup ZoneTagSymmetry
=============================================================================
