------------------------- MODULE MCClusterResource -------------------------
(* Values for ClusterResource's constants. *)
EXTENDS ClusterResource, TLC

\* One immutable attribute (zone), one that is updated in place (version), and
\* an optional webhook.
ZoneAndVersion == {"zone", "version"}
ZoneVersionSpecs == [ZoneAndVersion -> {"v1", "v2"}]

ThreeAttrs == {"zone", "version", "authn_webhook"}
Differing(zone, version, webhook) ==
    [a \in ThreeAttrs |-> CASE a = "zone" -> zone
                            [] a = "version" -> version
                            [] a = "authn_webhook" -> webhook]
ThreeAttrSpecs == {Differing("v1", "v1", "null"), Differing("v1", "v2", "null"),
                   Differing("v1", "v1", "v1"), Differing("v2", "v1", "null")}

OnlyZone == {"zone"}
OnlyWebhook == {"authn_webhook"}
NoAttrs == {}
Values == {"null", "v1", "v2"}

AllRollouts == {"CREATING", "UPDATING", "UPGRADING"}
OnlyCreation == {"CREATING"}

IdSymmetry == Permutations(Ids)
=============================================================================
