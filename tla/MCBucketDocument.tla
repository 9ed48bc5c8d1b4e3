-------------------------- MODULE MCBucketDocument --------------------------
(* Values for BucketDocument's constants: for each kind the models that its *)
(* conversions tell apart.                                                  *)
EXTENDS BucketDocument

TwoPlaces == {"place1", "place2"}

VersioningModels == [status : {"Enabled", "Suspended", "Disabled", "enabled", ""}]

\* From the data source, and written by hand.
BuiltPolicy ==
    BuildPolicyDocument([principal |-> {"user1"}, action |-> <<"read">>,
                         condition |-> "condition1"])
PolicyModels ==
    {BuiltPolicy,
     BuildPolicyDocument([principal |-> Null, action |-> <<"read", "write">>,
                          condition |-> Null]),
     [BuiltPolicy EXCEPT !.principal = [form |-> "string", who |-> {"*"}]],
     [BuiltPolicy EXCEPT !.principal = [form |-> "string", who |-> {"user1"}]],
     [BuiltPolicy EXCEPT !.negated = {"notActions"}],
     [BuiltPolicy EXCEPT !.principal.form = "mixed"],
     [BuiltPolicy EXCEPT !.condition.form = "other"]}

Rule(id) == [id |-> id, prefix |-> Null, days |-> 1, date |-> Null,
             transitions |-> {}, abort |-> Null, size |-> Null, tag |-> Null]

LifecycleModels ==
    {<<Rule(1)>>, <<Rule(Null)>>,
     <<[Rule(1) EXCEPT !.transitions = {Null, "utc"}]>>,
     <<[Rule(1) EXCEPT !.transitions = {"malformed"}]>>,
     <<[Rule(1) EXCEPT !.date = "utc"]>>,
     <<[Rule(1) EXCEPT !.date = "offset"]>>,
     <<[Rule(1) EXCEPT !.abort = Bare]>>,
     <<[Rule(1) EXCEPT !.size = -1]>>,
     <<[Rule(1) EXCEPT !.size = Bare, !.tag = Bare]>>,
     <<[Rule(1) EXCEPT !.size = 5, !.tag = "", !.abort = 7]>>,
     <<Rule(2), [Rule(1) EXCEPT !.prefix = "logs"]>>,
     <<Rule(1), [Rule(1) EXCEPT !.prefix = "logs"]>>}

Inventory == [versions |-> "All", enabled |-> Null, prefix |-> Null,
              fields |-> Null]

InventoryModels ==
    {Inventory, [Inventory EXCEPT !.enabled = FALSE],
     [Inventory EXCEPT !.prefix = "logs"], [Inventory EXCEPT !.prefix = Bare],
     [Inventory EXCEPT !.fields = {"Size"}]}

AllModels == [k \in AllKinds |->
                CASE k = "versioning" -> VersioningModels
                  [] k = "policy" -> PolicyModels
                  [] k = "lifecycle" -> LifecycleModels
                  [] k = "inventory" -> InventoryModels]
OnlyPolicy == {"policy"}
=============================================================================
