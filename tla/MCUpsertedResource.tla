------------------------- MODULE MCUpsertedResource -------------------------
(* Values for UpsertedResource's constants: settings that differ in what    *)
(* they say of audit and of archive, and three policies, one with a null.   *)
EXTENDS UpsertedResource

Settings(audit, archive, days) ==
    [audit |-> audit, archive |-> archive, days |-> days]

AllModels ==
    [k \in AllKinds |->
       IF k = "policy" THEN {"statements1", "statements2", "null action"}
       ELSE {Settings(TRUE, Null, Null), Settings(TRUE, TRUE, 90),
             Settings(Null, FALSE, Null)}]

NullPolicies == {"null action"}
OnlySettings == {"settings"}
=============================================================================
