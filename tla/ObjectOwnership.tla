-------------------------- MODULE ObjectOwnership --------------------------
(***************************************************************************)
(* What every coreweave resource promises about the API objects it         *)
(* manages, whatever errors, timeouts and crashes come between: an object  *)
(* Terraform has been told about stays in Terraform's hands until the API  *)
(* no longer has it.  The one exception is an object whose Create has not  *)
(* returned yet: its id exists only in the provider's memory, and a crash  *)
(* abandons it.                                                            *)
(*                                                                         *)
(*   born     the objects that have existed                                *)
(*   alive    those the API still has                                      *)
(*   held     those Terraform holds                                        *)
(*   unsaved  the held ones not yet in Terraform's state                   *)
(*                                                                         *)
(* The detailed modules of the resources implement this specification.     *)
(***************************************************************************)
CONSTANT Objects

VARIABLES born, alive, held, unsaved

ownershipVars == <<born, alive, held, unsaved>>

Init == born = {} /\ alive = {} /\ held = {} /\ unsaved = {}

\* The API creates object o and its answer reaches the provider ...
Acquire(o) ==
    /\ o \notin born
    /\ born' = born \cup {o}
    /\ alive' = alive \cup {o}
    /\ held' = held \cup {o}
    /\ unsaved' = unsaved \cup {o}

\* ... or nobody is told: the answer is lost, or the creator is somebody else.
Appear(o) ==
    /\ o \notin born
    /\ born' = born \cup {o}
    /\ alive' = alive \cup {o}
    /\ UNCHANGED <<held, unsaved>>

\* Create returns: the object is in Terraform's state.
Save(o) ==
    /\ o \in unsaved
    /\ unsaved' = unsaved \ {o}
    /\ UNCHANGED <<born, alive, held>>

\* Import.
Adopt(o) ==
    /\ o \in born
    /\ held' = held \cup {o}
    /\ UNCHANGED <<born, alive, unsaved>>

Die(o) ==
    /\ alive' = alive \ {o}
    /\ UNCHANGED <<born, held, unsaved>>

\* Terraform forgets an object, which the API no longer has.
Release(o) ==
    /\ o \in held \ (alive \cup unsaved)
    /\ held' = held \ {o}
    /\ UNCHANGED <<born, alive, unsaved>>

Crash ==
    /\ held' = held \ unsaved
    /\ unsaved' = {}
    /\ UNCHANGED <<born, alive>>

Next == \/ \E o \in Objects : \/ Acquire(o) \/ Appear(o) \/ Save(o)
                              \/ Adopt(o) \/ Die(o) \/ Release(o)
        \/ Crash

Spec == Init /\ [][Next]_ownershipVars
=============================================================================
