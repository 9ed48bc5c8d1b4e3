----------------------------- MODULE Attributes -----------------------------
(***************************************************************************)
(* Values of Terraform attributes, and how every resource of the provider  *)
(* moves them between a plan, a request to the API and the state.          *)
(*                                                                         *)
(* A model is a record with one field for each attribute of the schema;    *)
(* an attribute of a nested object is a field of its own, and Bare says    *)
(* that the object is given without it ("dhcp = {}").                      *)
(***************************************************************************)
EXTENDS Integers

CONSTANTS
    Null,     \* the attribute is not given
    Bare,     \* its object is given, the attribute in it is not
    Unknown,  \* a planned value: whatever the provider answers
    Modulus   \* stands for 2^32, one more than the largest uint32

ASSUME ModulusAssumption == Modulus \in Nat /\ Modulus > 1000

\* They are three, and none is a number or a Boolean.
ASSUME NullAssumption ==
    /\ Null # Bare /\ Null # Unknown /\ Bare # Unknown
    /\ {Null, Bare, Unknown} \cap (Int \cup BOOLEAN) = {}

\* Nor is one of them a zero value.
ASSUME ZeroAssumption ==
    \A v \in {Null, Bare, Unknown} : v # "" /\ v # {} /\ v # <<>>

IsKnown(v) == v \notin {Null, Bare, Unknown}

\* What an optional attribute that is no nested object may be given as.
IsOptional(v) == v \notin {Bare, Unknown}

\* ValueString, ValueInt64, ElementsAs: null and unknown become the zero value.
OrZero(v, zero) == IF IsKnown(v) THEN v ELSE zero

\* "Null is preserved when the plan/state was null and the API returns the
\* default (zero/empty) value."
PreservingNull(model, got, zero) ==
    IF model = Null /\ got = zero THEN Null ELSE got

\* A conversion to uint32.
Uint32(n) == n % Modulus

\* UseStateForUnknown, for an attribute that is Optional and Computed.
UseStateForUnknown(config, prior) == IF IsKnown(config) THEN config ELSE prior

\* Core's comparison of what an apply answered with what was planned.
Consistent(plan, answer) ==
    \A a \in DOMAIN plan : plan[a] = Unknown \/ answer[a] = plan[a]
=============================================================================
