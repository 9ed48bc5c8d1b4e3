--------------------------- MODULE PolicyDocument ---------------------------
(***************************************************************************)
(* Bucket policies as text and as the provider reads them,                 *)
(* src/coreweave/object_storage/data_source_bucket_policy_document.go.     *)
(*                                                                         *)
(* The text of a policy (statements are treated alike, so it has one) is a *)
(* record of JSON values:                                                  *)
(*   principal  [form, who]: form "absent", "string" ("*" is any), or a    *)
(*              map of "strings", of "lists", or "mixed" of both           *)
(*   action     [form, of]: form "string" or "list"; resource is alike     *)
(*   condition  [form, of]: form "absent", "string", "list", or "other",   *)
(*              such as the Boolean false                                  *)
(*   negated    NotPrincipal, NotAction, NotResource: Null without them    *)
(***************************************************************************)
EXTENDS Attributes, Sequences

Everyone == {"*"}

\* Principal.UnmarshalJSON.  A string other than "*" is read as nobody.
UnmarshalPrincipal(p) ==
    [any        |-> p.form = "string" /\ p.who = Everyone,
     statements |-> IF p.form \in {"strings", "lists"} THEN p.who ELSE Null]

\* Its last resort unmarshals the same bytes into a Principal again, which
\* calls UnmarshalJSON again, and so on until the stack overflows.
Overflows(text) == text.principal.form = "mixed"

\* StringList.UnmarshalJSON: one string is a list of one.
UnmarshalStringList(l) == l.of

\* Condition.UnmarshalJSON: a list of strings too, or an error.
UnmarshalCondition(c) == IF c.form = "absent" THEN Null ELSE c.of
ConditionIsError(text) == text.condition.form = "other"

\* How unmarshalling a text fails.
UnmarshalFailure(text) == IF Overflows(text) THEN "panic"
                          ELSE IF ConditionIsError(text) THEN "error" ELSE "none"

Readable(text) == UnmarshalFailure(text) = "none"

\* A text as the struct PolicyDocument, which has no negated elements.
Unmarshal(text) ==
    [principal |-> UnmarshalPrincipal(text.principal),
     action    |-> UnmarshalStringList(text.action),
     condition |-> UnmarshalCondition(text.condition)]

\* Mutant of SamePolicy: the texts are compared.
MutSameText(text, other) == text = other

\* reflect.DeepEqual of two texts, unmarshalled.
SamePolicy(text, other) == Unmarshal(text) = Unmarshal(other)

-----------------------------------------------------------------------------
(* The data source *)

\* StringList.MarshalJSON: a list of one is a string.
MarshalStringList(l) ==
    [form |-> IF Len(l) = 1 THEN "string" ELSE "list", of |-> l]

\* BuildPolicyDocument and Read: a model with attributes principal, action and
\* condition, each Null when it is not given.  A principal is always a map of
\* lists; a condition of the data source has one value for each key.
BuildPolicyDocument(model) ==
    [principal |-> [form |-> "lists", who |-> OrZero(model.principal, {})],
     action    |-> MarshalStringList(OrZero(model.action, <<>>)),
     condition |-> IF model.condition = Null
                   THEN [form |-> "absent", of |-> <<>>]
                   ELSE [form |-> "list", of |-> <<model.condition>>],
     negated   |-> Null]

-----------------------------------------------------------------------------
\* The API (external) answers a policy in a layout of its own: lists instead
\* of single strings.
Canonical(text) ==
    [principal |-> [text.principal EXCEPT
                      !.form = IF @ = "strings" THEN "lists" ELSE @],
     action    |-> [text.action EXCEPT !.form = "list"],
     condition |-> [text.condition EXCEPT
                      !.form = IF @ = "string" THEN "list" ELSE @],
     negated   |-> text.negated]

\* What a policy means to the API does not depend on its layout, and on nothing
\* that the provider makes of it.
SameMeaning(text, other) == Canonical(text) = Canonical(other)

\* A text without the parts that have a meaning and of which Unmarshal keeps
\* nothing.
Heeded(text) ==
    [principal |-> IF /\ text.principal.form = "string"
                      /\ text.principal.who # Everyone
                   THEN [form |-> "absent", who |-> {}] ELSE text.principal,
     action    |-> text.action,
     condition |-> text.condition,
     negated   |-> Null]

\* What a text of the model may be.
PolicyWellFormed(text) ==
    /\ text = [principal |-> text.principal, action |-> text.action,
               condition |-> text.condition, negated |-> text.negated]
    /\ text.principal = [form |-> text.principal.form, who |-> text.principal.who]
    /\ text.action = [form |-> text.action.form, of |-> text.action.of]
    /\ text.condition = [form |-> text.condition.form, of |-> text.condition.of]
    /\ text.principal.form
          \in {"absent", "string", "strings", "lists", "mixed"}
    /\ text.condition.form \in {"absent", "string", "list", "other"}
    /\ text.principal.form = "absent" => text.principal.who = {}
    /\ text.condition.form = "absent" => text.condition.of = <<>>
    /\ Null \notin {text.principal.who, text.condition.of}
=============================================================================
