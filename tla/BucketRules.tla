---------------------------- MODULE BucketRules -----------------------------
(***************************************************************************)
(* The conversions of the lifecycle and inventory configurations of a      *)
(* bucket, src/coreweave/object_storage/resource_bucket_lifecycle_         *)
(* configuration.go and resource_bucket_inventory.go.                      *)
(*                                                                         *)
(* A lifecycle rule of the model has the fields                            *)
(*   id           Null, a number that stands for a name, or NoName for ""  *)
(*   prefix       the deprecated one, which is not sent                    *)
(*   days, date   of the expiration; days stands for the other blocks that *)
(*                are copied and compared; a date is a text: "utc",        *)
(*                "offset" (the same instant written otherwise),           *)
(*                "malformed"                                              *)
(*   transitions  the set of their dates, Null for one with days;          *)
(*                noncurrent_version_transition is alike, without dates    *)
(*   abort        abort_incomplete_multipart_upload: Null without it, Bare *)
(*                for an empty one, or days_after_initiation               *)
(*   size         filter.object_size_greater_than, an integer: Null        *)
(*                without a filter, Bare for a filter without it; the size *)
(*                below and and.tags are alike, {} and tags without a      *)
(*                value for 0                                              *)
(*   tag          filter.tag: Null without it, Bare for a tag without a    *)
(*                value, or its value                                      *)
(* and an inventory configuration                                          *)
(*   versions     stands for the required attributes, which are copied     *)
(*   enabled      BOOLEAN                                                  *)
(*   prefix       filter.prefix: Null without the filter, Bare for "filter *)
(*                {}"                                                      *)
(*   fields       optional_fields                                          *)
(***************************************************************************)
EXTENDS Attributes, Sequences, TLC

NoName == 0
NoValue == ""                   \* of a tag
MissingID == {Null, NoName}     \* isMissingRuleID

-----------------------------------------------------------------------------
(* Lifecycle rules *)

\* The texts and the times of this module.
ASSUME DateAssumption ==
    Null \notin {"utc", "offset", "malformed", "year1", "instant"}

\* parseISO8601: the error is dropped, and with it the date.
ParseISO8601(text) ==
    IF text \in {"malformed", "year1"} THEN "year1" ELSE "instant"

\* Format(time.RFC3339) of what the API answers, in UTC.
FormatRFC3339(time) == IF time = "instant" THEN "utc" ELSE "year1"

ExpandDate(text) == IF text = Null THEN Null ELSE ParseISO8601(text)
FlattenDate(time) == IF time = Null THEN Null ELSE FormatRFC3339(time)

ExpandDates(texts) == {ExpandDate(t) : t \in texts}
FlattenDates(times) == {FlattenDate(t) : t \in times}

\* An empty abort block is sent as 0 days, a tag without a value as one with
\* the value "", and a size that is not positive is not sent.
ExpandAbort(abort) == IF abort = Bare THEN 0 ELSE abort
ExpandTag(tag) == IF tag = Bare THEN NoValue ELSE tag
ExpandSize(size) ==
    IF size = Null \/ OrZero(size, 0) > 0 THEN size ELSE Bare

ExpandRule(rule) ==
    [id          |-> OrZero(rule.id, NoName),
     days        |-> rule.days,
     date        |-> ExpandDate(rule.date),
     transitions |-> ExpandDates(rule.transitions),
     abort       |-> ExpandAbort(rule.abort),
     size        |-> ExpandSize(rule.size),
     tag         |-> ExpandTag(rule.tag)]

ExpandRules(rules) == [i \in DOMAIN rules |-> ExpandRule(rules[i])]

\* cmpLifecycleRule: nil comes first.
CmpLifecycleRule(a, b) ==
    LET key(r) == IF r.id = Null THEN -1 ELSE r.id
    IN key(a) < key(b)

\* eqLifecycleRule: the transitions are not compared, nor is a date that one
\* of the two does not have.
EqLifecycleRule(a, b) ==
    /\ OrZero(a.id, NoName) = OrZero(b.id, NoName)
    /\ (a.days = Null /\ a.date = Null) <=> (b.days = Null /\ b.date = Null)
    /\ OrZero(a.days, 0) = OrZero(b.days, 0)
    /\ a.date = Null \/ b.date = Null \/ a.date = b.date
    /\ (a.abort = Null) <=> (b.abort = Null)
    /\ OrZero(a.abort, 0) = OrZero(b.abort, 0)
    /\ (a.size = Null) <=> (b.size = Null)
    /\ OrZero(a.size, 0) = OrZero(b.size, 0)
    /\ (a.tag = Null) <=> (b.tag = Null)
    /\ OrZero(a.tag, NoValue) = OrZero(b.tag, NoValue)

\* The condition of waitForLifecycleConfig.
SameRules(expected, rules) ==
    LET e == SortSeq(expected, CmpLifecycleRule)
        r == SortSeq(rules, CmpLifecycleRule)
    IN Len(e) = Len(r) /\ \A i \in DOMAIN e : EqLifecycleRule(e[i], r[i])

\* The deprecated prefix of the i-th answered rule: matched by id, or by
\* position if neither side has one.
PreservedPrefix(in, preserve, i) ==
    LET named == {j \in DOMAIN preserve : preserve[j].id = in[i].id}
    IN IF in[i].id \notin MissingID
       THEN IF named = {} THEN Null
            ELSE preserve[CHOOSE j \in named : \A k \in named : k <= j].prefix
       ELSE IF Len(in) = Len(preserve) /\ preserve[i].id \in MissingID
            THEN preserve[i].prefix ELSE Null

\* One rule, given the deprecated prefix it is to have.
FlattenRule(rule, prefix) ==
    [id          |-> rule.id,
     prefix      |-> prefix,
     days        |-> rule.days,
     date        |-> FlattenDate(rule.date),
     transitions |-> FlattenDates(rule.transitions),
     abort       |-> rule.abort,
     size        |-> rule.size,
     tag         |-> rule.tag]

\* Mutant of FlattenLifecycleRules: the deprecated prefix is forgotten.
MutNoPreserve(in, preserve) == [i \in DOMAIN in |-> FlattenRule(in[i], Null)]

FlattenLifecycleRules(in, preserve) ==
    [i \in DOMAIN in |-> FlattenRule(in[i], PreservedPrefix(in, preserve, i))]

\* The API (external) keeps rules as they are sent, in their order; an empty
\* id comes back empty or not at all.
StoredRules(rules, emptyId) ==
    [i \in DOMAIN rules |->
       [rules[i] EXCEPT !.id = IF @ = NoName THEN emptyId ELSE @]]

\* Rules that do not come back as they are written; of two with one id both
\* get the prefix of the last.
RulesLossy(rules) ==
    \E i \in DOMAIN rules :
       \/ rules[i].id \in MissingID
       \/ ({rules[i].date} \cup rules[i].transitions)
             \cap {"offset", "malformed"} # {}
       \/ rules[i].abort = Bare
       \/ rules[i].size \notin {Null, Bare} /\ rules[i].size <= 0
       \/ rules[i].tag = Bare
       \/ \E j \in DOMAIN rules : rules[j].id = rules[i].id
                                    /\ rules[j].prefix # rules[i].prefix

\* What the schema lets through.
RulesWellFormed(rules) ==
    /\ rules \in Seq({rules[i] : i \in DOMAIN rules})
    /\ \A i \in DOMAIN rules :
          LET rule == rules[i]
          IN /\ rule = [id |-> rule.id, prefix |-> rule.prefix,
                        days |-> rule.days, date |-> rule.date,
                        transitions |-> rule.transitions,
                        abort |-> rule.abort, size |-> rule.size,
                        tag |-> rule.tag]
             /\ rule.id \in Nat \cup {Null}
             /\ {rule.date} \cup rule.transitions
                   \subseteq {Null, "utc", "offset", "malformed"}
             /\ rule.size \in Int \cup {Null, Bare}
             /\ rule.tag # Null => rule.size # Null

-----------------------------------------------------------------------------
(* Inventory configuration *)

ExpandInventoryConfiguration(model) ==
    [versions |-> model.versions,
     enabled  |-> OrZero(model.enabled, FALSE),
     prefix   |-> IF IsKnown(model.prefix) THEN model.prefix ELSE Null,
     fields   |-> OrZero(model.fields, {})]

\* The optional fields are sorted to be compared: they are a set here.
EqInventoryConfiguration(a, b) == a = b

FlattenInventoryConfiguration(in) ==
    [versions |-> in.versions,
     enabled  |-> in.enabled,
     prefix   |-> in.prefix,
     fields   |-> IF in.fields = {} THEN Null ELSE in.fields]

InventoryLossy(model) == model.prefix = Bare

\* What the schema lets through: optional_fields has a SizeAtLeast(1).
InventoryWellFormed(model) ==
    /\ model = [versions |-> model.versions, enabled |-> model.enabled,
                prefix |-> model.prefix, fields |-> model.fields]
    /\ IsKnown(model.enabled) \/ model.enabled = Null
    /\ IsKnown(model.prefix) \/ model.prefix \in {Null, Bare}
    /\ IsKnown(model.fields) \/ model.fields = Null
    /\ model.fields # {}
=============================================================================
