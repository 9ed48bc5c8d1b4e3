------------------------ MODULE BucketDocument_proofs ------------------------
(***************************************************************************)
(* What TLAPS proves about BucketDocument: what is read back says what was *)
(* written.                                                                *)
(*                                                                         *)
(* The first part is about the conversions of BucketRules: a plan that a   *)
(* document is read back into asks for that document again, and a plan     *)
(* that is not lossy comes back as it was.  The second is the inductive    *)
(* invariant.                                                              *)
(***************************************************************************)
EXTENDS BucketDocument, TLAPS, WellFoundedInduction

-----------------------------------------------------------------------------
(* Lifecycle rules *)

\* A document that a configuration of rules has become in the store.
StoredFrom(doc, rules) ==
    \E id \in MissingID : doc = StoredRules(ExpandRules(rules), id)

\* The store keeps what a rule expands to, but for an empty id.
LEMMA StoredRule ==
    ASSUME NEW rules, NEW empty, NEW i \in DOMAIN rules
    PROVE  LET doc == StoredRules(ExpandRules(rules), empty)
           IN /\ DOMAIN doc = DOMAIN rules
              /\ doc[i] = [ExpandRule(rules[i]) EXCEPT
                             !.id = IF @ = NoName THEN empty ELSE @]
BY DEF StoredRules, ExpandRules

\* A date that is read back is the one that is stored, and one that is not lossy
\* comes back as it was written.
LEMMA DateComesBack ==
    ASSUME NEW text
    PROVE  /\ ExpandDate(FlattenDate(ExpandDate(text))) = ExpandDate(text)
           /\ text \in {Null, "utc"} => FlattenDate(ExpandDate(text)) = text
BY DateAssumption DEF ExpandDate, FlattenDate, ParseISO8601, FormatRFC3339

\* So do sets of dates, those of the transitions.
LEMMA DatesComeBack ==
    ASSUME NEW texts
    PROVE  /\ ExpandDates(FlattenDates(ExpandDates(texts))) = ExpandDates(texts)
           /\ texts \subseteq {Null, "utc"}
                => FlattenDates(ExpandDates(texts)) = texts
<1>1. FlattenDates(ExpandDates(texts))
        = {FlattenDate(ExpandDate(t)) : t \in texts}
  BY DEF ExpandDates, FlattenDates
<1>2. ExpandDates(FlattenDates(ExpandDates(texts))) = ExpandDates(texts)
  <2>1. ExpandDates(FlattenDates(ExpandDates(texts)))
          = {ExpandDate(FlattenDate(ExpandDate(t))) : t \in texts}
    BY <1>1 DEF ExpandDates
  <2>2. \A t \in texts : ExpandDate(FlattenDate(ExpandDate(t))) = ExpandDate(t)
    BY DateComesBack
  <2> QED
    BY <2>1, <2>2 DEF ExpandDates
<1>3. ASSUME texts \subseteq {Null, "utc"}
      PROVE  FlattenDates(ExpandDates(texts)) = texts
  <2>1. \A t \in texts : FlattenDate(ExpandDate(t)) = t
    BY <1>3, DateComesBack
  <2> QED
    BY <1>1, <2>1
<1> QED
  BY <1>2, <1>3

\* A rule that is read back expands to the rule that is stored.
LEMMA RuleComesBack ==
    ASSUME NEW rule, NEW empty \in MissingID, NEW prefix,
           rule.id \in Nat \cup {Null}
    PROVE  LET stored == [ExpandRule(rule) EXCEPT
                            !.id = IF @ = NoName THEN empty ELSE @]
           IN [ExpandRule(FlattenRule(stored, prefix)) EXCEPT
                 !.id = IF @ = NoName THEN empty ELSE @] = stored
<1> DEFINE stored == [ExpandRule(rule) EXCEPT
                        !.id = IF @ = NoName THEN empty ELSE @]
           read == FlattenRule(stored, prefix)
           again == [ExpandRule(read) EXCEPT
                       !.id = IF @ = NoName THEN empty ELSE @]
           kept(id) == IF id = NoName THEN empty ELSE id
<1> SUFFICES again = stored
  OBVIOUS
<1>1. ASSUME NEW r
      PROVE  [ExpandRule(r) EXCEPT !.id = IF @ = NoName THEN empty ELSE @]
               = [id |-> kept(OrZero(r.id, NoName)), days |-> r.days,
                  date |-> ExpandDate(r.date),
                  transitions |-> ExpandDates(r.transitions),
                  abort |-> ExpandAbort(r.abort), size |-> ExpandSize(r.size),
                  tag |-> ExpandTag(r.tag)]
  <2>1. ExpandRule(r)
          = [id |-> OrZero(r.id, NoName), days |-> r.days,
             date |-> ExpandDate(r.date),
             transitions |-> ExpandDates(r.transitions),
             abort |-> ExpandAbort(r.abort), size |-> ExpandSize(r.size),
             tag |-> ExpandTag(r.tag)]
    BY DEF ExpandRule
  <2> QED
    BY <2>1
<1>2. /\ stored.id = kept(OrZero(rule.id, NoName)) /\ stored.days = rule.days
      /\ stored.date = ExpandDate(rule.date)
      /\ stored.transitions = ExpandDates(rule.transitions)
      /\ stored.abort = ExpandAbort(rule.abort)
      /\ stored.size = ExpandSize(rule.size)
      /\ stored.tag = ExpandTag(rule.tag)
      /\ stored = [id |-> stored.id, days |-> stored.days,
                   date |-> stored.date, transitions |-> stored.transitions,
                   abort |-> stored.abort, size |-> stored.size,
                   tag |-> stored.tag]
  <2>1. stored = [id |-> kept(OrZero(rule.id, NoName)), days |-> rule.days,
                  date |-> ExpandDate(rule.date),
                  transitions |-> ExpandDates(rule.transitions),
                  abort |-> ExpandAbort(rule.abort),
                  size |-> ExpandSize(rule.size), tag |-> ExpandTag(rule.tag)]
    BY <1>1
  <2> HIDE DEF stored, kept
  <2> QED
    BY <2>1
<1> HIDE DEF stored, kept
<1>3. /\ read.id = stored.id /\ read.days = stored.days
      /\ read.date = FlattenDate(stored.date)
      /\ read.transitions = FlattenDates(stored.transitions)
      /\ read.abort = stored.abort /\ read.size = stored.size
      /\ read.tag = stored.tag
  BY DEF FlattenRule
<1> HIDE DEF read
<1>4. again = [id |-> kept(OrZero(read.id, NoName)), days |-> read.days,
               date |-> ExpandDate(read.date),
               transitions |-> ExpandDates(read.transitions),
               abort |-> ExpandAbort(read.abort), size |-> ExpandSize(read.size),
               tag |-> ExpandTag(read.tag)]
  BY <1>1 DEF kept
<1>5. kept(OrZero(read.id, NoName)) = stored.id
  BY <1>2, <1>3, NullAssumption DEF kept, MissingID, NoName, OrZero, IsKnown
<1>6. ExpandDate(read.date) = stored.date
  BY <1>2, <1>3, DateComesBack
<1>7. ExpandDates(read.transitions) = stored.transitions
  BY <1>2, <1>3, DatesComeBack
<1>8. ExpandAbort(read.abort) = stored.abort /\ ExpandTag(read.tag) = stored.tag
  <2>1. 0 # Bare
    BY NullAssumption
  <2>2. NoValue # Bare
    <3>1. Bare # ""
      BY ZeroAssumption, Zenon
    <3> QED
      BY <3>1, Zenon DEF NoValue
  <2> QED
    BY <1>2, <1>3, <2>1, <2>2 DEF ExpandAbort, ExpandTag
<1>9. ExpandSize(read.size) = stored.size
  <2>1. ExpandSize(Bare) = Bare
    <3>1. OrZero(Bare, 0) = 0
      BY DEF OrZero, IsKnown
    <3> QED
      BY <3>1, NullAssumption DEF ExpandSize
  <2>2. ExpandSize(ExpandSize(rule.size)) = ExpandSize(rule.size)
    BY <2>1 DEF ExpandSize
  <2> QED
    BY <1>2, <1>3, <2>2
<1> QED
  BY <1>2, <1>3, <1>4, <1>5, <1>6, <1>7, <1>8, <1>9

\* Rules that a document is read back into ask for that document.
LEMMA RulesComeBack ==
    ASSUME NEW rules, RulesWellFormed(rules), NEW doc, StoredFrom(doc, rules),
           NEW preserve
    PROVE  StoredFrom(doc, FlattenLifecycleRules(doc, preserve))
<1>1. PICK empty \in MissingID : doc = StoredRules(ExpandRules(rules), empty)
  BY DEF StoredFrom
<1> DEFINE read == FlattenLifecycleRules(doc, preserve)
           again == StoredRules(ExpandRules(read), empty)
<1>2. DOMAIN doc = DOMAIN rules /\ DOMAIN read = DOMAIN rules
  BY <1>1 DEF StoredRules, ExpandRules, FlattenLifecycleRules
<1>3. ASSUME NEW i \in DOMAIN rules  PROVE again[i] = doc[i]
  <2>1. doc[i] = [ExpandRule(rules[i]) EXCEPT
                    !.id = IF @ = NoName THEN empty ELSE @]
    BY <1>1, StoredRule
  <2>2. again[i] = [ExpandRule(read[i]) EXCEPT
                      !.id = IF @ = NoName THEN empty ELSE @]
    BY <1>2, StoredRule
  <2>3. read[i] = FlattenRule(doc[i], PreservedPrefix(doc, preserve, i))
    BY <1>2 DEF FlattenLifecycleRules
  <2>4. rules[i].id \in Nat \cup {Null}
    BY DEF RulesWellFormed
  <2> QED
    BY <2>1, <2>2, <2>3, <2>4, RuleComesBack
<1>4. /\ DOMAIN again = DOMAIN rules
      /\ again = [i \in DOMAIN rules |-> again[i]]
      /\ doc = [i \in DOMAIN rules |-> doc[i]]
  BY <1>1, <1>2 DEF StoredRules, ExpandRules
<1>5. again = doc
  BY <1>3, <1>4
<1> QED
  BY <1>5 DEF StoredFrom

\* Some rule with an id is the last one with it.
LEMMA LastExists ==
    ASSUME NEW n \in Nat, NEW S \in SUBSET (1..n), S # {}
    PROVE  \E j \in S : \A k \in S : k <= j
<1> DEFINE T == {n - k : k \in S}
           R == OpToRel(<, Nat)
<1>1. T \subseteq Nat /\ T # {}
  <2>1. \A k \in S : n - k \in Nat
    OBVIOUS
  <2> QED
    BY <2>1
<1>2. IsWellFoundedOn(R, Nat)
  BY NatLessThanWellFounded
<1>3. PICK x \in T : \A y \in T : ~ (<<y, x>> \in R)
  <2> HIDE DEF T, R
  <2> QED
    BY <1>1, <1>2, WFMin
<1>4. PICK j \in S : x = n - j
  BY <1>3
<1>5. ASSUME NEW k \in S  PROVE k <= j
  <2>1. n - k \in T /\ n - k \in Nat /\ n - j \in Nat
    OBVIOUS
  <2>2. ~(n - k < n - j)
    BY <2>1, <1>3, <1>4 DEF OpToRel
  <2> QED
    BY <2>2
<1> QED
  BY <1>5

\* A rule that is not lossy is read back as it is, its prefix from the plan.
LEMMA RulesComeBackAsWritten ==
    ASSUME NEW rules, RulesWellFormed(rules), ~RulesLossy(rules),
           NEW doc, StoredFrom(doc, rules)
    PROVE  FlattenLifecycleRules(doc, rules) = rules
<1>1. PICK empty \in MissingID : doc = StoredRules(ExpandRules(rules), empty)
  BY DEF StoredFrom
<1>2. DOMAIN doc = DOMAIN rules
  BY <1>1 DEF StoredRules, ExpandRules
<1>3. rules \in Seq({rules[i] : i \in DOMAIN rules})
  BY DEF RulesWellFormed
<1>4. /\ Len(rules) \in Nat /\ DOMAIN rules = 1..Len(rules)
      /\ rules = [i \in DOMAIN rules |-> rules[i]]
  BY <1>3
<1> DEFINE read == FlattenLifecycleRules(doc, rules)
<1>5. ASSUME NEW i \in DOMAIN rules  PROVE read[i] = rules[i]
  <2> DEFINE rule == rules[i]
  <2>1. /\ rule = [id |-> rule.id, prefix |-> rule.prefix,
                   days |-> rule.days, date |-> rule.date,
                   transitions |-> rule.transitions, abort |-> rule.abort,
                   size |-> rule.size, tag |-> rule.tag]
        /\ rule.id \in Nat \ {0}
        /\ rule.date \in {Null, "utc"}
        /\ rule.transitions \subseteq {Null, "utc"}
        /\ rule.abort # Bare /\ rule.tag # Bare
        /\ \/ rule.size \in {Null, Bare}
           \/ rule.size \in Int /\ rule.size > 0
    <3>1. /\ rule.id \notin {Null, 0}
          /\ ({rule.date} \cup rule.transitions)
                \cap {"offset", "malformed"} = {}
          /\ rule.abort # Bare /\ rule.tag # Bare
          /\ rule.size \in {Null, Bare} \/ ~(rule.size <= 0)
      BY DEF RulesLossy, MissingID, NoName
    <3>2. /\ rule.id \in Nat \cup {Null}
          /\ {rule.date} \cup rule.transitions
                \subseteq {Null, "utc", "offset", "malformed"}
          /\ rule.size \in Int \cup {Null, Bare}
      BY DEF RulesWellFormed
    <3>3. rule = [id |-> rule.id, prefix |-> rule.prefix,
                  days |-> rule.days, date |-> rule.date,
                  transitions |-> rule.transitions, abort |-> rule.abort,
                  size |-> rule.size, tag |-> rule.tag]
      BY DEF RulesWellFormed
    <3> HIDE DEF rule
    <3>4. {rule.date} \cup rule.transitions \subseteq {Null, "utc"}
      BY <3>1, <3>2
    <3>5. \/ rule.size \in {Null, Bare}
          \/ rule.size \in Int /\ rule.size > 0
      BY <3>1, <3>2
    <3> QED
      BY <3>1, <3>2, <3>3, <3>4, <3>5
  <2>2. doc[i] = [ExpandRule(rule) EXCEPT
                    !.id = IF @ = NoName THEN empty ELSE @]
    BY <1>1, StoredRule
  <2> HIDE DEF rule
  <2>3. /\ doc[i].id = rule.id /\ doc[i].days = rule.days
        /\ doc[i].date = ExpandDate(rule.date)
        /\ doc[i].transitions = ExpandDates(rule.transitions)
        /\ doc[i].abort = rule.abort /\ doc[i].size = rule.size
        /\ doc[i].tag = rule.tag
    <3>1. OrZero(rule.id, NoName) = rule.id /\ rule.id # NoName
      BY <2>1, NullAssumption DEF OrZero, IsKnown, NoName
    <3>2. rule.size = Null \/ OrZero(rule.size, 0) > 0 \/ rule.size = Bare
      BY <2>1, NullAssumption DEF OrZero, IsKnown
    <3>3. ExpandRule(rule)
            = [id |-> rule.id, days |-> rule.days,
               date |-> ExpandDate(rule.date),
               transitions |-> ExpandDates(rule.transitions),
               abort |-> rule.abort, size |-> rule.size, tag |-> rule.tag]
      BY <2>1, <3>1, <3>2
         DEF ExpandRule, ExpandAbort, ExpandSize, ExpandTag
    <3> QED
      BY <2>2, <3>1, <3>3
  <2>4. PreservedPrefix(doc, rules, i) = rules[i].prefix
    <3> DEFINE named == {j \in DOMAIN rules : rules[j].id = doc[i].id}
    <3>1. i \in named /\ named \in SUBSET (1..Len(rules))
      BY <1>4, <2>3 DEF rule
    <3>2. \E j \in named : \A k \in named : k <= j
      <4> HIDE DEF named
      <4> QED
        BY <1>4, <3>1, LastExists
    <3>3. (CHOOSE j \in named : \A k \in named : k <= j) \in named
      <4> HIDE DEF named
      <4> QED
        BY <3>2
    <3>4. \A j \in named : rules[j].prefix = rules[i].prefix
      BY <2>3 DEF RulesLossy, rule
    <3>5. doc[i].id \notin MissingID
      BY <2>1, <2>3, NullAssumption DEF MissingID, NoName
    <3>6. PreservedPrefix(doc, rules, i)
            = rules[CHOOSE j \in named : \A k \in named : k <= j].prefix
      BY <3>1, <3>5 DEF PreservedPrefix
    <3> QED
      BY <3>3, <3>4, <3>6
  <2>5. read[i] = [id |-> rule.id, prefix |-> rule.prefix,
                   days |-> rule.days, date |-> FlattenDate(doc[i].date),
                   transitions |-> FlattenDates(doc[i].transitions),
                   abort |-> rule.abort, size |-> rule.size, tag |-> rule.tag]
    BY <1>2, <2>3, <2>4 DEF FlattenLifecycleRules, FlattenRule, rule
  <2>6. FlattenDate(doc[i].date) = rule.date
    BY <2>1, <2>3, DateComesBack
  <2>7. FlattenDates(doc[i].transitions) = rule.transitions
    BY <2>1, <2>3, DatesComeBack
  <2> QED
    BY <2>1, <2>5, <2>6, <2>7 DEF rule
<1>6. read = [i \in DOMAIN rules |-> read[i]]
  BY <1>2 DEF FlattenLifecycleRules
<1> QED
  BY <1>4, <1>5, <1>6

-----------------------------------------------------------------------------
(* Inventory configurations *)

\* An inventory as it is planned, with the schema's default of "enabled".
PlannedInventory(plan) == InventoryWellFormed(plan) /\ IsKnown(plan.enabled)

\* What an inventory is read back into asks for that inventory.
LEMMA InventoryComesBack ==
    ASSUME NEW plan, PlannedInventory(plan)
    PROVE  LET doc == ExpandInventoryConfiguration(plan)
           IN ExpandInventoryConfiguration(FlattenInventoryConfiguration(doc))
                = doc
BY NullAssumption
   DEF PlannedInventory, InventoryWellFormed, IsKnown, OrZero,
       ExpandInventoryConfiguration, FlattenInventoryConfiguration

\* But for an empty filter an inventory comes back as it was planned.
LEMMA InventoryComesBackAsWritten ==
    ASSUME NEW plan, PlannedInventory(plan), ~InventoryLossy(plan)
    PROVE  FlattenInventoryConfiguration(ExpandInventoryConfiguration(plan))
             = plan
BY NullAssumption
   DEF PlannedInventory, InventoryWellFormed, InventoryLossy, IsKnown, OrZero,
       ExpandInventoryConfiguration, FlattenInventoryConfiguration

-----------------------------------------------------------------------------
(* Policies *)

\* What the API makes of the layout of a text.
LEMMA CanonicalShape ==
    ASSUME NEW text, PolicyWellFormed(text)
    PROVE  Canonical(text)
             = [principal |->
                  [form |-> IF text.principal.form = "strings" THEN "lists"
                            ELSE text.principal.form,
                   who |-> text.principal.who],
                action |-> [form |-> "list", of |-> text.action.of],
                condition |->
                  [form |-> IF text.condition.form = "string" THEN "list"
                            ELSE text.condition.form,
                   of |-> text.condition.of],
                negated |-> text.negated]
<1>1. /\ text.principal
           = [form |-> text.principal.form, who |-> text.principal.who]
      /\ text.action = [form |-> text.action.form, of |-> text.action.of]
      /\ text.condition
           = [form |-> text.condition.form, of |-> text.condition.of]
  BY DEF PolicyWellFormed
<1> QED
  BY <1>1 DEF Canonical

LEMMA CanonicalWellFormed ==
    ASSUME NEW text, PolicyWellFormed(text)
    PROVE  PolicyWellFormed(Canonical(text))
BY CanonicalShape DEF PolicyWellFormed

\* What is heeded of a text is a text.
LEMMA HeededShape ==
    ASSUME NEW text, PolicyWellFormed(text)
    PROVE  /\ PolicyWellFormed(Heeded(text))
           /\ Heeded(text).principal
                = IF /\ text.principal.form = "string"
                     /\ text.principal.who # Everyone
                  THEN [form |-> "absent", who |-> {}] ELSE text.principal
           /\ Heeded(text).action = text.action
           /\ Heeded(text).condition = text.condition
           /\ Heeded(text).negated = Null
<1> DEFINE principal == IF /\ text.principal.form = "string"
                           /\ text.principal.who # Everyone
                        THEN [form |-> "absent", who |-> {}]
                        ELSE text.principal
<1>1. Heeded(text) = [principal |-> principal, action |-> text.action,
                      condition |-> text.condition, negated |-> Null]
  BY DEF Heeded
<1>2. /\ principal = [form |-> principal.form, who |-> principal.who]
      /\ principal.form \in {"absent", "string", "strings", "lists", "mixed"}
      /\ principal.form = "absent" => principal.who = {}
      /\ principal.who # Null
  <2>1. Null # {}
    BY ZeroAssumption
  <2> QED
    BY <2>1 DEF PolicyWellFormed
<1> HIDE DEF principal
<1>3. PolicyWellFormed(Heeded(text))
  BY <1>1, <1>2 DEF PolicyWellFormed
<1> QED
  BY <1>1, <1>3 DEF principal

\* Two texts that can be unmarshalled and that Unmarshal makes the same of mean
\* the same to the API, but for the parts that Unmarshal leaves out.
LEMMA SamePolicyMeaning ==
    ASSUME NEW a, NEW b, PolicyWellFormed(a), PolicyWellFormed(b),
           Readable(a), Readable(b), SamePolicy(a, b)
    PROVE  SameMeaning(Heeded(a), Heeded(b))
<1> DEFINE form(p) == IF p.form = "strings" THEN "lists" ELSE p.form
           layout(c) == IF c.form = "string" THEN "list" ELSE c.form
           pa == Heeded(a).principal
           pb == Heeded(b).principal
<1>1. /\ UnmarshalPrincipal(a.principal) = UnmarshalPrincipal(b.principal)
      /\ a.action.of = b.action.of
      /\ UnmarshalCondition(a.condition) = UnmarshalCondition(b.condition)
  BY DEF SamePolicy, Unmarshal, UnmarshalStringList
<1>2. /\ a.principal.form # "mixed" /\ a.condition.form # "other"
      /\ b.principal.form # "mixed" /\ b.condition.form # "other"
  BY DEF Readable, UnmarshalFailure, Overflows, ConditionIsError
<1>3. layout(a.condition) = layout(b.condition)
      /\ a.condition.of = b.condition.of
  BY <1>1, <1>2 DEF UnmarshalCondition, PolicyWellFormed
<1>4. form(pa) = form(pb) /\ pa.who = pb.who
  <2>1. /\ (a.principal.form = "string" /\ a.principal.who = Everyone)
             <=> (b.principal.form = "string" /\ b.principal.who = Everyone)
        /\ (IF a.principal.form \in {"strings", "lists"}
              THEN a.principal.who ELSE Null)
             = (IF b.principal.form \in {"strings", "lists"}
                  THEN b.principal.who ELSE Null)
    BY <1>1 DEF UnmarshalPrincipal
  <2>2. /\ pa = IF a.principal.form = "string" /\ a.principal.who # Everyone
                THEN [form |-> "absent", who |-> {}] ELSE a.principal
        /\ pb = IF b.principal.form = "string" /\ b.principal.who # Everyone
                THEN [form |-> "absent", who |-> {}] ELSE b.principal
    BY HeededShape
  <2>3. /\ a.principal.who # Null /\ b.principal.who # Null
        /\ a.principal.form \in {"absent", "string", "strings", "lists"}
        /\ b.principal.form \in {"absent", "string", "strings", "lists"}
        /\ a.principal.form = "absent" => a.principal.who = {}
        /\ b.principal.form = "absent" => b.principal.who = {}
    BY <1>2 DEF PolicyWellFormed
  <2> HIDE DEF pa, pb
  <2> QED
    BY <2>1, <2>2, <2>3
<1>5. /\ PolicyWellFormed(Heeded(a)) /\ PolicyWellFormed(Heeded(b))
      /\ Heeded(a).action = a.action /\ Heeded(b).action = b.action
      /\ Heeded(a).condition = a.condition /\ Heeded(b).condition = b.condition
      /\ Heeded(a).negated = Null /\ Heeded(b).negated = Null
  BY HeededShape
<1>6. ASSUME NEW t, PolicyWellFormed(t)
      PROVE  Canonical(t)
               = [principal |-> [form |-> form(t.principal),
                                 who |-> t.principal.who],
                  action |-> [form |-> "list", of |-> t.action.of],
                  condition |-> [form |-> layout(t.condition),
                                 of |-> t.condition.of],
                  negated |-> t.negated]
  BY <1>6, CanonicalShape
<1> HIDE DEF form, layout
<1>7. Canonical(Heeded(a)) = Canonical(Heeded(b))
  BY <1>1, <1>3, <1>4, <1>5, <1>6
<1> QED
  BY <1>7 DEF SameMeaning

-----------------------------------------------------------------------------
(* The inductive invariant *)

PlannedModels == {PlanOf(m) : m \in Models[kind]}
Configurations == {NoConfig} \cup [place : Places, model : Models[kind]]

IsResource(s) ==
    /\ s = [place |-> s.place, model |-> s.model, tainted |-> s.tainted]
    /\ s.place \in Places /\ s.tainted \in BOOLEAN

StoreOK == docs \in [Places -> Documents] /\ views \in [Places -> Documents]

StateOK == tfstate = NoState \/ IsResource(tfstate)

\* What a run has planned is what some configuration asks for, and what it has
\* put is what the state will get if the wait fails.
OpOK ==
    /\ op = [step |-> op.step, replace |-> op.replace, place |-> op.place,
             plan |-> op.plan, resp |-> op.resp, result |-> op.result]
    /\ op.step \in Steps /\ op.replace \in BOOLEAN /\ op.result \in Results
    /\ op.step # "idle" => op.result = "none"
    /\ op.place \in Places \cup {NoPlace}
    /\ op.resp = NoState \/ IsResource(op.resp)
    /\ op.replace => op.step \in {"delete", "create", "wait"}
    /\ op.step \in {"create", "update", "wait"} \/ op.replace
         => op.place \in Places /\ op.plan \in PlannedModels
    /\ op.step = "wait"
         => /\ op.resp # NoState
            /\ op.resp.place = op.place /\ op.resp.model = op.plan

\* A model is what a Read makes of a document.
IsReadFrom(model, doc) ==
    /\ kind = "versioning" =>
          /\ doc # Gone
          /\ model = IF doc = Absent THEN NoStatus ELSE doc
    /\ kind = "policy" =>
          /\ doc \notin NoDocument /\ SamePolicy(model, doc)
          /\ Readable(model) /\ Readable(doc)
    /\ kind = "lifecycle" =>
          /\ doc \notin NoDocument
          /\ \E old : model = FlattenLifecycleRules(doc, old)
    /\ kind = "inventory" =>
          doc \notin NoDocument /\ model = FlattenInventoryConfiguration(doc)

\* Between a refresh and its plan the state is what readers see.
StateIsSeen ==
    op.step = "refreshed" /\ tfstate # NoState
      => IsReadFrom(tfstate.model, views[tfstate.place])

DeletesSomething == op.step = "delete" => tfstate # NoState

IInv ==
    /\ kind \in Kinds /\ config \in Configurations
    /\ budget \in [faults : 0..MaxFaults, edits : 0..MaxEdits]
    /\ StoreOK /\ StateOK /\ OpOK /\ StateIsSeen /\ DeletesSomething

-----------------------------------------------------------------------------
(* Lemmas about the parts of a step *)

\* What a kind's configurations and documents are does not change.
LEMMA SameKind ==
    ASSUME kind' = kind
    PROVE  /\ Documents' = Documents
           /\ PlannedModels' = PlannedModels
           /\ Configurations' = Configurations
           /\ Models[kind]' = Models[kind]
<1>1. \A m : PlanOf(m)' = PlanOf(m)
  BY kind' = kind DEF PlanOf
<1>2. \A d : Expand(d)' = Expand(d) /\ Stored(d)' = Stored(d)
  BY kind' = kind DEF Expand, Stored
<1>3. Models[kind]' = Models[kind]
  BY kind' = kind
<1> QED
  BY <1>1, <1>2, <1>3, kind' = kind DEF Documents, PlannedModels, Configurations

\* A run that ends leaves the operation in order.
LEMMA IdleIsOK ==
    ASSUME NEW result \in Results
    PROVE  LET idle == IdleOp(result)
           IN /\ idle = [step |-> "idle", replace |-> FALSE, place |-> NoPlace,
                         plan |-> Null, resp |-> NoState, result |-> result]
              /\ idle.step = "idle" /\ idle.result = result
BY DEF IdleOp

LEMMA ResourceIsState ==
    ASSUME NEW s, IsResource(s)
    PROVE  s # NoState
BY PlaceAssumption DEF IsResource, NoState

LEMMA ChargeOK ==
    ASSUME budget \in [faults : 0..MaxFaults, edits : 0..MaxEdits],
           NEW what \in {"faults", "edits"}, Charge(what)
    PROVE  budget' \in [faults : 0..MaxFaults, edits : 0..MaxEdits]
BY BudgetAssumption DEF Charge

\* A step after which no run is in flight.
LEMMA EndsOK ==
    ASSUME IInv, kind' = kind, NEW result \in Results, op' = IdleOp(result),
           docs' \in [Places -> Documents], views' \in [Places -> Documents],
           config' \in Configurations,
           budget' \in [faults : 0..MaxFaults, edits : 0..MaxEdits],
           tfstate' = NoState \/ IsResource(tfstate')
    PROVE  IInv'
<1>1. kind' \in Kinds /\ config' \in Configurations'
  BY SameKind DEF IInv
<1>2. StoreOK' /\ StateOK'
  BY SameKind DEF StoreOK, StateOK, IsResource
<1>3. /\ op' = [step |-> "idle", replace |-> FALSE, place |-> NoPlace,
                plan |-> Null, resp |-> NoState, result |-> result]
      /\ op'.step = "idle" /\ op'.replace = FALSE /\ op'.place = NoPlace
      /\ op'.plan = Null /\ op'.resp = NoState /\ op'.result = result
  BY IdleIsOK DEF IdleOp
<1>4. OpOK'
  BY <1>3 DEF OpOK, Steps
<1>5. StateIsSeen' /\ DeletesSomething'
  BY <1>3 DEF StateIsSeen, DeletesSomething
<1> QED
  BY <1>1, <1>2, <1>4, <1>5 DEF IInv

-----------------------------------------------------------------------------
(* One lemma for each action: what it does *)

\* A Read ends the run with an error, or takes over what is seen.
LEMMA ReadsEnd ==
    ASSUME IInv, Reads
    PROVE  /\ op.step = "idle"
           /\ UNCHANGED <<kind, docs, views, config, budget>>
           /\ \/ \E result \in {"error", "panic"} :
                    tfstate' = tfstate /\ op' = IdleOp(result)
              \/ /\ op' = [IdleOp("none") EXCEPT !.step = "refreshed"]
                 /\ \/ tfstate' = NoState
                    \/ \E model : /\ tfstate # NoState
                                  /\ IsReadFrom(model, Seen)
                                  /\ tfstate' = [tfstate EXCEPT !.model = model]
<1>1. CASE VersioningRead
  BY <1>1 DEF VersioningRead, Refresh, Finish, IsReadFrom
<1>2. CASE PolicyRead
  <2> DEFINE failure == IF Seen \in NoDocument THEN "none"
                        ELSE IF Readable(tfstate.model)
                        THEN UnmarshalFailure(Seen)
                        ELSE UnmarshalFailure(tfstate.model)
             model == IF SamePolicy(tfstate.model, Seen)
                      THEN tfstate.model ELSE Seen
  <2>1. /\ kind = "policy"
        /\ Refresh(failure, Seen \in NoDocument, model)
    BY <1>2 DEF PolicyRead
  <2>2. failure \in {"none", "error", "panic"}
    BY DEF UnmarshalFailure
  <2>3. failure = "none" /\ Seen \notin NoDocument => IsReadFrom(model, Seen)
    BY <2>1 DEF Readable, SamePolicy, IsReadFrom
  <2> HIDE DEF failure, model
  <2>4. CASE tfstate # NoState /\ failure # "none"
    BY <2>1, <2>2, <2>4 DEF Refresh, Finish
  <2>5. CASE tfstate = NoState \/ failure = "none"
    <3>1. CASE tfstate = NoState \/ Seen \in NoDocument
      BY <2>1, <2>5, <3>1 DEF Refresh
    <3>2. CASE tfstate # NoState /\ Seen \notin NoDocument
      BY <2>1, <2>3, <2>5, <3>2 DEF Refresh
    <3> QED
      BY <3>1, <3>2
  <2> QED
    BY <2>4, <2>5
<1>3. CASE LifecycleRead
  BY <1>3 DEF LifecycleRead, Refresh, Finish, IsReadFrom, Flatten, NoDocument
<1>4. CASE InventoryRead
  BY <1>4 DEF InventoryRead, Refresh, Finish, IsReadFrom, Flatten
<1> QED
  BY <1>1, <1>2, <1>3, <1>4 DEF Reads

LEMMA ReadsKeep ==
    ASSUME IInv, Reads
    PROVE  IInv'
<1>1. /\ op.step = "idle"
      /\ UNCHANGED <<kind, docs, views, config, budget>>
  BY ReadsEnd
<1>2. CASE \E result \in {"error", "panic"} :
              tfstate' = tfstate /\ op' = IdleOp(result)
  BY <1>1, <1>2, EndsOK DEF IInv, StoreOK, StateOK, Results
<1>3. CASE /\ op' = [IdleOp("none") EXCEPT !.step = "refreshed"]
           /\ \/ tfstate' = NoState
              \/ \E model : /\ tfstate # NoState
                            /\ IsReadFrom(model, Seen)
                            /\ tfstate' = [tfstate EXCEPT !.model = model]
  <2>1. op' = [step |-> "refreshed", replace |-> FALSE, place |-> NoPlace,
               plan |-> Null, resp |-> NoState, result |-> "none"]
    BY <1>3 DEF IdleOp
  <2>2. OpOK' /\ DeletesSomething'
    BY <2>1 DEF OpOK, DeletesSomething, Steps, Results
  <2>3. StateOK' /\ StateIsSeen'
    <3>1. CASE tfstate' = NoState
      BY <3>1 DEF StateOK, StateIsSeen
    <3>2. CASE \E model : /\ tfstate # NoState
                          /\ IsReadFrom(model, Seen)
                          /\ tfstate' = [tfstate EXCEPT !.model = model]
      <4>1. PICK model : /\ tfstate # NoState
                         /\ IsReadFrom(model, Seen)
                         /\ tfstate' = [tfstate EXCEPT !.model = model]
        BY <3>2
      <4>2. IsResource(tfstate)
        BY <4>1 DEF IInv, StateOK
      <4>3. tfstate' = [place |-> tfstate.place, model |-> model,
                        tainted |-> tfstate.tainted]
        BY <4>1, <4>2 DEF IsResource
      <4>4. IsResource(tfstate')
        BY <4>2, <4>3 DEF IsResource
      <4>5. IsReadFrom(model, views[tfstate.place])'
        BY <1>1, <4>1, <4>3 DEF IsReadFrom, Seen
      <4> QED
        BY <4>3, <4>4, <4>5 DEF StateOK, StateIsSeen
    <3> QED
      BY <1>3, <3>1, <3>2
  <2> QED
    BY <1>1, <2>2, <2>3, SameKind DEF IInv, StoreOK
<1> QED
  BY <1>2, <1>3, ReadsEnd

\* A plan starts what the difference between the state and the configuration
\* asks for; without one the run is over.
LEMMA PlanEnds ==
    ASSUME IInv, Plan
    PROVE  /\ op.step = "refreshed"
           /\ UNCHANGED <<kind, docs, views, tfstate, config, budget>>
           /\ \/ /\ op' = IdleOp("ok")
                 /\ config # NoConfig
                      => /\ tfstate # NoState
                         /\ config.place = tfstate.place
                         /\ PlanOf(config.model) = tfstate.model
              \/ \E step \in {"create", "update", "delete"}, replace \in BOOLEAN :
                    /\ op' = [step |-> step, replace |-> replace,
                              place |-> IF config = NoConfig THEN NoPlace
                                        ELSE config.place,
                              plan |-> IF config = NoConfig THEN Null
                                       ELSE PlanOf(config.model),
                              resp |-> NoState, result |-> "none"]
                    /\ step = "delete" <=> tfstate # NoState /\ step # "update"
                    /\ replace => step = "delete"
                    /\ config = NoConfig => step = "delete" /\ ~replace
<1>1. /\ op.step = "refreshed"
      /\ UNCHANGED <<kind, docs, views, tfstate, config, budget>>
  BY DEF Plan
<1> DEFINE started(step, replace) ==
             op' = [step |-> step, replace |-> replace,
                    place |-> IF config = NoConfig THEN NoPlace
                              ELSE config.place,
                    plan |-> IF config = NoConfig THEN Null
                             ELSE PlanOf(config.model),
                    resp |-> NoState, result |-> "none"]
<1>2. CASE tfstate = NoState
  <2>1. CASE config = NoConfig
    BY <1>1, <1>2, <2>1 DEF Plan
  <2>2. CASE config # NoConfig
    <3>1. started("create", FALSE)
      BY <1>2, <2>2 DEF Plan, Start, IdleOp
    <3> QED
      BY <1>1, <1>2, <2>2, <3>1
  <2> QED
    BY <2>1, <2>2
<1>3. CASE tfstate # NoState
  <2>1. CASE config = NoConfig
    <3>1. started("delete", FALSE)
      BY <1>3, <2>1 DEF Plan, Start, IdleOp
    <3> QED
      BY <1>1, <1>3, <2>1, <3>1
  <2>2. CASE config # NoConfig /\ NeedsReplace
    <3>1. started("delete", TRUE)
      BY <1>3, <2>2 DEF Plan, Start, IdleOp
    <3> QED
      BY <1>1, <1>3, <2>2, <3>1
  <2>3. CASE config # NoConfig /\ ~NeedsReplace
    <3>1. CASE /\ config.place = tfstate.place
               /\ PlanOf(config.model) = tfstate.model
      BY <1>1, <1>3, <2>3, <3>1 DEF Plan
    <3>2. CASE ~ /\ config.place = tfstate.place
                 /\ PlanOf(config.model) = tfstate.model
      <4>1. started("update", FALSE)
        BY <1>3, <2>3, <3>2 DEF Plan, Start, IdleOp
      <4> QED
        BY <1>1, <1>3, <2>3, <4>1
    <3> QED
      BY <3>1, <3>2
  <2> QED
    BY <2>1, <2>2, <2>3
<1> QED
  BY <1>2, <1>3

LEMMA PlanKeeps ==
    ASSUME IInv, Plan
    PROVE  IInv'
<1>1. UNCHANGED <<kind, docs, views, tfstate, config, budget>>
  BY PlanEnds
<1>2. CASE op' = IdleOp("ok")
  BY <1>1, <1>2, EndsOK DEF IInv, StoreOK, StateOK, Results
<1>3. ASSUME NEW step \in {"create", "update", "delete"},
             NEW replace \in BOOLEAN,
             op' = [step |-> step, replace |-> replace,
                    place |-> IF config = NoConfig THEN NoPlace
                              ELSE config.place,
                    plan |-> IF config = NoConfig THEN Null
                             ELSE PlanOf(config.model),
                    resp |-> NoState, result |-> "none"],
             step = "delete" <=> tfstate # NoState /\ step # "update",
             replace => step = "delete",
             config = NoConfig => step = "delete" /\ ~replace
      PROVE  IInv'
  <2>1. config # NoConfig => /\ config.place \in Places
                             /\ PlanOf(config.model) \in PlannedModels
    BY DEF IInv, Configurations, PlannedModels
  <2>2. /\ op'.step = step /\ op'.replace = replace /\ op'.resp = NoState
        /\ op'.result = "none"
        /\ op'.place = IF config = NoConfig THEN NoPlace ELSE config.place
        /\ op'.plan = IF config = NoConfig THEN Null ELSE PlanOf(config.model)
    BY <1>3
  <2>3. PlannedModels' = PlannedModels
    BY <1>1, SameKind
  <2>4. op' = [step |-> op'.step, replace |-> op'.replace,
               place |-> op'.place, plan |-> op'.plan, resp |-> op'.resp,
               result |-> op'.result]
    BY <1>3
  <2>5. /\ op'.step \in Steps /\ op'.replace \in BOOLEAN
        /\ op'.result \in Results
        /\ op'.place \in Places \cup {NoPlace}
        /\ op'.replace => op'.step \in {"delete", "create", "wait"}
    BY <1>3, <2>1, <2>2 DEF Steps, Results
  <2>6. op'.step \in {"create", "update", "wait"} \/ op'.replace
          => op'.place \in Places /\ op'.plan \in PlannedModels
    BY <1>3, <2>1, <2>2
  <2>7. op'.step # "wait"
    BY <1>3, <2>2
  <2>8. OpOK'
    BY <2>2, <2>3, <2>4, <2>5, <2>6, <2>7 DEF OpOK
  <2>9. StateIsSeen' /\ DeletesSomething'
    BY <1>1, <1>3, <2>2 DEF StateIsSeen, DeletesSomething
  <2> QED
    BY <1>1, <2>8, <2>9, SameKind DEF IInv, StoreOK, StateOK, IsResource
<1> QED
  BY <1>2, <1>3, PlanEnds

\* What a put of a planned model leaves in the store is one of the documents.
LEMMA StoredIsDocument ==
    ASSUME NEW plan \in PlannedModels
    PROVE  Stored(Expand(plan)) \subseteq Documents
BY DEF PlannedModels, Documents

\* A put that is answered is noted and waited for; one that is refused, fails
\* or is answered by an error nobody sees ends the run.
LEMMA PutsEnd ==
    ASSUME IInv, Puts
    PROVE  /\ op.step \in {"create", "update"}
           /\ UNCHANGED <<kind, views, tfstate, config>>
           /\ \/ docs' = docs
              \/ \E doc \in Stored(Expand(op.plan)) :
                    docs' = [docs EXCEPT ![op.place] = doc]
           /\ budget' = budget \/ Charge("faults")
           /\ op' = IdleOp("error") \/ Acknowledged
<1>1. op.step \in {"create", "update"} /\ Put
  BY DEF Puts, VersioningCreate, PolicyCreate, LifecycleCreate, InventoryCreate,
         VersioningUpdate, PolicyUpdate, LifecycleUpdate, InventoryUpdate
<1> QED
  BY <1>1 DEF Put, PutAccepted

LEMMA PutsKeep ==
    ASSUME IInv, Puts
    PROVE  IInv'
<1>1. /\ op.step \in {"create", "update"}
      /\ UNCHANGED <<kind, views, tfstate, config>>
  BY PutsEnd
<1>2. op.place \in Places /\ op.plan \in PlannedModels
  BY <1>1 DEF IInv, OpOK
<1>3. docs' \in [Places -> Documents]
  BY <1>2, PutsEnd, StoredIsDocument DEF IInv, StoreOK
<1>4. budget' \in [faults : 0..MaxFaults, edits : 0..MaxEdits]
  BY PutsEnd, ChargeOK DEF IInv
<1>5. CASE op' = IdleOp("error")
  BY <1>1, <1>3, <1>4, <1>5, EndsOK DEF IInv, StoreOK, StateOK, Results
<1>6. CASE Acknowledged
  <2> DEFINE answer == [place |-> op.place, model |-> op.plan,
                        tainted |-> op.step = "create"]
  <2>1. op' = [step |-> "wait", replace |-> op.replace, place |-> op.place,
               plan |-> op.plan, resp |-> answer, result |-> op.result]
    BY <1>6 DEF Acknowledged, IInv, OpOK
  <2>2. /\ answer.place = op.place /\ answer.model = op.plan
        /\ answer.tainted \in BOOLEAN
        /\ answer = [place |-> answer.place, model |-> answer.model,
                     tainted |-> answer.tainted]
    OBVIOUS
  <2>3. IsResource(answer) /\ answer # NoState
    <3> HIDE DEF answer
    <3>1. IsResource(answer)
      BY <1>2, <2>2 DEF IsResource
    <3> QED
      BY <3>1, ResourceIsState
  <2> HIDE DEF answer
  <2>4. /\ op'.step = "wait" /\ op'.replace = op.replace
        /\ op'.place = op.place /\ op'.plan = op.plan /\ op'.resp = answer
        /\ op'.result = op.result
        /\ op' = [step |-> op'.step, replace |-> op'.replace,
                  place |-> op'.place, plan |-> op'.plan, resp |-> op'.resp,
                  result |-> op'.result]
    BY <2>1
  <2>5. IsResource(op.resp)'
    BY <2>3, <2>4 DEF IsResource
  <2>6. PlannedModels' = PlannedModels
    BY <1>1, SameKind
  <2>7. OpOK'
    BY <1>1, <1>2, <2>2, <2>3, <2>4, <2>5, <2>6 DEF OpOK, IInv, Steps
  <2>8. StateIsSeen' /\ DeletesSomething'
    BY <2>4 DEF StateIsSeen, DeletesSomething
  <2> QED
    BY <1>1, <1>3, <1>4, <2>7, <2>8, SameKind
       DEF IInv, StoreOK, StateOK, IsResource
<1> QED
  BY <1>5, <1>6, PutsEnd

\* A wait is over when what is seen is what was put, as far as the poll
\* compares it, and the model is what that is read back into.
WaitedFor(model) ==
    LET seen == views[op.place]
    IN /\ kind = "versioning" => seen = op.plan /\ model = op.plan
       /\ kind = "policy" =>
             /\ seen \notin NoDocument /\ SamePolicy(op.plan, seen)
             /\ Readable(op.plan) /\ Readable(seen)
             /\ model = op.plan
       /\ kind = "lifecycle" =>
             /\ seen \notin NoDocument
             /\ model = FlattenLifecycleRules(seen, op.plan)
       /\ kind = "inventory" =>
             /\ seen \notin NoDocument
             /\ seen = ExpandInventoryConfiguration(op.plan)
             /\ model = FlattenInventoryConfiguration(seen)

\* A wait ends with the document seen, with an error that leaves in the state
\* what was put, or with the end of the provider.
LEMMA WaitsEnd ==
    ASSUME IInv, Waits
    PROVE  /\ op.step = "wait"
           /\ UNCHANGED <<kind, docs, views, config>>
           /\ budget' = budget \/ Charge("faults")
           /\ \/ Finish(op.resp, "error")
              \/ Finish(tfstate, "panic")
              \/ \E model : WaitedFor(model) /\ WaitDone(model)
<1>1. CASE VersioningWait
  BY <1>1 DEF VersioningWait, Awaiting, VersioningMatches, WaitedFor
<1>2. CASE PolicyWait
  BY <1>2 DEF PolicyWait, Awaiting, CannotUnmarshal, PolicyMatches, WaitedFor
<1>3. CASE LifecycleWait
  BY <1>3 DEF LifecycleWait, Awaiting, LifecycleMatches, WaitedFor, Flatten
<1>4. CASE InventoryWait
  BY <1>4 DEF InventoryWait, Awaiting, InventoryMatches, WaitedFor, Flatten,
              EqInventoryConfiguration, Expand
<1>5. CASE WaitFails
  BY <1>5 DEF WaitFails
<1> QED
  BY <1>1, <1>2, <1>3, <1>4, <1>5 DEF Waits

LEMMA WaitDoneOutcome ==
    ASSUME IInv, op.step = "wait", NEW model, WaitDone(model)
    PROVE  \E result \in {"ok", "inconsistent"} :
              /\ result = "ok" <=> model = op.plan
              /\ op' = IdleOp(result)
              /\ IsResource(tfstate')
              /\ tfstate'.place = op.place /\ tfstate'.model = model
<1>1. IsResource(op.resp) /\ op.resp.place = op.place
  BY DEF IInv, OpOK
<1>2. op.resp = [place |-> op.resp.place, model |-> op.resp.model,
                 tainted |-> op.resp.tainted]
      /\ op.resp.place \in Places /\ op.resp.tainted \in BOOLEAN
  BY <1>1 DEF IsResource
<1> DEFINE result == IF model = op.plan THEN "ok" ELSE "inconsistent"
           tainted == op.resp.tainted /\ result # "ok"
<1>3. op' = IdleOp(result)
  BY DEF WaitDone, Finish
<1>4. tfstate' = [op.resp EXCEPT !.model = model, !.tainted = @ /\ result # "ok"]
  BY DEF WaitDone, Finish
<1>5. tfstate' = [place |-> op.resp.place, model |-> model, tainted |-> tainted]
  BY <1>2, <1>4
<1>6. tainted \in BOOLEAN
  BY <1>2
<1> HIDE DEF tainted
<1>7. IsResource(tfstate') /\ tfstate'.place = op.place /\ tfstate'.model = model
  BY <1>1, <1>2, <1>5, <1>6 DEF IsResource
<1> QED
  BY <1>3, <1>7

LEMMA WaitsKeep ==
    ASSUME IInv, Waits
    PROVE  IInv'
<1>1. /\ op.step = "wait"
      /\ UNCHANGED <<kind, docs, views, config>>
  BY WaitsEnd
<1>2. budget' \in [faults : 0..MaxFaults, edits : 0..MaxEdits]
  BY WaitsEnd, ChargeOK DEF IInv
<1>3. \E result \in Results :
         op' = IdleOp(result) /\ (tfstate' = NoState \/ IsResource(tfstate'))
  <2>1. CASE Finish(op.resp, "error")
    BY <1>1, <2>1 DEF Finish, IInv, OpOK, Results
  <2>2. CASE Finish(tfstate, "panic")
    BY <2>2 DEF Finish, IInv, StateOK, Results
  <2>3. CASE \E model : WaitedFor(model) /\ WaitDone(model)
    BY <1>1, <2>3, WaitDoneOutcome DEF Results
  <2> QED
    BY <2>1, <2>2, <2>3, WaitsEnd
<1> QED
  BY <1>1, <1>2, <1>3, EndsOK DEF IInv, StoreOK

\* A Delete leaves nothing, or a suspended versioning, or fails.
LEMMA DeletesEnd ==
    ASSUME IInv, Deletes
    PROVE  /\ op.step = "delete"
           /\ UNCHANGED <<kind, views, config>>
           /\ docs' \in [Places -> Documents]
           /\ budget' = budget \/ Charge("faults")
           /\ \/ Deleted
              \/ \E result \in {"error", "panic"} : Finish(tfstate, result)
<1>1. \E left, failures :
         /\ left \in Documents /\ failures \subseteq {"error", "panic"}
         /\ Remove(left, failures)
  <2>1. kind = "versioning" => [status |-> "Suspended"] \in Documents
    BY DEF Documents
  <2>2. Absent \in Documents
    BY DEF Documents, NoDocument
  <2> QED
    BY <2>1, <2>2
       DEF Deletes, VersioningDelete, PolicyDelete, LifecycleDelete,
           InventoryDelete
<1>2. PICK left, failures :
         /\ left \in Documents /\ failures \subseteq {"error", "panic"}
         /\ Remove(left, failures)
  BY <1>1
<1>3. \/ docs' = docs
      \/ docs' = [docs EXCEPT ![tfstate.place] = IF @ = Gone THEN Gone ELSE left]
  BY <1>2 DEF Remove
<1>4. docs \in [Places -> Documents] /\ Gone \in Documents
  BY DEF IInv, StoreOK, Documents, NoDocument
<1>5. docs' \in [Places -> Documents]
  BY <1>2, <1>3, <1>4
<1> QED
  BY <1>2, <1>5 DEF Remove

LEMMA DeletesKeep ==
    ASSUME IInv, Deletes
    PROVE  IInv'
<1>1. /\ op.step = "delete"
      /\ UNCHANGED <<kind, views, config>>
      /\ docs' \in [Places -> Documents]
  BY DeletesEnd
<1>2. budget' \in [faults : 0..MaxFaults, edits : 0..MaxEdits]
  BY DeletesEnd, ChargeOK DEF IInv
<1>3. CASE \E result \in {"error", "panic"} : Finish(tfstate, result)
  BY <1>1, <1>2, <1>3, EndsOK DEF Finish, IInv, StoreOK, StateOK, Results
<1>4. CASE Deleted /\ ~op.replace
  BY <1>1, <1>2, <1>4, EndsOK DEF Deleted, IInv, StoreOK, Results
<1>5. CASE Deleted /\ op.replace
  <2>1. op' = [step |-> "create", replace |-> op.replace, place |-> op.place,
               plan |-> op.plan, resp |-> op.resp, result |-> op.result]
    BY <1>5 DEF Deleted, IInv, OpOK
  <2>2. /\ op'.step = "create" /\ op'.replace = op.replace
        /\ op'.place = op.place /\ op'.plan = op.plan /\ op'.resp = op.resp
        /\ op'.result = op.result
        /\ op' = [step |-> op'.step, replace |-> op'.replace,
                  place |-> op'.place, plan |-> op'.plan, resp |-> op'.resp,
                  result |-> op'.result]
    BY <2>1
  <2>3. op.place \in Places /\ op.plan \in PlannedModels
    BY <1>5 DEF IInv, OpOK
  <2>4. PlannedModels' = PlannedModels
    BY <1>1, SameKind
  <2>5. OpOK'
    BY <1>1, <2>2, <2>3, <2>4 DEF OpOK, IInv, Steps, IsResource
  <2>6. StateIsSeen' /\ DeletesSomething'
    BY <2>2 DEF StateIsSeen, DeletesSomething
  <2>7. StateOK'
    BY <1>5 DEF Deleted, StateOK
  <2> QED
    BY <1>1, <1>2, <2>5, <2>6, <2>7, SameKind DEF IInv, StoreOK
<1> QED
  BY <1>3, <1>4, <1>5, DeletesEnd

LEMMA ImportsKeep ==
    ASSUME IInv, Imports
    PROVE  IInv'
<1>1. /\ UNCHANGED <<kind, docs, views, config, budget>>
      /\ config # NoConfig /\ op' = IdleOp("none")
      /\ \E model : tfstate' = [place |-> config.place, model |-> model,
                                tainted |-> FALSE]
  BY DEF Imports, VersioningImport, PolicyImport, LifecycleImport,
         InventoryImport, Import, Finish
<1>2. config.place \in Places
  BY <1>1 DEF IInv, Configurations
<1>3. PICK model : tfstate' = [place |-> config.place, model |-> model,
                               tainted |-> FALSE]
  BY <1>1
<1>4. IsResource(tfstate')
  BY <1>2, <1>3 DEF IsResource
<1> QED
  BY <1>1, <1>4, EndsOK DEF IInv, StoreOK, Results

LEMMA CrashKeeps ==
    ASSUME IInv, Crash
    PROVE  IInv'
BY EndsOK, ChargeOK DEF Crash, Finish, IInv, StoreOK, StateOK, Results

\* The environment between two steps of a run; none of it comes between a
\* refresh and its plan.
LEMMA EnvironmentKeeps ==
    ASSUME IInv, EditConfig \/ \E p \in Places : Propagate(p) \/ OutOfBand(p)
    PROVE  IInv'
<1>1. /\ UNCHANGED <<kind, tfstate, op>>
      /\ op.step # "refreshed"
  BY DEF EditConfig, Propagate, OutOfBand
<1>2. budget' \in [faults : 0..MaxFaults, edits : 0..MaxEdits]
  BY ChargeOK DEF EditConfig, Propagate, OutOfBand, IInv
<1>3. config' \in Configurations
  BY DEF EditConfig, Propagate, OutOfBand, IInv, Configurations
<1>4. docs' \in [Places -> Documents] /\ views' \in [Places -> Documents]
  <2>1. CASE EditConfig
    BY <2>1 DEF EditConfig, IInv, StoreOK
  <2>2. ASSUME NEW p \in Places, Propagate(p)
        PROVE  docs' \in [Places -> Documents] /\ views' \in [Places -> Documents]
    BY <2>2 DEF Propagate, IInv, StoreOK
  <2>3. ASSUME NEW p \in Places, OutOfBand(p)
        PROVE  docs' \in [Places -> Documents] /\ views' \in [Places -> Documents]
    <3>1. views' = views
      BY <2>3 DEF OutOfBand
    <3>2. \E doc \in Documents : docs' = [docs EXCEPT ![p] = doc]
      <4>1. /\ Absent \in Documents /\ Gone \in Documents
            /\ docs[p] \in Documents
        BY DEF Documents, NoDocument, IInv, StoreOK
      <4>2. \A m \in Models[kind] : Stored(Expand(PlanOf(m))) \subseteq Documents
        BY DEF Documents
      <4> QED
        BY <2>3, <4>1, <4>2 DEF OutOfBand
    <3> QED
      BY <3>1, <3>2 DEF IInv, StoreOK
  <2> QED
    BY <2>1, <2>2, <2>3
<1>5. StateOK' /\ OpOK'
  BY <1>1, SameKind DEF IInv, StateOK, OpOK, IsResource
<1>6. StateIsSeen' /\ DeletesSomething'
  BY <1>1 DEF IInv, StateIsSeen, DeletesSomething
<1> QED
  BY <1>1, <1>2, <1>3, <1>4, <1>5, <1>6, SameKind DEF IInv, StoreOK

-----------------------------------------------------------------------------
(* Lemmas: what is read says what was written *)

\* What is enough for a document to say what a model asks for, or to differ from
\* it in overlooked parts only.
LEMMA SaysByKind ==
    ASSUME kind \in Kinds, NEW doc, NEW model,
           kind = "versioning" => \/ doc \notin NoDocument /\ doc = model
                                  \/ doc = Absent /\ model = NoStatus,
           kind # "versioning" => doc \notin NoDocument,
           kind = "policy" => SameMeaning(Heeded(model), Heeded(doc)),
           kind = "lifecycle" => StoredFrom(doc, model),
           kind = "inventory"
             => doc = ExpandInventoryConfiguration(PlanOf(model))
    PROVE  Says(doc, model) \/ Overlooks(doc, model)
<1>1. kind \in {"versioning", "policy", "lifecycle", "inventory"}
  BY KindAssumption DEF AllKinds
<1>2. CASE kind = "versioning"
  BY <1>2 DEF Says, Expand, PlanOf
<1>3. CASE kind = "policy"
  BY <1>3 DEF Says, Overlooks
<1>4. CASE kind = "lifecycle"
  BY <1>4 DEF Says, Expand, StoredFrom
<1>5. CASE kind = "inventory"
  BY <1>5 DEF Says, Expand
<1> QED
  BY <1>1, <1>2, <1>3, <1>4, <1>5

\* An inventory that is planned has its "enabled", and is planned as it is.
LEMMA PlannedInventories ==
    ASSUME kind = "inventory", NEW m, InventoryWellFormed(m)
    PROVE  /\ PlannedInventory(PlanOf(m))
           /\ PlanOf(PlanOf(m)) = PlanOf(m)
<1>1. m = [versions |-> m.versions, enabled |-> m.enabled,
           prefix |-> m.prefix, fields |-> m.fields]
  BY DEF InventoryWellFormed
<1> DEFINE enabled == IF m.enabled = Null THEN TRUE ELSE m.enabled
           plan == [versions |-> m.versions, enabled |-> enabled,
                    prefix |-> m.prefix, fields |-> m.fields]
<1>2. PlanOf(m) = plan
  BY <1>1 DEF PlanOf
<1>3. IsKnown(enabled) /\ enabled # Null
  BY NullAssumption DEF InventoryWellFormed, IsKnown
<1> HIDE DEF enabled
<1>4. /\ plan.versions = m.versions /\ plan.enabled = enabled
      /\ plan.prefix = m.prefix /\ plan.fields = m.fields
      /\ plan = [versions |-> plan.versions, enabled |-> plan.enabled,
                 prefix |-> plan.prefix, fields |-> plan.fields]
  OBVIOUS
<1> HIDE DEF plan
<1>5. PlannedInventory(plan)
  BY <1>3, <1>4 DEF PlannedInventory, InventoryWellFormed
<1>6. PlanOf(plan) = [versions |-> plan.versions,
                      enabled |-> IF plan.enabled = Null THEN TRUE
                                  ELSE plan.enabled,
                      prefix |-> plan.prefix, fields |-> plan.fields]
  BY <1>4 DEF PlanOf
<1>7. PlanOf(plan) = plan
  BY <1>3, <1>4, <1>6
<1> QED
  BY <1>2, <1>5, <1>7

LEMMA PlannedShape ==
    ASSUME kind \in Kinds, NEW plan \in PlannedModels
    PROVE  /\ kind = "versioning" => plan \notin NoDocument
           /\ kind = "policy" => PolicyWellFormed(plan)
           /\ kind = "lifecycle" => RulesWellFormed(plan)
           /\ kind = "inventory" => PlannedInventory(plan) /\ PlanOf(plan) = plan
<1>1. PICK m \in Models[kind] : plan = PlanOf(m)
  BY DEF PlannedModels
<1>2. CASE kind \in {"versioning", "policy"}
  BY <1>1, <1>2, ModelAssumption DEF PlanOf, NoDocument
<1>3. CASE kind = "lifecycle"
  BY <1>1, <1>3, ModelAssumption DEF PlanOf
<1>4. CASE kind = "inventory"
  BY <1>1, <1>4, ModelAssumption, PlannedInventories
<1> QED
  BY <1>2, <1>3, <1>4

LEMMA DocumentShape ==
    ASSUME kind \in Kinds, NEW doc \in Documents, doc \notin NoDocument
    PROVE  /\ kind = "policy" => PolicyWellFormed(doc)
           /\ kind = "lifecycle" =>
                 \E rules : RulesWellFormed(rules) /\ StoredFrom(doc, rules)
           /\ kind = "inventory" =>
                 \E plan : /\ PlannedInventory(plan)
                           /\ doc = ExpandInventoryConfiguration(plan)
<1>1. kind # "versioning"
        => \E m \in Models[kind] : doc \in Stored(Expand(PlanOf(m)))
  BY DEF Documents
<1>2. CASE kind = "lifecycle"
  <2>1. PICK m \in Models["lifecycle"] : doc \in Stored(Expand(PlanOf(m)))
    BY <1>1, <1>2
  <2>2. RulesWellFormed(m) /\ StoredFrom(doc, m)
    BY <1>2, <2>1, ModelAssumption DEF Stored, Expand, PlanOf, StoredFrom
  <2> QED
    BY <1>2, <2>2
<1>3. CASE kind = "inventory"
  <2>1. PICK m \in Models["inventory"] : doc \in Stored(Expand(PlanOf(m)))
    BY <1>1, <1>3
  <2>2. doc = ExpandInventoryConfiguration(PlanOf(m))
    BY <1>3, <2>1 DEF Stored, Expand
  <2>3. PlannedInventory(PlanOf(m))
    BY <1>3, <2>1, ModelAssumption, PlannedInventories
  <2> QED
    BY <1>3, <2>2, <2>3
<1>4. CASE kind = "policy"
  <2>1. PICK m \in Models["policy"] : doc \in {m, Canonical(m)}
    BY <1>1, <1>4 DEF Stored, Expand, PlanOf
  <2>2. PolicyWellFormed(m)
    BY ModelAssumption
  <2> QED
    BY <1>4, <2>1, <2>2, CanonicalWellFormed
<1> QED
  BY <1>2, <1>3, <1>4

\* A document that is read back into what was planned says what was planned.
LEMMA ReadSays ==
    ASSUME kind \in Kinds, NEW doc \in Documents, NEW plan \in PlannedModels,
           IsReadFrom(plan, doc)
    PROVE  /\ kind = "versioning" => \/ doc \notin NoDocument /\ doc = plan
                                     \/ doc = Absent /\ plan = NoStatus
           /\ kind # "versioning" => doc \notin NoDocument
           /\ kind = "policy" => SameMeaning(Heeded(plan), Heeded(doc))
           /\ kind = "lifecycle" => StoredFrom(doc, plan)
           /\ kind = "inventory" => doc = ExpandInventoryConfiguration(plan)
<1>1. kind \in {"versioning", "policy", "lifecycle", "inventory"}
  BY KindAssumption DEF AllKinds
<1>2. CASE kind = "versioning"
  BY <1>2, PlannedShape DEF IsReadFrom, NoDocument
<1>3. CASE kind = "policy"
  BY <1>3, PlannedShape, DocumentShape, SamePolicyMeaning DEF IsReadFrom
<1>4. CASE kind = "lifecycle"
  <2>1. doc \notin NoDocument /\ \E old : plan = FlattenLifecycleRules(doc, old)
    BY <1>4 DEF IsReadFrom
  <2> QED
    BY <1>4, <2>1, DocumentShape, RulesComeBack
<1>5. CASE kind = "inventory"
  <2>1. doc \notin NoDocument /\ plan = FlattenInventoryConfiguration(doc)
    BY <1>5 DEF IsReadFrom
  <2>2. PICK written : /\ PlannedInventory(written)
                       /\ doc = ExpandInventoryConfiguration(written)
    BY <1>5, <2>1, DocumentShape
  <2>3. ExpandInventoryConfiguration(plan) = doc
    BY <2>1, <2>2, InventoryComesBack
  <2> QED
    BY <1>5, <2>1, <2>3
<1> QED
  BY <1>1, <1>2, <1>3, <1>4, <1>5

-----------------------------------------------------------------------------
(* Theorems *)

\* IInv is inductive.
THEOREM Invariance == Spec => []IInv
<1>1. Init => IInv
  <2> SUFFICES ASSUME Init  PROVE IInv
    OBVIOUS
  <2>1. /\ kind \in Kinds /\ config \in Configurations
        /\ docs = [p \in Places |-> Absent] /\ views = docs
        /\ tfstate = NoState
    BY DEF Init, Configurations
  <2>2. StoreOK /\ StateOK
    BY <2>1 DEF StoreOK, StateOK, Documents, NoDocument
  <2>3. op = [step |-> "idle", replace |-> FALSE, place |-> NoPlace,
              plan |-> Null, resp |-> NoState, result |-> "none"]
    BY DEF Init, IdleOp
  <2>4. OpOK /\ StateIsSeen /\ DeletesSomething
    BY <2>3 DEF OpOK, StateIsSeen, DeletesSomething, Steps, Results
  <2>5. budget \in [faults : 0..MaxFaults, edits : 0..MaxEdits]
    BY BudgetAssumption DEF Init
  <2> QED
    BY <2>1, <2>2, <2>4, <2>5 DEF IInv
<1>2. IInv /\ [Next]_vars => IInv'
  <2> SUFFICES ASSUME IInv, [Next]_vars  PROVE IInv'
    OBVIOUS
  <2>1. CASE Next
    BY <2>1, ReadsKeep, PlanKeeps, PutsKeep, WaitsKeep, DeletesKeep, ImportsKeep,
       CrashKeeps, EnvironmentKeeps DEF Next
  <2>2. CASE UNCHANGED vars
    <3>1. UNCHANGED <<kind, docs, views, tfstate, config, op, budget>>
      BY <2>2 DEF vars
    <3>2. OpOK' /\ StateOK'
      BY <3>1, SameKind DEF IInv, OpOK, StateOK, IsResource
    <3>3. StateIsSeen' /\ DeletesSomething'
      BY <3>1 DEF IInv, StateIsSeen, DeletesSomething, IsReadFrom
    <3> QED
      BY <3>1, <3>2, <3>3, SameKind DEF IInv, StoreOK
  <2> QED
    BY <2>1, <2>2
<1> QED
  BY <1>1, <1>2, PTL DEF Spec

\* While a run is in flight only a Wait or a crash takes it from its wait, and
\* only a Plan from its refresh.
LEMMA WaitLeft ==
    ASSUME IInv, [Next]_vars, op.step = "wait", op'.result \notin {"none"}
    PROVE  Waits
<1>1. op.result = "none"
  BY DEF IInv, OpOK
<1>2. ~(op' = op) /\ ~Crash
  BY <1>1, IdleIsOK DEF Crash, Finish, Results
<1>3. ~Reads /\ ~Imports
  BY DEF Reads, VersioningRead, PolicyRead, LifecycleRead, InventoryRead, Refresh,
         Imports, VersioningImport, PolicyImport, LifecycleImport,
         InventoryImport, Import
<1>4. ~Plan /\ ~Puts /\ ~Deletes
  BY PutsEnd, DeletesEnd DEF Plan
<1> QED
  BY <1>2, <1>3, <1>4 DEF Next, EditConfig, Propagate, OutOfBand, vars

LEMMA RefreshLeft ==
    ASSUME IInv, [Next]_vars, op.step = "refreshed", op'.result \notin {"none"}
    PROVE  Plan
<1>1. op.result = "none"
  BY DEF IInv, OpOK
<1>2. ~(op' = op) /\ ~Crash
  BY <1>1 DEF Crash
<1>3. ~Reads /\ ~Imports
  BY DEF Reads, VersioningRead, PolicyRead, LifecycleRead, InventoryRead, Refresh,
         Imports, VersioningImport, PolicyImport, LifecycleImport,
         InventoryImport, Import
<1>4. ~Waits /\ ~Puts /\ ~Deletes
  BY PutsEnd, DeletesEnd, WaitsEnd
<1> QED
  BY <1>2, <1>3, <1>4 DEF Next, EditConfig, Propagate, OutOfBand, vars

\* TypeOK: the types of the variables, the documents that can be in the store
\* among them.
THEOREM TypeCorrect == Spec => []TypeOK
<1>1. IInv => TypeOK
  <2> SUFFICES ASSUME IInv  PROVE TypeOK
    OBVIOUS
  <2>1. \A p \in Places : docs[p] \in Documents /\ views[p] \in Documents
    BY DEF IInv, StoreOK
  <2>2. \A s \in {tfstate, op.resp} :
           s # NoState => s.place \in Places /\ s.tainted \in BOOLEAN
    BY DEF IInv, StateOK, OpOK, IsResource
  <2> QED
    BY <2>1, <2>2 DEF TypeOK, IInv, OpOK, Configurations
<1> QED
  BY <1>1, Invariance, PTL

\* A wait that fails after its put was answered leaves in the state the place
\* and the model that were put: Create and Update set the state before they
\* wait.
THEOREM StateIsNotBehind == Spec => StateNotBehind
<1>1. ASSUME IInv, [Next]_vars, op.step = "wait", op'.result = "error"
      PROVE  /\ tfstate' # NoState
             /\ tfstate'.place = op.place /\ tfstate'.model = op.plan
  <2>1. Waits
    BY <1>1, WaitLeft
  <2>2. ~Finish(tfstate, "panic")
    BY <1>1, IdleIsOK DEF Finish, Results
  <2>3. ~\E model : WaitDone(model)
    <3> SUFFICES ASSUME NEW model, WaitDone(model)  PROVE FALSE
      OBVIOUS
    <3>1. PICK result \in {"ok", "inconsistent"} : op' = IdleOp(result)
      BY <1>1, WaitDoneOutcome
    <3>2. op'.result = result
      BY <3>1, IdleIsOK DEF Results
    <3> QED
      BY <1>1, <3>2
  <2>4. Finish(op.resp, "error")
    BY <1>1, <2>1, <2>2, <2>3, WaitsEnd
  <2> QED
    BY <1>1, <2>4 DEF Finish, IInv, OpOK
<1>2. IInv /\ [Next]_vars
        => [op.step = "wait" /\ op'.result = "error"
              => /\ tfstate' # NoState
                 /\ tfstate'.place = op.place /\ tfstate'.model = op.plan]_vars
  BY <1>1
<1> QED
  BY <1>2, Invariance, PTL DEF Spec, StateNotBehind

\* A Create or an Update that ends without an error was read back into what was
\* planned, and what is read back into the plan says what was planned: readers
\* of the bucket see what was asked for, whatever the poll left uncompared.  A
\* policy that Unmarshal makes the same of means the same to the API, but for
\* negated elements and a Principal that is a string other than "*".
THEOREM AppliedIsSeen == Spec => AppliedIsVisible
<1>1. ASSUME IInv, [Next]_vars, op.step = "wait", op'.result = "ok"
      PROVE  Says(views[op.place], op.plan) \/ Overlooks(views[op.place], op.plan)
  <2> DEFINE seen == views[op.place]
  <2>1. op.plan \in PlannedModels /\ seen \in Documents /\ kind \in Kinds
    BY <1>1 DEF IInv, OpOK, StoreOK
  <2>2. Waits
    BY <1>1, WaitLeft
  <2>3. ~Finish(tfstate, "panic") /\ ~Finish(op.resp, "error")
    BY <1>1, IdleIsOK DEF Finish, Results
  <2>4. PICK model : WaitedFor(model) /\ WaitDone(model)
    BY <1>1, <2>2, <2>3, WaitsEnd
  <2>5. model = op.plan
    <3>1. PICK result \in {"ok", "inconsistent"} :
             (result = "ok" <=> model = op.plan) /\ op' = IdleOp(result)
      BY <1>1, <2>4, WaitDoneOutcome
    <3>2. op'.result = result
      BY <3>1, IdleIsOK DEF Results
    <3> QED
      BY <1>1, <3>1, <3>2
  <2>6. IsReadFrom(op.plan, seen)
    BY <2>1, <2>4, <2>5, PlannedShape DEF WaitedFor, IsReadFrom, NoDocument
  <2>7. kind = "inventory" => PlanOf(op.plan) = op.plan
    BY <2>1, PlannedShape
  <2> QED
    BY <2>1, <2>6, <2>7, ReadSays, SaysByKind
<1>2. IInv /\ [Next]_vars
        => [op.step = "wait" /\ op'.result = "ok"
              => \/ Says(views[op.place], op.plan)
                 \/ Overlooks(views[op.place], op.plan)]_vars
  BY <1>1
<1> QED
  BY <1>2, Invariance, PTL DEF Spec, AppliedIsVisible

\* A plan without changes compares the configuration with a state that was read
\* from what is seen, so what is seen says what the configuration asks for, the
\* parts of a policy apart that Unmarshal leaves out.
THEOREM NoChangesIsSeen == Spec => NoChangesMeansVisible
<1>1. ASSUME IInv, [Next]_vars, op.step = "refreshed", op'.result = "ok",
             config # NoConfig
      PROVE  \/ Says(views[config.place], config.model)
             \/ Overlooks(views[config.place], config.model)
  <2>1. Plan
    BY <1>1, RefreshLeft
  <2>2. /\ tfstate # NoState /\ config.place = tfstate.place
        /\ PlanOf(config.model) = tfstate.model
    <3>1. ~\E step \in {"create", "update", "delete"}, replace \in BOOLEAN :
              op' = [step |-> step, replace |-> replace,
                     place |-> IF config = NoConfig THEN NoPlace
                               ELSE config.place,
                     plan |-> IF config = NoConfig THEN Null
                              ELSE PlanOf(config.model),
                     resp |-> NoState, result |-> "none"]
      BY <1>1
    <3> QED
      BY <1>1, <2>1, <3>1, PlanEnds
  <2> DEFINE plan == PlanOf(config.model)
             seen == views[config.place]
  <2>3. /\ config.place \in Places /\ config.model \in Models[kind]
        /\ kind \in Kinds /\ seen \in Documents /\ plan \in PlannedModels
    BY <1>1 DEF IInv, Configurations, StoreOK, PlannedModels
  <2>4. IsReadFrom(plan, seen)
    BY <1>1, <2>2 DEF IInv, StateIsSeen
  <2>5. kind # "inventory" => plan = config.model
    BY DEF PlanOf
  <2> HIDE DEF plan, seen
  <2>6. /\ kind = "versioning"
             => \/ seen \notin NoDocument /\ seen = config.model
                \/ seen = Absent /\ config.model = NoStatus
        /\ kind # "versioning" => seen \notin NoDocument
        /\ kind = "policy" => SameMeaning(Heeded(config.model), Heeded(seen))
        /\ kind = "lifecycle" => StoredFrom(seen, config.model)
        /\ kind = "inventory" => seen = ExpandInventoryConfiguration(plan)
    BY <2>3, <2>4, <2>5, ReadSays
  <2> QED
    BY <2>3, <2>6, SaysByKind DEF plan, seen
<1>2. IInv /\ [Next]_vars
        => [op.step = "refreshed" /\ op'.result = "ok" /\ config # NoConfig
              => \/ Says(views[config.place], config.model)
                 \/ Overlooks(views[config.place], config.model)]_vars
  BY <1>1
<1> QED
  BY <1>2, Invariance, PTL DEF Spec, NoChangesMeansVisible

\* What is seen and says what was planned is read back into the plan, but for
\* the configurations listed as lossy: core's "inconsistent result" is answered
\* for no other.
THEOREM InconsistentIsLossy == Spec => InconsistentOnlyIfLossy
<1>1. ASSUME IInv, [Next]_vars, op.step = "wait", op'.result = "inconsistent",
             ~Lossy(op.plan),
             kind = "lifecycle" => Says(views[op.place], op.plan)
      PROVE  FALSE
  <2> DEFINE seen == views[op.place]
  <2>1. op.plan \in PlannedModels /\ kind \in Kinds
    BY <1>1 DEF IInv, OpOK
  <2>2. Waits
    BY <1>1, WaitLeft
  <2>3. ~Finish(tfstate, "panic") /\ ~Finish(op.resp, "error")
    BY <1>1, IdleIsOK DEF Finish, Results
  <2>4. PICK model : WaitedFor(model) /\ WaitDone(model)
    BY <1>1, <2>2, <2>3, WaitsEnd
  <2>5. model # op.plan
    <3>1. PICK result \in {"ok", "inconsistent"} :
             (result = "ok" <=> model = op.plan) /\ op' = IdleOp(result)
      BY <1>1, <2>4, WaitDoneOutcome
    <3>2. op'.result = result
      BY <3>1, IdleIsOK DEF Results
    <3> QED
      BY <1>1, <3>1, <3>2
  <2>6. kind = "lifecycle" \/ kind = "inventory"
    BY <2>1, <2>4, <2>5, KindAssumption DEF WaitedFor, AllKinds
  <2>7. CASE kind = "lifecycle"
    <3>1. StoredFrom(seen, op.plan)
      BY <1>1, <2>7 DEF Says, Expand, StoredFrom
    <3>2. RulesWellFormed(op.plan) /\ ~RulesLossy(op.plan)
      BY <1>1, <2>1, <2>7, PlannedShape DEF Lossy
    <3> QED
      BY <2>4, <2>5, <2>7, <3>1, <3>2, RulesComeBackAsWritten DEF WaitedFor
  <2>8. CASE kind = "inventory"
    <3>1. PlannedInventory(op.plan) /\ ~InventoryLossy(op.plan)
      BY <1>1, <2>1, <2>8, PlannedShape DEF Lossy
    <3> QED
      BY <2>4, <2>5, <2>8, <3>1, InventoryComesBackAsWritten DEF WaitedFor
  <2> QED
    BY <2>6, <2>7, <2>8
<1>2. IInv /\ [Next]_vars
        => [op.step = "wait" /\ op'.result = "inconsistent"
              => \/ Lossy(op.plan)
                 \/ kind = "lifecycle" /\ ~Says(views[op.place], op.plan)]_vars
  BY <1>1
<1> QED
  BY <1>2, Invariance, PTL DEF Spec, InconsistentOnlyIfLossy
=============================================================================
