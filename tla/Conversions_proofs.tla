-------------------------- MODULE Conversions_proofs --------------------------
(***************************************************************************)
(* What the conversions of Cluster, Vpc and Inference preserve on the way  *)
(* from a configuration to a plan, to a request, to the API's object and   *)
(* back, for every configuration that the schemas let through.             *)
(*                                                                         *)
(* For each resource X there are, in this order:                           *)
(*   XSpecOK         what an object of the API is made of                  *)
(*   XCreatedIsSpec, XUpdatedIsSpec                                        *)
(*                   a request makes, and keeps, such an object            *)
(*   XSetTwice       a state set from an object stays when set from it once *)
(*                   more                                                  *)
(*   XAgreement      an answer that is as planned is of an object as asked *)
(*   XComesBack      unless lossy, the answer to a Create is as planned,   *)
(*   XUpdateComesBack  and so is that to an Update                         *)
(***************************************************************************)
EXTENDS Cluster, Vpc, Inference, TLAPS

\* A zero value is known.
LEMMA ZeroIsKnown ==
    /\ IsKnown("") /\ IsKnown({}) /\ IsKnown(<<>>)
    /\ IsKnown(0) /\ IsKnown(TRUE) /\ IsKnown(FALSE)
    /\ \A n \in Int : IsKnown(n)
  <1>1. IsKnown("") /\ IsKnown({}) /\ IsKnown(<<>>)
    BY ZeroAssumption DEF IsKnown
  <1>2. \A v \in Int \cup BOOLEAN : IsKnown(v)
    BY NullAssumption DEF IsKnown
  <1>3. TRUE \in BOOLEAN /\ FALSE \in BOOLEAN /\ 0 \in Int
    OBVIOUS
  <1> HIDE DEF IsKnown
  <1> QED
    BY <1>1, <1>2, <1>3

\* A conversion to uint32 leaves a uint32, and one that already is.
LEMMA Uint32Range ==
    ASSUME NEW n \in Int
    PROVE  /\ Uint32(n) \in 0..(Modulus - 1)
           /\ n \in 0..(Modulus - 1) => Uint32(n) = n
  BY ModulusAssumption, SMT DEF Uint32

-----------------------------------------------------------------------------
(* Capacity claim *)

ClaimSpecOK(s) == s = [name |-> s.name, resources |-> s.resources,
                       instance_count |-> s.instance_count]

LEMMA ClaimCreatedIsSpec ==
    ASSUME NEW plan
    PROVE  ClaimSpecOK(ClaimRequest(plan))
  BY DEF ClaimSpecOK, ClaimRequest

\* An update changes the count, and nothing else, and changes it once.
LEMMA ClaimUpdatedIsSpec ==
    ASSUME NEW s, ClaimSpecOK(s), NEW plan
    PROVE  LET updated == ClaimUpdated(s, ClaimRequest(plan))
           IN /\ ClaimSpecOK(updated)
              /\ updated.name = s.name /\ updated.resources = s.resources
              /\ updated.instance_count = Uint32(plan.instance_count)
              /\ ClaimUpdated(updated, ClaimRequest(plan)) = updated
  <1> DEFINE count == Uint32(plan.instance_count)
  <1>1. ASSUME NEW t, ClaimSpecOK(t)
        PROVE  ClaimUpdated(t, ClaimRequest(plan))
                  = [name |-> t.name, resources |-> t.resources,
                     instance_count |-> count]
    BY <1>1 DEF ClaimSpecOK, ClaimUpdated, ClaimRequest
  <1> HIDE DEF count
  <1>2. ClaimSpecOK([name |-> s.name, resources |-> s.resources,
                     instance_count |-> count])
    BY DEF ClaimSpecOK
  <1> QED
    BY <1>1, <1>2 DEF count

LEMMA ClaimAgreement ==
    ASSUME NEW c, ClaimWellFormed(c), NEW s, ClaimSpecOK(s), NEW model,
           Consistent(c, ClaimSet(model, s))
    PROVE  ClaimAsAsked(c, s)
  <1>1. DOMAIN c = {"name", "resources", "instance_count"}
    BY DEF ClaimWellFormed
  <1>2. \A a \in DOMAIN c : c[a] # Unknown
    BY <1>1, ZeroIsKnown DEF ClaimWellFormed, IsKnown
  <1>3. c.name = s.name /\ c.resources = s.resources
           /\ c.instance_count = s.instance_count
    BY <1>1, <1>2 DEF Consistent, ClaimSet
  <1> QED
    BY <1>3 DEF ClaimAsAsked, ClaimWellFormed, ClaimSpecOK

LEMMA ClaimComesBack ==
    ASSUME NEW c, ClaimWellFormed(c), ~ClaimLossy(c), NEW model, NEW s,
           s.name = c.name, s.resources = c.resources,
           s.instance_count = Uint32(c.instance_count)
    PROVE  Consistent(c, ClaimSet(model, s))
  <1>1. c = ClaimSet(model, s)
    BY DEF ClaimWellFormed, ClaimLossy, ClaimSet
  <1> QED
    BY <1>1 DEF Consistent

-----------------------------------------------------------------------------
(* Deployment *)

\* A null that was preserved is preserved again.
LEMMA PreservedTwice ==
    ASSUME NEW m, NEW got, NEW zero
    PROVE  PreservingNull(PreservingNull(m, got, zero), got, zero)
              = PreservingNull(m, got, zero)
  BY DEF PreservingNull

DeploymentSpecOK(s) ==
    /\ IsKnown(s.version) /\ s.version # ""
    /\ IsKnown(s.engine_config) /\ IsKnown(s.capacity_classes)
    /\ IsKnown(s.priority) /\ IsKnown(s.concurrency)
    /\ s.weight \in 0..(Modulus - 1)

\* What UseStateForUnknown takes from a state, or from none.
DeploymentPriorOK(prior) == /\ prior.version \notin {Null, Bare, ""}
                            /\ prior.weight \in {Unknown} \cup 0..(Modulus - 1)

\* The values of a configuration, attribute by attribute.
LEMMA DeploymentGiven ==
    ASSUME NEW c, DeploymentWellFormed(c)
    PROVE  /\ IsKnown(c.name) /\ IsKnown(c.target) /\ IsKnown(c.engine)
           /\ IsOptional(c.version) /\ c.version # ""
           /\ IsOptional(c.engine_config) /\ IsOptional(c.capacity_classes)
           /\ c.min \in Int /\ c.max \in Int
           /\ c.priority = Null
                 \/ (c.priority \in Int /\ c.priority \in 0..(Modulus - 1))
           /\ c.concurrency = Null \/ c.concurrency \in Int
           /\ c.disabled = Null \/ c.disabled \in BOOLEAN
           /\ c.weight \in {Null, Bare}
                 \/ (c.weight \in Int /\ c.weight \in 0..(Modulus - 1))
  <1>1. \A n \in 0..1000 : n \in Int /\ n \in 0..(Modulus - 1)
    BY ModulusAssumption
  <1>2. /\ c.priority = Null \/ c.priority \in 0..1000
        /\ c.weight \in {Null, Bare} \/ c.weight \in 0..1000
    BY Zenon DEF DeploymentWellFormed
  <1>3. /\ IsKnown(c.name) /\ IsKnown(c.target) /\ IsKnown(c.engine)
        /\ IsOptional(c.version) /\ c.version # ""
        /\ IsOptional(c.engine_config) /\ IsOptional(c.capacity_classes)
        /\ c.min \in Int /\ c.max \in Int
        /\ c.concurrency \in {Null} \cup Int
        /\ c.disabled \in {Null} \cup BOOLEAN
    BY Zenon DEF DeploymentWellFormed
  <1>4. c.priority = Null
           \/ (c.priority \in Int /\ c.priority \in 0..(Modulus - 1))
    BY <1>1, <1>2, Zenon
  <1>5. c.weight \in {Null, Bare}
           \/ (c.weight \in Int /\ c.weight \in 0..(Modulus - 1))
    BY <1>1, <1>2, Zenon
  <1>6. c.concurrency = Null \/ c.concurrency \in Int
    BY <1>3, Zenon
  <1>7. c.disabled = Null \/ c.disabled \in BOOLEAN
    BY <1>3, Zenon
  <1> QED
    BY <1>3, <1>4, <1>5, <1>6, <1>7, Zenon

LEMMA DeploymentPlanned ==
    ASSUME NEW c, DeploymentWellFormed(c), NEW prior
    PROVE  LET plan == DeploymentPlan(prior, c)
           IN /\ DOMAIN plan = {"name", "target", "engine", "version",
                                "engine_config", "min", "max", "priority",
                                "concurrency", "capacity_classes", "disabled",
                                "weight"}
              /\ plan.name = c.name /\ plan.target = c.target
              /\ plan.engine = c.engine
              /\ plan.version = UseStateForUnknown(c.version, prior.version)
              /\ plan.engine_config = c.engine_config
              /\ plan.min = c.min /\ plan.max = c.max
              /\ plan.priority = c.priority
              /\ plan.concurrency = c.concurrency
              /\ plan.capacity_classes = c.capacity_classes
              /\ plan.disabled = IF c.disabled = Null THEN FALSE
                                 ELSE c.disabled
              /\ plan.weight = IF c.weight = Null THEN 0
                               ELSE UseStateForUnknown(c.weight, prior.weight)
  <1> DEFINE version(v) == UseStateForUnknown(v, prior.version)
             disabled(v) == IF v = Null THEN FALSE ELSE v
             weight(v) == IF v = Null THEN 0
                          ELSE UseStateForUnknown(v, prior.weight)
  <1>1. DeploymentPlan(prior, c)
          = [c EXCEPT !.version = version(c.version),
                      !.disabled = disabled(c.disabled),
                      !.weight = weight(c.weight)]
    BY DEF DeploymentPlan
  <1> HIDE DEF version, disabled, weight
  <1>2. DeploymentPlan(prior, c)
          = [name |-> c.name, target |-> c.target, engine |-> c.engine,
             version |-> version(c.version),
             engine_config |-> c.engine_config, min |-> c.min, max |-> c.max,
             priority |-> c.priority, concurrency |-> c.concurrency,
             capacity_classes |-> c.capacity_classes,
             disabled |-> disabled(c.disabled), weight |-> weight(c.weight)]
    BY <1>1 DEF DeploymentWellFormed
  <1> QED
    BY <1>2 DEF version, disabled, weight

LEMMA DeploymentStoredIsSpec ==
    ASSUME NEW c, DeploymentWellFormed(c), NEW prior, DeploymentPriorOK(prior)
    PROVE  DeploymentSpecOK(
              DeploymentStored(DeploymentRequest(DeploymentPlan(prior, c))))
  <1> DEFINE plan == DeploymentPlan(prior, c)
             s == DeploymentStored(DeploymentRequest(plan))
             version == OrZero(plan.version, "")
  <1>1. /\ plan.version = UseStateForUnknown(c.version, prior.version)
        /\ plan.engine_config = c.engine_config
        /\ plan.capacity_classes = c.capacity_classes
        /\ plan.priority = c.priority /\ plan.concurrency = c.concurrency
        /\ plan.weight = IF c.weight = Null THEN 0
                         ELSE UseStateForUnknown(c.weight, prior.weight)
    BY DeploymentPlanned
  <1> HIDE DEF plan
  <1>2. /\ s.version = IF version = "" THEN LatestVersion ELSE version
        /\ s.engine_config = OrZero(plan.engine_config, {})
        /\ s.capacity_classes = OrZero(plan.capacity_classes, <<>>)
        /\ s.priority = Uint32(OrZero(plan.priority, 0))
        /\ s.concurrency = Uint32(OrZero(plan.concurrency, 0))
        /\ s.weight = Uint32(OrZero(plan.weight, 0))
    BY DEF DeploymentStored, DeploymentRequest
  <1> HIDE DEF s
  <1>3. IsKnown(s.version) /\ s.version # ""
    BY <1>1, <1>2, VersionAssumption DEF OrZero
  <1>4. IsKnown(s.engine_config) /\ IsKnown(s.capacity_classes)
    BY <1>2, ZeroIsKnown DEF OrZero
  <1>6. /\ s.priority \in 0..(Modulus - 1)
        /\ s.concurrency \in 0..(Modulus - 1)
    <2>1. /\ plan.priority = Null \/ plan.priority \in Int
          /\ plan.concurrency = Null \/ plan.concurrency \in Int
      BY <1>1, DeploymentGiven
    <2>2. OrZero(plan.priority, 0) \in Int /\ OrZero(plan.concurrency, 0) \in Int
      BY <2>1 DEF OrZero, IsKnown
    <2> QED
      BY <1>2, <2>2, Uint32Range
  <1>7. IsKnown(s.priority) /\ IsKnown(s.concurrency)
    <2>1. \A n \in 0..(Modulus - 1) : n \in Int
      BY ModulusAssumption
    <2> QED
      BY <1>6, <2>1, ZeroIsKnown
  <1>5. s.weight \in 0..(Modulus - 1)
    <2>1. plan.weight = Unknown \/ plan.weight \in Int
      <3>1. CASE c.weight = Null
        BY <1>1, <3>1
      <3>2. CASE c.weight = Bare
        <4>1. plan.weight = prior.weight
          BY <1>1, <3>2, NullAssumption DEF UseStateForUnknown, IsKnown
        <4>2. prior.weight = Unknown \/ prior.weight \in 0..(Modulus - 1)
          BY Zenon DEF DeploymentPriorOK
        <4> QED
          BY <4>1, <4>2, ModulusAssumption
      <3>3. CASE c.weight \in Int
        BY <1>1, <3>3, ZeroIsKnown, NullAssumption DEF UseStateForUnknown
      <3> QED
        BY <3>1, <3>2, <3>3, DeploymentGiven
    <2>2. OrZero(plan.weight, 0) \in Int
      BY <2>1 DEF OrZero, IsKnown
    <2> QED
      BY <1>2, <2>2, Uint32Range
  <1> QED
    BY <1>3, <1>4, <1>5, <1>7 DEF s, plan, DeploymentSpecOK

LEMMA DeploymentSetIsPrior ==
    ASSUME NEW s, DeploymentSpecOK(s), NEW model
    PROVE  DeploymentPriorOK(DeploymentSet(model, s))
  BY DEF DeploymentSpecOK, DeploymentPriorOK, DeploymentSet, RuntimeSet, IsKnown

LEMMA DeploymentSetTwice ==
    ASSUME NEW s, DeploymentSpecOK(s), NEW model
    PROVE  DeploymentSet(DeploymentSet(model, s), s) = DeploymentSet(model, s)
  <1> DEFINE answer == DeploymentSet(model, s)
  <1>1. ASSUME NEW m
        PROVE  DeploymentSet(m, s)
                 = [name |-> s.name, target |-> s.target, engine |-> s.engine,
                    version |-> s.version,
                    engine_config |-> PreservingNull(m.engine_config,
                                                     s.engine_config, {}),
                    min |-> s.min, max |-> s.max,
                    priority |-> PreservingNull(m.priority, s.priority, 0),
                    concurrency |-> PreservingNull(m.concurrency,
                                                   s.concurrency, 0),
                    capacity_classes |-> PreservingNull(m.capacity_classes,
                                             s.capacity_classes, <<>>),
                    disabled |-> s.disabled, weight |-> s.weight]
    BY DEF DeploymentSet, RuntimeSet, DeploymentSpecOK
  <1>2. /\ answer.engine_config
              = PreservingNull(model.engine_config, s.engine_config, {})
        /\ answer.priority = PreservingNull(model.priority, s.priority, 0)
        /\ answer.concurrency
              = PreservingNull(model.concurrency, s.concurrency, 0)
        /\ answer.capacity_classes
              = PreservingNull(model.capacity_classes, s.capacity_classes, <<>>)
    BY <1>1
  <1> HIDE DEF answer
  <1>3. DeploymentSet(answer, s) = DeploymentSet(model, s)
    BY <1>1, <1>2, PreservedTwice
  <1> QED
    BY <1>3 DEF answer

LEMMA DeploymentAgreement ==
    ASSUME NEW c, DeploymentWellFormed(c), NEW prior, NEW model,
           NEW s, DeploymentSpecOK(s),
           Consistent(DeploymentPlan(prior, c), DeploymentSet(model, s))
    PROVE  DeploymentAsAsked(c, s)
  <1> DEFINE plan == DeploymentPlan(prior, c)
             answer == DeploymentSet(model, s)
  <1>1. /\ plan.name = c.name /\ plan.target = c.target
        /\ plan.engine = c.engine
        /\ plan.version = UseStateForUnknown(c.version, prior.version)
        /\ plan.engine_config = c.engine_config
        /\ plan.min = c.min /\ plan.max = c.max
        /\ plan.priority = c.priority /\ plan.concurrency = c.concurrency
        /\ plan.capacity_classes = c.capacity_classes
        /\ plan.disabled = IF c.disabled = Null THEN FALSE ELSE c.disabled
        /\ plan.weight = IF c.weight = Null THEN 0
                         ELSE UseStateForUnknown(c.weight, prior.weight)
    BY DeploymentPlanned
  <1>0. DOMAIN plan = {"name", "target", "engine", "version",
                       "engine_config", "min", "max", "priority",
                       "concurrency", "capacity_classes", "disabled", "weight"}
    BY DeploymentPlanned
  <1>2. /\ answer.name = s.name /\ answer.target = s.target
        /\ answer.engine = s.engine /\ answer.version = s.version
        /\ answer.engine_config
              = PreservingNull(model.engine_config, s.engine_config, {})
        /\ answer.min = s.min /\ answer.max = s.max
        /\ answer.priority = PreservingNull(model.priority, s.priority, 0)
        /\ answer.concurrency
              = PreservingNull(model.concurrency, s.concurrency, 0)
        /\ answer.capacity_classes
              = PreservingNull(model.capacity_classes, s.capacity_classes, <<>>)
        /\ answer.disabled = s.disabled /\ answer.weight = s.weight
    BY DEF DeploymentSet, RuntimeSet, DeploymentSpecOK
  <1> HIDE DEF plan, answer
  <1>11. Consistent(plan, answer)
    BY DEF plan, answer
  <1>3. /\ plan.name = Unknown \/ answer.name = plan.name
        /\ plan.target = Unknown \/ answer.target = plan.target
        /\ plan.engine = Unknown \/ answer.engine = plan.engine
        /\ plan.version = Unknown \/ answer.version = plan.version
        /\ plan.engine_config = Unknown
              \/ answer.engine_config = plan.engine_config
        /\ plan.min = Unknown \/ answer.min = plan.min
        /\ plan.max = Unknown \/ answer.max = plan.max
        /\ plan.priority = Unknown \/ answer.priority = plan.priority
        /\ plan.concurrency = Unknown \/ answer.concurrency = plan.concurrency
        /\ plan.capacity_classes = Unknown
              \/ answer.capacity_classes = plan.capacity_classes
        /\ plan.disabled = Unknown \/ answer.disabled = plan.disabled
        /\ plan.weight = Unknown \/ answer.weight = plan.weight
    BY <1>0, <1>11 DEF Consistent
  <1>4. /\ c.name = s.name /\ c.target = s.target /\ c.engine = s.engine
    BY <1>1, <1>2, <1>3, DeploymentGiven DEF IsKnown
  <1>5. c.version # Null => s.version = c.version
    BY <1>1, <1>2, <1>3, DeploymentGiven
      DEF IsKnown, IsOptional, UseStateForUnknown
  <1>6. /\ s.engine_config = OrZero(c.engine_config, {})
        /\ s.capacity_classes = OrZero(c.capacity_classes, <<>>)
    BY <1>1, <1>2, <1>3, DeploymentGiven, NullAssumption
      DEF DeploymentSpecOK, IsKnown, IsOptional, OrZero,
          PreservingNull
  <1>7. /\ s.priority = OrZero(c.priority, 0)
        /\ s.concurrency = OrZero(c.concurrency, 0)
    BY <1>1, <1>2, <1>3, DeploymentGiven, NullAssumption
      DEF DeploymentSpecOK, IsKnown, OrZero, PreservingNull
  <1>8. s.min = c.min /\ s.max = c.max
    BY <1>1, <1>2, <1>3, DeploymentGiven, NullAssumption
  <1>9. s.disabled = OrZero(c.disabled, FALSE)
    BY <1>1, <1>2, <1>3, DeploymentGiven, ZeroIsKnown DEF OrZero, IsKnown
  <1>10. c.weight # Bare => s.weight = OrZero(c.weight, 0)
    BY <1>1, <1>2, <1>3, DeploymentGiven, ZeroIsKnown
      DEF OrZero, IsKnown, UseStateForUnknown
  <1> QED
    BY <1>4, <1>5, <1>6, <1>7, <1>8, <1>9, <1>10 DEF DeploymentAsAsked

LEMMA DeploymentComesBack ==
    ASSUME NEW c, DeploymentWellFormed(c), ~DeploymentLossy(c),
           NEW prior, DeploymentPriorOK(prior)
    PROVE  LET plan == DeploymentPlan(prior, c)
           IN Consistent(plan, DeploymentSet(plan,
                                  DeploymentStored(DeploymentRequest(plan))))
  <1> DEFINE plan == DeploymentPlan(prior, c)
             s == DeploymentStored(DeploymentRequest(plan))
             version == OrZero(plan.version, "")
             answer == DeploymentSet(plan, s)
  <1>1. /\ plan.version = UseStateForUnknown(c.version, prior.version)
        /\ plan.engine_config = c.engine_config
        /\ plan.min = c.min /\ plan.max = c.max
        /\ plan.priority = c.priority /\ plan.concurrency = c.concurrency
        /\ plan.capacity_classes = c.capacity_classes
        /\ plan.weight = IF c.weight = Null THEN 0
                         ELSE UseStateForUnknown(c.weight, prior.weight)
    BY DeploymentPlanned
  <1>0. DOMAIN plan = {"name", "target", "engine", "version",
                       "engine_config", "min", "max", "priority",
                       "concurrency", "capacity_classes", "disabled", "weight"}
    BY DeploymentPlanned
  <1>2. DeploymentSpecOK(s)
    BY DeploymentStoredIsSpec
  <1> HIDE DEF plan
  <1>3. /\ s.name = plan.name /\ s.target = plan.target
        /\ s.engine = plan.engine
        /\ s.version = IF version = "" THEN LatestVersion ELSE version
        /\ s.engine_config = OrZero(plan.engine_config, {})
        /\ s.min = Uint32(plan.min) /\ s.max = Uint32(plan.max)
        /\ s.capacity_classes = OrZero(plan.capacity_classes, <<>>)
        /\ s.priority = Uint32(OrZero(plan.priority, 0))
        /\ s.concurrency = Uint32(OrZero(plan.concurrency, 0))
        /\ s.disabled = plan.disabled
        /\ s.weight = Uint32(OrZero(plan.weight, 0))
    BY DEF DeploymentStored, DeploymentRequest
  <1> HIDE DEF s
  <1>4. /\ answer.name = s.name /\ answer.target = s.target
        /\ answer.engine = s.engine /\ answer.version = s.version
        /\ answer.engine_config
              = PreservingNull(plan.engine_config, s.engine_config, {})
        /\ answer.min = s.min /\ answer.max = s.max
        /\ answer.priority = PreservingNull(plan.priority, s.priority, 0)
        /\ answer.concurrency
              = PreservingNull(plan.concurrency, s.concurrency, 0)
        /\ answer.capacity_classes
              = PreservingNull(plan.capacity_classes, s.capacity_classes, <<>>)
        /\ answer.disabled = s.disabled /\ answer.weight = s.weight
    BY <1>2 DEF DeploymentSet, RuntimeSet, DeploymentSpecOK
  <1> HIDE DEF answer
  <1>5. /\ answer.name = plan.name /\ answer.target = plan.target
        /\ answer.engine = plan.engine /\ answer.disabled = plan.disabled
    BY <1>3, <1>4
  <1>6. plan.version = Unknown \/ answer.version = plan.version
    BY <1>1, <1>3, <1>4, DeploymentGiven
      DEF OrZero, UseStateForUnknown, IsKnown, IsOptional,
          DeploymentPriorOK
  <1>7. /\ answer.engine_config = plan.engine_config
        /\ answer.capacity_classes = plan.capacity_classes
    BY <1>1, <1>3, <1>4, DeploymentGiven
      DEF OrZero, PreservingNull, IsKnown, IsOptional
  <1>8. answer.priority = plan.priority
    <2>3. c.priority = Null
             \/ (c.priority \in Int /\ c.priority \in 0..(Modulus - 1))
      BY DeploymentGiven
    <2>1. OrZero(c.priority, 0) \in Int
             /\ OrZero(c.priority, 0) \in 0..(Modulus - 1)
      BY <2>3, ModulusAssumption DEF OrZero, IsKnown
    <2>2. s.priority = OrZero(c.priority, 0)
      BY <1>1, <1>3, <2>1, Uint32Range
    <2> QED
      BY <1>1, <1>4, <2>2, DeploymentGiven, ZeroIsKnown
        DEF OrZero, PreservingNull, IsKnown
  <1>9. answer.min = plan.min /\ answer.max = plan.max
    BY <1>1, <1>3, <1>4 DEF DeploymentLossy
  <1>12. answer.concurrency = plan.concurrency
    <2>1. s.concurrency = OrZero(c.concurrency, 0)
      BY <1>1, <1>3 DEF DeploymentLossy
    <2> QED
      BY <1>1, <1>4, <2>1, DeploymentGiven, ZeroIsKnown
        DEF OrZero, PreservingNull, IsKnown
  <1>10. plan.weight = Unknown \/ answer.weight = plan.weight
    <2>3. prior.weight = Unknown \/ prior.weight \in 0..(Modulus - 1)
      BY Zenon DEF DeploymentPriorOK
    <2>4. c.weight \in {Null, Bare}
             \/ (c.weight \in Int /\ c.weight \in 0..(Modulus - 1))
      BY DeploymentGiven
    <2>5. c.weight \in Int => IsKnown(c.weight)
      BY ZeroIsKnown
    <2>1. plan.weight = Unknown \/ plan.weight \in 0..(Modulus - 1)
      BY <1>1, <2>3, <2>4, <2>5, NullAssumption, ModulusAssumption
        DEF UseStateForUnknown, IsKnown
    <2>2. CASE plan.weight \in 0..(Modulus - 1)
      <3>1. plan.weight \in Int
        BY <2>2
      <3>2. OrZero(plan.weight, 0) = plan.weight
        BY <3>1, ZeroIsKnown DEF OrZero
      <3> QED
        BY <1>3, <1>4, <2>2, <3>1, <3>2, Uint32Range
    <2> QED
      BY <2>1, <2>2
  <1>11. Consistent(plan, answer)
    BY <1>0, <1>5, <1>6, <1>7, <1>8, <1>9, <1>10, <1>12
      DEF Consistent
  <1> QED
    BY <1>11 DEF answer, s, plan

-----------------------------------------------------------------------------
(* Gateway, whose records are from a given set *)

GatewaySpecOK(s, records) ==
    /\ s.auth \in {"coreweave", "weights_and_biases"}
    /\ IsKnown(s.server_url) /\ s.enable_usage_reports \in BOOLEAN
    /\ s.auth = "coreweave"
          => s.server_url = "" /\ s.enable_usage_reports = FALSE
    /\ s.additional_dns \in SUBSET records

\* The records that the API has, after a request and the records before it.
MergedRecords(c, dns) ==
    IF IsKnown(c.additional_dns) THEN c.additional_dns \cup dns ELSE dns

LEMMA GatewayStoredFields ==
    ASSUME NEW c, NEW dns
    PROVE  LET s == GatewayStored(GatewayCreateRequest(c), dns)
           IN /\ s.name = c.name /\ s.zones = c.zones /\ s.routing = c.routing
              /\ s.auth = c.auth /\ s.server_url = OrZero(c.server_url, "")
              /\ s.enable_usage_reports = OrZero(c.enable_usage_reports, FALSE)
              /\ s.additional_dns = MergedRecords(c, dns)
              /\ GatewayStored(GatewayCreateRequest(c), s.additional_dns) = s
  <1> DEFINE dnsOf(r, d) == IF r = Null THEN d ELSE r \cup d
             url == OrZero(c.server_url, "")
             enable == OrZero(c.enable_usage_reports, FALSE)
             s == GatewayStored(GatewayCreateRequest(c), dns)
  <1>1. dnsOf(EndpointRequest(c), dns) = MergedRecords(c, dns)
    BY DEF EndpointRequest, MergedRecords, IsKnown
  <1>2. dnsOf(EndpointRequest(c), MergedRecords(c, dns)) = MergedRecords(c, dns)
    BY DEF EndpointRequest, MergedRecords, IsKnown
  <1>3. ASSUME NEW d
        PROVE  GatewayStored(GatewayCreateRequest(c), d)
                 = [[name |-> c.name, zones |-> c.zones, routing |-> c.routing,
                     auth |-> c.auth, server_url |-> url,
                     enable_usage_reports |-> enable,
                     additional_dns |-> EndpointRequest(c)]
                      EXCEPT !.additional_dns = dnsOf(EndpointRequest(c), d)]
    BY DEF GatewayStored, GatewayCreateRequest
  <1> HIDE DEF dnsOf, url, enable
  <1>4. ASSUME NEW d
        PROVE  GatewayStored(GatewayCreateRequest(c), d)
                 = [name |-> c.name, zones |-> c.zones, routing |-> c.routing,
                    auth |-> c.auth, server_url |-> url,
                    enable_usage_reports |-> enable,
                    additional_dns |-> dnsOf(EndpointRequest(c), d)]
    BY <1>3
  <1> HIDE DEF s
  <1>5. s = [name |-> c.name, zones |-> c.zones, routing |-> c.routing,
             auth |-> c.auth, server_url |-> url,
             enable_usage_reports |-> enable,
             additional_dns |-> MergedRecords(c, dns)]
    BY <1>1, <1>4 DEF s
  <1>6. GatewayStored(GatewayCreateRequest(c), MergedRecords(c, dns)) = s
    BY <1>2, <1>4, <1>5
  <1>7. /\ s.name = c.name /\ s.zones = c.zones /\ s.routing = c.routing
        /\ s.auth = c.auth /\ s.server_url = url
        /\ s.enable_usage_reports = enable
        /\ s.additional_dns = MergedRecords(c, dns)
    BY <1>5
  <1> QED
    BY <1>6, <1>7 DEF s, url, enable

\* A gateway is what is asked, with the records it had, and asking again adds
\* nothing.
LEMMA GatewayStoredIsSpec ==
    ASSUME NEW c, GatewayWellFormed(c), NEW records, NEW dns \in SUBSET records,
           OrZero(c.additional_dns, {}) \in SUBSET records
    PROVE  LET s == GatewayStored(GatewayCreateRequest(c), dns)
           IN /\ GatewaySpecOK(s, records)
              /\ GatewayStored(GatewayCreateRequest(c), s.additional_dns) = s
  <1> DEFINE s == GatewayStored(GatewayCreateRequest(c), dns)
             enable == OrZero(c.enable_usage_reports, FALSE)
  <1>1. MergedRecords(c, dns) \in SUBSET records
    BY DEF MergedRecords, OrZero
  <1>3. enable \in BOOLEAN
    BY NullAssumption DEF OrZero, IsKnown, GatewayWellFormed
  <1>4. c.auth = "coreweave" => OrZero(c.server_url, "") = "" /\ enable = FALSE
    BY DEF OrZero, IsKnown, GatewayWellFormed
  <1>5. IsKnown(OrZero(c.server_url, ""))
    BY ZeroIsKnown DEF OrZero
  <1>6. /\ s.auth = c.auth /\ s.server_url = OrZero(c.server_url, "")
        /\ s.enable_usage_reports = enable
        /\ s.additional_dns = MergedRecords(c, dns)
        /\ GatewayStored(GatewayCreateRequest(c), s.additional_dns) = s
    BY GatewayStoredFields
  <1> HIDE DEF enable, s
  <1>7. GatewaySpecOK(s, records)
    BY <1>1, <1>3, <1>4, <1>5, <1>6 DEF GatewaySpecOK, GatewayWellFormed
  <1> QED
    BY <1>6, <1>7 DEF s

LEMMA GatewaySetTwice ==
    ASSUME NEW records, \A r \in SUBSET records : IsKnown(r),
           NEW s, GatewaySpecOK(s, records), NEW model
    PROVE  GatewaySet(GatewaySet(model, s), s) = GatewaySet(model, s)
  <1> DEFINE answer == GatewaySet(model, s)
             url(m) == WeightsAndBiasesSet(m, s, "server_url", "")
             enable(m) == WeightsAndBiasesSet(m, s, "enable_usage_reports", FALSE)
  <1>1. ASSUME NEW m
        PROVE  GatewaySet(m, s)
                 = [name |-> s.name, zones |-> s.zones, routing |-> s.routing,
                    auth |-> s.auth, server_url |-> url(m),
                    enable_usage_reports |-> enable(m),
                    additional_dns |-> EndpointSet(m, s)]
    BY DEF GatewaySet
  <1>2. /\ answer.auth = s.auth /\ answer.server_url = url(model)
        /\ answer.enable_usage_reports = enable(model)
        /\ answer.additional_dns = EndpointSet(model, s)
    <2> HIDE DEF url, enable
    <2> QED
      BY <1>1
  <1> HIDE DEF answer
  <1>3. url(answer) = url(model)
    <2>1. s.server_url # Null
      BY DEF GatewaySpecOK, IsKnown
    <2> QED
      BY <1>2, <2>1
        DEF WeightsAndBiasesSet, PreservingNull, GatewaySpecOK
  <1>4. enable(answer) = enable(model)
    <2>1. s.enable_usage_reports # Null
      BY NullAssumption DEF GatewaySpecOK
    <2> QED
      BY <1>2, <2>1
        DEF WeightsAndBiasesSet, PreservingNull, GatewaySpecOK
  <1>5. EndpointSet(answer, s) = EndpointSet(model, s)
    BY <1>2, NullAssumption DEF EndpointSet
  <1>6. GatewaySet(answer, s) = GatewaySet(model, s)
    <2> HIDE DEF url, enable
    <2> QED
      BY <1>1, <1>3, <1>4, <1>5
  <1> QED
    BY <1>6 DEF answer

LEMMA GatewayAgreement ==
    ASSUME NEW c, GatewayWellFormed(c),
           NEW records, \A r \in SUBSET records : IsKnown(r),
           NEW s, GatewaySpecOK(s, records), NEW model,
           Consistent(c, GatewaySet(model, s))
    PROVE  GatewayAsAsked(c, s)
  <1>1. DOMAIN c = {"name", "zones", "routing", "auth", "server_url",
                    "enable_usage_reports", "additional_dns"}
    BY DEF GatewayWellFormed
  <1>2. \A a \in {"name", "zones", "routing", "auth", "server_url",
                  "additional_dns"} : c[a] # Unknown
    BY DEF GatewayWellFormed, IsKnown, IsOptional
  <1>3. c.enable_usage_reports # Unknown
    BY NullAssumption DEF GatewayWellFormed
  <1>4. /\ s.name = c.name /\ s.zones = c.zones /\ s.routing = c.routing
        /\ s.auth = c.auth
        /\ WeightsAndBiasesSet(model, s, "server_url", "") = c.server_url
        /\ WeightsAndBiasesSet(model, s, "enable_usage_reports", FALSE)
              = c.enable_usage_reports
        /\ EndpointSet(model, s) = c.additional_dns
    BY <1>1, <1>2, <1>3 DEF Consistent, GatewaySet
  <1>5. s.server_url = OrZero(c.server_url, "")
    BY <1>4, NullAssumption
      DEF OrZero, IsKnown, IsOptional, WeightsAndBiasesSet, PreservingNull,
          GatewaySpecOK, GatewayWellFormed
  <1>6. s.enable_usage_reports = OrZero(c.enable_usage_reports, FALSE)
    <2>1. s.enable_usage_reports # Null
      BY NullAssumption DEF GatewaySpecOK
    <2>2. c.enable_usage_reports \in BOOLEAN => IsKnown(c.enable_usage_reports)
      BY ZeroIsKnown
    <2>3. ~IsKnown(Null)
      BY DEF IsKnown
    <2> QED
      BY <1>4, <2>1, <2>2, <2>3
        DEF OrZero, WeightsAndBiasesSet, PreservingNull, GatewaySpecOK,
            GatewayWellFormed
  <1>7. s.additional_dns = OrZero(c.additional_dns, {})
    <2>1. IsKnown(s.additional_dns)
      BY DEF GatewaySpecOK
    <2> QED
      BY <1>4, <2>1 DEF OrZero, IsKnown, EndpointSet
  <1> QED
    BY <1>4, <1>5, <1>6, <1>7 DEF GatewayAsAsked

LEMMA GatewayComesBack ==
    ASSUME NEW c, GatewayWellFormed(c), ~GatewayLossy(c), NEW dns, NEW s,
           s = GatewayStored(GatewayCreateRequest(c), dns),
           s.additional_dns \subseteq OrZero(c.additional_dns, {})
    PROVE  Consistent(c, GatewaySet(c, s))
  <1> DEFINE answer == GatewaySet(c, s)
             url == WeightsAndBiasesSet(c, s, "server_url", "")
             enable == WeightsAndBiasesSet(c, s, "enable_usage_reports", FALSE)
  <1>1. /\ s.name = c.name /\ s.zones = c.zones /\ s.routing = c.routing
        /\ s.auth = c.auth /\ s.server_url = OrZero(c.server_url, "")
        /\ s.enable_usage_reports = OrZero(c.enable_usage_reports, FALSE)
        /\ s.additional_dns = MergedRecords(c, dns)
    BY GatewayStoredFields
  <1>2. url = c.server_url
    BY <1>1, NullAssumption
      DEF OrZero, IsKnown, IsOptional, WeightsAndBiasesSet, PreservingNull,
          GatewayWellFormed
  <1>3. enable = c.enable_usage_reports
    <2>1. c.enable_usage_reports \in BOOLEAN => IsKnown(c.enable_usage_reports)
      BY ZeroIsKnown
    <2>2. ~IsKnown(Null)
      BY DEF IsKnown
    <2>3. \/ c.enable_usage_reports = Null /\ s.enable_usage_reports = FALSE
          \/ /\ c.enable_usage_reports \in BOOLEAN
             /\ s.enable_usage_reports = c.enable_usage_reports
      BY <1>1, <2>1, <2>2 DEF OrZero, GatewayWellFormed
    <2> QED
      BY <1>1, <2>3
        DEF WeightsAndBiasesSet, PreservingNull, GatewayWellFormed
  <1>4. EndpointSet(c, s) = c.additional_dns
    <2>1. CASE IsKnown(c.additional_dns)
      <3>1. s.additional_dns = c.additional_dns
        BY <1>1, <2>1 DEF MergedRecords, OrZero
      <3> QED
        BY <3>1 DEF EndpointSet, GatewayLossy
    <2>2. CASE ~IsKnown(c.additional_dns)
      <3>1. s.additional_dns = {} /\ c.additional_dns \in {Null, Bare}
        BY <1>1, <2>2 DEF OrZero, IsKnown, GatewayWellFormed
      <3> QED
        BY <3>1 DEF EndpointSet
    <2> QED
      BY <2>1, <2>2
  <1>5. answer = [name |-> s.name, zones |-> s.zones, routing |-> s.routing,
                  auth |-> s.auth, server_url |-> url,
                  enable_usage_reports |-> enable,
                  additional_dns |-> EndpointSet(c, s)]
    BY DEF GatewaySet
  <1> HIDE DEF answer, url, enable
  <1>6. answer = c
    BY <1>1, <1>2, <1>3, <1>4, <1>5 DEF GatewayWellFormed
  <1> QED
    BY <1>6 DEF answer, Consistent

-----------------------------------------------------------------------------
(* VPC *)

VpcSpecOK(s) ==
    /\ s = [zone |-> s.zone, host_prefix |-> s.host_prefix,
            host_prefixes |-> s.host_prefixes,
            vpc_prefixes |-> s.vpc_prefixes, ingress |-> s.ingress,
            egress |-> s.egress, dhcp |-> s.dhcp]
    /\ s.ingress \in BOOLEAN /\ s.egress \in BOOLEAN
    /\ s.dhcp \notin {Bare, NoServers, Unknown} /\ IsKnown(s.vpc_prefixes)

\* What a request, of either kind, asks for.
VpcHas(s, plan) ==
    /\ s.vpc_prefixes = OrZero(plan.vpc_prefixes, {})
    /\ s.ingress = OrZero(plan.ingress, FALSE)
    /\ s.egress = OrZero(plan.egress, FALSE)
    /\ s.dhcp = GetDhcp(plan)

\* A switch of the configuration, as planned: a block without it is Bare.
PlannedSwitch(v) == IF v = Null THEN FALSE ELSE v

LEMMA VpcPlanned ==
    ASSUME NEW c, VpcWellFormed(c), NEW prior
    PROVE  LET plan == VpcPlan(prior, c)
           IN /\ DOMAIN plan = VpcFields
              /\ plan.zone = c.zone
              /\ plan.host_prefix
                    = UseStateForUnknown(c.host_prefix, prior.host_prefix)
              /\ plan.host_prefixes
                    = UseStateForUnknown(PlannedHostPrefixes(c.host_prefixes),
                                         prior.host_prefixes)
              /\ plan.vpc_prefixes = c.vpc_prefixes
              /\ plan.ingress = PlannedSwitch(c.ingress)
              /\ plan.egress = PlannedSwitch(c.egress)
              /\ plan.dhcp = c.dhcp
  <1> DEFINE range(v) == UseStateForUnknown(v, prior.host_prefix)
             ranges(v) == UseStateForUnknown(PlannedHostPrefixes(v),
                                             prior.host_prefixes)
             plan == VpcPlan(prior, c)
  <1>1. plan = [c EXCEPT !.host_prefix = range(c.host_prefix),
                         !.host_prefixes = ranges(c.host_prefixes),
                         !.ingress = PlannedSwitch(c.ingress),
                         !.egress = PlannedSwitch(c.egress)]
    BY DEF VpcPlan, PlannedSwitch
  <1> HIDE DEF range, ranges, plan
  <1>2. plan = [zone |-> c.zone, host_prefix |-> range(c.host_prefix),
                host_prefixes |-> ranges(c.host_prefixes),
                vpc_prefixes |-> c.vpc_prefixes,
                ingress |-> PlannedSwitch(c.ingress),
                egress |-> PlannedSwitch(c.egress), dhcp |-> c.dhcp]
    BY <1>1 DEF VpcWellFormed
  <1>3. /\ DOMAIN plan = VpcFields
        /\ plan.zone = c.zone /\ plan.host_prefix = range(c.host_prefix)
        /\ plan.host_prefixes = ranges(c.host_prefixes)
        /\ plan.vpc_prefixes = c.vpc_prefixes
        /\ plan.ingress = PlannedSwitch(c.ingress)
        /\ plan.egress = PlannedSwitch(c.egress) /\ plan.dhcp = c.dhcp
    BY <1>2 DEF VpcFields
  <1> QED
    BY <1>3 DEF range, ranges, plan

\* What the API has after a request is Boolean where it must be, and no block
\* without servers.
LEMMA VpcHasTypes ==
    ASSUME NEW c, VpcWellFormed(c), NEW prior, NEW s,
           VpcHas(s, VpcPlan(prior, c)), ~VpcPlanPanics(VpcPlan(prior, c))
    PROVE  /\ s.ingress \in BOOLEAN /\ s.egress \in BOOLEAN
           /\ s.dhcp \notin {Bare, NoServers, Unknown}
           /\ IsKnown(s.vpc_prefixes)
  <1> DEFINE plan == VpcPlan(prior, c)
  <1>1. /\ plan.ingress = PlannedSwitch(c.ingress)
        /\ plan.egress = PlannedSwitch(c.egress)
        /\ plan.dhcp = c.dhcp /\ plan.dhcp # Bare
    BY VpcPlanned DEF VpcPlanPanics
  <1>2. VpcHas(s, plan)
    OBVIOUS
  <1> HIDE DEF plan
  <1>3. s.ingress \in BOOLEAN
    <2>1. plan.ingress = Bare \/ plan.ingress \in BOOLEAN
      BY <1>1 DEF PlannedSwitch, VpcWellFormed
    <2> QED
      BY <1>2, <2>1 DEF VpcHas, OrZero, IsKnown
  <1>4. s.egress \in BOOLEAN
    <2>1. plan.egress = Bare \/ plan.egress \in BOOLEAN
      BY <1>1 DEF PlannedSwitch, VpcWellFormed
    <2> QED
      BY <1>2, <2>1 DEF VpcHas, OrZero, IsKnown
  <1>5. s.dhcp \notin {Bare, NoServers, Unknown}
    BY <1>1, <1>2, NullAssumption, ZeroAssumption, VpcAssumption
      DEF VpcHas, GetDhcp, IsKnown, VpcWellFormed
  <1>6. IsKnown(s.vpc_prefixes)
    BY <1>2, ZeroIsKnown DEF VpcHas, OrZero
  <1> QED
    BY <1>3, <1>4, <1>5, <1>6

LEMMA VpcCreatedFields ==
    ASSUME NEW plan
    PROVE  LET s == VpcCreated(VpcCreateRequest(plan))
           IN /\ s = [zone |-> s.zone, host_prefix |-> s.host_prefix,
                      host_prefixes |-> s.host_prefixes,
                      vpc_prefixes |-> s.vpc_prefixes, ingress |-> s.ingress,
                      egress |-> s.egress, dhcp |-> s.dhcp]
              /\ s.zone = plan.zone /\ VpcHas(s, plan)
              /\ OrZero(plan.host_prefix, "") # ""
                    => s.host_prefix = plan.host_prefix
              /\ OrZero(plan.host_prefixes, {}) # {}
                    => s.host_prefixes = plan.host_prefixes
  <1> DEFINE request == VpcCreateRequest(plan)
             primary == {p \in request.host_prefixes : p.type = "PRIMARY"}
             range == IF request.host_prefix # "" THEN request.host_prefix
                      ELSE IF primary = {} THEN DefaultRange
                      ELSE (CHOOSE p \in primary : TRUE).range
             ranges == IF request.host_prefixes # {} THEN request.host_prefixes
                       ELSE {[type |-> "PRIMARY", range |-> range,
                              ipam |-> Null]}
             ingress == OrZero(plan.ingress, FALSE)
             egress == OrZero(plan.egress, FALSE)
             s == VpcCreated(request)
  <1>1. s = [request EXCEPT !.host_prefix = range, !.host_prefixes = ranges]
    BY DEF VpcCreated
  <1>2. request
          = [zone |-> plan.zone, host_prefix |-> OrZero(plan.host_prefix, ""),
             host_prefixes |-> OrZero(plan.host_prefixes, {}),
             vpc_prefixes |-> OrZero(plan.vpc_prefixes, {}),
             ingress |-> ingress, egress |-> egress, dhcp |-> GetDhcp(plan)]
    BY DEF VpcCreateRequest
  <1>3. /\ request.host_prefix # "" => range = request.host_prefix
        /\ request.host_prefixes # {} => ranges = request.host_prefixes
    OBVIOUS
  <1> HIDE DEF request, range, ranges, ingress, egress, s
  <1>4. s = [zone |-> plan.zone, host_prefix |-> range,
             host_prefixes |-> ranges,
             vpc_prefixes |-> OrZero(plan.vpc_prefixes, {}),
             ingress |-> ingress, egress |-> egress, dhcp |-> GetDhcp(plan)]
    BY <1>1, <1>2
  <1>5. /\ s = [zone |-> s.zone, host_prefix |-> s.host_prefix,
                host_prefixes |-> s.host_prefixes,
                vpc_prefixes |-> s.vpc_prefixes, ingress |-> s.ingress,
                egress |-> s.egress, dhcp |-> s.dhcp]
        /\ s.zone = plan.zone /\ s.host_prefix = range
        /\ s.host_prefixes = ranges
        /\ s.vpc_prefixes = OrZero(plan.vpc_prefixes, {})
        /\ s.ingress = ingress /\ s.egress = egress /\ s.dhcp = GetDhcp(plan)
    BY <1>4
  <1>6. /\ request.host_prefix = OrZero(plan.host_prefix, "")
        /\ request.host_prefixes = OrZero(plan.host_prefixes, {})
    BY <1>2
  <1>7. VpcHas(s, plan)
    BY <1>5 DEF VpcHas, ingress, egress
  <1>8. OrZero(plan.host_prefix, "") # "" => s.host_prefix = plan.host_prefix
    BY <1>3, <1>5, <1>6 DEF OrZero
  <1>9. OrZero(plan.host_prefixes, {}) # {}
           => s.host_prefixes = plan.host_prefixes
    BY <1>3, <1>5, <1>6 DEF OrZero
  <1> QED
    BY <1>5, <1>7, <1>8, <1>9 DEF s, request

LEMMA VpcCreatedIsSpec ==
    ASSUME NEW c, VpcWellFormed(c), NEW prior,
           ~VpcPlanPanics(VpcPlan(prior, c))
    PROVE  VpcSpecOK(VpcCreated(VpcCreateRequest(VpcPlan(prior, c))))
  <1> DEFINE s == VpcCreated(VpcCreateRequest(VpcPlan(prior, c)))
  <1>1. /\ s = [zone |-> s.zone, host_prefix |-> s.host_prefix,
                host_prefixes |-> s.host_prefixes,
                vpc_prefixes |-> s.vpc_prefixes, ingress |-> s.ingress,
                egress |-> s.egress, dhcp |-> s.dhcp]
        /\ VpcHas(s, VpcPlan(prior, c))
    BY VpcCreatedFields
  <1> HIDE DEF s
  <1>2. VpcSpecOK(s)
    BY <1>1, VpcHasTypes DEF VpcSpecOK
  <1> QED
    BY <1>2 DEF s

\* An update keeps the zone and the host prefixes, and changes the rest once.
LEMMA VpcUpdatedIsSpec ==
    ASSUME NEW c, VpcWellFormed(c), NEW prior,
           ~VpcPlanPanics(VpcPlan(prior, c)), NEW old, VpcSpecOK(old)
    PROVE  LET request == VpcUpdateRequest(VpcPlan(prior, c))
               s == VpcUpdated(old, request)
           IN /\ VpcSpecOK(s) /\ VpcHas(s, VpcPlan(prior, c))
              /\ s.zone = old.zone /\ s.host_prefix = old.host_prefix
              /\ s.host_prefixes = old.host_prefixes
              /\ VpcUpdated(s, request) = s
  <1> DEFINE plan == VpcPlan(prior, c)
             request == VpcUpdateRequest(plan)
             ingress == OrZero(plan.ingress, FALSE)
             egress == OrZero(plan.egress, FALSE)
             s == VpcUpdated(old, request)
  <1>1. request = [vpc_prefixes |-> OrZero(plan.vpc_prefixes, {}),
                   ingress |-> ingress, egress |-> egress,
                   dhcp |-> GetDhcp(plan)]
    BY DEF VpcUpdateRequest
  <1> HIDE DEF plan, request, ingress, egress
  <1>2. ASSUME NEW vpc, VpcSpecOK(vpc)
        PROVE  VpcUpdated(vpc, request)
                 = [zone |-> vpc.zone, host_prefix |-> vpc.host_prefix,
                    host_prefixes |-> vpc.host_prefixes,
                    vpc_prefixes |-> OrZero(plan.vpc_prefixes, {}),
                    ingress |-> ingress, egress |-> egress,
                    dhcp |-> GetDhcp(plan)]
    <2>1. DOMAIN vpc = VpcFields
      BY <1>2 DEF VpcSpecOK, VpcFields
    <2> DEFINE new == [zone |-> vpc.zone, host_prefix |-> vpc.host_prefix,
                       host_prefixes |-> vpc.host_prefixes,
                       vpc_prefixes |-> OrZero(plan.vpc_prefixes, {}),
                       ingress |-> ingress, egress |-> egress,
                       dhcp |-> GetDhcp(plan)]
    <2>2. DOMAIN new = VpcFields
      BY DEF VpcFields
    <2>3. \A a \in VpcFields :
             new[a] = IF a \in DOMAIN request THEN request[a] ELSE vpc[a]
      BY <1>1 DEF VpcFields
    <2>4. VpcUpdated(vpc, request)
             = [a \in VpcFields |-> IF a \in DOMAIN request THEN request[a]
                                    ELSE vpc[a]]
      BY <2>1 DEF VpcUpdated
    <2>5. new = [a \in VpcFields |-> new[a]]
      BY <2>2
    <2> HIDE DEF new
    <2>6. new = VpcUpdated(vpc, request)
      BY <2>3, <2>4, <2>5
    <2> QED
      BY <2>6 DEF new
  <1>3. s = [zone |-> old.zone, host_prefix |-> old.host_prefix,
             host_prefixes |-> old.host_prefixes,
             vpc_prefixes |-> OrZero(plan.vpc_prefixes, {}),
             ingress |-> ingress, egress |-> egress, dhcp |-> GetDhcp(plan)]
    BY <1>2
  <1> HIDE DEF s
  <1>4. /\ s = [zone |-> s.zone, host_prefix |-> s.host_prefix,
                host_prefixes |-> s.host_prefixes,
                vpc_prefixes |-> s.vpc_prefixes, ingress |-> s.ingress,
                egress |-> s.egress, dhcp |-> s.dhcp]
        /\ s.zone = old.zone /\ s.host_prefix = old.host_prefix
        /\ s.host_prefixes = old.host_prefixes
        /\ s.vpc_prefixes = OrZero(plan.vpc_prefixes, {})
        /\ s.ingress = ingress /\ s.egress = egress /\ s.dhcp = GetDhcp(plan)
    BY <1>3
  <1>5. VpcHas(s, plan)
    BY <1>4 DEF VpcHas, ingress, egress
  <1>6. VpcSpecOK(s)
    BY <1>4, <1>5, VpcHasTypes DEF VpcSpecOK, plan
  <1>7. VpcUpdated(s, request) = s
    BY <1>2, <1>3, <1>4, <1>6
  <1> QED
    BY <1>4, <1>5, <1>6, <1>7 DEF s, request, plan

LEMMA VpcSetTwice ==
    ASSUME NEW s, VpcSpecOK(s), NEW model
    PROVE  VpcSet(VpcSet(model, s), s) = VpcSet(model, s)
  <1> DEFINE answer == VpcSet(model, s)
             ingress(m) == IF s.ingress = Null THEN m.ingress ELSE s.ingress
             egress == IF s.egress = Null THEN FALSE ELSE s.egress
             prefixes(m) == IF s.vpc_prefixes = {} THEN m.vpc_prefixes
                            ELSE s.vpc_prefixes
             ranges == IF s.host_prefixes = {} THEN Null ELSE s.host_prefixes
             dhcp == IF s.dhcp \in {Null, {}} THEN Null ELSE s.dhcp
  <1>1. ASSUME NEW m
        PROVE  VpcSet(m, s)
                 = [zone |-> s.zone, host_prefix |-> s.host_prefix,
                    host_prefixes |-> ranges, vpc_prefixes |-> prefixes(m),
                    ingress |-> ingress(m), egress |-> egress, dhcp |-> dhcp]
    BY DEF VpcSet, DhcpSet
  <1> HIDE DEF ingress, egress, prefixes, ranges, dhcp
  <1>2. answer.ingress = ingress(model) /\ answer.vpc_prefixes = prefixes(model)
    BY <1>1
  <1> HIDE DEF answer
  <1>3. ingress(answer) = ingress(model) /\ prefixes(answer) = prefixes(model)
    BY <1>2 DEF ingress, prefixes
  <1>4. VpcSet(answer, s) = VpcSet(model, s)
    BY <1>1, <1>3
  <1> QED
    BY <1>4 DEF answer

\* An answer, attribute by attribute.
LEMMA VpcSetFields ==
    ASSUME NEW s, VpcSpecOK(s), NEW model
    PROVE  LET answer == VpcSet(model, s)
           IN /\ answer.zone = s.zone /\ answer.host_prefix = s.host_prefix
              /\ answer.host_prefixes = IF s.host_prefixes = {} THEN Null
                                        ELSE s.host_prefixes
              /\ answer.vpc_prefixes = IF s.vpc_prefixes = {}
                                       THEN model.vpc_prefixes
                                       ELSE s.vpc_prefixes
              /\ answer.ingress = s.ingress /\ answer.egress = s.egress
              /\ answer.dhcp = IF s.dhcp \in {Null, {}} THEN Null ELSE s.dhcp
              /\ DOMAIN answer = VpcFields
  <1>1. s.ingress # Null /\ s.egress # Null
    BY NullAssumption DEF VpcSpecOK
  <1> QED
    BY <1>1 DEF VpcSet, DhcpSet, VpcFields

LEMMA VpcAgreement ==
    ASSUME NEW c, VpcWellFormed(c), NEW prior, NEW s, VpcSpecOK(s), NEW model,
           Consistent(VpcPlan(prior, c), VpcSet(model, s))
    PROVE  VpcAsAsked(c, s)
  <1> DEFINE plan == VpcPlan(prior, c)
             answer == VpcSet(model, s)
  <1>1. /\ DOMAIN plan = VpcFields
        /\ plan.zone = c.zone
        /\ plan.host_prefix
              = UseStateForUnknown(c.host_prefix, prior.host_prefix)
        /\ plan.host_prefixes
              = UseStateForUnknown(PlannedHostPrefixes(c.host_prefixes),
                                   prior.host_prefixes)
        /\ plan.ingress = PlannedSwitch(c.ingress)
        /\ plan.egress = PlannedSwitch(c.egress)
        /\ plan.dhcp = c.dhcp
    BY VpcPlanned
  <1>2. /\ answer.zone = s.zone /\ answer.host_prefix = s.host_prefix
        /\ answer.host_prefixes = IF s.host_prefixes = {} THEN Null
                                  ELSE s.host_prefixes
        /\ answer.ingress = s.ingress /\ answer.egress = s.egress
        /\ answer.dhcp = IF s.dhcp \in {Null, {}} THEN Null ELSE s.dhcp
    BY VpcSetFields
  <1>3. \A a \in VpcFields : plan[a] = Unknown \/ answer[a] = plan[a]
    BY <1>1 DEF Consistent
  <1> HIDE DEF plan, answer
  <1>4. s.zone = c.zone
    BY <1>1, <1>2, <1>3 DEF VpcFields, VpcWellFormed, IsKnown
  <1>5. c.host_prefix # Null => s.host_prefix = c.host_prefix
    BY <1>1, <1>2, <1>3
      DEF VpcFields, VpcWellFormed, UseStateForUnknown, IsKnown, IsOptional
  <1>6. c.host_prefixes # Null
           => s.host_prefixes = PlannedHostPrefixes(c.host_prefixes)
    <2> SUFFICES ASSUME c.host_prefixes # Null
                 PROVE  s.host_prefixes = PlannedHostPrefixes(c.host_prefixes)
      OBVIOUS
    <2>1. IsKnown(PlannedHostPrefixes(c.host_prefixes))
      BY DEF VpcWellFormed
    <2>2. answer.host_prefixes = PlannedHostPrefixes(c.host_prefixes)
      BY <1>1, <1>3, <2>1 DEF VpcFields, UseStateForUnknown, IsKnown
    <2> QED
      BY <1>2, <2>1, <2>2 DEF IsKnown
  <1>7. s.ingress = OrZero(c.ingress, FALSE)
    <2>1. plan.ingress # Unknown
      BY <1>1, NullAssumption DEF VpcWellFormed, PlannedSwitch
    <2>2. s.ingress = PlannedSwitch(c.ingress)
      BY <1>1, <1>2, <1>3, <2>1 DEF VpcFields
    <2>3. c.ingress # Bare
      BY <2>2, NullAssumption DEF PlannedSwitch, VpcSpecOK
    <2> QED
      BY <2>2, <2>3, ZeroIsKnown, NullAssumption
        DEF PlannedSwitch, VpcWellFormed, OrZero, IsKnown
  <1>8. s.egress = OrZero(c.egress, FALSE)
    <2>1. plan.egress # Unknown
      BY <1>1, NullAssumption DEF VpcWellFormed, PlannedSwitch
    <2>2. s.egress = PlannedSwitch(c.egress)
      BY <1>1, <1>2, <1>3, <2>1 DEF VpcFields
    <2>3. c.egress # Bare
      BY <2>2, NullAssumption DEF PlannedSwitch, VpcSpecOK
    <2> QED
      BY <2>2, <2>3, ZeroIsKnown, NullAssumption
        DEF PlannedSwitch, VpcWellFormed, OrZero, IsKnown
  <1>9. OrZero(s.dhcp, {}) = IF c.dhcp \in {Null, Bare, NoServers} THEN {}
                             ELSE c.dhcp
    <2>1. c.dhcp = IF s.dhcp \in {Null, {}} THEN Null ELSE s.dhcp
      BY <1>1, <1>2, <1>3 DEF VpcFields, VpcWellFormed
    <2>2. s.dhcp \in {Null, {}} => OrZero(s.dhcp, {}) = {}
      BY DEF OrZero, IsKnown
    <2>3. s.dhcp \notin {Null, {}} => OrZero(s.dhcp, {}) = s.dhcp
      BY DEF OrZero, IsKnown, VpcSpecOK
    <2> QED
      BY <2>1, <2>2, <2>3 DEF VpcSpecOK
  <1> QED
    BY <1>4, <1>5, <1>6, <1>7, <1>8, <1>9 DEF VpcAsAsked

\* What it takes for an answer to be as planned.
LEMMA VpcAnswers ==
    ASSUME NEW c, VpcWellFormed(c), ~VpcLossy(c), NEW prior,
           NEW s, VpcSpecOK(s), VpcHas(s, VpcPlan(prior, c)), s.zone = c.zone,
           VpcPlan(prior, c).host_prefix \in {Unknown, s.host_prefix},
           VpcPlan(prior, c).host_prefixes
              \in {Unknown, IF s.host_prefixes = {} THEN Null
                            ELSE s.host_prefixes}
    PROVE  Consistent(VpcPlan(prior, c), VpcSet(VpcPlan(prior, c), s))
  <1> DEFINE plan == VpcPlan(prior, c)
             answer == VpcSet(plan, s)
  <1>1. /\ DOMAIN plan = VpcFields
        /\ plan.zone = c.zone /\ plan.vpc_prefixes = c.vpc_prefixes
        /\ plan.ingress = PlannedSwitch(c.ingress)
        /\ plan.egress = PlannedSwitch(c.egress)
        /\ plan.dhcp = c.dhcp
    BY VpcPlanned
  <1>2. VpcHas(s, plan)
    OBVIOUS
  <1>3. /\ plan.host_prefix \in {Unknown, s.host_prefix}
        /\ plan.host_prefixes \in {Unknown, IF s.host_prefixes = {} THEN Null
                                            ELSE s.host_prefixes}
    OBVIOUS
  <1> HIDE DEF plan
  <1>4. /\ answer.zone = s.zone /\ answer.host_prefix = s.host_prefix
        /\ answer.host_prefixes = IF s.host_prefixes = {} THEN Null
                                  ELSE s.host_prefixes
        /\ answer.vpc_prefixes = IF s.vpc_prefixes = {} THEN plan.vpc_prefixes
                                 ELSE s.vpc_prefixes
        /\ answer.ingress = s.ingress /\ answer.egress = s.egress
        /\ answer.dhcp = IF s.dhcp \in {Null, {}} THEN Null ELSE s.dhcp
    BY VpcSetFields
  <1> HIDE DEF answer
  <1>5. answer.vpc_prefixes = plan.vpc_prefixes
    BY <1>1, <1>2, <1>4
      DEF VpcHas, OrZero, IsKnown, IsOptional, VpcWellFormed
  <1>6. answer.ingress = plan.ingress
    <2>1. plan.ingress \in BOOLEAN
      BY <1>1 DEF PlannedSwitch, VpcWellFormed, VpcLossy
    <2>2. IsKnown(plan.ingress)
      BY <2>1, ZeroIsKnown
    <2> QED
      BY <1>2, <1>4, <2>2 DEF VpcHas, OrZero
  <1>7. answer.egress = plan.egress
    <2>1. plan.egress \in BOOLEAN
      BY <1>1 DEF PlannedSwitch, VpcWellFormed, VpcLossy
    <2>2. IsKnown(plan.egress)
      BY <2>1, ZeroIsKnown
    <2> QED
      BY <1>2, <1>4, <2>2 DEF VpcHas, OrZero
  <1>8. answer.dhcp = plan.dhcp
    BY <1>1, <1>2, <1>4 DEF VpcHas, GetDhcp, VpcLossy
  <1>9. Consistent(plan, answer)
    <2> SUFFICES ASSUME NEW a \in VpcFields
                 PROVE  plan[a] = Unknown \/ answer[a] = plan[a]
      BY <1>1 DEF Consistent
    <2> QED
      BY <1>1, <1>3, <1>4, <1>5, <1>6, <1>7, <1>8 DEF VpcFields
  <1> QED
    BY <1>9 DEF answer, plan

LEMMA VpcComesBack ==
    ASSUME NEW c, VpcWellFormed(c), ~VpcLossy(c), NEW prior,
           prior.host_prefix = Unknown, prior.host_prefixes = Unknown
    PROVE  LET plan == VpcPlan(prior, c)
           IN Consistent(plan, VpcSet(plan, VpcCreated(VpcCreateRequest(plan))))
  <1> DEFINE plan == VpcPlan(prior, c)
             s == VpcCreated(VpcCreateRequest(plan))
             ranges == PlannedHostPrefixes(c.host_prefixes)
  <1>1. /\ plan.zone = c.zone
        /\ plan.host_prefix = UseStateForUnknown(c.host_prefix, Unknown)
        /\ plan.host_prefixes = UseStateForUnknown(ranges, Unknown)
        /\ plan.dhcp = c.dhcp
    BY VpcPlanned
  <1>2. /\ s.zone = plan.zone /\ VpcHas(s, plan)
        /\ OrZero(plan.host_prefix, "") # ""
              => s.host_prefix = plan.host_prefix
        /\ OrZero(plan.host_prefixes, {}) # {}
              => s.host_prefixes = plan.host_prefixes
    BY VpcCreatedFields
  <1>3. VpcSpecOK(s)
    BY <1>1, VpcCreatedIsSpec DEF VpcPlanPanics, VpcLossy
  <1>4. ranges # Null => IsKnown(ranges) /\ ranges # {}
    BY DEF VpcWellFormed, PlannedHostPrefixes
  <1> HIDE DEF plan, s, ranges
  <1>5. plan.host_prefix \in {Unknown, s.host_prefix}
    BY <1>1, <1>2
      DEF UseStateForUnknown, OrZero, IsKnown, IsOptional, VpcWellFormed, VpcLossy
  <1>6. plan.host_prefixes \in {Unknown, IF s.host_prefixes = {} THEN Null
                                         ELSE s.host_prefixes}
    <2>1. CASE ranges = Null
      BY <1>1, <2>1 DEF UseStateForUnknown, IsKnown
    <2>2. CASE ranges # Null
      <3>1. plan.host_prefixes = ranges
        BY <1>1, <1>4, <2>2 DEF UseStateForUnknown
      <3> QED
        BY <1>2, <1>4, <2>2, <3>1 DEF OrZero
    <2> QED
      BY <2>1, <2>2
  <1>7. Consistent(plan, VpcSet(plan, s))
    BY <1>1, <1>2, <1>3, <1>5, <1>6, VpcAnswers DEF plan
  <1> QED
    BY <1>7 DEF s, plan

LEMMA VpcUpdateComesBack ==
    ASSUME NEW c, VpcWellFormed(c), ~VpcLossy(c), NEW prior,
           ~VpcNeedsReplace(prior, c), NEW s, VpcSpecOK(s),
           VpcHas(s, VpcPlan(prior, c)), prior.zone = s.zone,
           prior.host_prefix = s.host_prefix,
           prior.host_prefixes = IF s.host_prefixes = {} THEN Null
                                 ELSE s.host_prefixes
    PROVE  Consistent(VpcPlan(prior, c), VpcSet(VpcPlan(prior, c), s))
  <1> DEFINE plan == VpcPlan(prior, c)
             ranges == PlannedHostPrefixes(c.host_prefixes)
  <1>1. /\ plan.host_prefix = UseStateForUnknown(c.host_prefix,
                                                 prior.host_prefix)
        /\ plan.host_prefixes = UseStateForUnknown(ranges,
                                                   prior.host_prefixes)
    BY VpcPlanned
  <1>2. /\ c.zone = prior.zone
        /\ c.host_prefix \in {Null, prior.host_prefix}
        /\ ranges \in {Null, prior.host_prefixes}
    BY DEF VpcNeedsReplace
  <1> HIDE DEF plan, ranges
  <1>3. plan.host_prefix = s.host_prefix
    BY <1>1, <1>2 DEF UseStateForUnknown, IsKnown
  <1>4. plan.host_prefixes = prior.host_prefixes
    BY <1>1, <1>2 DEF UseStateForUnknown, IsKnown
  <1> QED
    BY <1>2, <1>3, <1>4, VpcAnswers DEF plan

-----------------------------------------------------------------------------
(* Cluster *)

ClusterFields == {"name", "shared_storage", "public", "version", "lb_names",
                  "node_ports", "audit_policy", "oidc", "webhook", "tailscale"}

\* The blocks of a request, and of the API's object.
OidcSpecOK(oidc) ==
    oidc # Null => /\ oidc \in Oidcs
                   /\ IsKnown(oidc.claim) /\ IsKnown(oidc.algs)
WebhookSpecOK(webhook) ==
    webhook # Null => webhook \in Webhooks /\ IsKnown(webhook.ca)

ClusterSpecOK(s) ==
    /\ s = [a \in ClusterFields |-> s[a]]
    /\ OidcSpecOK(s.oidc) /\ WebhookSpecOK(s.webhook)
    /\ IsKnown(s.audit_policy) /\ IsKnown(s.tailscale)

LEMMA MakesOidc ==
    ASSUME NEW issuer \in STRING, NEW claim \in {Null, ""} \cup STRING,
           NEW algs \in {Null} \cup (SUBSET STRING)
    PROVE  [issuer |-> issuer, claim |-> claim, algs |-> algs] \in Oidcs
  BY DEF Oidcs

LEMMA MakesWebhook ==
    ASSUME NEW server \in STRING, NEW ca \in {Null, ""} \cup STRING
    PROVE  [server |-> server, ca |-> ca] \in Webhooks
  BY DEF Webhooks

LEMMA OidcRequested ==
    ASSUME NEW oidc \in {Null} \cup Oidcs
    PROVE  OidcSpecOK(OidcRequest(oidc))
  <1> SUFFICES ASSUME oidc # Null
               PROVE  /\ OidcRequest(oidc) \in Oidcs
                      /\ IsKnown(OidcRequest(oidc).claim)
                      /\ IsKnown(OidcRequest(oidc).algs)
    BY DEF OidcSpecOK, OidcRequest
  <1>1. oidc \in Oidcs
    OBVIOUS
  <1>2. /\ oidc.issuer \in STRING /\ oidc.claim \in {Null, ""} \cup STRING
        /\ oidc.algs \in {Null} \cup SUBSET STRING
    BY <1>1 DEF Oidcs
  <1> DEFINE claim == OrZero(oidc.claim, "")
             algs == SigningAlgs(oidc)
  <1>3. claim \in {Null, ""} \cup STRING /\ IsKnown(claim)
    BY <1>2, ZeroIsKnown DEF OrZero
  <1>4. algs \in SUBSET STRING /\ IsKnown(algs)
    <2>1. OrZero(oidc.algs, {}) \in SUBSET STRING
      BY <1>2 DEF OrZero, IsKnown
    <2>2. algs \in SUBSET STRING
      BY <2>1 DEF SigningAlgs
    <2>3. algs \in {{}, {"RS256"}}
      BY DEF SigningAlgs
    <2> QED
      BY <2>2, <2>3, ZeroIsKnown, BlockAssumption
  <1>5. OidcRequest(oidc) = [issuer |-> oidc.issuer, claim |-> claim,
                             algs |-> algs]
    BY DEF OidcRequest
  <1> HIDE DEF claim, algs
  <1>6. OidcRequest(oidc) \in Oidcs
    BY <1>2, <1>3, <1>4, <1>5, MakesOidc
  <1>7. OidcRequest(oidc).claim = claim /\ OidcRequest(oidc).algs = algs
    BY <1>5
  <1> QED
    BY <1>3, <1>4, <1>6, <1>7

LEMMA WebhookRequested ==
    ASSUME NEW webhook \in {Null} \cup Webhooks
    PROVE  /\ WebhookSpecOK(WebhookRequest(webhook))
           /\ webhook # Null
                 => WebhookRequest(webhook)
                      = [server |-> webhook.server,
                         ca |-> OrZero(webhook.ca, "")]
  <1> SUFFICES ASSUME webhook # Null
               PROVE  /\ WebhookSpecOK(WebhookRequest(webhook))
                      /\ WebhookRequest(webhook)
                            = [server |-> webhook.server,
                               ca |-> OrZero(webhook.ca, "")]
    BY DEF WebhookSpecOK, WebhookRequest
  <1> DEFINE ca == OrZero(webhook.ca, "")
  <1>1. /\ webhook = [server |-> webhook.server, ca |-> webhook.ca]
        /\ webhook.server \in STRING /\ webhook.ca \in {Null, ""} \cup STRING
    BY DEF Webhooks
  <1>2. ca \in {Null, ""} \cup STRING /\ IsKnown(ca)
    BY <1>1, ZeroIsKnown DEF OrZero
  <1>3. WebhookRequest(webhook) = [webhook EXCEPT !.ca = ca]
    BY DEF WebhookRequest
  <1> HIDE DEF ca
  <1>4. WebhookRequest(webhook) = [server |-> webhook.server, ca |-> ca]
    BY <1>1, <1>3
  <1>5. WebhookRequest(webhook) \in Webhooks
    BY <1>1, <1>2, <1>4, MakesWebhook
  <1>6. WebhookSpecOK(WebhookRequest(webhook))
    <2>1. WebhookRequest(webhook).ca = ca
      BY <1>4
    <2> QED
      BY <1>2, <1>5, <2>1 DEF WebhookSpecOK
  <1> QED
    BY <1>4, <1>6 DEF ca

LEMMA ClusterPlanned ==
    ASSUME NEW c, ClusterWellFormed(c), NEW prior
    PROVE  LET plan == ClusterPlan(prior, c)
           IN /\ DOMAIN plan = ClusterFields
              /\ \A a \in ClusterFields \ {"public", "node_ports"} :
                    plan[a] = c[a]
              /\ plan.public = IF c.public = Null THEN FALSE ELSE c.public
              /\ plan.node_ports
                    = UseStateForUnknown(c.node_ports, prior.node_ports)
  <1> DEFINE public == IF c.public = Null THEN FALSE ELSE c.public
             ports == UseStateForUnknown(c.node_ports, prior.node_ports)
  <1>1. ClusterPlan(prior, c) = [c EXCEPT !.public = public, !.node_ports = ports]
    BY DEF ClusterPlan
  <1> HIDE DEF public, ports
  <1>2. DOMAIN c = ClusterFields
    BY DEF ClusterWellFormed, ClusterFields
  <1> QED
    BY <1>1, <1>2 DEF ClusterFields, public, ports

\* A request, attribute by attribute.
LEMMA ClusterRequestFields ==
    ASSUME NEW plan
    PROVE  LET r == ClusterCreateRequest(plan)
           IN /\ r = [a \in ClusterFields |-> r[a]]
              /\ r.name = plan.name
              /\ r.shared_storage = OrZero(plan.shared_storage, "")
              /\ r.public = plan.public /\ r.version = plan.version
              /\ r.lb_names = plan.lb_names
              /\ r.node_ports = NodePorts(plan)
              /\ r.audit_policy = OrZero(plan.audit_policy, "")
              /\ r.oidc = OidcRequest(plan.oidc)
              /\ r.webhook = WebhookRequest(plan.webhook)
              /\ r.tailscale = OrZero(plan.tailscale, "")
  <1> DEFINE storage == OrZero(plan.shared_storage, "")
             policy == OrZero(plan.audit_policy, "")
             tailscale == OrZero(plan.tailscale, "")
             oidc == OidcRequest(plan.oidc)
             webhook == WebhookRequest(plan.webhook)
             ports == NodePorts(plan)
             r == ClusterCreateRequest(plan)
  <1>1. r = [name |-> plan.name, shared_storage |-> storage,
             public |-> plan.public, version |-> plan.version,
             lb_names |-> plan.lb_names, node_ports |-> ports,
             audit_policy |-> policy, oidc |-> oidc, webhook |-> webhook,
             tailscale |-> tailscale]
    BY DEF ClusterCreateRequest
  <1> HIDE DEF storage, policy, tailscale, oidc, webhook, ports, r
  <1>2. r = [a \in ClusterFields |-> r[a]]
    BY <1>1 DEF ClusterFields
  <1>3. /\ r.name = plan.name /\ r.shared_storage = storage
        /\ r.public = plan.public /\ r.version = plan.version
        /\ r.lb_names = plan.lb_names /\ r.node_ports = ports
        /\ r.audit_policy = policy /\ r.oidc = oidc /\ r.webhook = webhook
        /\ r.tailscale = tailscale
    BY <1>1
  <1> QED
    BY <1>2, <1>3 DEF storage, policy, tailscale, oidc, webhook, ports, r

\* A request is made of what an object is made of.
LEMMA ClusterRequestIsSpec ==
    ASSUME NEW c, ClusterWellFormed(c), NEW prior
    PROVE  ClusterSpecOK(ClusterCreateRequest(ClusterPlan(prior, c)))
  <1> DEFINE plan == ClusterPlan(prior, c)
             r == ClusterCreateRequest(plan)
  <1>1. plan.oidc \in {Null} \cup Oidcs /\ plan.webhook \in {Null} \cup Webhooks
    <2>1. \A a \in ClusterFields \ {"public", "node_ports"} : plan[a] = c[a]
      BY ClusterPlanned
    <2> HIDE DEF plan
    <2>2. plan.oidc = c.oidc /\ plan.webhook = c.webhook
      BY <2>1 DEF ClusterFields
    <2> QED
      BY <2>2 DEF ClusterWellFormed
  <1> HIDE DEF plan
  <1>2. /\ r = [a \in ClusterFields |-> r[a]]
        /\ r.audit_policy = OrZero(plan.audit_policy, "")
        /\ r.oidc = OidcRequest(plan.oidc)
        /\ r.webhook = WebhookRequest(plan.webhook)
        /\ r.tailscale = OrZero(plan.tailscale, "")
    BY ClusterRequestFields
  <1> HIDE DEF r
  <1>3. OidcSpecOK(r.oidc) /\ WebhookSpecOK(r.webhook)
    BY <1>1, <1>2, OidcRequested, WebhookRequested
  <1>4. IsKnown(r.audit_policy) /\ IsKnown(r.tailscale)
    BY <1>2, ZeroIsKnown DEF OrZero
  <1>5. ClusterSpecOK(r)
    BY <1>2, <1>3, <1>4 DEF ClusterSpecOK
  <1> QED
    BY <1>5 DEF r, plan

\* The API keeps what it is given, and completes the ports.
LEMMA ClusterCreatedIsSpec ==
    ASSUME NEW r, ClusterSpecOK(r)
    PROVE  LET s == ClusterCreated(r)
           IN /\ ClusterSpecOK(s)
              /\ \A a \in ClusterFields \ {"node_ports"} : s[a] = r[a]
              /\ s.node_ports = IF r.node_ports = Null THEN DefaultPorts
                                ELSE r.node_ports
  <1> DEFINE ports == IF r.node_ports = Null THEN DefaultPorts ELSE r.node_ports
             s == ClusterCreated(r)
  <1>1. s = [r EXCEPT !.node_ports = ports]
    BY DEF ClusterCreated
  <1> HIDE DEF ports, s
  <1>2. DOMAIN r = ClusterFields
    BY DEF ClusterSpecOK
  <1>3. /\ s = [a \in ClusterFields |-> s[a]]
        /\ \A a \in ClusterFields \ {"node_ports"} : s[a] = r[a]
        /\ s.node_ports = ports
    BY <1>1, <1>2 DEF ClusterSpecOK, ClusterFields
  <1>4. /\ s.oidc = r.oidc /\ s.webhook = r.webhook
        /\ s.audit_policy = r.audit_policy /\ s.tailscale = r.tailscale
    BY <1>3 DEF ClusterFields
  <1>5. ClusterSpecOK(s)
    BY <1>3, <1>4 DEF ClusterSpecOK
  <1> QED
    BY <1>3, <1>5 DEF s, ports

\* An update touches what it names, and does so once; ports it does not name
\* stay.
LEMMA ClusterUpdatedIsSpec ==
    ASSUME NEW old, ClusterSpecOK(old), NEW r, ClusterSpecOK(r),
           NEW changed \in SUBSET (ClusterFields \ Immutable)
    PROVE  LET request == [a \in changed |-> r[a]]
               s == ClusterUpdated(old, request)
           IN /\ ClusterSpecOK(s)
              /\ s.name = old.name /\ s.shared_storage = old.shared_storage
              /\ \A a \in changed :
                    a # "node_ports" \/ r[a] # Null => s[a] = r[a]
              /\ ClusterUpdated(s, request) = s
  <1> DEFINE request == [a \in changed |-> r[a]]
             Kept(a) == a \notin changed \/ (a = "node_ports" /\ r[a] = Null)
             s == ClusterUpdated(old, request)
  <1>1. \A t : DOMAIN t = ClusterFields
           => ClusterUpdated(t, request)
                = [a \in ClusterFields |-> IF Kept(a) THEN t[a] ELSE r[a]]
    BY DEF ClusterUpdated
  <1>2. DOMAIN old = ClusterFields
    BY DEF ClusterSpecOK
  <1>3. s = [a \in ClusterFields |-> IF Kept(a) THEN old[a] ELSE r[a]]
    BY <1>1, <1>2
  <1> HIDE DEF s, request
  <1>4. /\ s = [a \in ClusterFields |-> s[a]] /\ DOMAIN s = ClusterFields
        /\ \A a \in ClusterFields : s[a] = IF Kept(a) THEN old[a] ELSE r[a]
    BY <1>3
  <1>5. Kept("name") /\ Kept("shared_storage")
    BY DEF Immutable
  <1>6. ClusterUpdated(s, request) = s
    <2>1. ClusterUpdated(s, request)
             = [a \in ClusterFields |-> IF Kept(a) THEN s[a] ELSE r[a]]
      BY <1>1, <1>4
    <2> QED
      BY <1>4, <2>1
  <1>7. \A a \in changed : a # "node_ports" \/ r[a] # Null => s[a] = r[a]
    BY <1>4
  <1> HIDE DEF Kept
  <1>8. /\ s.name = old.name /\ s.shared_storage = old.shared_storage
        /\ s.oidc \in {old.oidc, r.oidc}
        /\ s.webhook \in {old.webhook, r.webhook}
        /\ s.audit_policy \in {old.audit_policy, r.audit_policy}
        /\ s.tailscale \in {old.tailscale, r.tailscale}
    BY <1>4, <1>5 DEF ClusterFields
  <1>9. ClusterSpecOK(s)
    BY <1>4, <1>8 DEF ClusterSpecOK
  <1> QED
    BY <1>6, <1>7, <1>8, <1>9 DEF s, request

\* The answer's blocks, over what the model had.
LEMMA OidcAnswered ==
    ASSUME NEW oidc, OidcSpecOK(oidc), NEW model
    PROVE  LET old == IF model = Null
                      THEN [issuer |-> Null, claim |-> Null, algs |-> Null]
                      ELSE model
               answer == OidcSet(model, oidc)
           IN /\ oidc \in {Null, NoOidc} => answer = Null
              /\ oidc \notin {Null, NoOidc}
                    => /\ answer # Null
                       /\ answer = [issuer |-> oidc.issuer,
                                    claim |-> PreservingNull(old.claim,
                                                 oidc.claim, ""),
                                    algs |-> PreservingNull(old.algs,
                                                oidc.algs, {})]
  <1> DEFINE old == IF model = Null
                    THEN [issuer |-> Null, claim |-> Null, algs |-> Null]
                    ELSE model
             claim == PreservingNull(old.claim, oidc.claim, "")
             algs == PreservingNull(old.algs, oidc.algs, {})
             answer == OidcSet(model, oidc)
  <1>1. answer = IF oidc \in {Null, NoOidc} THEN Null
                 ELSE [issuer |-> oidc.issuer, claim |-> claim, algs |-> algs]
    BY DEF OidcSet
  <1>2. CASE oidc \in {Null, NoOidc}
    BY <1>1, <1>2
  <1>3. CASE oidc \notin {Null, NoOidc}
    <2>1. /\ oidc.issuer \in STRING /\ oidc.claim \in {Null, ""} \cup STRING
          /\ oidc.algs \in {Null} \cup (SUBSET STRING)
      BY <1>3 DEF OidcSpecOK, Oidcs
    <2>2. claim \in {Null, oidc.claim} /\ algs \in {Null, oidc.algs}
      BY DEF PreservingNull
    <2> HIDE DEF claim, algs
    <2>3. [issuer |-> oidc.issuer, claim |-> claim, algs |-> algs] \in Oidcs
      BY <2>1, <2>2, MakesOidc
    <2>4. answer # Null
      BY <1>1, <1>3, <2>3, BlockAssumption
    <2> QED
      BY <1>1, <1>3, <2>4 DEF claim, algs
  <1> QED
    BY <1>2, <1>3

LEMMA WebhookAnswered ==
    ASSUME NEW webhook, WebhookSpecOK(webhook), NEW model
    PROVE  LET answer == WebhookSet(model, webhook)
           IN /\ model = Null \/ webhook \in {Null, NoWebhook} => answer = Null
              /\ model # Null /\ webhook \notin {Null, NoWebhook}
                    => /\ answer # Null
                       /\ answer = [server |-> webhook.server,
                                    ca |-> PreservingNull(model.ca,
                                                          webhook.ca, "")]
  <1> DEFINE ca == PreservingNull(model.ca, webhook.ca, "")
             answer == WebhookSet(model, webhook)
  <1>1. answer = IF model = Null \/ webhook \in {Null, NoWebhook} THEN Null
                 ELSE [server |-> webhook.server, ca |-> ca]
    BY DEF WebhookSet
  <1>2. CASE model = Null \/ webhook \in {Null, NoWebhook}
    BY <1>1, <1>2
  <1>3. CASE model # Null /\ webhook \notin {Null, NoWebhook}
    <2>1. webhook.server \in STRING /\ webhook.ca \in {Null, ""} \cup STRING
      BY <1>3 DEF WebhookSpecOK, Webhooks
    <2>2. ca \in {Null, webhook.ca}
      BY DEF PreservingNull
    <2> HIDE DEF ca
    <2>3. [server |-> webhook.server, ca |-> ca] \in Webhooks
      BY <2>1, <2>2, MakesWebhook
    <2>4. answer # Null
      BY <1>1, <1>3, <2>3, BlockAssumption
    <2> QED
      BY <1>1, <1>3, <2>4 DEF ca
  <1> QED
    BY <1>2, <1>3

\* An answer, attribute by attribute.
LEMMA ClusterSetFields ==
    ASSUME NEW model, NEW s
    PROVE  LET answer == ClusterSet(model, s)
           IN /\ DOMAIN answer = ClusterFields
              /\ answer.name = s.name
              /\ answer.shared_storage = model.shared_storage
              /\ answer.public = s.public /\ answer.version = s.version
              /\ answer.lb_names = s.lb_names
              /\ answer.node_ports = IF s.node_ports = NoPorts THEN Null
                                     ELSE s.node_ports
              /\ answer.audit_policy = PreservingNull(model.audit_policy,
                                                      s.audit_policy, "")
              /\ answer.oidc = OidcSet(model.oidc, s.oidc)
              /\ answer.webhook = WebhookSet(model.webhook, s.webhook)
              /\ answer.tailscale = IF s.tailscale = "" THEN Null
                                    ELSE s.tailscale
  BY DEF ClusterSet, ClusterFields

LEMMA ClusterSetTwice ==
    ASSUME NEW s, ClusterSpecOK(s), NEW model
    PROVE  ClusterSet(ClusterSet(model, s), s) = ClusterSet(model, s)
  <1> DEFINE answer == ClusterSet(model, s)
             policy(m) == PreservingNull(m.audit_policy, s.audit_policy, "")
             oidc(m) == OidcSet(m.oidc, s.oidc)
             webhook(m) == WebhookSet(m.webhook, s.webhook)
             ports == IF s.node_ports = NoPorts THEN Null ELSE s.node_ports
             tailscale == IF s.tailscale = "" THEN Null ELSE s.tailscale
  <1>1. ASSUME NEW m
        PROVE  ClusterSet(m, s)
                 = [name |-> s.name, shared_storage |-> m.shared_storage,
                    public |-> s.public, version |-> s.version,
                    lb_names |-> s.lb_names, node_ports |-> ports,
                    audit_policy |-> policy(m), oidc |-> oidc(m),
                    webhook |-> webhook(m), tailscale |-> tailscale]
    BY DEF ClusterSet
  <1>2. /\ answer.shared_storage = model.shared_storage
        /\ answer.audit_policy
              = PreservingNull(model.audit_policy, s.audit_policy, "")
        /\ answer.oidc = OidcSet(model.oidc, s.oidc)
        /\ answer.webhook = WebhookSet(model.webhook, s.webhook)
    BY ClusterSetFields
  <1> HIDE DEF answer, ports, tailscale
  <1>3. policy(answer) = policy(model)
    BY <1>2, PreservedTwice
  <1>4. oidc(answer) = oidc(model)
    <2>1. OidcSpecOK(s.oidc)
      BY DEF ClusterSpecOK
    <2>2. CASE s.oidc \in {Null, NoOidc}
      BY <2>1, <2>2, OidcAnswered
    <2>3. CASE s.oidc \notin {Null, NoOidc}
      <3> DEFINE old == IF model.oidc = Null
                        THEN [issuer |-> Null, claim |-> Null, algs |-> Null]
                        ELSE model.oidc
                 claim(m) == PreservingNull(m, s.oidc.claim, "")
                 algs(m) == PreservingNull(m, s.oidc.algs, {})
      <3>1. /\ answer.oidc # Null
            /\ answer.oidc = [issuer |-> s.oidc.issuer,
                              claim |-> claim(old.claim),
                              algs |-> algs(old.algs)]
        BY <1>2, <2>1, <2>3, OidcAnswered
      <3>2. oidc(answer) = [issuer |-> s.oidc.issuer,
                            claim |-> claim(answer.oidc.claim),
                            algs |-> algs(answer.oidc.algs)]
        BY <2>1, <2>3, <3>1, OidcAnswered
      <3>3. /\ claim(claim(old.claim)) = claim(old.claim)
            /\ algs(algs(old.algs)) = algs(old.algs)
        BY PreservedTwice
      <3> HIDE DEF claim, algs, old
      <3>4. /\ answer.oidc.claim = claim(old.claim)
            /\ answer.oidc.algs = algs(old.algs)
        BY <3>1
      <3>5. oidc(answer) = answer.oidc
        BY <3>1, <3>2, <3>3, <3>4
      <3> QED
        BY <1>2, <3>5
    <2> QED
      BY <2>2, <2>3
  <1>5. webhook(answer) = webhook(model)
    <2>1. WebhookSpecOK(s.webhook)
      BY DEF ClusterSpecOK
    <2>2. CASE model.webhook = Null \/ s.webhook \in {Null, NoWebhook}
      BY <1>2, <2>1, <2>2, WebhookAnswered
    <2>3. CASE model.webhook # Null /\ s.webhook \notin {Null, NoWebhook}
      <3> DEFINE ca(m) == PreservingNull(m, s.webhook.ca, "")
      <3>1. /\ answer.webhook # Null
            /\ answer.webhook = [server |-> s.webhook.server,
                                 ca |-> ca(model.webhook.ca)]
        BY <1>2, <2>1, <2>3, WebhookAnswered
      <3>2. webhook(answer) = [server |-> s.webhook.server,
                               ca |-> ca(answer.webhook.ca)]
        BY <2>1, <2>3, <3>1, WebhookAnswered
      <3>3. ca(ca(model.webhook.ca)) = ca(model.webhook.ca)
        BY PreservedTwice
      <3> HIDE DEF ca
      <3>4. answer.webhook.ca = ca(model.webhook.ca)
        BY <3>1
      <3>5. webhook(answer) = answer.webhook
        BY <3>1, <3>2, <3>3, <3>4
      <3> QED
        BY <1>2, <3>5
    <2> QED
      BY <2>2, <2>3
  <1> HIDE DEF policy, oidc, webhook
  <1>6. ClusterSet(answer, s) = ClusterSet(model, s)
    BY <1>1, <1>2, <1>3, <1>4, <1>5
  <1> QED
    BY <1>6 DEF answer

\* An optional attribute: what the answer says is what the API has, and what
\* was asked for comes back.
LEMMA OptionalAgrees ==
    ASSUME NEW v, IsOptional(v), NEW model, NEW got, IsKnown(got), NEW zero,
           v = PreservingNull(model, got, zero)
    PROVE  got = OrZero(v, zero)
  BY DEF PreservingNull, OrZero, IsKnown

LEMMA OptionalComesBack ==
    ASSUME NEW v, IsOptional(v), NEW zero
    PROVE  PreservingNull(v, OrZero(v, zero), zero) = v
  BY DEF PreservingNull, OrZero, IsKnown, IsOptional

LEMMA ClusterAgreement ==
    ASSUME NEW c, ClusterWellFormed(c), NEW prior, NEW model,
           NEW s, ClusterSpecOK(s),
           c.shared_storage # Null => s.shared_storage = c.shared_storage,
           Consistent(ClusterPlan(prior, c), ClusterSet(model, s))
    PROVE  ClusterAsAsked(c, s)
  <1> DEFINE plan == ClusterPlan(prior, c)
             answer == ClusterSet(model, s)
  <1>1. /\ DOMAIN plan = ClusterFields
        /\ \A a \in ClusterFields \ {"public", "node_ports"} : plan[a] = c[a]
        /\ plan.public = IF c.public = Null THEN FALSE ELSE c.public
        /\ plan.node_ports = UseStateForUnknown(c.node_ports, prior.node_ports)
    BY ClusterPlanned
  <1> HIDE DEF plan
  <1>2. /\ answer.name = s.name
        /\ answer.public = s.public /\ answer.version = s.version
        /\ answer.lb_names = s.lb_names
        /\ answer.node_ports = IF s.node_ports = NoPorts THEN Null
                               ELSE s.node_ports
        /\ answer.audit_policy
              = PreservingNull(model.audit_policy, s.audit_policy, "")
        /\ answer.oidc = OidcSet(model.oidc, s.oidc)
        /\ answer.webhook = WebhookSet(model.webhook, s.webhook)
        /\ answer.tailscale = IF s.tailscale = "" THEN Null ELSE s.tailscale
    BY DEF ClusterSet
  <1>3. \A a \in ClusterFields : plan[a] = Unknown \/ answer[a] = plan[a]
    BY <1>1 DEF Consistent, plan
  <1> HIDE DEF answer
  <1>4. \A a \in ClusterFields \ {"public", "node_ports"} :
           c[a] # Unknown => answer[a] = c[a]
    BY <1>1, <1>3
  <1>5. /\ c.name # Unknown => answer.name = c.name
        /\ c.version # Unknown => answer.version = c.version
        /\ c.lb_names # Unknown => answer.lb_names = c.lb_names
        /\ c.audit_policy # Unknown => answer.audit_policy = c.audit_policy
        /\ c.oidc # Unknown => answer.oidc = c.oidc
        /\ c.webhook # Unknown => answer.webhook = c.webhook
        /\ c.tailscale # Unknown => answer.tailscale = c.tailscale
    BY <1>4 DEF ClusterFields
  <1>6. /\ s.name = c.name /\ s.version = c.version /\ s.lb_names = c.lb_names
    BY <1>2, <1>5 DEF ClusterWellFormed, IsKnown
  <1>7. IsOptional(c.audit_policy) /\ IsOptional(c.node_ports)
           /\ IsOptional(c.tailscale) /\ c.tailscale # ""
    BY DEF ClusterWellFormed
  <1>8. s.public = OrZero(c.public, FALSE)
    <2>1. c.public \in {Null} \cup BOOLEAN
      BY DEF ClusterWellFormed
    <2>2. plan.public # Unknown
      BY <1>1, <2>1, NullAssumption
    <2>3. s.public = plan.public
      BY <1>2, <1>3, <2>2 DEF ClusterFields
    <2> QED
      BY <1>1, <2>1, <2>3, ZeroIsKnown DEF OrZero, IsKnown
  <1>9. c.node_ports # Null => s.node_ports = c.node_ports
    <2> SUFFICES ASSUME c.node_ports # Null
                 PROVE  s.node_ports = c.node_ports
      OBVIOUS
    <2>1. IsKnown(c.node_ports)
      BY <1>7 DEF IsOptional, IsKnown
    <2>2. answer.node_ports = c.node_ports
      BY <1>1, <1>3, <2>1 DEF ClusterFields, UseStateForUnknown, IsKnown
    <2> QED
      BY <1>2, <2>2
  <1>10. s.audit_policy = OrZero(c.audit_policy, "")
    <2>1. c.audit_policy
            = PreservingNull(model.audit_policy, s.audit_policy, "")
      BY <1>2, <1>5, <1>7 DEF IsOptional
    <2> QED
      BY <1>7, <2>1, OptionalAgrees DEF ClusterSpecOK
  <1>11. s.tailscale = OrZero(c.tailscale, "")
    BY <1>2, <1>5, <1>7 DEF IsOptional, OrZero, ClusterSpecOK, IsKnown
  <1>12. IF c.oidc = Null THEN s.oidc \in {Null, NoOidc}
         ELSE s.oidc = [issuer |-> c.oidc.issuer,
                        claim  |-> OrZero(c.oidc.claim, ""),
                        algs   |-> OrZero(c.oidc.algs, {})]
    <2>1. c.oidc \in {Null} \cup Oidcs /\ c.oidc # Unknown
      BY NullAssumption, BlockAssumption DEF ClusterWellFormed
    <2>2. c.oidc = OidcSet(model.oidc, s.oidc) /\ OidcSpecOK(s.oidc)
      BY <1>2, <1>5, <2>1 DEF ClusterSpecOK
    <2>3. CASE c.oidc = Null
      BY <2>2, <2>3, OidcAnswered
    <2>4. CASE c.oidc # Null
      <3> DEFINE old == IF model.oidc = Null
                        THEN [issuer |-> Null, claim |-> Null, algs |-> Null]
                        ELSE model.oidc
                 claim == PreservingNull(old.claim, s.oidc.claim, "")
                 algs == PreservingNull(old.algs, s.oidc.algs, {})
      <3>1. s.oidc \notin {Null, NoOidc}
        BY <2>2, <2>4, OidcAnswered
      <3>2. c.oidc = [issuer |-> s.oidc.issuer, claim |-> claim, algs |-> algs]
        BY <2>2, <3>1, OidcAnswered
      <3>3. /\ s.oidc = [issuer |-> s.oidc.issuer, claim |-> s.oidc.claim,
                         algs |-> s.oidc.algs]
            /\ IsKnown(s.oidc.claim) /\ IsKnown(s.oidc.algs)
        BY <2>2, <3>1 DEF OidcSpecOK, Oidcs
      <3>4. IsOptional(c.oidc.claim) /\ IsOptional(c.oidc.algs)
        BY <2>4 DEF ClusterWellFormed
      <3> HIDE DEF claim, algs
      <3>5. c.oidc.issuer = s.oidc.issuer /\ c.oidc.claim = claim
               /\ c.oidc.algs = algs
        BY <3>2
      <3>6. s.oidc.claim = OrZero(c.oidc.claim, "")
        BY <3>3, <3>4, <3>5, OptionalAgrees DEF claim
      <3>7. s.oidc.algs = OrZero(c.oidc.algs, {})
        BY <3>3, <3>4, <3>5, OptionalAgrees DEF algs
      <3> QED
        BY <2>4, <3>3, <3>5, <3>6, <3>7
    <2> QED
      BY <2>3, <2>4
  <1>13. c.webhook # Null => s.webhook = WebhookRequest(c.webhook)
    <2> SUFFICES ASSUME c.webhook # Null
                 PROVE  s.webhook = WebhookRequest(c.webhook)
      OBVIOUS
    <2> DEFINE ca == PreservingNull(model.webhook.ca, s.webhook.ca, "")
    <2>1. c.webhook \in Webhooks /\ c.webhook # Unknown
      BY BlockAssumption DEF ClusterWellFormed
    <2>2. c.webhook = WebhookSet(model.webhook, s.webhook)
             /\ WebhookSpecOK(s.webhook)
      BY <1>2, <1>5, <2>1 DEF ClusterSpecOK
    <2>3. model.webhook # Null /\ s.webhook \notin {Null, NoWebhook}
      BY <2>2, WebhookAnswered
    <2>4. c.webhook = [server |-> s.webhook.server, ca |-> ca]
      BY <2>2, <2>3, WebhookAnswered
    <2>5. /\ s.webhook = [server |-> s.webhook.server, ca |-> s.webhook.ca]
          /\ IsKnown(s.webhook.ca)
      BY <2>2, <2>3 DEF WebhookSpecOK, Webhooks
    <2>6. IsOptional(c.webhook.ca)
      BY DEF ClusterWellFormed
    <2> HIDE DEF ca
    <2>7. c.webhook.server = s.webhook.server /\ c.webhook.ca = ca
      BY <2>4
    <2>8. s.webhook.ca = OrZero(c.webhook.ca, "")
      BY <2>5, <2>6, <2>7, OptionalAgrees DEF ca
    <2>9. WebhookRequest(c.webhook) = [server |-> c.webhook.server,
                                       ca |-> OrZero(c.webhook.ca, "")]
      BY <2>1, WebhookRequested
    <2> QED
      BY <2>5, <2>7, <2>8, <2>9
  <1> QED
    BY <1>6, <1>8, <1>9, <1>10, <1>11, <1>12, <1>13 DEF ClusterAsAsked

\* An attribute that the API has as the request says comes back as planned.
LEMMA ClusterAnswers ==
    ASSUME NEW c, ClusterWellFormed(c), ~ClusterLossy(c), NEW prior, NEW s
    PROVE  LET plan == ClusterPlan(prior, c)
               answer == ClusterSet(plan, s)
               r == ClusterCreateRequest(plan)
           IN \A a \in ClusterFields \ {"node_ports"} :
                 s[a] = r[a] => answer[a] = plan[a]
  <1> DEFINE plan == ClusterPlan(prior, c)
             answer == ClusterSet(plan, s)
             r == ClusterCreateRequest(plan)
  <1>1. \A a \in ClusterFields \ {"public", "node_ports"} : plan[a] = c[a]
    BY ClusterPlanned
  <1>2. ClusterSpecOK(r)
    BY ClusterRequestIsSpec
  <1> HIDE DEF plan
  <1>3. /\ r.name = plan.name
        /\ r.public = plan.public /\ r.version = plan.version
        /\ r.lb_names = plan.lb_names
        /\ r.audit_policy = OrZero(plan.audit_policy, "")
        /\ r.oidc = OidcRequest(plan.oidc)
        /\ r.webhook = WebhookRequest(plan.webhook)
        /\ r.tailscale = OrZero(plan.tailscale, "")
    BY ClusterRequestFields
  <1>4. /\ answer.name = s.name
        /\ answer.shared_storage = plan.shared_storage
        /\ answer.public = s.public /\ answer.version = s.version
        /\ answer.lb_names = s.lb_names
        /\ answer.audit_policy
              = PreservingNull(plan.audit_policy, s.audit_policy, "")
        /\ answer.oidc = OidcSet(plan.oidc, s.oidc)
        /\ answer.webhook = WebhookSet(plan.webhook, s.webhook)
        /\ answer.tailscale = IF s.tailscale = "" THEN Null ELSE s.tailscale
    BY ClusterSetFields
  <1> HIDE DEF answer, r
  <1>5. plan.audit_policy = c.audit_policy /\ plan.oidc = c.oidc
           /\ plan.webhook = c.webhook /\ plan.tailscale = c.tailscale
    BY <1>1 DEF ClusterFields
  <1>6. /\ IsOptional(plan.audit_policy) /\ IsOptional(plan.tailscale)
        /\ plan.tailscale # ""
    BY <1>5 DEF ClusterWellFormed
  <1>7. s.audit_policy = r.audit_policy
           => answer.audit_policy = plan.audit_policy
    BY <1>3, <1>4, <1>6, OptionalComesBack
  <1>8. s.tailscale = r.tailscale => answer.tailscale = plan.tailscale
    BY <1>3, <1>4, <1>6 DEF OrZero, IsKnown, IsOptional
  <1>9. ASSUME s.oidc = r.oidc
        PROVE  answer.oidc = plan.oidc
    <2>1. s.oidc = OidcRequest(plan.oidc) /\ OidcSpecOK(s.oidc)
      BY <1>2, <1>3, <1>9 DEF ClusterSpecOK
    <2>2. CASE plan.oidc = Null
      <3>1. s.oidc = Null
        BY <2>1, <2>2 DEF OidcRequest
      <3> QED
        BY <1>4, <2>1, <2>2, <3>1, OidcAnswered
    <2>3. CASE plan.oidc # Null
      <3> DEFINE asked == plan.oidc
      <3>1. /\ asked = [issuer |-> asked.issuer, claim |-> asked.claim,
                        algs |-> asked.algs]
            /\ IsOptional(asked.claim) /\ IsOptional(asked.algs)
        <4>1. asked \in Oidcs
          BY <1>5, <2>3 DEF ClusterWellFormed
        <4> QED
          BY <1>5, <2>3, <4>1 DEF Oidcs, ClusterWellFormed
      <3>2. /\ OrZero(asked.algs, {}) = SigningAlgs(asked)
            /\ OidcRequest(asked) # NoOidc
        BY <1>5, <2>3 DEF ClusterLossy
      <3> HIDE DEF asked
      <3>3. s.oidc = [issuer |-> asked.issuer, claim |-> OrZero(asked.claim, ""),
                      algs |-> OrZero(asked.algs, {})]
        BY <2>1, <2>3, <3>2 DEF OidcRequest, asked
      <3>4. s.oidc \notin {Null, NoOidc}
        <4>1. asked \in {Null} \cup Oidcs
          BY <1>5 DEF ClusterWellFormed, asked
        <4>2. asked.issuer \in STRING
                 /\ asked.claim \in {Null, ""} \cup STRING
                 /\ asked.algs \in {Null} \cup (SUBSET STRING)
          BY <2>3, <4>1 DEF Oidcs, asked
        <4>3. OrZero(asked.claim, "") \in {Null, ""} \cup STRING
          BY <4>2 DEF OrZero
        <4>4. OrZero(asked.algs, {}) \in {Null} \cup (SUBSET STRING)
          BY <4>2 DEF OrZero
        <4>5. s.oidc \in Oidcs
          BY <3>3, <4>2, <4>3, <4>4, MakesOidc
        <4> QED
          BY <2>1, <3>2, <4>5, BlockAssumption DEF asked
      <3>5. answer.oidc = [issuer |-> s.oidc.issuer,
                           claim |-> PreservingNull(asked.claim,
                                                    s.oidc.claim, ""),
                           algs |-> PreservingNull(asked.algs,
                                                   s.oidc.algs, {})]
        BY <1>4, <2>1, <2>3, <3>4, OidcAnswered DEF asked
      <3> DEFINE claim == OrZero(asked.claim, "")
                 algs == OrZero(asked.algs, {})
      <3>6. /\ PreservingNull(asked.claim, claim, "") = asked.claim
            /\ PreservingNull(asked.algs, algs, {}) = asked.algs
        BY <3>1, OptionalComesBack
      <3>7. s.oidc.issuer = asked.issuer /\ s.oidc.claim = claim
               /\ s.oidc.algs = algs
        <4>1. s.oidc = [issuer |-> asked.issuer, claim |-> claim,
                        algs |-> algs]
          BY <3>3
        <4> HIDE DEF claim, algs
        <4> QED
          BY <4>1
      <3> HIDE DEF claim, algs
      <3>8. answer.oidc = asked
        BY <3>1, <3>5, <3>6, <3>7
      <3> QED
        BY <3>8 DEF asked
    <2> QED
      BY <2>2, <2>3
  <1>10. ASSUME s.webhook = r.webhook
         PROVE  answer.webhook = plan.webhook
    <2>1. s.webhook = WebhookRequest(plan.webhook) /\ WebhookSpecOK(s.webhook)
      BY <1>2, <1>3, <1>10 DEF ClusterSpecOK
    <2>2. CASE plan.webhook = Null
      BY <1>4, <2>1, <2>2, WebhookAnswered
    <2>3. CASE plan.webhook # Null
      <3> DEFINE asked == plan.webhook
                 ca == OrZero(asked.ca, "")
      <3>1. asked \in Webhooks /\ IsOptional(asked.ca)
        BY <1>5, <2>3 DEF ClusterWellFormed
      <3>2. /\ asked = [server |-> asked.server, ca |-> asked.ca]
            /\ asked.server \in STRING /\ asked.ca \in {Null, ""} \cup STRING
        BY <3>1 DEF Webhooks
      <3>3. WebhookRequest(asked) # NoWebhook
        BY <1>5, <2>3 DEF ClusterLossy
      <3>4. s.webhook = [server |-> asked.server, ca |-> ca]
        BY <2>1, <2>3, <3>1, WebhookRequested
      <3>5. ca \in {Null, ""} \cup STRING
        BY <3>2 DEF OrZero
      <3>6. PreservingNull(asked.ca, ca, "") = asked.ca
        BY <3>1, OptionalComesBack
      <3> HIDE DEF ca, asked
      <3>7. s.webhook \notin {Null, NoWebhook}
        BY <2>1, <3>2, <3>3, <3>4, <3>5, MakesWebhook, BlockAssumption DEF asked
      <3>8. answer.webhook = [server |-> s.webhook.server,
                              ca |-> PreservingNull(asked.ca, s.webhook.ca, "")]
        BY <1>4, <2>1, <2>3, <3>7, WebhookAnswered DEF asked
      <3>9. s.webhook.server = asked.server /\ s.webhook.ca = ca
        BY <3>4
      <3>10. answer.webhook = asked
        BY <3>2, <3>6, <3>8, <3>9
      <3> QED
        BY <3>10 DEF asked
    <2> QED
      BY <2>2, <2>3
  <1> QED
    <2> SUFFICES ASSUME NEW a \in ClusterFields \ {"node_ports"}, s[a] = r[a]
                 PROVE  answer[a] = plan[a]
      BY DEF answer, r, plan
    <2> QED
      BY <1>3, <1>4, <1>7, <1>8, <1>9, <1>10 DEF ClusterFields

LEMMA ClusterComesBack ==
    ASSUME NEW c, ClusterWellFormed(c), ~ClusterLossy(c), NEW prior,
           prior.node_ports = Unknown
    PROVE  LET plan == ClusterPlan(prior, c)
           IN Consistent(plan, ClusterSet(plan,
                                  ClusterCreated(ClusterCreateRequest(plan))))
  <1> DEFINE plan == ClusterPlan(prior, c)
             r == ClusterCreateRequest(plan)
             s == ClusterCreated(r)
             answer == ClusterSet(plan, s)
  <1>1. /\ \A a \in ClusterFields \ {"node_ports"} : s[a] = r[a]
        /\ s.node_ports = IF r.node_ports = Null THEN DefaultPorts
                          ELSE r.node_ports
    BY ClusterRequestIsSpec, ClusterCreatedIsSpec
  <1>2. \A a \in ClusterFields \ {"node_ports"} :
           s[a] = r[a] => answer[a] = plan[a]
    BY ClusterAnswers
  <1>3. DOMAIN plan = ClusterFields
           /\ plan.node_ports = UseStateForUnknown(c.node_ports, Unknown)
    BY ClusterPlanned
  <1> HIDE DEF plan
  <1>4. r.node_ports = NodePorts(plan)
    BY ClusterRequestFields
  <1> HIDE DEF s, r
  <1>5. answer.node_ports = IF s.node_ports = NoPorts THEN Null
                            ELSE s.node_ports
    BY ClusterSetFields
  <1> HIDE DEF answer
  <1>6. plan.node_ports = Unknown \/ answer.node_ports = plan.node_ports
    <2>1. CASE IsKnown(c.node_ports)
      <3>1. plan.node_ports = c.node_ports
        BY <1>3, <2>1 DEF UseStateForUnknown
      <3>2. IsKnown(plan.node_ports) /\ plan.node_ports # NoPorts
        BY <2>1, <3>1 DEF ClusterLossy
      <3> QED
        BY <1>1, <1>4, <1>5, <3>2 DEF NodePorts, IsKnown
    <2>2. CASE ~IsKnown(c.node_ports)
      BY <1>3, <2>2 DEF UseStateForUnknown
    <2> QED
      BY <2>1, <2>2
  <1>7. Consistent(plan, answer)
    BY <1>1, <1>2, <1>3, <1>6 DEF Consistent
  <1> QED
    BY <1>7 DEF answer, s, r, plan

\* What an update asks to change comes back as planned.
LEMMA ClusterUpdateComesBack ==
    ASSUME NEW c, ClusterWellFormed(c), ~ClusterLossy(c), NEW prior,
           ~ClusterNeedsReplace(prior, c), NEW s, ClusterSpecOK(s),
           s = ClusterUpdated(s, ClusterUpdateRequest(ClusterPlan(prior, c),
                                                      prior))
    PROVE  LET plan == ClusterPlan(prior, c)
               answer == ClusterSet(plan, s)
           IN \A a \in ClusterFields : plan[a] # prior[a] => answer[a] = plan[a]
  <1> DEFINE plan == ClusterPlan(prior, c)
             r == ClusterCreateRequest(plan)
             changed == ChangedFields(plan, prior)
             answer == ClusterSet(plan, s)
  <1>1. ClusterSpecOK(r)
    BY ClusterRequestIsSpec
  <1>2. \A a \in ClusterFields \ {"node_ports"} :
           s[a] = r[a] => answer[a] = plan[a]
    BY ClusterAnswers
  <1>3. /\ DOMAIN plan = ClusterFields
        /\ plan.node_ports = UseStateForUnknown(c.node_ports, prior.node_ports)
        /\ \A a \in ClusterFields \ {"public", "node_ports"} : plan[a] = c[a]
    BY ClusterPlanned
  <1>4. s = ClusterUpdated(s, [a \in changed |-> r[a]])
    BY DEF ClusterUpdateRequest
  <1> HIDE DEF plan
  <1>5. r.node_ports = NodePorts(plan)
    BY ClusterRequestFields
  <1> HIDE DEF r
  <1>6. answer.node_ports = IF s.node_ports = NoPorts THEN Null
                            ELSE s.node_ports
    BY ClusterSetFields
  <1> HIDE DEF answer
  <1>7. /\ changed \in SUBSET (ClusterFields \ Immutable)
        /\ \A a \in ClusterFields \ Immutable :
              plan[a] # prior[a] => a \in changed
    BY <1>3 DEF ChangedFields, ClusterFields, Immutable
  <1> HIDE DEF changed
  <1>8. \A a \in changed : a # "node_ports" \/ r[a] # Null => s[a] = r[a]
    BY <1>1, <1>4, <1>7, ClusterUpdatedIsSpec
  <1>9. \A a \in Immutable : plan[a] = prior[a]
    BY <1>3 DEF ClusterNeedsReplace, Immutable, ClusterFields
  <1>10. plan.node_ports # prior.node_ports
            => answer.node_ports = plan.node_ports
    <2> SUFFICES ASSUME plan.node_ports # prior.node_ports
                 PROVE  answer.node_ports = plan.node_ports
      OBVIOUS
    <2>1. plan.node_ports = c.node_ports /\ IsKnown(plan.node_ports)
      BY <1>3 DEF UseStateForUnknown
    <2>2. plan.node_ports # NoPorts
      BY <2>1 DEF ClusterLossy
    <2>3. r.node_ports = plan.node_ports /\ r.node_ports # Null
      BY <1>5, <2>1, <2>2 DEF NodePorts, IsKnown
    <2>4. "node_ports" \in changed
      BY <1>7 DEF ClusterFields, Immutable
    <2>5. s.node_ports = plan.node_ports
      BY <1>8, <2>3, <2>4
    <2> QED
      BY <1>6, <2>2, <2>5
  <1>11. \A a \in ClusterFields : plan[a] # prior[a] => answer[a] = plan[a]
    BY <1>2, <1>7, <1>8, <1>9, <1>10
  <1> QED
    BY <1>11 DEF answer, plan

\* And a webhook that the plan has no more is gone.
LEMMA ClusterUpdateRemoves ==
    ASSUME NEW c, ClusterWellFormed(c), NEW prior, NEW s, ClusterSpecOK(s),
           s = ClusterUpdated(s, ClusterUpdateRequest(ClusterPlan(prior, c),
                                                      prior)),
           c.webhook = Null, prior.webhook # Null
    PROVE  s.webhook = Null
  <1> DEFINE plan == ClusterPlan(prior, c)
             r == ClusterCreateRequest(plan)
             changed == ChangedFields(plan, prior)
  <1>1. ClusterSpecOK(r)
    BY ClusterRequestIsSpec
  <1>2. /\ DOMAIN plan = ClusterFields
        /\ \A a \in ClusterFields \ {"public", "node_ports"} : plan[a] = c[a]
    BY ClusterPlanned
  <1>3. s = ClusterUpdated(s, [a \in changed |-> r[a]])
    BY DEF ClusterUpdateRequest
  <1> HIDE DEF plan
  <1>4. plan.webhook = Null
    BY <1>2 DEF ClusterFields
  <1>5. r.webhook = WebhookRequest(plan.webhook)
    BY ClusterRequestFields
  <1> HIDE DEF r
  <1>6. /\ changed \in SUBSET (ClusterFields \ Immutable)
        /\ "webhook" \in changed
    BY <1>2, <1>4 DEF ChangedFields, ClusterFields, Immutable
  <1> HIDE DEF changed
  <1>7. s.webhook = r.webhook
    BY <1>1, <1>3, <1>6, ClusterUpdatedIsSpec
  <1> QED
    BY <1>4, <1>5, <1>7 DEF WebhookRequest
=============================================================================
