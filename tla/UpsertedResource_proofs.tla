----------------------- MODULE UpsertedResource_proofs -----------------------
(***************************************************************************)
(* Proofs about UpsertedResource, for every set of workspaces, of names    *)
(* and of models and every bound: type correctness, that few policies are  *)
(* orphaned, and what the results of the operations mean.                  *)
(*                                                                         *)
(* An action moves one workspace, or the world (cloud and entitled) alone. *)
(* The invariant has a part for the world and one for each workspace; the  *)
(* latter speaks of what no other workspace and no outsider can change, so *)
(* that every action may be looked at for one workspace alone.             *)
(***************************************************************************)
EXTENDS UpsertedResource, FiniteSetTheorems, TLAPS

\* "disabling archive nulls the retention server-side", and it is never set
\* without archive.
RetentionNeedsArchive(held) ==
    kind = "settings" /\ held # Absent /\ held.days # Null
        => held.archive = TRUE

WorldOK == /\ kind \in Kinds /\ entitled \in BOOLEAN
           /\ cloud \in [Names -> {Absent} \cup Held]
           /\ \A n \in Names : RetentionNeedsArchive(cloud[n])

\* What a workspace's state, operation and configuration have to do with one
\* another: a plan is of the configuration (which no one edits during a run),
\* and the state still is what was planned with.
Fits(st, o, c) ==
    /\ st \in {NoState} \cup State /\ o \in Op /\ c \in Asked
    /\ o.step = "idle" => ~o.replace
    /\ o.step \in {"create", "update"} \/ o.replace
         => c # NoConfig /\ o.name = c.name /\ o.plan = Planned(c.model)
    /\ o.step # "idle" => o.result = "ok"
    /\ o.step = "create" => st = NoState
    /\ o.step \in {"update", "delete"} => st # NoState
    /\ o.step = "update" => st.name = o.name

IInv == /\ WorldOK
        /\ tfstate \in [Workspaces -> {NoState} \cup State]
        /\ op \in [Workspaces -> Op]
        /\ config \in [Workspaces -> Asked]
        /\ \A w \in Workspaces : Fits(tfstate[w], op[w], config[w])
        /\ budget \in Budget

USE KindAssumption, NameAssumption, BudgetAssumption, NullAssumption,
    ModelAssumption, NoneAssumption DEF AllKinds

-----------------------------------------------------------------------------
(* Lemmas: data *)

LEMMA HeldType ==
    ASSUME kind \in Kinds
    PROVE  /\ kind = "settings" => Held = SettingsType
           /\ kind = "policy" => Held = Models["policy"]
           /\ kind \in {"settings", "policy"}
           /\ Absent \notin Held /\ NoState \notin State
  <1>1. kind \in {"settings", "policy"}
    OBVIOUS
  <1>2. Held \subseteq Models["policy"] \cup SettingsType
    BY <1>1 DEF Held
  <1>3. State \subseteq [name : Names,
                         model : Models["policy"] \cup SettingsType,
                         tainted : BOOLEAN]
    BY <1>2 DEF State
  <1> QED
    BY <1>1, <1>2, <1>3 DEF Held

\* What a configuration asks for, and what is planned for it.
LEMMA AskedType ==
    ASSUME kind \in Kinds, NEW c \in Asked, c # NoConfig
    PROVE  /\ c.name \in Names /\ c.model \in Held /\ c.model \in Models[kind]
           /\ Planned(c.model) \in PlanType
           /\ kind = "settings"
                => (c.model.archive = TRUE) = (c.model.days # Null)
  <1>1. /\ c.name \in Names /\ c.model \in Models[kind]
        /\ ValidateConfig(c.model)
    BY DEF Asked
  <1>2. c.model \in Held
    BY <1>1, HeldType DEF Held
  <1>3. CASE kind = "policy"
    BY <1>1, <1>2, <1>3 DEF Planned, PlanType
  <1>4. CASE kind = "settings"
    <2>1. c.model \in SettingsType
      BY <1>2, <1>4, HeldType
    <2>2. Planned(c.model) \in [audit : Switch, archive : Switch \cup {Unknown},
                                days : {Null} \cup Nat]
      BY <1>4, <2>1
        DEF Planned, SettingsPlan, WithDefaults, SettingsType, Switch
    <2> QED
      BY <1>1, <1>2, <1>4, <2>2 DEF PlanType, ValidateConfig
  <1> QED
    BY <1>1, <1>2, <1>3, <1>4, HeldType

\* The plan of settings, field by field.
LEMMA SettingsPlanned ==
    ASSUME kind = "settings", kind \in Kinds, NEW c \in Asked, c # NoConfig
    PROVE  LET plan == Planned(c.model)
           IN /\ DOMAIN plan = {"audit", "archive", "days"}
              /\ plan.audit \in BOOLEAN
              /\ plan.audit = WithDefaults(c.model).audit
              /\ plan.archive = IF c.model.archive = Null THEN Unknown
                                ELSE c.model.archive
              /\ plan.archive \in BOOLEAN \cup {Unknown}
              /\ plan.days = c.model.days
              /\ plan.days \in {Null} \cup Nat
              /\ (plan.days # Null) = (plan.archive = TRUE)
              /\ WithDefaults(c.model).archive = c.model.archive
              /\ WithDefaults(c.model).days = c.model.days
  <1>1. c.model \in SettingsType
    BY AskedType, HeldType
  <1>2. (c.model.archive = TRUE) = (c.model.days # Null)
    BY AskedType
  <1> QED
    BY <1>1, <1>2
      DEF Planned, SettingsPlan, WithDefaults, SettingsType, Switch

\* What is disclosed of what is held is of the same kind, and audit as it is.
LEMMA DisclosedType ==
    ASSUME kind \in Kinds, NEW held \in Held
    PROVE  /\ Disclosed(held) \in Held
           /\ kind = "settings" => /\ Disclosed(held).audit = held.audit
                                   /\ Disclosed(held).days \in {Null, held.days}
           /\ entitled => Disclosed(held) = held
  <1>1. CASE kind = "policy"
    BY <1>1 DEF Disclosed
  <1>2. CASE kind = "settings"
    <2>1. held \in SettingsType
      BY <1>2, HeldType
    <2>2. /\ [held EXCEPT !.archive = Null, !.days = Null] \in SettingsType
          /\ [held EXCEPT !.archive = Null, !.days = Null].audit = held.audit
          /\ [held EXCEPT !.archive = Null, !.days = Null].days = Null
      BY <2>1 DEF SettingsType, Switch
    <2> QED
      BY <1>2, <2>1, <2>2, HeldType DEF Disclosed
  <1> QED
    BY <1>1, <1>2, HeldType

\* A request for settings, and what becomes of them.
LEMMA SettingsStored ==
    ASSUME kind = "settings", kind \in Kinds,
           NEW old \in SettingsType, NEW request \in SettingsType
    PROVE  LET new == Stored(old, request)
           IN /\ new \in SettingsType
              /\ new.audit = IF request.audit # Null THEN request.audit
                             ELSE old.audit
              /\ new.archive = IF request.archive # Null THEN request.archive
                               ELSE old.archive
              /\ new.days = IF request.archive = FALSE THEN Null
                            ELSE IF request.days # Null THEN request.days
                            ELSE old.days
  <1> DEFINE new == Stored(old, request)
  <1>1. DOMAIN request = {"audit", "archive", "days"}
    BY DEF SettingsType
  <1>2. new = [a \in DOMAIN request |->
                 IF a = "days" /\ request.archive = FALSE THEN Null
                 ELSE IF request[a] # Null THEN request[a] ELSE old[a]]
    BY DEF Stored
  <1>3. /\ DOMAIN new = {"audit", "archive", "days"}
        /\ new.audit = IF request.audit # Null THEN request.audit ELSE old.audit
        /\ new.archive = IF request.archive # Null THEN request.archive
                         ELSE old.archive
        /\ new.days = IF request.archive = FALSE THEN Null
                      ELSE IF request.days # Null THEN request.days
                      ELSE old.days
    BY <1>1, <1>2
  <1>4. new = [audit |-> new.audit, archive |-> new.archive, days |-> new.days]
    BY <1>1, <1>2
  <1>5. new \in SettingsType
    BY <1>3, <1>4 DEF SettingsType
  <1> QED
    BY <1>3, <1>5

\* What an upsert that is not refused, and a deletion of settings, leave.
LEMMA StoredType ==
    ASSUME kind \in Kinds, NEW old \in {Absent} \cup Held, NEW request \in Held,
           kind = "settings" => old # Absent,
           kind = "settings" /\ request.days # Null => request.archive = TRUE,
           RetentionNeedsArchive(old)
    PROVE  /\ Stored(old, request) \in Held
           /\ RetentionNeedsArchive(Stored(old, request))
  <1>1. CASE kind = "policy"
    BY <1>1, HeldType DEF Stored, RetentionNeedsArchive
  <1>2. CASE kind = "settings"
    <2>1. old \in SettingsType /\ request \in SettingsType
      BY <1>2, HeldType
    <2>2. Stored(old, request) \in SettingsType
      BY <1>2, <2>1, SettingsStored
    <2>3. ASSUME Stored(old, request).days # Null
          PROVE  Stored(old, request).archive = TRUE
      <3>1. request.archive \in Switch
        BY <2>1 DEF SettingsType
      <3>2. request.archive # FALSE
        BY <1>2, <2>1, <2>3, SettingsStored
      <3>3. CASE request.archive = Null
        <4>1. TRUE # Null
          OBVIOUS
        <4>2. request.days = Null
          BY <1>2, <3>3, <4>1
        <4>3. old.days # Null /\ Stored(old, request).archive = old.archive
          BY <1>2, <2>1, <2>3, <3>2, <3>3, <4>2, SettingsStored
        <4> QED
          BY <1>2, <4>3 DEF RetentionNeedsArchive
      <3>4. CASE request.archive = TRUE
        <4>1. TRUE # Null
          OBVIOUS
        <4> QED
          BY <1>2, <2>1, <3>4, <4>1, SettingsStored
      <3> QED
        BY <3>1, <3>2, <3>3, <3>4 DEF Switch
    <2> QED
      BY <1>2, <2>2, <2>3, HeldType DEF RetentionNeedsArchive
  <1> QED
    BY <1>1, <1>2, HeldType

\* The request of an upsert says what was planned, but for the unknown.
LEMMA RequestType ==
    ASSUME kind \in Kinds, NEW w \in Workspaces, NEW c \in Asked, c # NoConfig,
           op[w].plan = Planned(c.model)
    PROVE  /\ Request(w) \in Held
           /\ kind = "policy" => Request(w) = c.model
           /\ kind = "settings" =>
                /\ Request(w).audit = op[w].plan.audit
                /\ Request(w).archive = IF op[w].plan.archive = Unknown THEN Null
                                        ELSE op[w].plan.archive
                /\ Request(w).days = op[w].plan.days
                /\ (Request(w).days # Null) = (Request(w).archive = TRUE)
  <1>1. CASE kind = "policy"
    BY <1>1, AskedType, HeldType DEF Request, Planned
  <1>2. CASE kind = "settings"
    <2> DEFINE plan == op[w].plan
    <2>1. /\ DOMAIN plan = {"audit", "archive", "days"}
          /\ plan.audit \in BOOLEAN /\ plan.days \in {Null} \cup Nat
          /\ plan.archive \in BOOLEAN \cup {Unknown}
          /\ (plan.days # Null) = (plan.archive = TRUE)
      BY <1>2, SettingsPlanned
    <2>2. plan \in PlanType
      BY AskedType
    <2>3. Request(w) = [a \in DOMAIN plan |->
                          IF plan[a] = Unknown THEN Null ELSE plan[a]]
      BY <1>2 DEF Request, ToProtoObject
    <2>4. /\ Request(w) \in SettingsType
          /\ Request(w).audit = plan.audit
          /\ Request(w).archive = IF plan.archive = Unknown THEN Null
                                  ELSE plan.archive
          /\ Request(w).days = plan.days
      BY <1>2, <2>1, <2>2, <2>3 DEF PlanType, SettingsType, Switch
    <2> QED
      BY <1>2, <2>1, <2>4, HeldType
  <1> QED
    BY <1>1, <1>2, HeldType

-----------------------------------------------------------------------------
(* Lemmas: steps *)

LEMMA ChargeType ==
    ASSUME budget \in Budget, NEW what \in {"faults", "edits", "outside"},
           Charge(what)
    PROVE  budget' \in Budget
  BY DEF Charge, Budget

LEMMA IdleOpType ==
    ASSUME NEW result \in Results
    PROVE  /\ IdleOp(result) \in Op /\ IdleOp(result).step = "idle"
           /\ ~IdleOp(result).replace
           /\ IdleOp(result).result = result
  BY DEF IdleOp, Op, Steps

\* One name changes in the cloud, and nothing else of the world.
LEMMA CloudPreserved ==
    ASSUME WorldOK, NEW n \in Names, NEW held \in {Absent} \cup Held,
           RetentionNeedsArchive(held),
           cloud' = [cloud EXCEPT ![n] = held], UNCHANGED <<kind, entitled>>
    PROVE  WorldOK'
  BY DEF WorldOK, RetentionNeedsArchive, Held

\* A workspace moves, to state st and operation o.
LEMMA OneMoves ==
    ASSUME IInv, WorldOK', budget' \in Budget, UNCHANGED <<kind, config>>,
           NEW w \in Workspaces,
           NEW st \in {NoState} \cup State, NEW o \in Op,
           tfstate' = [tfstate EXCEPT ![w] = st], op' = [op EXCEPT ![w] = o],
           Fits(st, o, config[w])
    PROVE  IInv'
  <1>1. /\ State' = State /\ Op' = Op /\ Asked' = Asked
    BY DEF State, Op, Asked, Held, PlanType, ValidateConfig
  <1>2. /\ tfstate' \in [Workspaces -> {NoState} \cup State]
        /\ op' \in [Workspaces -> Op] /\ config' \in [Workspaces -> Asked]
    BY DEF IInv
  <1>3. ASSUME NEW v \in Workspaces
        PROVE  Fits(tfstate'[v], op'[v], config[v])
    <2>1. CASE v = w
      BY <2>1 DEF IInv
    <2>2. CASE v # w
      BY <2>2 DEF IInv
    <2> QED
      BY <2>1, <2>2
  <1>4. ASSUME NEW v \in Workspaces
        PROVE  Fits(tfstate[v], op[v], config[v])'
    <2>1. Planned(config[v].model)' = Planned(config[v].model)
      BY DEF Planned, SettingsPlan, WithDefaults
    <2> QED
      BY <1>1, <1>3, <2>1 DEF Fits
  <1> QED
    BY <1>1, <1>2, <1>4 DEF IInv

\* An operation that ends with state st.
LEMMA EndPreserves ==
    ASSUME IInv, WorldOK', budget' \in Budget, UNCHANGED <<kind, config>>,
           NEW w \in Workspaces, NEW st \in {NoState} \cup State,
           NEW result \in Results, Finish(w, st, result)
    PROVE  IInv'
  <1>1. Fits(st, IdleOp(result), config[w])
    BY IdleOpType DEF Fits, IInv
  <1> QED
    BY <1>1, IdleOpType, OneMoves DEF Finish

LEMMA FailPreserves ==
    ASSUME IInv, WorldOK', budget' \in Budget, UNCHANGED <<kind, config>>,
           NEW w \in Workspaces, Finish(w, tfstate[w], "error")
    PROVE  IInv'
  BY EndPreserves DEF IInv, Results

-----------------------------------------------------------------------------
(* The actions *)

\* What a refresh leaves in the state.
LEMMA ReadType ==
    ASSUME IInv, NEW w \in Workspaces
    PROVE  /\ Read(w) \in {NoState} \cup State
           /\ tfstate[w] # NoState => tfstate[w].name \in Names
           /\ Read(w) = NoState \/ (/\ tfstate[w] # NoState
                                    /\ Read(w).name = tfstate[w].name
                                    /\ cloud[tfstate[w].name] # Absent)
  <1>1. CASE Read(w) = NoState
    BY <1>1 DEF IInv, State
  <1>2. CASE Read(w) # NoState
    <2>1. tfstate[w] \in State /\ tfstate[w] # NoState
      BY <1>2 DEF Read, IInv
    <2>2. /\ tfstate[w].name \in Names /\ cloud[tfstate[w].name] # Absent
          /\ cloud[tfstate[w].name] \in Held
      BY <1>2, <2>1 DEF Read, State, IInv, WorldOK
    <2>3. Disclosed(cloud[tfstate[w].name]) \in Held
      BY <2>2, DisclosedType DEF IInv, WorldOK
    <2>4. /\ Read(w) \in State /\ Read(w).name = tfstate[w].name
      BY <1>2, <2>1, <2>3 DEF Read, State
    <2> QED
      BY <2>1, <2>2, <2>4
  <1> QED
    BY <1>1, <1>2

\* The operation that a plan starts for configuration c.
Start(c, step, replace) ==
    [IdleOp("ok") EXCEPT
       !.step = step, !.replace = replace,
       !.name = IF c = NoConfig THEN NoName ELSE c.name,
       !.plan = IF c = NoConfig THEN Null ELSE Planned(c.model)]

LEMMA StartType ==
    ASSUME kind \in Kinds, NEW c \in Asked,
           NEW step \in {"create", "update", "delete"}, NEW replace \in BOOLEAN
    PROVE  LET o == Start(c, step, replace)
           IN /\ o \in Op /\ o.step = step /\ o.replace = replace
              /\ o.result = "ok"
              /\ c # NoConfig => o.name = c.name /\ o.plan = Planned(c.model)
  <1>1. c # NoConfig => c.name \in Names /\ Planned(c.model) \in PlanType
    BY AskedType
  <1> QED
    BY <1>1 DEF Start, IdleOp, Op, Steps, Results

\* The five ways in which a plan goes.
LEMMA PlanIs ==
    ASSUME NEW st, NEW c
    PROVE  \/ Plan(st, c) = IdleOp("ok")
           \/ c = NoConfig /\ st # NoState /\ Plan(st, c) = Start(c, "delete", FALSE)
           \/ c # NoConfig /\ st = NoState /\ Plan(st, c) = Start(c, "create", FALSE)
           \/ c # NoConfig /\ st # NoState /\ Plan(st, c) = Start(c, "delete", TRUE)
           \/ /\ c # NoConfig /\ st # NoState /\ st.name = c.name
              /\ Plan(st, c) = Start(c, "update", FALSE)
  BY DEF Plan, Start, NeedsReplace

\* A plan fits the state and the configuration it was made from.
LEMMA PlanFits ==
    ASSUME kind \in Kinds, NEW c \in Asked, NEW st \in {NoState} \cup State
    PROVE  Plan(st, c) \in Op /\ Fits(st, Plan(st, c), c)
  <1>1. CASE Plan(st, c) = IdleOp("ok")
    BY <1>1, IdleOpType DEF Fits, Results
  <1>2. ASSUME NEW step \in {"create", "update", "delete"},
               NEW replace \in BOOLEAN,
               Plan(st, c) = Start(c, step, replace),
               step \in {"create", "update"} \/ replace => c # NoConfig,
               step = "create" => st = NoState,
               step \in {"update", "delete"} => st # NoState,
               step = "update" => st.name = c.name
        PROVE  Plan(st, c) \in Op /\ Fits(st, Plan(st, c), c)
    <2> DEFINE o == Plan(st, c)
    <2>1. /\ o \in Op /\ o.step = step /\ o.replace = replace
          /\ o.result = "ok"
          /\ c # NoConfig => o.name = c.name /\ o.plan = Planned(c.model)
      BY <1>2, StartType
    <2> HIDE DEF o
    <2>2. Fits(st, o, c)
      BY <1>2, <2>1 DEF Fits
    <2> QED
      BY <2>1, <2>2 DEF o
  <1>3. CASE c = NoConfig /\ st # NoState /\ Plan(st, c) = Start(c, "delete", FALSE)
    BY <1>2, <1>3
  <1>4. CASE c # NoConfig /\ st = NoState /\ Plan(st, c) = Start(c, "create", FALSE)
    BY <1>2, <1>4
  <1>5. CASE c # NoConfig /\ st # NoState /\ Plan(st, c) = Start(c, "delete", TRUE)
    BY <1>2, <1>5
  <1>6. CASE /\ c # NoConfig /\ st # NoState /\ st.name = c.name
             /\ Plan(st, c) = Start(c, "update", FALSE)
    BY <1>2, <1>6
  <1> QED
    BY <1>1, <1>3, <1>4, <1>5, <1>6, PlanIs

LEMMA RefreshPreserves ==
    ASSUME IInv, NEW w \in Workspaces, Refresh(w)
    PROVE  IInv'
  <1>1. Read(w) \in {NoState} \cup State
    BY ReadType
  <1>2. /\ Plan(Read(w), config[w]) \in Op
        /\ Fits(Read(w), Plan(Read(w), config[w]), config[w])
    BY <1>1, PlanFits DEF IInv, WorldOK
  <1>3. WorldOK' /\ budget' \in Budget
    BY DEF Refresh, IInv, WorldOK, RetentionNeedsArchive, Held
  <1> QED
    BY <1>1, <1>2, <1>3, OneMoves DEF Refresh

\* What a create or an update has to work with.
LEMMA UpsertContext ==
    ASSUME IInv, NEW w \in Workspaces, op[w].step \in {"create", "update"}
    PROVE  /\ kind \in Kinds
           /\ config[w] \in Asked /\ config[w] # NoConfig
           /\ op[w].name \in Names /\ op[w].name = config[w].name
           /\ op[w].plan = Planned(config[w].model)
           /\ Request(w) \in Held
           /\ cloud[op[w].name] \in {Absent} \cup Held
           /\ RetentionNeedsArchive(cloud[op[w].name])
  <1>1. Fits(tfstate[w], op[w], config[w]) /\ WorldOK
    BY DEF IInv
  <1>2. /\ kind \in Kinds /\ config[w] \in Asked /\ config[w] # NoConfig
        /\ op[w].name = config[w].name
        /\ op[w].plan = Planned(config[w].model)
    BY <1>1 DEF Fits, WorldOK
  <1>3. op[w].name \in Names /\ Request(w) \in Held
    BY <1>2, AskedType, RequestType
  <1> QED
    BY <1>1, <1>2, <1>3 DEF WorldOK

\* What an upsert that took effect leaves under the name.
LEMMA StoredPreserves ==
    ASSUME IInv, NEW w \in Workspaces, op[w].step \in {"create", "update"},
           ~Refused(op[w].name, Request(w)),
           cloud' = [cloud EXCEPT ![op[w].name] = Stored(@, Request(w))],
           UNCHANGED <<kind, entitled>>
    PROVE  /\ WorldOK'
           /\ cloud'[op[w].name] = Stored(cloud[op[w].name], Request(w))
           /\ cloud'[op[w].name] \in Held
  <1>2. kind = "settings" => cloud[op[w].name] # Absent
    BY DEF Refused
  <1>3. kind = "settings"
          => (Request(w).days # Null) = (Request(w).archive = TRUE)
    BY UpsertContext, RequestType
  <1>4. /\ Stored(cloud[op[w].name], Request(w)) \in Held
        /\ RetentionNeedsArchive(Stored(cloud[op[w].name], Request(w)))
    BY <1>2, <1>3, UpsertContext, StoredType
  <1>5. WorldOK'
    BY <1>4, UpsertContext, CloudPreserved DEF IInv
  <1>6. cloud'[op[w].name] = Stored(cloud[op[w].name], Request(w))
    BY UpsertContext DEF IInv, WorldOK
  <1> QED
    BY <1>4, <1>5, <1>6

\* An upsert of a policy that is no request.
Unsent(w) == NoRequest(w) /\ UNCHANGED <<kind, entitled, cloud, config, budget>>

LEMMA UpsertsAre ==
    ASSUME NEW w \in Workspaces, Upserts(w)
    PROVE  /\ op[w].step \in {"create", "update"}
           /\ Upsert(w) \/ Unsent(w)
  BY DEF Upserts, SettingsCreate, SettingsUpdate, PolicyCreate, PolicyUpdate,
     PolicyUpsert, Unsent

\* It changes nothing but the operation.
LEMMA UnsentIs ==
    ASSUME IInv, NEW w \in Workspaces, Unsent(w)
    PROVE  /\ kind = "policy" /\ op[w].plan \in Unconvertible
           /\ UNCHANGED <<kind, entitled, cloud, tfstate, config, budget>>
           /\ op'[w].result = IF op[w].step = "create" THEN "error"
                              ELSE "inconsistent"
           /\ \E result \in Results : Finish(w, tfstate[w], result)
  <1> DEFINE result == IF op[w].step = "create" THEN "error" ELSE "inconsistent"
  <1>1. /\ kind = "policy" /\ op[w].plan \in Unconvertible
        /\ Finish(w, tfstate[w], result)
        /\ UNCHANGED <<kind, entitled, cloud, config, budget>>
    BY DEF Unsent, NoRequest
  <1>2. result \in Results
    BY DEF Results
  <1> HIDE DEF result
  <1>3. UNCHANGED tfstate /\ op'[w].result = result
    BY <1>1 DEF Finish, IdleOp, IInv
  <1> QED
    BY <1>1, <1>2, <1>3 DEF result

LEMMA UnsentPreserves ==
    ASSUME IInv, NEW w \in Workspaces, Unsent(w)
    PROVE  IInv'
  <1>1. WorldOK' /\ budget' \in Budget
    BY UnsentIs DEF IInv, WorldOK, RetentionNeedsArchive, Held
  <1> QED
    BY <1>1, UnsentIs, EndPreserves DEF IInv, WorldOK

LEMMA UpsertPreserves ==
    ASSUME IInv, NEW w \in Workspaces, op[w].step \in {"create", "update"},
           Upsert(w)
    PROVE  IInv'
  <1>1. UNCHANGED <<kind, entitled, config>>
    BY DEF Upsert
  <1>2. budget' \in Budget
    BY ChargeType DEF Upsert, IInv
  <1>3. CASE Finish(w, tfstate[w], "error")
    <2>1. WorldOK'
      BY <1>1, StoredPreserves DEF Upsert, IInv, WorldOK, RetentionNeedsArchive, Held
    <2> QED
      BY <1>1, <1>2, <1>3, <2>1, FailPreserves
  <1>4. CASE /\ ~Refused(op[w].name, Request(w))
             /\ cloud' = [cloud EXCEPT ![op[w].name] = Stored(@, Request(w))]
             /\ Answered(w)
    <2> DEFINE plan == op[w].plan
               model == IF kind = "policy" THEN plan
                        ELSE Disclosed(cloud'[op[w].name])
               result == IF \/ kind = "policy"
                            \/ \A a \in DOMAIN plan : plan[a] \in {Unknown, model[a]}
                         THEN "ok" ELSE "inconsistent"
               st == [name |-> op[w].name, model |-> model,
                      tainted |-> op[w].step = "create" /\ result # "ok"]
    <2>1. WorldOK' /\ cloud'[op[w].name] \in Held
      BY <1>1, <1>4, StoredPreserves
    <2>2. model \in Held
      <3>1. CASE kind = "policy"
        BY <3>1, UpsertContext, RequestType DEF Request
      <3>2. CASE kind = "settings"
        BY <2>1, <3>2, DisclosedType, UpsertContext
      <3> QED
        BY <3>1, <3>2, HeldType, UpsertContext
    <2>3. st \in State
      BY <2>2, UpsertContext DEF State
    <2>4. result \in Results
      BY DEF Results
    <2>5. Finish(w, st, result)
      BY <1>4 DEF Answered
    <2> HIDE DEF st, result
    <2> QED
      BY <1>1, <1>2, <2>1, <2>3, <2>4, <2>5, EndPreserves
  <1> QED
    BY <1>3, <1>4 DEF Upsert

\* What a Delete has to work with; "disabling archive" is all it says of it.
LEMMA DeleteContext ==
    ASSUME IInv, NEW w \in Workspaces, op[w].step = "delete"
    PROVE  /\ kind \in Kinds
           /\ tfstate[w] \in State /\ tfstate[w] # NoState
           /\ tfstate[w].name \in Names /\ tfstate[w].model \in Held
           /\ kind = "settings" =>
                LET request == DeleteRequest(tfstate[w].model)
                IN /\ request \in SettingsType
                   /\ request.audit = FALSE /\ request.days = Null
                   /\ request.archive = IF tfstate[w].model.archive = TRUE
                                        THEN FALSE ELSE Null
           /\ cloud[tfstate[w].name] \in {Absent} \cup Held
           /\ RetentionNeedsArchive(cloud[tfstate[w].name])
  <1>1. tfstate[w] \in State /\ tfstate[w] # NoState
    BY DEF IInv, Fits
  <1>2. tfstate[w].name \in Names /\ tfstate[w].model \in Held
    BY <1>1 DEF State
  <1> QED
    BY <1>1, <1>2 DEF DeleteRequest, SettingsType, Switch, IInv, WorldOK

\* What a Delete does: a deletion leaves what the kind says.
LEMMA DeleteIs ==
    ASSUME IInv, NEW w \in Workspaces, SettingsDelete(w) \/ PolicyDelete(w)
    PROVE  /\ op[w].step = "delete"
           /\ \E left \in {Absent} \cup Held, refused \in BOOLEAN :
                /\ Delete(w, left, refused)
                /\ RetentionNeedsArchive(left)
                /\ kind = "policy" => left = Absent /\ ~refused
                /\ kind = "settings" /\ cloud[tfstate[w].name] = Absent
                     => left = Absent /\ ~refused
                /\ kind = "settings" /\ cloud[tfstate[w].name] # Absent =>
                     LET request == DeleteRequest(tfstate[w].model)
                     IN /\ left = Stored(cloud[tfstate[w].name], request)
                        /\ refused = Refused(tfstate[w].name, request)
  <1> DEFINE request == DeleteRequest(tfstate[w].model)
             left == Stored(cloud[tfstate[w].name], request)
  <1>1. op[w].step = "delete"
    BY DEF SettingsDelete, PolicyDelete
  <1>2. CASE PolicyDelete(w)
    BY <1>1, <1>2 DEF PolicyDelete, RetentionNeedsArchive
  <1>3. CASE SettingsDelete(w) /\ cloud[tfstate[w].name] = Absent
    BY <1>1, <1>3 DEF SettingsDelete, RetentionNeedsArchive
  <1>4. CASE SettingsDelete(w) /\ cloud[tfstate[w].name] # Absent
    <2>1. kind = "settings" /\ Delete(w, left, Refused(tfstate[w].name, request))
      BY <1>4 DEF SettingsDelete
    <2>2. /\ request \in SettingsType /\ request.days = Null
      BY <1>1, <2>1, DeleteContext
    <2>3. request \in Held
      BY <1>1, <2>1, <2>2, DeleteContext, HeldType
    <2>4. left \in Held /\ RetentionNeedsArchive(left)
      BY <1>1, <1>4, <2>2, <2>3, DeleteContext, StoredType
    <2>5. Refused(tfstate[w].name, request) \in BOOLEAN
      BY DEF Refused
    <2> QED
      BY <1>1, <1>4, <2>1, <2>4, <2>5
  <1> QED
    BY <1>2, <1>3, <1>4

LEMMA DeletePreserves ==
    ASSUME IInv, NEW w \in Workspaces, SettingsDelete(w) \/ PolicyDelete(w)
    PROVE  IInv'
  <1>1. PICK left \in {Absent} \cup Held, refused \in BOOLEAN :
           Delete(w, left, refused) /\ RetentionNeedsArchive(left)
    BY DeleteIs
  <1>2. op[w].step = "delete" /\ tfstate[w].name \in Names
    BY DeleteIs, DeleteContext
  <1>3. UNCHANGED <<kind, entitled, config>> /\ budget' \in Budget
    BY <1>1, ChargeType DEF Delete, IInv
  <1>4. WorldOK'
    <2>1. CASE cloud' = [cloud EXCEPT ![tfstate[w].name] = left]
      BY <1>1, <1>2, <1>3, <2>1, CloudPreserved DEF IInv
    <2>2. CASE UNCHANGED cloud
      BY <1>3, <2>2 DEF IInv, WorldOK, RetentionNeedsArchive, Held
    <2> QED
      BY <1>1, <2>1, <2>2 DEF Delete
  <1>5. CASE Finish(w, tfstate[w], "error")
    BY <1>3, <1>4, <1>5, FailPreserves
  <1>6. CASE Deleted(w) /\ ~op[w].replace
    <2>1. Finish(w, NoState, "ok")
      BY <1>6 DEF Deleted, Finish
    <2> QED
      BY <1>3, <1>4, <2>1, EndPreserves DEF Results
  <1>7. CASE Deleted(w) /\ op[w].replace
    <2> DEFINE o == [op[w] EXCEPT !.step = "create"]
    <2>1. Fits(tfstate[w], op[w], config[w])
      BY DEF IInv
    <2>2. /\ o \in Op /\ o.step = "create" /\ o.name = op[w].name
          /\ o.plan = op[w].plan /\ o.result = op[w].result
          /\ o.replace = op[w].replace
      BY <2>1 DEF Fits, Op, Steps
    <2>3. /\ tfstate' = [tfstate EXCEPT ![w] = NoState]
          /\ op' = [op EXCEPT ![w] = o]
      BY <1>7 DEF Deleted
    <2> HIDE DEF o
    <2>4. Fits(NoState, o, config[w])
      BY <1>2, <1>7, <2>1, <2>2 DEF Fits
    <2> QED
      BY <1>3, <1>4, <2>2, <2>3, <2>4, OneMoves
  <1> QED
    BY <1>1, <1>5, <1>6, <1>7 DEF Delete

LEMMA ImportPreserves ==
    ASSUME IInv, NEW w \in Workspaces, ImportState(w)
    PROVE  IInv'
  <1> DEFINE st == [name |-> config[w].name, tainted |-> FALSE,
                    model |-> Disclosed(cloud[config[w].name])]
  <1>1. /\ UNCHANGED <<kind, config>> /\ budget' \in Budget /\ WorldOK'
        /\ Finish(w, st, "ok")
    BY DEF ImportState, IInv, WorldOK, RetentionNeedsArchive, Held
  <1>2. config[w].name \in Names /\ cloud[config[w].name] \in Held
    BY AskedType DEF ImportState, IInv, WorldOK
  <1>3. st \in State
    BY <1>2, DisclosedType DEF State, IInv, WorldOK
  <1> QED
    BY <1>1, <1>3, EndPreserves DEF Results

LEMMA CrashPreserves ==
    ASSUME IInv, NEW w \in Workspaces, Crash(w)
    PROVE  IInv'
  <1>1. UNCHANGED <<kind, config>> /\ budget' \in Budget /\ WorldOK'
    BY ChargeType DEF Crash, IInv, WorldOK, RetentionNeedsArchive, Held
  <1> QED
    BY <1>1, FailPreserves DEF Crash

\* A configuration is edited between the runs only.
LEMMA EditPreserves ==
    ASSUME IInv, NEW w \in Workspaces, EditConfig(w)
    PROVE  IInv'
  <1>1. UNCHANGED <<kind, entitled, cloud, tfstate, op>> /\ budget' \in Budget
    BY ChargeType DEF EditConfig, IInv
  <1>2. /\ State' = State /\ Op' = Op /\ Asked' = Asked
    BY <1>1 DEF State, Op, Asked, Held, PlanType, ValidateConfig
  <1>3. PICK c \in Asked : config' = [config EXCEPT ![w] = c]
    BY DEF EditConfig
  <1>4. WorldOK'
    BY <1>1 DEF IInv, WorldOK, RetentionNeedsArchive, Held
  <1>5. ASSUME NEW v \in Workspaces
        PROVE  Fits(tfstate[v], op[v], config[v])'
    <2>1. Fits(tfstate[v], op[v], config[v])
      BY DEF IInv
    <2>2. CASE v = w
      <3>1. op[v].step = "idle" /\ config'[v] \in Asked
        BY <1>3, <2>2 DEF EditConfig, IInv
      <3> QED
        BY <1>1, <1>2, <2>1, <3>1 DEF Fits
    <2>3. CASE v # w
      <3>1. config'[v] = config[v]
        BY <1>3, <2>3 DEF IInv
      <3>2. Planned(config[v].model)' = Planned(config[v].model)
        BY <1>1, <3>1 DEF Planned, SettingsPlan, WithDefaults
      <3> QED
        BY <1>1, <1>2, <2>1, <3>1, <3>2 DEF Fits
    <2> QED
      BY <2>2, <2>3
  <1> QED
    BY <1>1, <1>2, <1>3, <1>4, <1>5 DEF IInv

\* Others change the cloud under one name, or the entitlement.
LEMMA OutsidePreserves ==
    ASSUME IInv, NEW n \in Names, Outside(n)
    PROVE  IInv'
  <1>1. UNCHANGED <<kind, tfstate, config, op>> /\ budget' \in Budget
    BY ChargeType DEF Outside, IInv
  <1>2. WorldOK'
    <2>1. CASE UNCHANGED entitled /\ UNCHANGED kind
      <3>1. /\ kind = "settings" => NewBucket \in Held
            /\ kind = "policy" => (CHOOSE m \in Models[kind] \ Unconvertible : TRUE) \in Held
            /\ RetentionNeedsArchive(NewBucket)
        BY HeldType, ConvertibleAssumption
          DEF NewBucket, SettingsType, Switch, RetentionNeedsArchive, IInv, WorldOK
      <3>2. CASE cloud' = [cloud EXCEPT ![n] =
                             IF @ # Absent THEN Absent
                             ELSE IF kind = "policy"
                                  THEN CHOOSE m \in Models[kind] \ Unconvertible : TRUE
                                  ELSE NewBucket]
        <4> DEFINE held == IF cloud[n] # Absent THEN Absent
                           ELSE IF kind = "policy"
                                THEN CHOOSE m \in Models[kind] \ Unconvertible : TRUE
                                ELSE NewBucket
        <4>1. held \in {Absent} \cup Held /\ RetentionNeedsArchive(held)
          BY <3>1, HeldType DEF RetentionNeedsArchive, IInv, WorldOK
        <4>2. cloud' = [cloud EXCEPT ![n] = held]
          BY <3>2
        <4> HIDE DEF held
        <4> QED
          BY <2>1, <4>1, <4>2, CloudPreserved DEF IInv
      <3>3. CASE /\ kind = "settings" /\ cloud[n] # Absent
                 /\ cloud' = [cloud EXCEPT ![n].archive = TRUE, ![n].days = 60]
        <4> DEFINE held == [cloud[n] EXCEPT !.archive = TRUE, !.days = 60]
        <4>1. cloud[n] \in SettingsType
          BY <3>3, HeldType DEF IInv, WorldOK
        <4>2. held \in SettingsType /\ held.archive = TRUE
          BY <4>1 DEF SettingsType, Switch
        <4>3. held \in Held /\ RetentionNeedsArchive(held)
          BY <3>3, <4>2, HeldType DEF RetentionNeedsArchive, IInv, WorldOK
        <4>4. cloud' = [cloud EXCEPT ![n] = held]
          BY <3>3 DEF IInv, WorldOK
        <4> HIDE DEF held
        <4> QED
          BY <2>1, <4>3, <4>4, CloudPreserved DEF IInv
      <3>4. CASE UNCHANGED cloud
        BY <2>1, <3>4 DEF IInv, WorldOK, RetentionNeedsArchive, Held
      <3> QED
        BY <3>2, <3>3, <3>4 DEF Outside
    <2>2. CASE entitled' = ~entitled /\ UNCHANGED <<kind, cloud>>
      BY <2>2 DEF IInv, WorldOK, RetentionNeedsArchive, Held
    <2> QED
      BY <1>1, <2>1, <2>2 DEF Outside
  <1>3. /\ State' = State /\ Op' = Op /\ Asked' = Asked
    BY <1>1 DEF State, Op, Asked, Held, PlanType, ValidateConfig
  <1>4. ASSUME NEW v \in Workspaces
        PROVE  Fits(tfstate[v], op[v], config[v])'
    <2>1. Fits(tfstate[v], op[v], config[v])
      BY DEF IInv
    <2>2. Planned(config[v].model)' = Planned(config[v].model)
      BY <1>1 DEF Planned, SettingsPlan, WithDefaults
    <2> QED
      BY <1>1, <1>3, <2>1, <2>2 DEF Fits
  <1> QED
    BY <1>1, <1>2, <1>3, <1>4 DEF IInv

-----------------------------------------------------------------------------
(* The invariant *)

LEMMA InitEstablishes == Init => IInv
  <1> SUFFICES ASSUME Init PROVE IInv
    OBVIOUS
  <1>1. kind \in Kinds /\ budget \in Budget
    BY DEF Init, Budget
  <1>2. WorldOK
    <2>1. CASE kind = "policy"
      BY <1>1, <2>1 DEF Init, WorldOK, RetentionNeedsArchive
    <2>2. CASE kind = "settings"
      <3>1. NewBucket \in Held /\ RetentionNeedsArchive(NewBucket)
        BY <1>1, <2>2, HeldType DEF NewBucket, SettingsType, Switch, RetentionNeedsArchive
      <3> QED
        BY <1>1, <2>2, <3>1 DEF Init, WorldOK
    <2> QED
      BY <1>1, <2>1, <2>2
  <1>3. ASSUME NEW w \in Workspaces
        PROVE  Fits(tfstate[w], op[w], config[w])
    BY IdleOpType DEF Init, Fits, Results
  <1> QED
    BY <1>1, <1>2, <1>3, IdleOpType DEF Init, IInv, Results

\* Every step preserves the invariant.
LEMMA NextPreserves == IInv /\ [Next]_vars => IInv'
  <1> SUFFICES ASSUME IInv, [Next]_vars PROVE IInv'
    OBVIOUS
  <1>1. CASE UNCHANGED vars
    <2>1. UNCHANGED <<kind, entitled, cloud, tfstate, config, op, budget>>
      BY <1>1 DEF vars
    <2>2. /\ State' = State /\ Op' = Op /\ Asked' = Asked /\ Held' = Held
      BY <2>1 DEF State, Op, Asked, Held, PlanType, ValidateConfig
    <2>3. ASSUME NEW w \in Workspaces
          PROVE  Fits(tfstate[w], op[w], config[w])'
      BY <2>1, <2>2 DEF IInv, Fits, Planned, SettingsPlan, WithDefaults
    <2> QED
      BY <2>1, <2>2, <2>3 DEF IInv, WorldOK, RetentionNeedsArchive
  <1>2. ASSUME NEW w \in Workspaces, Reads(w) PROVE IInv'
    BY <1>2, RefreshPreserves DEF Reads, SettingsRead, PolicyRead
  <1>3. ASSUME NEW w \in Workspaces, Upserts(w) PROVE IInv'
    BY <1>3, UpsertsAre, UpsertPreserves, UnsentPreserves
  <1>4. ASSUME NEW w \in Workspaces, Deletes(w) PROVE IInv'
    BY <1>4, DeletePreserves DEF Deletes
  <1>5. ASSUME NEW w \in Workspaces, Imports(w) PROVE IInv'
    BY <1>5, ImportPreserves DEF Imports, SettingsImport, PolicyImport
  <1>6. ASSUME NEW w \in Workspaces, Crash(w) PROVE IInv'
    BY <1>6, CrashPreserves
  <1>7. ASSUME NEW w \in Workspaces, EditConfig(w) PROVE IInv'
    BY <1>7, EditPreserves
  <1>8. ASSUME NEW n \in Names, Outside(n) PROVE IInv'
    BY <1>8, OutsidePreserves
  <1> QED
    BY <1>1, <1>2, <1>3, <1>4, <1>5, <1>6, <1>7, <1>8 DEF Next

\* The inductive invariant holds in every reachable state.
THEOREM Invariance == Spec => []IInv
  BY InitEstablishes, NextPreserves, PTL DEF Spec

\* Every variable keeps its type.
THEOREM TypeCorrect == Spec => []TypeOK
  <1>1. IInv => TypeOK
    BY DEF IInv, WorldOK, TypeOK
  <1> QED
    BY <1>1, Invariance, PTL

-----------------------------------------------------------------------------
(* Few orphans *)

Orphans == {n \in Names : cloud[n] # Absent} \ Owned

OrphansBounded ==
    kind = "policy" => IsFiniteSet(Orphans) /\ Cardinality(Orphans) <= Spent

LEMMA SpentType ==
    ASSUME IInv
    PROVE  /\ Spent \in Nat
           /\ [Next]_vars => Spent' >= Spent
           /\ Charge("faults") \/ Charge("outside") => Spent' = Spent + 1
  <1>1. /\ budget.faults \in 0..MaxFaults /\ budget.outside \in 0..MaxOutside
        /\ budget \in Budget
    BY DEF IInv, Budget
  <1>2. Spent \in Nat
    BY <1>1 DEF Spent
  <1>3. ASSUME Charge("faults") \/ Charge("outside")
        PROVE  Spent' = Spent + 1
    BY <1>1, <1>3 DEF Charge, Budget, Spent
  <1>4. ASSUME UNCHANGED budget \/ Charge("edits")
        PROVE  Spent' = Spent
    BY <1>1, <1>4 DEF Charge, Budget, Spent
  <1>5. ASSUME [Next]_vars
        PROVE  \/ UNCHANGED budget \/ Charge("edits")
               \/ Charge("faults") \/ Charge("outside")
    <2>1. CASE UNCHANGED vars
      BY <2>1 DEF vars
    <2>2. CASE Next
      BY <2>2, UpsertsAre DEF Next, Reads, SettingsRead, PolicyRead, Refresh, Unsent,
         Upsert,
         Deletes, SettingsDelete, PolicyDelete, Delete, Imports,
         SettingsImport, PolicyImport, ImportState, Crash, EditConfig, Outside
    <2> QED
      BY <1>5, <2>1, <2>2
  <1>6. [Next]_vars => Spent' >= Spent
    <2> SUFFICES ASSUME [Next]_vars PROVE Spent' >= Spent
      OBVIOUS
    <2>1. CASE UNCHANGED budget \/ Charge("edits")
      BY <1>2, <1>4, <2>1
    <2>2. CASE Charge("faults") \/ Charge("outside")
      BY <1>2, <1>3, <2>2
    <2> QED
      BY <1>5, <2>1, <2>2
  <1> QED
    BY <1>2, <1>3, <1>6

\* A workspace that lets go of nothing but what is gone leaves no new orphan.
LEMMA OwnedKept ==
    ASSUME IInv, NEW w \in Workspaces, NEW st,
           tfstate' = [tfstate EXCEPT ![w] = st],
           tfstate[w] # NoState /\ cloud'[tfstate[w].name] # Absent
              => st # NoState /\ st.name = tfstate[w].name
    PROVE  /\ \A n \in Owned : cloud'[n] # Absent => n \in Owned'
           /\ st # NoState => st.name \in Owned'
  <1>1. tfstate'[w] = st
    BY DEF IInv
  <1>2. ASSUME NEW n \in Owned, cloud'[n] # Absent PROVE n \in Owned'
    <2>1. PICK v \in Workspaces : tfstate[v] # NoState /\ tfstate[v].name = n
      BY DEF Owned
    <2>2. tfstate'[v] # NoState /\ tfstate'[v].name = n
      BY <1>1, <1>2, <2>1 DEF IInv
    <2> QED
      BY <2>2 DEF Owned
  <1>3. st # NoState => st.name \in Owned'
    BY <1>1 DEF Owned
  <1> QED
    BY <1>2, <1>3

\* No step makes more than one orphan, and one that makes it was charged for.
LEMMA OrphansMove ==
    ASSUME IInv, kind = "policy", Next
    PROVE  \/ Orphans' \subseteq Orphans
           \/ /\ Charge("faults") \/ Charge("outside")
              /\ \E n \in Names : Orphans' \subseteq Orphans \cup {n}
  <1>1. ASSUME UNCHANGED <<cloud, tfstate>> PROVE Orphans' = Orphans
    BY <1>1 DEF Orphans, Owned
  <1>2. ASSUME NEW w \in Workspaces, Refresh(w)
        PROVE  Orphans' \subseteq Orphans
    <2>1. tfstate[w] # NoState /\ cloud[tfstate[w].name] # Absent
            => Read(w) # NoState /\ Read(w).name = tfstate[w].name
      <3> SUFFICES ASSUME tfstate[w] # NoState,
                          cloud[tfstate[w].name] # Absent
                   PROVE  Read(w) # NoState
        BY ReadType
      <3>1. tfstate[w] \in State /\ tfstate[w].name \in Names
        BY ReadType DEF IInv
      <3>2. cloud[tfstate[w].name] \in Held
        BY <3>1 DEF IInv, WorldOK
      <3>3. Disclosed(cloud[tfstate[w].name]) \in Held
        BY <3>2, DisclosedType DEF IInv, WorldOK
      <3>4. Read(w) \in State
        BY <3>1, <3>3 DEF Read, State
      <3> QED
        BY <3>4, HeldType DEF IInv, WorldOK
    <2> QED
      BY <1>2, <2>1, OwnedKept DEF Refresh, Orphans
  <1>3. ASSUME NEW w \in Workspaces, Upsert(w),
               op[w].step \in {"create", "update"}
        PROVE  \/ Orphans' \subseteq Orphans
               \/ /\ Charge("faults")
                  /\ \E n \in Names : Orphans' \subseteq Orphans \cup {n}
    <2> DEFINE n == op[w].name
               plan == op[w].plan
               result == IF \/ kind = "policy"
                            \/ \A a \in DOMAIN plan : plan[a] = Unknown
                         THEN "ok" ELSE "inconsistent"
               st == [name |-> n, model |-> plan, tainted |-> FALSE]
    <2>1. n \in Names /\ Fits(tfstate[w], op[w], config[w])
      BY <1>3, UpsertContext DEF IInv
    <2>2. ASSUME Finish(w, tfstate[w], "error") PROVE UNCHANGED tfstate
      BY <2>2 DEF Finish, IInv
    <2>3. CASE UNCHANGED cloud /\ Finish(w, tfstate[w], "error")
      BY <1>1, <2>2, <2>3
    <2>4. CASE /\ cloud' = [cloud EXCEPT ![n] = Stored(@, Request(w))]
               /\ Finish(w, tfstate[w], "error") /\ Charge("faults")
      <3>1. Orphans' \subseteq Orphans \cup {n}
        BY <2>1, <2>2, <2>4 DEF Orphans, Owned, IInv, WorldOK
      <3> QED
        BY <2>1, <2>4, <3>1
    <2>5. CASE /\ cloud' = [cloud EXCEPT ![n] = Stored(@, Request(w))]
               /\ Answered(w)
      <3>1. tfstate' = [tfstate EXCEPT ![w] = st]
        BY <2>5 DEF Answered, Finish
      <3>2. plan \in Held
        BY <1>3, UpsertContext, RequestType DEF Request
      <3>3. st \in State /\ st.name = n
        BY <2>1, <3>2 DEF State
      <3>4. st # NoState
        BY <3>3, HeldType DEF IInv, WorldOK
      <3>5. tfstate[w] # NoState => tfstate[w].name = n
        BY <1>3, <2>1 DEF Fits
      <3> HIDE DEF st, n
      <3>6. /\ \A m \in Owned : cloud'[m] # Absent => m \in Owned'
            /\ n \in Owned'
        BY <3>1, <3>3, <3>4, <3>5, OwnedKept
      <3>7. \A m \in Names : m # n => cloud'[m] = cloud[m]
        BY <2>5 DEF IInv, WorldOK, n
      <3> QED
        BY <3>6, <3>7 DEF Orphans
    <2> QED
      BY <1>3, <2>3, <2>4, <2>5 DEF Upsert
  <1>4. ASSUME NEW w \in Workspaces, SettingsDelete(w) \/ PolicyDelete(w)
        PROVE  Orphans' \subseteq Orphans
    <2> DEFINE n == tfstate[w].name
    <2>1. n \in Names /\ tfstate[w] # NoState
      BY <1>4, DeleteIs, DeleteContext
    <2>2. Delete(w, Absent, FALSE)
      BY <1>4 DEF SettingsDelete, PolicyDelete
    <2>3. CASE UNCHANGED cloud /\ Finish(w, tfstate[w], "error")
      BY <1>1, <2>3 DEF Finish, IInv
    <2>4. CASE cloud' = [cloud EXCEPT ![n] = Absent] /\ (Deleted(w) \/ Finish(w, tfstate[w], "error"))
      <3>1. \E st : /\ tfstate' = [tfstate EXCEPT ![w] = st]
        BY <2>4 DEF Deleted, Finish
      <3>2. /\ cloud'[n] = Absent
            /\ \A m \in Names : m # n => cloud'[m] = cloud[m]
        BY <2>1, <2>4 DEF IInv, WorldOK
      <3>3. \A m \in Owned : cloud'[m] # Absent => m \in Owned'
        BY <3>1, <3>2, OwnedKept
      <3> QED
        BY <3>2, <3>3 DEF Orphans
    <2> QED
      BY <2>2, <2>3, <2>4 DEF Delete
  <1>5. ASSUME NEW w \in Workspaces, ImportState(w)
        PROVE  Orphans' \subseteq Orphans
    <2>1. \E st : tfstate' = [tfstate EXCEPT ![w] = st]
      BY <1>5 DEF ImportState, Finish
    <2>2. \A m \in Owned : cloud'[m] # Absent => m \in Owned'
      BY <1>5, <2>1, OwnedKept DEF ImportState
    <2> QED
      BY <1>5, <2>2 DEF ImportState, Orphans
  <1>6. ASSUME NEW w \in Workspaces, Crash(w) \/ EditConfig(w)
        PROVE  Orphans' \subseteq Orphans
    BY <1>1, <1>6 DEF Crash, EditConfig, Finish, IInv
  <1>7. ASSUME NEW n \in Names, Outside(n)
        PROVE  Charge("outside") /\ Orphans' \subseteq Orphans \cup {n}
    BY <1>7 DEF Outside, Orphans, Owned, IInv, WorldOK
  <1>8. ASSUME NEW w \in Workspaces, Unsent(w) PROVE Orphans' \subseteq Orphans
    BY <1>1, <1>8, UnsentIs
  <1> QED
    BY <1>2, <1>3, <1>4, <1>5, <1>6, <1>7, <1>8, UpsertsAre
      DEF Next, Reads, SettingsRead, PolicyRead, Deletes, Imports,
          SettingsImport, PolicyImport

\* However the workspaces' runs interleave, each failed or foreign request
\* leaves at most one policy that no state knows of.
THEOREM OrphansAreFew == Spec => []FewOrphans
  <1>1. Init => OrphansBounded
    <2> SUFFICES ASSUME Init, kind = "policy"
                 PROVE  IsFiniteSet(Orphans) /\ Cardinality(Orphans) <= Spent
      BY DEF OrphansBounded
    <2>1. Orphans = {}
      BY DEF Init, Orphans
    <2> QED
      BY <2>1, FS_EmptySet, SpentType, InitEstablishes
  <1>2. IInv /\ OrphansBounded /\ [Next]_vars => OrphansBounded'
    <2> SUFFICES ASSUME IInv, OrphansBounded, [Next]_vars, kind' = "policy"
                 PROVE  IsFiniteSet(Orphans') /\ Cardinality(Orphans') <= Spent'
      BY DEF OrphansBounded
    <2>1. kind = "policy"
      BY UpsertsAre
      DEF vars, Next, Reads, SettingsRead, PolicyRead, Refresh, Upsert, Unsent,
         Deletes, SettingsDelete, PolicyDelete, Delete, Imports,
         SettingsImport, PolicyImport, ImportState, Crash, EditConfig, Outside
    <2>2. /\ IsFiniteSet(Orphans) /\ Cardinality(Orphans) <= Spent
          /\ Cardinality(Orphans) \in Nat /\ Spent \in Nat /\ Spent' \in Nat
      <3>1. IsFiniteSet(Orphans) /\ Cardinality(Orphans) <= Spent
        BY <2>1 DEF OrphansBounded
      <3>2. budget' \in Budget
        BY NextPreserves DEF IInv
      <3>3. Spent' \in Nat
        BY <3>2 DEF Budget, Spent
      <3> QED
        BY <3>1, <3>3, FS_CardinalityType, SpentType
    <2>3. CASE Orphans' \subseteq Orphans
      <3>1. /\ IsFiniteSet(Orphans') /\ Cardinality(Orphans') \in Nat
            /\ Cardinality(Orphans') <= Cardinality(Orphans)
        BY <2>2, <2>3, FS_Subset, FS_CardinalityType
      <3>2. Spent' >= Spent
        BY SpentType
      <3> QED
        BY <2>2, <3>1, <3>2
    <2>4. CASE /\ Charge("faults") \/ Charge("outside")
               /\ \E n \in Names : Orphans' \subseteq Orphans \cup {n}
      <3>1. PICK n \in Names : Orphans' \subseteq Orphans \cup {n}
        BY <2>4
      <3>2. /\ IsFiniteSet(Orphans \cup {n})
            /\ Cardinality(Orphans \cup {n}) \in Nat
            /\ Cardinality(Orphans \cup {n}) <= Cardinality(Orphans) + 1
        <4>1. /\ IsFiniteSet(Orphans \cup {n})
              /\ \/ Cardinality(Orphans \cup {n}) = Cardinality(Orphans)
                 \/ Cardinality(Orphans \cup {n}) = Cardinality(Orphans) + 1
          BY <2>2, FS_AddElement
        <4> QED
          BY <2>2, <4>1
      <3>3. /\ IsFiniteSet(Orphans') /\ Cardinality(Orphans') \in Nat
            /\ Cardinality(Orphans') <= Cardinality(Orphans \cup {n})
        BY <3>1, <3>2, FS_Subset, FS_CardinalityType
      <3>4. Spent' = Spent + 1
        BY <2>4, SpentType
      <3> QED
        BY <2>2, <3>2, <3>3, <3>4
    <2>5. CASE UNCHANGED vars
      BY <2>3, <2>5 DEF vars, Orphans, Owned
    <2> QED
      BY <2>1, <2>3, <2>4, <2>5, OrphansMove
  <1>3. OrphansBounded => FewOrphans
    BY DEF OrphansBounded, FewOrphans, Orphans
  <1> QED
    BY <1>1, <1>2, <1>3, Invariance, PTL DEF Spec

-----------------------------------------------------------------------------
(* What the results mean *)

\* Which steps move a workspace's operation or its state.
LEMMA WhoMoves ==
    ASSUME IInv, Next, NEW w \in Workspaces,
           op'[w] # op[w] \/ tfstate'[w] # tfstate[w]
    PROVE  \/ Refresh(w)
           \/ Upsert(w) /\ op[w].step \in {"create", "update"}
           \/ Unsent(w) /\ op[w].step \in {"create", "update"}
           \/ SettingsDelete(w) \/ PolicyDelete(w)
           \/ ImportState(w) \/ Crash(w)
  <1>1. ASSUME NEW v \in Workspaces, NEW st, NEW o,
               tfstate' = [tfstate EXCEPT ![v] = st],
               op' = [op EXCEPT ![v] = o]
        PROVE  v = w
    BY <1>1 DEF IInv
  <1>2. ASSUME NEW v \in Workspaces, Reads(v) PROVE v = w /\ Refresh(w)
    BY <1>1, <1>2 DEF Reads, SettingsRead, PolicyRead, Refresh
  <1>3. ASSUME NEW v \in Workspaces, Upserts(v)
        PROVE  /\ v = w /\ op[w].step \in {"create", "update"}
               /\ Upsert(w) \/ Unsent(w)
    <2>1. (Upsert(v) \/ Unsent(v)) /\ op[v].step \in {"create", "update"}
      BY <1>3, UpsertsAre
    <2>2. v = w
      BY <1>1, <2>1 DEF Upsert, Answered, Finish, Unsent, NoRequest
    <2> QED
      BY <2>1, <2>2
  <1>4. ASSUME NEW v \in Workspaces, Deletes(v)
        PROVE  v = w /\ (SettingsDelete(w) \/ PolicyDelete(w))
    <2>1. \E left, refused : Delete(v, left, refused)
      BY <1>4, DeleteIs DEF Deletes
    <2>2. v = w
      BY <1>1, <2>1 DEF Delete, Deleted, Finish
    <2> QED
      BY <1>4, <2>2 DEF Deletes
  <1>5. ASSUME NEW v \in Workspaces, Imports(v) PROVE v = w /\ ImportState(w)
    BY <1>1, <1>5 DEF Imports, SettingsImport, PolicyImport, ImportState, Finish
  <1>6. ASSUME NEW v \in Workspaces, Crash(v) PROVE v = w /\ Crash(w)
    BY <1>1, <1>6 DEF Crash, Finish
  <1>7. ASSUME \/ \E v \in Workspaces : EditConfig(v)
               \/ \E n \in Names : Outside(n)
        PROVE  FALSE
    BY <1>7 DEF EditConfig, Outside
  <1> QED
    BY <1>2, <1>3, <1>4, <1>5, <1>6, <1>7 DEF Next

\* An upsert that ends without an error was stored and answered.
LEMMA AppliedIs ==
    ASSUME IInv, Next, NEW w \in Workspaces, Applies(w),
           op'[w].result = "ok" \/ (kind = "settings" /\ op'[w].result # "error")
    PROVE  /\ ~Refused(op[w].name, Request(w))
           /\ cloud' = [cloud EXCEPT ![op[w].name] = Stored(@, Request(w))]
           /\ Answered(w)
           /\ UNCHANGED <<kind, entitled, config>>
  <1>1. op[w].step \in {"create", "update"} /\ op'[w] # op[w]
    BY DEF Applies
  <1>2. ASSUME Finish(w, tfstate[w], "error") PROVE FALSE
    BY <1>2 DEF Finish, IdleOp, IInv
  <1>3. Upsert(w)
    BY <1>1, <1>2, WhoMoves, UnsentIs
      DEF Refresh, SettingsDelete, PolicyDelete, ImportState, Crash
  <1> QED
    BY <1>2, <1>3 DEF Upsert

\* The result of an answer: of a policy always what was asked, of settings as
\* what is disclosed agrees with the plan.
LEMMA AnsweredIs ==
    ASSUME IInv, Next, NEW w \in Workspaces, Applies(w),
           op'[w].result = "ok" \/ (kind = "settings" /\ op'[w].result # "error")
    PROVE  LET held == cloud'[op[w].name]
               plan == op[w].plan
               seen == Disclosed(held)
           IN /\ UNCHANGED <<kind, entitled, config>>
              /\ held = Stored(cloud[op[w].name], Request(w)) /\ held \in Held
              /\ RetentionNeedsArchive(held)
              /\ ~Refused(op[w].name, Request(w))
              /\ kind = "policy" => op'[w].result = "ok"
              /\ kind = "settings" =>
                   op'[w].result =
                      IF /\ plan.audit = seen.audit
                         /\ plan.archive \in {Unknown, seen.archive}
                         /\ plan.days = seen.days
                      THEN "ok" ELSE "inconsistent"
  <1>1. /\ ~Refused(op[w].name, Request(w))
        /\ cloud' = [cloud EXCEPT ![op[w].name] = Stored(@, Request(w))]
        /\ Answered(w)
        /\ UNCHANGED <<kind, entitled, config>>
        /\ op[w].step \in {"create", "update"}
    BY AppliedIs DEF Applies
  <1>2. /\ cloud'[op[w].name] = Stored(cloud[op[w].name], Request(w))
        /\ cloud'[op[w].name] \in Held /\ WorldOK'
    BY <1>1, StoredPreserves
  <1>3. RetentionNeedsArchive(cloud'[op[w].name])
    BY <1>1, <1>2, UpsertContext DEF WorldOK, RetentionNeedsArchive
  <1> DEFINE held == cloud'[op[w].name]
             plan == op[w].plan
             seen == Disclosed(held)
             result == IF \/ kind = "policy"
                          \/ \A a \in DOMAIN plan : plan[a] \in {Unknown, seen[a]}
                       THEN "ok" ELSE "inconsistent"
  <1>4. op'[w].result = result
    <2>1. CASE kind = "policy"
      BY <1>1, <2>1 DEF Answered, Finish, IdleOp, IInv
    <2>2. CASE kind = "settings"
      <3>1. \E st : Finish(w, st, result)
        BY <1>1, <2>2 DEF Answered
      <3> HIDE DEF result
      <3> QED
        BY <3>1 DEF Finish, IdleOp, IInv
    <2> QED
      BY <2>1, <2>2, UpsertContext, <1>1, HeldType
  <1>5. ASSUME kind = "settings"
        PROVE  (\A a \in DOMAIN plan : plan[a] \in {Unknown, seen[a]})
                 <=> /\ plan.audit = seen.audit
                     /\ plan.archive \in {Unknown, seen.archive}
                     /\ plan.days = seen.days
    <2>1. /\ kind \in Kinds /\ config[w] \in Asked /\ config[w] # NoConfig
          /\ plan = Planned(config[w].model)
      BY <1>1, UpsertContext
    <2>2. /\ DOMAIN plan = {"audit", "archive", "days"}
          /\ plan.audit \in BOOLEAN /\ plan.days \in {Null} \cup Nat
      BY <1>5, <2>1, SettingsPlanned
    <2>3. plan.audit # Unknown /\ plan.days # Unknown
      BY <2>2
    <2> QED
      BY <2>2, <2>3
  <1> QED
    <2>1. CASE kind = "policy"
      BY <1>1, <1>2, <1>3, <1>4, <2>1
    <2>2. CASE kind = "settings"
      BY <1>1, <1>2, <1>3, <1>4, <1>5, <2>2
    <2> QED
      BY <2>1, <2>2, <1>1, UpsertContext, HeldType

\* A create or an update that ends without an error leaves what was asked for
\* when the plan was made, whatever was held before and whoever else writes.
THEOREM SuccessIsAsAsked == Spec => SuccessMeansAsAsked
  <1>1. ASSUME IInv, Next, NEW w \in Workspaces, Applies(w),
               op'[w].result = "ok"
        PROVE  Holds(cloud'[op[w].name], config[w])
    <2> DEFINE held == cloud'[op[w].name]
               seen == Disclosed(held)
               c == config[w]
               asked == WithDefaults(c.model)
    <2>1. /\ UNCHANGED <<kind, entitled, config>>
          /\ held = Stored(cloud[op[w].name], Request(w)) /\ held \in Held
          /\ ~Refused(op[w].name, Request(w))
          /\ kind = "settings" =>
               /\ op[w].plan.audit = seen.audit
               /\ op[w].plan.archive \in {Unknown, seen.archive}
               /\ op[w].plan.days = seen.days
      BY <1>1, AnsweredIs
    <2>2. /\ kind \in Kinds /\ c \in Asked /\ c # NoConfig
          /\ op[w].plan = Planned(c.model) /\ held # Absent
      BY <1>1, <2>1, UpsertContext, HeldType DEF Applies
    <2>3. CASE kind = "policy"
      BY <2>1, <2>2, <2>3, RequestType DEF Holds, Stored
    <2>4. CASE kind = "settings"
      <3>1. held.audit = asked.audit
        BY <2>1, <2>2, <2>4, DisclosedType, SettingsPlanned
      <3>2. ASSUME asked.archive # Null
            PROVE  held.archive = asked.archive /\ held.days = asked.days
        <4>1. asked.archive = c.model.archive /\ asked.days = c.model.days
          BY <2>2, <2>4, SettingsPlanned
        <4>2. op[w].plan.archive = asked.archive /\ op[w].plan.days = asked.days
          BY <2>2, <2>4, <3>2, <4>1, SettingsPlanned
        <4>3. asked.archive \in Switch
          BY <2>2, <2>4, <4>1, AskedType, HeldType DEF SettingsType
        <4>4. op[w].plan.archive # Unknown /\ op[w].plan.archive # Null
          BY <3>2, <4>2, <4>3 DEF Switch
        <4>5. Request(w).archive # Null
          BY <2>2, <2>4, <4>4, RequestType
        <4>6. entitled
          BY <2>1, <2>4, <4>5 DEF Refused, SendsArchive
        <4> QED
          BY <2>1, <2>2, <2>4, <4>2, <4>4, <4>6, DisclosedType
      <3> QED
        BY <2>1, <2>2, <2>4, <3>1, <3>2 DEF Holds, WithDefaults
    <2> QED
      BY <2>2, <2>3, <2>4, HeldType
  <1>2. IInv /\ [Next]_vars
          => [\A w \in Workspaces :
                Applies(w) /\ op'[w].result = "ok"
                  => Holds(cloud'[op[w].name], config[w])]_vars
    BY <1>1
  <1> QED
    BY <1>2, Invariance, PTL DEF Spec, SuccessMeansAsAsked

\* Without archive in the plan or in the state, nothing but a failure of the
\* API or a missing bucket ends a run with an error.
THEOREM UnentitledMayManage == Spec => UnentitledUnaffected
  <1> DEFINE Spared(w) ==
        /\ op[w].step # "idle" /\ op'[w].result = "error" /\ budget' = budget
        /\ op[w].step # "delete" => op[w].plan.archive = Unknown
        /\ op[w].step = "delete" => tfstate[w].model.archive # TRUE
  <1>1. ASSUME IInv, Next, kind = "settings", NEW w \in Workspaces, Spared(w)
        PROVE  op[w].step # "delete" /\ cloud[op[w].name] = Absent
    <2>1. op'[w] # op[w]
      BY <1>1 DEF IInv, Fits
    <2>2. ~Charge("faults")
      BY <1>1 DEF Charge, IInv, Budget
    <2>3. CASE Upsert(w) /\ op[w].step \in {"create", "update"}
      <3>1. ~Answered(w)
        <4>1. ASSUME Answered(w) PROVE op'[w].result # "error"
          <5>1. \E st, result : /\ result \in {"ok", "inconsistent"}
                                /\ Finish(w, st, result)
            BY <4>1 DEF Answered
          <5> QED
            BY <1>1, <5>1 DEF Finish, IdleOp, IInv
        <4> QED
          BY <1>1, <4>1
      <3>2. Refused(op[w].name, Request(w))
        BY <2>2, <2>3, <3>1 DEF Upsert
      <3>3. op[w].plan.archive = Unknown
        BY <1>1, <2>3
      <3>4. /\ kind \in Kinds /\ config[w] \in Asked /\ config[w] # NoConfig
            /\ op[w].plan = Planned(config[w].model)
        BY <1>1, <2>3, UpsertContext
      <3>5. Request(w).archive = Null /\ Request(w).days = Null
        <4>1. Request(w).archive = Null
          BY <1>1, <3>3, <3>4, RequestType
        <4>2. Null # TRUE
          OBVIOUS
        <4>3. (Request(w).days # Null) = (Request(w).archive = TRUE)
          BY <1>1, <3>4, RequestType
        <4> QED
          BY <4>1, <4>2, <4>3
      <3> QED
        BY <2>3, <3>2, <3>5 DEF Refused, SendsArchive
    <2>4. CASE SettingsDelete(w)
      <3> DEFINE request == DeleteRequest(tfstate[w].model)
      <3>1. op[w].step = "delete"
        BY <2>4 DEF SettingsDelete
      <3>2. request.archive = Null /\ request.days = Null
        BY <1>1, <3>1, DeleteContext
      <3>3. PICK left, refused : /\ Delete(w, left, refused)
                                 /\ ~refused
        <4>1. CASE cloud[tfstate[w].name] = Absent
          BY <2>4, <4>1 DEF SettingsDelete
        <4>2. CASE cloud[tfstate[w].name] # Absent
          <5>1. ~Refused(tfstate[w].name, request)
            BY <3>2, <4>2 DEF Refused, SendsArchive
          <5> QED
            BY <2>4, <4>2, <5>1 DEF SettingsDelete
        <4> QED
          BY <4>1, <4>2
      <3>4. Deleted(w)
        BY <2>2, <3>3 DEF Delete
      <3>5. op'[w].result = "ok"
        BY <1>1, <3>1, <3>4 DEF Deleted, IdleOp, IInv, Fits, Op
      <3> QED
        BY <1>1, <3>5
    <2> QED
      BY <1>1, <2>1, <2>2, <2>3, <2>4, WhoMoves, UnsentIs
        DEF Refresh, PolicyDelete, ImportState, Crash
  <1>2. IInv /\ [Next]_vars
          => [kind = "settings" => \A w \in Workspaces : Spared(w)
                => op[w].step # "delete" /\ cloud[op[w].name] = Absent]_vars
    BY <1>1
  <1> QED
    BY <1>2, Invariance, PTL DEF Spec, UnentitledUnaffected

\* Terraform forgets a policy only when the API does not have it, and settings
\* only when the bucket is gone or what the state showed on is off.
THEOREM ForgottenIsOff == Spec => ForgottenMeansOff
  <1> DEFINE Off(w) ==
        LET held == cloud'[tfstate[w].name]
        IN held # Absent
             => /\ kind = "settings" /\ held.audit = FALSE
                /\ tfstate[w].model.archive = TRUE => held.archive = FALSE
  <1>1. ASSUME IInv, Next, NEW w \in Workspaces, tfstate[w] # NoState,
               tfstate'[w] = NoState
        PROVE  Off(w)
    <2>1. tfstate'[w] # tfstate[w]
      BY <1>1
    <2>2. ASSUME Finish(w, tfstate[w], "error") PROVE FALSE
      BY <1>1, <2>2 DEF Finish, IInv
    <2>3. CASE Refresh(w)
      <3>1. Read(w) = NoState
        BY <1>1, <2>3 DEF Refresh, IInv
      <3>2. tfstate[w] \in State /\ tfstate[w].name \in Names /\ kind \in Kinds
        BY <1>1 DEF IInv, State, WorldOK
      <3>3. cloud[tfstate[w].name] = Absent
        <4>1. ASSUME cloud[tfstate[w].name] # Absent PROVE FALSE
          <5>1. cloud[tfstate[w].name] \in Held
            BY <1>1, <3>2, <4>1 DEF IInv, WorldOK
          <5>2. Disclosed(cloud[tfstate[w].name]) \in Held
            BY <3>2, <5>1, DisclosedType
          <5>3. Read(w) \in State
            BY <1>1, <3>2, <4>1, <5>2 DEF Read, State
          <5> QED
            BY <3>1, <3>2, <5>3, HeldType
        <4> QED
          BY <4>1
      <3> QED
        BY <2>3, <3>3 DEF Refresh
    <2>4. CASE Upsert(w) /\ op[w].step \in {"create", "update"}
      <3>1. cloud' = [cloud EXCEPT ![op[w].name] = Stored(@, Request(w))]
              /\ Answered(w) /\ ~Refused(op[w].name, Request(w))
        BY <2>2, <2>4 DEF Upsert
      <3>3. UNCHANGED <<kind, entitled, config>>
        BY <2>4 DEF Upsert
      <3>4. cloud'[op[w].name] \in Held /\ kind \in Kinds
        BY <1>1, <2>4, <3>1, <3>3, StoredPreserves, UpsertContext
      <3> DEFINE model == IF kind = "policy" THEN op[w].plan
                          ELSE Disclosed(cloud'[op[w].name])
      <3>5. model \in Held
        <4>1. CASE kind = "policy"
          BY <1>1, <2>4, <4>1, UpsertContext, RequestType DEF Request
        <4>2. CASE kind = "settings"
          BY <3>4, <4>2, DisclosedType
        <4> QED
          BY <3>4, <4>1, <4>2, HeldType
      <3>6. op[w].name \in Names
        BY <1>1, <2>4, UpsertContext
      <3>7. \E t \in BOOLEAN :
               tfstate'[w] = [name |-> op[w].name, model |-> model, tainted |-> t]
        BY <1>1, <3>1 DEF Answered, Finish, IInv
      <3> HIDE DEF model
      <3>8. tfstate'[w] \in State
        BY <3>5, <3>6, <3>7 DEF State
      <3> QED
        BY <1>1, <3>4, <3>8, HeldType
    <2>5. CASE SettingsDelete(w) \/ PolicyDelete(w)
      <3>1. op[w].step = "delete"
        BY <1>1, <2>5, DeleteIs
      <3>2. /\ kind \in Kinds /\ tfstate[w].name \in Names
            /\ cloud[tfstate[w].name] \in {Absent} \cup Held
        BY <1>1, <3>1, DeleteContext
      <3> DEFINE old == cloud[tfstate[w].name]
                 request == DeleteRequest(tfstate[w].model)
      <3>3. CASE kind = "policy" \/ old = Absent
        <4>1. Delete(w, Absent, FALSE)
          BY <1>1, <2>5, <3>3, HeldType DEF SettingsDelete, PolicyDelete
        <4>2. cloud' = [cloud EXCEPT ![tfstate[w].name] = Absent]
          BY <2>2, <4>1 DEF Delete
        <4> QED
          BY <1>1, <3>2, <4>2 DEF IInv, WorldOK
      <3>4. CASE kind = "settings" /\ old # Absent
        <4>1. Delete(w, Stored(old, request), Refused(tfstate[w].name, request))
          BY <2>5, <3>4 DEF SettingsDelete, PolicyDelete
        <4>2. cloud' = [cloud EXCEPT ![tfstate[w].name] = Stored(old, request)]
          BY <2>2, <4>1 DEF Delete
        <4>3. cloud'[tfstate[w].name] = Stored(old, request)
          BY <1>1, <3>2, <4>2 DEF IInv, WorldOK
        <4>4. /\ old \in SettingsType /\ request \in SettingsType
              /\ request.audit = FALSE
              /\ tfstate[w].model.archive = TRUE => request.archive = FALSE
          BY <1>1, <3>1, <3>2, <3>4, DeleteContext, HeldType
        <4>5. FALSE # Null
          OBVIOUS
        <4> HIDE DEF old, request
        <4>6. Stored(old, request).audit = FALSE
          <5>1. Stored(old, request).audit = request.audit
            BY <3>2, <3>4, <4>4, <4>5, SettingsStored
          <5> QED
            BY <4>4, <5>1
        <4>7. ASSUME tfstate[w].model.archive = TRUE
              PROVE  Stored(old, request).archive = FALSE
          <5>1. request.archive = FALSE
            BY <4>4, <4>7
          <5>2. Stored(old, request).archive = request.archive
            BY <3>2, <3>4, <4>4, <4>5, <5>1, SettingsStored
          <5> QED
            BY <5>1, <5>2
        <4> QED
          BY <3>4, <4>3, <4>6, <4>7
      <3> QED
        BY <3>2, <3>3, <3>4, HeldType
    <2> QED
      BY <1>1, <2>1, <2>2, <2>3, <2>4, <2>5, WhoMoves, UnsentIs
        DEF ImportState, Crash
  <1>2. IInv /\ [Next]_vars
          => [\A w \in Workspaces :
                tfstate[w] # NoState /\ tfstate'[w] = NoState => Off(w)]_vars
    BY <1>1
  <1> QED
    BY <1>2, Invariance, PTL DEF Spec, ForgottenMeansOff

\* An apply answers what was planned, but for settings that say nothing of the
\* archive of a bucket that has it on, and for an update to a policy that is no
\* request, which changes nothing.
THEOREM InconsistentIsListed == Spec => InconsistentOnlyIfListed
  <1> DEFINE OnAndUnasked(w) == op[w].plan.archive = Unknown
                                  /\ cloud'[op[w].name].archive = TRUE
         Unconverted(w) == /\ op[w].step = "update" /\ op[w].plan \in Unconvertible
                           /\ cloud' = cloud /\ tfstate' = tfstate
  <1>1. ASSUME IInv, Next, NEW w \in Workspaces, Applies(w), kind = "settings",
               op'[w].result = "inconsistent"
        PROVE  OnAndUnasked(w)
    <2> DEFINE old == cloud[op[w].name]
               held == cloud'[op[w].name]
               plan == op[w].plan
               seen == Disclosed(held)
               Agrees == /\ plan.audit = seen.audit
                         /\ plan.archive \in {Unknown, seen.archive}
                         /\ plan.days = seen.days
    <2>1. /\ kind = "settings" /\ ~Agrees
          /\ held = Stored(old, Request(w)) /\ held \in Held
          /\ RetentionNeedsArchive(held)
          /\ ~Refused(op[w].name, Request(w))
      BY <1>1, AnsweredIs, UpsertContext, HeldType DEF Applies
    <2>2. /\ kind \in Kinds /\ config[w] \in Asked /\ config[w] # NoConfig
          /\ plan = Planned(config[w].model)
          /\ Request(w) \in SettingsType /\ old \in SettingsType
      BY <1>1, <2>1, UpsertContext, HeldType DEF Applies, Refused
    <2>3. /\ plan.audit \in BOOLEAN /\ plan.archive \in BOOLEAN \cup {Unknown}
          /\ (plan.days # Null) = (plan.archive = TRUE)
      BY <2>1, <2>2, SettingsPlanned
    <2>4. /\ Request(w).audit = plan.audit /\ Request(w).days = plan.days
          /\ Request(w).archive = IF plan.archive = Unknown THEN Null
                                  ELSE plan.archive
      BY <2>1, <2>2, RequestType
    <2> HIDE DEF old, held, plan, seen
    <2>5. /\ held.audit = IF Request(w).audit # Null THEN Request(w).audit
                          ELSE old.audit
          /\ held.archive = IF Request(w).archive # Null THEN Request(w).archive
                            ELSE old.archive
          /\ held.days = IF Request(w).archive = FALSE THEN Null
                         ELSE IF Request(w).days # Null THEN Request(w).days
                         ELSE old.days
      BY <2>1, <2>2, SettingsStored
    <2>6. /\ seen.audit = held.audit /\ seen.days \in {Null, held.days}
          /\ entitled => seen = held
      BY <2>1, <2>2, DisclosedType DEF seen
    <2>7. held # Absent
      BY <2>1, <2>2, HeldType
    <2>8. plan.audit # Null /\ plan.audit = seen.audit
      BY <2>3, <2>4, <2>5, <2>6
    <2>9. CASE plan.archive = Unknown
      <3>1. TRUE # Unknown
        OBVIOUS
      <3>2. plan.days = Null
        BY <2>3, <2>9, <3>1
      <3>3. seen.days # Null
        BY <2>1, <2>8, <2>9, <3>2
      <3>4. held.archive = TRUE
        BY <2>1, <2>6, <2>7, <3>3 DEF RetentionNeedsArchive
      <3> QED
        BY <2>9, <3>4 DEF plan, held
    <2>10. CASE plan.archive \in BOOLEAN
      <3>1. plan.archive # Unknown /\ plan.archive # Null
        BY <2>10
      <3>2. Request(w).archive = plan.archive
        BY <2>4, <3>1
      <3>3. entitled
        BY <2>1, <3>1, <3>2 DEF Refused, SendsArchive
      <3>4. seen.archive = plan.archive
        BY <2>5, <2>6, <3>1, <3>2, <3>3
      <3>5. seen.days = plan.days
        <4>1. CASE plan.archive = FALSE
          <5>1. plan.days = Null
            BY <2>3, <4>1
          <5>2. held.days = Null
            BY <2>5, <3>2, <4>1
          <5> QED
            BY <2>6, <3>3, <5>1, <5>2
        <4>2. CASE plan.archive = TRUE
          <5>1. plan.days # Null
            BY <2>3, <4>2
          <5>2. held.days = plan.days
            BY <2>4, <2>5, <3>2, <4>2, <5>1
          <5> QED
            BY <2>6, <3>3, <5>2
        <4> QED
          BY <2>10, <4>1, <4>2
      <3> QED
        BY <2>1, <2>8, <3>4, <3>5
    <2> QED
      BY <2>3, <2>9, <2>10
  <1>2. ASSUME IInv, Next, NEW w \in Workspaces, Applies(w), kind # "settings",
               op'[w].result = "inconsistent"
        PROVE  Unconverted(w)
    <2>1. op[w].step \in {"create", "update"} /\ op'[w] # op[w]
      BY <1>2 DEF Applies
    <2>2. ASSUME Finish(w, tfstate[w], "error") PROVE FALSE
      BY <1>2, <2>2 DEF Finish, IdleOp, IInv
    <2>3. ASSUME Answered(w) PROVE FALSE
      <3>1. kind = "policy"
        BY <1>2, HeldType DEF IInv, WorldOK
      <3>2. op'[w].result = "ok"
        BY <1>2, <2>3, <3>1 DEF Answered, Finish, IdleOp, IInv
      <3> QED
        BY <1>2, <3>2
    <2>4. ~Upsert(w)
      BY <2>2, <2>3 DEF Upsert
    <2>5. Unsent(w)
      BY <1>2, <2>1, <2>2, <2>4, WhoMoves
        DEF Refresh, SettingsDelete, PolicyDelete, ImportState, Crash
    <2>6. /\ op[w].plan \in Unconvertible /\ cloud' = cloud /\ tfstate' = tfstate
          /\ op'[w].result = IF op[w].step = "create" THEN "error"
                             ELSE "inconsistent"
      BY <1>2, <2>5, UnsentIs
    <2> QED
      BY <1>2, <2>1, <2>6
  <1>3. IInv /\ [Next]_vars
          => [\A w \in Workspaces :
                Applies(w) /\ op'[w].result = "inconsistent"
                  => IF kind = "settings" THEN OnAndUnasked(w)
                     ELSE Unconverted(w)]_vars
    <2> HIDE DEF OnAndUnasked, Unconverted
    <2>1. ASSUME IInv, Next, NEW w \in Workspaces, Applies(w),
                 op'[w].result = "inconsistent"
          PROVE  IF kind = "settings" THEN OnAndUnasked(w) ELSE Unconverted(w)
      BY <1>1, <1>2, <2>1
    <2> QED
      BY <2>1
  <1> QED
    BY <1>3, Invariance, PTL DEF Spec, InconsistentOnlyIfListed

=============================================================================
