-------------------------- MODULE UpsertedResource --------------------------
(***************************************************************************)
(* The resources of src/coreweave/object_storage whose Create and Update   *)
(* are the same upsert, of something that is named and not identified:     *)
(*                                                                         *)
(*   "settings"  resource_bucket_settings.go, the settings of a bucket     *)
(*   "policy"    resource_organization_access_policy.go                    *)
(*                                                                         *)
(* Nothing says whose it is, so two workspaces (Terraform states) may      *)
(* manage the same name.                                                   *)
(*                                                                         *)
(*   kind      the resource at hand                                        *)
(*   entitled  the organization may configure bucket archive               *)
(*   cloud     what the API holds under each name                          *)
(*   tfstate   the resource in each workspace's state, or NoState          *)
(*   config    what each workspace asks for, NoConfig without a block      *)
(*   op        each workspace's terraform run, and how the last one ended  *)
(*   budget    bounds on what the environment may do                       *)
(***************************************************************************)
EXTENDS Naturals, FiniteSets

CONSTANTS
    Workspaces,
    Names,
    NoName,
    Absent,      \* no policy of this name, no bucket of this name
    Null,        \* an attribute that is not given
    Unknown,     \* a planned value: whatever the provider answers
    NoState,
    NoConfig,
    Kinds,
    Models,      \* for each kind, what a configuration may ask for
    Unconvertible,   \* policies that have a null in one of their sets
    MaxFaults,   \* bound: errors, lost answers, crashes
    MaxEdits,    \* bound: changes of a configuration
    MaxOutside   \* bound: changes by others, of the entitlement too

AllKinds == {"settings", "policy"}

ASSUME KindAssumption == Kinds \subseteq AllKinds
ASSUME NameAssumption == NoName \notin Names
ASSUME BudgetAssumption == /\ MaxFaults \in Nat /\ MaxEdits \in Nat
                           /\ MaxOutside \in Nat

Switch == {Null} \cup BOOLEAN
SettingsType == [audit : Switch, archive : Switch, days : {Null} \cup Nat]

ASSUME NullAssumption == /\ Null # Unknown
                         /\ {Null, Unknown} \cap (BOOLEAN \cup Nat) = {}
ASSUME ModelAssumption ==
    /\ Models["settings"] \subseteq SettingsType
    /\ Absent \notin Models["policy"] \cup SettingsType
\* Some policy is a request.
ASSUME ConvertibleAssumption == Models["policy"] \ Unconvertible # {}
ASSUME NoneAssumption ==
    LET models == Models["policy"] \cup SettingsType
    IN /\ NoState \notin [name : Names, model : models, tainted : BOOLEAN]
       /\ NoConfig \notin [name : Names, model : models]

VARIABLES kind, entitled, cloud, tfstate, config, op, budget

vars == <<kind, entitled, cloud, tfstate, config, op, budget>>

-----------------------------------------------------------------------------
(* Data *)

\* A policy is one value; its sets are never empty (schema), so that Set
\* brings back what ToEnsureAccessPolicyRequest sent, if it made a request.
NewBucket == [audit |-> Null, archive |-> Null, days |-> Null]

Steps == {"idle", "create", "update", "delete"}
Results == {"ok", "error", "inconsistent"}

IdleOp(result) ==
    [step |-> "idle", replace |-> FALSE, name |-> NoName, plan |-> Null,
     result |-> result]

Charge(what) ==
    /\ budget[what] > 0
    /\ budget' = [budget EXCEPT ![what] = @ - 1]

Finish(w, state, result) ==
    /\ tfstate' = [tfstate EXCEPT ![w] = state]
    /\ op' = [op EXCEPT ![w] = IdleOp(result)]

\* "archive_after_last_access_days must be set when archive_enabled is true"
\* and "can only be set when archive_enabled is true".  A configuration that is
\* rejected does nothing, and is not considered.
ValidateConfig(model) ==
    kind = "settings" => (model.archive = TRUE) = (model.days # Null)

Asked == {NoConfig} \cup
         [name : Names, model : {m \in Models[kind] : ValidateConfig(m)}]

\* Mutant of ToProtoObject: ValueBool of an unknown value is false.
MutSendsFalse(plan) ==
    [a \in DOMAIN plan |-> IF plan[a] = Unknown THEN FALSE ELSE plan[a]]

\* Mutant of ToProtoObject: only what is on is sent.
MutOnlyTrue(plan) ==
    [a \in DOMAIN plan |->
       IF plan[a] = Unknown \/ (a # "days" /\ plan[a] = FALSE) THEN Null
       ELSE plan[a]]

\* BucketSettingsModel.ToProtoObject: "Unknown values must be skipped as well
\* as null ones"; here a field that is not sent is Null.
ToProtoObject(plan) ==
    [a \in DOMAIN plan |-> IF plan[a] = Unknown THEN Null ELSE plan[a]]

-----------------------------------------------------------------------------
(* The API (external) *)

SendsArchive(request) == request.archive # Null \/ request.days # Null

Refused(name, request) ==
    /\ kind = "settings"
    /\ \/ cloud[name] = Absent
       \/ SendsArchive(request) /\ ~entitled
       \/ request.archive = TRUE /\ request.days = Null

\* A field that is not sent is left alone, and "disabling archive nulls the
\* retention server-side".
Stored(old, request) ==
    IF kind = "policy" THEN request
    ELSE [a \in DOMAIN request |->
            IF a = "days" /\ request.archive = FALSE THEN Null
            ELSE IF request[a] # Null THEN request[a] ELSE old[a]]

\* What an organization is told of the settings.
Disclosed(settings) ==
    IF kind = "policy" \/ entitled THEN settings
    ELSE [settings EXCEPT !.archive = Null, !.days = Null]

Held == IF kind = "policy" THEN Models[kind] ELSE SettingsType
State == [name : Names, model : Held, tainted : BOOLEAN]

\* What may be planned: a setting that is not Unknown is one that may be held.
PlanType == IF kind = "policy" THEN Models[kind]
            ELSE [audit : Switch, archive : Switch \cup {Unknown},
                  days : {Null} \cup Nat]
Op == [step : Steps, replace : BOOLEAN, name : Names \cup {NoName},
       plan : {Null} \cup PlanType, result : Results]
Budget == [faults : 0..MaxFaults, edits : 0..MaxEdits, outside : 0..MaxOutside]

TypeOK == /\ kind \in Kinds /\ entitled \in BOOLEAN
          /\ cloud \in [Names -> {Absent} \cup Held]
          /\ tfstate \in [Workspaces -> {NoState} \cup State]
          /\ config \in [Workspaces -> Asked]
          /\ op \in [Workspaces -> Op]
          /\ budget \in Budget

-----------------------------------------------------------------------------
(* Refresh and plan, one step: a plan reads only the state that the refresh *)
(* before it has set, so what others do in between they may do before.      *)

\* Mutant of Read: what is gone is kept.
MutReadKeepsGone(w) ==
    IF tfstate[w] = NoState \/ cloud[tfstate[w].name] = Absent THEN tfstate[w]
    ELSE [tfstate[w] EXCEPT !.model = Disclosed(cloud[tfstate[w].name])]

\* What is gone is removed from the state; else the model is the API's.
Read(w) ==
    IF tfstate[w] = NoState \/ cloud[tfstate[w].name] = Absent THEN NoState
    ELSE [tfstate[w] EXCEPT !.model = Disclosed(cloud[tfstate[w].name])]

\* The schema: audit_logging_enabled has a default, archive_enabled is
\* computed and has none.  Once anything changes, the framework marks it
\* unknown; until then the prior value stands.
WithDefaults(asked) ==
    [asked EXCEPT !.audit = IF @ = Null THEN FALSE ELSE @]

\* Mutant of SettingsPlan: archive_enabled is computed and not optional.
MutArchiveComputed(asked, otherwise) ==
    [WithDefaults(asked) EXCEPT !.archive = otherwise]

SettingsPlan(asked, otherwise) ==
    [WithDefaults(asked) EXCEPT !.archive = IF @ = Null THEN otherwise ELSE @]

Planned(asked) ==
    IF kind = "policy" THEN asked ELSE SettingsPlan(asked, Unknown)

NoChanges(state, asked) ==
    state.model = IF kind = "policy" THEN asked
                  ELSE SettingsPlan(asked, state.model.archive)

\* Mutant of NeedsReplace: the name is changed in place.
MutNamedInPlace(state, c) == state.tainted

\* RequiresReplace, the bucket of settings and the name of a policy.
NeedsReplace(state, c) == state.tainted \/ state.name # c.name

Plan(state, c) ==
    LET start(step, replace) ==
          [IdleOp("ok") EXCEPT
             !.step = step, !.replace = replace,
             !.name = IF c = NoConfig THEN NoName ELSE c.name,
             !.plan = IF c = NoConfig THEN Null ELSE Planned(c.model)]
    IN CASE c = NoConfig /\ state = NoState -> IdleOp("ok")
         [] c = NoConfig /\ state # NoState -> start("delete", FALSE)
         [] c # NoConfig /\ state = NoState -> start("create", FALSE)
         [] OTHER -> IF NeedsReplace(state, c) THEN start("delete", TRUE)
                     ELSE IF NoChanges(state, c.model) THEN IdleOp("ok")
                     ELSE start("update", FALSE)

Refresh(w) ==
    /\ op[w].step = "idle"
    /\ tfstate' = [tfstate EXCEPT ![w] = Read(w)]
    /\ op' = [op EXCEPT ![w] = Plan(Read(w), config[w])]
    /\ UNCHANGED <<kind, entitled, cloud, config, budget>>

SettingsRead(w) == kind = "settings" /\ Refresh(w)
PolicyRead(w)   == kind = "policy" /\ Refresh(w)

-----------------------------------------------------------------------------
(* Create and Update *)

Request(w) ==
    IF kind = "policy" THEN op[w].plan ELSE ToProtoObject(op[w].plan)

\* ToEnsureAccessPolicyRequest made no request, and its diagnostics are appended
\* to a copy of the handler's: nothing is sent and the handler reports nothing.
\* A Create without a state is an error of the framework; an Update answers the
\* prior state, which is not what was planned.
NoRequest(w) ==
    /\ kind = "policy" /\ op[w].plan \in Unconvertible
    /\ Finish(w, tfstate[w],
              IF op[w].step = "create" THEN "error" ELSE "inconsistent")

\* The state is the answer for settings, and the plan for a policy; core
\* compares it with the plan.
Answered(w) ==
    LET plan == op[w].plan
        model == IF kind = "policy" THEN plan
                 ELSE Disclosed(cloud'[op[w].name])
        result == IF \/ kind = "policy"
                     \/ \A a \in DOMAIN plan : plan[a] \in {Unknown, model[a]}
                  THEN "ok" ELSE "inconsistent"
    IN Finish(w, [name |-> op[w].name, model |-> model,
                  tainted |-> op[w].step = "create" /\ result # "ok"], result)

\* No handler asks first whether the name is taken.  A request may be refused,
\* or fail before or after it had its effect.
Upsert(w) ==
    LET stored == /\ ~Refused(op[w].name, Request(w))
                  /\ cloud' = [cloud EXCEPT ![op[w].name] =
                                  Stored(@, Request(w))]
        failed == UNCHANGED cloud /\ Finish(w, tfstate[w], "error")
    IN
       /\ \/ stored /\ Answered(w) /\ UNCHANGED budget
          \/ stored /\ Finish(w, tfstate[w], "error") /\ Charge("faults")
          \/ failed /\ Charge("faults")
          \/ Refused(op[w].name, Request(w)) /\ failed /\ UNCHANGED budget
       /\ UNCHANGED <<kind, entitled, config>>

PolicyUpsert(w) ==
    /\ kind = "policy"
    /\ \/ NoRequest(w) /\ UNCHANGED <<kind, entitled, cloud, config, budget>>
       \/ op[w].plan \notin Unconvertible /\ Upsert(w)

SettingsCreate(w) == kind = "settings" /\ op[w].step = "create" /\ Upsert(w)
SettingsUpdate(w) == kind = "settings" /\ op[w].step = "update" /\ Upsert(w)
PolicyCreate(w)   == op[w].step = "create" /\ PolicyUpsert(w)
PolicyUpdate(w)   == op[w].step = "update" /\ PolicyUpsert(w)

-----------------------------------------------------------------------------
(* Delete *)

\* What is gone is fine.
Deleted(w) ==
    /\ tfstate' = [tfstate EXCEPT ![w] = NoState]
    /\ op' = [op EXCEPT ![w] = IF @.replace THEN [@ EXCEPT !.step = "create"]
                               ELSE IdleOp("ok")]

Delete(w, left, refused) ==
    LET removed == /\ ~refused
                   /\ cloud' = [cloud EXCEPT ![tfstate[w].name] = left]
        failed == Finish(w, tfstate[w], "error")
    IN
       /\ \/ removed /\ Deleted(w) /\ UNCHANGED budget
          \/ removed /\ failed /\ Charge("faults")
          \/ UNCHANGED cloud /\ failed /\ Charge("faults")
          \/ refused /\ UNCHANGED cloud /\ failed /\ UNCHANGED budget
       /\ UNCHANGED <<kind, entitled, config>>

\* Mutant of DeleteRequest: archive is left as it is.
MutLeavesArchive(model) == [audit |-> FALSE, archive |-> Null, days |-> Null]

\* "Only disable archive if this resource had it enabled."
DeleteRequest(model) ==
    [audit |-> FALSE, archive |-> IF model.archive = TRUE THEN FALSE ELSE Null,
     days |-> Null]

SettingsDelete(w) ==
    LET name == tfstate[w].name
        request == DeleteRequest(tfstate[w].model)
    IN /\ kind = "settings" /\ op[w].step = "delete"
       /\ IF cloud[name] = Absent THEN Delete(w, Absent, FALSE)
          ELSE Delete(w, Stored(cloud[name], request), Refused(name, request))

PolicyDelete(w) ==
    kind = "policy" /\ op[w].step = "delete" /\ Delete(w, Absent, FALSE)

-----------------------------------------------------------------------------
(* Import and crash *)

\* A name that the API does not have is an error.
ImportState(w) ==
    /\ op[w].step = "idle"
    /\ tfstate[w] = NoState /\ config[w] # NoConfig
    /\ cloud[config[w].name] # Absent
    /\ Finish(w, [name |-> config[w].name, tainted |-> FALSE,
                  model |-> Disclosed(cloud[config[w].name])], "ok")
    /\ UNCHANGED <<kind, entitled, cloud, config, budget>>

SettingsImport(w) == kind = "settings" /\ ImportState(w)
PolicyImport(w)   == kind = "policy" /\ ImportState(w)

\* The run dies with its plan.
Crash(w) ==
    /\ op[w].step \in {"create", "update", "delete"}
    /\ Charge("faults") /\ Finish(w, tfstate[w], "error")
    /\ UNCHANGED <<kind, entitled, cloud, config>>

-----------------------------------------------------------------------------
(* Others (external) *)

EditConfig(w) ==
    /\ op[w].step = "idle" /\ Charge("edits")
    /\ \E c \in Asked \ {config[w]} : config' = [config EXCEPT ![w] = c]
    /\ UNCHANGED <<kind, entitled, cloud, tfstate, op>>

\* Somebody removes a policy or a bucket, makes one, or turns archive on; the
\* organization is given the entitlement, or loses it.
Outside(n) ==
    /\ Charge("outside")
    /\ \/ /\ cloud' = [cloud EXCEPT ![n] =
                         IF @ # Absent THEN Absent
                         ELSE IF kind = "policy" THEN CHOOSE m \in Models[kind] \ Unconvertible : TRUE
                         ELSE NewBucket]
          /\ UNCHANGED entitled
       \/ /\ kind = "settings" /\ cloud[n] # Absent
          /\ cloud' = [cloud EXCEPT ![n].archive = TRUE, ![n].days = 60]
          /\ UNCHANGED entitled
       \/ /\ kind = "settings" /\ entitled' = ~entitled /\ UNCHANGED cloud
    /\ UNCHANGED <<kind, tfstate, config, op>>

-----------------------------------------------------------------------------
Init ==
    /\ kind \in Kinds
    /\ entitled \in IF kind = "policy" THEN {TRUE} ELSE BOOLEAN
    /\ cloud = [n \in Names |-> IF kind = "policy" THEN Absent ELSE NewBucket]
    /\ tfstate = [w \in Workspaces |-> NoState]
    /\ config \in [Workspaces -> Asked]
    /\ op = [w \in Workspaces |-> IdleOp("ok")]
    /\ budget = [faults |-> MaxFaults, edits |-> MaxEdits,
                 outside |-> MaxOutside]

Reads(w)   == SettingsRead(w) \/ PolicyRead(w)
Upserts(w) == \/ SettingsCreate(w) \/ SettingsUpdate(w)
              \/ PolicyCreate(w) \/ PolicyUpdate(w)
Deletes(w) == SettingsDelete(w) \/ PolicyDelete(w)
Imports(w) == SettingsImport(w) \/ PolicyImport(w)

Next == \/ \E w \in Workspaces : \/ Reads(w) \/ Upserts(w)
                                 \/ Deletes(w) \/ Imports(w) \/ Crash(w)
                                 \/ EditConfig(w)
        \/ \E n \in Names : Outside(n)

Spec == Init /\ [][Next]_vars

\* Every workspace is applied again and again and its requests are answered.
PatientSpec ==
    /\ Spec
    /\ \A w \in Workspaces : WF_vars(Reads(w) \/ Upserts(w) \/ Deletes(w))

-----------------------------------------------------------------------------
(* Properties *)

\* What is held under a name is what a configuration asks for; what it does
\* not mention of archive is not compared, an omitted audit is false.
Holds(held, c) ==
    held # Absent
       /\ IF kind = "policy" THEN held = c.model
          ELSE LET asked == WithDefaults(c.model)
               IN /\ held.audit = asked.audit
                  /\ asked.archive # Null
                        => held.archive = asked.archive /\ held.days = asked.days

Applies(w) == op[w].step \in {"create", "update"} /\ op'[w].step = "idle"

\* A create or an update that ends without an error leaves what was asked for
\* when the plan was made.
SuccessMeansAsAsked ==
    [][\A w \in Workspaces :
         Applies(w) /\ op'[w].result = "ok" => Holds(cloud'[op[w].name], config[w])]_vars

\* "An unentitled org managing only audit logging must not be rejected" and
\* "must be able to destroy the resource" (the unit tests): without archive in
\* the plan or in the state, nothing but a failure of the API or a missing
\* bucket ends a run with an error.
UnentitledUnaffected ==
    [][kind = "settings" => \A w \in Workspaces :
         /\ op[w].step # "idle" /\ op'[w].result = "error" /\ budget' = budget
         /\ op[w].step # "delete" => op[w].plan.archive = Unknown
         /\ op[w].step = "delete" => tfstate[w].model.archive # TRUE
         => op[w].step # "delete" /\ cloud[op[w].name] = Absent]_vars

\* Terraform forgets a policy only when the API does not have it, and settings
\* only when the bucket is gone or what the state showed on is off.
ForgottenMeansOff ==
    [][\A w \in Workspaces :
         tfstate[w] # NoState /\ tfstate'[w] = NoState
           => LET held == cloud'[tfstate[w].name]
              IN held # Absent
                   => /\ kind = "settings" /\ held.audit = FALSE
                      /\ tfstate[w].model.archive = TRUE => held.archive = FALSE]_vars

Owned == {tfstate[w].name : w \in {v \in Workspaces : tfstate[v] # NoState}}
Spent == (MaxFaults - budget.faults) + (MaxOutside - budget.outside)

\* However the workspaces' runs interleave, each failed or foreign request
\* leaves at most one policy that no state knows of.
FewOrphans ==
    kind = "policy"
      => Cardinality({n \in Names : cloud[n] # Absent} \ Owned) <= Spent

\* An apply answers what was planned, but for settings that say nothing of the
\* archive of a bucket that has it on (see OmittedDaysStayNull), and for an
\* update to a policy that is no request, which changes nothing.
InconsistentOnlyIfListed ==
    [][\A w \in Workspaces :
         Applies(w) /\ op'[w].result = "inconsistent"
           => IF kind = "settings"
              THEN op[w].plan.archive = Unknown /\ cloud'[op[w].name].archive = TRUE
              ELSE /\ op[w].step = "update" /\ op[w].plan \in Unconvertible
                   /\ cloud' = cloud /\ tfstate' = tfstate]_vars

\* resource_bucket_settings.go:233: "an omitted value always means archive is
\* not being turned on, so it should plan as a definite null": days that are
\* planned as null are null in the state.
OmittedDaysStayNull ==
    [][\A w \in Workspaces :
         kind = "settings" /\ Applies(w) /\ op'[w].result # "error"
           => op[w].plan.days = tfstate'[w].model.days]_vars

Converged(w) ==
    IF config[w] = NoConfig THEN tfstate[w] = NoState
    ELSE /\ tfstate[w] # NoState /\ ~tfstate[w].tainted
         /\ tfstate[w].name = config[w].name
         /\ Holds(cloud[config[w].name], config[w])

\* No apply reaches a configuration that the API refuses, a policy that is no
\* request, or settings that say nothing of an archive that is on.
Hopeless(w) ==
    /\ config[w] # NoConfig
    /\ \/ kind = "policy" /\ config[w].model \in Unconvertible
       \/ Refused(config[w].name, ToProtoObject(config[w].model))
       \/ /\ kind = "settings" /\ config[w].model.archive = Null
          /\ cloud[config[w].name].archive = TRUE

\* Two workspaces that ask for different things under one name overwrite each
\* other for ever.
Disputed ==
    \E v, w \in Workspaces :
        /\ v # w /\ NoConfig \notin {config[v], config[w]}
        /\ config[v].name = config[w].name /\ config[v] # config[w]

\* Applying again and again reaches every workspace's configuration, after any
\* finite number of errors, lost answers, crashes and changes by others.
Converges ==
    <>[](Disputed \/ \A w \in Workspaces : Converged(w) \/ Hopeless(w))
=============================================================================
