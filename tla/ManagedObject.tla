--------------------------- MODULE ManagedObject ---------------------------
(***************************************************************************)
(* The resources whose object the API identifies by an id and rolls out    *)
(* asynchronously:                                                         *)
(*                                                                         *)
(*   "cluster"     src/coreweave/cks/resource_cluster.go, whose handlers   *)
(*                 are in more detail in ClusterResource                   *)
(*   "vpc"         src/coreweave/networking/resource_vpc.go                *)
(*   "deployment"  src/coreweave/inference/resource_inference_*.go         *)
(*   "gateway", "claim"                                                    *)
(*                                                                         *)
(* Their handlers have one shape: a request, the state set from its        *)
(* answer, a wait, the state set again.  What differs is modelled: the     *)
(* conversions (Cluster, Vpc, Inference), the statuses a wait endures,     *)
(* what an Update leaves in the state when its wait fails, and the         *)
(* attributes that an Update must not touch.                               *)
(*                                                                         *)
(*   kind        the resource at hand                                      *)
(*   cloud       what the API holds: status and spec of each id            *)
(*   tfstate     the resource in Terraform's state, or NoState             *)
(*   config      what the user asks for, NoConfig without a block          *)
(*   op          the terraform run in flight, and how the last one ended;  *)
(*               op.accepted is history: the spec of the object once the   *)
(*               API has accepted the request of a Create or an Update     *)
(*   advertised  the engines GetDeploymentParameters answers               *)
(*   budget      bounds on what the environment may do                     *)
(***************************************************************************)
EXTENDS Naturals, FiniteSets, Cluster, Vpc, Inference, StateWaiter

CONSTANTS
    MaxObjects,   \* bound: objects the API creates
    NoId,
    NoConfig,
    Kinds,
    Configs,      \* for each kind, what a configuration may ask for
    Engines,      \* the sets of engines the API may advertise
    MaxFaults,    \* bound: errors, timeouts, failed rollouts, crashes
    MaxOrphans,   \* bound: lost answers of a create, crashes during one
    MaxEdits      \* bound: changes of the configuration and elsewhere

Ids == 1..MaxObjects
AllKinds == {"cluster", "vpc", "deployment", "gateway", "claim"}

ASSUME KindAssumption == Kinds \subseteq AllKinds
ASSUME ObjectAssumption == MaxObjects \in Nat /\ NoId \notin Ids
ASSUME BudgetAssumption == /\ MaxFaults \in Nat
                           /\ MaxOrphans \in Nat
                           /\ MaxEdits \in Nat

\* What may be configured is what the schemas let through.
ASSUME ConfigAssumption ==
    \A k \in Kinds : \A c \in Configs[k] :
       /\ c # NoConfig
       /\ k = "cluster" => ClusterWellFormed(c)
       /\ k = "vpc" => VpcWellFormed(c)
       /\ k = "deployment" => DeploymentWellFormed(c)
       /\ k = "gateway" => GatewayWellFormed(c)
       /\ k = "claim" => ClaimWellFormed(c)

\* The records that gateways may be given are none of the three either,
\* however many the API has merged.
ASSUME RecordsAssumption ==
    "gateway" \in Kinds =>
       \A records \in SUBSET UNION {OrZero(c.additional_dns, {}) :
                                      c \in Configs["gateway"]} :
          IsKnown(records)

\* No resource in Terraform's state: no object has its id.
NoState == [id |-> NoId]

VARIABLES kind, cloud, tfstate, config, op, advertised, budget

vars == <<kind, cloud, tfstate, config, op, advertised, budget>>

-----------------------------------------------------------------------------
(* Data *)

Reported == {"UNSPECIFIED", "CREATING", "READY", "UPDATING", "FAILED",
             "DELETING"}

Unused == [status |-> "UNUSED", spec |-> Null]

Steps == {"idle", "refreshed", "create", "createWait", "update",
          "updateWait", "delete", "deleteWait"}

Results == {"none", "ok", "error", "inconsistent", "panic"}

IdleOp(result) ==
    [step |-> "idle", replace |-> FALSE, plan |-> Null, id |-> NoId,
     resp |-> NoState, accepted |-> Null, result |-> result]

Found(i) == cloud[i].status \in Reported

Charge(what) ==
    /\ budget[what] > 0
    /\ budget' = [budget EXCEPT ![what] = @ - 1]

Finish(state, result) == tfstate' = state /\ op' = IdleOp(result)

\* The kind's share of the conversions.
EmptyModel == CASE kind = "cluster" -> EmptyCluster
                [] kind = "vpc" -> EmptyVpc
                [] kind = "deployment" -> EmptyDeployment
                [] kind = "gateway" -> EmptyGateway
                [] kind = "claim" -> EmptyClaim

Planned(prior, asked) ==
    CASE kind = "cluster" -> ClusterPlan(prior, asked)
      [] kind = "vpc" -> VpcPlan(prior, asked)
      [] kind = "deployment" -> DeploymentPlan(prior, asked)
      [] OTHER -> asked

\* What a create plans: nothing computed is known.
FreshPlan(asked) == Planned([a \in DOMAIN EmptyModel |-> Unknown], asked)

ModelSet(model, spec) ==
    CASE kind = "cluster" -> ClusterSet(model, spec)
      [] kind = "vpc" -> VpcSet(model, spec)
      [] kind = "deployment" -> DeploymentSet(model, spec)
      [] kind = "gateway" -> GatewaySet(model, spec)
      [] kind = "claim" -> ClaimSet(model, spec)

Created(plan) ==
    CASE kind = "cluster" -> ClusterCreated(ClusterCreateRequest(plan))
      [] kind = "vpc" -> VpcCreated(VpcCreateRequest(plan))
      [] kind = "deployment" -> DeploymentStored(DeploymentRequest(plan))
      [] kind = "gateway" -> GatewayStored(GatewayCreateRequest(plan), {})
      [] kind = "claim" -> ClaimRequest(plan)

\* What an Update makes of an object; a cluster's is told what differs from
\* the prior state.
Updated(spec, plan, prior) ==
    CASE kind = "cluster" -> ClusterUpdated(spec, ClusterUpdateRequest(plan, prior))
      [] kind = "vpc" -> VpcUpdated(spec, VpcUpdateRequest(plan))
      [] kind = "deployment" -> DeploymentStored(DeploymentRequest(plan))
      [] kind = "gateway" -> GatewayStored(GatewayUpdateRequest(plan),
                                           spec.additional_dns)
      [] kind = "claim" -> ClaimUpdated(spec, ClaimRequest(plan))

\* RequiresReplace: the name, and of a claim all but the count.
ConfigForcesReplace(prior) ==
    CASE kind = "cluster" -> ClusterNeedsReplace(prior, config)
      [] kind = "vpc" -> VpcNeedsReplace(prior, config)
      [] kind = "claim" -> \/ prior.name # config.name
                           \/ prior.resources # config.resources
      [] OTHER -> prior.name # config.name

AsAsked(spec) ==
    CASE kind = "cluster" -> ClusterAsAsked(config, spec)
      [] kind = "vpc" -> VpcAsAsked(config, spec)
      [] kind = "deployment" -> DeploymentAsAsked(config, spec)
      [] kind = "gateway" -> GatewayAsAsked(config, spec)
      [] kind = "claim" -> ClaimAsAsked(config, spec)

Lossy == CASE kind = "cluster" -> ClusterLossy(config)
           [] kind = "vpc" -> VpcLossy(config)
           [] kind = "deployment" -> DeploymentLossy(config)
           [] kind = "gateway" -> GatewayLossy(config)
           [] kind = "claim" -> ClaimLossy(config)

TypeOK ==
    LET State == {NoState} \cup
           {s \in {tfstate, op.resp} \ {NoState} :
              /\ s.id \in Ids /\ s.tainted \in BOOLEAN
              /\ s.status \in Reported \cup {Null}
              /\ DOMAIN s.model = DOMAIN EmptyModel
              /\ \A a \in DOMAIN s.model : s.model[a] # Unknown}
    IN /\ kind \in Kinds
       /\ \A i \in Ids : cloud[i].status \in Reported \cup {"UNUSED", "GONE"}
       /\ tfstate \in State
       /\ config \in Configs[kind] \cup {NoConfig}
       /\ op.step \in Steps /\ op.result \in Results /\ op.resp \in State
       /\ op.id \in Ids \cup {NoId} /\ op.replace \in BOOLEAN
       /\ advertised \in Engines
       /\ budget \in [faults : 0..MaxFaults, orphans : 0..MaxOrphans,
                      edits : 0..MaxEdits]

-----------------------------------------------------------------------------
(* The state a handler sets *)

\* Mutant of ObservedStatus: the answer's status whatever the handler.
MutStatusFresh(model, i, preserve) ==
    IF kind = "vpc" THEN Null ELSE cloud'[i].status

\* status, updated_at, conditions: from the answer, unless the handler is an
\* Update ("preserveStatusFields"), which the cluster's does not observe.  A VPC
\* has none of them.
ObservedStatus(model, i, preserve) ==
    IF kind = "vpc" THEN Null
    ELSE IF preserve /\ kind # "cluster" THEN model.status ELSE cloud'[i].status

\* setFrom... of the answer for object i, over a model.
SetFrom(model, i, preserve, tainted) ==
    [id |-> i, status |-> ObservedStatus(model, i, preserve),
     model |-> ModelSet(model.model, cloud'[i].spec), tainted |-> tainted]

\* A plan as a model: the computed attributes of a state, or unknown.
PlanModel == [model |-> op.plan,
              status |-> IF tfstate = NoState THEN Unknown ELSE tfstate.status]

\* Core's check of an apply's answer.
ApplyResult(state) ==
    IF Consistent(op.plan, state.model)
       /\ PlanModel.status \in {Unknown, state.status}
    THEN "ok" ELSE "inconsistent"

-----------------------------------------------------------------------------
(* Terraform core: refresh and plan.  A Read that fails changes nothing and *)
(* is not a step.                                                           *)

Refresh ==
    /\ op.step = "idle"
    /\ UNCHANGED <<kind, cloud, config, advertised, budget>>
    /\ tfstate' = IF tfstate = NoState \/ ~Found(tfstate.id) THEN NoState
                  ELSE SetFrom(tfstate, tfstate.id, FALSE, tfstate.tainted)
    /\ op' = [IdleOp("none") EXCEPT !.step = "refreshed"]

ClusterRead    == kind = "cluster" /\ Refresh
VpcRead        == kind = "vpc" /\ Refresh
DeploymentRead == kind = "deployment" /\ Refresh
GatewayRead    == kind = "gateway" /\ Refresh
ClaimRead      == kind = "claim" /\ Refresh

NeedsReplace == tfstate.tainted \/ ConfigForcesReplace(tfstate.model)

Start(step, replace, plan) ==
    op' = [IdleOp("none") EXCEPT !.step = step, !.replace = replace,
                                 !.plan = plan]

PlanFits ==
    \/ config = NoConfig /\ tfstate = NoState /\ op' = IdleOp("ok")
    \/ config = NoConfig /\ tfstate # NoState /\ Start("delete", FALSE, Null)
    \/ config # NoConfig /\ tfstate = NoState /\ Start("create", FALSE, FreshPlan(config))
    \/ /\ config # NoConfig /\ tfstate # NoState
       /\ \/ NeedsReplace /\ Start("delete", TRUE, FreshPlan(config))
          \/ /\ ~NeedsReplace
             /\ LET plan == Planned(tfstate.model, config)
                IN IF plan = tfstate.model THEN op' = IdleOp("ok")
                   ELSE Start("update", FALSE, plan)

\* ModifyPlan asks for the engines, whatever the plan.
PlanRefused ==
    kind = "deployment" /\ config # NoConfig
       /\ ~EngineAvailable(advertised, config)

Plan ==
    /\ op.step = "refreshed"
    /\ \/ PlanRefused /\ op' = IdleOp("error") /\ UNCHANGED budget
       \/ /\ kind = "deployment" /\ config # NoConfig   \* the question fails
          /\ op' = IdleOp("error") /\ Charge("faults")
       \/ ~PlanRefused /\ PlanFits /\ UNCHANGED budget
    /\ UNCHANGED <<kind, cloud, tfstate, config, advertised>>

-----------------------------------------------------------------------------
(* Create *)

Invalid(plan) == kind = "vpc" /\ VpcPlanInvalid(plan)
Panics(plan) == kind = "vpc" /\ VpcPlanPanics(plan)

\* A plan that is no request: the run ends before anything is sent.
NoRequest ==
    /\ \/ Panics(op.plan) /\ op' = IdleOp("panic")
       \/ ~Panics(op.plan) /\ Invalid(op.plan) /\ op' = IdleOp("error")
    /\ UNCHANGED <<cloud, tfstate, budget>>

\* Ids are given out in order.
CreateAccepted(i, plan) ==
    /\ cloud[i].status = "UNUSED"
    /\ \A j \in 1..(i - 1) : cloud[j].status # "UNUSED"
    /\ \E st \in {"UNSPECIFIED", "CREATING"} :
          cloud' = [cloud EXCEPT ![i] = [status |-> st, spec |-> Created(plan)]]

RequestCreate ==
    /\ op.step = "create"
    /\ UNCHANGED tfstate
    /\ \/ NoRequest
       \/ /\ ~Panics(op.plan) /\ ~Invalid(op.plan)
          /\ \/ \E i \in Ids :
                   /\ CreateAccepted(i, op.plan)
                   /\ op' = [op EXCEPT
                               !.step = "createWait", !.id = i,
                               !.resp = SetFrom(PlanModel, i, FALSE, TRUE),
                               !.accepted = cloud'[i].spec]
                   /\ UNCHANGED budget
             \/ /\ \E i \in Ids : CreateAccepted(i, op.plan)
                /\ op' = IdleOp("error") /\ Charge("orphans")
             \/ /\ \/ \A i \in Ids : cloud[i].status # "UNUSED"
                      /\ UNCHANGED budget
                   \/ Charge("faults")
                /\ op' = IdleOp("error")
                /\ UNCHANGED cloud

\* ERROR and FAILED end the wait with an answer, which the code turns into a
\* diagnostic; only the Create of a cluster saves that answer.
Answer == IF Found(op.id) THEN cloud[op.id].status ELSE RefreshError

CreatePending == {"CREATING", "UNSPECIFIED"}

\* Mutant of ReadyTarget: a wait that is content too early.
MutReadyEarly == {"READY", "CREATING"}
ReadyTarget == {"READY"}

AwaitCreate ==
    /\ op.step = "createWait"
    /\ UNCHANGED <<cloud, budget>>
    /\ LET verdict == Verdict(CreatePending, ReadyTarget, Answer)
           state == SetFrom(op.resp, op.id, FALSE, FALSE)
           result == ApplyResult(state)
       IN \/ /\ verdict = "done"
             /\ Finish([state EXCEPT !.tainted = result # "ok"], result)
          \/ /\ verdict \in {"failed", "unexpected"}
             /\ Finish(IF kind = "cluster" /\ Answer = "FAILED"
                       THEN [state EXCEPT !.tainted = TRUE] ELSE op.resp,
                       "error")

Create == /\ RequestCreate \/ AwaitCreate
          /\ UNCHANGED <<kind, config, advertised>>

ClusterCreate    == kind = "cluster" /\ Create
VpcCreate        == kind = "vpc" /\ Create
DeploymentCreate == kind = "deployment" /\ Create
GatewayCreate    == kind = "gateway" /\ Create
ClaimCreate      == kind = "claim" /\ Create

-----------------------------------------------------------------------------
(* Update *)

\* Mutant of UpdateResponse: the inference resources keep the prior state too.
MutUpdateForgets(i) == tfstate

\* What an Update answers when its wait fails: the inference resources set
\* the state before they wait, the cluster and the VPC do not.
UpdateResponse(i) ==
    IF kind \in {"cluster", "vpc"} THEN tfstate ELSE SetFrom(PlanModel, i, TRUE, FALSE)

\* A cluster that failed may refuse every update.
Updatable == IF kind = "cluster" THEN {} ELSE {"FAILED"}

\* The API refuses an update that it would never accept.
UpdateRefused(plan) ==
    kind = "cluster"
       /\ LET request == ClusterUpdateRequest(plan, tfstate.model)
          IN \/ ClusterRefuses(request)
             \/ ~ClusterGrows(cloud[tfstate.id].spec, request)

\* The statuses in which the API takes a change.
TakesUpdates == {"READY", "UPDATING", "FAILED"}

UpdateAccepted(i) ==
    /\ ~UpdateRefused(op.plan)
    /\ cloud[i].status \in TakesUpdates
    /\ \E st \in {"READY", "UPDATING"} :
          cloud' = [cloud EXCEPT
                      ![i] = [status |-> st,
                       spec |-> Updated(@.spec, op.plan, tfstate.model)]]

RequestUpdate ==
    /\ op.step = "update"
    /\ UNCHANGED tfstate
    /\ \/ NoRequest
       \/ /\ ~Panics(op.plan) /\ ~Invalid(op.plan)
          /\ \/ /\ UpdateAccepted(tfstate.id)
                /\ op' = [op EXCEPT !.step = "updateWait", !.id = tfstate.id,
                                    !.resp = UpdateResponse(tfstate.id),
                                    !.accepted = cloud'[tfstate.id].spec]
                /\ UNCHANGED budget
             \/ /\ UpdateAccepted(tfstate.id) /\ Charge("faults")  \* lost
                /\ op' = IdleOp("error")
             \/ /\ \/ /\ \/ UpdateRefused(op.plan)
                         \/ cloud[tfstate.id].status
                               \notin {"READY"} \cup Updatable
                      /\ UNCHANGED budget
                   \/ Charge("faults")
                /\ op' = IdleOp("error")
                /\ UNCHANGED cloud

\* (UPGRADING of a cluster is like UPDATING.)
UpdatePending == {"UPDATING", "UNSPECIFIED"}
                    \cup IF kind \in {"cluster", "vpc"} THEN {} ELSE {"CREATING"}

\* The state is set over the plan, the observed attributes as planned.
AwaitUpdate ==
    /\ op.step = "updateWait"
    /\ UNCHANGED <<cloud, budget>>
    /\ LET verdict == Verdict(UpdatePending, ReadyTarget, Answer)
           state == SetFrom(PlanModel, op.id, TRUE, FALSE)
       IN \/ verdict = "done" /\ Finish(state, ApplyResult(state))
          \/ verdict \in {"failed", "unexpected"} /\ Finish(op.resp, "error")

Update == /\ RequestUpdate \/ AwaitUpdate
          /\ UNCHANGED <<kind, config, advertised>>

ClusterUpdate    == kind = "cluster" /\ Update
VpcUpdate        == kind = "vpc" /\ Update
DeploymentUpdate == kind = "deployment" /\ Update
GatewayUpdate    == kind = "gateway" /\ Update
ClaimUpdate      == kind = "claim" /\ Update

-----------------------------------------------------------------------------
(* Delete *)

Deleted ==
    /\ tfstate' = NoState
    /\ op' = IF op.replace THEN [op EXCEPT !.step = "create", !.id = NoId]
             ELSE IdleOp("ok")

DeleteAccepted(i) ==
    /\ Found(i)
    /\ \E st \in {"DELETING", "GONE"} : cloud' = [cloud EXCEPT ![i].status = st]

AwaitsDelete == op' = [op EXCEPT !.step = "deleteWait", !.id = tfstate.id]

RequestDelete ==
    /\ op.step = "delete"
    /\ \/ ~Found(tfstate.id) /\ Deleted /\ UNCHANGED <<cloud, budget>>
       \/ /\ DeleteAccepted(tfstate.id) /\ AwaitsDelete
          /\ UNCHANGED <<tfstate, budget>>
       \/ /\ DeleteAccepted(tfstate.id) /\ Charge("faults")         \* lost
          /\ Finish(tfstate, "error")
       \/ /\ Found(tfstate.id) /\ Charge("faults")    \* not yet visible
          /\ AwaitsDelete /\ UNCHANGED <<cloud, tfstate>>
       \/ Charge("faults") /\ Finish(tfstate, "error") /\ UNCHANGED cloud

DeletePending == {"DELETING", "UNSPECIFIED"}

\* Mutant of DeleteTarget: the deletion need only have begun.
MutGoneEarly == {"NOT_FOUND", "DELETING"}

\* CodeNotFound, as the status Refresh makes of it ("" for a VPC).
DeleteTarget == {"NOT_FOUND"}

AwaitDelete ==
    /\ op.step = "deleteWait"
    /\ LET answer == IF Found(op.id) THEN cloud[op.id].status ELSE "NOT_FOUND"
           verdict == Verdict(DeletePending, DeleteTarget, answer)
       IN \/ verdict = "done" /\ Deleted
          \/ verdict \in {"failed", "unexpected"} /\ Finish(tfstate, "error")
    /\ UNCHANGED <<cloud, budget>>

Delete == /\ RequestDelete \/ AwaitDelete
          /\ UNCHANGED <<kind, config, advertised>>

ClusterDelete    == kind = "cluster" /\ Delete
VpcDelete        == kind = "vpc" /\ Delete
DeploymentDelete == kind = "deployment" /\ Delete
GatewayDelete    == kind = "gateway" /\ Delete
ClaimDelete      == kind = "claim" /\ Delete

-----------------------------------------------------------------------------
(* Failing waits, import, crash *)

\* GetVPC, GetDeployment, ... fails, the timeout passes, or the run is
\* cancelled.  Core writes what the handler has set.
WaitFails ==
    /\ \/ op.step \in {"createWait", "updateWait"} /\ Finish(op.resp, "error")
       \/ op.step = "deleteWait" /\ Finish(tfstate, "error")
    /\ Charge("faults")
    /\ UNCHANGED <<kind, cloud, config, advertised>>

\* ImportState passes the id through; the Read that follows fills the rest.
ImportState ==
    /\ op.step = "idle" /\ tfstate = NoState /\ config # NoConfig
    /\ UNCHANGED <<kind, cloud, config, advertised, budget>>
    /\ \E i \in Ids :
          /\ Found(i)
          /\ tfstate' = SetFrom([model |-> EmptyModel, status |-> Null],
                                i, FALSE, FALSE)
    /\ op' = IdleOp("none")

\* The terraform run dies, and with it what a handler has not returned.
Crash ==
    /\ op.step \notin {"idle", "refreshed"}
    /\ Charge(IF op.step = "createWait" THEN "orphans" ELSE "faults")
    /\ Finish(tfstate, "none")
    /\ UNCHANGED <<kind, cloud, config, advertised>>

-----------------------------------------------------------------------------
(* The API and its other users (external) *)

SetStatus(i, from, to) ==
    cloud[i].status \in from /\ cloud' = [cloud EXCEPT ![i].status = to]

Progress(i) ==
    /\ \/ SetStatus(i, {"UNSPECIFIED"}, "CREATING")
       \/ SetStatus(i, {"CREATING", "UPDATING"}, "READY")
       \/ SetStatus(i, {"DELETING"}, "GONE")
    /\ UNCHANGED <<kind, tfstate, config, op, advertised, budget>>

RolloutFails(i) ==
    /\ SetStatus(i, {"CREATING", "UPDATING"}, "FAILED")
    /\ Charge("faults")
    /\ UNCHANGED <<kind, tfstate, config, op, advertised>>

EditConfig ==
    /\ op.step = "idle" /\ Charge("edits")
    /\ config' \in (Configs[kind] \cup {NoConfig}) \ {config}
    /\ UNCHANGED <<kind, cloud, tfstate, op, advertised>>

\* Another client of the API changes what can be changed to what a plan says.
ChangedElsewhere(spec, plan) ==
    IF kind = "cluster"
    THEN ClusterUpdated(spec, [a \in DOMAIN spec \ Immutable |->
                                  ClusterCreateRequest(plan)[a]])
    ELSE Updated(spec, plan, Null)

\* Somebody changes the object or deletes it elsewhere: between two runs, before
\* the request or while a wait polls.  (What happens between a refresh and its
\* plan, which reads only the state, may happen after it; a change that is
\* rolled out at once is one whose Progress comes next.)
OutOfBandUpdate(i) ==
    /\ op.step # "refreshed" /\ Charge("edits")
    /\ cloud[i].status \in TakesUpdates
    /\ \E c \in Configs[kind] :
          LET plan == FreshPlan(c)
          IN /\ ~Panics(plan) /\ ~Invalid(plan)
             /\ kind # "vpc" => c.name = cloud[i].spec.name
             /\ kind = "cluster"
                   => ClusterGrows(cloud[i].spec, ClusterCreateRequest(plan))
             /\ cloud' = [cloud EXCEPT
                            ![i] = [status |-> "UPDATING",
                                    spec |-> ChangedElsewhere(@.spec, plan)]]
    /\ UNCHANGED <<kind, tfstate, config, op, advertised>>

OutOfBandDelete(i) ==
    /\ SetStatus(i, Reported \ {"DELETING"}, "DELETING") /\ Charge("edits")
    /\ UNCHANGED <<kind, tfstate, config, op, advertised>>

\* GetDeploymentParameters answers another set of engines.
EnginesChange ==
    /\ kind = "deployment" /\ op.step = "idle" /\ Charge("edits")
    /\ advertised' \in Engines \ {advertised}
    /\ UNCHANGED <<kind, cloud, tfstate, config, op>>

-----------------------------------------------------------------------------
Init ==
    /\ kind \in Kinds
    /\ cloud = [i \in Ids |-> Unused]
    /\ tfstate = NoState
    /\ config \in Configs[kind]
    /\ op = IdleOp("none")
    /\ advertised \in IF kind = "deployment" THEN Engines ELSE {{}}
    /\ budget = [faults |-> MaxFaults, orphans |-> MaxOrphans,
                 edits |-> MaxEdits]

Reads   == ClusterRead \/ VpcRead \/ DeploymentRead \/ GatewayRead \/ ClaimRead
Creates == \/ ClusterCreate \/ VpcCreate \/ DeploymentCreate
           \/ GatewayCreate \/ ClaimCreate
Updates == \/ ClusterUpdate \/ VpcUpdate \/ DeploymentUpdate
           \/ GatewayUpdate \/ ClaimUpdate
Deletes == \/ ClusterDelete \/ VpcDelete \/ DeploymentDelete
           \/ GatewayDelete \/ ClaimDelete

Next == \/ Reads \/ Plan \/ Creates \/ Updates \/ Deletes
        \/ WaitFails \/ ImportState \/ Crash
        \/ \E i \in Ids : \/ Progress(i) \/ RolloutFails(i)
                          \/ OutOfBandUpdate(i) \/ OutOfBandDelete(i)
        \/ EditConfig \/ EnginesChange

Spec == Init /\ [][Next]_vars

\* The user keeps applying, requests and polls are answered, and the API
\* finishes what it started.
PatientSpec ==
    /\ Spec
    /\ WF_vars(Reads) /\ WF_vars(Plan)
    /\ WF_vars(Creates) /\ WF_vars(Updates) /\ WF_vars(Deletes)
    /\ \A i \in Ids : WF_vars(Progress(i))

-----------------------------------------------------------------------------
(* Properties *)

Tracks(i) == \/ tfstate # NoState /\ tfstate.id = i
             \/ op.step = "createWait" /\ op.id = i

Born    == {i \in Ids : cloud[i].status # "UNUSED"}
Alive   == {i \in Ids : Found(i)}
Held    == {i \in Ids : Tracks(i)}
Unsaved == {i \in Ids : op.step = "createWait" /\ op.id = i}

Ownership == INSTANCE ObjectOwnership WITH
    Objects <- Ids, born <- Born, alive <- Alive, held <- Held,
    unsaved <- Unsaved

\* The five resources keep the promise of ObjectOwnership: whatever fails, an
\* object Terraform was told about is tracked until the API has it no more.
ImplementsOwnership == Ownership!Spec

\* Somebody changed an attribute while the run waited.
ChangedMeanwhile(a) == cloud[op.id].spec[a] # op.accepted[a]

\* A Create or an Update that ends without an error leaves an object the API
\* calls READY and that is, attribute by attribute, what the configuration
\* asks for, whatever somebody else did meanwhile: no conversion on the way
\* loses a value without an error, and what the configuration no longer has
\* (prefixes, a webhook) is removed.  Two changes made elsewhere during the wait
\* go unnoticed: all prefixes of a VPC removed, and a webhook added.
SuccessMeansAsAsked ==
    [][op.step \in {"createWait", "updateWait"} /\ op'.result = "ok"
          => /\ cloud[op.id].status = "READY"
             /\ AsAsked(cloud[op.id].spec)
             /\ kind = "vpc" =>
                   \/ cloud[op.id].spec.vpc_prefixes
                         = OrZero(config.vpc_prefixes, {})
                   \/ ChangedMeanwhile("vpc_prefixes")
                         /\ cloud[op.id].spec.vpc_prefixes = {}
             /\ kind = "cluster" /\ op.step = "updateWait"
                   /\ tfstate.model.webhook # Null /\ config.webhook = Null
                   => \/ cloud[op.id].spec.webhook = Null
                      \/ ChangedMeanwhile("webhook")]_vars

\* A plan without changes, after a refresh, means that there is nothing to do:
\* the object the API holds is what the configuration asks for.  (The prefixes
\* of a VPC are left out: VpcSet keeps the old ones when the VPC has none; so
\* is a webhook that the configuration does not have, which ClusterSet hides.)
NoChangesMeansAsAsked ==
    [][op.step = "refreshed" /\ op'.result = "ok" /\ config # NoConfig
          /\ Found(tfstate.id)
          => AsAsked(cloud[tfstate.id].spec)]_vars

\* A record of a gateway that the configuration does not have: no update of
\* the provider removes it.
RecordsStay(i) ==
    kind = "gateway" /\ ~(cloud[i].spec.additional_dns
                             \subseteq OrZero(config.additional_dns, {}))

\* Two more ends of a cluster's Update: the status was planned as it was, and
\* it was not RUNNING; or an attribute that was as planned when the state was
\* read, and so is not in the request, has been changed elsewhere.
StatusWas(status) == kind = "cluster" /\ status # "READY"
ChangedUnsent ==
    /\ kind = "cluster"
    /\ LET answer == ModelSet(op.plan, cloud[op.id].spec)
       IN \E a \in DOMAIN answer : answer[a] # op.plan[a]
                                     /\ op.plan[a] = tfstate.model[a]

\* "Provider produced inconsistent result after apply" is answered only for
\* the configurations listed as lossy, for records that stay, for the two ends
\* of a cluster's Update and when somebody changed the object while the run
\* waited: the observed attributes an Update leaves alone, the defaults and the
\* preserved nulls make every other answer agree with its plan.
InconsistentOnlyIfLossy ==
    [][op.step # "idle" /\ op'.result = "inconsistent"
          => \/ Lossy \/ RecordsStay(op.id)
             \/ \E a \in DOMAIN op.accepted : ChangedMeanwhile(a)
             \/ op.step = "updateWait"
                   /\ (StatusWas(tfstate.status) \/ ChangedUnsent)]_vars

\* An Update of an inference resource that the API accepted and whose wait
\* failed is recorded: the state holds what the API was asked for ("so an
\* in-flight update is not lost if polling fails or times out"), whatever
\* somebody else did meanwhile.
AcceptedUpdateRecorded ==
    [][op.step = "updateWait" /\ op'.result = "error"
          /\ kind \notin {"cluster", "vpc"}
          => tfstate'.model = ModelSet(op.plan, op.accepted)]_vars

Converged ==
    IF config = NoConfig THEN tfstate = NoState
    ELSE /\ tfstate # NoState /\ ~tfstate.tainted
         /\ Found(tfstate.id) /\ AsAsked(cloud[tfstate.id].spec)

\* No number of applies helps a lossy configuration, an engine that is not
\* advertised, a gateway with a record too many, or a cluster that failed after
\* its creation or whose update the API refuses.
Hopeless ==
    /\ config # NoConfig
    /\ \/ Lossy \/ PlanRefused \/ \E i \in Ids : Found(i) /\ RecordsStay(i)
       \/ /\ kind = "cluster" /\ tfstate # NoState /\ ~tfstate.tainted
          /\ \/ cloud[tfstate.id].status = "FAILED"
             \/ ClusterRefuses(ClusterUpdateRequest(
                   Planned(tfstate.model, config), tfstate.model))

\* The bound on objects is used up, which only a lossy configuration does: each
\* apply of it replaces the object that the last one tainted.
OutOfIds == \A i \in Ids : cloud[i].status # "UNUSED"

\* Applying again and again reaches the configuration, after any finite number
\* of errors, timeouts, crashes, failed rollouts and changes elsewhere.
Converges == <>[](Converged \/ Hopeless \/ OutOfIds)
=============================================================================
