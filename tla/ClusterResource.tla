-------------------------- MODULE ClusterResource --------------------------
(***************************************************************************)
(* The coreweave_cks_cluster resource: Create, Read, Update, Delete and    *)
(* ImportState of src/coreweave/cks/resource_cluster.go, driven by         *)
(* Terraform core, against the CKS API.                                    *)
(*                                                                         *)
(*   cloud    what the API holds: for each cluster id its status and spec  *)
(*   tfstate  the resource in Terraform's state, NoState when absent       *)
(*   config   the user's desired spec, NoConfig when the block is removed  *)
(*   op       the terraform run in flight, and how the last one ended      *)
(*   known    history: the ids Terraform was told about (a Create reply    *)
(*            that reached core's process, or an import) and that no       *)
(*            crash made it lose                                           *)
(*   budget   bounds on what the environment may do                        *)
(*                                                                         *)
(* A spec is a function from attribute to value.  The API reports the spec *)
(* it was asked for at once; only the status says when it is rolled out.   *)
(***************************************************************************)
EXTENDS Naturals, FiniteSets, StateWaiter

CONSTANTS
    Ids,             \* the ids the API may assign, each at most once
    NoId,
    Attrs,           \* the attributes of a cluster
    Immutable,       \* those whose plan modifier is RequiresReplace
    Webhooks,        \* authn_webhook and authz_webhook
    Vals,
    NoValue,         \* null
    Specs,           \* the specs a configuration may ask for
    NoConfig,
    NoState,
    FailFrom,        \* statuses from which a rollout may end FAILED
    MaxFaults,       \* bound: errors, timeouts, failed rollouts, crashes
    MaxOrphans,      \* bound: lost Create replies, foreign clusters
    MaxEdits,        \* bound: configuration changes, out-of-band changes
    TimeoutsCharged  \* whether a timeout counts as a fault

ASSUME IdAssumption == NoId \notin Ids
ASSUME AttrAssumption == /\ Immutable \subseteq Attrs
                         /\ Webhooks \subseteq Attrs \ Immutable
ASSUME SpecAssumption == /\ NoValue \in Vals
                         /\ Specs \subseteq [Attrs -> Vals]
                         /\ Specs # {}
                         /\ NoConfig \notin [Attrs -> Vals]
ASSUME FailAssumption == FailFrom \subseteq {"CREATING", "UPDATING", "UPGRADING"}
ASSUME BoundAssumption == /\ MaxFaults \in Nat
                          /\ MaxOrphans \in Nat
                          /\ MaxEdits \in Nat
                          /\ TimeoutsCharged \in BOOLEAN

VARIABLES cloud, tfstate, config, op, known, budget

vars == <<cloud, tfstate, config, op, known, budget>>

-----------------------------------------------------------------------------
(* Data *)

\* The statuses the API reports for a cluster it still knows.
Reported == {"UNSPECIFIED", "CREATING", "RUNNING", "UPDATING", "UPGRADING",
             "FAILED", "DELETING", "DELETED"}

AnySpec == CHOOSE s \in Specs : TRUE

State == [id : Ids, status : Reported, spec : [Attrs -> Vals],
          tainted : BOOLEAN]

ASSUME StateAssumption == NoState \notin State

Steps == {"idle", "refreshed", "create", "createWait", "update",
          "updateWait", "delete", "deleteWait"}

\* How the last run ended; the last two are core's "Provider produced
\* inconsistent result after apply".
Results == {"none", "ok", "error", "specChanged", "statusChanged"}

Op == [step : Steps,
       replace : BOOLEAN,                    \* the delete precedes a create
       plan : [Attrs -> Vals] \cup {NoConfig},
       planStatus : Reported,                \* the planned status, if known
       id : Ids \cup {NoId},                 \* the cluster a wait polls
       resp : State \cup {NoState},          \* resp.State of a Create
       fresh : BOOLEAN,                      \* history: a Read preceded the
                                             \* plan, and nobody changed the
                                             \* cluster elsewhere since
       result : Results]

Budget == [faults : 0..MaxFaults, orphans : 0..MaxOrphans, edits : 0..MaxEdits]

TypeOK ==
    /\ cloud \in [Ids -> [status : Reported \cup {"UNUSED", "GONE"},
                          spec : [Attrs -> Vals]]]
    /\ tfstate \in State \cup {NoState}
    /\ config \in Specs \cup {NoConfig}
    /\ op \in Op
    /\ known \subseteq Ids
    /\ budget \in Budget

Found(i) == cloud[i].status \in Reported          \* GetCluster answers it
Live(i) == Found(i) /\ cloud[i].status # "DELETED"

\* Terraform holds cluster i: in its state, or in the response of a Create
\* that is still waiting.
Tracks(i) == \/ tfstate # NoState /\ tfstate.id = i
             \/ op.step = "createWait" /\ op.id = i

\* CreateCluster's CodeAlreadyExists: cluster names are unique.
NameTaken == \E i \in Ids : Live(i)

IdleOp(result) ==
    [step |-> "idle", replace |-> FALSE, plan |-> NoConfig,
     planStatus |-> "UNSPECIFIED", id |-> NoId, resp |-> NoState,
     fresh |-> op.fresh, result |-> result]

Charge(kind) ==
    /\ budget[kind] > 0
    /\ budget' = [budget EXCEPT ![kind] = @ - 1]

\* A run ends: core writes the state it was answered.
Finish(state, result) ==
    /\ tfstate' = state
    /\ op' = IdleOp(result)

-----------------------------------------------------------------------------
(* What the code computes from a cluster, a plan or a state *)

\* ClusterResourceModel.Set: every attribute comes from the API, except that
\* a webhook absent from the model stays absent.
SetSpec(model, got) ==
    [a \in Attrs |-> IF a \in Webhooks /\ model[a] = NoValue
                     THEN NoValue ELSE got[a]]

\* The state Set leaves for cluster i, from a model that held spec "model".
SetState(i, model, tainted) ==
    [id |-> i, status |-> cloud[i].status,
     spec |-> SetSpec(model, cloud[i].spec), tainted |-> tainted]

\* "status" is computed, with the plan modifier UseStateForUnknown.
PlannedStatus(state) == state.status

\* requireReplaceIfStatusFailed.  The framework skips a RequiresReplaceIf
\* whose planned value equals the prior value.
StatusForcesReplace(state) ==
    /\ PlannedStatus(state) # state.status
    /\ "FAILED" \in {state.status, PlannedStatus(state)}

NeedsReplace(state, plan) ==
    \/ state.tainted
    \/ \E a \in Immutable : plan[a] # state.spec[a]
    \/ StatusForcesReplace(state)

\* Mutant of UpdateMask: a comparison is forgotten.
MutNoWebhooks(plan, state) ==
    {a \in Attrs \ (Immutable \cup Webhooks) : plan[a] # state.spec[a]}

\* buildUpdateRequest: the attributes that differ between plan and state ...
UpdateMask(plan, state) ==
    {a \in Attrs \ Immutable : plan[a] # state.spec[a]}

\* ... are all the API changes.
ApplyUpdate(spec, plan, mask) ==
    [a \in Attrs |-> IF a \in mask THEN plan[a] ELSE spec[a]]

\* Core compares what an apply returned with what was planned.
ApplyResult(state) ==
    IF state.spec # op.plan THEN "specChanged"
    ELSE IF op.step = "updateWait" /\ state.status # op.planStatus
         THEN "statusChanged" ELSE "ok"

\* Mutants of the targets: a wait that is content too early.
MutReadyEarly == {"RUNNING", "CREATING"}
MutGoneEarly == {"DELETED", "DELETING"}

CreatePending == {"CREATING", "UNSPECIFIED"}
UpdatePending == {"UPDATING", "UPGRADING", "UNSPECIFIED"}
ReadyTarget == {"RUNNING"}
DeletePending == {"DELETING", "UNSPECIFIED"}
DeleteTarget == {"DELETED"}

-----------------------------------------------------------------------------
(* Terraform core: refresh and plan *)

\* Mutants of Read: one does not look at the error of GetCluster, the other
\* treats CodeNotFound like any error.
MutReadUnchecked ==
    /\ op.step = "idle"
    /\ tfstate' = IF tfstate = NoState THEN NoState
                  ELSE SetState(tfstate.id, tfstate.spec, tfstate.tainted)
    /\ op' = [IdleOp("none") EXCEPT !.step = "refreshed", !.fresh = TRUE]
    /\ UNCHANGED <<cloud, config, known, budget>>

MutReadKeepsGone ==
    /\ op.step = "idle"
    /\ tfstate' = IF tfstate = NoState \/ ~Found(tfstate.id) THEN tfstate
                  ELSE SetState(tfstate.id, tfstate.spec, tfstate.tainted)
    /\ op' = [IdleOp("none") EXCEPT !.step = "refreshed", !.fresh = TRUE]
    /\ UNCHANGED <<cloud, config, known, budget>>

\* Read: a cluster the API does not know is removed from the state.  A Read
\* that fails changes nothing and is not a step.
Read ==
    /\ op.step = "idle"
    /\ tfstate' = IF tfstate = NoState \/ ~Found(tfstate.id) THEN NoState
                  ELSE SetState(tfstate.id, tfstate.spec, tfstate.tainted)
    /\ op' = [IdleOp("none") EXCEPT !.step = "refreshed", !.fresh = TRUE]
    /\ UNCHANGED <<cloud, config, known, budget>>

\* The run that a plan starts.
PlannedOp(step, replace, fresh) ==
    [IdleOp("none") EXCEPT
        !.step = step, !.replace = replace, !.plan = config,
        !.planStatus = IF tfstate = NoState THEN "UNSPECIFIED"
                       ELSE PlannedStatus(tfstate),
        !.fresh = fresh]

\* The plan for the state and the configuration.
PlanFrom(fresh) ==
    /\ \/ /\ tfstate = NoState /\ config # NoConfig
          /\ op' = PlannedOp("create", FALSE, fresh)
       \/ /\ tfstate # NoState /\ config = NoConfig
          /\ op' = PlannedOp("delete", FALSE, fresh)
       \/ /\ tfstate # NoState /\ config # NoConfig
          /\ NeedsReplace(tfstate, config)
          /\ op' = PlannedOp("delete", TRUE, fresh)
       \/ /\ tfstate # NoState /\ config # NoConfig
          /\ ~NeedsReplace(tfstate, config) /\ tfstate.spec # config
          /\ op' = PlannedOp("update", FALSE, fresh)
       \/ /\ \/ tfstate = NoState /\ config = NoConfig
             \/ /\ tfstate # NoState /\ config # NoConfig
                /\ ~NeedsReplace(tfstate, config) /\ tfstate.spec = config
          /\ op' = [IdleOp("ok") EXCEPT !.fresh = fresh]
    /\ UNCHANGED <<cloud, tfstate, config, known>>

Plan == op.step = "refreshed" /\ PlanFrom(op.fresh) /\ UNCHANGED budget

\* terraform apply -refresh=false
PlanWithoutRefresh == op.step = "idle" /\ Charge("faults") /\ PlanFrom(FALSE)

-----------------------------------------------------------------------------
(* Create *)

\* The API creates cluster i for the planned spec.
CreateAccepted(i) ==
    /\ cloud[i].status = "UNUSED"
    /\ ~NameTaken
    /\ \E st \in {"UNSPECIFIED", "CREATING"} :
          cloud' = [cloud EXCEPT ![i] = [status |-> st, spec |-> op.plan]]

\* The request up to the first resp.State.Set.  A retried request whose first
\* answer was lost finds the name taken: it fails, and the cluster exists.
CreateCluster ==
    /\ op.step = "create"
    /\ UNCHANGED <<tfstate, config>>
    /\ \/ \E i \in Ids :
             /\ CreateAccepted(i)
             /\ op' = [op EXCEPT
                         !.step = "createWait", !.id = i,
                         !.resp = [id |-> i, status |-> cloud'[i].status,
                                   spec |-> SetSpec(op.plan, op.plan),
                                   tainted |-> TRUE]]
             /\ known' = known \cup {i}
             /\ UNCHANGED budget
       \/ \E i \in Ids :
             /\ CreateAccepted(i) /\ Charge("orphans")
             /\ op' = IdleOp("error")
             /\ UNCHANGED known
       \/ /\ \/ (NameTaken \/ \A i \in Ids : cloud[i].status # "UNUSED")
                /\ UNCHANGED budget
             \/ Charge("faults")
          /\ op' = IdleOp("error")
          /\ UNCHANGED <<cloud, known>>

\* The answer that ends the wait.  While it is "again" nothing changes.
CreatePoll ==
    /\ op.step = "createWait"
    /\ LET i == op.id
           answer == IF Found(i) THEN cloud[i].status ELSE RefreshError
           verdict == Verdict(CreatePending, ReadyTarget, answer)
       IN \/ /\ answer = "FAILED"           \* errClusterCreationFailed
             /\ Finish(SetState(i, op.resp.spec, TRUE), "error")
          \/ /\ answer # "FAILED" /\ verdict = "done"
             /\ LET state == SetState(i, op.resp.spec, FALSE)
                IN  Finish([state EXCEPT !.tainted = ApplyResult(state) # "ok"],
                           ApplyResult(state))
          \/ /\ answer # "FAILED" /\ verdict \in {"failed", "unexpected"}
             /\ Finish(op.resp, "error")
    /\ UNCHANGED <<cloud, config, known, budget>>

-----------------------------------------------------------------------------
(* Update *)

\* The statuses in which the API takes a change.
Updatable == {"RUNNING", "UPDATING", "UPGRADING", "FAILED"}

UpdateAccepted(i) ==
    /\ cloud[i].status \in Updatable
    /\ \E st \in {"RUNNING", "UPDATING", "UPGRADING"} :
          cloud' = [cloud EXCEPT ![i] =
                      [status |-> st,
                       spec |-> ApplyUpdate(@.spec, op.plan,
                                            UpdateMask(op.plan, tfstate))]]

UpdateCluster ==
    /\ op.step = "update"
    /\ UNCHANGED <<tfstate, config, known>>
    /\ \/ /\ UpdateAccepted(tfstate.id)
          /\ op' = [op EXCEPT !.step = "updateWait", !.id = tfstate.id]
          /\ UNCHANGED budget
       \/ /\ UpdateAccepted(tfstate.id) /\ Charge("faults")  \* answer lost
          /\ op' = IdleOp("error")
       \/ /\ \/ cloud[tfstate.id].status # "RUNNING" /\ UNCHANGED budget
             \/ Charge("faults")
          /\ op' = IdleOp("error")
          /\ UNCHANGED cloud

\* An error leaves resp.State as core filled it: the prior state.
UpdatePoll ==
    /\ op.step = "updateWait"
    /\ LET i == op.id
           answer == IF Found(i) THEN cloud[i].status ELSE RefreshError
           verdict == Verdict(UpdatePending, ReadyTarget, answer)
       IN \/ /\ verdict = "done"
             /\ LET state == SetState(i, op.plan, FALSE)
                IN  Finish(state, ApplyResult(state))
          \/ /\ verdict \in {"failed", "unexpected"}
             /\ Finish(tfstate, "error")
    /\ UNCHANGED <<cloud, config, known, budget>>

-----------------------------------------------------------------------------
(* Delete *)

\* Delete returned without an error: core drops the resource, and a
\* replacement goes on with its create.
Deleted ==
    /\ tfstate' = NoState
    /\ op' = IF op.replace
             THEN [op EXCEPT !.step = "create", !.id = NoId]
             ELSE IdleOp("ok")

DeleteAccepted(i) ==
    /\ Found(i)
    /\ \/ cloud[i].status \in {"DELETING", "DELETED"} /\ UNCHANGED cloud
       \/ /\ Live(i)
          /\ \E st \in {"DELETING", "GONE"} :
                cloud' = [cloud EXCEPT ![i].status = st]

DeleteCluster ==
    /\ op.step = "delete"
    /\ UNCHANGED <<config, known>>
    /\ \/ /\ ~Found(tfstate.id)                    \* CodeNotFound
          /\ Deleted
          /\ UNCHANGED <<cloud, budget>>
       \/ /\ DeleteAccepted(tfstate.id)
          /\ op' = [op EXCEPT !.step = "deleteWait", !.id = tfstate.id]
          /\ UNCHANGED <<tfstate, budget>>
       \/ /\ DeleteAccepted(tfstate.id) /\ Charge("faults")   \* answer lost
          /\ Finish(tfstate, "error")
       \/ /\ Live(tfstate.id) /\ Charge("faults")  \* accepted, not yet visible
          /\ op' = [op EXCEPT !.step = "deleteWait", !.id = tfstate.id]
          /\ UNCHANGED <<cloud, tfstate>>
       \/ /\ Charge("faults")
          /\ Finish(tfstate, "error")
          /\ UNCHANGED cloud

\* Refresh turns CodeNotFound into the target status.
DeletePoll ==
    /\ op.step = "deleteWait"
    /\ LET answer == IF Found(op.id) THEN cloud[op.id].status ELSE "DELETED"
           verdict == Verdict(DeletePending, DeleteTarget, answer)
       IN \/ verdict = "done" /\ Deleted
          \/ verdict \in {"failed", "unexpected"} /\ Finish(tfstate, "error")
    /\ UNCHANGED <<cloud, config, known, budget>>

-----------------------------------------------------------------------------
(* Errors every wait can meet, import, crash *)

\* Mutant of WaitFails: Create sets the state only once its wait succeeded.
MutSetStateLast ==
    \/ op.step = "createWait" /\ Finish(NoState, "error")
    \/ op.step \in {"updateWait", "deleteWait"} /\ Finish(tfstate, "error")

\* A wait ends without an answer: Create returns the state it set, core
\* taints it; Update and Delete keep the prior state.
WaitFails ==
    \/ op.step = "createWait" /\ Finish(op.resp, "error")
    \/ op.step \in {"updateWait", "deleteWait"} /\ Finish(tfstate, "error")

\* GetCluster fails, its retries exhausted.
PollError ==
    WaitFails /\ Charge("faults") /\ UNCHANGED <<cloud, config, known>>

\* Mutant of WaitTimeout: one of the waits has no timeout.
MutNoDeleteTimeout ==
    /\ op.step # "deleteWait" /\ WaitFails
    /\ IF TimeoutsCharged THEN Charge("faults") ELSE UNCHANGED budget
    /\ UNCHANGED <<cloud, config, known>>

\* Timeout (45 minutes for Create, 20 for the others), or the run cancelled.
WaitTimeout ==
    /\ WaitFails
    /\ IF TimeoutsCharged THEN Charge("faults") ELSE UNCHANGED budget
    /\ UNCHANGED <<cloud, config, known>>

\* ImportState passes the id through; the Read that follows fills the rest.
ImportState ==
    /\ op.step = "idle" /\ tfstate = NoState /\ config # NoConfig
    /\ \E i \in Ids :
          /\ Found(i)
          /\ tfstate' = SetState(i, [a \in Attrs |-> NoValue], FALSE)
          /\ known' = known \cup {i}
    /\ op' = IdleOp("none")
    /\ UNCHANGED <<cloud, config, budget>>

\* The terraform run dies.  The response of a Create lives in the provider's
\* memory until Create returns.
Crash ==
    /\ op.step \notin {"idle", "refreshed"}
    /\ IF op.step = "createWait"
       THEN Charge("orphans") /\ known' = known \ {op.id}
       ELSE Charge("faults") /\ UNCHANGED known
    /\ Finish(tfstate, "none")
    /\ UNCHANGED <<cloud, config>>

-----------------------------------------------------------------------------
(* The API and its other users (external) *)

SetStatus(i, from, to) ==
    cloud[i].status \in from /\ cloud' = [cloud EXCEPT ![i].status = to]

\* A rollout or a deletion makes progress.
Progress(i) ==
    /\ \/ SetStatus(i, {"UNSPECIFIED"}, "CREATING")
       \/ SetStatus(i, {"CREATING", "UPDATING", "UPGRADING"}, "RUNNING")
       \/ SetStatus(i, {"DELETING"}, "DELETED")
       \/ SetStatus(i, {"DELETING", "DELETED"}, "GONE")
    /\ UNCHANGED <<tfstate, config, op, known, budget>>

RolloutFails(i) ==
    /\ SetStatus(i, FailFrom, "FAILED")
    /\ Charge("faults")
    /\ UNCHANGED <<tfstate, config, op, known>>

\* The user edits or removes the block between two runs.
EditConfig ==
    /\ op.step = "idle" /\ Charge("edits")
    /\ config' \in (Specs \cup {NoConfig}) \ {config}
    /\ UNCHANGED <<cloud, tfstate, op, known>>

\* Somebody changes the cluster elsewhere, at any time: between two runs,
\* between the refresh and the request, or while a wait polls it.
OutOfBandUpdate(i) ==
    /\ Charge("edits")
    /\ cloud[i].status \in Updatable
    /\ \E s \in Specs :
          /\ s # cloud[i].spec
          /\ \A a \in Immutable : s[a] = cloud[i].spec[a]
          /\ cloud' = [cloud EXCEPT ![i] = [status |-> "UPDATING", spec |-> s]]
    /\ op' = [op EXCEPT !.fresh = @ /\ ~Tracks(i)]
    /\ UNCHANGED <<tfstate, config, known>>

\* Somebody deletes the cluster elsewhere, at any time.
OutOfBandDelete(i) ==
    /\ Live(i) /\ SetStatus(i, Reported, "DELETING")
    /\ cloud[i].status # "DELETING"
    /\ Charge("edits")
    /\ UNCHANGED <<tfstate, config, op, known>>

\* Somebody creates a cluster of that name elsewhere.
OutOfBandCreate(i) ==
    /\ Charge("orphans")
    /\ cloud[i].status = "UNUSED" /\ ~NameTaken
    /\ \E s \in Specs :
          cloud' = [cloud EXCEPT ![i] = [status |-> "RUNNING", spec |-> s]]
    /\ UNCHANGED <<tfstate, config, op, known>>

-----------------------------------------------------------------------------
Init ==
    /\ cloud = [i \in Ids |-> [status |-> "UNUSED", spec |-> AnySpec]]
    /\ tfstate = NoState
    /\ config \in Specs
    /\ op = [step |-> "idle", replace |-> FALSE, plan |-> NoConfig,
             planStatus |-> "UNSPECIFIED", id |-> NoId, resp |-> NoState,
             fresh |-> FALSE, result |-> "none"]
    /\ known = {}
    /\ budget = [faults |-> MaxFaults, orphans |-> MaxOrphans,
                 edits |-> MaxEdits]

Provider == \/ Read \/ Plan \/ PlanWithoutRefresh
            \/ CreateCluster \/ CreatePoll
            \/ UpdateCluster \/ UpdatePoll
            \/ DeleteCluster \/ DeletePoll
            \/ PollError \/ WaitTimeout \/ ImportState \/ Crash

Environment == \/ EditConfig
               \/ \E i \in Ids : \/ Progress(i) \/ RolloutFails(i)
                                 \/ OutOfBandUpdate(i) \/ OutOfBandDelete(i)
                                 \/ OutOfBandCreate(i)

Next == Provider \/ Environment

Spec == Init /\ [][Next]_vars

\* The provider runs on: every poll is answered or the wait times out.
ProviderFairness ==
    /\ WF_vars(CreateCluster) /\ WF_vars(CreatePoll)
    /\ WF_vars(UpdateCluster) /\ WF_vars(UpdatePoll)
    /\ WF_vars(DeleteCluster) /\ WF_vars(DeletePoll)

\* Waits are bounded by a timeout, whatever the API does.
TimelySpec == Spec /\ ProviderFairness /\ WF_vars(Plan) /\ WF_vars(WaitTimeout)

\* The user keeps applying, and the API finishes what it started.
PatientSpec == /\ Spec /\ ProviderFairness
               /\ WF_vars(Read) /\ WF_vars(Plan)
               /\ \A i \in Ids : WF_vars(Progress(i))

-----------------------------------------------------------------------------
(* Properties *)

\* No orphan: a live cluster Terraform was told about is in its state, or in
\* the answer of the Create in flight, whatever failed in between (the code
\* sets the state before it waits, and Delete waits until the cluster is gone).
NoOrphan == \A i \in known : Live(i) => Tracks(i)

\* A cluster leaves Terraform's state, or is exchanged for another, only when
\* the API no longer has it (Read on CodeNotFound, Delete after its wait).
ForgetOnlyGone ==
    [][tfstate # NoState /\ (tfstate' = NoState \/ tfstate'.id # tfstate.id)
          => ~Live(tfstate.id)]_vars

\* The resource keeps the ownership promise every resource makes.
Born    == {i \in Ids : cloud[i].status # "UNUSED"}
Alive   == {i \in Ids : Live(i)}
Held    == {i \in Ids : Tracks(i)}
Unsaved == {i \in Ids : op.step = "createWait" /\ op.id = i}

Ownership == INSTANCE ObjectOwnership WITH
    Objects <- Ids, born <- Born, alive <- Alive, held <- Held,
    unsaved <- Unsaved

\* Seen through that mapping, every behaviour of the cluster resource is one
\* of ObjectOwnership: no step acquires, saves, releases or loses otherwise.
ImplementsOwnership == Ownership!Spec

\* An apply whose plan follows a refresh ends with another spec than the
\* planned one only if somebody changed the cluster after that refresh:
\* sending only what differs from the state (buildUpdateRequest) loses nothing
\* of the plan otherwise.
RefreshedApplyKeepsSpec == op.result = "specChanged" => ~op.fresh

\* An apply that ends without an error leaves a cluster the API reports
\* RUNNING, with the planned spec, and Terraform's state says so, whoever
\* changed the cluster while the apply ran; only a webhook that was not asked
\* for and is added elsewhere goes unnoticed.
SuccessMeansReady ==
    [][op.step \in {"createWait", "updateWait"} /\ op'.result = "ok"
          => /\ cloud[op.id].status = "RUNNING"
             /\ SetSpec(op.plan, cloud[op.id].spec) = op.plan
             /\ tfstate' = [id |-> op.id, status |-> "RUNNING",
                            spec |-> op.plan, tainted |-> FALSE]]_vars

\* Every run ends, whatever the API does: each wait has a timeout.
RunEnds == op.step # "idle" ~> op.step = "idle"

Converged ==
    IF config = NoConfig
    THEN tfstate = NoState /\ \A i \in known : ~Live(i)
    ELSE /\ tfstate # NoState
         /\ ~tfstate.tainted /\ tfstate.spec = config
         /\ cloud[tfstate.id].status = "RUNNING"
         /\ SetSpec(config, cloud[tfstate.id].spec) = config

\* Applying again and again reaches the configuration, after any finite number
\* of errors, timeouts, crashes, failed creations and out-of-band changes.
Converges == <>[]Converged

\* resource_cluster.go:1037: "If the status is `FAILED`, the cluster must be
\* destroyed and re-created again."
FailedForcesReplace ==
    [][op.step = "refreshed" /\ op'.step # "refreshed"
         /\ tfstate # NoState /\ tfstate.status = "FAILED" /\ config # NoConfig
          => op'.step = "delete" /\ op'.replace]_vars
=============================================================================
