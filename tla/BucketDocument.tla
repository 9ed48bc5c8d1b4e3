--------------------------- MODULE BucketDocument ---------------------------
(***************************************************************************)
(* The resources of src/coreweave/object_storage that put one document     *)
(* into a bucket and wait until it can be read back:                       *)
(*                                                                         *)
(*   "versioning"  resource_bucket_versioning.go                           *)
(*   "policy"      resource_bucket_policy.go                               *)
(*   "lifecycle"   resource_bucket_lifecycle_configuration.go              *)
(*   "inventory"   resource_bucket_inventory.go                            *)
(*                                                                         *)
(* A place is a bucket, or a bucket and the name of an inventory.          *)
(*                                                                         *)
(*   kind     the resource at hand                                         *)
(*   docs     what is written at each place: Absent, Gone without a bucket *)
(*   views    what reads see there, which lags behind                      *)
(*   tfstate  the resource in Terraform's state, or NoState                *)
(*   config   what the user asks for, NoConfig without a block             *)
(*   op       the terraform run in flight, and how the last one ended      *)
(*   budget   bounds on what the environment may do                        *)
(***************************************************************************)
EXTENDS Naturals, FiniteSets, PolicyDocument, BucketRules

CONSTANTS
    Places,
    Absent,
    Gone,
    NoPlace,
    NoConfig,
    Kinds,
    Models,      \* for each kind, what a configuration may ask for
    MaxFaults,   \* bound: errors, lost answers, timeouts, crashes
    MaxEdits     \* bound: changes of the configuration and elsewhere

AllKinds == {"versioning", "policy", "lifecycle", "inventory"}

ASSUME KindAssumption == Kinds \subseteq AllKinds
ASSUME PlaceAssumption == NoPlace \notin Places
ASSUME BudgetAssumption == MaxFaults \in Nat /\ MaxEdits \in Nat

\* What the schemas let through: any status, which no validator looks at, texts
\* and the shapes of rules and inventories.
ASSUME ModelAssumption ==
    /\ \A m \in Models["versioning"] :
          m = [status |-> m.status] /\ m \notin {Absent, Gone}
    /\ \A m \in Models["policy"] : PolicyWellFormed(m)
    /\ \A m \in Models["lifecycle"] : RulesWellFormed(m)
    /\ \A m \in Models["inventory"] : InventoryWellFormed(m)

\* No resource in Terraform's state: it is in no place.
NoState == [place |-> NoPlace]

VARIABLES kind, docs, views, tfstate, config, op, budget

vars == <<kind, docs, views, tfstate, config, op, budget>>

-----------------------------------------------------------------------------
(* Data *)

NoDocument == {Absent, Gone}

Steps == {"idle", "refreshed", "create", "update", "wait", "delete"}
Results == {"none", "ok", "error", "inconsistent", "panic"}

IdleOp(result) ==
    [step |-> "idle", replace |-> FALSE, place |-> NoPlace, plan |-> Null,
     resp |-> NoState, result |-> result]

Charge(what) ==
    /\ budget[what] > 0
    /\ budget' = [budget EXCEPT ![what] = @ - 1]

Finish(state, result) == tfstate' = state /\ op' = IdleOp(result)

\* The schema's default of an inventory's "enabled".
PlanOf(model) ==
    IF kind = "inventory"
    THEN [model EXCEPT !.enabled = IF @ = Null THEN TRUE ELSE @]
    ELSE model

Expand(plan) == CASE kind = "lifecycle" -> ExpandRules(plan)
                  [] kind = "inventory" -> ExpandInventoryConfiguration(plan)
                  [] OTHER -> plan

\* Mutant of Flatten: the plan is taken for the answer.
MutPlanIsAnswer(doc, model) == model

\* The model a document is read back into.
Flatten(doc, model) ==
    CASE kind = "lifecycle" -> FlattenLifecycleRules(doc, model)
      [] kind = "inventory" -> FlattenInventoryConfiguration(doc)
      [] OTHER -> doc

Lossy(model) ==
    CASE kind = "lifecycle" -> RulesLossy(model)
      [] kind = "inventory" -> InventoryLossy(model)
      [] kind = "policy" -> ~Readable(model)
      [] OTHER -> FALSE

\* The API (external): what it makes of a document that is put.
Stored(doc) ==
    CASE kind = "policy" -> {doc, Canonical(doc)}
      [] kind = "lifecycle" -> {StoredRules(doc, id) : id \in MissingID}
      [] OTHER -> {doc}

\* Delete leaves a bucket's versioning suspended.
Documents ==
    NoDocument
      \cup (UNION {Stored(Expand(PlanOf(m))) : m \in Models[kind]})
      \cup (IF kind = "versioning" THEN {[status |-> "Suspended"]} ELSE {})

TypeOK ==
    LET State == {NoState} \cup {s \in {tfstate, op.resp} \ {NoState} :
                                   s.place \in Places /\ s.tainted \in BOOLEAN}
    IN /\ kind \in Kinds
       /\ \A p \in Places : {docs[p], views[p]} \subseteq Documents
       /\ tfstate \in State
       /\ config \in {NoConfig} \cup [place : Places, model : Models[kind]]
       /\ op.step \in Steps /\ op.result \in Results /\ op.resp \in State
       /\ op.place \in Places \cup {NoPlace} /\ op.replace \in BOOLEAN
       /\ budget \in [faults : 0..MaxFaults, edits : 0..MaxEdits]

-----------------------------------------------------------------------------
(* Refresh *)

\* What the four Reads have in common: a failure, which ends the run, whether
\* the resource is removed, and the model otherwise.
Refresh(failure, removed, model) ==
    /\ op.step = "idle"
    /\ UNCHANGED <<kind, docs, views, config, budget>>
    /\ IF tfstate # NoState /\ failure # "none" THEN Finish(tfstate, failure)
       ELSE /\ op' = [IdleOp("none") EXCEPT !.step = "refreshed"]
            /\ tfstate' = IF tfstate = NoState \/ removed THEN NoState
                          ELSE [tfstate EXCEPT !.model = model]

Seen == views[tfstate.place]

\* What is read of a bucket whose versioning was never configured.
NoStatus == [status |-> ""]

\* NoSuchBucket is an error like any other.
VersioningRead ==
    /\ kind = "versioning"
    /\ Refresh(IF Seen = Gone THEN "error" ELSE "none", FALSE,
               IF Seen = Absent THEN NoStatus ELSE Seen)

\* The text is kept if it says the same as the one that is read.
PolicyRead ==
    /\ kind = "policy"
    /\ Refresh(IF Seen \in NoDocument THEN "none"
               ELSE IF Readable(tfstate.model) THEN UnmarshalFailure(Seen)
               ELSE UnmarshalFailure(tfstate.model),
               Seen \in NoDocument,
               IF SamePolicy(tfstate.model, Seen) THEN tfstate.model ELSE Seen)

\* Mutant of LifecycleRead: a missing configuration is not looked for.
MutReadKeepsGone ==
    /\ kind = "lifecycle"
    /\ Refresh(IF Seen = Gone THEN "error" ELSE "none", FALSE,
               IF Seen = Absent THEN tfstate.model ELSE Flatten(Seen, tfstate.model))

\* Only NoSuchLifecycleConfiguration removes it, NoSuchBucket is an error.
LifecycleRead ==
    /\ kind = "lifecycle"
    /\ Refresh(IF Seen = Gone THEN "error" ELSE "none", Seen = Absent,
               Flatten(Seen, tfstate.model))

InventoryRead ==
    /\ kind = "inventory"
    /\ Refresh("none", Seen \in NoDocument, Flatten(Seen, tfstate.model))

-----------------------------------------------------------------------------
(* Plan *)

\* RequiresReplace: the bucket of a lifecycle configuration, and the bucket
\* and the name of an inventory.
NeedsReplace ==
    \/ tfstate.tainted
    \/ kind \in {"lifecycle", "inventory"} /\ config.place # tfstate.place

Start(step, replace) ==
    op' = [IdleOp("none") EXCEPT
             !.step = step, !.replace = replace,
             !.place = IF config = NoConfig THEN NoPlace ELSE config.place,
             !.plan  = IF config = NoConfig THEN Null ELSE PlanOf(config.model)]

Plan ==
    /\ op.step = "refreshed"
    /\ UNCHANGED <<kind, docs, views, tfstate, config, budget>>
    /\ IF tfstate = NoState
       THEN IF config = NoConfig THEN op' = IdleOp("ok") ELSE Start("create", FALSE)
       ELSE IF config = NoConfig THEN Start("delete", FALSE)
       ELSE IF NeedsReplace THEN Start("delete", TRUE)
       ELSE IF /\ config.place = tfstate.place
               /\ PlanOf(config.model) = tfstate.model
            THEN op' = IdleOp("ok")
            ELSE Start("update", FALSE)

-----------------------------------------------------------------------------
(* Create and Update: put, set the state, wait, set the state again *)

\* The API (external).  "The S3 API does not allow setting an
\* Enabled/Suspended bucket to Disabled."
Refused(place, plan) ==
    \/ docs[place] = Gone
    \/ kind = "versioning"
          /\ plan.status \notin {"Enabled", "Suspended", "Disabled"}
    \/ kind = "versioning" /\ plan.status = "Disabled"
          /\ docs[place] \notin {Absent, plan}

PutAccepted ==
    /\ ~Refused(op.place, op.plan)
    /\ \E doc \in Stored(Expand(op.plan)) :
          docs' = [docs EXCEPT ![op.place] = doc]

\* Mutant of Acknowledged: the state is set when the wait is over.
MutSetLater ==
    op' = [op EXCEPT !.step = "wait", !.resp = tfstate]

\* "Persist state before waiting."
Acknowledged ==
    op' = [op EXCEPT !.step = "wait",
                     !.resp = [place |-> op.place, model |-> op.plan,
                               tainted |-> op.step = "create"]]

Put ==
    /\ \/ PutAccepted /\ Acknowledged /\ UNCHANGED budget
       \/ PutAccepted /\ Charge("faults") /\ op' = IdleOp("error")   \* lost
       \/ /\ \/ Refused(op.place, op.plan) /\ UNCHANGED budget
             \/ Charge("faults")
          /\ op' = IdleOp("error") /\ UNCHANGED docs
    /\ UNCHANGED <<kind, views, tfstate, config>>

VersioningCreate == kind = "versioning" /\ op.step = "create" /\ Put
VersioningUpdate == kind = "versioning" /\ op.step = "update" /\ Put
PolicyCreate     == kind = "policy" /\ op.step = "create" /\ Put
PolicyUpdate     == kind = "policy" /\ op.step = "update" /\ Put
LifecycleCreate  == kind = "lifecycle" /\ op.step = "create" /\ Put
LifecycleUpdate  == kind = "lifecycle" /\ op.step = "update" /\ Put
InventoryCreate  == kind = "inventory" /\ op.step = "create" /\ Put
InventoryUpdate  == kind = "inventory" /\ op.step = "update" /\ Put

Awaiting == op.step = "wait" /\ UNCHANGED <<kind, docs, views, config, budget>>

\* Core compares the state set last with the plan.
WaitDone(model) ==
    LET result == IF model = op.plan THEN "ok" ELSE "inconsistent"
    IN Finish([op.resp EXCEPT !.model = model,
                              !.tainted = @ /\ result # "ok"], result)

\* What a poll is content with.  404s are polled again.
VersioningMatches(doc) == doc = op.plan
PolicyMatches(doc) == doc \notin NoDocument /\ SamePolicy(op.plan, doc)
LifecycleMatches(doc) == doc \notin NoDocument /\ SameRules(Expand(op.plan), doc)
InventoryMatches(doc) ==
    doc \notin NoDocument /\ EqInventoryConfiguration(Expand(op.plan), doc)

VersioningWait ==
    /\ kind = "versioning" /\ Awaiting
    /\ VersioningMatches(views[op.place]) /\ WaitDone(op.plan)

\* A text that cannot be unmarshalled ends the run; a panic loses the response.
CannotUnmarshal(text) ==
    \/ UnmarshalFailure(text) = "panic" /\ Finish(tfstate, "panic")
    \/ UnmarshalFailure(text) = "error" /\ Finish(op.resp, "error")

\* The expected policy is unmarshalled first, after it has been put.
PolicyWait ==
    /\ kind = "policy" /\ Awaiting
    /\ \/ CannotUnmarshal(op.plan)
       \/ /\ Readable(op.plan) /\ views[op.place] \notin NoDocument
          /\ CannotUnmarshal(views[op.place])
       \/ /\ Readable(op.plan)
          /\ views[op.place] \notin NoDocument => Readable(views[op.place])
          /\ PolicyMatches(views[op.place]) /\ WaitDone(op.plan)

LifecycleWait ==
    /\ kind = "lifecycle" /\ Awaiting
    /\ LifecycleMatches(views[op.place])
    /\ WaitDone(Flatten(views[op.place], op.plan))

InventoryWait ==
    /\ kind = "inventory" /\ Awaiting
    /\ InventoryMatches(views[op.place])
    /\ WaitDone(Flatten(views[op.place], op.plan))

Matches(doc) == CASE kind = "versioning" -> VersioningMatches(doc)
                  [] kind = "policy" -> PolicyMatches(doc)
                  [] kind = "lifecycle" -> LifecycleMatches(doc)
                  [] kind = "inventory" -> InventoryMatches(doc)

\* A poll fails (a policy that is not there yet may be an empty answer), five
\* minutes pass, or the run is cancelled.  It is no fault when what is written
\* is not what the poll looks for.
WaitFails ==
    /\ op.step = "wait"
    /\ Finish(op.resp, "error")
    /\ \/ Charge("faults")
       \/ /\ kind = "policy" => Readable(op.plan)
          /\ ~Matches(docs[op.place]) /\ UNCHANGED budget
    /\ UNCHANGED <<kind, docs, views, config>>

-----------------------------------------------------------------------------
(* Delete *)

Deleted ==
    /\ tfstate' = NoState
    /\ op' = IF op.replace THEN [op EXCEPT !.step = "create"] ELSE IdleOp("ok")

\* A bucket that is gone is fine; a failure ends as the kind lets it end.
Remove(left, failures) ==
    LET removed == docs' = [docs EXCEPT ![tfstate.place] =
                               IF @ = Gone THEN Gone ELSE left]
        failed == Charge("faults") /\ \E f \in failures : Finish(tfstate, f)
    IN /\ op.step = "delete"
       /\ \/ removed /\ Deleted /\ UNCHANGED budget
          \/ removed /\ failed                                       \* lost
          \/ UNCHANGED docs /\ failed
       /\ UNCHANGED <<kind, views, config>>

\* "S3 does not support flipping bucket versioning to Disable."
VersioningDelete ==
    kind = "versioning" /\ Remove([status |-> "Suspended"], {"error"})

PolicyDelete == kind = "policy" /\ Remove(Absent, {"error"})

\* "A && B || C" asks a nil apiErr for its code when the error is none of the
\* API's.
LifecycleDelete == kind = "lifecycle" /\ Remove(Absent, {"error", "panic"})

InventoryDelete == kind = "inventory" /\ Remove(Absent, {"error"})

-----------------------------------------------------------------------------
(* Import and crash *)

\* ImportState reads the document of the bucket that is named; without one it
\* is an error.
Import(found, model) ==
    /\ op.step = "idle" /\ tfstate = NoState /\ config # NoConfig
    /\ found
    /\ Finish([place |-> config.place, model |-> model, tainted |-> FALSE],
              "none")
    /\ UNCHANGED <<kind, docs, views, config, budget>>

Sought == views[config.place]

VersioningImport ==
    kind = "versioning"
       /\ Import(Sought # Gone, IF Sought = Absent THEN NoStatus ELSE Sought)
PolicyImport ==
    kind = "policy" /\ Import(Sought \notin NoDocument, Sought)
LifecycleImport ==
    kind = "lifecycle" /\ Import(Sought \notin NoDocument, Flatten(Sought, <<>>))
InventoryImport ==
    kind = "inventory" /\ Import(Sought \notin NoDocument, Flatten(Sought, Null))

\* The terraform run dies, and with it what a handler has not returned.
Crash ==
    /\ op.step \notin {"idle", "refreshed"} /\ Charge("faults")
    /\ Finish(tfstate, "none")
    /\ UNCHANGED <<kind, docs, views, config>>

-----------------------------------------------------------------------------
(* The store and its other users (external).  What they do between a        *)
(* refresh and its plan, which reads only the state, they may do after it.  *)

Propagate(p) ==
    /\ op.step # "refreshed"
    /\ views' = [views EXCEPT ![p] = docs[p]]
    /\ UNCHANGED <<kind, docs, tfstate, config, op, budget>>

EditConfig ==
    /\ op.step = "idle" /\ Charge("edits")
    /\ config' \in {NoConfig} \cup [place : Places, model : Models[kind]]
    /\ config' # config
    /\ UNCHANGED <<kind, docs, views, tfstate, op>>

\* Somebody else puts or removes a document, or deletes the bucket.
OutOfBand(p) ==
    /\ op.step # "refreshed" /\ docs[p] # Gone /\ Charge("edits")
    /\ \/ \E m \in Models[kind] : \E doc \in Stored(Expand(PlanOf(m))) :
             ~Refused(p, m) /\ docs' = [docs EXCEPT ![p] = doc]
       \/ docs' = [docs EXCEPT ![p] = IF kind = "versioning" THEN @ ELSE Absent]
       \/ docs' = [docs EXCEPT ![p] = Gone]
    /\ UNCHANGED <<kind, views, tfstate, config, op>>

-----------------------------------------------------------------------------
Init ==
    /\ kind \in Kinds
    /\ docs = [p \in Places |-> Absent]
    /\ views = docs
    /\ tfstate = NoState
    /\ config \in [place : Places, model : Models[kind]]
    /\ op = IdleOp("none")
    /\ budget = [faults |-> MaxFaults, edits |-> MaxEdits]

Reads   == VersioningRead \/ PolicyRead \/ LifecycleRead \/ InventoryRead
Puts    == \/ VersioningCreate \/ PolicyCreate \/ LifecycleCreate
           \/ InventoryCreate
           \/ VersioningUpdate \/ PolicyUpdate \/ LifecycleUpdate
           \/ InventoryUpdate
Waits   == VersioningWait \/ PolicyWait \/ LifecycleWait \/ InventoryWait
              \/ WaitFails
Deletes == \/ VersioningDelete \/ PolicyDelete \/ LifecycleDelete
           \/ InventoryDelete
Imports == \/ VersioningImport \/ PolicyImport \/ LifecycleImport
           \/ InventoryImport

Next == \/ Reads \/ Plan \/ Puts \/ Waits \/ Deletes \/ Imports \/ Crash
        \/ EditConfig
        \/ \E p \in Places : Propagate(p) \/ OutOfBand(p)

Spec == Init /\ [][Next]_vars

\* The user keeps applying, requests are answered, a poll that is repeated for
\* five minutes ends, and writes become visible (SF because Propagate steps
\* aside for each plan).
PatientSpec ==
    /\ Spec
    /\ WF_vars(Reads) /\ WF_vars(Plan) /\ WF_vars(Puts) /\ WF_vars(Waits)
    /\ WF_vars(Deletes) /\ \A p \in Places : SF_vars(Propagate(p))

-----------------------------------------------------------------------------
(* Properties *)

\* A document says what a model asks for; an empty rule id may be missing, a
\* bucket that never had a versioning status has the empty one, and a policy is
\* what it means to the API, not what the provider makes of it.
Says(doc, model) ==
    \/ doc = Absent /\ kind = "versioning" /\ model = NoStatus
    \/ /\ doc \notin NoDocument
       /\ CASE kind = "policy" -> SameMeaning(model, doc)
            [] kind = "lifecycle" ->
                 doc \in {StoredRules(Expand(model), id) : id \in MissingID}
            [] OTHER -> doc = Expand(PlanOf(model))

\* Two policies differ, but only in parts such as NotAction, of which Unmarshal
\* keeps nothing: the provider takes the one for the other.
Overlooks(doc, model) ==
    kind = "policy" /\ doc \notin NoDocument
       /\ ~SameMeaning(model, doc) /\ SameMeaning(Heeded(model), Heeded(doc))

\* A Create or an Update that ends without an error leaves a document that
\* readers of the bucket see and that says what was planned, down to the parts
\* of a lifecycle rule that the poll does not compare; but a poll for a policy
\* is content with an old one that differs in an overlooked part only.
AppliedIsVisible ==
    [][op.step = "wait" /\ op'.result = "ok"
          => \/ Says(views[op.place], op.plan)
             \/ Overlooks(views[op.place], op.plan)]_vars

\* "Persist state before waiting so a failure mid-wait doesn't leave state
\* pointing at the pre-update configuration": after a put that was answered,
\* an error leaves in the state what was put.
StateNotBehind ==
    [][op.step = "wait" /\ op'.result = "error"
          => /\ tfstate' # NoState
             /\ tfstate'.place = op.place /\ tfstate'.model = op.plan]_vars

\* A plan without changes, after a refresh, means that readers of the bucket
\* see what the configuration asks for, the overlooked parts of a policy apart.
NoChangesMeansVisible ==
    [][op.step = "refreshed" /\ op'.result = "ok" /\ config # NoConfig
          => \/ Says(views[config.place], config.model)
             \/ Overlooks(views[config.place], config.model)]_vars

\* "Provider produced inconsistent result after apply" is answered only for
\* configurations listed as lossy, and for a lifecycle rule that the poll took
\* for the one that was put, because eqLifecycleRule leaves parts of it out.
InconsistentOnlyIfLossy ==
    [][op.step = "wait" /\ op'.result = "inconsistent"
          => \/ Lossy(op.plan)
             \/ kind = "lifecycle" /\ ~Says(views[op.place], op.plan)]_vars

\* data_source_bucket_policy_document.go:71: a Principal of none of the known
\* forms is an error ("principal: expected string, map[string]string, or
\* map[string][]string"), not the end of the provider.
UnknownPrincipalIsError == kind = "policy" => op.result # "panic"

Converged ==
    IF config = NoConfig THEN tfstate = NoState
    ELSE /\ tfstate # NoState /\ ~tfstate.tainted
         /\ tfstate.place = config.place
         /\ Says(docs[config.place], config.model)
         /\ views[config.place] = docs[config.place]

\* No number of applies helps a lossy configuration; a missing bucket, which a
\* Read reports or a put needs; a bucket that should go back to Disabled; a
\* status the API refuses; policies that cannot be unmarshalled, one in the
\* state or the bucket's; or a bucket's policy that differs from the
\* configured one in an overlooked part only, which no plan sees.
Hopeless ==
    \/ config # NoConfig
          /\ \/ Lossy(config.model)
             \/ Refused(config.place, config.model)
             \/ Overlooks(docs[config.place], config.model)
    \/ tfstate # NoState
          /\ \/ docs[tfstate.place] = Gone
             \/ kind = "policy" /\ \/ ~Readable(tfstate.model)
                                   \/ /\ docs[tfstate.place] # Absent
                                      /\ ~Readable(docs[tfstate.place])

\* Applying again and again reaches the configuration, after any finite number
\* of errors, timeouts, crashes and changes elsewhere.
Converges == <>[](Converged \/ Hopeless)
=============================================================================
