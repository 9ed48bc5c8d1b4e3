--------------------------- MODULE BucketResource ---------------------------
(***************************************************************************)
(* The coreweave_object_storage_bucket resource: Create, Read, Update,     *)
(* Delete and ImportState of                                               *)
(* src/coreweave/object_storage/resource_bucket.go, for several terraform  *)
(* runs whose configurations name the same bucket.                         *)
(*                                                                         *)
(*   bucket  the bucket of that name, Missing when there is none: what     *)
(*           writes are applied to                                         *)
(*   view    the bucket as reads see it, which lags behind                 *)
(*   made    how many buckets of that name there have been                 *)
(*   state   the resource in each run's state, NoState when absent         *)
(*   config  what each run's user asks for, NoConfig without a block       *)
(*   op      each run's operation in flight, and how the last one ended    *)
(*   budget  bounds on what the environment may do                         *)
(*                                                                         *)
(* The code knows a bucket by its name alone.  The id of a bucket, and the *)
(* id a state remembers, are history: they tell a bucket from its          *)
(* successors.                                                             *)
(***************************************************************************)
EXTENDS Naturals, FiniteSets

CONSTANTS
    Runs,            \* workspaces, each with a state of its own
    Zones,
    TagSets,         \* the non-empty tag maps
    Configs,         \* what a configuration may ask for
    NoConfig,
    NoState,
    MaxBuckets,      \* bound: creations of a bucket of that name
    MaxFaults,       \* bound: errors, lost answers, timeouts, crashes
    MaxEdits,        \* bound: configuration changes
    MaxOutside,      \* bound: changes made elsewhere
    TimeoutsCharged  \* whether it is a fault that a wait times out which the
                     \* propagation of the writes would satisfy

\* The attribute "tags": absent, an empty map, or a map with tags.
Tags == TagSets \cup {"null", "empty"}

\* The tags of a bucket.
ApiTags == TagSets \cup {"none"}

Config == [zone : Zones, tags : Tags]

ASSUME DataAssumption == /\ TagSets \cap {"null", "empty", "none"} = {}
                         /\ Configs \subseteq Config
                         /\ NoConfig \notin Config
ASSUME BoundAssumption == /\ MaxBuckets \in Nat
                          /\ MaxFaults \in Nat
                          /\ MaxEdits \in Nat
                          /\ MaxOutside \in Nat
                          /\ TimeoutsCharged \in BOOLEAN

VARIABLES bucket, view, made, state, config, op, budget

vars == <<bucket, view, made, state, config, op, budget>>

-----------------------------------------------------------------------------
(* Data *)

Missing == [id |-> 0, zone |-> "none", tags |-> "none"]

Bucket == [id : 1..MaxBuckets, zone : Zones, tags : ApiTags] \cup {Missing}

Exists(b) == b.id # 0

State == [id : 1..MaxBuckets, zone : Zones, tags : Tags, tainted : BOOLEAN]

ASSUME StateAssumption == NoState \notin State

Steps == {"idle", "readLocation", "refreshed", "create", "createBucket",
          "createWait", "createTags", "createTagsWait", "update",
          "updateWait", "delete", "deleteWait", "importTags"}

Results == {"none", "ok", "error", "alreadyExists", "panic"}

Op == [step : Steps,
       replace : BOOLEAN,                  \* the delete precedes a create
       plan : Config \cup {NoConfig},
       got : Tags,                         \* the answer of GetBucketTagging
       resp : State \cup {NoState},        \* resp.State of a Create or import
       result : Results]

Budget == [faults : 0..MaxFaults, edits : 0..MaxEdits, outside : 0..MaxOutside]

TypeOK ==
    /\ bucket \in Bucket
    /\ view \in Bucket
    /\ made \in 0..MaxBuckets
    /\ state \in [Runs -> State \cup {NoState}]
    /\ config \in [Runs -> Configs \cup {NoConfig}]
    /\ op \in [Runs -> Op]
    /\ budget \in Budget

IdleOp(result) == [step |-> "idle", replace |-> FALSE, plan |-> NoConfig,
                   got |-> "null", resp |-> NoState, result |-> result]

Charge(kind) ==
    /\ budget[kind] > 0
    /\ budget' = [budget EXCEPT ![kind] = @ - 1]

\* Run r's operation ends: core writes the state it was answered.
Finish(r, st, result) ==
    /\ state' = [state EXCEPT ![r] = st]
    /\ op' = [op EXCEPT ![r] = IdleOp(result)]

Fail(r) == Finish(r, state[r], "error")

Goto(r, step) ==
    /\ op' = [op EXCEPT ![r].step = step]
    /\ UNCHANGED state

\* PutBucketTagging with no tags, and DeleteBucketTagging, leave none; Read
\* and ImportState turn none into null.
OnApi(tags) == IF tags \in {"null", "empty"} THEN "none" ELSE tags
AsRead(apiTags) == IF apiTags = "none" THEN "null" ELSE apiTags

-----------------------------------------------------------------------------
(* Terraform core: refresh and plan.  A Read that fails changes nothing and *)
(* is not a step.                                                           *)

\* Mutant of ReadTags: a 404 is an error like any other, and core keeps the
\* state it has.
MutReadKeepsGone(r) ==
    /\ op[r].step = "idle"
    /\ op' = [op EXCEPT ![r] =
                IF state[r] = NoState \/ ~Exists(view)
                THEN [IdleOp("none") EXCEPT !.step = "refreshed"]
                ELSE [IdleOp("none") EXCEPT !.step = "readLocation",
                                            !.got = AsRead(view.tags)]]
    /\ UNCHANGED <<bucket, view, made, state, config, budget>>

\* Read, first request: any 404 removes the bucket from the state.
ReadTags(r) ==
    /\ op[r].step = "idle"
    /\ IF state[r] = NoState \/ ~Exists(view)
       THEN /\ state' = [state EXCEPT ![r] = NoState]
            /\ op' = [op EXCEPT ![r] = [IdleOp("none") EXCEPT
                                           !.step = "refreshed"]]
       ELSE /\ op' = [op EXCEPT ![r] = [IdleOp("none") EXCEPT
                                           !.step = "readLocation",
                                           !.got = AsRead(view.tags)]]
            /\ UNCHANGED state
    /\ UNCHANGED <<bucket, view, made, config, budget>>

\* Mutant of ReadLocation: the error of the second request is not looked at.
MutReadUnchecked(r) ==
    /\ op[r].step = "readLocation"
    /\ state' = [state EXCEPT ![r].id = view.id, ![r].zone = view.zone,
                              ![r].tags = op[r].got]
    /\ op' = [op EXCEPT ![r] = [IdleOp("none") EXCEPT !.step = "refreshed"]]
    /\ UNCHANGED <<bucket, view, made, config, budget>>

\* Read, second request.
ReadLocation(r) ==
    /\ op[r].step = "readLocation"
    /\ state' = [state EXCEPT ![r] =
                   IF Exists(view)
                   THEN [id |-> view.id, zone |-> view.zone,
                         tags |-> op[r].got, tainted |-> @.tainted]
                   ELSE NoState]
    /\ op' = [op EXCEPT ![r] = [IdleOp("none") EXCEPT !.step = "refreshed"]]
    /\ UNCHANGED <<bucket, view, made, config, budget>>

\* name and zone are RequiresReplace.
NeedsReplace(st, plan) == st.tainted \/ st.zone # plan.zone

Plan(r) ==
    /\ op[r].step = "refreshed"
    /\ LET st == state[r]
           want == config[r]
           Start(step, replace) ==
              op' = [op EXCEPT ![r] = [IdleOp("none") EXCEPT
                       !.step = step, !.replace = replace, !.plan = want]]
       IN \/ /\ st = NoState /\ want # NoConfig
             /\ Start("create", FALSE)
          \/ /\ st # NoState /\ want = NoConfig
             /\ Start("delete", FALSE)
          \/ /\ st # NoState /\ want # NoConfig
             /\ \/ NeedsReplace(st, want) /\ Start("delete", TRUE)
                \/ /\ ~NeedsReplace(st, want) /\ st.tags # want.tags
                   /\ Start("update", FALSE)
                \/ /\ ~NeedsReplace(st, want) /\ st.tags = want.tags
                   /\ op' = [op EXCEPT ![r] = IdleOp("ok")]
          \/ /\ st = NoState /\ want = NoConfig
             /\ op' = [op EXCEPT ![r] = IdleOp("ok")]
    /\ UNCHANGED <<bucket, view, made, state, config, budget>>

-----------------------------------------------------------------------------
(* Create *)

\* HeadBucket.  Any error counts as absence.
CreateHead(r) ==
    /\ op[r].step = "create"
    /\ \/ Exists(view) /\ Finish(r, state[r], "alreadyExists") /\ UNCHANGED budget
       \/ ~Exists(view) /\ Goto(r, "createBucket") /\ UNCHANGED budget
       \/ Exists(view) /\ Goto(r, "createBucket") /\ Charge("faults")
    /\ UNCHANGED <<bucket, view, made, config>>

\* The API creates the bucket.  In the zone it already has, that succeeds and
\* changes nothing.
CreateAccepted(zone) ==
    \/ /\ Exists(bucket) /\ bucket.zone = zone
       /\ UNCHANGED <<bucket, made>>
    \/ /\ ~Exists(bucket) /\ made < MaxBuckets
       /\ bucket' = [id |-> made + 1, zone |-> zone, tags |-> "none"]
       /\ made' = made + 1

\* Mutant of CreateBucket: BucketAlreadyOwnedByYou is taken for success.
MutOwnedByYouIsOk(r) ==
    /\ op[r].step = "createBucket"
    /\ \/ CreateAccepted(op[r].plan.zone)
       \/ Exists(bucket) /\ UNCHANGED <<bucket, made>>
    /\ op' = [op EXCEPT
                ![r].step = "createWait",
                ![r].resp = [id |-> bucket'.id, zone |-> op[r].plan.zone,
                             tags |-> op[r].plan.tags, tainted |-> TRUE]]
    /\ UNCHANGED <<view, state, config, budget>>

\* CreateBucket up to the first resp.State.Set.  The API refuses a bucket of
\* that name in another zone with one of two errors: for BucketAlreadyExists
\* the code adds a diagnostic, for BucketAlreadyOwnedByYou it dereferences the
\* nil bucketExistsErr.
CreateBucket(r) ==
    /\ op[r].step = "createBucket"
    /\ LET plan == op[r].plan
       IN \/ /\ CreateAccepted(plan.zone)
             /\ op' = [op EXCEPT
                         ![r].step = "createWait",
                         ![r].resp = [id |-> bucket'.id, zone |-> plan.zone,
                                      tags |-> plan.tags, tainted |-> TRUE]]
             /\ UNCHANGED <<state, budget>>
          \/ CreateAccepted(plan.zone) /\ Fail(r) /\ Charge("faults")  \* lost
          \/ /\ Exists(bucket) /\ bucket.zone # plan.zone
             /\ \E result \in {"alreadyExists", "panic"} :
                   Finish(r, state[r], result)
             /\ UNCHANGED <<bucket, made, budget>>
          \/ /\ \/ ~Exists(bucket) /\ made = MaxBuckets /\ UNCHANGED budget
                \/ Charge("faults")
             /\ Fail(r)
             /\ UNCHANGED <<bucket, made>>
    /\ UNCHANGED <<view, config>>

\* Mutant of BucketIsThere: waitForBucket with shouldExist negated.
MutSwapped == ~Exists(view)

\* waitForBucket: the answer of HeadBucket that ends a wait for creation.
BucketIsThere == Exists(view)

\* What Create leaves in the state once nothing can fail any more.
Created(r) == [op[r].resp EXCEPT !.tainted = FALSE]

CreateWait(r) ==
    /\ op[r].step = "createWait"
    /\ BucketIsThere
    /\ IF op[r].plan.tags = "null"
       THEN Finish(r, Created(r), "ok")
       ELSE Goto(r, "createTags")
    /\ UNCHANGED <<bucket, view, made, config, budget>>

\* PutBucketTagging or DeleteBucketTagging replaces all tags.
TagsAccepted(r) ==
    /\ Exists(bucket)
    /\ bucket' = [bucket EXCEPT !.tags = OnApi(op[r].plan.tags)]

CreateTags(r) ==
    /\ op[r].step = "createTags"
    /\ \/ TagsAccepted(r) /\ Goto(r, "createTagsWait") /\ UNCHANGED budget
       \/ TagsAccepted(r) /\ Finish(r, op[r].resp, "error") /\ Charge("faults")
       \/ /\ \/ ~Exists(bucket) /\ UNCHANGED budget
             \/ Charge("faults")
          /\ Finish(r, op[r].resp, "error")
          /\ UNCHANGED bucket
    /\ UNCHANGED <<view, made, config>>

\* Mutant of TagsVisible: the wait does not compare.
MutAnyAnswer(r) == Exists(view)

\* waitForBucketTags: the answer that ends the wait.  A 404 does not.
TagsVisible(r) == Exists(view) /\ view.tags = OnApi(op[r].plan.tags)

CreateTagsWait(r) ==
    /\ op[r].step = "createTagsWait"
    /\ TagsVisible(r)
    /\ Finish(r, Created(r), "ok")
    /\ UNCHANGED <<bucket, view, made, config, budget>>

-----------------------------------------------------------------------------
(* Update *)

Update(r) ==
    /\ op[r].step = "update"
    /\ \/ TagsAccepted(r) /\ Goto(r, "updateWait") /\ UNCHANGED budget
       \/ TagsAccepted(r) /\ Fail(r) /\ Charge("faults")
       \/ /\ \/ ~Exists(bucket) /\ UNCHANGED budget
             \/ Charge("faults")
          /\ Fail(r)
          /\ UNCHANGED bucket
    /\ UNCHANGED <<view, made, config>>

UpdateWait(r) ==
    /\ op[r].step = "updateWait"
    /\ TagsVisible(r)
    /\ Finish(r, [state[r] EXCEPT !.tags = op[r].plan.tags], "ok")
    /\ UNCHANGED <<bucket, view, made, config, budget>>

-----------------------------------------------------------------------------
(* Delete *)

\* Delete returned without an error: core drops the resource, and a
\* replacement goes on with its create.
Deleted(r) ==
    /\ state' = [state EXCEPT ![r] = NoState]
    /\ op' = [op EXCEPT ![r] = IF op[r].replace
                               THEN [@ EXCEPT !.step = "create"]
                               ELSE IdleOp("ok")]

\* DeleteBucket.  NoSuchBucket is success, without a wait; so is the answer
\* to a retry of a request whose first answer was lost.
Delete(r) ==
    /\ op[r].step = "delete"
    /\ \/ ~Exists(bucket) /\ Deleted(r) /\ UNCHANGED <<bucket, budget>>
       \/ /\ Exists(bucket)
          /\ bucket' = Missing
          /\ \/ Goto(r, "deleteWait") /\ UNCHANGED budget
             \/ Deleted(r) /\ Charge("faults")
             \/ Fail(r) /\ Charge("faults")
       \/ Fail(r) /\ Charge("faults") /\ UNCHANGED bucket
    /\ UNCHANGED <<view, made, config>>

DeleteWait(r) ==
    /\ op[r].step = "deleteWait"
    /\ ~Exists(view)
    /\ Deleted(r)
    /\ UNCHANGED <<bucket, view, made, config, budget>>

-----------------------------------------------------------------------------
(* Errors every wait can meet, import, crash *)

\* A wait ends without the answer it waits for: Create returns the state it
\* set, which core taints; Update and Delete keep the prior state.
WaitFails(r) ==
    \/ /\ op[r].step \in {"createWait", "createTagsWait"}
       /\ Finish(r, op[r].resp, "error")
    \/ op[r].step \in {"updateWait", "deleteWait"} /\ Fail(r)

\* HeadBucket fails with anything but 400 and 404, GetBucketTagging with an
\* error that is not transient.
PollError(r) ==
    WaitFails(r) /\ Charge("faults") /\ UNCHANGED <<bucket, view, made, config>>

\* Propagation would end the wait.
Satisfiable(r) ==
    \/ op[r].step = "createWait" /\ Exists(bucket)
    \/ /\ op[r].step \in {"createTagsWait", "updateWait"}
       /\ Exists(bucket) /\ bucket.tags = OnApi(op[r].plan.tags)
    \/ op[r].step = "deleteWait" /\ ~Exists(bucket)

ChargeTimeout(r) == IF TimeoutsCharged /\ Satisfiable(r)
                    THEN Charge("faults") ELSE UNCHANGED budget

\* Five minutes have passed, or the run was cancelled.
WaitTimeout(r) ==
    /\ WaitFails(r) /\ ChargeTimeout(r)
    /\ UNCHANGED <<bucket, view, made, config>>

\* ImportState: GetBucketLocation, then GetBucketTagging.
ImportLocation(r) ==
    /\ op[r].step = "idle" /\ state[r] = NoState /\ config[r] # NoConfig
    /\ Exists(view)
    /\ op' = [op EXCEPT ![r] = [IdleOp("none") EXCEPT
                !.step = "importTags",
                !.resp = [id |-> view.id, zone |-> view.zone,
                          tags |-> "null", tainted |-> FALSE]]]
    /\ UNCHANGED <<bucket, view, made, state, config, budget>>

ImportTags(r) ==
    /\ op[r].step = "importTags"
    /\ IF Exists(view)
       THEN Finish(r, [op[r].resp EXCEPT !.tags = AsRead(view.tags)], "none")
       ELSE Fail(r)
    /\ UNCHANGED <<bucket, view, made, config, budget>>

\* The terraform run dies; resp lives in the provider's memory.
Crash(r) ==
    /\ op[r].step \notin {"idle", "refreshed"}
    /\ Finish(r, state[r], "none")
    /\ Charge("faults")
    /\ UNCHANGED <<bucket, view, made, config>>

-----------------------------------------------------------------------------
(* Object storage and its other users (external) *)

\* Reads catch up with the writes.
Propagate ==
    /\ view # bucket
    /\ view' = bucket
    /\ UNCHANGED <<bucket, made, state, config, op, budget>>

EditConfig(r) ==
    /\ op[r].step = "idle" /\ Charge("edits")
    /\ \E c \in (Configs \cup {NoConfig}) \ {config[r]} :
          config' = [config EXCEPT ![r] = c]
    /\ UNCHANGED <<bucket, view, made, state, op>>

\* Somebody deletes, tags or creates the bucket elsewhere.
OutOfBand ==
    /\ Charge("outside")
    /\ \/ Exists(bucket) /\ bucket' = Missing /\ UNCHANGED made
       \/ /\ Exists(bucket) /\ UNCHANGED made
          /\ \E t \in ApiTags \ {bucket.tags} :
                bucket' = [bucket EXCEPT !.tags = t]
       \/ /\ ~Exists(bucket)
          /\ \E z \in Zones : CreateAccepted(z)
    /\ UNCHANGED <<view, state, config, op>>

-----------------------------------------------------------------------------
Init ==
    /\ bucket = Missing /\ view = Missing /\ made = 0
    /\ state = [r \in Runs |-> NoState]
    /\ config \in [Runs -> Configs]
    /\ op = [r \in Runs |-> IdleOp("none")]
    /\ budget = [faults |-> MaxFaults, edits |-> MaxEdits,
                 outside |-> MaxOutside]

Handlers(r) == \/ ReadTags(r) \/ ReadLocation(r) \/ Plan(r)
               \/ CreateHead(r) \/ CreateBucket(r) \/ CreateWait(r)
               \/ CreateTags(r) \/ CreateTagsWait(r)
               \/ Update(r) \/ UpdateWait(r)
               \/ Delete(r) \/ DeleteWait(r)
               \/ PollError(r) \/ WaitTimeout(r)
               \/ ImportLocation(r) \/ ImportTags(r) \/ Crash(r)

Next == \/ \E r \in Runs : Handlers(r) \/ EditConfig(r)
        \/ Propagate
        \/ OutOfBand

Spec == Init /\ [][Next]_vars

\* A request is answered, a satisfied poll is made.
HandlerFairness(r) ==
    /\ WF_vars(ReadLocation(r)) /\ WF_vars(Plan(r))
    /\ WF_vars(CreateHead(r)) /\ WF_vars(CreateBucket(r))
    /\ WF_vars(CreateWait(r)) /\ WF_vars(CreateTags(r))
    /\ WF_vars(CreateTagsWait(r)) /\ WF_vars(Update(r))
    /\ WF_vars(UpdateWait(r)) /\ WF_vars(Delete(r)) /\ WF_vars(DeleteWait(r))
    /\ WF_vars(ImportTags(r))

\* The user keeps applying, imports the bucket when told that it exists, and
\* the writes become visible.
ToldToImport(r) == op[r].result = "alreadyExists" /\ ImportLocation(r)

PatientSpec ==
    /\ Spec
    /\ WF_vars(Propagate)
    /\ \A r \in Runs : /\ HandlerFairness(r)
                       /\ WF_vars(ReadTags(r)) /\ WF_vars(WaitTimeout(r))
                       /\ SF_vars(ToldToImport(r))

-----------------------------------------------------------------------------
(* Properties *)

\* Two waits and one rule fit together: Read forgets a bucket on any 404, so a
\* Create may return without an error only once the bucket is visible, and a
\* bucket some state holds untainted is forgotten only when it is gone.
UntaintedKept ==
    [][\A r \in Runs :
          state[r] # NoState /\ ~state[r].tainted /\ state'[r] = NoState
             => bucket'.id # state[r].id]_vars

\* A run that holds the bucket holds it in the zone it is in: two runs that ask
\* for different zones never both believe they created it.
StateZoneIsBuckets ==
    \A r \in Runs : state[r] # NoState /\ state[r].id = bucket.id
                       => state[r].zone = bucket.zone

\* Unless somebody else changed the bucket, an apply that ends without an
\* error leaves a bucket with the planned tags, if it is a Create in the
\* planned zone, visible to the next refresh.  (A Create with null tags puts
\* none: a bucket that HeadBucket failed to notice keeps the tags it has.)
AppliedIsVisible ==
    [][\A r \in Runs :
          op[r].plan # NoConfig /\ op'[r].result = "ok" /\ state'[r] # NoState
             /\ budget.outside = MaxOutside
             => /\ Exists(view) /\ Exists(bucket)
                /\ op[r].step # "updateWait" => bucket.zone = op[r].plan.zone
                /\ op[r].step # "createWait"
                      => /\ bucket.tags = OnApi(op[r].plan.tags)
                         /\ view.tags = bucket.tags]_vars

Converged(r) ==
    IF config[r] = NoConfig
    THEN state[r] = NoState
    ELSE /\ state[r] # NoState /\ ~state[r].tainted
         /\ state[r].id = bucket.id
         /\ OnApi(state[r].tags) = OnApi(config[r].tags)
         /\ bucket.zone = config[r].zone
         /\ bucket.tags = OnApi(config[r].tags)

\* A user who keeps applying, and imports when told to, reaches the
\* configuration after any finite number of errors, lost answers, crashes and
\* out-of-band changes.
Converges == \A r \in Runs : <>[]Converged(r)
=============================================================================
