# A formal model of terraform-provider-coreweave

TLA+ specifications of the CoreWeave Terraform provider, TLC configurations
that check them on small instances, and theorems about them that TLAPS checks
for every instance. Paths below are relative to the repository.

    tlc -config Cluster.cfg MCClusterResource           # one run
    tlapm ClusterResource_proofs.tla                    # the proofs

## 1. The system

The provider is a process that Terraform core starts. Core calls the handlers
of a resource (`Create`, `Read`, `Update`, `Delete`, `ImportState`), up to ten
at a time; the handlers call CoreWeave's API (Connect over HTTP) or the object
storage (S3) and poll until an asynchronous operation is finished. What a
handler leaves in `resp.State` reaches core, and the state file, only when it
returns. Everything else is asynchronous or fails: the API rolls out in the
background, answers are lost, waits time out, the user interrupts, other
clients change the same objects.

| component | source (under `src/`) | state | operations | hard part |
|---|---|---|---|---|
| CKS cluster | `coreweave/cks/resource_cluster.go` | cluster in the API; resource in Terraform's state; the request and the poll in flight | CRUD, import | creation that fails half-way, replacement, drift, crashes |
| VPC | `coreweave/networking/resource_vpc.go` | the same | CRUD, import | the same, with another end of Delete; `Set` that keeps old prefixes |
| Inference deployment, gateway, capacity claim | `coreweave/inference/resource_*.go` | the same, and status fields an Update preserves | CRUD, import | plan consistency of computed fields, integer widths, an availability check before the request |
| Bucket | `coreweave/object_storage/resource_bucket.go` | bucket, its visibility, its tags | CRUD, import | check-then-create, eventual consistency |
| Bucket versioning, policy, lifecycle, inventory | `coreweave/object_storage/resource_bucket_*.go`, `utils.go` | one configuration document of a bucket | put, poll until read back, delete | stale read-back, comparisons that decide the poll |
| Bucket settings, organization access policy | `coreweave/object_storage/resource_bucket_settings.go`, `resource_organization_access_policy.go` | one object, by upsert | CRUD, import | several owners, no existence check |
| Shared S3 client | `coreweave/s3.go` | mutex, cached client, key expiry | `S3Client`, `PollUntil` | concurrent callers, keys that expire in use, keys not yet accepted |
| API client | `coreweave/client.go`, `retry.go` | a call with its attempts | retry policy, `HandleAPIError` | lost and late answers, cancellation, errors without details |
| Wait loop | `retry.StateChangeConf` (library) | last status | `WaitForStateContext` | statuses in neither Pending nor Target |
| Data sources, provider configuration, validators, logging, docs | `coreweave/*/data_source_*.go`, `internal/`, `main.go` | none | one Get, or a pure function | none |

The components meet in few places. Each resource uses the API client
(one `ApiCall` per request; a resource module sees it as "answered", "failed" or
"answer lost") and the wait loop. The object storage resources share one S3
client, guarded by `s3Mu`. Terraform core is the caller of all of them and is
part of every resource model.

What makes each component correct:

* **a resource**: an object Terraform was told about is never lost by a failure;
  it is forgotten only when it is gone; success means that the object is
  ready and as planned; applying again recovers from anything; every run ends;
* **a document of a bucket**: success means that readers see what was asked
  for; after an accepted put an error never leaves the state at the document
  from before; what the resource takes for "no changes" is what the
  configuration says;
* **settings and access policies**, which several workspaces may manage: each
  ends with what it asked for or an error, a deletion takes back what the state
  shows, and an organization without the archive entitlement is not affected by
  attributes it does not use;
* **every conversion**: a value that does not survive the way to the API and back
  ends as an error and never as a success;
* **the S3 client**: a client outlives its use; only accepted keys are cached;
  keys are not issued in excess; nobody waits for ever;
* **the API client**: a settled answer is final and reaches the caller; an
  interrupt stops the call; an error is never taken for a success.

## 2. The modules

| module | models |
|---|---|
| `ObjectOwnership` | abstract: what every resource promises about the objects it manages |
| `StateWaiter` | what one answer of a poll decides (external library) |
| `ClusterResource` | the cluster resource, Terraform core around it, and the CKS API |
| `ClusterResource_proofs` | theorems about it |
| `S3ClientCache` | `Client.S3Client`, `createS3Client`, `PollUntil` |
| `S3ClientCache_proofs` | theorems about it |
| `ApiCall` | one call through the retrying client, `RetryPolicy`, `HandleAPIError` |
| `ApiCall_proofs` | theorems about it |
| `BucketResource` | the bucket resource in several Terraform runs, and an object storage whose reads lag behind its writes |
| `BucketResource_proofs` | theorems about it |
| `Attributes` | values of attributes, and how plans, requests and states exchange them |
| `Cluster`, `Vpc`, `Inference` | the conversions of the cluster, VPC, deployment, gateway and capacity claim |
| `Conversions_proofs` | lemmas: what these conversions preserve on the way to the API and back |
| `ManagedObject` | these five resources, Terraform core and their APIs |
| `ManagedObject_proofs` | theorems about it, from those lemmas |
| `PolicyDocument` | a policy as text, as the data source writes it and as the bucket policy resource reads it |
| `BucketRules` | the conversions and comparisons of lifecycle and inventory configurations |
| `BucketDocument` | versioning, policy, lifecycle and inventory of a bucket, in a store whose reads lag |
| `BucketDocument_proofs` | theorems about it |
| `UpsertedResource` | bucket settings and organization access policies in several workspaces |
| `UpsertedResource_proofs` | theorems about it |
| `MCClusterResource`, `MCS3ClientCache`, `MCApiCall`, `MCBucketResource`, `MCManagedObject`, `MCBucketDocument`, `MCUpsertedResource` | instances for TLC |

`ManagedObject` extends `Cluster`, `Vpc`, `Inference` (which extend `Attributes`) and
`StateWaiter`, and is shown to implement `ObjectOwnership`, as `ClusterResource` is.
`BucketDocument` extends `PolicyDocument` and `BucketRules`. Each of these three state
machines covers several resources of one shape: the variable `kind`, chosen in `Init`,
says which, every handler has an action of its own (`VpcRead`, `GatewayUpdate`,
`LifecycleDelete`, ...), and the definitions show where the resources differ.

Definitions whose name begins with `Mut` are mutants: each is a plausible bug
in the definition that follows it. No specification uses them; replacing the
definition by its mutant makes a property fail (`PROJECT.json`, "mutants"),
which shows what that property guards.

### ClusterResource

| variable | code |
|---|---|
| `cloud` | the API: per id a status (`Cluster_Status`, or `UNUSED` before and `GONE` after its life) and a spec |
| `tfstate` | the resource in Terraform's state file, with core's taint mark |
| `config` | the user's block |
| `op` | the run in flight: the handler and where it is, the plan, the planned status, `resp.State` of a Create; `op.fresh` is history: a Read preceded the plan and nobody changed the cluster elsewhere since |
| `known` | history: ids Terraform was told about and that no crash made it lose |
| `budget` | bounds on faults, lost answers and edits |

A spec maps attributes to values. Attributes differ in two respects only:
those that force a replacement (`Immutable`), and the two webhooks that `Set`
leaves out if the model has none (`Webhooks`). One action is what a
handler does between two answers of the API: `CreateCluster` is `Create` up to
the first `resp.State.Set`, `CreatePoll` is the answer that ends the wait with
everything `Create` does after it. A poll answered with a pending status
changes nothing and is not a step. Errors are alternatives of the action
they can happen in (`CreateCluster`, `UpdateCluster`, `DeleteCluster`) or actions
(`PollError`, `WaitTimeout`, `Crash`).

Terraform core is external and modelled by its documented protocol: `Read`
before the plan (or not: `-refresh=false`); a delete before the create in a
replacement; a failed Create's resource is tainted; an apply whose result
differs from its plan is an error ("Provider produced inconsistent result").
The API is external too: ids are not reused, names are unique, an accepted
request shows at once in the spec and later in the status; a delete may
not be visible to the next poll. Other clients change, delete or create clusters in every step of a run,
also between the refresh and the request and while a wait polls
(`OutOfBandUpdate`, `OutOfBandDelete`, `OutOfBandCreate`).

`ObjectOwnership` is the promise with everything else removed: objects are
acquired, saved, adopted, die, are released when dead, and a crash abandons only
what was not saved. `ImplementsOwnership` maps `cloud`, `tfstate` and `op` to it.

### BucketResource

| variable | code |
|---|---|
| `bucket` | the bucket of the name all runs use (`Missing` when there is none): what `CreateBucket`, `PutBucketTagging`, `DeleteBucketTagging` and `DeleteBucket` are applied to |
| `view` | the bucket as `HeadBucket`, `GetBucketTagging` and `GetBucketLocation` see it; `Propagate` lets it catch up |
| `made` | how many buckets of that name there have been |
| `state`, `config` | per run: the resource in Terraform's state, and the user's block |
| `op` | per run: the handler and the request it is at, the plan, the first of Read's two answers, `resp.State` of a Create or import |
| `budget` | bounds on faults, edits and changes made elsewhere |

One action is one request. That matters where two requests belong together:
`CreateHead` and `CreateBucket` (another run may create in between), `ReadTags` and
`ReadLocation`, `ImportLocation` and `ImportTags` (the bucket may vanish in
between), a write and the wait for its visibility. `waitForBucket` and
`waitForBucketTags` are guards (`BucketIsThere`, `TagsVisible`): an answer that does
not end the wait is not a step, one that fails it is `PollError`, and
`WaitTimeout` is `PollUntil`'s deadline. The three waits leave different states behind:
Create returns the state it set before the wait, which core taints; Update
and Delete keep the prior one.

The code knows a bucket by its name alone. The `id` of a bucket and the one a
state remembers are history: no guard reads them, beyond whether there is a bucket; they let the
properties tell a bucket from its successors. The API's answer to a
`CreateBucket` for a name that exists is what `resource_bucket.go:295-299` says: the same zone
succeeds and changes nothing, another zone is refused with one of two errors.

The bucket does not implement `ObjectOwnership`, and no run claims it: Read drops a
bucket on any 404, so a tainted bucket that is not visible yet leaves the
state while it exists. `UntaintedKept` is the promise that is left.

### Attributes, Cluster, Vpc, Inference

A model is a record with a field for each attribute; attributes that the code treats alike
are represented by one, as the modules' headers list. `Null`, `Bare` (the block
is given without the attribute) and `Unknown` are values, because the code distinguishes them. For each resource
there is the plan (`VpcPlan`: schema defaults, `UseStateForUnknown`), the request
(`VpcCreateRequest`, ...), what the API makes of it (external), and `Set` (`VpcSet`, ...).
The conversion to `uint32` is a remainder by `Modulus`, for every attribute the code casts. `...AsAsked` says what it means that an
object is what a configuration asks for, attribute by attribute; `...Lossy` lists
the configurations that do not survive the way there and back; `...WellFormed` says what the
schema's types and validators let through. `Cluster` has in addition the
diff of an Update (`ChangedFields`, `ClusterUpdateRequest`) and the two conditions under which
a change replaces the cluster (`NamesRemoved`, `PortsShrink`).

### ManagedObject

| variable | code |
|---|---|
| `kind` | the resource at hand |
| `cloud` | the API: a status and a spec for each id |
| `tfstate` | the state: id, model, the observed attributes (`status`), core's taint mark |
| `config` | the user's block |
| `op` | the run in flight: handler, plan, `resp.State`; `op.accepted` is history: the spec of the object once the API has accepted the request, so that a change made elsewhere during the wait can be told from what was asked for |
| `advertised` | the engines `GetDeploymentParameters` answers, which `ModifyPlan` asks for on every plan |
| `budget` | bounds on faults, lost answers and edits |

The handlers send a request, set the state from its answer, wait, and set it
again. What differs is kept: which statuses each wait endures; that an Update of an inference
resource sets the state before the wait and a VPC's does not (`UpdateResponse`); that status fields
are not touched by an Update, except a cluster's (`ObservedStatus`); that only the Create of a cluster
saves the answer FAILED (`AwaitCreate`); that a
plan may never become a request (`NoRequest`). The names of objects are not modelled as unique:
`ClusterResource` has that, and the cluster's interleavings in more detail: there three
attributes stand for all, here every kind of attribute has its own conversion. What the API
refuses of a cluster's update is what the code and the schema say of it (`UpdateRefused`: a version together
with network fields, names removed, a smaller range). Somebody else may change the object whenever the API
takes changes (`TakesUpdates`), during the 20 to 45 minutes of a wait too; its status is UPDATING again then.

### BucketDocument, PolicyDocument, BucketRules

| variable | code |
|---|---|
| `docs` | what is written at each place (a bucket, or a bucket and the name of an inventory); `Absent`, or `Gone` without a bucket |
| `views` | what reads see there, until `Propagate` lets them catch up |
| `tfstate`, `config`, `op`, `budget` | as above; a plan holds the place and the model |

`Put` is the request with the state that is set before the wait (`Acknowledged`), the four `...Wait`
actions are the answer that ends the poll with the last `resp.State.Set`, and `...Matches`
is what each poll compares. The comparisons are those of the code, with what
they leave out. A policy's text keeps its JSON forms (string or list, map
of strings or of lists), because the
unmarshalling treats each differently, and the negated elements, which it drops. What a policy means to the API
(`SameMeaning`) is defined without the provider's comparison: equal up to the layouts the API answers
in. So the properties measure `SamePolicy` instead of repeating it, and what it cannot tell apart has a
name (`Overlooks`). A lifecycle rule has a field for each way of its conversions
to lose something: dates, of transitions too, an empty abort block, a size that is not positive, a tag without a
value, an id, the deprecated prefix. Terraform core's refresh, plan and check of
the result are the same as in the other modules.

### UpsertedResource

`cloud` holds what the API has under each name, `entitled` whether the organization may
use archive; `tfstate`, `config` and `op` are per workspace. Refresh and plan are one step,
since a plan reads only the state that the refresh has set. `Stored`, `Refused` and `Disclosed` are
the API, as the tests' fake server (`fake_cwobject_test.go`) answers. A policy is one value; `Unconvertible` are those with a
null in one of their sets, for which `ToEnsureAccessPolicyRequest` makes no request and drops its
diagnostics (`NoRequest`). Configurations that
validation rejects are not considered.

### S3ClientCache

The actions of a caller follow the lines of `S3Client`: `Lock`; `UseCached`, or
`CreateKey` and the validation poll, which holds the mutex; the return, on
every path of which the deferred unlock happens. Time counts down: `left[k]` is
the rest of a key's life, `timer[p]` the length of a wait. A key slot that has
expired and that nobody refers to stands for a new key, so that the set of keys is finite.
`wasted` records keys that were issued and never cached (validation failed,
answer lost); the code does not delete them.

### ApiCall

`Send` to `Finish` is go-retryablehttp's loop (external), `RetryPolicy`,
`Retryable` and `Unrecoverable` are `retry.go`, `HandleAPIError` and
`FromDetails` are `client.go`. The server serves each attempt at most once,
perhaps after the client stopped waiting for it. `IsNilURLError` is the
condition `errors.Is(err, v)` with a nil `v` (`retry.go:37`): it is false for
every error.

## 3. The runs

| run | instance | shows |
|---|---|---|
| `cluster` | 2 ids, an immutable attribute, the version and a webhook; `TimelySpec` | `TypeOK`, `NoOrphan`, `ForgetOnlyGone`, `ImplementsOwnership`, `RefreshedApplyKeepsSpec`, `SuccessMeansReady`, `RunEnds` |
| `cluster_converges` | 4 ids; `PatientSpec`, rollouts fail only at creation | `Converges` |
| `objects` | each of the five kinds with 4 to 14 configurations, 4 ids, one fault, one lost answer, one edit; `PatientSpec` | `Converges`, `ImplementsOwnership`, `SuccessMeansAsAsked`, `NoChangesMeansAsAsked`, `InconsistentOnlyIfLossy`, `AcceptedUpdateRecorded` |
| `documents` | each of the four kinds with 5 to 12 models, 2 places, two faults, one edit; `PatientSpec` | `AppliedIsVisible`, `StateNotBehind`, `NoChangesMeansVisible`, `InconsistentOnlyIfLossy`, `Converges` |
| `upserts` | 2 workspaces, 2 names, settings with and without archive, three policies, one with a null, one fault, one edit, one change elsewhere; `PatientSpec` | `FewOrphans`, `SuccessMeansAsAsked`, `UnentitledUnaffected`, `ForgottenMeansOff`, `InconsistentOnlyIfListed`, `Converges` |
| `bucket` | 1 run, absent, empty and present tags, two faults, two edits, one change elsewhere; `PatientSpec` | `TypeOK`, `AppliedIsVisible`, `Converges` |
| `bucket_shared` | 2 runs, 2 zones, one fault, one change elsewhere; `Spec` | `StateZoneIsBuckets`, `UntaintedKept` |
| `s3_calls` | 2 callers, 4 keys; `FairSpec` | `TypeOK`, `KeyOutlivesUse`, `OnlyAcceptedKeyCached`, `FewLiveKeys`, `CallReturns` |
| `api_call` | 3 attempts, up to 2 error details | `TypeOK`, `SettledIsFinal`, `CancelStops`, `ErrorsReported`, `QuotaShadowed` |
| `cluster_failed_replace`, `settings_days`, `policy_principal` | the smallest instances that show them | the findings of section 5 |

`TypeOK` of `ManagedObject`, `BucketDocument` and `UpsertedResource` is listed by no run. The
latter two are proved (`TypeCorrect`); that of `ManagedObject` only documents its variables:
its proofs need of a type what `OpOK`, `CloudOK` and `CInv` say.

**Bounds.** Two ids let a cluster be created, lost or failed, and replaced. Where
`Converges` needs every creation to succeed in the end, the
ids (4 clusters, `MaxBuckets`) are more than the faults, edits and lost answers together can use up;
for the five kinds of `objects`, whose lossy configurations are replaced for ever,
`OutOfIds` ends the claim. Two values per attribute
tell planned, prior and drifted specs apart where two are compared; the configurations of
`objects`, `documents` and `upserts` are one base and one variation for every case
their conversions distinguish (null, empty, zero, given, given out of range), so that an
edit goes from any of them to any other. The budgets let a fault meet an edit or another
fault. Two zones and two runs are
what it takes to ask for different buckets of one name; two places let a document move;
two workspaces let owners overwrite and delete each other's objects; one set of tags
is told apart from none and from the empty map. `Modulus` is 1024: above the
1000 that `priority` and `weight` may be, and what is beyond it is truncated as what is beyond 2^32. The numbers of distinct states
are 1.3 million for `cluster`, 2.0 million for `objects`, 0.4 million for `documents` and 0.8 million for
`upserts`. Ids, zones, tags and runs are
symmetric in `bucket_shared`; the runs with a liveness property use no symmetry. In
`S3ClientCache` 15, 5 and 1 minutes become 5, 2 and 1 ticks, which keeps
`Margin + ValidationLimit < Lifetime` and `2 * Margin < Lifetime`, the two facts
the argument needs (`TimeAssumption`), and `MaxUse = Margin` is the longest use for which
`KeyOutlivesUse` is claimed (Create of a bucket may hold its client for longer:
`resource_bucket.go:266`). Three attempts stand for eleven: a
request can be answered, lost, and overtaken by two later ones.

**Fairness.** `ProviderFairness`: the provider process runs, so a handler that
can take a step takes it. `TimelySpec` adds that timeouts expire
(`StateChangeConf.Timeout`: 45 minutes for Create, 20 for the others) and that a started plan is
completed; nothing is assumed of the API. `PatientSpec` instead adds that the
user keeps refreshing and planning and that the API finishes what it
started; the faults that get in between are finitely many because the
budgets are, and timeouts are charged there, since an API that outlasts every timeout
never converges. `Converges` excludes rollouts that fail after creation:
by the first finding below such a cluster is not replaced. The bucket's
`PatientSpec` assumes that requests are answered, that
writes become visible, that the user keeps applying, and that a user who is told
"already exists" imports the bucket (strong fairness of that one import,
because without it a bucket whose creation was lost is nobody's for ever).
`PatientSpec` of the other modules is the same: the handlers run and are answered, the user
refreshes and applies, the API finishes a rollout, a write becomes visible. Where a poll
of `BucketDocument` can only time out, because what is written is not what it
looks for, its end is not charged to the faults. `Converges` excludes, by name
(`Hopeless`, `Disputed`, `OutOfIds`), what no number of applies can reach; section 5 lists why. The S3
cache assumes strong fairness for `Lock` (`sync.Mutex` hands over to a
starving waiter), weak fairness for the caller's own steps and for time, and
nothing for the acceptance of a key.

## 4. The proofs

Eight proof modules hold for all values of the constants that the named assumptions admit.
Most assumptions say that model values are what they stand for: that a placeholder is none
of the values it is told apart from (`IdAssumption`, `StateAssumption`, `DataAssumption`, `CallerAssumption`,
`KeyAssumption`, `NullAssumption`, `ZeroAssumption`, `NameAssumption`, `NoneAssumption`, `PlaceAssumption`,
`DateAssumption`, `VersionAssumption`, `VpcAssumption`, `PortsAssumption`, `BlockAssumption`,
`RecordsAssumption`), and that sets and bounds are such (`AttrAssumption`, `SpecAssumption`, `FailAssumption`,
`BoundAssumption`, `BudgetAssumption`, `RetryAssumption`, `ModulusAssumption`, `KindAssumption`,
`ObjectAssumption`). Three say something of the code: `TimeAssumption` relates the three durations of
the S3 client, and `ConfigAssumption` and `ModelAssumption` say that a configuration is what the
schema's types and validators let through (`...WellFormed`). `ConvertibleAssumption` says that some access policy is
free of nulls. In `ManagedObject` and `BucketDocument` the
empty state is defined as a record (with the id `NoId`, in no place), so that nothing has to be assumed of it.

`ClusterResource_proofs`:

* `TypeCorrect`, `NeverOrphaned`: `Spec => []TypeOK` and `Spec => []NoOrphan`.
  `NoOrphan` alone is not inductive. The invariant `IInv` adds
  `RunShape`: a Create starts from an empty state, the other handlers work on
  the cluster in the state, and a Create's saved response names the
  cluster it polls; and `Created`: an id Terraform knows or holds has
  been used. Without the first, a Create's failure could overwrite another
  cluster's state; without the second, a known id could still be
  assigned to a new cluster.
* `ForgottenOnlyWhenGone`: the action property `ForgetOnlyGone`, from `IInv`: the state
  changes its id only in Read, at the end of a Create (which starts from an empty state), at
  the end of a Delete, or on import (likewise).
* `Implementation`: `Spec => Ownership!Spec`, one lemma per action: each maps to
  one step of `ObjectOwnership` or to a stutter.
* `RefreshedApplyIsKept`, `SuccessIsReady`: an apply that has read the cluster
  leaves what it says unless somebody changed the cluster after that Read, and a run without an error leaves a cluster that
  is ready, whoever did. The second
  invariant `SInv` adds how far the specs agree while a run is in flight (`SpecsAgree`): as long as `op.fresh` holds, the state
  is what `Set` makes of the API's answer (`Synced`); therefore the mask of an Update
  covers every difference, and what the API has once it is accepted sets the plan to itself. `Set`
  twice is `Set` once (`SetSpecIdempotent`).

`S3ClientCache_proofs` proves the four safety properties of `s3_calls` and `AlwaysHandedOutFresh`. The
invariant says that the caller that works holds the mutex (`Exclusion`); that a
key in validation was issued `timer[p]` ago while the cached one had at most
`Margin` left (`Validating`); that a key in use had more than `Margin` when its use
began (`Using`); and, for the bound on live keys, that any other unwasted live key was replaced
by the cached one, hence has at most `Margin` minus the cached key's age left
(`Accounted`). From `2 * Margin < Lifetime` it follows that such a
key is dead by the time the next one is asked for (`NothingElseInReserve`), so
that there are never more than two.

`BucketResource_proofs` proves `TypeOK`, `StateZoneIsBuckets` and
`UntaintedKept` for any number of runs. The invariant has a part for the storage,
`WorldOK` (among others: if `view` shows the bucket, it shows its zone), and a part for each run,
`RunOK`: what a state or a response holds was made, in the zone it says (`Holds`), and what a
run has seen stays visible while it exists (`Seen`). `Seen` is what `UntaintedKept`
rests on, and the waits are what establishes it: only a response still in its first wait may lack
it, and only a tainted state. Every action moves at most one run, and the storage in one of
five ways (`Still`, `Retag`, `Vanish`, `Appear`, `CatchUp`), each of which keeps what the
other runs hold and have seen (`BystanderPreserved`, `OneRunMoves`); so an
action's lemma is about the run that moves.

`ApiCall_proofs` proves the five properties of `api_call` for any number of attempts
and details. Beside them the invariant says that a judged answer is an answer and
that an attempt is left when one is to be made (`Answered`), that nothing is returned before the
call is over (`Outcome`), and that after an interrupt no attempt has failed yet while another
can still be made (`Interrupted`), from which `CancelStops` follows. `Settled` is the
lemma about the policy: with a live context, the answers it is content
with are exactly those that asking again cannot change.

`BucketResource_proofs` also proves `AppliedIsVisible` for a single run (`AppliedIsSeen`): until
somebody else has changed the bucket, it is what the run has requested so far
(`WrittenOK`), and the waits compare that with what is visible. With several runs the property
is not claimed, since another run may replace the bucket or its tags while this one waits.

`UpsertedResource_proofs` covers both kinds, any workspaces and names. An action moves one
workspace, or the world alone, so the invariant has a part for the world (no retention without archive,
`RetentionNeedsArchive`) and a part for each workspace that no other can disturb (`Fits`: a plan is of the
configuration, and a Create starts from an empty state). From it follow `TypeCorrect` and the four action
properties of `upserts`: `SuccessIsAsAsked`, `UnentitledMayManage`, `ForgottenIsOff`, `InconsistentIsListed`. For
`OrphansAreFew` the lemma is that a step makes at most one orphan, and that the step that makes it
is a fault or somebody else's change (`OrphansMove`), so that the orphans never outnumber what was spent on those.

`Conversions_proofs` holds lemmas on the five resources' conversions, for every well-formed
configuration: what the API makes of a request is an object (`...CreatedIsSpec`,
`...UpdatedIsSpec`); `Set` from one object twice is `Set` once (`...SetTwice`); if an answer is as planned,
the object is as asked (`...Agreement`); and unless the configuration is lossy, the answer
to a Create, and to an Update, is as planned (`...ComesBack`, `...UpdateComesBack`).

`ManagedObject_proofs` has two invariants. `IInv` treats specs as opaque: what a run says of the state
(`RunShape`), that what Terraform tracks was created (`TrackedExist`), and that the answer an Update of
an inference resource would leave is what the API accepted (`Recorded`). It gives `Implementation`, each
action being one step of `ObjectOwnership` or a stutter for each of the five kinds, and
`UpdateIsRecorded`. `CInv` says what specs have to do with one another: the plan is of the
configuration (`PlanOK`), objects are what requests make (`SpecsOK`), the state shows its object
(`ShownOK`), after a refresh it is what the object sets it to (`RefreshedOK`), and what the
API accepted is what was requested (`AwaitedOK`, about `op.accepted`). The object itself may have been changed since. An
answer that agrees with the plan still shows an object as asked (`Agreement`), and one that does not
either differs from the accepted object in an attribute, since both have exactly the attributes of their kind
(`Complete`, `SameSpec`), or is the accepted object, which only a listed configuration brings back
otherwise. With the lemmas of `Conversions_proofs` it
gives `SuccessIsAsAsked`, `NoChangesIsAsAsked` and `InconsistentIsLossy`.

`BucketDocument_proofs` begins with lemmas on the conversions of `BucketRules`: a configuration that a
document was read back into asks for that document again, and one that is not lossy comes back
as planned. Of policies the lemma is `SamePolicyMeaning`: two readable texts that unmarshal to the same struct mean
the same to the API, but for the parts that `Heeded` removes. The invariant `IInv` is the types, the shape of the run (`OpOK`: while a document is awaited, the response
holds the place and the model that were put, since the state is set before the wait), and `StateIsSeen`:
between a refresh and its plan the state is what readers see. It gives `TypeCorrect` and the four safety properties of
`documents` (`StateIsNotBehind`, `AppliedIsSeen`, `NoChangesIsSeen`, `InconsistentIsLossy`).

Only model-checked: the liveness properties `RunEnds`, `Converges` (of five modules) and `CallReturns`, since
temporal reasoning under fairness is out of the prover's reach; and `AppliedIsVisible` of a bucket
that several runs apply, which is not claimed. Every safety invariant and action property of a
passing run is stated by a theorem.

## 5. Findings

Each is shown by a run that TLC ends with a counterexample.

1. `FailedForcesReplace`: `resource_cluster.go:1037` promises that a FAILED cluster is
   re-created; the modifier never runs because `UseStateForUnknown` before it
   makes planned and prior status equal. (A cluster that fails *in Create* is
   tainted, and is replaced.)
2. `OmittedDaysStayNull`: when a configuration stops mentioning archive while it is
   on, `archive_after_last_access_days` is planned null; `ToProtoObject`
   (`resource_bucket_settings.go:75-90`) sends nothing, archive stays on, and `Set` brings the
   days back: an inconsistent result, on every apply.
   `resource_bucket_settings.go:233` says that an omitted value always means that archive is not on.
3. `UnknownPrincipalIsError`: the last resort of `Principal.UnmarshalJSON`
   (`data_source_bucket_policy_document.go:70`) calls itself with the same bytes, so a
   Principal that mixes strings and lists overflows the stack, after the policy was
   put; line 71 announces an error.

Seen while modelling, and part of the models, but shown by no run of their own.
Where one limits what can be claimed, the property names it (`Hopeless`, `Lossy`, `RecordsStay`).

*Cluster, VPC, inference*

* `resource_cluster.go:1270`: an Update planned while the cluster was not RUNNING
  answers RUNNING against the planned prior status, the inconsistency that
  `resource_inference_deployment.go:927-936` describes and avoids.
* `resource_cluster.go:377`: `oidcSigningAlgs` drops, without an error, every algorithm but
  RS256; the cluster is created without it and the result is inconsistent.
* `resource_cluster.go:609`: the API refuses network fields during a version upgrade, and
  `buildUpdateRequest` sends both in one request when both change; such an apply is refused until the
  user splits it.
* `node_port_range = { start = 0, end = 0 }` and blocks `oidc` and `authn_webhook` of empty strings come back
  otherwise than planned; `shared_storage_cluster_id` is never answered, so that the first plan
  after an import replaces the cluster.
* a request of an Update is made from the state: an attribute that changes elsewhere after
  the refresh, and that the plan does not change, ends as an inconsistent result (`ChangedUnsent`); so
  does nearly every change made elsewhere while a wait polls (`ChangedMeanwhile`). Two such changes are
  shown by no answer, and the run succeeds: all prefixes of a VPC removed, and a webhook added.
* `resource_vpc.go:308`: `vpc_prefixes` that the API no longer has stay in the model, so
  their removal elsewhere is not seen.
* `resource_vpc.go:336`: `dhcp = {}` passes validation and dereferences a nil `Dns`.
* `resource_vpc.go:475`: `host_prefix = ""` has no validator; it is sent as none and comes back as the
  API's default.
* `ingress = {}`, `dhcp = { dns = {} }` and `dhcp = { dns = { servers = [] } }` come back
  otherwise than planned.
* `resource_inference_deployment.go:771-804`, `resource_inference_capacity_claim.go:484`: `min`, `max`, `concurrency` and
  `instance_count` have no upper bound; values beyond `uint32` are truncated. The
  result is an inconsistency, after the API was asked for another number.
* `resource_inference_deployment.go:420`: once the API withdraws an engine, no plan of its
  deployments succeeds, not even one that would leave the engine alone.
* `resource_inference_gateway.go:569`: a DNS record that leaves the configuration stays at the
  gateway, is read back, and makes every later update inconsistent.

*Buckets*

* `resource_bucket.go:305`: for BucketAlreadyOwnedByYou `bucketExistsErr` is nil and is
  dereferenced, where the comment announces an error.
* `resource_bucket.go:295-299`: two runs that create one bucket in one zone may both pass
  HeadBucket before either creation is visible, and both succeed.
* `resource_bucket.go:397` takes a 404 for the absence of the bucket, also for a
  bucket that Create left tainted because it was not visible in time
  (`ReadTags`); the next Create is then told that it exists.
* `resource_bucket.go:426`: `tags = {}` is put as no tags and read back as null, so every plan has an update.
* `resource_bucket_lifecycle_configuration.go:468-572`: `eqLifecycleRule` leaves out the
  transitions and dates that only one side has, so the poll may end with the rules from
  before; core's comparison then reports an inconsistent result.
* `resource_bucket_lifecycle_configuration.go:868`: Delete asks a nil `apiErr` for its code after a
  transport error.
* of two rules with one id, both get the prefix of the last when they are read back.
* these come back otherwise than planned (`RulesLossy`, `InventoryLossy`): rules without an id; a date in another
  layout than RFC 3339 in UTC, of transitions too; a size of 0 or less, which is not sent; a
  `filter.tag` without a value, sent as the empty one (`resource_bucket_lifecycle_configuration.go:397`); an empty
  `abort_incomplete_multipart_upload`, sent as 0 days (385); an inventory's `filter {}`.
* `resource_bucket_versioning.go:62`: no validator looks at the status; one the API does not know is
  refused at the put. A bucket whose versioning was never set is read back as the empty status.
* Read of versioning and lifecycle takes NoSuchBucket for an error (`resource_bucket_versioning.go:152`);
  Delete takes it for success. After the bucket is gone only a removal from the state helps.
* `resource_bucket_versioning.go:50`: the bucket of a versioning configuration or a policy is
  changed in place; the former bucket keeps its document.
* `resource_bucket_versioning.go:228`: versioning that was Enabled cannot become Disabled
  again, so a configuration with Disabled that is created a second time is refused.
* `data_source_bucket_policy_document.go:129`: a condition with a value other than strings is put and cannot
  be read; from then on every refresh is an error. `NotAction`, `NotResource`, `NotPrincipal` and a
  Principal string other than `*` are not part of `PolicyDocument` (24-46): drift in them is not seen, and
  a poll for an update of only these is content with the old policy. `AppliedIsVisible`,
  `NoChangesMeansVisible` and `Converges` except them (`Overlooks`), and nothing else.
* `resource_organization_access_policy.go:118-138`: for a null in a set `ToEnsureAccessPolicyRequest` appends its
  diagnostics to a copy and answers nil. The comments at 251 and 300 promise to "return & show the diagnostic error";
  Create ends with the framework's error for a missing state, and Update with the prior
  state and no error, which core calls inconsistent (`NoRequest`, `InconsistentOnlyIfListed`).
* `resource_bucket_settings.go:154`: a destroy switches off an archive that somebody else
  switched on, if a refresh has seen it.

*Client*

* `client.go:29` says that only idempotent verbs and 502/503/504 are retried; the policy
  retries any request, also on 429 and 500 (`retry.go:63-74`).
* the branch `retry.go:38` is dead: no error equals a nil `*url.Error`, so
  too many redirects or an untrusted certificate are retried (`IsNilURLError`).
* `retry.go:93` promises a retry after the deadline; the back-off ends at once
  with the same context.
* `s3.go:110`: a key whose validation fails is not deleted and lives its 15 minutes (`wasted`).
* `QuotaShadowed` passes, and states a consequence worth knowing: the
  ResourceExhausted branch of `HandleAPIError` is not reached, because the policy retries 429
  until it gives up.

## 6. Not modelled, and the plan

Left out for good: the data sources other than the policy document (one Get and a conversion their
resources have too), provider configuration, validators, logging,
generated documentation (no state, or wording only); the region of the S3
client; the AWS SDK's own retries; clock skew between provider and API;
several provider processes that share an account's keys; attributes of one
resource that are copied alike, beyond the one that represents them.

What a later extension could add: the type invariant of `ManagedObject` as a theorem;
that each finite wait of `StateWaiter`'s users refines one abstract poll, so that the lemmas about waits are
stated once; `AppliedIsVisible` of the bucket under a condition on the other runs.
