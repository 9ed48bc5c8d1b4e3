------------------------ MODULE ManagedObject_proofs ------------------------
(***************************************************************************)
(* Proofs about ManagedObject, for every number of objects, every set of   *)
(* configurations and every bound: that each of the five resources         *)
(* implements ObjectOwnership; that an update the API has accepted is      *)
(* recorded when its wait fails; and that a run that ends without an       *)
(* error leaves an object as the configuration asks.                       *)
(*                                                                         *)
(* The first two do without the type of an attribute: the conversions      *)
(* between a plan, a request, the API's object and the state stay          *)
(* unexpanded.  The last rests on what Conversions_proofs says of them.    *)
(***************************************************************************)
EXTENDS ManagedObject, Conversions_proofs, TLAPS

USE ObjectAssumption

Statuses == Reported \cup {"UNUSED", "GONE"}

\* Every object has a status and a spec.
CloudOK ==
    /\ cloud = [i \in Ids |-> cloud[i]]
    /\ \A i \in Ids :
          /\ cloud[i] = [status |-> cloud[i].status, spec |-> cloud[i].spec]
          /\ cloud[i].status \in Statuses

OpOK ==
    /\ op = [step |-> op.step, replace |-> op.replace, plan |-> op.plan,
             id |-> op.id, resp |-> op.resp, accepted |-> op.accepted,
             result |-> op.result]
    /\ op.step \in Steps
    /\ op.step # "idle" => op.result = "none"

\* What the run in flight says about Terraform's state: a Create starts from
\* an empty one, and the other operations work on the object it holds.
RunShape ==
    /\ tfstate = NoState \/ tfstate.id \in Ids
    /\ op.step \in {"create", "createWait"} => tfstate = NoState
    /\ op.step \in {"update", "updateWait", "delete", "deleteWait"}
          => tfstate.id \in Ids
    /\ op.step = "createWait" => op.id \in Ids /\ op.resp.id = op.id
    /\ op.step \in {"updateWait", "deleteWait"} => op.id = tfstate.id
    /\ op.step = "updateWait" => op.resp.id = op.id

\* An object Terraform tracks has been created.
TrackedExist == \A i \in Ids : Tracks(i) => cloud[i].status # "UNUSED"

\* The answer an Update of an inference resource would return if its wait
\* failed now is what the API accepted.
Recorded ==
    op.step = "updateWait" /\ kind \notin {"cluster", "vpc"}
       => op.resp.model = ModelSet(op.plan, op.accepted)

IInv == CloudOK /\ OpOK /\ RunShape /\ TrackedExist /\ Recorded

-----------------------------------------------------------------------------
(* Lemmas *)

\* A state of an object is not the empty state.
LEMMA HeldIsState ==
    ASSUME NEW state, state.id \in Ids
    PROVE  state # NoState
  BY DEF NoState

\* Two ways to change one object.
LEMMA ObjectChanged ==
    ASSUME CloudOK, NEW i \in Ids, NEW status \in Statuses, NEW spec,
           cloud' = [cloud EXCEPT ![i] = [status |-> status, spec |-> spec]]
    PROVE  /\ CloudOK'
           /\ cloud'[i].status = status /\ cloud'[i].spec = spec
           /\ \A j \in Ids \ {i} : cloud'[j] = cloud[j]
  <1>1. cloud' = [j \in Ids |-> IF j = i THEN [status |-> status, spec |-> spec]
                                ELSE cloud[j]]
    BY DEF CloudOK
  <1> QED
    BY <1>1 DEF CloudOK

LEMMA StatusChanged ==
    ASSUME CloudOK, NEW i \in Ids, NEW status \in Statuses,
           cloud' = [cloud EXCEPT ![i].status = status]
    PROVE  /\ CloudOK'
           /\ cloud'[i].status = status /\ cloud'[i].spec = cloud[i].spec
           /\ \A j \in Ids \ {i} : cloud'[j] = cloud[j]
  <1>1. [cloud[i] EXCEPT !.status = status]
            = [status |-> status, spec |-> cloud[i].spec]
    BY DEF CloudOK
  <1>2. cloud' = [cloud EXCEPT ![i] = [status |-> status,
                                       spec |-> cloud[i].spec]]
    BY <1>1
  <1> QED
    BY <1>2, ObjectChanged

\* No object that existed becomes unused.
Grown == \A i \in Ids : cloud[i].status # "UNUSED" => cloud'[i].status # "UNUSED"

LEMMA SameObjects ==
    ASSUME IInv, UNCHANGED cloud
    PROVE  CloudOK' /\ Grown
  BY DEF IInv, CloudOK, Grown

LEMMA IdleOpOK ==
    ASSUME NEW result, op' = IdleOp(result)
    PROVE  OpOK' /\ op'.step = "idle" /\ op'.result = result
  BY DEF IdleOp, OpOK, Steps

LEMMA FinishIsIdle ==
    ASSUME NEW state, NEW result, Finish(state, result)
    PROVE  OpOK' /\ op'.step = "idle" /\ op'.result = result /\ tfstate' = state
  BY IdleOpOK DEF Finish

LEMMA StartOK ==
    ASSUME NEW step \in Steps, NEW replace, NEW plan,
           Start(step, replace, plan)
    PROVE  OpOK' /\ op'.step = step /\ op'.plan = plan /\ op'.result = "none"
  BY DEF Start, IdleOp, OpOK

\* A run that is over: core has written the state, which is of an object that
\* exists.
LEMMA OverPreserves ==
    ASSUME IInv, CloudOK', Grown, OpOK', op'.step \in {"idle", "refreshed"},
           \/ tfstate' = NoState
           \/ tfstate'.id \in Ids /\ cloud[tfstate'.id].status # "UNUSED"
    PROVE  IInv'
  <1>1. RunShape' /\ Recorded'
    BY DEF RunShape, Recorded
  <1>2. TrackedExist'
    BY DEF TrackedExist, Tracks, Grown, IInv
  <1> QED
    BY <1>1, <1>2 DEF IInv

\* A run that ends with the state as it was, in any step but a Create's wait.
LEMMA KeptPreserves ==
    ASSUME IInv, CloudOK', Grown, OpOK', op'.step \in {"idle", "refreshed"},
           UNCHANGED tfstate
    PROVE  IInv'
  <1>1. \/ tfstate = NoState
        \/ tfstate.id \in Ids /\ cloud[tfstate.id].status # "UNUSED"
    BY HeldIsState DEF IInv, RunShape, TrackedExist, Tracks
  <1> QED
    BY <1>1, OverPreserves

\* A step of the API: the state and the run stay.
LEMMA CloudPreserves ==
    ASSUME IInv, CloudOK', Grown, UNCHANGED <<kind, tfstate, op>>
    PROVE  IInv'
  <1>1. OpOK' /\ RunShape'
    BY DEF IInv, OpOK, RunShape
  <1>2. TrackedExist'
    BY DEF IInv, TrackedExist, Tracks, Grown
  <1>3. kind' = kind /\ op' = op
    OBVIOUS
  <1>4. ModelSet(op.plan, op.accepted)' = ModelSet(op.plan, op.accepted)
    BY <1>3 DEF ModelSet
  <1>5. Recorded'
    BY <1>3, <1>4 DEF IInv, Recorded
  <1> QED
    BY <1>1, <1>2, <1>5 DEF IInv

-----------------------------------------------------------------------------
(* One lemma per action of Terraform and the provider *)

LEMMA RefreshPreserves == IInv /\ Refresh => IInv'
  <1> SUFFICES ASSUME IInv, Refresh PROVE IInv'
    OBVIOUS
  <1>1. CloudOK' /\ Grown
    BY SameObjects DEF Refresh
  <1>2. OpOK' /\ op'.step = "refreshed"
    BY DEF Refresh, IdleOp, OpOK, Steps
  <1>3. CASE tfstate = NoState \/ ~Found(tfstate.id)
    <2>1. tfstate' = NoState
      BY <1>3 DEF Refresh
    <2> QED
      BY <1>1, <1>2, <2>1, OverPreserves
  <1>4. CASE tfstate # NoState /\ Found(tfstate.id)
    <2>1. tfstate.id \in Ids
      BY <1>4 DEF IInv, RunShape
    <2>2. tfstate'.id = tfstate.id
      BY <1>4 DEF Refresh, SetFrom
    <2>3. cloud[tfstate.id].status # "UNUSED"
      BY <1>4 DEF Found, Reported
    <2> QED
      BY <1>1, <1>2, <2>1, <2>2, <2>3, OverPreserves
  <1> QED
    BY <1>3, <1>4

\* What a plan leads to.
LEMMA PlanStarts ==
    ASSUME IInv, Plan
    PROVE  /\ UNCHANGED <<kind, cloud, tfstate>> /\ op.step = "refreshed"
           /\ OpOK'
           /\ op'.step \in {"idle", "create", "update", "delete"}
           /\ op'.step = "create" => tfstate = NoState
           /\ op'.step \in {"update", "delete"} => tfstate.id \in Ids
  <1> SUFFICES /\ OpOK'
               /\ op'.step \in {"idle", "create", "update", "delete"}
               /\ op'.step = "create" => tfstate = NoState
               /\ op'.step \in {"update", "delete"} => tfstate.id \in Ids
    BY DEF Plan
  <1>1. tfstate = NoState \/ tfstate.id \in Ids
    BY DEF IInv, RunShape
  <1>2. ASSUME NEW result, op' = IdleOp(result)
        PROVE  OpOK' /\ op'.step = "idle"
    BY <1>2, IdleOpOK
  <1>3. ASSUME NEW step \in {"create", "update", "delete"}, NEW replace,
               NEW plan, Start(step, replace, plan)
        PROVE  OpOK' /\ op'.step = step
    <2>1. step \in Steps
      BY DEF Steps
    <2> QED
      BY <1>3, <2>1, StartOK
  <1>4. CASE PlanFits
    <2>1. CASE config = NoConfig /\ tfstate = NoState /\ op' = IdleOp("ok")
      BY <1>2, <2>1
    <2>2. CASE config = NoConfig /\ tfstate # NoState
               /\ Start("delete", FALSE, Null)
      BY <1>1, <1>3, <2>2
    <2>3. CASE config # NoConfig /\ tfstate = NoState
               /\ Start("create", FALSE, FreshPlan(config))
      BY <1>3, <2>3
    <2>4. CASE tfstate # NoState /\ NeedsReplace
               /\ Start("delete", TRUE, FreshPlan(config))
      BY <1>1, <1>3, <2>4
    <2>5. CASE tfstate # NoState /\ op' = IdleOp("ok")
      BY <1>2, <2>5
    <2>6. CASE tfstate # NoState
               /\ Start("update", FALSE, Planned(tfstate.model, config))
      BY <1>1, <1>3, <2>6
    <2> QED
      BY <1>4, <2>1, <2>2, <2>3, <2>4, <2>5, <2>6 DEF PlanFits
  <1>5. CASE op' = IdleOp("error")
    BY <1>2, <1>5
  <1> QED
    BY <1>4, <1>5 DEF Plan

LEMMA PlanPreserves == IInv /\ Plan => IInv'
  <1> SUFFICES ASSUME IInv, Plan PROVE IInv'
    OBVIOUS
  <1>1. /\ UNCHANGED <<kind, cloud, tfstate>> /\ op.step = "refreshed"
        /\ OpOK'
        /\ op'.step \in {"idle", "create", "update", "delete"}
        /\ op'.step = "create" => tfstate = NoState
        /\ op'.step \in {"update", "delete"} => tfstate.id \in Ids
    BY PlanStarts
  <1>2. CloudOK'
    BY <1>1, SameObjects
  <1>3. RunShape' /\ Recorded'
    BY <1>1 DEF IInv, RunShape, Recorded
  <1>4. TrackedExist'
    BY <1>1 DEF IInv, TrackedExist, Tracks
  <1> QED
    BY <1>1, <1>2, <1>3, <1>4 DEF IInv

\* The API takes up an unused object.
LEMMA CreateChanges ==
    ASSUME IInv, NEW i \in Ids, NEW plan, CreateAccepted(i, plan)
    PROVE  /\ CloudOK' /\ Grown
           /\ cloud[i].status = "UNUSED"
           /\ cloud'[i].status \in {"UNSPECIFIED", "CREATING"}
           /\ \A j \in Ids \ {i} : cloud'[j] = cloud[j]
  <1>1. PICK st \in {"UNSPECIFIED", "CREATING"} :
          cloud' = [cloud EXCEPT ![i] = [status |-> st, spec |-> Created(plan)]]
    BY DEF CreateAccepted
  <1>2. st \in Statuses
    BY DEF Statuses, Reported
  <1>3. /\ CloudOK' /\ cloud'[i].status = st
        /\ \A j \in Ids \ {i} : cloud'[j] = cloud[j]
    BY <1>1, <1>2, ObjectChanged DEF IInv
  <1> QED
    BY <1>3 DEF CreateAccepted, Grown

\* The five ends of the request of a Create.
LEMMA RequestCreateEnds ==
    ASSUME IInv, RequestCreate
    PROVE  /\ op.step = "create" /\ tfstate = NoState /\ UNCHANGED tfstate
           /\ \/ /\ UNCHANGED cloud /\ OpOK' /\ op'.step = "idle"
              \/ /\ \E i \in Ids : CreateAccepted(i, op.plan)
                 /\ OpOK' /\ op'.step = "idle"
              \/ \E i \in Ids :
                    /\ CreateAccepted(i, op.plan)
                    /\ OpOK' /\ op'.step = "createWait" /\ op'.id = i
                    /\ op'.resp.id = i
  <1>1. op.step = "create" /\ tfstate = NoState /\ UNCHANGED tfstate
    BY DEF RequestCreate, IInv, RunShape
  <1>2. \A result : op' = IdleOp(result) => OpOK' /\ op'.step = "idle"
    BY IdleOpOK
  <1>3. ASSUME NEW i \in Ids, NEW resp, NEW spec,
               op' = [op EXCEPT !.step = "createWait", !.id = i, !.resp = resp,
                                !.accepted = spec]
        PROVE  /\ OpOK' /\ op'.step = "createWait" /\ op'.id = i
               /\ op'.resp = resp
    BY <1>1, <1>3 DEF IInv, OpOK, Steps
  <1>4. \A i \in Ids : SetFrom(PlanModel, i, FALSE, TRUE).id = i
    BY DEF SetFrom
  <1>5. CASE NoRequest
    BY <1>1, <1>2, <1>5 DEF NoRequest
  <1>6. ASSUME NEW i \in Ids, CreateAccepted(i, op.plan),
               op' = [op EXCEPT !.step = "createWait", !.id = i,
                                !.resp = SetFrom(PlanModel, i, FALSE, TRUE),
                                !.accepted = cloud'[i].spec]
        PROVE  /\ OpOK' /\ op'.step = "createWait" /\ op'.id = i
               /\ op'.resp.id = i
    BY <1>3, <1>4, <1>6
  <1> QED
    BY <1>1, <1>2, <1>5, <1>6 DEF RequestCreate

LEMMA RequestCreatePreserves == IInv /\ RequestCreate => IInv'
  <1> SUFFICES ASSUME IInv, RequestCreate PROVE IInv'
    OBVIOUS
  <1>1. op.step = "create" /\ tfstate = NoState /\ tfstate' = NoState
    BY RequestCreateEnds
  <1>2. CASE UNCHANGED cloud /\ OpOK' /\ op'.step = "idle"
    BY <1>1, <1>2, SameObjects, OverPreserves
  <1>3. ASSUME NEW i \in Ids, CreateAccepted(i, op.plan), OpOK',
               op'.step = "idle"
        PROVE  IInv'
    BY <1>1, <1>3, CreateChanges, OverPreserves
  <1>4. ASSUME NEW i \in Ids, CreateAccepted(i, op.plan), OpOK',
               op'.step = "createWait", op'.id = i, op'.resp.id = i
        PROVE  IInv'
    <2>1. CloudOK' /\ cloud'[i].status \in {"UNSPECIFIED", "CREATING"}
      BY <1>4, CreateChanges
    <2>2. RunShape' /\ Recorded'
      BY <1>1, <1>4 DEF RunShape, Recorded
    <2>3. TrackedExist'
      BY <1>1, <1>4, <2>1 DEF TrackedExist, Tracks
    <2> QED
      BY <1>4, <2>1, <2>2, <2>3 DEF IInv
  <1> QED
    BY <1>2, <1>3, <1>4, RequestCreateEnds

\* Whatever a wait of a Create comes to, the state is of the object it waited
\* for.
LEMMA AwaitCreateEnds ==
    ASSUME IInv, AwaitCreate
    PROVE  /\ op.step = "createWait" /\ UNCHANGED cloud
           /\ op.id \in Ids /\ cloud[op.id].status # "UNUSED"
           /\ OpOK' /\ op'.step = "idle"
           /\ tfstate' # NoState /\ tfstate'.id = op.id
  <1>1. op.step = "createWait" /\ UNCHANGED cloud
    BY DEF AwaitCreate
  <1>2. op.id \in Ids /\ op.resp.id = op.id
    BY <1>1 DEF IInv, RunShape
  <1>3. cloud[op.id].status # "UNUSED"
    BY <1>1, <1>2 DEF IInv, TrackedExist, Tracks
  <1>4. PICK state, result :
          /\ Finish(state, result)
          /\ \/ state = op.resp
             \/ \E t : state = [SetFrom(op.resp, op.id, FALSE, FALSE)
                                  EXCEPT !.tainted = t]
    BY DEF AwaitCreate
  <1>5. state.id = op.id
    BY <1>2, <1>4 DEF SetFrom
  <1>6. state # NoState
    BY <1>2, <1>5, HeldIsState
  <1> QED
    BY <1>1, <1>2, <1>3, <1>4, <1>5, <1>6, FinishIsIdle

LEMMA AwaitCreatePreserves == IInv /\ AwaitCreate => IInv'
  <1> SUFFICES ASSUME IInv, AwaitCreate PROVE IInv'
    OBVIOUS
  <1> QED
    BY AwaitCreateEnds, SameObjects, OverPreserves

\* The API takes an update of an object it has.
LEMMA UpdateChanges ==
    ASSUME IInv, NEW i \in Ids, UpdateAccepted(i)
    PROVE  /\ CloudOK' /\ Grown
           /\ cloud[i].status \in Reported /\ cloud'[i].status \in Reported
           /\ \A j \in Ids \ {i} : cloud'[j] = cloud[j]
  <1> DEFINE spec == Updated(cloud[i].spec, op.plan, tfstate.model)
  <1>1. PICK st \in {"READY", "UPDATING"} :
          cloud' = [cloud EXCEPT ![i] = [status |-> st, spec |-> spec]]
    BY DEF UpdateAccepted
  <1> HIDE DEF spec
  <1>2. st \in Statuses
    BY DEF Statuses, Reported
  <1>3. /\ CloudOK' /\ cloud'[i].status = st
        /\ \A j \in Ids \ {i} : cloud'[j] = cloud[j]
    BY <1>1, <1>2, ObjectChanged DEF IInv
  <1>4. cloud[i].status \in {"READY", "UPDATING", "FAILED"}
    BY DEF UpdateAccepted, TakesUpdates
  <1> QED
    BY <1>3, <1>4 DEF Grown, Reported

\* The ends of the request of an Update.
LEMMA RequestUpdateEnds ==
    ASSUME IInv, RequestUpdate
    PROVE  /\ op.step = "update" /\ tfstate.id \in Ids /\ UNCHANGED tfstate
           /\ OpOK'
           /\ \/ /\ UNCHANGED cloud \/ UpdateAccepted(tfstate.id)
                 /\ op'.step = "idle"
              \/ /\ UpdateAccepted(tfstate.id)
                 /\ op'.step = "updateWait" /\ op'.id = tfstate.id
                 /\ op'.plan = op.plan
                 /\ op'.resp = UpdateResponse(tfstate.id)
                 /\ op'.accepted = cloud'[tfstate.id].spec
  <1>1. op.step = "update" /\ tfstate.id \in Ids /\ UNCHANGED tfstate
    BY DEF RequestUpdate, IInv, RunShape
  <1>2. \A result : op' = IdleOp(result) => OpOK' /\ op'.step = "idle"
    BY IdleOpOK
  <1>3. ASSUME op' = [op EXCEPT !.step = "updateWait", !.id = tfstate.id,
                                !.resp = UpdateResponse(tfstate.id),
                                !.accepted = cloud'[tfstate.id].spec]
        PROVE  /\ OpOK' /\ op'.step = "updateWait" /\ op'.id = tfstate.id
               /\ op'.plan = op.plan /\ op'.resp = UpdateResponse(tfstate.id)
               /\ op'.accepted = cloud'[tfstate.id].spec
    BY <1>1, <1>3 DEF IInv, OpOK, Steps
  <1>4. CASE NoRequest
    BY <1>1, <1>2, <1>4 DEF NoRequest
  <1> QED
    BY <1>1, <1>2, <1>3, <1>4 DEF RequestUpdate

LEMMA RequestUpdatePreserves ==
    ASSUME IInv, RequestUpdate, UNCHANGED kind
    PROVE  IInv'
  <1>1. op.step = "update" /\ tfstate.id \in Ids /\ UNCHANGED tfstate /\ OpOK'
    BY RequestUpdateEnds
  <1>2. CloudOK' /\ Grown
    BY <1>1, RequestUpdateEnds, UpdateChanges, SameObjects
  <1>3. CASE op'.step = "idle"
    BY <1>1, <1>2, <1>3, KeptPreserves
  <1>4. CASE /\ UpdateAccepted(tfstate.id)
             /\ op'.step = "updateWait" /\ op'.id = tfstate.id
             /\ op'.plan = op.plan
             /\ op'.resp = UpdateResponse(tfstate.id)
             /\ op'.accepted = cloud'[tfstate.id].spec
    <2>1. op'.resp.id = op'.id
      BY <1>4 DEF UpdateResponse, SetFrom
    <2>2. RunShape'
      BY <1>1, <1>4, <2>1 DEF IInv, RunShape
    <2>3. TrackedExist'
      BY <1>1, <1>2, <1>4 DEF IInv, TrackedExist, Tracks, Grown
    <2>4. ASSUME kind \notin {"cluster", "vpc"}
          PROVE  op'.resp.model = ModelSet(op.plan, cloud'[tfstate.id].spec)
      <3>1. op'.resp = SetFrom(PlanModel, tfstate.id, TRUE, FALSE)
        BY <1>4, <2>4 DEF UpdateResponse
      <3> QED
        BY <3>1 DEF SetFrom, PlanModel
    <2>5. ModelSet(op.plan, op.accepted)'
              = ModelSet(op.plan, cloud'[tfstate.id].spec)
      <3>1. /\ op'.plan = op.plan /\ kind' = kind
            /\ op'.accepted = cloud'[tfstate.id].spec
        BY <1>4
      <3> QED
        BY <3>1 DEF ModelSet
    <2>6. Recorded'
      BY <1>4, <2>4, <2>5 DEF Recorded
    <2> QED
      BY <1>1, <1>2, <2>2, <2>3, <2>6 DEF IInv
  <1> QED
    BY <1>3, <1>4, RequestUpdateEnds

\* Whatever a wait of an Update comes to, the state is of the same object.
LEMMA AwaitUpdateEnds ==
    ASSUME IInv, AwaitUpdate
    PROVE  /\ op.step = "updateWait" /\ UNCHANGED cloud /\ op.id \in Ids
           /\ OpOK' /\ op'.step = "idle"
           /\ tfstate.id = op.id /\ tfstate'.id = op.id
  <1>1. op.step = "updateWait" /\ UNCHANGED cloud
    BY DEF AwaitUpdate
  <1>2. op.id \in Ids /\ op.resp.id = op.id /\ tfstate.id = op.id
    BY <1>1 DEF IInv, RunShape
  <1>3. PICK state, result :
          /\ Finish(state, result)
          /\ state = op.resp \/ state = SetFrom(PlanModel, op.id, TRUE, FALSE)
    BY DEF AwaitUpdate
  <1>4. state.id = op.id
    <2>1. CASE state = op.resp
      BY <1>2, <2>1
    <2>2. CASE state = SetFrom(PlanModel, op.id, TRUE, FALSE)
      BY <2>2 DEF SetFrom
    <2> QED
      BY <1>3, <2>1, <2>2
  <1> QED
    BY <1>1, <1>2, <1>3, <1>4, FinishIsIdle

\* The object in the state exists.
LEMMA HeldExists ==
    ASSUME IInv, tfstate.id \in Ids
    PROVE  tfstate # NoState /\ cloud[tfstate.id].status # "UNUSED"
  BY HeldIsState DEF IInv, TrackedExist, Tracks

LEMMA AwaitUpdatePreserves == IInv /\ AwaitUpdate => IInv'
  <1> SUFFICES ASSUME IInv, AwaitUpdate PROVE IInv'
    OBVIOUS
  <1>1. op.id \in Ids /\ tfstate.id = op.id /\ tfstate'.id = op.id
    BY AwaitUpdateEnds
  <1>2. cloud[op.id].status # "UNUSED"
    BY <1>1, HeldExists
  <1>3. CloudOK' /\ Grown /\ OpOK' /\ op'.step = "idle"
    BY AwaitUpdateEnds, SameObjects
  <1> QED
    BY <1>1, <1>2, <1>3, OverPreserves

\* What a finished deletion leads to.
LEMMA DeletedPreserves ==
    ASSUME IInv, UNCHANGED cloud, Deleted, op.step \in {"delete", "deleteWait"}
    PROVE  /\ IInv'
           /\ tfstate' = NoState /\ op'.step \in {"idle", "create"}
  <1>1. CloudOK' /\ Grown /\ tfstate' = NoState
    BY SameObjects DEF Deleted
  <1>2. CASE op' = IdleOp("ok")
    BY <1>1, <1>2, IdleOpOK, OverPreserves
  <1>3. CASE op' = [op EXCEPT !.step = "create", !.id = NoId]
    <2>1. OpOK' /\ op'.step = "create"
      BY <1>3 DEF IInv, OpOK, Steps
    <2>2. RunShape' /\ Recorded'
      BY <1>1, <2>1 DEF RunShape, Recorded
    <2>3. TrackedExist'
      BY <1>1, <2>1 DEF TrackedExist, Tracks
    <2> QED
      BY <1>1, <2>1, <2>2, <2>3 DEF IInv
  <1> QED
    BY <1>2, <1>3 DEF Deleted

\* The API takes the deletion of an object it has.
LEMMA DeleteChanges ==
    ASSUME IInv, NEW i \in Ids, DeleteAccepted(i)
    PROVE  /\ CloudOK' /\ Grown
           /\ cloud[i].status \in Reported
           /\ cloud'[i].status \in {"DELETING", "GONE"}
           /\ \A j \in Ids \ {i} : cloud'[j] = cloud[j]
  <1>1. PICK st \in {"DELETING", "GONE"} :
          cloud' = [cloud EXCEPT ![i].status = st]
    BY DEF DeleteAccepted
  <1>2. st \in Statuses
    BY DEF Statuses, Reported
  <1>3. /\ CloudOK' /\ cloud'[i].status = st
        /\ \A j \in Ids \ {i} : cloud'[j] = cloud[j]
    BY <1>1, <1>2, StatusChanged DEF IInv
  <1> QED
    BY <1>3 DEF Grown, Reported, DeleteAccepted, Found

\* The ends of the request of a Delete.
LEMMA RequestDeleteEnds ==
    ASSUME IInv, RequestDelete
    PROVE  /\ op.step = "delete" /\ tfstate.id \in Ids
           /\ \/ ~Found(tfstate.id) /\ Deleted /\ UNCHANGED cloud
              \/ /\ UNCHANGED cloud \/ DeleteAccepted(tfstate.id)
                 /\ UNCHANGED tfstate /\ OpOK'
                 /\ \/ op'.step = "idle"
                    \/ op'.step = "deleteWait" /\ op'.id = tfstate.id
  <1>1. op.step = "delete" /\ tfstate.id \in Ids
    BY DEF RequestDelete, IInv, RunShape
  <1>2. Finish(tfstate, "error")
           => OpOK' /\ op'.step = "idle" /\ UNCHANGED tfstate
    BY FinishIsIdle
  <1>3. AwaitsDelete => OpOK' /\ op'.step = "deleteWait" /\ op'.id = tfstate.id
    BY <1>1 DEF AwaitsDelete, IInv, OpOK, Steps
  <1> QED
    BY <1>1, <1>2, <1>3 DEF RequestDelete

LEMMA RequestDeletePreserves == IInv /\ RequestDelete => IInv'
  <1> SUFFICES ASSUME IInv, RequestDelete PROVE IInv'
    OBVIOUS
  <1>1. op.step = "delete" /\ tfstate.id \in Ids
    BY RequestDeleteEnds
  <1>2. CASE Deleted /\ UNCHANGED cloud
    BY <1>1, <1>2, DeletedPreserves
  <1>3. CASE /\ UNCHANGED cloud \/ DeleteAccepted(tfstate.id)
             /\ UNCHANGED tfstate /\ OpOK'
             /\ \/ op'.step = "idle"
                \/ op'.step = "deleteWait" /\ op'.id = tfstate.id
    <2>1. CloudOK' /\ Grown
      BY <1>1, <1>3, SameObjects, DeleteChanges
    <2>2. CASE op'.step = "idle"
      BY <1>3, <2>1, <2>2, KeptPreserves
    <2>3. CASE op'.step = "deleteWait" /\ op'.id = tfstate.id
      <3>1. RunShape' /\ Recorded'
        BY <1>1, <1>3, <2>3 DEF IInv, RunShape, Recorded
      <3>2. TrackedExist'
        BY <1>1, <1>3, <2>1, <2>3 DEF IInv, TrackedExist, Tracks, Grown
      <3> QED
        BY <1>3, <2>1, <3>1, <3>2 DEF IInv
    <2> QED
      BY <1>3, <2>2, <2>3
  <1> QED
    BY <1>2, <1>3, RequestDeleteEnds

\* A wait for a deletion is done only when the API answers NotFound.
LEMMA AwaitDeleteEnds ==
    ASSUME IInv, AwaitDelete
    PROVE  /\ op.step = "deleteWait" /\ UNCHANGED cloud
           /\ tfstate.id \in Ids /\ op.id = tfstate.id
           /\ \/ ~Found(tfstate.id) /\ Deleted
              \/ UNCHANGED tfstate /\ OpOK' /\ op'.step = "idle"
  <1>1. /\ op.step = "deleteWait" /\ UNCHANGED cloud
        /\ tfstate.id \in Ids /\ op.id = tfstate.id
    BY DEF AwaitDelete, IInv, RunShape
  <1>2. Finish(tfstate, "error")
           => OpOK' /\ op'.step = "idle" /\ UNCHANGED tfstate
    BY FinishIsIdle
  <1>3. Verdict(DeletePending, DeleteTarget,
                IF Found(op.id) THEN cloud[op.id].status ELSE "NOT_FOUND") = "done"
           => ~Found(tfstate.id)
    BY <1>1 DEF Verdict, DeleteTarget, RefreshError, Found, Reported
  <1> QED
    BY <1>1, <1>2, <1>3 DEF AwaitDelete

LEMMA AwaitDeletePreserves == IInv /\ AwaitDelete => IInv'
  <1> SUFFICES ASSUME IInv, AwaitDelete PROVE IInv'
    OBVIOUS
  <1>1. op.step = "deleteWait" /\ UNCHANGED cloud
    BY AwaitDeleteEnds
  <1>2. CASE Deleted
    BY <1>1, <1>2, DeletedPreserves
  <1>3. CASE UNCHANGED tfstate /\ OpOK' /\ op'.step = "idle"
    BY <1>1, <1>3, SameObjects, KeptPreserves
  <1> QED
    BY <1>2, <1>3, AwaitDeleteEnds

LEMMA WaitFailsPreserves == IInv /\ WaitFails => IInv'
  <1> SUFFICES ASSUME IInv, WaitFails PROVE IInv'
    OBVIOUS
  <1>1. CloudOK' /\ Grown
    BY SameObjects DEF WaitFails
  <1>2. CASE op.step \in {"createWait", "updateWait"} /\ Finish(op.resp, "error")
    <2>1. /\ op.id \in Ids /\ op.resp.id = op.id
          /\ op.step = "updateWait" => op.id = tfstate.id
      BY <1>2 DEF IInv, RunShape
    <2>2. cloud[op.id].status # "UNUSED"
      BY <1>2, <2>1, HeldExists DEF IInv, TrackedExist, Tracks
    <2> QED
      BY <1>1, <1>2, <2>1, <2>2, FinishIsIdle, OverPreserves
  <1>3. CASE op.step = "deleteWait" /\ Finish(tfstate, "error")
    BY <1>1, <1>3, FinishIsIdle, KeptPreserves
  <1> QED
    BY <1>2, <1>3 DEF WaitFails

\* An import takes up an object the API has.
LEMMA ImportStateEnds ==
    ASSUME IInv, ImportState
    PROVE  /\ op.step = "idle" /\ tfstate = NoState /\ UNCHANGED cloud
           /\ OpOK' /\ op'.step = "idle"
           /\ tfstate'.id \in Ids /\ tfstate' # NoState /\ Found(tfstate'.id)
  <1>1. \E i \in Ids : Found(i) /\ tfstate'.id = i
    BY DEF ImportState, SetFrom
  <1>2. OpOK' /\ op'.step = "idle"
    BY IdleOpOK DEF ImportState
  <1> QED
    BY <1>1, <1>2, HeldIsState DEF ImportState

LEMMA ImportStatePreserves == IInv /\ ImportState => IInv'
  <1> SUFFICES ASSUME IInv, ImportState PROVE IInv'
    OBVIOUS
  <1>1. cloud[tfstate'.id].status # "UNUSED"
    BY ImportStateEnds DEF Found, Reported
  <1> QED
    BY <1>1, ImportStateEnds, SameObjects, OverPreserves

LEMMA CrashPreserves == IInv /\ Crash => IInv'
  <1> SUFFICES ASSUME IInv, Crash PROVE IInv'
    OBVIOUS
  <1> QED
    BY FinishIsIdle, SameObjects, KeptPreserves DEF Crash

-----------------------------------------------------------------------------
(* The API and its users *)

\* What they do to one object: it keeps its spec, but for an update elsewhere,
\* and it never comes back.
LEMMA StatusSteps ==
    ASSUME IInv, NEW i \in Ids, NEW from, NEW to \in Reported \cup {"GONE"},
           SetStatus(i, from, to), from \subseteq Reported
    PROVE  /\ CloudOK' /\ Grown
           /\ Found(i) /\ cloud'[i].status # "UNUSED"
           /\ cloud'[i].spec = cloud[i].spec
           /\ \A j \in Ids \ {i} : cloud'[j] = cloud[j]
  <1>1. to \in Statuses /\ to # "UNUSED"
    BY DEF Statuses, Reported
  <1>2. /\ CloudOK'
        /\ cloud'[i].status = to /\ cloud'[i].spec = cloud[i].spec
        /\ \A j \in Ids \ {i} : cloud'[j] = cloud[j]
    BY <1>1, StatusChanged DEF SetStatus, IInv
  <1> QED
    BY <1>1, <1>2 DEF Grown, SetStatus, Found, Reported

LEMMA ProgressSteps ==
    ASSUME IInv, NEW i \in Ids, Progress(i)
    PROVE  \E from, to : /\ to \in Reported \cup {"GONE"}
                         /\ SetStatus(i, from, to) /\ from \subseteq Reported
  BY DEF Progress, Reported

LEMMA StatusPreserves ==
    ASSUME IInv, NEW i \in Ids, NEW from, NEW to \in Reported \cup {"GONE"},
           SetStatus(i, from, to), from \subseteq Reported,
           UNCHANGED <<kind, tfstate, op>>
    PROVE  IInv'
  <1> QED
    BY StatusSteps, CloudPreserves

LEMMA OutOfBandUpdateChanges ==
    ASSUME IInv, NEW i \in Ids, OutOfBandUpdate(i)
    PROVE  /\ CloudOK' /\ Grown /\ UNCHANGED <<kind, tfstate, op>>
           /\ Found(i) /\ cloud'[i].status # "UNUSED"
           /\ \A j \in Ids \ {i} : cloud'[j] = cloud[j]
  <1>1. PICK spec :
          cloud' = [cloud EXCEPT ![i] = [status |-> "UPDATING", spec |-> spec]]
    <2>1. PICK plan :
            cloud' = [cloud EXCEPT
                        ![i] = [status |-> "UPDATING",
                                spec |-> ChangedElsewhere(cloud[i].spec, plan)]]
      BY DEF OutOfBandUpdate
    <2> QED
      BY <2>1
  <1>2. "UPDATING" \in Statuses
    BY DEF Statuses, Reported
  <1>3. /\ CloudOK' /\ cloud'[i].status = "UPDATING"
        /\ \A j \in Ids \ {i} : cloud'[j] = cloud[j]
    BY <1>1, <1>2, ObjectChanged DEF IInv
  <1>4. cloud[i].status \in TakesUpdates /\ UNCHANGED <<kind, tfstate, op>>
    BY DEF OutOfBandUpdate
  <1> QED
    BY <1>3, <1>4 DEF Grown, Found, Reported, TakesUpdates

\* The steps that leave the objects, the state and the run alone.
Unmoved ==
    /\ UNCHANGED <<kind, cloud, tfstate, op>>
    /\ \/ UNCHANGED config
       \/ op.step = "idle" /\ config' \in Configs[kind] \cup {NoConfig}

LEMMA UnmovedPreserves == IInv /\ Unmoved => IInv'
  <1> SUFFICES ASSUME IInv, Unmoved PROVE IInv'
    OBVIOUS
  <1> QED
    BY SameObjects, CloudPreserves DEF Unmoved

Environment ==
    \/ \E i \in Ids : \/ Progress(i) \/ RolloutFails(i)
                      \/ OutOfBandUpdate(i) \/ OutOfBandDelete(i)
    \/ Unmoved

\* Each step of the API and its users is one of three.
LEMMA EnvironmentSteps ==
    ASSUME IInv, Environment
    PROVE  /\ UNCHANGED <<kind, tfstate, op>>
           /\ \/ \E i \in Ids : \E from, to :
                    /\ to \in Reported \cup {"GONE"}
                    /\ SetStatus(i, from, to) /\ from \subseteq Reported
              \/ \E i \in Ids : OutOfBandUpdate(i)
              \/ Unmoved
  <1>1. ASSUME NEW i \in Ids, RolloutFails(i)
        PROVE  \E from, to : /\ to \in Reported \cup {"GONE"}
                             /\ SetStatus(i, from, to) /\ from \subseteq Reported
    BY <1>1 DEF RolloutFails, Reported
  <1>2. ASSUME NEW i \in Ids, OutOfBandDelete(i)
        PROVE  \E from, to : /\ to \in Reported \cup {"GONE"}
                             /\ SetStatus(i, from, to) /\ from \subseteq Reported
    BY <1>2 DEF OutOfBandDelete, Reported
  <1>3. UNCHANGED <<kind, tfstate, op>>
    BY DEF Environment, Unmoved, Progress, RolloutFails, OutOfBandUpdate,
       OutOfBandDelete
  <1>4. CASE Unmoved
    BY <1>3, <1>4
  <1>5. ASSUME NEW i \in Ids,
               \/ Progress(i) \/ RolloutFails(i)
               \/ OutOfBandUpdate(i) \/ OutOfBandDelete(i)
        PROVE  \/ \E from, to : /\ to \in Reported \cup {"GONE"}
                                /\ SetStatus(i, from, to)
                                /\ from \subseteq Reported
               \/ OutOfBandUpdate(i)
    BY <1>1, <1>2, <1>5, ProgressSteps
  <1> QED
    BY <1>3, <1>4, <1>5 DEF Environment

LEMMA EnvironmentPreserves == IInv /\ Environment => IInv'
  <1> SUFFICES ASSUME IInv, Environment PROVE IInv'
    OBVIOUS
  <1>1. ASSUME NEW i \in Ids, NEW from, NEW to,
               to \in Reported \cup {"GONE"}, SetStatus(i, from, to),
               from \subseteq Reported
        PROVE  IInv'
    BY <1>1, EnvironmentSteps, StatusPreserves
  <1>2. ASSUME NEW i \in Ids, OutOfBandUpdate(i) PROVE IInv'
    BY <1>2, OutOfBandUpdateChanges, CloudPreserves
  <1>3. CASE Unmoved
    BY <1>3, UnmovedPreserves
  <1> QED
    BY <1>1, <1>2, <1>3, EnvironmentSteps

-----------------------------------------------------------------------------
(* The invariant *)

\* The actions of the five resources, without their names.
LEMMA NextCases ==
    ASSUME [Next]_vars
    PROVE  \/ Refresh \/ Plan \/ WaitFails \/ ImportState \/ Crash
           \/ UNCHANGED <<kind, config>> /\ RequestCreate
           \/ UNCHANGED <<kind, config>> /\ AwaitCreate
           \/ UNCHANGED <<kind, config>> /\ RequestUpdate
           \/ UNCHANGED <<kind, config>> /\ AwaitUpdate
           \/ UNCHANGED <<kind, config>> /\ RequestDelete
           \/ UNCHANGED <<kind, config>> /\ AwaitDelete
           \/ Environment
  <1>1. Reads => Refresh
    BY DEF Reads, ClusterRead, VpcRead, DeploymentRead, GatewayRead, ClaimRead
  <1>2. Creates => \/ UNCHANGED <<kind, config>> /\ RequestCreate
                   \/ UNCHANGED <<kind, config>> /\ AwaitCreate
    BY DEF Creates, ClusterCreate, VpcCreate, DeploymentCreate, GatewayCreate,
       ClaimCreate, Create
  <1>3. Updates => \/ UNCHANGED <<kind, config>> /\ RequestUpdate
                   \/ UNCHANGED <<kind, config>> /\ AwaitUpdate
    BY DEF Updates, ClusterUpdate, VpcUpdate, DeploymentUpdate, GatewayUpdate,
       ClaimUpdate, Update
  <1>4. Deletes => \/ UNCHANGED <<kind, config>> /\ RequestDelete
                   \/ UNCHANGED <<kind, config>> /\ AwaitDelete
    BY DEF Deletes, ClusterDelete, VpcDelete, DeploymentDelete, GatewayDelete,
       ClaimDelete, Delete
  <1>5. EditConfig \/ EnginesChange \/ UNCHANGED vars => Unmoved
    BY DEF EditConfig, EnginesChange, vars, Unmoved
  <1>6. Next \/ UNCHANGED vars
    OBVIOUS
  <1> QED
    BY <1>1, <1>2, <1>3, <1>4, <1>5, <1>6 DEF Next, Environment

LEMMA InitEstablishes == Init => IInv
  <1> SUFFICES ASSUME Init PROVE IInv
    OBVIOUS
  <1>1. CloudOK /\ \A i \in Ids : cloud[i].status = "UNUSED"
    BY DEF Init, CloudOK, Unused, Statuses
  <1>2. OpOK /\ op.step = "idle" /\ tfstate = NoState
    BY DEF Init, OpOK, IdleOp, Steps
  <1> QED
    BY <1>1, <1>2 DEF IInv, RunShape, TrackedExist, Tracks, Recorded

LEMMA NextPreserves == IInv /\ [Next]_vars => IInv'
  <1> SUFFICES ASSUME IInv, [Next]_vars PROVE IInv'
    OBVIOUS
  <1> QED
    BY NextCases, RefreshPreserves, PlanPreserves, RequestCreatePreserves,
       AwaitCreatePreserves, RequestUpdatePreserves, AwaitUpdatePreserves,
       RequestDeletePreserves, AwaitDeletePreserves, WaitFailsPreserves,
       ImportStatePreserves, CrashPreserves, EnvironmentPreserves

\* In every behaviour of each of the five resources, what the run in flight is
\* about, what the state says and what the API has agree as IInv says.
THEOREM Invariance == Spec => []IInv
  <1> QED
    BY InitEstablishes, NextPreserves, PTL DEF Spec

-----------------------------------------------------------------------------
(* The refinement *)

AbstractStep == [Ownership!Next]_(Ownership!ownershipVars)

LEMMA QuietStep ==
    ASSUME Born' = Born, Alive' = Alive, Held' = Held, Unsaved' = Unsaved
    PROVE  AbstractStep
  BY DEF AbstractStep, Ownership!ownershipVars

LEMMA SameCloud ==
    ASSUME UNCHANGED cloud
    PROVE  Born' = Born /\ Alive' = Alive
  BY DEF Born, Alive, Found

\* Terraform holds what it held, in two steps that are not of a Create's wait.
LEMMA SameHeld ==
    ASSUME IInv, op.step # "createWait", op'.step # "createWait",
           \/ UNCHANGED tfstate
           \/ tfstate.id \in Ids /\ tfstate'.id = tfstate.id
    PROVE  Held' = Held /\ Unsaved' = Unsaved
  <1>1. CASE UNCHANGED tfstate
    BY <1>1 DEF Held, Unsaved, Tracks
  <1>2. CASE tfstate.id \in Ids /\ tfstate'.id = tfstate.id
    <2>1. tfstate # NoState /\ tfstate' # NoState
      BY <1>2, HeldIsState
    <2> QED
      BY <1>2, <2>1 DEF Held, Unsaved, Tracks
  <1> QED
    BY <1>1, <1>2

\* An object the API has changes, and perhaps dies.
LEMMA OneObject ==
    ASSUME NEW i \in Ids, Held' = Held, Unsaved' = Unsaved,
           \A j \in Ids \ {i} : cloud'[j] = cloud[j],
           Found(i), cloud'[i].status # "UNUSED"
    PROVE  AbstractStep
  <1>1. \A j \in Ids \ {i} : Found(j)' <=> Found(j)
    BY DEF Found
  <1>2. cloud[i].status # "UNUSED"
    BY DEF Found, Reported
  <1>3. Born' = Born
    BY <1>2 DEF Born
  <1>4. CASE Found(i)'
    BY <1>1, <1>3, <1>4, QuietStep DEF Alive
  <1>5. CASE ~Found(i)'
    <2>1. Alive' = Alive \ {i}
      BY <1>1, <1>5 DEF Alive
    <2> QED
      BY <1>3, <2>1 DEF AbstractStep, Ownership!Next, Ownership!Die
  <1> QED
    BY <1>4, <1>5

\* Terraform forgets the object in its state, which the API has no more.
LEMMA ReleaseStep ==
    ASSUME UNCHANGED cloud, tfstate.id \in Ids, tfstate' = NoState,
           op.step # "createWait", op'.step # "createWait",
           ~Found(tfstate.id)
    PROVE  AbstractStep
  <1> DEFINE i == tfstate.id
  <1>1. tfstate # NoState
    BY HeldIsState
  <1>2. /\ Held = {i} /\ Held' = {} /\ Unsaved = {} /\ Unsaved' = {}
        /\ i \notin Alive
    BY <1>1 DEF Held, Unsaved, Tracks, Alive
  <1>3. Born' = Born /\ Alive' = Alive
    BY SameCloud
  <1> QED
    BY <1>2, <1>3 DEF AbstractStep, Ownership!Next, Ownership!Release

\* A Create returns the object it waited for.
LEMMA SaveStep ==
    ASSUME IInv, UNCHANGED cloud, op.step = "createWait",
           op'.step = "idle", tfstate' # NoState, tfstate'.id = op.id
    PROVE  AbstractStep
  <1>1. op.id \in Ids /\ tfstate = NoState
    BY DEF IInv, RunShape
  <1>2. /\ Held = {op.id} /\ Held' = {op.id}
        /\ Unsaved = {op.id} /\ Unsaved' = {}
    BY <1>1 DEF Held, Unsaved, Tracks
  <1>3. Born' = Born /\ Alive' = Alive
    BY SameCloud
  <1> QED
    BY <1>1, <1>2, <1>3 DEF AbstractStep, Ownership!Next, Ownership!Save

LEMMA RefreshRefines == IInv /\ Refresh => AbstractStep
  <1> SUFFICES ASSUME IInv, Refresh PROVE AbstractStep
    OBVIOUS
  <1>1. /\ op.step = "idle" /\ op'.step = "refreshed" /\ UNCHANGED cloud
    BY DEF Refresh, IdleOp
  <1>2. CASE tfstate = NoState
    <2>1. tfstate' = tfstate
      BY <1>2 DEF Refresh
    <2> QED
      BY <1>1, <2>1, SameCloud, SameHeld, QuietStep
  <1>3. CASE tfstate # NoState /\ ~Found(tfstate.id)
    <2>1. tfstate' = NoState /\ tfstate.id \in Ids
      BY <1>3 DEF Refresh, IInv, RunShape
    <2> QED
      BY <1>1, <1>3, <2>1, ReleaseStep
  <1>4. CASE tfstate # NoState /\ Found(tfstate.id)
    <2>1. tfstate'.id = tfstate.id
      BY <1>4 DEF Refresh, SetFrom
    <2>2. tfstate.id \in Ids
      BY <1>4 DEF IInv, RunShape
    <2> QED
      BY <1>1, <2>1, <2>2, SameCloud, SameHeld, QuietStep
  <1> QED
    BY <1>2, <1>3, <1>4

LEMMA PlanRefines == IInv /\ Plan => AbstractStep
  <1> SUFFICES ASSUME IInv, Plan PROVE AbstractStep
    OBVIOUS
  <1>1. UNCHANGED <<cloud, tfstate>> /\ op.step # "createWait"
        /\ op'.step # "createWait"
    BY PlanStarts
  <1> QED
    BY <1>1, SameCloud, SameHeld, QuietStep

LEMMA RequestCreateRefines == IInv /\ RequestCreate => AbstractStep
  <1> SUFFICES ASSUME IInv, RequestCreate PROVE AbstractStep
    OBVIOUS
  <1>1. op.step = "create" /\ tfstate = NoState /\ UNCHANGED tfstate
    BY RequestCreateEnds
  <1>2. ASSUME NEW i \in Ids, CreateAccepted(i, op.plan)
        PROVE  /\ i \notin Born /\ Born' = Born \cup {i}
               /\ Alive' = Alive \cup {i}
    <2>1. /\ cloud[i].status = "UNUSED"
          /\ cloud'[i].status \in {"UNSPECIFIED", "CREATING"}
          /\ \A j \in Ids \ {i} : cloud'[j] = cloud[j]
      BY <1>2, CreateChanges
    <2> QED
      BY <2>1 DEF Born, Alive, Found, Reported
  <1>3. ASSUME UNCHANGED cloud, op'.step = "idle" PROVE AbstractStep
    BY <1>1, <1>3, SameCloud, SameHeld, QuietStep
  <1>4. ASSUME NEW i \in Ids, CreateAccepted(i, op.plan), op'.step = "idle"
        PROVE  AbstractStep
    <2>1. Held' = Held /\ Unsaved' = Unsaved
      BY <1>1, <1>4, SameHeld
    <2>2. Ownership!Appear(i)
      BY <1>2, <1>4, <2>1 DEF Ownership!Appear
    <2> QED
      BY <2>2 DEF AbstractStep, Ownership!Next
  <1>5. ASSUME NEW i \in Ids, CreateAccepted(i, op.plan),
               op'.step = "createWait", op'.id = i
        PROVE  AbstractStep
    <2>1. Held = {} /\ Held' = {i} /\ Unsaved = {} /\ Unsaved' = {i}
      BY <1>1, <1>5 DEF Held, Unsaved, Tracks
    <2>2. Ownership!Acquire(i)
      BY <1>2, <1>5, <2>1 DEF Ownership!Acquire
    <2> QED
      BY <2>2 DEF AbstractStep, Ownership!Next
  <1> QED
    BY <1>3, <1>4, <1>5, RequestCreateEnds

LEMMA AwaitCreateRefines == IInv /\ AwaitCreate => AbstractStep
  <1> SUFFICES ASSUME IInv, AwaitCreate PROVE AbstractStep
    OBVIOUS
  <1> QED
    BY AwaitCreateEnds, SaveStep

LEMMA RequestUpdateRefines == IInv /\ RequestUpdate => AbstractStep
  <1> SUFFICES ASSUME IInv, RequestUpdate PROVE AbstractStep
    OBVIOUS
  <1>1. /\ op.step = "update" /\ op'.step \in {"idle", "updateWait"}
        /\ tfstate.id \in Ids /\ UNCHANGED tfstate
        /\ UNCHANGED cloud \/ UpdateAccepted(tfstate.id)
    BY RequestUpdateEnds
  <1>2. Held' = Held /\ Unsaved' = Unsaved
    BY <1>1, SameHeld
  <1>3. CASE UNCHANGED cloud
    BY <1>2, <1>3, SameCloud, QuietStep
  <1>4. CASE UpdateAccepted(tfstate.id)
    <2>1. /\ \A j \in Ids \ {tfstate.id} : cloud'[j] = cloud[j]
          /\ Found(tfstate.id) /\ cloud'[tfstate.id].status # "UNUSED"
      BY <1>1, <1>4, UpdateChanges DEF Found, Reported
    <2> QED
      BY <1>1, <1>2, <2>1, OneObject
  <1> QED
    BY <1>1, <1>3, <1>4

LEMMA AwaitUpdateRefines == IInv /\ AwaitUpdate => AbstractStep
  <1> SUFFICES ASSUME IInv, AwaitUpdate PROVE AbstractStep
    OBVIOUS
  <1>1. Held' = Held /\ Unsaved' = Unsaved
    BY AwaitUpdateEnds, SameHeld
  <1> QED
    BY <1>1, AwaitUpdateEnds, SameCloud, QuietStep

LEMMA DeletedRefines ==
    ASSUME IInv, UNCHANGED cloud, Deleted, tfstate.id \in Ids,
           op.step \in {"delete", "deleteWait"}, ~Found(tfstate.id)
    PROVE  AbstractStep
  <1>1. tfstate' = NoState /\ op'.step \in {"idle", "create"}
    BY DeletedPreserves
  <1> QED
    BY <1>1, ReleaseStep

LEMMA RequestDeleteRefines == IInv /\ RequestDelete => AbstractStep
  <1> SUFFICES ASSUME IInv, RequestDelete PROVE AbstractStep
    OBVIOUS
  <1>1. op.step = "delete" /\ tfstate.id \in Ids
    BY RequestDeleteEnds
  <1>2. CASE ~Found(tfstate.id) /\ Deleted /\ UNCHANGED cloud
    BY <1>1, <1>2, DeletedRefines
  <1>3. CASE /\ UNCHANGED cloud \/ DeleteAccepted(tfstate.id)
             /\ UNCHANGED tfstate /\ op'.step # "createWait"
    <2>1. Held' = Held /\ Unsaved' = Unsaved
      BY <1>1, <1>3, SameHeld
    <2>2. CASE UNCHANGED cloud
      BY <2>1, <2>2, SameCloud, QuietStep
    <2>3. CASE DeleteAccepted(tfstate.id)
      <3>1. /\ \A j \in Ids \ {tfstate.id} : cloud'[j] = cloud[j]
            /\ Found(tfstate.id) /\ cloud'[tfstate.id].status # "UNUSED"
        BY <1>1, <2>3, DeleteChanges DEF Found
      <3> QED
        BY <1>1, <2>1, <3>1, OneObject
    <2> QED
      BY <1>3, <2>2, <2>3
  <1> QED
    BY <1>2, <1>3, RequestDeleteEnds

LEMMA AwaitDeleteRefines == IInv /\ AwaitDelete => AbstractStep
  <1> SUFFICES ASSUME IInv, AwaitDelete PROVE AbstractStep
    OBVIOUS
  <1>1. op.step = "deleteWait" /\ UNCHANGED cloud /\ tfstate.id \in Ids
    BY AwaitDeleteEnds
  <1>2. CASE ~Found(tfstate.id) /\ Deleted
    BY <1>1, <1>2, DeletedRefines
  <1>3. CASE UNCHANGED tfstate /\ op'.step = "idle"
    BY <1>1, <1>3, SameCloud, SameHeld, QuietStep
  <1> QED
    BY <1>2, <1>3, AwaitDeleteEnds

LEMMA WaitFailsRefines == IInv /\ WaitFails => AbstractStep
  <1> SUFFICES ASSUME IInv, WaitFails PROVE AbstractStep
    OBVIOUS
  <1>1. UNCHANGED cloud
    BY DEF WaitFails
  <1>2. CASE op.step = "createWait" /\ Finish(op.resp, "error")
    <2>1. op.id \in Ids /\ op.resp.id = op.id
      BY <1>2 DEF IInv, RunShape
    <2>2. op'.step = "idle" /\ tfstate' = op.resp
      BY <1>2, FinishIsIdle
    <2> QED
      BY <1>1, <1>2, <2>1, <2>2, HeldIsState, SaveStep
  <1>3. CASE op.step = "updateWait" /\ Finish(op.resp, "error")
    <2>1. tfstate.id \in Ids /\ op.resp.id = tfstate.id
      BY <1>3 DEF IInv, RunShape
    <2>2. op'.step = "idle" /\ tfstate' = op.resp
      BY <1>3, FinishIsIdle
    <2> QED
      BY <1>1, <1>3, <2>1, <2>2, SameCloud, SameHeld, QuietStep
  <1>4. CASE op.step = "deleteWait" /\ Finish(tfstate, "error")
    BY <1>1, <1>4, FinishIsIdle, SameCloud, SameHeld, QuietStep
  <1> QED
    BY <1>2, <1>3, <1>4 DEF WaitFails

LEMMA ImportStateRefines == IInv /\ ImportState => AbstractStep
  <1> SUFFICES ASSUME IInv, ImportState PROVE AbstractStep
    OBVIOUS
  <1> DEFINE i == tfstate'.id
  <1>1. /\ op.step = "idle" /\ op'.step = "idle" /\ tfstate = NoState
        /\ tfstate' # NoState /\ i \in Ids /\ Found(i) /\ UNCHANGED cloud
    BY ImportStateEnds
  <1>2. Held = {} /\ Held' = {i} /\ Unsaved' = Unsaved
    BY <1>1 DEF Held, Unsaved, Tracks
  <1>3. i \in Born
    BY <1>1 DEF Found, Reported, Born
  <1>4. Ownership!Adopt(i)
    BY <1>1, <1>2, <1>3, SameCloud DEF Ownership!Adopt
  <1> QED
    BY <1>1, <1>4 DEF AbstractStep, Ownership!Next

LEMMA CrashRefines == IInv /\ Crash => AbstractStep
  <1> SUFFICES ASSUME IInv, Crash PROVE AbstractStep
    OBVIOUS
  <1>1. UNCHANGED <<cloud, tfstate>> /\ op'.step = "idle"
    BY FinishIsIdle DEF Crash
  <1>2. op.step = "createWait" => tfstate = NoState
    BY DEF IInv, RunShape
  <1>3. Held' = Held \ Unsaved /\ Unsaved' = {}
    BY <1>1, <1>2 DEF Held, Unsaved, Tracks
  <1>4. Ownership!Crash
    BY <1>1, <1>3, SameCloud DEF Ownership!Crash
  <1> QED
    BY <1>4 DEF AbstractStep, Ownership!Next

LEMMA EnvironmentRefines == IInv /\ Environment => AbstractStep
  <1> SUFFICES ASSUME IInv, Environment PROVE AbstractStep
    OBVIOUS
  <1>1. Held' = Held /\ Unsaved' = Unsaved
    BY EnvironmentSteps DEF Held, Unsaved, Tracks
  <1>2. ASSUME NEW i \in Ids, NEW from, NEW to,
               to \in Reported \cup {"GONE"}, SetStatus(i, from, to),
               from \subseteq Reported
        PROVE  AbstractStep
    BY <1>1, <1>2, StatusSteps, OneObject
  <1>3. ASSUME NEW i \in Ids, OutOfBandUpdate(i) PROVE AbstractStep
    BY <1>1, <1>3, OutOfBandUpdateChanges, OneObject
  <1>4. CASE Unmoved
    BY <1>1, <1>4, SameCloud, QuietStep DEF Unmoved
  <1> QED
    BY <1>2, <1>3, <1>4, EnvironmentSteps

LEMMA InitRefines == Init => Ownership!Init
  BY DEF Init, Ownership!Init, Born, Alive, Held, Unsaved, Found, Tracks,
     Reported, Unused, IdleOp

LEMMA NextRefines == IInv /\ [Next]_vars => AbstractStep
  <1> SUFFICES ASSUME IInv, [Next]_vars PROVE AbstractStep
    OBVIOUS
  <1> QED
    BY NextCases, RefreshRefines, PlanRefines, RequestCreateRefines,
       AwaitCreateRefines, RequestUpdateRefines, AwaitUpdateRefines,
       RequestDeleteRefines, AwaitDeleteRefines, WaitFailsRefines,
       ImportStateRefines, CrashRefines, EnvironmentRefines

\* Each of the five resources implements ObjectOwnership: what a cluster, a
\* VPC, a deployment, a gateway or a claim creates, saves, deletes, forgets and
\* loses is always one of that specification's steps, or none.
THEOREM Implementation == Spec => ImplementsOwnership
  <1>1. IInv /\ [Next]_vars => [Ownership!Next]_(Ownership!ownershipVars)
    BY NextRefines DEF AbstractStep
  <1> QED
    BY <1>1, InitRefines, Invariance, PTL DEF Spec, ImplementsOwnership,
       Ownership!Spec

-----------------------------------------------------------------------------
(* What an accepted update leaves behind *)

\* A step out of a wait of an Update that ends in an error returns the answer
\* the handler had set before it waited.
LEMMA UpdateWaitError ==
    ASSUME IInv, [Next]_vars, op.step = "updateWait", op'.result = "error"
    PROVE  tfstate' = op.resp
  <1>1. op.result = "none"
    BY DEF IInv, OpOK
  <1>2. ~Environment
    BY <1>1, EnvironmentSteps
  <1>3. ~Crash
    BY FinishIsIdle DEF Crash
  <1>4. CASE AwaitUpdate
    <2>1. ASSUME NEW state, Finish(state, ApplyResult(state)) PROVE FALSE
      BY <2>1, FinishIsIdle DEF ApplyResult
    <2> QED
      BY <1>4, <2>1, FinishIsIdle DEF AwaitUpdate
  <1>5. CASE WaitFails
    BY <1>5, FinishIsIdle DEF WaitFails
  <1> QED
    BY <1>2, <1>3, <1>4, <1>5, NextCases DEF Refresh, Plan, ImportState,
       RequestCreate, AwaitCreate, RequestUpdate, RequestDelete, AwaitDelete

\* An update of an inference resource that the API has accepted and whose wait
\* fails is in Terraform's state, as the API accepted it, whatever else has
\* happened to the object since.
THEOREM UpdateIsRecorded == Spec => AcceptedUpdateRecorded
  <1>1. IInv /\ [Next]_vars =>
          [op.step = "updateWait" /\ op'.result = "error"
             /\ kind \notin {"cluster", "vpc"}
             => tfstate'.model = ModelSet(op.plan, op.accepted)]_vars
    BY UpdateWaitError DEF IInv, Recorded
  <1> QED
    BY <1>1, Invariance, PTL DEF Spec, AcceptedUpdateRecorded

-----------------------------------------------------------------------------
(* What the API's objects are, and how their states show them: per kind.    *)

\* The records that gateways may be given.
Records == UNION {OrZero(c.additional_dns, {}) : c \in Configs["gateway"]}

\* An object has the attributes of its kind, and no others.
Complete(spec) == spec = [a \in DOMAIN EmptyModel |-> spec[a]]

SpecOK(spec) ==
    /\ Complete(spec)
    /\ kind = "cluster" => ClusterSpecOK(spec)
    /\ kind = "vpc" => VpcSpecOK(spec)
    /\ kind = "deployment" => DeploymentSpecOK(spec)
    /\ kind = "gateway" => GatewaySpecOK(spec, Records)
    /\ kind = "claim" => ClaimSpecOK(spec)

\* What a model that was set from an object keeps telling of it, and what the
\* next plan takes from the model.
Shows(model, spec) ==
    /\ kind = "cluster" /\ model.shared_storage # Null
          => spec.shared_storage = model.shared_storage
    /\ kind = "vpc"
          => /\ model.zone = spec.zone /\ model.host_prefix = spec.host_prefix
             /\ model.host_prefixes = IF spec.host_prefixes = {} THEN Null
                                      ELSE spec.host_prefixes
    /\ kind = "deployment" => DeploymentPriorOK(model)
    /\ kind = "claim" => /\ model.name = spec.name
                         /\ model.resources = spec.resources

LEMMA KindCases ==
    ASSUME kind \in Kinds
    PROVE  kind \in AllKinds
  BY KindAssumption

LEMMA ConfigCases ==
    ASSUME kind \in Kinds, NEW c \in Configs[kind]
    PROVE  /\ c # NoConfig
           /\ kind = "cluster" => ClusterWellFormed(c)
           /\ kind = "vpc" => VpcWellFormed(c)
           /\ kind = "deployment" => DeploymentWellFormed(c)
           /\ kind = "gateway" => GatewayWellFormed(c)
           /\ kind = "claim" => ClaimWellFormed(c)
  BY ConfigAssumption

LEMMA RecordsKnown ==
    ASSUME kind \in Kinds, kind = "gateway"
    PROVE  /\ \A r \in SUBSET Records : IsKnown(r)
           /\ \A c \in Configs[kind] :
                 OrZero(c.additional_dns, {}) \in SUBSET Records
  BY RecordsAssumption DEF Records

\* A plan over nothing that is known.
LEMMA FreshPlans ==
    ASSUME NEW c
    PROVE  \E prior :
              /\ FreshPlan(c) = Planned(prior, c)
              /\ kind = "cluster" => prior.node_ports = Unknown
              /\ kind = "vpc" => /\ prior.host_prefix = Unknown
                                 /\ prior.host_prefixes = Unknown
              /\ kind = "deployment" => DeploymentPriorOK(prior)
  <1> DEFINE prior == [a \in DOMAIN EmptyModel |-> Unknown]
  <1>1. FreshPlan(c) = Planned(prior, c)
    BY DEF FreshPlan
  <1>2. CASE kind = "cluster"
    <2>1. prior.node_ports = Unknown
      BY <1>2 DEF EmptyModel, EmptyCluster
    <2> QED
      BY <1>1, <1>2, <2>1
  <1>3. CASE kind = "vpc"
    <2>1. prior.host_prefix = Unknown /\ prior.host_prefixes = Unknown
      BY <1>3 DEF EmptyModel, EmptyVpc, VpcFields
    <2> QED
      BY <1>1, <1>3, <2>1
  <1>4. CASE kind = "deployment"
    <2>1. prior.version = Unknown /\ prior.weight = Unknown
      BY <1>4 DEF EmptyModel, EmptyDeployment
    <2> HIDE DEF prior
    <2>2. DeploymentPriorOK(prior)
      BY <2>1, NullAssumption, ZeroAssumption DEF DeploymentPriorOK
    <2> QED
      BY <1>1, <1>4, <2>2
  <1> QED
    BY <1>1, <1>2, <1>3, <1>4

\* Two complete objects with the same attributes are the same.
LEMMA SameSpec ==
    ASSUME NEW s, Complete(s), NEW t, Complete(t),
           \A a \in DOMAIN s : t[a] = s[a]
    PROVE  s = t
  <1> DEFINE D == DOMAIN EmptyModel
  <1>1. s = [a \in D |-> s[a]] /\ t = [a \in D |-> t[a]]
    BY DEF Complete
  <1> HIDE DEF D
  <1>2. DOMAIN s = D
    BY <1>1
  <1>3. [a \in D |-> s[a]] = [a \in D |-> t[a]]
    BY <1>2
  <1> QED
    BY <1>1, <1>3

LEMMA TypedIsComplete ==
    ASSUME NEW spec,
           \/ kind = "cluster" /\ ClusterSpecOK(spec)
           \/ kind = "vpc" /\ VpcSpecOK(spec)
           \/ kind = "claim" /\ ClaimSpecOK(spec)
    PROVE  Complete(spec)
  <1>1. CASE kind = "cluster"
    BY <1>1 DEF Complete, ClusterSpecOK, ClusterFields, EmptyModel, EmptyCluster
  <1>2. CASE kind = "vpc"
    BY <1>2 DEF Complete, VpcSpecOK, EmptyModel, EmptyVpc, VpcFields
  <1>3. CASE kind = "claim"
    BY <1>3 DEF Complete, ClaimSpecOK, EmptyModel, EmptyClaim
  <1> QED
    BY <1>1, <1>2, <1>3

LEMMA StoredIsComplete ==
    ASSUME NEW plan, NEW dns
    PROVE  /\ kind = "deployment"
                 => Complete(DeploymentStored(DeploymentRequest(plan)))
           /\ kind = "gateway"
                 => Complete(GatewayStored(GatewayCreateRequest(plan), dns))
  <1>1. ASSUME kind = "deployment"
        PROVE  Complete(DeploymentStored(DeploymentRequest(plan)))
    <2> DEFINE request == DeploymentRequest(plan)
               spec == DeploymentStored(request)
    <2>1. DOMAIN request = DOMAIN EmptyDeployment
      BY DEF DeploymentRequest, EmptyDeployment
    <2>2. request = [a \in DOMAIN request |-> request[a]]
      BY DEF DeploymentRequest
    <2>3. DOMAIN EmptyModel = DOMAIN EmptyDeployment
      BY <1>1 DEF EmptyModel
    <2> HIDE DEF request
    <2>4. spec = [a \in DOMAIN request |-> spec[a]]
      BY <2>2 DEF DeploymentStored
    <2> HIDE DEF spec
    <2> QED
      BY <2>1, <2>3, <2>4 DEF Complete, spec, request
  <1>2. ASSUME kind = "gateway"
        PROVE  Complete(GatewayStored(GatewayCreateRequest(plan), dns))
    <2> DEFINE request == GatewayCreateRequest(plan)
               spec == GatewayStored(request, dns)
    <2>1. DOMAIN request = DOMAIN EmptyGateway
      BY DEF GatewayCreateRequest, EmptyGateway
    <2>2. request = [a \in DOMAIN request |-> request[a]]
      BY DEF GatewayCreateRequest
    <2>3. DOMAIN EmptyModel = DOMAIN EmptyGateway
      BY <1>2 DEF EmptyModel
    <2> HIDE DEF request
    <2>4. spec = [a \in DOMAIN request |-> spec[a]]
      BY <2>2 DEF GatewayStored
    <2> HIDE DEF spec
    <2> QED
      BY <2>1, <2>3, <2>4 DEF Complete, spec, request
  <1> QED
    BY <1>1, <1>2

LEMMA CreatedIsSpec ==
    ASSUME kind \in Kinds, NEW c \in Configs[kind], ~Panics(FreshPlan(c))
    PROVE  SpecOK(Created(FreshPlan(c)))
  <1>1. PICK prior : /\ FreshPlan(c) = Planned(prior, c)
                     /\ kind = "deployment" => DeploymentPriorOK(prior)
    BY FreshPlans
  <1>2. CASE kind = "cluster"
    BY <1>1, <1>2, ConfigCases, ClusterRequestIsSpec, ClusterCreatedIsSpec,
       TypedIsComplete
      DEF SpecOK, Created, Planned
  <1>3. CASE kind = "vpc"
    BY <1>1, <1>3, ConfigCases, VpcCreatedIsSpec, TypedIsComplete
      DEF SpecOK, Created, Planned, Panics
  <1>4. CASE kind = "deployment"
    BY <1>1, <1>4, ConfigCases, DeploymentStoredIsSpec, StoredIsComplete
      DEF SpecOK, Created, Planned
  <1>5. CASE kind = "gateway"
    <2>1. {} \in SUBSET Records
      OBVIOUS
    <2> QED
      BY <1>1, <1>5, <2>1, ConfigCases, RecordsKnown, GatewayStoredIsSpec,
         StoredIsComplete
        DEF SpecOK, Created, Planned
  <1>6. CASE kind = "claim"
    BY <1>1, <1>6, ClaimCreatedIsSpec, TypedIsComplete
      DEF SpecOK, Created, Planned
  <1> QED
    BY <1>2, <1>3, <1>4, <1>5, <1>6, KindCases DEF AllKinds

\* An update makes an object again, which it would not change once more; and
\* what a state shows of the object stays.
LEMMA UpdatedIsSpec ==
    ASSUME kind \in Kinds, NEW c \in Configs[kind], NEW prior,
           kind = "deployment" => DeploymentPriorOK(prior),
           ~Panics(Planned(prior, c)), NEW spec, SpecOK(spec)
    PROVE  LET plan == Planned(prior, c)
               new == Updated(spec, plan, prior)
           IN /\ SpecOK(new) /\ Updated(new, plan, prior) = new
              /\ \A m : Shows(m, spec) => Shows(m, new)
  <1> DEFINE plan == Planned(prior, c)
             new == Updated(spec, plan, prior)
  <1>1. CASE kind = "cluster"
    <2> DEFINE r == ClusterCreateRequest(plan)
               changed == ChangedFields(plan, prior)
               request == [a \in changed |-> r[a]]
    <2>1. plan = ClusterPlan(prior, c) /\ ClusterWellFormed(c)
      BY <1>1, ConfigCases DEF Planned
    <2>2. ClusterSpecOK(r) /\ DOMAIN plan = ClusterFields
      BY <2>1, ClusterRequestIsSpec, ClusterPlanned
    <2> HIDE DEF r, plan
    <2>3. changed \in SUBSET (ClusterFields \ Immutable)
      BY <2>2 DEF ChangedFields, ClusterFields, Immutable
    <2> HIDE DEF changed
    <2>4. ClusterSpecOK(spec)
      BY <1>1 DEF SpecOK
    <2>5. /\ ClusterSpecOK(ClusterUpdated(spec, request))
          /\ ClusterUpdated(spec, request).shared_storage = spec.shared_storage
          /\ ClusterUpdated(ClusterUpdated(spec, request), request)
                = ClusterUpdated(spec, request)
      BY <2>2, <2>3, <2>4, ClusterUpdatedIsSpec
    <2>6. request = ClusterUpdateRequest(plan, prior)
      BY DEF ClusterUpdateRequest, changed, r
    <2> HIDE DEF request
    <2>7. \A s : Updated(s, plan, prior) = ClusterUpdated(s, request)
      BY <1>1, <2>6 DEF Updated
    <2> QED
      BY <1>1, <2>5, <2>7, TypedIsComplete DEF SpecOK, Shows, plan
  <1>2. CASE kind = "vpc"
    <2> DEFINE request == VpcUpdateRequest(plan)
    <2>1. plan = VpcPlan(prior, c) /\ VpcWellFormed(c) /\ ~VpcPlanPanics(plan)
      BY <1>2, ConfigCases DEF Planned, Panics
    <2>2. VpcSpecOK(spec)
      BY <1>2 DEF SpecOK
    <2> DEFINE made == VpcUpdated(spec, request)
    <2>3. /\ VpcSpecOK(made)
          /\ made.zone = spec.zone /\ made.host_prefix = spec.host_prefix
          /\ made.host_prefixes = spec.host_prefixes
          /\ VpcUpdated(made, request) = made
      BY <2>1, <2>2, VpcUpdatedIsSpec
    <2>4. \A s : Updated(s, plan, prior) = VpcUpdated(s, request)
      BY <1>2 DEF Updated
    <2> HIDE DEF plan, request
    <2> QED
      BY <1>2, <2>3, <2>4, TypedIsComplete DEF SpecOK, Shows, plan
  <1>3. CASE kind = "deployment"
    <2>1. plan = DeploymentPlan(prior, c) /\ DeploymentWellFormed(c)
      BY <1>3, ConfigCases DEF Planned
    <2>2. DeploymentSpecOK(DeploymentStored(DeploymentRequest(plan)))
      BY <1>3, <2>1, DeploymentStoredIsSpec
    <2> HIDE DEF plan
    <2>3. \A s : Updated(s, plan, prior)
                    = DeploymentStored(DeploymentRequest(plan))
      BY <1>3 DEF Updated
    <2> QED
      BY <1>3, <2>2, <2>3, StoredIsComplete DEF SpecOK, Shows, plan
  <1>4. CASE kind = "gateway"
    <2> DEFINE made(dns) == GatewayStored(GatewayCreateRequest(c), dns)
    <2>1. GatewayWellFormed(c) /\ plan = c
      BY <1>4, ConfigCases DEF Planned
    <2>2. spec.additional_dns \in SUBSET Records
      BY <1>4 DEF SpecOK, GatewaySpecOK
    <2>3. /\ GatewaySpecOK(made(spec.additional_dns), Records)
          /\ made(made(spec.additional_dns).additional_dns)
                = made(spec.additional_dns)
      BY <1>4, <2>1, <2>2, RecordsKnown, GatewayStoredIsSpec
    <2>4. \A s : Updated(s, c, prior) = made(s.additional_dns)
      BY <1>4 DEF Updated, GatewayUpdateRequest
    <2>5. Complete(made(spec.additional_dns))
      BY <1>4, StoredIsComplete
    <2> HIDE DEF made
    <2> QED
      BY <1>4, <2>1, <2>3, <2>4, <2>5 DEF SpecOK, Shows
  <1>5. CASE kind = "claim"
    <2>1. plan = c
      BY <1>5 DEF Planned
    <2>2. ClaimSpecOK(spec)
      BY <1>5 DEF SpecOK
    <2> DEFINE made == ClaimUpdated(spec, ClaimRequest(c))
    <2>3. /\ ClaimSpecOK(made)
          /\ made.name = spec.name /\ made.resources = spec.resources
          /\ ClaimUpdated(made, ClaimRequest(c)) = made
      BY <2>2, ClaimUpdatedIsSpec
    <2>4. \A s : Updated(s, c, prior) = ClaimUpdated(s, ClaimRequest(c))
      BY <1>5 DEF Updated
    <2> QED
      BY <1>5, <2>1, <2>3, <2>4, TypedIsComplete DEF SpecOK, Shows
  <1> QED
    BY <1>1, <1>2, <1>3, <1>4, <1>5, KindCases DEF AllKinds

\* And so does a change elsewhere.
LEMMA ChangedElsewhereIsSpec ==
    ASSUME kind \in Kinds, NEW c \in Configs[kind], ~Panics(FreshPlan(c)),
           NEW spec, SpecOK(spec)
    PROVE  LET new == ChangedElsewhere(spec, FreshPlan(c))
           IN SpecOK(new) /\ \A m : Shows(m, spec) => Shows(m, new)
  <1> DEFINE new == ChangedElsewhere(spec, FreshPlan(c))
  <1>1. PICK prior : /\ FreshPlan(c) = Planned(prior, c)
                     /\ kind = "deployment" => DeploymentPriorOK(prior)
    BY FreshPlans
  <1>2. CASE kind = "cluster"
    <2> DEFINE r == ClusterCreateRequest(FreshPlan(c))
               changed == DOMAIN spec \ Immutable
               made == ClusterUpdated(spec, [a \in changed |-> r[a]])
    <2>1. ClusterSpecOK(r)
      BY <1>1, <1>2, ConfigCases, ClusterRequestIsSpec DEF Planned
    <2>2. ClusterSpecOK(spec) /\ DOMAIN spec = ClusterFields
      BY <1>2 DEF SpecOK, ClusterSpecOK
    <2>3. changed \in SUBSET (ClusterFields \ Immutable)
      BY <2>2
    <2>4. new = made
      BY <1>2 DEF ChangedElsewhere
    <2> HIDE DEF r, changed
    <2>5. ClusterSpecOK(made) /\ made.shared_storage = spec.shared_storage
      BY <2>1, <2>2, <2>3, ClusterUpdatedIsSpec
    <2> QED
      BY <1>2, <2>4, <2>5, TypedIsComplete DEF SpecOK, Shows
  <1>3. CASE kind # "cluster"
    <2> DEFINE made(p) == Updated(spec, FreshPlan(c), p)
    <2>1. /\ SpecOK(made(prior))
          /\ \A m : Shows(m, spec) => Shows(m, made(prior))
      BY <1>1, UpdatedIsSpec
    <2>2. made(prior) = made(Null)
      BY <1>3, KindCases DEF AllKinds, Updated
    <2>3. new = made(Null)
      BY <1>3 DEF ChangedElsewhere
    <2> QED
      BY <2>1, <2>2, <2>3
  <1> QED
    BY <1>2, <1>3

LEMMA ModelShows ==
    ASSUME kind \in Kinds, NEW spec, SpecOK(spec), NEW model,
           kind = "cluster" => Shows(model, spec)
    PROVE  Shows(ModelSet(model, spec), spec)
  <1>1. CASE kind = "cluster"
    <2>1. ClusterSet(model, spec).shared_storage = model.shared_storage
      BY DEF ClusterSet
    <2>2. ModelSet(model, spec).shared_storage = model.shared_storage
      BY <1>1, <2>1 DEF ModelSet
    <2> QED
      BY <1>1, <2>2 DEF Shows
  <1>2. CASE kind = "vpc"
    BY <1>2, VpcSetFields DEF Shows, ModelSet, SpecOK
  <1>3. CASE kind = "deployment"
    BY <1>3, DeploymentSetIsPrior DEF Shows, ModelSet, SpecOK
  <1>4. CASE kind = "gateway"
    BY <1>4 DEF Shows
  <1>5. CASE kind = "claim"
    BY <1>5 DEF Shows, ModelSet, ClaimSet
  <1> QED
    BY <1>1, <1>2, <1>3, <1>4, <1>5, KindCases DEF AllKinds

LEMMA SetTwice ==
    ASSUME kind \in Kinds, NEW spec, SpecOK(spec), NEW model
    PROVE  ModelSet(ModelSet(model, spec), spec) = ModelSet(model, spec)
  <1>1. CASE kind = "cluster"
    BY <1>1, ClusterSetTwice DEF ModelSet, SpecOK
  <1>2. CASE kind = "vpc"
    BY <1>2, VpcSetTwice DEF ModelSet, SpecOK
  <1>3. CASE kind = "deployment"
    BY <1>3, DeploymentSetTwice DEF ModelSet, SpecOK
  <1>4. CASE kind = "gateway"
    BY <1>4, RecordsKnown, GatewaySetTwice DEF ModelSet, SpecOK
  <1>5. CASE kind = "claim"
    BY <1>5 DEF ModelSet, ClaimSet
  <1> QED
    BY <1>1, <1>2, <1>3, <1>4, <1>5, KindCases DEF AllKinds

\* What the configuration asks to be stored where no answer shows it.
StorageAsked(spec) ==
    kind = "cluster" /\ config.shared_storage # Null
       => spec.shared_storage = config.shared_storage

\* An answer as planned is of an object as asked.
LEMMA Agreement ==
    ASSUME kind \in Kinds, config \in Configs[kind], NEW spec, SpecOK(spec),
           StorageAsked(spec), NEW prior, NEW model,
           Consistent(Planned(prior, config), ModelSet(model, spec))
    PROVE  AsAsked(spec)
  <1>1. CASE kind = "cluster"
    BY <1>1, ConfigCases, ClusterAgreement
      DEF AsAsked, SpecOK, StorageAsked, Planned, ModelSet
  <1>2. CASE kind = "vpc"
    BY <1>2, ConfigCases, VpcAgreement DEF AsAsked, SpecOK, Planned, ModelSet
  <1>3. CASE kind = "deployment"
    BY <1>3, ConfigCases, DeploymentAgreement
      DEF AsAsked, SpecOK, Planned, ModelSet
  <1>4. CASE kind = "gateway"
    BY <1>4, ConfigCases, RecordsKnown, GatewayAgreement
      DEF AsAsked, SpecOK, Planned, ModelSet
  <1>5. CASE kind = "claim"
    BY <1>5, ConfigCases, ClaimAgreement DEF AsAsked, SpecOK, Planned, ModelSet
  <1> QED
    BY <1>1, <1>2, <1>3, <1>4, <1>5, KindCases DEF AllKinds

\* A created object has what the plan says where no answer shows it.
LEMMA CreatedShows ==
    ASSUME kind \in Kinds, config \in Configs[kind]
    PROVE  LET spec == Created(FreshPlan(config))
           IN /\ StorageAsked(spec)
              /\ kind = "cluster" => Shows(FreshPlan(config), spec)
              /\ kind = "vpc" => spec.vpc_prefixes
                                    = OrZero(config.vpc_prefixes, {})
  <1> DEFINE plan == FreshPlan(config)
             spec == Created(plan)
  <1>1. PICK prior : FreshPlan(config) = Planned(prior, config)
    BY FreshPlans
  <1>2. CASE kind = "cluster"
    <2>1. plan = ClusterPlan(prior, config) /\ ClusterWellFormed(config)
      BY <1>1, <1>2, ConfigCases DEF Planned
    <2>2. plan.shared_storage = config.shared_storage
      <3>1. \A a \in ClusterFields \ {"public", "node_ports"} :
               ClusterPlan(prior, config)[a] = config[a]
        BY <2>1, ClusterPlanned
      <3> HIDE DEF plan
      <3> QED
        BY <2>1, <3>1 DEF ClusterFields
    <2>3. ClusterSpecOK(ClusterCreateRequest(plan))
      BY <2>1, ClusterRequestIsSpec
    <2>4. spec = ClusterCreated(ClusterCreateRequest(plan))
      BY <1>2 DEF Created
    <2> HIDE DEF plan, spec
    <2>5. spec.shared_storage = ClusterCreateRequest(plan).shared_storage
      BY <2>3, <2>4, ClusterCreatedIsSpec DEF ClusterFields
    <2>6. spec.shared_storage = OrZero(plan.shared_storage, "")
      BY <2>5, ClusterRequestFields
    <2>7. IsOptional(config.shared_storage)
      BY <2>1 DEF ClusterWellFormed
    <2>8. config.shared_storage # Null
             => spec.shared_storage = config.shared_storage
      BY <2>2, <2>6, <2>7 DEF OrZero, IsKnown, IsOptional
    <2> QED
      BY <1>2, <2>2, <2>8 DEF StorageAsked, Shows, plan, spec
  <1>3. CASE kind = "vpc"
    <2>1. plan = VpcPlan(prior, config) /\ VpcWellFormed(config)
      BY <1>1, <1>3, ConfigCases DEF Planned
    <2>2. plan.vpc_prefixes = config.vpc_prefixes
      BY <2>1, VpcPlanned
    <2>3. spec = VpcCreated(VpcCreateRequest(plan))
      BY <1>3 DEF Created
    <2> HIDE DEF plan, spec
    <2>4. VpcHas(spec, plan)
      BY <2>3, VpcCreatedFields
    <2> QED
      BY <1>3, <2>2, <2>4 DEF StorageAsked, VpcHas, spec, plan
  <1>4. CASE kind \notin {"cluster", "vpc"}
    BY <1>4 DEF StorageAsked
  <1> QED
    BY <1>2, <1>3, <1>4

\* An object that an update makes, and would make again, has what the plan
\* says where no answer shows it.
LEMMA UpdatedShows ==
    ASSUME kind \in Kinds, config \in Configs[kind], NEW prior, NEW spec,
           ~ConfigForcesReplace(prior), ~Panics(Planned(prior, config)),
           SpecOK(spec), Shows(prior, spec),
           spec = Updated(spec, Planned(prior, config), prior)
    PROVE  /\ StorageAsked(spec)
           /\ kind = "vpc" => spec.vpc_prefixes
                                 = OrZero(config.vpc_prefixes, {})
           /\ kind = "cluster" /\ prior.webhook # Null /\ config.webhook = Null
                 => spec.webhook = Null
  <1> DEFINE plan == Planned(prior, config)
  <1>1. CASE kind = "cluster"
    <2>1. config.shared_storage = prior.shared_storage
      BY <1>1 DEF ConfigForcesReplace, ClusterNeedsReplace, Immutable
    <2>2. StorageAsked(spec)
      BY <1>1, <2>1 DEF StorageAsked, Shows
    <2>3. /\ ClusterWellFormed(config) /\ ClusterSpecOK(spec)
          /\ spec = ClusterUpdated(spec, ClusterUpdateRequest(
                                      ClusterPlan(prior, config), prior))
      BY <1>1, ConfigCases DEF SpecOK, Updated, Planned
    <2>4. prior.webhook # Null /\ config.webhook = Null => spec.webhook = Null
      BY <2>3, ClusterUpdateRemoves
    <2> QED
      BY <1>1, <2>2, <2>4
  <1>2. CASE kind = "vpc"
    <2>1. /\ plan = VpcPlan(prior, config) /\ VpcWellFormed(config)
          /\ ~VpcPlanPanics(plan) /\ VpcSpecOK(spec)
          /\ spec = VpcUpdated(spec, VpcUpdateRequest(plan))
      BY <1>2, ConfigCases DEF Planned, Panics, SpecOK, Updated
    <2>2. plan.vpc_prefixes = config.vpc_prefixes
      BY <2>1, VpcPlanned
    <2>3. VpcHas(spec, plan)
      BY <2>1, VpcUpdatedIsSpec
    <2> HIDE DEF plan
    <2> QED
      BY <1>2, <2>2, <2>3 DEF StorageAsked, VpcHas
  <1>3. CASE kind \notin {"cluster", "vpc"}
    BY <1>3 DEF StorageAsked
  <1> QED
    BY <1>1, <1>2, <1>3

\* Unless the configuration is lossy, the answer to a Create is as planned.
LEMMA ComesBack ==
    ASSUME kind \in Kinds, config \in Configs[kind], ~Lossy
    PROVE  LET plan == FreshPlan(config)
               spec == Created(plan)
           IN \/ Consistent(plan, ModelSet(plan, spec))
              \/ kind = "gateway"
                    /\ ~(spec.additional_dns
                            \subseteq OrZero(config.additional_dns, {}))
  <1> DEFINE plan == FreshPlan(config)
             spec == Created(plan)
  <1>1. PICK prior :
           /\ FreshPlan(config) = Planned(prior, config)
           /\ kind = "cluster" => prior.node_ports = Unknown
           /\ kind = "vpc" => /\ prior.host_prefix = Unknown
                              /\ prior.host_prefixes = Unknown
           /\ kind = "deployment" => DeploymentPriorOK(prior)
    BY FreshPlans
  <1>2. CASE kind = "cluster"
    BY <1>1, <1>2, ConfigCases, ClusterComesBack
      DEF Lossy, Planned, ModelSet, Created
  <1>3. CASE kind = "vpc"
    BY <1>1, <1>3, ConfigCases, VpcComesBack
      DEF Lossy, Planned, ModelSet, Created
  <1>4. CASE kind = "deployment"
    BY <1>1, <1>4, ConfigCases, DeploymentComesBack
      DEF Lossy, Planned, ModelSet, Created
  <1>5. CASE kind = "gateway"
    <2>1. /\ GatewayWellFormed(config) /\ ~GatewayLossy(config)
          /\ plan = config
          /\ spec = GatewayStored(GatewayCreateRequest(config), {})
      BY <1>1, <1>5, ConfigCases DEF Lossy, Planned, Created
    <2>2. ModelSet(plan, spec) = GatewaySet(config, spec)
      BY <1>5, <2>1 DEF ModelSet
    <2> HIDE DEF plan, spec
    <2>3. spec.additional_dns \subseteq OrZero(config.additional_dns, {})
             => Consistent(config, GatewaySet(config, spec))
      BY <2>1, GatewayComesBack
    <2> QED
      BY <1>5, <2>1, <2>2, <2>3 DEF plan, spec
  <1>6. CASE kind = "claim"
    <2>1. /\ ClaimWellFormed(config) /\ ~ClaimLossy(config) /\ plan = config
          /\ spec = ClaimRequest(config)
      BY <1>1, <1>6, ConfigCases DEF Lossy, Planned, Created
    <2>2. ModelSet(plan, spec) = ClaimSet(config, spec)
      BY <1>6, <2>1 DEF ModelSet
    <2> HIDE DEF plan, spec
    <2>3. Consistent(config, ClaimSet(config, spec))
      BY <2>1, ClaimComesBack DEF ClaimRequest
    <2> QED
      BY <2>1, <2>2, <2>3 DEF plan, spec
  <1> QED
    BY <1>2, <1>3, <1>4, <1>5, <1>6, KindCases DEF AllKinds

\* And so is that to an Update, but for a record that stays, and but for the
\* attributes of a cluster that were planned as they were.
LEMMA UpdateComesBack ==
    ASSUME kind \in Kinds, config \in Configs[kind], ~Lossy,
           NEW prior, ~ConfigForcesReplace(prior),
           ~Panics(Planned(prior, config)), NEW spec, SpecOK(spec),
           Shows(prior, spec),
           spec = Updated(spec, Planned(prior, config), prior)
    PROVE  LET plan == Planned(prior, config)
               answer == ModelSet(plan, spec)
           IN \/ Consistent(plan, answer)
              \/ kind = "gateway"
                    /\ ~(spec.additional_dns
                            \subseteq OrZero(config.additional_dns, {}))
              \/ kind = "cluster"
                    /\ \E a \in DOMAIN answer : answer[a] # plan[a]
                                                  /\ plan[a] = prior[a]
  <1> DEFINE plan == Planned(prior, config)
             answer == ModelSet(plan, spec)
  <1>1. CASE kind = "cluster"
    <2>1. /\ ClusterWellFormed(config) /\ ~ClusterLossy(config)
          /\ ~ClusterNeedsReplace(prior, config) /\ ClusterSpecOK(spec)
          /\ plan = ClusterPlan(prior, config)
          /\ answer = ClusterSet(plan, spec)
          /\ spec = ClusterUpdated(spec, ClusterUpdateRequest(
                                      ClusterPlan(prior, config), prior))
      BY <1>1, ConfigCases
        DEF Lossy, ConfigForcesReplace, SpecOK, Planned, ModelSet, Updated
    <2>2. \A a \in ClusterFields : plan[a] # prior[a] => answer[a] = plan[a]
      BY <2>1, ClusterUpdateComesBack
    <2>3. DOMAIN plan = ClusterFields
      BY <2>1, ClusterPlanned
    <2>4. DOMAIN answer = ClusterFields
      BY <2>1 DEF ClusterSet, ClusterFields
    <2> HIDE DEF plan, answer
    <2>5. \/ Consistent(plan, answer)
          \/ \E a \in DOMAIN answer : answer[a] # plan[a] /\ plan[a] = prior[a]
      BY <2>2, <2>3, <2>4 DEF Consistent
    <2> QED
      BY <1>1, <2>5 DEF plan, answer
  <1>2. CASE kind = "vpc"
    <2>1. /\ plan = VpcPlan(prior, config) /\ VpcWellFormed(config)
          /\ ~VpcLossy(config) /\ ~VpcNeedsReplace(prior, config)
          /\ ~VpcPlanPanics(plan) /\ VpcSpecOK(spec)
          /\ answer = VpcSet(plan, spec)
          /\ spec = VpcUpdated(spec, VpcUpdateRequest(plan))
      BY <1>2, ConfigCases
        DEF Planned, Panics, SpecOK, Updated, Lossy, ConfigForcesReplace,
            ModelSet
    <2>2. VpcHas(spec, plan)
      BY <2>1, VpcUpdatedIsSpec
    <2>3. /\ prior.zone = spec.zone /\ prior.host_prefix = spec.host_prefix
          /\ prior.host_prefixes = IF spec.host_prefixes = {} THEN Null
                                   ELSE spec.host_prefixes
      BY <1>2 DEF Shows
    <2> HIDE DEF plan, answer
    <2>4. Consistent(plan, answer)
      BY <2>1, <2>2, <2>3, VpcUpdateComesBack
    <2> QED
      BY <2>4 DEF plan, answer
  <1>3. CASE kind = "deployment"
    <2>1. /\ plan = DeploymentPlan(prior, config)
          /\ DeploymentWellFormed(config) /\ ~DeploymentLossy(config)
          /\ DeploymentPriorOK(prior)
          /\ spec = DeploymentStored(DeploymentRequest(plan))
          /\ answer = DeploymentSet(plan, spec)
      BY <1>3, ConfigCases DEF Planned, Lossy, Shows, Updated, ModelSet
    <2> HIDE DEF plan, answer
    <2>2. Consistent(plan, answer)
      BY <2>1, DeploymentComesBack
    <2> QED
      BY <2>2 DEF plan, answer
  <1>4. CASE kind = "gateway"
    <2>1. /\ plan = config /\ GatewayWellFormed(config)
          /\ ~GatewayLossy(config) /\ answer = GatewaySet(config, spec)
          /\ spec = GatewayStored(GatewayCreateRequest(config),
                                  spec.additional_dns)
      BY <1>4, ConfigCases
        DEF Planned, Lossy, Updated, ModelSet, GatewayUpdateRequest
    <2> HIDE DEF plan, answer
    <2>2. spec.additional_dns \subseteq OrZero(config.additional_dns, {})
             => Consistent(config, answer)
      BY <2>1, GatewayComesBack
    <2> QED
      BY <1>4, <2>1, <2>2 DEF plan, answer
  <1>5. CASE kind = "claim"
    <2>1. /\ plan = config /\ ClaimWellFormed(config) /\ ~ClaimLossy(config)
          /\ answer = ClaimSet(config, spec) /\ ClaimSpecOK(spec)
          /\ spec = ClaimUpdated(spec, ClaimRequest(config))
          /\ spec.name = config.name /\ spec.resources = config.resources
      BY <1>5, ConfigCases
        DEF Planned, Lossy, Updated, ModelSet, SpecOK, Shows,
            ConfigForcesReplace
    <2>2. spec.instance_count = Uint32(config.instance_count)
      BY <2>1, ClaimUpdatedIsSpec
    <2> HIDE DEF plan, answer
    <2>3. Consistent(config, answer)
      BY <2>1, <2>2, ClaimComesBack
    <2> QED
      BY <2>1, <2>3 DEF plan, answer
  <1> QED
    BY <1>1, <1>2, <1>3, <1>4, <1>5, KindCases DEF AllKinds

-----------------------------------------------------------------------------
(* The second invariant: what is planned, stored and shown.                 *)

ConfigOK == kind \in Kinds /\ config \in Configs[kind] \cup {NoConfig}

CreatePlanned == config # NoConfig /\ op.plan = FreshPlan(config)
UpdatePlanned == /\ config # NoConfig
                 /\ op.plan = Planned(tfstate.model, config)
                 /\ ~ConfigForcesReplace(tfstate.model)

\* A run carries the plan of the configuration, also through the deletion that
\* makes room for a replacement, and awaits only what could be requested.
PlanOK ==
    /\ op.step \in {"create", "createWait"} => CreatePlanned
    /\ op.step \in {"delete", "deleteWait"} /\ op.replace => CreatePlanned
    /\ op.step \in {"update", "updateWait"} => UpdatePlanned
    /\ op.step \in {"createWait", "updateWait"} => ~Panics(op.plan)

SpecsOK == \A i \in Ids : cloud[i].status # "UNUSED" => SpecOK(cloud[i].spec)

\* Terraform's state, and the answer a wait would return, show their object.
StateShows(state) ==
    state.id \in Ids => /\ Shows(state.model, cloud[state.id].spec)
                        /\ kind = "vpc" => state.status = Null
ShownOK == /\ StateShows(tfstate)
           /\ op.step \in {"createWait", "updateWait"} => StateShows(op.resp)

\* Between a refresh and its plan, the state is what the object sets it to.
RefreshedOK ==
    op.step = "refreshed" /\ tfstate.id \in Ids
       => tfstate.model = ModelSet(tfstate.model, cloud[tfstate.id].spec)

\* What the API accepted is what was requested, and of what no answer shows
\* the object still is.
AwaitedOK ==
    /\ op.step = "createWait"
          => /\ op.accepted = Created(op.plan)
             /\ op.resp.model = ModelSet(op.plan, op.accepted)
    /\ op.step = "updateWait"
          => /\ op.accepted = Updated(op.accepted, op.plan, tfstate.model)
             /\ Shows(tfstate.model, op.accepted)
    /\ op.step \in {"createWait", "updateWait"}
          => /\ SpecOK(op.accepted)
             /\ kind = "cluster" => Shows(op.plan, cloud[op.id].spec)

CInv == /\ ConfigOK /\ PlanOK /\ SpecsOK /\ ShownOK /\ RefreshedOK
        /\ AwaitedOK

\* A step of the API's objects: they stay what they are made of, and what a
\* state shows of them stays true.
CloudAfter ==
    \A i \in Ids :
       /\ cloud'[i].status # "UNUSED" => SpecOK(cloud'[i].spec)
       /\ cloud[i].status # "UNUSED"
             => \A m : Shows(m, cloud[i].spec) => Shows(m, cloud'[i].spec)

\* A state shows its object after the step.
ShowsAfter(state) ==
    state.id \in Ids => /\ Shows(state.model, cloud'[state.id].spec)
                        /\ kind = "vpc" => state.status = Null

LEMMA SpecsStay ==
    ASSUME SpecsOK,
           \A i \in Ids : /\ cloud'[i].spec = cloud[i].spec
                          /\ cloud'[i].status # "UNUSED"
                                => cloud[i].status # "UNUSED"
    PROVE  CloudAfter
  BY DEF CloudAfter, SpecsOK

LEMMA SpecMade ==
    ASSUME SpecsOK, NEW i \in Ids, SpecOK(cloud'[i].spec),
           cloud[i].status # "UNUSED"
              => \A m : Shows(m, cloud[i].spec) => Shows(m, cloud'[i].spec),
           \A j \in Ids \ {i} : cloud'[j] = cloud[j]
    PROVE  CloudAfter
  <1> SUFFICES ASSUME NEW j \in Ids
               PROVE  /\ cloud'[j].status # "UNUSED" => SpecOK(cloud'[j].spec)
                      /\ cloud[j].status # "UNUSED"
                            => \A m : Shows(m, cloud[j].spec)
                                         => Shows(m, cloud'[j].spec)
    BY DEF CloudAfter
  <1>1. CASE j = i
    BY <1>1
  <1>2. CASE j # i
    <2>1. cloud'[j] = cloud[j]
      BY <1>2
    <2> QED
      BY <2>1 DEF SpecsOK
  <1> QED
    BY <1>1, <1>2

\* The step's parts in the next state.
LEMMA SpecsAreKept ==
    ASSUME CloudAfter, UNCHANGED kind
    PROVE  SpecsOK'
  BY DEF CloudAfter, SpecsOK, SpecOK, Complete, EmptyModel

LEMMA StateIsShown ==
    ASSUME ShowsAfter(tfstate'), UNCHANGED kind
    PROVE  StateShows(tfstate)'
  BY DEF ShowsAfter, StateShows, Shows

LEMMA AnswerIsShown ==
    ASSUME ShowsAfter(op'.resp), UNCHANGED kind
    PROVE  StateShows(op.resp)'
  BY DEF ShowsAfter, StateShows, Shows

LEMMA StillShown ==
    ASSUME CloudAfter, NEW state, StateShows(state),
           state.id \in Ids => cloud[state.id].status # "UNUSED"
    PROVE  ShowsAfter(state)
  BY DEF CloudAfter, StateShows, ShowsAfter

LEMMA HeldStillShown ==
    ASSUME IInv, CInv, CloudAfter
    PROVE  ShowsAfter(tfstate)
  BY HeldExists, StillShown DEF CInv, ShownOK

\* The same plans and requests, in the next state.
LEMMA SameTerms ==
    ASSUME UNCHANGED <<kind, config>>
    PROVE  /\ FreshPlan(config)' = FreshPlan(config)
           /\ Created(op.plan)' = Created(op'.plan)
           /\ SpecOK(op.accepted)' <=> SpecOK(op'.accepted)
           /\ UNCHANGED tfstate
                 => /\ Planned(tfstate.model, config)'
                          = Planned(tfstate.model, config)
                    /\ ConfigForcesReplace(tfstate.model)'
                          <=> ConfigForcesReplace(tfstate.model)
           /\ (op'.plan = op.plan) => (Panics(op.plan)' <=> Panics(op.plan))
  <1>1. FreshPlan(config)' = FreshPlan(config)
    BY DEF FreshPlan, Planned, EmptyModel
  <1>2. Created(op.plan)' = Created(op'.plan)
    BY DEF Created
  <1>3. UNCHANGED tfstate
          => Planned(tfstate.model, config)' = Planned(tfstate.model, config)
    BY DEF Planned
  <1>4. UNCHANGED tfstate
          => (ConfigForcesReplace(tfstate.model)'
                 <=> ConfigForcesReplace(tfstate.model))
    BY DEF ConfigForcesReplace
  <1>5. (op'.plan = op.plan) => (Panics(op.plan)' <=> Panics(op.plan))
    BY DEF Panics
  <1>6. SpecOK(op.accepted)' <=> SpecOK(op'.accepted)
    BY DEF SpecOK, Complete, EmptyModel
  <1> QED
    BY <1>1, <1>2, <1>3, <1>4, <1>5, <1>6

\* A run that is over.
LEMMA EndKeeps ==
    ASSUME CInv, UNCHANGED kind, config' \in Configs[kind] \cup {NoConfig},
           op'.step = "idle", CloudAfter, ShowsAfter(tfstate')
    PROVE  CInv'
  <1>1. ConfigOK'
    BY DEF CInv, ConfigOK
  <1>2. SpecsOK' /\ ShownOK'
    BY SpecsAreKept, StateIsShown DEF ShownOK
  <1>3. PlanOK' /\ RefreshedOK' /\ AwaitedOK'
    BY DEF PlanOK, RefreshedOK, AwaitedOK
  <1> QED
    BY <1>1, <1>2, <1>3 DEF CInv

LEMMA EmptyShows == ShowsAfter(NoState)
  BY DEF ShowsAfter, NoState

LEMMA SameCloudKeeps ==
    ASSUME CInv, UNCHANGED cloud
    PROVE  CloudAfter
  BY SpecsStay DEF CInv

\* What SetFrom makes of a model.
LEMMA SetFromShows ==
    ASSUME kind \in Kinds, NEW i \in Ids, SpecOK(cloud'[i].spec),
           NEW source, kind = "cluster" => Shows(source.model, cloud'[i].spec),
           NEW preserve, NEW tainted
    PROVE  ShowsAfter(SetFrom(source, i, preserve, tainted))
  <1> DEFINE state == SetFrom(source, i, preserve, tainted)
  <1>1. /\ state.id = i /\ state.model = ModelSet(source.model, cloud'[i].spec)
        /\ state.status = ObservedStatus(source, i, preserve)
    BY DEF SetFrom
  <1>2. Shows(state.model, cloud'[i].spec)
    BY <1>1, ModelShows
  <1>3. kind = "vpc" => state.status = Null
    BY <1>1 DEF ObservedStatus
  <1> HIDE DEF state
  <1>4. ShowsAfter(state)
    BY <1>1, <1>2, <1>3 DEF ShowsAfter
  <1> QED
    BY <1>4 DEF state

LEMMA RefreshKeeps == IInv /\ CInv /\ Refresh => CInv'
  <1> SUFFICES ASSUME IInv, CInv, Refresh PROVE CInv'
    OBVIOUS
  <1>1. /\ UNCHANGED <<kind, cloud, config>> /\ op'.step = "refreshed"
        /\ kind \in Kinds
    BY DEF Refresh, IdleOp, CInv, ConfigOK
  <1>2. CloudAfter
    BY <1>1, SameCloudKeeps
  <1>3. CASE tfstate = NoState \/ ~Found(tfstate.id)
    <2>1. tfstate' = NoState
      BY <1>3 DEF Refresh
    <2>2. StateShows(tfstate)' /\ RefreshedOK'
      BY <2>1 DEF StateShows, RefreshedOK, NoState
    <2> QED
      BY <1>1, <1>2, <2>2, SpecsAreKept
        DEF CInv, ConfigOK, PlanOK, ShownOK, AwaitedOK
  <1>4. CASE tfstate # NoState /\ Found(tfstate.id)
    <2> DEFINE i == tfstate.id
               spec == cloud[i].spec
    <2>1. i \in Ids /\ cloud[i].status # "UNUSED"
      BY <1>4 DEF IInv, RunShape, Found, Reported
    <2>2. SpecOK(spec) /\ Shows(tfstate.model, spec)
      BY <2>1 DEF CInv, SpecsOK, ShownOK, StateShows
    <2>3. tfstate' = SetFrom(tfstate, i, FALSE, tfstate.tainted)
      BY <1>4 DEF Refresh
    <2>4. ShowsAfter(tfstate')
      BY <1>1, <2>1, <2>2, <2>3, SetFromShows
    <2>5. tfstate'.id = i /\ tfstate'.model = ModelSet(tfstate.model, spec)
      BY <1>1, <2>3 DEF SetFrom
    <2>6. tfstate'.model = ModelSet(tfstate'.model, spec)
      BY <1>1, <2>2, <2>5, SetTwice
    <2>7. ModelSet(tfstate.model, cloud[tfstate.id].spec)'
             = ModelSet(tfstate'.model, spec)
      BY <1>1, <2>5 DEF ModelSet
    <2>8. RefreshedOK'
      BY <2>6, <2>7 DEF RefreshedOK
    <2> QED
      BY <1>1, <1>2, <2>4, <2>8, SpecsAreKept, StateIsShown
        DEF CInv, ConfigOK, PlanOK, ShownOK, AwaitedOK
  <1> QED
    BY <1>3, <1>4

\* What Plan starts, with what.
LEMMA PlanKeeps == IInv /\ CInv /\ Plan => CInv'
  <1> SUFFICES ASSUME IInv, CInv, Plan PROVE CInv'
    OBVIOUS
  <1>1. /\ UNCHANGED <<kind, cloud, tfstate, config>>
        /\ op'.step \in {"idle", "create", "update", "delete"}
    BY PlanStarts DEF Plan
  <1>2. CloudAfter
    BY <1>1, SameCloudKeeps
  <1>3. ConfigOK' /\ SpecsOK' /\ ShownOK' /\ RefreshedOK' /\ AwaitedOK'
    <2>1. StateShows(tfstate)'
      BY <1>1, <1>2, HeldStillShown, StateIsShown
    <2>2. SpecsOK'
      BY <1>1, <1>2, SpecsAreKept
    <2> QED
      BY <1>1, <2>1, <2>2 DEF CInv, ConfigOK, ShownOK, RefreshedOK, AwaitedOK
  <1>4. PlanOK'
    <2>2. \A result : op' = IdleOp(result) => op'.step = "idle"
      BY IdleOpOK
    <2>3. op'.step = "idle" => PlanOK'
      BY DEF PlanOK
    <2>4. CASE Start("delete", FALSE, Null)
      <3>1. op'.step = "delete" /\ op'.replace = FALSE
        BY <2>4 DEF Start, IdleOp
      <3> QED
        BY <3>1 DEF PlanOK
    <2>5. CASE config # NoConfig /\ Start("create", FALSE, FreshPlan(config))
      <3>1. op'.step = "create" /\ op'.plan = FreshPlan(config)
        BY <2>5 DEF Start, IdleOp
      <3>2. CreatePlanned'
        BY <1>1, <2>5, <3>1, SameTerms DEF CreatePlanned
      <3> QED
        BY <3>1, <3>2 DEF PlanOK
    <2>6. CASE config # NoConfig /\ Start("delete", TRUE, FreshPlan(config))
      <3>1. op'.step = "delete" /\ op'.plan = FreshPlan(config)
        BY <2>6 DEF Start, IdleOp
      <3>2. CreatePlanned'
        BY <1>1, <2>6, <3>1, SameTerms DEF CreatePlanned
      <3> QED
        BY <3>1, <3>2 DEF PlanOK
    <2>7. CASE /\ config # NoConfig /\ ~NeedsReplace
               /\ Start("update", FALSE, Planned(tfstate.model, config))
      <3>1. op'.step = "update" /\ op'.plan = Planned(tfstate.model, config)
        BY <2>7 DEF Start, IdleOp
      <3>2. UpdatePlanned'
        BY <1>1, <2>7, <3>1, SameTerms DEF UpdatePlanned, NeedsReplace
      <3> QED
        BY <3>1, <3>2 DEF PlanOK
    <2> QED
      BY <2>2, <2>3, <2>4, <2>5, <2>6, <2>7 DEF Plan, PlanFits
  <1> QED
    BY <1>3, <1>4 DEF CInv

\* What replaces an object, without the type of its status.
LEMMA ObjectReplaced ==
    ASSUME CloudOK, NEW i \in Ids, NEW status, NEW spec,
           cloud' = [cloud EXCEPT ![i] = [status |-> status, spec |-> spec]]
    PROVE  /\ cloud'[i].spec = spec
           /\ \A j \in Ids \ {i} : cloud'[j] = cloud[j]
  <1>1. cloud' = [j \in Ids |-> IF j = i THEN [status |-> status, spec |-> spec]
                                ELSE cloud[j]]
    BY DEF CloudOK
  <1> QED
    BY <1>1

\* The API makes of a create's plan what CreatedIsSpec says.
LEMMA CreateKeeps ==
    ASSUME IInv, CInv, op.step = "create", ~Panics(op.plan),
           NEW i \in Ids, CreateAccepted(i, op.plan)
    PROVE  /\ CloudAfter
           /\ cloud'[i].spec = Created(op.plan) /\ SpecOK(cloud'[i].spec)
  <1>1. PICK st \in {"UNSPECIFIED", "CREATING"} :
          cloud' = [cloud EXCEPT ![i] = [status |-> st,
                                         spec |-> Created(op.plan)]]
    BY DEF CreateAccepted
  <1>3. /\ cloud'[i].spec = Created(op.plan)
        /\ \A j \in Ids \ {i} : cloud'[j] = cloud[j]
    BY <1>1, ObjectReplaced DEF IInv
  <1>4. kind \in Kinds /\ config \in Configs[kind] /\ op.plan = FreshPlan(config)
    BY DEF CInv, ConfigOK, PlanOK, CreatePlanned
  <1>5. SpecOK(cloud'[i].spec)
    BY <1>3, <1>4, CreatedIsSpec
  <1>6. cloud[i].status = "UNUSED"
    BY DEF CreateAccepted
  <1>7. CloudAfter
    BY <1>3, <1>5, <1>6, SpecMade DEF CInv
  <1> QED
    BY <1>3, <1>5, <1>7

LEMMA RequestCreateKeeps ==
    ASSUME IInv, CInv, RequestCreate, UNCHANGED <<kind, config>>
    PROVE  CInv'
  <1>1. op.step = "create" /\ tfstate = NoState /\ UNCHANGED tfstate
    BY DEF RequestCreate, IInv, RunShape
  <1>2. /\ kind \in Kinds /\ config \in Configs[kind] /\ config # NoConfig
        /\ op.plan = FreshPlan(config)
        /\ config' \in Configs[kind] \cup {NoConfig}
    BY <1>1 DEF CInv, ConfigOK, PlanOK, CreatePlanned
  <1>3. ShowsAfter(tfstate')
    BY <1>1, EmptyShows
  <1>4. \A result : op' = IdleOp(result) => op'.step = "idle"
    BY IdleOpOK
  <1>5. CASE UNCHANGED cloud /\ op'.step = "idle"
    BY <1>2, <1>3, <1>5, SameCloudKeeps, EndKeeps
  <1>6. ASSUME ~Panics(op.plan), NEW i \in Ids, CreateAccepted(i, op.plan),
               op'.step = "idle"
        PROVE  CInv'
    BY <1>1, <1>2, <1>3, <1>6, CreateKeeps, EndKeeps
  <1>7. ASSUME ~Panics(op.plan), NEW i \in Ids, CreateAccepted(i, op.plan),
               op' = [op EXCEPT !.step = "createWait", !.id = i,
                                !.resp = SetFrom(PlanModel, i, FALSE, TRUE),
                                !.accepted = cloud'[i].spec]
        PROVE  CInv'
    <2> DEFINE spec == cloud'[i].spec
    <2>1. CloudAfter /\ spec = Created(op.plan) /\ SpecOK(spec)
      BY <1>1, <1>7, CreateKeeps
    <2>2. /\ op'.step = "createWait" /\ op'.id = i /\ op'.plan = op.plan
          /\ op'.resp = SetFrom(PlanModel, i, FALSE, TRUE)
          /\ op'.accepted = spec
      BY <1>1, <1>7 DEF IInv, OpOK
    <2>3. PlanModel.model = op.plan
      BY DEF PlanModel
    <2>4. kind = "cluster" => Shows(PlanModel.model, spec)
      BY <1>2, <2>1, <2>3, CreatedShows
    <2>5. ShowsAfter(op'.resp)
      BY <1>2, <2>1, <2>2, <2>4, SetFromShows
    <2>6. op'.resp.model = ModelSet(op.plan, spec)
      BY <2>2, <2>3 DEF SetFrom
    <2>7. ModelSet(op.plan, op.accepted)' = ModelSet(op.plan, spec)
      BY <2>2 DEF ModelSet
    <2>12. (kind = "cluster" => Shows(op.plan, cloud[op.id].spec))'
      BY <2>2, <2>3, <2>4 DEF Shows
    <2>8. AwaitedOK'
      BY <2>1, <2>2, <2>6, <2>7, <2>12, SameTerms DEF AwaitedOK
    <2>9. CreatePlanned'
      BY <1>2, <2>2, SameTerms DEF CreatePlanned
    <2>10. PlanOK'
      BY <1>7, <2>2, <2>9, SameTerms DEF PlanOK
    <2>11. SpecsOK' /\ StateShows(tfstate)' /\ StateShows(op.resp)'
      BY <1>3, <2>1, <2>5, SpecsAreKept, StateIsShown, AnswerIsShown
    <2> QED
      BY <1>2, <2>2, <2>8, <2>10, <2>11
        DEF CInv, ConfigOK, ShownOK, RefreshedOK
  <1>8. CASE NoRequest
    <2>1. UNCHANGED cloud /\ op'.step = "idle"
      BY <1>4, <1>8 DEF NoRequest
    <2> QED
      BY <1>5, <2>1
  <1> QED
    BY <1>4, <1>5, <1>6, <1>7, <1>8 DEF RequestCreate

\* In a wait: the object, and what is known of it.
LEMMA AwaitedObject ==
    ASSUME IInv, CInv, op.step \in {"createWait", "updateWait"}
    PROVE  /\ kind \in Kinds /\ config \in Configs[kind] /\ config # NoConfig
           /\ op.id \in Ids /\ op.resp.id = op.id
           /\ cloud[op.id].status # "UNUSED"
           /\ SpecOK(cloud[op.id].spec) /\ ~Panics(op.plan)
           /\ Shows(op.resp.model, cloud[op.id].spec)
           /\ kind = "vpc" => op.resp.status = Null
           /\ op.step = "createWait" => op.plan = FreshPlan(config)
           /\ op.step = "updateWait"
                 => /\ op.id = tfstate.id
                    /\ op.plan = Planned(tfstate.model, config)
                    /\ ~ConfigForcesReplace(tfstate.model)
                    /\ Shows(tfstate.model, cloud[op.id].spec)
                    /\ kind = "vpc" => tfstate.status = Null
  <1>1. /\ op.id \in Ids /\ op.resp.id = op.id
        /\ op.step = "updateWait" => op.id = tfstate.id
    BY DEF IInv, RunShape
  <1>2. cloud[op.id].status # "UNUSED"
    BY <1>1, HeldExists DEF IInv, TrackedExist, Tracks
  <1>3. /\ kind \in Kinds /\ config \in Configs[kind] /\ config # NoConfig
        /\ ~Panics(op.plan)
        /\ op.step = "createWait" => op.plan = FreshPlan(config)
        /\ op.step = "updateWait"
              => /\ op.plan = Planned(tfstate.model, config)
                 /\ ~ConfigForcesReplace(tfstate.model)
    BY DEF CInv, ConfigOK, PlanOK, CreatePlanned, UpdatePlanned
  <1>4. SpecOK(cloud[op.id].spec)
    BY <1>1, <1>2 DEF CInv, SpecsOK
  <1>5. StateShows(op.resp) /\ StateShows(tfstate)
    BY DEF CInv, ShownOK
  <1> QED
    BY <1>1, <1>2, <1>3, <1>4, <1>5 DEF StateShows

LEMMA AwaitCreateKeeps ==
    ASSUME IInv, CInv, AwaitCreate, UNCHANGED <<kind, config>>
    PROVE  CInv'
  <1> DEFINE answer == SetFrom(op.resp, op.id, FALSE, FALSE)
  <1>1. op.step = "createWait" /\ UNCHANGED cloud
    BY DEF AwaitCreate
  <1>2. CloudAfter
    BY <1>1, SameCloudKeeps
  <1>3. /\ op.id \in Ids /\ SpecOK(cloud'[op.id].spec) /\ kind \in Kinds
        /\ Shows(op.resp.model, cloud'[op.id].spec)
        /\ kind = "vpc" => op.resp.status = Null
        /\ op.resp.id = op.id
    BY <1>1, AwaitedObject
  <1>4. ShowsAfter(answer)
    BY <1>3, SetFromShows
  <1>5. ShowsAfter(op.resp)
    BY <1>3 DEF ShowsAfter
  <1>6. \A t : ShowsAfter([answer EXCEPT !.tainted = t])
    <2> TAKE t
    <2> DEFINE other == [answer EXCEPT !.tainted = t]
    <2>1. /\ other.id = answer.id /\ other.model = answer.model
          /\ other.status = answer.status
      BY DEF SetFrom
    <2> HIDE DEF answer, other
    <2>2. ShowsAfter(other)
      BY <1>4, <2>1 DEF ShowsAfter
    <2> QED
      BY <2>2 DEF other
  <1>7. PICK state, result :
          /\ Finish(state, result)
          /\ state = op.resp \/ \E t : state = [answer EXCEPT !.tainted = t]
    BY DEF AwaitCreate
  <1> HIDE DEF answer
  <1>8. tfstate' = state /\ op'.step = "idle"
    BY <1>7, FinishIsIdle
  <1>9. ShowsAfter(tfstate')
    BY <1>5, <1>6, <1>7, <1>8
  <1> QED
    BY <1>2, <1>8, <1>9, EndKeeps DEF CInv, ConfigOK

\* The API makes of an update's plan what UpdatedIsSpec says.
LEMMA UpdateKeeps ==
    ASSUME IInv, CInv, op.step = "update", ~Panics(op.plan),
           UpdateAccepted(tfstate.id)
    PROVE  LET spec == cloud'[tfstate.id].spec
           IN /\ CloudAfter /\ SpecOK(spec)
              /\ spec = Updated(spec, op.plan, tfstate.model)
  <1> DEFINE i == tfstate.id
             old == cloud[i].spec
             new == Updated(old, op.plan, tfstate.model)
  <1>1. i \in Ids /\ cloud[i].status # "UNUSED"
    BY HeldExists DEF IInv, RunShape
  <1>2. PICK st \in {"READY", "UPDATING"} :
          cloud' = [cloud EXCEPT ![i] = [status |-> st, spec |-> new]]
    BY DEF UpdateAccepted
  <1>3. /\ kind \in Kinds /\ config \in Configs[kind]
        /\ op.plan = Planned(tfstate.model, config)
    BY DEF CInv, ConfigOK, PlanOK, UpdatePlanned
  <1>4. SpecOK(old) /\ Shows(tfstate.model, old)
    BY <1>1 DEF CInv, SpecsOK, ShownOK, StateShows
  <1>5. kind = "deployment" => DeploymentPriorOK(tfstate.model)
    BY <1>4 DEF Shows
  <1>6. /\ SpecOK(new) /\ Updated(new, op.plan, tfstate.model) = new
        /\ \A m : Shows(m, old) => Shows(m, new)
    BY <1>3, <1>4, <1>5, UpdatedIsSpec
  <1> HIDE DEF new
  <1>8. cloud'[i].spec = new /\ \A j \in Ids \ {i} : cloud'[j] = cloud[j]
    <2> HIDE DEF i
    <2> QED
      BY <1>1, <1>2, ObjectReplaced DEF IInv
  <1>9. CloudAfter
    BY <1>1, <1>6, <1>8, SpecMade DEF CInv
  <1> QED
    BY <1>6, <1>8, <1>9

\* What no answer shows of a cluster is as asked when it is as planned.
LEMMA PlanShows ==
    ASSUME kind \in Kinds, config \in Configs[kind], NEW prior, NEW spec,
           kind = "cluster"
    PROVE  Shows(Planned(prior, config), spec) <=> StorageAsked(spec)
  <1> DEFINE plan == Planned(prior, config)
  <1>1. plan = ClusterPlan(prior, config) /\ ClusterWellFormed(config)
    BY ConfigCases DEF Planned
  <1>2. plan.shared_storage = config.shared_storage
    <2>1. \A a \in ClusterFields \ {"public", "node_ports"} :
             ClusterPlan(prior, config)[a] = config[a]
      BY <1>1, ClusterPlanned
    <2> HIDE DEF plan
    <2> QED
      BY <1>1, <2>1 DEF ClusterFields
  <1> HIDE DEF plan
  <1>3. Shows(plan, spec) <=> StorageAsked(spec)
    BY <1>2 DEF Shows, StorageAsked
  <1> QED
    BY <1>3 DEF plan

LEMMA RequestUpdateKeeps ==
    ASSUME IInv, CInv, RequestUpdate, UNCHANGED <<kind, config>>
    PROVE  CInv'
  <1> DEFINE i == tfstate.id
             spec == cloud'[i].spec
  <1>1. op.step = "update" /\ i \in Ids /\ UNCHANGED tfstate
    BY DEF RequestUpdate, IInv, RunShape
  <1>2. /\ kind \in Kinds /\ config \in Configs[kind] /\ UpdatePlanned
        /\ config' \in Configs[kind] \cup {NoConfig}
    BY <1>1 DEF CInv, ConfigOK, PlanOK, UpdatePlanned
  <1>3. \A result : op' = IdleOp(result) => op'.step = "idle"
    BY IdleOpOK
  <1>4. ASSUME CloudAfter, op'.step = "idle" PROVE CInv'
    BY <1>1, <1>2, <1>4, HeldStillShown, EndKeeps
  <1>5. CASE UNCHANGED cloud /\ op'.step = "idle"
    BY <1>4, <1>5, SameCloudKeeps
  <1>6. CASE ~Panics(op.plan) /\ UpdateAccepted(i) /\ op'.step = "idle"
    BY <1>1, <1>4, <1>6, UpdateKeeps
  <1>7. CASE /\ ~Panics(op.plan) /\ UpdateAccepted(i)
             /\ op' = [op EXCEPT !.step = "updateWait", !.id = i,
                                 !.resp = UpdateResponse(i),
                                 !.accepted = cloud'[i].spec]
    <2>1. /\ CloudAfter /\ SpecOK(spec)
          /\ spec = Updated(spec, op.plan, tfstate.model)
      BY <1>1, <1>7, UpdateKeeps
    <2>2. /\ op'.step = "updateWait" /\ op'.id = i /\ op'.plan = op.plan
          /\ op'.resp = UpdateResponse(i) /\ op'.accepted = spec
      BY <1>1, <1>7 DEF IInv, OpOK
    <2>3. ShowsAfter(tfstate)
      BY <2>1, HeldStillShown
    <2>4. ShowsAfter(op'.resp)
      <3>1. CASE kind \in {"cluster", "vpc"}
        BY <2>2, <2>3, <3>1 DEF UpdateResponse
      <3>2. CASE kind \notin {"cluster", "vpc"}
        <4>1. op'.resp = SetFrom(PlanModel, i, TRUE, FALSE)
          BY <2>2, <3>2 DEF UpdateResponse
        <4> QED
          BY <1>1, <1>2, <2>1, <3>2, <4>1, SetFromShows
      <3> QED
        BY <3>1, <3>2
    <2>5. Updated(op.accepted, op.plan, tfstate.model)'
             = Updated(spec, op.plan, tfstate.model)
      BY <1>1, <2>2 DEF Updated
    <2>10. Shows(tfstate.model, spec)
      BY <1>1, <2>3 DEF ShowsAfter
    <2>11. kind = "cluster" => Shows(op.plan, spec)
      BY <1>2, <1>7, <2>1, <2>10, UpdatedShows, PlanShows DEF UpdatePlanned
    <2>12. /\ Shows(tfstate.model, op.accepted)'
           /\ (kind = "cluster" => Shows(op.plan, cloud[op.id].spec))'
      BY <1>1, <2>2, <2>10, <2>11 DEF Shows
    <2>6. AwaitedOK'
      BY <1>1, <2>1, <2>2, <2>5, <2>12, SameTerms DEF AwaitedOK
    <2>7. UpdatePlanned'
      BY <1>1, <1>2, <2>2, SameTerms DEF UpdatePlanned
    <2>8. PlanOK'
      BY <1>7, <2>2, <2>7, SameTerms DEF PlanOK
    <2>9. SpecsOK' /\ StateShows(tfstate)' /\ StateShows(op.resp)'
      BY <1>1, <2>1, <2>3, <2>4, SpecsAreKept, StateIsShown, AnswerIsShown
    <2> QED
      BY <1>2, <2>2, <2>6, <2>8, <2>9 DEF CInv, ConfigOK, ShownOK, RefreshedOK
  <1>8. CASE NoRequest
    <2>1. UNCHANGED cloud /\ op'.step = "idle"
      BY <1>3, <1>8 DEF NoRequest
    <2> QED
      BY <1>5, <2>1
  <1> QED
    BY <1>3, <1>5, <1>6, <1>7, <1>8 DEF RequestUpdate

LEMMA AwaitedPlan ==
    ASSUME IInv, CInv, op.step \in {"createWait", "updateWait"}
    PROVE  \E prior : op.plan = Planned(prior, config)
  <1>1. CASE op.step = "createWait"
    BY <1>1, AwaitedObject, FreshPlans
  <1>2. CASE op.step = "updateWait"
    BY <1>2, AwaitedObject
  <1> QED
    BY <1>1, <1>2

\* In a wait: where no answer shows it, the object is as asked.
LEMMA AwaitedIsStored ==
    ASSUME IInv, CInv, op.step \in {"createWait", "updateWait"}
    PROVE  LET spec == cloud[op.id].spec
           IN StorageAsked(spec) /\ (kind = "cluster" => Shows(op.plan, spec))
  <1>1. kind = "cluster" => Shows(op.plan, cloud[op.id].spec)
    BY DEF CInv, AwaitedOK
  <1>2. PICK prior : op.plan = Planned(prior, config)
    BY AwaitedPlan
  <1>3. kind = "cluster" => StorageAsked(cloud[op.id].spec)
    BY <1>1, <1>2, AwaitedObject, PlanShows
  <1>4. kind # "cluster" => StorageAsked(cloud[op.id].spec)
    BY DEF StorageAsked
  <1> QED
    BY <1>1, <1>3, <1>4

\* And what the API accepted was.
LEMMA AcceptedIsStored ==
    ASSUME IInv, CInv, op.step \in {"createWait", "updateWait"}
    PROVE  /\ kind = "vpc" => op.accepted.vpc_prefixes
                                 = OrZero(config.vpc_prefixes, {})
           /\ kind = "cluster" /\ op.step = "updateWait"
                 /\ tfstate.model.webhook # Null /\ config.webhook = Null
                 => op.accepted.webhook = Null
  <1>1. CASE op.step = "createWait"
    <2>1. kind \in Kinds /\ config \in Configs[kind] /\ op.plan = FreshPlan(config)
      BY <1>1, AwaitedObject
    <2>2. op.accepted = Created(FreshPlan(config))
      BY <1>1, <2>1 DEF CInv, AwaitedOK
    <2> QED
      BY <1>1, <2>1, <2>2, CreatedShows
  <1>2. CASE op.step = "updateWait"
    <2>1. /\ kind \in Kinds /\ config \in Configs[kind]
          /\ op.plan = Planned(tfstate.model, config)
          /\ ~ConfigForcesReplace(tfstate.model) /\ ~Panics(op.plan)
      BY <1>2, AwaitedObject
    <2>2. /\ op.accepted = Updated(op.accepted, op.plan, tfstate.model)
          /\ SpecOK(op.accepted) /\ Shows(tfstate.model, op.accepted)
      BY <1>2 DEF CInv, AwaitedOK
    <2> QED
      BY <2>1, <2>2, UpdatedShows
  <1> QED
    BY <1>1, <1>2

LEMMA AwaitUpdateKeeps ==
    ASSUME IInv, CInv, AwaitUpdate, UNCHANGED <<kind, config>>
    PROVE  CInv'
  <1> DEFINE answer == SetFrom(PlanModel, op.id, TRUE, FALSE)
  <1>1. op.step = "updateWait" /\ UNCHANGED cloud
    BY DEF AwaitUpdate
  <1>2. CloudAfter
    BY <1>1, SameCloudKeeps
  <1>3. /\ op.id \in Ids /\ SpecOK(cloud'[op.id].spec) /\ kind \in Kinds
        /\ Shows(op.resp.model, cloud'[op.id].spec)
        /\ kind = "vpc" => op.resp.status = Null
        /\ op.resp.id = op.id
    BY <1>1, AwaitedObject
  <1>4. PlanModel.model = op.plan
    BY DEF PlanModel
  <1>5. kind = "cluster" => Shows(PlanModel.model, cloud'[op.id].spec)
    BY <1>1, <1>4, AwaitedIsStored
  <1>6. ShowsAfter(answer)
    BY <1>3, <1>5, SetFromShows
  <1>7. ShowsAfter(op.resp)
    BY <1>3 DEF ShowsAfter
  <1>8. PICK state, result :
          Finish(state, result) /\ (state = op.resp \/ state = answer)
    BY DEF AwaitUpdate
  <1> HIDE DEF answer
  <1>9. tfstate' = state /\ op'.step = "idle"
    BY <1>8, FinishIsIdle
  <1>10. ShowsAfter(tfstate')
    BY <1>6, <1>7, <1>8, <1>9
  <1> QED
    BY <1>2, <1>9, <1>10, EndKeeps DEF CInv, ConfigOK

\* A finished deletion: the replacement is still planned.
LEMMA DeletedKeeps ==
    ASSUME IInv, CInv, op.step \in {"delete", "deleteWait"}, Deleted,
           UNCHANGED <<kind, cloud, config>>
    PROVE  CInv'
  <1>1. CloudAfter /\ tfstate' = NoState /\ ShowsAfter(tfstate')
    BY SameCloudKeeps, EmptyShows DEF Deleted
  <1>2. CASE op' = IdleOp("ok")
    BY <1>1, <1>2, IdleOpOK, EndKeeps DEF CInv, ConfigOK
  <1>3. CASE op.replace /\ op' = [op EXCEPT !.step = "create", !.id = NoId]
    <2>1. op'.step = "create" /\ op'.plan = op.plan
      BY <1>3 DEF IInv, OpOK
    <2>2. CreatePlanned
      BY <1>3 DEF CInv, PlanOK
    <2>3. CreatePlanned'
      BY <2>1, <2>2, SameTerms DEF CreatePlanned
    <2>4. PlanOK'
      BY <2>1, <2>3 DEF PlanOK
    <2>5. SpecsOK' /\ StateShows(tfstate)'
      BY <1>1, SpecsAreKept, StateIsShown
    <2> QED
      BY <2>1, <2>4, <2>5 DEF CInv, ConfigOK, ShownOK, RefreshedOK, AwaitedOK
  <1> QED
    BY <1>2, <1>3 DEF Deleted

LEMMA DeleteKeeps ==
    ASSUME IInv, CInv, NEW i \in Ids, DeleteAccepted(i)
    PROVE  CloudAfter
  <1>1. PICK st \in {"DELETING", "GONE"} :
          cloud' = [cloud EXCEPT ![i].status = st]
    BY DEF DeleteAccepted
  <1>2. st \in Statuses
    BY DEF Statuses, Reported
  <1>3. /\ cloud'[i].spec = cloud[i].spec
        /\ \A j \in Ids \ {i} : cloud'[j] = cloud[j]
    BY <1>1, <1>2, StatusChanged DEF IInv
  <1>4. cloud[i].status # "UNUSED"
    BY DEF DeleteAccepted, Found, Reported
  <1>5. \A j \in Ids : /\ cloud'[j].spec = cloud[j].spec
                       /\ cloud'[j].status # "UNUSED"
                             => cloud[j].status # "UNUSED"
    BY <1>3, <1>4
  <1> QED
    BY <1>5, SpecsStay DEF CInv

LEMMA RequestDeleteKeeps ==
    ASSUME IInv, CInv, RequestDelete, UNCHANGED <<kind, config>>
    PROVE  CInv'
  <1>1. op.step = "delete" /\ tfstate.id \in Ids
    BY RequestDeleteEnds
  <1>2. CASE Deleted /\ UNCHANGED cloud
    BY <1>1, <1>2, DeletedKeeps
  <1>3. CASE /\ UNCHANGED cloud \/ DeleteAccepted(tfstate.id)
             /\ UNCHANGED tfstate
             /\ Finish(tfstate, "error") \/ AwaitsDelete
    <2>1. CloudAfter /\ ShowsAfter(tfstate')
      BY <1>1, <1>3, SameCloudKeeps, DeleteKeeps, HeldStillShown
    <2>2. CASE Finish(tfstate, "error")
      BY <2>1, <2>2, FinishIsIdle, EndKeeps DEF CInv, ConfigOK
    <2>3. CASE AwaitsDelete
      <3>1. /\ op'.step = "deleteWait" /\ op'.plan = op.plan
            /\ op'.replace = op.replace
        BY <2>3 DEF AwaitsDelete, IInv, OpOK
      <3>2. op.replace => CreatePlanned'
        BY <1>1, <3>1, SameTerms DEF CInv, PlanOK, CreatePlanned
      <3>3. PlanOK'
        BY <3>1, <3>2 DEF PlanOK
      <3>4. SpecsOK' /\ StateShows(tfstate)'
        BY <2>1, SpecsAreKept, StateIsShown
      <3> QED
        BY <3>1, <3>3, <3>4
          DEF CInv, ConfigOK, ShownOK, RefreshedOK, AwaitedOK
    <2> QED
      BY <1>3, <2>2, <2>3
  <1>4. Finish(tfstate, "error") => UNCHANGED tfstate
    BY FinishIsIdle
  <1> QED
    BY <1>2, <1>3, <1>4 DEF RequestDelete

LEMMA AwaitDeleteKeeps ==
    ASSUME IInv, CInv, AwaitDelete, UNCHANGED <<kind, config>>
    PROVE  CInv'
  <1>1. op.step = "deleteWait" /\ UNCHANGED cloud
    BY AwaitDeleteEnds
  <1>2. CASE Deleted
    BY <1>1, <1>2, DeletedKeeps
  <1>3. CASE UNCHANGED tfstate /\ op'.step = "idle"
    <2>1. CloudAfter /\ ShowsAfter(tfstate')
      BY <1>1, <1>3, SameCloudKeeps, HeldStillShown
    <2> QED
      BY <1>3, <2>1, EndKeeps DEF CInv, ConfigOK
  <1> QED
    BY <1>2, <1>3, AwaitDeleteEnds

LEMMA WaitFailsKeeps == IInv /\ CInv /\ WaitFails => CInv'
  <1> SUFFICES ASSUME IInv, CInv, WaitFails PROVE CInv'
    OBVIOUS
  <1>1. UNCHANGED <<kind, cloud, config>>
    BY DEF WaitFails
  <1>2. CloudAfter
    BY <1>1, SameCloudKeeps
  <1>3. CASE op.step \in {"createWait", "updateWait"} /\ Finish(op.resp, "error")
    <2>1. ShowsAfter(op.resp)
      BY <1>1, <1>3, AwaitedObject DEF ShowsAfter
    <2> QED
      BY <1>1, <1>2, <1>3, <2>1, FinishIsIdle, EndKeeps DEF CInv, ConfigOK
  <1>4. CASE Finish(tfstate, "error")
    BY <1>1, <1>2, <1>4, HeldStillShown, FinishIsIdle, EndKeeps
      DEF CInv, ConfigOK
  <1> QED
    BY <1>3, <1>4 DEF WaitFails

LEMMA ImportStateKeeps == IInv /\ CInv /\ ImportState => CInv'
  <1> SUFFICES ASSUME IInv, CInv, ImportState PROVE CInv'
    OBVIOUS
  <1> DEFINE empty == [model |-> EmptyModel, status |-> Null]
  <1>1. UNCHANGED <<kind, cloud, config>> /\ op'.step = "idle" /\ kind \in Kinds
    BY IdleOpOK DEF ImportState, CInv, ConfigOK
  <1>2. CloudAfter
    BY <1>1, SameCloudKeeps
  <1>3. PICK i \in Ids : /\ Found(i)
                         /\ tfstate' = SetFrom(empty, i, FALSE, FALSE)
    BY DEF ImportState
  <1>4. SpecOK(cloud'[i].spec)
    BY <1>1, <1>3 DEF CInv, SpecsOK, Found, Reported
  <1>5. kind = "cluster" => empty.model.shared_storage = Null
    BY DEF EmptyModel, EmptyCluster
  <1>6. kind = "cluster" => Shows(empty.model, cloud'[i].spec)
    BY <1>5 DEF Shows
  <1> HIDE DEF empty
  <1>7. ShowsAfter(tfstate')
    BY <1>1, <1>3, <1>4, <1>6, SetFromShows
  <1> QED
    BY <1>1, <1>2, <1>7, EndKeeps DEF CInv, ConfigOK

LEMMA CrashKeeps == IInv /\ CInv /\ Crash => CInv'
  <1> SUFFICES ASSUME IInv, CInv, Crash PROVE CInv'
    OBVIOUS
  <1>1. UNCHANGED <<kind, cloud, config, tfstate>> /\ op'.step = "idle"
    BY FinishIsIdle DEF Crash
  <1>2. CloudAfter /\ ShowsAfter(tfstate')
    BY <1>1, SameCloudKeeps, HeldStillShown
  <1> QED
    BY <1>1, <1>2, EndKeeps DEF CInv, ConfigOK

\* A step of the API that changes no spec that the run relies on.
LEMMA CloudKeeps ==
    ASSUME IInv, CInv, CloudAfter, UNCHANGED <<kind, tfstate, config, op>>,
           op.step = "refreshed" /\ tfstate.id \in Ids
              => cloud'[tfstate.id].spec = cloud[tfstate.id].spec
    PROVE  CInv'
  <1>1. kind' = kind /\ tfstate' = tfstate /\ op' = op /\ config' = config
    OBVIOUS
  <1>2. CreatePlanned => CreatePlanned'
    BY SameTerms DEF CreatePlanned
  <1>3. UpdatePlanned => UpdatePlanned'
    BY SameTerms DEF UpdatePlanned
  <1>4. PlanOK'
    BY <1>1, <1>2, <1>3, SameTerms DEF CInv, PlanOK
  <1>5. SpecsOK' /\ StateShows(tfstate)'
    BY HeldStillShown, SpecsAreKept, StateIsShown
  <1>6. op.step \in {"createWait", "updateWait"} => StateShows(op.resp)'
    <2>1. SUFFICES ASSUME op.step \in {"createWait", "updateWait"}
                   PROVE  StateShows(op.resp)'
      OBVIOUS
    <2>2. StateShows(op.resp) /\ cloud[op.resp.id].status # "UNUSED"
      BY <2>1, AwaitedObject DEF CInv, ShownOK
    <2>3. ShowsAfter(op.resp)
      BY <2>2, StillShown
    <2> QED
      BY <1>1, <2>3, AnswerIsShown
  <1>7. ShownOK'
    BY <1>1, <1>5, <1>6 DEF ShownOK
  <1>8. RefreshedOK'
    <2>1. ModelSet(tfstate.model, cloud[tfstate.id].spec)'
             = ModelSet(tfstate.model, cloud'[tfstate.id].spec)
      BY <1>1 DEF ModelSet
    <2> QED
      BY <1>1, <2>1 DEF CInv, RefreshedOK
  <1>9. AwaitedOK'
    <2>1. ModelSet(op.plan, op.accepted)' = ModelSet(op.plan, op.accepted)
      BY <1>1 DEF ModelSet
    <2>2. Updated(op.accepted, op.plan, tfstate.model)'
             = Updated(op.accepted, op.plan, tfstate.model)
      BY <1>1 DEF Updated
    <2>3. /\ Created(op.plan)' = Created(op.plan)
          /\ SpecOK(op.accepted)' <=> SpecOK(op.accepted)
          /\ Shows(tfstate.model, op.accepted)'
                <=> Shows(tfstate.model, op.accepted)
          /\ Shows(op.plan, cloud[op.id].spec)'
                <=> Shows(op.plan, cloud'[op.id].spec)
      BY <1>1, SameTerms DEF Shows
    <2>4. op.step \in {"createWait", "updateWait"} /\ kind = "cluster"
             => Shows(op.plan, cloud'[op.id].spec)
      BY AwaitedObject, AwaitedIsStored DEF CloudAfter
    <2> QED
      BY <1>1, <2>1, <2>2, <2>3, <2>4 DEF CInv, AwaitedOK
  <1> QED
    BY <1>1, <1>4, <1>5, <1>7, <1>8, <1>9 DEF CInv, ConfigOK

LEMMA OutOfBandUpdateKeeps ==
    ASSUME IInv, CInv, NEW i \in Ids, OutOfBandUpdate(i)
    PROVE  CInv'
  <1>1. /\ UNCHANGED <<kind, tfstate, config, op>>
        /\ op.step # "refreshed"
        /\ cloud[i].status # "UNUSED" /\ kind \in Kinds
    BY DEF OutOfBandUpdate, TakesUpdates, CInv, ConfigOK
  <1>2. PICK c \in Configs[kind] :
          /\ ~Panics(FreshPlan(c))
          /\ cloud' = [cloud EXCEPT
                         ![i] = [status |-> "UPDATING",
                                 spec |-> ChangedElsewhere(cloud[i].spec,
                                                           FreshPlan(c))]]
    BY DEF OutOfBandUpdate
  <1>3. SpecOK(cloud[i].spec)
    BY <1>1 DEF CInv, SpecsOK
  <1> DEFINE new == ChangedElsewhere(cloud[i].spec, FreshPlan(c))
  <1>4. SpecOK(new) /\ \A m : Shows(m, cloud[i].spec) => Shows(m, new)
    BY <1>1, <1>2, <1>3, ChangedElsewhereIsSpec
  <1> HIDE DEF new
  <1>5. /\ cloud'[i].spec = new
        /\ \A j \in Ids \ {i} : cloud'[j] = cloud[j]
    BY <1>2, ObjectReplaced DEF IInv, new
  <1>6. CloudAfter
    BY <1>4, <1>5, SpecMade DEF CInv
  <1> QED
    BY <1>1, <1>6, CloudKeeps

LEMMA EnvironmentConfig ==
    ASSUME Environment
    PROVE  UNCHANGED config \/ Unmoved
  BY DEF Environment, Progress, RolloutFails, OutOfBandUpdate, OutOfBandDelete

LEMMA EnvironmentKeeps == IInv /\ CInv /\ Environment => CInv'
  <1> SUFFICES ASSUME IInv, CInv, Environment PROVE CInv'
    OBVIOUS
  <1>1. UNCHANGED <<kind, tfstate, op>>
    BY EnvironmentSteps
  <1>2. CASE Unmoved
    <2>1. CloudAfter /\ UNCHANGED cloud
      BY <1>2, SameCloudKeeps DEF Unmoved
    <2>2. CASE UNCHANGED config
      BY <1>1, <2>1, <2>2, CloudKeeps
    <2>3. CASE op.step = "idle" /\ config' \in Configs[kind] \cup {NoConfig}
      BY <1>1, <2>1, <2>3, HeldStillShown, EndKeeps
    <2> QED
      BY <1>2, <2>2, <2>3 DEF Unmoved
  <1>3. ASSUME NEW i \in Ids, NEW from, NEW to \in Reported \cup {"GONE"},
               SetStatus(i, from, to), from \subseteq Reported,
               UNCHANGED config
        PROVE  CInv'
    <2>1. \A j \in Ids : /\ cloud'[j].spec = cloud[j].spec
                         /\ cloud'[j].status # "UNUSED"
                               => cloud[j].status # "UNUSED"
      BY <1>3, StatusSteps DEF Found, Reported
    <2>2. CloudAfter
      BY <2>1, SpecsStay DEF CInv
    <2> QED
      BY <1>1, <1>3, <2>1, <2>2, CloudKeeps
  <1>4. ASSUME NEW i \in Ids, OutOfBandUpdate(i) PROVE CInv'
    BY <1>4, OutOfBandUpdateKeeps
  <1> QED
    BY <1>2, <1>3, <1>4, EnvironmentSteps, EnvironmentConfig

LEMMA InitKeeps == Init => CInv
  <1> SUFFICES ASSUME Init PROVE CInv
    OBVIOUS
  <1>1. /\ op.step = "idle" /\ tfstate = NoState /\ kind \in Kinds
        /\ config \in Configs[kind] /\ \A i \in Ids : cloud[i].status = "UNUSED"
    BY DEF Init, IdleOp, Unused
  <1>2. StateShows(tfstate)
    BY <1>1 DEF StateShows, NoState
  <1> QED
    BY <1>1, <1>2
      DEF CInv, ConfigOK, PlanOK, SpecsOK, ShownOK, RefreshedOK, AwaitedOK

LEMMA NextKeeps == IInv /\ CInv /\ [Next]_vars => CInv'
  <1> SUFFICES ASSUME IInv, CInv, [Next]_vars PROVE CInv'
    OBVIOUS
  <1> QED
    BY NextCases, RefreshKeeps, PlanKeeps, RequestCreateKeeps,
       AwaitCreateKeeps, RequestUpdateKeeps, AwaitUpdateKeeps,
       RequestDeleteKeeps, AwaitDeleteKeeps, WaitFailsKeeps,
       ImportStateKeeps, CrashKeeps, EnvironmentKeeps

\* In every behaviour of each of the five resources, the plan, the object and
\* what the state shows of it agree as CInv says.
THEOREM Conversion == Spec => []CInv
  <1> QED
    BY InitKeeps, NextKeeps, Invariance, PTL DEF Spec

-----------------------------------------------------------------------------
(* The three ends of a run *)

\* Only the end of a wait answers "inconsistent", and only it ends a wait well.
LEMMA OnlyWaitsAnswer ==
    ASSUME IInv, [Next]_vars,
           \/ op.step # "idle" /\ op'.result = "inconsistent"
           \/ op.step \in {"createWait", "updateWait"} /\ op'.result = "ok"
    PROVE  AwaitCreate \/ AwaitUpdate
  <1>1. op.result = "none" /\ op.step # "idle"
    BY DEF IInv, OpOK
  <1>2. ~Environment
    BY <1>1, EnvironmentSteps
  <1>3. \A r : op' = IdleOp(r) => op'.result = r
    BY IdleOpOK
  <1>4. \A state, r : Finish(state, r) => op'.result = r
    BY FinishIsIdle
  <1>5. \A step, id, resp, spec :
           \/ op' = [op EXCEPT !.step = step, !.id = id]
           \/ op' = [op EXCEPT !.step = step, !.id = id, !.resp = resp,
                               !.accepted = spec]
           => op'.result = "none"
    BY <1>1 DEF IInv, OpOK
  <1>6. ~Crash /\ ~WaitFails
    BY <1>4 DEF Crash, WaitFails
  <1>7. ~Refresh /\ ~ImportState
    BY <1>1 DEF Refresh, ImportState
  <1>8. ~Plan
    <2>1. /\ Start("delete", FALSE, Null) => op'.result = "none"
          /\ \A p : Start("delete", TRUE, p) => op'.result = "none"
          /\ \A p : Start("create", FALSE, p) => op'.result = "none"
          /\ \A p : Start("update", FALSE, p) => op'.result = "none"
      BY DEF Start, IdleOp
    <2>2. Plan => op.step = "refreshed"
      BY DEF Plan
    <2>3. Plan => op'.result \in {"ok", "error", "none"}
      BY <1>3, <2>1 DEF Plan, PlanFits
    <2> QED
      BY <2>2, <2>3
  <1>9. NoRequest => op'.result \in {"panic", "error"}
    BY <1>3 DEF NoRequest
  <1>10. ~RequestCreate
    <2>1. RequestCreate => op.step = "create"
      BY DEF RequestCreate
    <2>2. ASSUME NEW i \in Ids,
                 op' = [op EXCEPT !.step = "createWait", !.id = i,
                                  !.resp = SetFrom(PlanModel, i, FALSE, TRUE),
                                  !.accepted = cloud'[i].spec]
          PROVE  op'.result = "none"
      BY <1>5, <2>2
    <2>3. RequestCreate => op'.result \in {"panic", "error", "none"}
      BY <1>3, <1>9, <2>2 DEF RequestCreate
    <2> QED
      BY <2>1, <2>3
  <1>11. ~RequestUpdate
    <2>1. RequestUpdate => op.step = "update"
      BY DEF RequestUpdate
    <2>2. ASSUME op' = [op EXCEPT !.step = "updateWait", !.id = tfstate.id,
                                  !.resp = UpdateResponse(tfstate.id),
                                  !.accepted = cloud'[tfstate.id].spec]
          PROVE  op'.result = "none"
      BY <1>5, <2>2
    <2>3. RequestUpdate => op'.result \in {"panic", "error", "none"}
      BY <1>3, <1>9, <2>2 DEF RequestUpdate
    <2> QED
      BY <2>1, <2>3
  <1>12. Deleted => op'.result \in {"ok", "none"}
    <2>1. op' = [op EXCEPT !.step = "create", !.id = NoId]
             => op'.result = "none"
      BY <1>5
    <2> QED
      BY <1>3, <2>1 DEF Deleted
  <1>13. ~RequestDelete
    <2>1. RequestDelete => op.step = "delete"
      BY DEF RequestDelete
    <2>2. AwaitsDelete => op'.result = "none"
      BY <1>5 DEF AwaitsDelete
    <2>3. RequestDelete => op'.result \in {"ok", "error", "none"}
      BY <1>4, <1>12, <2>2 DEF RequestDelete
    <2> QED
      BY <2>1, <2>3
  <1>14. ~AwaitDelete
    <2>1. AwaitDelete => op.step = "deleteWait"
      BY DEF AwaitDelete
    <2>2. AwaitDelete => op'.result \in {"ok", "error", "none"}
      BY <1>4, <1>12 DEF AwaitDelete
    <2> QED
      BY <2>1, <2>2
  <1> QED
    BY <1>2, <1>6, <1>7, <1>8, <1>10, <1>11, <1>13, <1>14, NextCases

\* An answer is compared with the plan as the object's own.
Compared(answer) ==
    /\ op'.result = "ok" => Consistent(op.plan, answer)
    /\ op'.result = "inconsistent"
          => \/ ~Consistent(op.plan, answer)
             \/ op.step = "updateWait" /\ StatusWas(tfstate.status)

LEMMA AwaitsReady ==
    ASSUME NEW pending, Verdict(pending, ReadyTarget, Answer) = "done"
    PROVE  cloud[op.id].status = "READY"
  <1>1. Answer = "READY"
    BY DEF Verdict, ReadyTarget
  <1> QED
    BY <1>1 DEF Answer, RefreshError

LEMMA CreateEnds ==
    ASSUME IInv, CInv, AwaitCreate, op'.result # "error"
    PROVE  /\ op.step = "createWait" /\ cloud[op.id].status = "READY"
           /\ Compared(ModelSet(op.resp.model, cloud[op.id].spec))
  <1> DEFINE state == SetFrom(op.resp, op.id, FALSE, FALSE)
             spec == cloud[op.id].spec
  <1>1. op.step = "createWait" /\ UNCHANGED cloud /\ tfstate = NoState
    BY DEF AwaitCreate, IInv, RunShape
  <1>2. /\ Verdict(CreatePending, ReadyTarget, Answer) = "done"
        /\ op'.result = ApplyResult(state)
    <2>1. \A s, r : Finish(s, r) => op'.result = r
      BY FinishIsIdle
    <2> QED
      BY <2>1 DEF AwaitCreate
  <1>3. state.model = ModelSet(op.resp.model, spec)
    BY <1>1 DEF SetFrom
  <1>4. PlanModel.status = Unknown
    BY <1>1 DEF PlanModel
  <1> HIDE DEF state, spec
  <1>5. Compared(ModelSet(op.resp.model, spec))
    BY <1>2, <1>3, <1>4 DEF Compared, ApplyResult
  <1> QED
    BY <1>1, <1>2, <1>5, AwaitsReady DEF spec

LEMMA UpdateEnds ==
    ASSUME IInv, CInv, AwaitUpdate, op'.result # "error"
    PROVE  /\ op.step = "updateWait" /\ cloud[op.id].status = "READY"
           /\ Compared(ModelSet(op.plan, cloud[op.id].spec))
  <1> DEFINE state == SetFrom(PlanModel, op.id, TRUE, FALSE)
             spec == cloud[op.id].spec
  <1>1. op.step = "updateWait" /\ UNCHANGED cloud
    BY DEF AwaitUpdate
  <1>2. /\ Verdict(UpdatePending, ReadyTarget, Answer) = "done"
        /\ op'.result = ApplyResult(state)
    <2>1. \A s, r : Finish(s, r) => op'.result = r
      BY FinishIsIdle
    <2> QED
      BY <2>1 DEF AwaitUpdate
  <1>3. cloud[op.id].status = "READY"
    BY <1>2, AwaitsReady
  <1>4. tfstate # NoState
    BY <1>1, HeldIsState DEF IInv, RunShape
  <1>5. PlanModel.model = op.plan /\ PlanModel.status = tfstate.status
    BY <1>4 DEF PlanModel
  <1>6. state.model = ModelSet(op.plan, spec)
    BY <1>1, <1>5 DEF SetFrom
  <1>7. state.status = IF kind = "vpc" THEN Null
                       ELSE IF kind = "cluster" THEN "READY" ELSE tfstate.status
    BY <1>1, <1>3, <1>5 DEF SetFrom, ObservedStatus
  <1>8. kind = "vpc" => tfstate.status = Null
    BY <1>1, AwaitedObject
  <1> HIDE DEF state, spec
  <1>9. PlanModel.status \in {Unknown, state.status} \/ StatusWas(tfstate.status)
    BY <1>5, <1>7, <1>8 DEF StatusWas
  <1>10. Compared(ModelSet(op.plan, spec))
    BY <1>1, <1>2, <1>6, <1>9 DEF Compared, ApplyResult
  <1> QED
    BY <1>1, <1>3, <1>10 DEF spec

\* An answer that is as planned shows the prefixes of a VPC, unless it has none.
LEMMA PrefixesAgree ==
    ASSUME kind \in Kinds, kind = "vpc", config \in Configs[kind], NEW prior,
           NEW model, NEW spec, SpecOK(spec), spec.vpc_prefixes # {},
           Consistent(Planned(prior, config), ModelSet(model, spec))
    PROVE  spec.vpc_prefixes = OrZero(config.vpc_prefixes, {})
  <1> DEFINE plan == VpcPlan(prior, config)
             answer == VpcSet(model, spec)
  <1>1. VpcWellFormed(config) /\ VpcSpecOK(spec) /\ Consistent(plan, answer)
    BY ConfigCases DEF SpecOK, Planned, ModelSet
  <1>2. answer.vpc_prefixes = spec.vpc_prefixes
    BY <1>1, VpcSetFields
  <1>3. plan.vpc_prefixes = config.vpc_prefixes /\ DOMAIN plan = VpcFields
    BY <1>1, VpcPlanned
  <1> HIDE DEF plan, answer
  <1>4. \/ plan.vpc_prefixes = Unknown
        \/ answer.vpc_prefixes = plan.vpc_prefixes
    BY <1>1, <1>3 DEF Consistent, VpcFields
  <1>5. config.vpc_prefixes # Unknown
    BY <1>1 DEF VpcWellFormed, IsOptional
  <1>6. IsKnown(spec.vpc_prefixes)
    BY <1>1 DEF VpcSpecOK
  <1> QED
    BY <1>2, <1>3, <1>4, <1>5, <1>6 DEF OrZero

LEMMA SuccessStep ==
    ASSUME IInv, CInv, [Next]_vars,
           op.step \in {"createWait", "updateWait"}, op'.result = "ok"
    PROVE  /\ cloud[op.id].status = "READY" /\ AsAsked(cloud[op.id].spec)
           /\ kind = "vpc" /\ cloud[op.id].spec.vpc_prefixes # {}
                 => cloud[op.id].spec.vpc_prefixes
                       = OrZero(config.vpc_prefixes, {})
  <1> DEFINE spec == cloud[op.id].spec
  <1>1. /\ cloud[op.id].status = "READY"
        /\ \E model : Consistent(op.plan, ModelSet(model, spec))
    BY OnlyWaitsAnswer, CreateEnds, UpdateEnds DEF Compared
  <1>2. /\ kind \in Kinds /\ config \in Configs[kind]
        /\ SpecOK(spec) /\ StorageAsked(spec)
    BY AwaitedObject, AwaitedIsStored
  <1>3. PICK prior : op.plan = Planned(prior, config)
    BY AwaitedPlan
  <1> HIDE DEF spec
  <1>4. AsAsked(spec)
    BY <1>1, <1>2, <1>3, Agreement
  <1>5. kind = "vpc" /\ spec.vpc_prefixes # {}
           => spec.vpc_prefixes = OrZero(config.vpc_prefixes, {})
    BY <1>1, <1>2, <1>3, PrefixesAgree
  <1> QED
    BY <1>1, <1>4, <1>5 DEF spec

\* A Create or an Update of any of the five resources that ends without an
\* error leaves an object that is READY and as the configuration asks, whatever
\* has been changed elsewhere, before it or while it waited; of a VPC the
\* prefixes and of a cluster a webhook that is gone included, but for the two
\* changes during the wait that no answer shows.
THEOREM SuccessIsAsAsked == Spec => SuccessMeansAsAsked
  <1>1. IInv /\ CInv /\ [Next]_vars =>
          [op.step \in {"createWait", "updateWait"} /\ op'.result = "ok"
             => /\ cloud[op.id].status = "READY"
                /\ AsAsked(cloud[op.id].spec)
                /\ kind = "vpc" =>
                      \/ cloud[op.id].spec.vpc_prefixes
                            = OrZero(config.vpc_prefixes, {})
                      \/ ChangedMeanwhile("vpc_prefixes")
                            /\ cloud[op.id].spec.vpc_prefixes = {}
                /\ kind = "cluster" /\ op.step = "updateWait"
                      /\ tfstate.model.webhook # Null /\ config.webhook = Null
                      => \/ cloud[op.id].spec.webhook = Null
                         \/ ChangedMeanwhile("webhook")]_vars
    <2> SUFFICES ASSUME IInv, CInv, [Next]_vars,
                        op.step \in {"createWait", "updateWait"},
                        op'.result = "ok"
                 PROVE  /\ cloud[op.id].status = "READY"
                        /\ AsAsked(cloud[op.id].spec)
                        /\ kind = "vpc" =>
                              \/ cloud[op.id].spec.vpc_prefixes
                                    = OrZero(config.vpc_prefixes, {})
                              \/ ChangedMeanwhile("vpc_prefixes")
                                    /\ cloud[op.id].spec.vpc_prefixes = {}
                        /\ kind = "cluster" /\ op.step = "updateWait"
                              /\ tfstate.model.webhook # Null
                              /\ config.webhook = Null
                              => \/ cloud[op.id].spec.webhook = Null
                                 \/ ChangedMeanwhile("webhook")
      OBVIOUS
    <2>1. kind = "vpc" => \/ op.accepted.vpc_prefixes
                                = cloud[op.id].spec.vpc_prefixes
                          \/ ChangedMeanwhile("vpc_prefixes")
      BY DEF ChangedMeanwhile
    <2>2. kind = "cluster" => \/ op.accepted.webhook = cloud[op.id].spec.webhook
                              \/ ChangedMeanwhile("webhook")
      BY DEF ChangedMeanwhile
    <2> QED
      BY <2>1, <2>2, SuccessStep, AcceptedIsStored
  <1> QED
    BY <1>1, Invariance, Conversion, PTL DEF Spec, SuccessMeansAsAsked

\* Only a plan, after a refresh, ends a run without an error and without a
\* request: when the plan is what the state says.
LEMMA NoChangesStep ==
    ASSUME IInv, CInv, [Next]_vars, op.step = "refreshed", op'.result = "ok",
           config # NoConfig, Found(tfstate.id)
    PROVE  AsAsked(cloud[tfstate.id].spec)
  <1>1. op.result = "none"
    BY DEF IInv, OpOK
  <1>2. Plan
    <2>1. ~Environment
      BY <1>1, EnvironmentSteps
    <2> QED
      BY <2>1, NextCases
        DEF Refresh, WaitFails, ImportState, Crash, RequestCreate, AwaitCreate,
            RequestUpdate, AwaitUpdate, RequestDelete, AwaitDelete
  <1>3. \A r : op' = IdleOp(r) => op'.result = r
    BY IdleOpOK
  <1>4. /\ Start("delete", FALSE, Null) => op'.result = "none"
        /\ \A p : Start("delete", TRUE, p) => op'.result = "none"
        /\ \A p : Start("create", FALSE, p) => op'.result = "none"
        /\ \A p : Start("update", FALSE, p) => op'.result = "none"
    BY DEF Start, IdleOp
  <1>5. /\ tfstate # NoState /\ ~NeedsReplace
        /\ Planned(tfstate.model, config) = tfstate.model
    BY <1>2, <1>3, <1>4 DEF Plan, PlanFits
  <1> DEFINE spec == cloud[tfstate.id].spec
  <1>6. tfstate.id \in Ids /\ cloud[tfstate.id].status # "UNUSED"
    BY <1>5, HeldExists DEF IInv, RunShape
  <1>7. /\ kind \in Kinds /\ config \in Configs[kind] /\ SpecOK(spec)
        /\ Shows(tfstate.model, spec)
        /\ tfstate.model = ModelSet(tfstate.model, spec)
    BY <1>6 DEF CInv, ConfigOK, SpecsOK, ShownOK, StateShows, RefreshedOK
  <1> HIDE DEF spec
  <1>8. StorageAsked(spec)
    BY <1>5, <1>7
      DEF StorageAsked, Shows, NeedsReplace, ConfigForcesReplace,
          ClusterNeedsReplace, Immutable
  <1>9. Consistent(Planned(tfstate.model, config), ModelSet(tfstate.model, spec))
    BY <1>5, <1>7 DEF Consistent
  <1>10. AsAsked(spec)
    BY <1>7, <1>8, <1>9, Agreement
  <1> QED
    BY <1>10 DEF spec

\* A plan without changes, after a refresh, means that the object is what the
\* configuration asks for.
THEOREM NoChangesIsAsAsked == Spec => NoChangesMeansAsAsked
  <1>1. IInv /\ CInv /\ [Next]_vars =>
          [op.step = "refreshed" /\ op'.result = "ok" /\ config # NoConfig
             /\ Found(tfstate.id)
             => AsAsked(cloud[tfstate.id].spec)]_vars
    BY NoChangesStep
  <1> QED
    BY <1>1, Invariance, Conversion, PTL DEF Spec, NoChangesMeansAsAsked

\* The object that a run waits for is the one the API accepted, unless one of
\* its attributes has been changed.
LEMMA AcceptedObject ==
    ASSUME IInv, CInv, op.step \in {"createWait", "updateWait"},
           ~\E a \in DOMAIN op.accepted : ChangedMeanwhile(a)
    PROVE  cloud[op.id].spec = op.accepted
  <1>1. SpecOK(op.accepted) /\ SpecOK(cloud[op.id].spec)
    BY AwaitedObject DEF CInv, AwaitedOK
  <1>2. Complete(op.accepted) /\ Complete(cloud[op.id].spec)
    BY <1>1 DEF SpecOK
  <1>3. \A a \in DOMAIN op.accepted : cloud[op.id].spec[a] = op.accepted[a]
    BY DEF ChangedMeanwhile
  <1> QED
    BY <1>2, <1>3, SameSpec

LEMMA InconsistentStep ==
    ASSUME IInv, CInv, [Next]_vars, op.step # "idle",
           op'.result = "inconsistent"
    PROVE  \/ Lossy \/ RecordsStay(op.id)
           \/ \E a \in DOMAIN op.accepted : ChangedMeanwhile(a)
           \/ op.step = "updateWait"
                 /\ (StatusWas(tfstate.status) \/ ChangedUnsent)
  <1> DEFINE spec == cloud[op.id].spec
             answer == ModelSet(op.plan, spec)
  <1>1. SUFFICES ASSUME ~Lossy,
                        ~\E a \in DOMAIN op.accepted : ChangedMeanwhile(a),
                        ~(op.step = "updateWait" /\ StatusWas(tfstate.status))
                 PROVE  \/ RecordsStay(op.id)
                        \/ op.step = "updateWait" /\ ChangedUnsent
    OBVIOUS
  <1>2. \/ /\ op.step = "createWait"
           /\ ~Consistent(op.plan, ModelSet(op.resp.model, spec))
        \/ op.step = "updateWait" /\ ~Consistent(op.plan, answer)
    BY <1>1, OnlyWaitsAnswer, CreateEnds, UpdateEnds DEF Compared
  <1>3. spec = op.accepted
    BY <1>1, <1>2, AcceptedObject
  <1>4. CASE op.step = "createWait"
    <2>1. /\ kind \in Kinds /\ config \in Configs[kind]
          /\ op.plan = FreshPlan(config) /\ SpecOK(spec)
      BY <1>4, AwaitedObject
    <2>2. spec = Created(FreshPlan(config)) /\ op.resp.model = answer
      BY <1>3, <1>4, <2>1 DEF CInv, AwaitedOK
    <2> HIDE DEF spec
    <2>3. ModelSet(op.resp.model, spec) = answer
      BY <2>1, <2>2, SetTwice
    <2>4. ~Consistent(op.plan, answer)
      BY <1>2, <1>4, <2>3 DEF spec
    <2>5. /\ kind = "gateway"
          /\ ~(spec.additional_dns \subseteq OrZero(config.additional_dns, {}))
      BY <1>1, <2>1, <2>2, <2>4, ComesBack
    <2> QED
      BY <2>5 DEF RecordsStay, spec
  <1>5. CASE op.step = "updateWait"
    <2>1. /\ kind \in Kinds /\ config \in Configs[kind]
          /\ op.plan = Planned(tfstate.model, config)
          /\ ~ConfigForcesReplace(tfstate.model) /\ ~Panics(op.plan)
          /\ SpecOK(spec) /\ Shows(tfstate.model, spec)
      BY <1>5, AwaitedObject
    <2>2. spec = Updated(spec, op.plan, tfstate.model)
      BY <1>3, <1>5 DEF CInv, AwaitedOK
    <2> HIDE DEF spec
    <2>3. \/ Consistent(op.plan, answer)
          \/ kind = "gateway"
                /\ ~(spec.additional_dns
                        \subseteq OrZero(config.additional_dns, {}))
          \/ kind = "cluster"
                /\ \E a \in DOMAIN answer : answer[a] # op.plan[a]
                                              /\ op.plan[a] = tfstate.model[a]
      BY <1>1, <2>1, <2>2, UpdateComesBack
    <2> QED
      BY <1>2, <1>5, <2>3 DEF RecordsStay, ChangedUnsent, spec
  <1> QED
    BY <1>2, <1>4, <1>5

\* "Provider produced inconsistent result after apply" is answered only for
\* the configurations listed as lossy, for records that stay, for the two ends
\* of a cluster's Update, and for an object changed while the run waited.
THEOREM InconsistentIsLossy == Spec => InconsistentOnlyIfLossy
  <1>1. IInv /\ CInv /\ [Next]_vars =>
          [op.step # "idle" /\ op'.result = "inconsistent"
             => \/ Lossy \/ RecordsStay(op.id)
                \/ \E a \in DOMAIN op.accepted : ChangedMeanwhile(a)
                \/ op.step = "updateWait"
                      /\ (StatusWas(tfstate.status) \/ ChangedUnsent)]_vars
    BY InconsistentStep
  <1> QED
    BY <1>1, Invariance, Conversion, PTL DEF Spec, InconsistentOnlyIfLossy
=============================================================================
