----------------------- MODULE ClusterResource_proofs -----------------------
(***************************************************************************)
(* Proofs about ClusterResource, for every set of ids, attributes, values  *)
(* and specs and for every bound: type correctness, that no cluster is     *)
(* orphaned, that a cluster is forgotten only once it is gone, that the    *)
(* resource implements ObjectOwnership, and what an apply leaves behind.   *)
(***************************************************************************)
EXTENDS ClusterResource, TLAPS

\* What the run in flight says about Terraform's state: a Create starts from
\* an empty one, and the other operations work on the cluster it holds.
RunShape ==
    /\ op.step \in {"create", "createWait"} => tfstate = NoState
    /\ op.step \in {"update", "updateWait", "delete", "deleteWait"}
          => tfstate # NoState
    /\ op.step \in {"create", "createWait", "update", "updateWait"}
          => op.plan # NoConfig
    /\ op.replace => op.plan # NoConfig
    /\ op.step \in {"createWait", "updateWait", "deleteWait"} => op.id # NoId
    /\ op.step = "createWait" => op.resp # NoState /\ op.resp.id = op.id
    /\ op.step \in {"updateWait", "deleteWait"} => op.id = tfstate.id

\* A cluster Terraform knows or holds has been created.
Created ==
    /\ \A i \in known : cloud[i].status # "UNUSED"
    /\ \A i \in Ids : Tracks(i) => cloud[i].status # "UNUSED"

IInv == TypeOK /\ RunShape /\ Created /\ NoOrphan

USE IdAssumption, AttrAssumption, SpecAssumption, BoundAssumption,
    StateAssumption

-----------------------------------------------------------------------------
(* Lemmas *)

\* Set leaves a spec, whatever model it is called on.
LEMMA SetSpecType ==
    ASSUME NEW model \in [Attrs -> Vals], NEW got \in [Attrs -> Vals]
    PROVE  SetSpec(model, got) \in [Attrs -> Vals]
  BY DEF SetSpec

\* Set leaves a state, for a cluster the API answers.
LEMMA SetStateType ==
    ASSUME TypeOK, NEW i \in Ids, Found(i),
           NEW model \in [Attrs -> Vals], NEW tainted \in BOOLEAN
    PROVE  /\ SetState(i, model, tainted) \in State
           /\ SetState(i, model, tainted).id = i
           /\ SetState(i, model, tainted) # NoState
  <1>1. SetSpec(model, cloud[i].spec) \in [Attrs -> Vals]
    BY SetSpecType DEF TypeOK
  <1>2. cloud[i].status \in Reported
    BY DEF Found
  <1> QED
    BY <1>1, <1>2 DEF SetState, State

\* An idle run is well-formed.
LEMMA IdleOpType ==
    ASSUME TypeOK, NEW result \in Results
    PROVE  /\ IdleOp(result) \in Op
           /\ IdleOp(result).step = "idle"
           /\ ~IdleOp(result).replace
           /\ IdleOp(result).result = result
  BY DEF IdleOp, TypeOK, Op, Steps, Reported

\* So is one that a plan starts.
LEMMA PlannedOpType ==
    ASSUME TypeOK, NEW step \in Steps, NEW replace \in BOOLEAN,
           NEW fresh \in BOOLEAN
    PROVE  /\ PlannedOp(step, replace, fresh) \in Op
           /\ PlannedOp(step, replace, fresh).step = step
           /\ PlannedOp(step, replace, fresh).replace = replace
           /\ PlannedOp(step, replace, fresh).plan = config
  <1>1. IdleOp("none") \in Op
    BY IdleOpType DEF Results
  <1>2. (IF tfstate = NoState THEN "UNSPECIFIED" ELSE PlannedStatus(tfstate))
            \in Reported
    BY DEF TypeOK, PlannedStatus, State, Reported
  <1>3. config \in [Attrs -> Vals] \cup {NoConfig}
    BY DEF TypeOK
  <1> QED
    BY <1>1, <1>2, <1>3 DEF PlannedOp, Op

\* A budget stays within its bounds when it is charged.
LEMMA ChargeType ==
    ASSUME TypeOK, NEW kind \in {"faults", "orphans", "edits"}, Charge(kind)
    PROVE  budget' \in Budget
  BY DEF TypeOK, Charge, Budget

\* What an apply reports is a result.
LEMMA ApplyResultType ==
    ASSUME NEW state
    PROVE  ApplyResult(state) \in Results
  BY DEF ApplyResult, Results

\* A cluster, once it exists, never becomes unborn and never revives.
CloudType == [Ids -> [status : Reported \cup {"UNUSED", "GONE"},
                      spec : [Attrs -> Vals]]]

Monotone ==
    \A i \in Ids : cloud[i].status # "UNUSED" =>
        cloud'[i].status # "UNUSED" /\ (Live(i)' => Live(i))

\* The run in flight is what it was; at most its history now says that
\* somebody changed the cluster.
SameRun ==
    /\ op' \in Op
    /\ op'.step = op.step /\ op'.replace = op.replace /\ op'.plan = op.plan
    /\ op'.id = op.id /\ op'.resp = op.resp /\ op'.result = op.result
    /\ op'.fresh => op.fresh

\* Steps of the API and its users change no more of it, and no state.
LEMMA EnvironmentKeepsRun ==
    ASSUME IInv, Environment
    PROVE  SameRun /\ UNCHANGED tfstate
  <1>1. op \in Op
    BY DEF IInv, TypeOK
  <1>2. ASSUME NEW i \in Ids, OutOfBandUpdate(i)
        PROVE  SameRun /\ UNCHANGED tfstate
    <2>1. /\ op' = [op EXCEPT !.fresh = op.fresh /\ ~Tracks(i)]
          /\ UNCHANGED tfstate
      BY <1>2 DEF OutOfBandUpdate
    <2>2. op'.fresh = (op.fresh /\ ~Tracks(i))
      BY <1>1, <2>1 DEF Op
    <2>3. op' \in Op
      BY <1>1, <2>1 DEF Op
    <2>4. /\ op'.step = op.step /\ op'.replace = op.replace
          /\ op'.plan = op.plan /\ op'.id = op.id /\ op'.resp = op.resp
          /\ op'.result = op.result
      BY <1>1, <2>1 DEF Op
    <2> QED
      BY <2>1, <2>2, <2>3, <2>4 DEF SameRun
  <1>3. CASE ~\E i \in Ids : OutOfBandUpdate(i)
    <2>1. UNCHANGED <<tfstate, op>>
      BY <1>3 DEF Environment, EditConfig, Progress, RolloutFails,
         OutOfBandDelete, OutOfBandCreate
    <2> QED
      BY <1>1, <2>1 DEF SameRun
  <1> QED
    BY <1>2, <1>3

LEMMA EnvironmentPreserves ==
    ASSUME IInv, Monotone, cloud' \in CloudType, budget' \in Budget,
           config' \in Specs \cup {NoConfig}, SameRun,
           UNCHANGED <<tfstate, known>>
    PROVE  IInv'
  <1>1. TypeOK'
    BY DEF IInv, TypeOK, CloudType, SameRun
  <1>2. RunShape'
    BY DEF IInv, RunShape, SameRun
  <1>3. Created' /\ NoOrphan'
    BY DEF IInv, TypeOK, Created, NoOrphan, Monotone, Tracks, SameRun
  <1> QED
    BY <1>1, <1>2, <1>3 DEF IInv

\* A run ends with state "state": every known live cluster must be in it.
LEMMA EndPreserves ==
    ASSUME IInv, Monotone, cloud' \in CloudType, budget' \in Budget,
           UNCHANGED config,
           NEW state \in State \cup {NoState}, NEW result \in Results,
           Finish(state, result),
           known' \subseteq known,
           \A i \in known' : Live(i) => state # NoState /\ state.id = i,
           state # NoState => cloud[state.id].status # "UNUSED"
    PROVE  IInv'
  <1>1. /\ op' \in Op /\ op'.step = "idle" /\ ~op'.replace
    BY IdleOpType DEF IInv, Finish
  <1>2. TypeOK'
    BY <1>1 DEF IInv, TypeOK, CloudType, Finish
  <1>3. RunShape'
    BY <1>1 DEF RunShape
  <1>4. \A i \in known' : cloud'[i].status # "UNUSED" /\ (Live(i)' => Live(i))
    BY DEF IInv, TypeOK, Created, Monotone
  <1>5. Created' /\ NoOrphan'
    <2>1. \A i \in Ids : Tracks(i)' => cloud'[i].status # "UNUSED"
      BY <1>1 DEF Tracks, Finish, Monotone, State
    <2>2. NoOrphan'
      BY <1>4 DEF NoOrphan, Tracks, Finish
    <2> QED
      BY <1>4, <2>1, <2>2 DEF Created
  <1> QED
    BY <1>2, <1>3, <1>5 DEF IInv

\* Nothing changes in the API while an answer is read.
LEMMA UnchangedMonotone ==
    ASSUME UNCHANGED cloud, TypeOK
    PROVE  Monotone /\ cloud' \in CloudType
  BY DEF Monotone, TypeOK, CloudType, Live, Found

-----------------------------------------------------------------------------
(* One lemma per action of Terraform and the provider *)

LEMMA ReadPreserves == IInv /\ Read => IInv'
  <1> SUFFICES ASSUME IInv, Read PROVE IInv'
    OBVIOUS
  <1>1. Monotone /\ cloud' \in CloudType
    BY UnchangedMonotone DEF IInv, Read
  <1>2. /\ op' \in Op /\ op'.step = "refreshed" /\ ~op'.replace
    <2>1. IdleOp("none") \in Op /\ ~IdleOp("none").replace
      BY IdleOpType DEF IInv, Results
    <2> QED
      BY <2>1 DEF Read, Op, Steps
  <1>3. CASE tfstate = NoState \/ ~Found(tfstate.id)
    <2>1. tfstate' = NoState
      BY <1>3 DEF Read
    <2>2. TypeOK'
      BY <1>1, <1>2, <2>1 DEF Read, IInv, TypeOK
    <2>3. RunShape'
      BY <1>2 DEF RunShape
    <2>4. \A i \in known : ~Live(i)
      BY <1>3 DEF Read, IInv, NoOrphan, Tracks, Live
    <2>5. Created' /\ NoOrphan'
      BY <1>1, <1>2, <2>1, <2>4 DEF Read, IInv, TypeOK, Created, NoOrphan,
         Monotone, Tracks
    <2> QED
      BY <2>2, <2>3, <2>5 DEF IInv
  <1>4. CASE tfstate # NoState /\ Found(tfstate.id)
    <2>1. /\ tfstate' \in State /\ tfstate'.id = tfstate.id
          /\ tfstate' # NoState
      <3>1. /\ tfstate.id \in Ids /\ tfstate.spec \in [Attrs -> Vals]
            /\ tfstate.tainted \in BOOLEAN
        BY <1>4 DEF IInv, TypeOK, State
      <3>2. tfstate' = SetState(tfstate.id, tfstate.spec, tfstate.tainted)
        BY <1>4 DEF Read
      <3> QED
        BY <1>4, <3>1, <3>2, SetStateType DEF IInv
    <2>2. TypeOK'
      BY <1>1, <1>2, <2>1 DEF Read, IInv, TypeOK
    <2>3. RunShape'
      BY <1>2 DEF RunShape
    <2>4. Created' /\ NoOrphan'
      BY <1>1, <1>2, <1>4, <2>1 DEF Read, IInv, TypeOK, Created, NoOrphan,
         Monotone, Tracks
    <2> QED
      BY <2>2, <2>3, <2>4 DEF IInv
  <1> QED
    BY <1>3, <1>4

LEMMA PlanPreserves ==
    ASSUME IInv, NEW fresh \in BOOLEAN, PlanFrom(fresh),
           op.step \in {"idle", "refreshed"}, budget' \in Budget
    PROVE  IInv'
  <1>1. Monotone /\ cloud' \in CloudType /\ UNCHANGED <<tfstate, config, known>>
    BY UnchangedMonotone DEF IInv, PlanFrom
  <1>2. /\ op' \in Op
        /\ op'.step \in {"idle", "create", "update", "delete"}
        /\ op'.step = "create" => tfstate = NoState
        /\ op'.step \in {"update", "delete"} => tfstate # NoState
        /\ op'.step \in {"create", "update"} => op'.plan # NoConfig
        /\ op'.replace => op'.plan # NoConfig
    <2>1. /\ IdleOp("ok") \in Op /\ IdleOp("ok").step = "idle"
          /\ ~IdleOp("ok").replace
      BY IdleOpType DEF IInv, Results
    <2>2. [IdleOp("ok") EXCEPT !.fresh = fresh] \in Op
      BY <2>1 DEF Op
    <2>3. CASE op' = [IdleOp("ok") EXCEPT !.fresh = fresh]
      <3>1. op'.step = "idle" /\ ~op'.replace
        BY <2>1, <2>3 DEF Op
      <3> QED
        BY <2>2, <2>3, <3>1
    <2>4. ASSUME NEW step \in {"create", "update", "delete"},
                 NEW replace \in BOOLEAN,
                 op' = PlannedOp(step, replace, fresh)
          PROVE  op' \in Op /\ op'.step = step /\ op'.replace = replace
                 /\ op'.plan = config
      BY <2>4, PlannedOpType DEF IInv, Steps
    <2> QED
      BY <2>3, <2>4 DEF PlanFrom
  <1>3. TypeOK'
    BY <1>1, <1>2 DEF IInv, TypeOK, CloudType
  <1>4. RunShape'
    BY <1>1, <1>2 DEF RunShape
  <1>5. Created' /\ NoOrphan'
    BY <1>1, <1>2 DEF IInv, TypeOK, Created, NoOrphan, Monotone, Tracks
  <1> QED
    BY <1>3, <1>4, <1>5 DEF IInv

LEMMA CreateClusterPreserves == IInv /\ CreateCluster => IInv'
  <1> SUFFICES ASSUME IInv, CreateCluster PROVE IInv'
    OBVIOUS
  <1>1. /\ tfstate = NoState /\ op.plan \in [Attrs -> Vals]
        /\ UNCHANGED <<tfstate, config>> /\ op.step = "create"
    BY DEF CreateCluster, IInv, RunShape, TypeOK, Op
  <1>2. ASSUME NEW i \in Ids, CreateAccepted(i)
        PROVE  /\ Monotone \* the new cluster was unborn
               /\ cloud' \in CloudType
               /\ cloud'[i].status # "UNUSED"
               /\ cloud'[i].status \in Reported
               /\ cloud[i].status = "UNUSED"
    BY <1>1, <1>2 DEF CreateAccepted, IInv, TypeOK, CloudType, Reported,
       Monotone, Live, Found
  <1>3. \A i \in known : ~Live(i)
    BY <1>1 DEF IInv, NoOrphan, Tracks
  <1>4. ASSUME NEW i \in Ids, CreateAccepted(i),
               op' = [op EXCEPT
                        !.step = "createWait", !.id = i,
                        !.resp = [id |-> i, status |-> cloud'[i].status,
                                  spec |-> SetSpec(op.plan, op.plan),
                                  tainted |-> TRUE]],
               known' = known \cup {i},
               UNCHANGED budget
        PROVE  IInv'
    <2>1. [id |-> i, status |-> cloud'[i].status,
           spec |-> SetSpec(op.plan, op.plan), tainted |-> TRUE] \in State
      BY <1>1, <1>2, <1>4, SetSpecType DEF State
    <2>2. op' \in Op /\ op'.step = "createWait" /\ op'.id = i
          /\ op'.resp # NoState /\ op'.resp.id = i /\ op'.plan = op.plan
      BY <1>4, <2>1 DEF IInv, TypeOK, Op, Steps
    <2>3. TypeOK'
      BY <1>1, <1>2, <1>4, <2>2 DEF IInv, TypeOK, CloudType
    <2>4. RunShape'
      BY <1>1, <1>4, <2>2, SpecAssumption DEF RunShape
    <2>5. Created' /\ NoOrphan'
      BY <1>1, <1>2, <1>3, <1>4, <2>2 DEF IInv, TypeOK, Created, NoOrphan,
         Monotone, Tracks
    <2> QED
      BY <2>3, <2>4, <2>5 DEF IInv
  <1>5. ASSUME op' = IdleOp("error"), Monotone, cloud' \in CloudType,
               budget' \in Budget, UNCHANGED known
        PROVE  IInv'
    <2>1. Finish(NoState, "error")
      BY <1>1, <1>5 DEF Finish
    <2> QED
      BY <1>1, <1>3, <1>5, <2>1, EndPreserves DEF Results
  <1>6. UNCHANGED budget => budget' \in Budget
    BY DEF IInv, TypeOK
  <1>7. UNCHANGED cloud => Monotone /\ cloud' \in CloudType
    BY UnchangedMonotone DEF IInv
  <1>8. /\ Charge("orphans") => budget' \in Budget
        /\ Charge("faults") => budget' \in Budget
    BY ChargeType DEF IInv
  <1> QED
    BY <1>2, <1>4, <1>5, <1>6, <1>7, <1>8 DEF CreateCluster

LEMMA CreatePollPreserves == IInv /\ CreatePoll => IInv'
  <1> SUFFICES ASSUME IInv, CreatePoll PROVE IInv'
    OBVIOUS
  <1>1. /\ op.step = "createWait" /\ op.id \in Ids /\ tfstate = NoState
        /\ op.resp \in State /\ op.resp.id = op.id /\ op.resp # NoState
        /\ op.resp.spec \in [Attrs -> Vals]
    BY DEF CreatePoll, IInv, RunShape, TypeOK, Op, State
  <1>2. /\ Monotone /\ cloud' \in CloudType /\ UNCHANGED <<config, known>>
        /\ budget' \in Budget
    BY UnchangedMonotone DEF CreatePoll, IInv, TypeOK
  <1>3. cloud[op.id].status # "UNUSED"
    BY <1>1 DEF IInv, Created, Tracks
  <1>4. \A i \in known : Live(i) => i = op.id
    BY <1>1 DEF IInv, NoOrphan, Tracks
  <1>5. ASSUME NEW state \in State, state.id = op.id, NEW result \in Results,
               Finish(state, result)
        PROVE  IInv'
    <2>1. state # NoState
      BY StateAssumption
    <2> QED
      BY <1>2, <1>3, <1>4, <1>5, <2>1, EndPreserves
  <1>6. Found(op.id) => \A t \in BOOLEAN :
            LET state == SetState(op.id, op.resp.spec, t)
            IN  state \in State /\ state.id = op.id
    BY <1>1, SetStateType DEF IInv
  <1>7. ASSUME Found(op.id), Finish(SetState(op.id, op.resp.spec, TRUE), "error")
        PROVE  IInv'
    BY <1>5, <1>6, <1>7 DEF Results
  <1>8. ASSUME Found(op.id),
               LET state == SetState(op.id, op.resp.spec, FALSE)
               IN  Finish([state EXCEPT !.tainted = ApplyResult(state) # "ok"],
                          ApplyResult(state))
        PROVE  IInv'
    <2> DEFINE state == SetState(op.id, op.resp.spec, FALSE)
               saved == [state EXCEPT !.tainted = ApplyResult(state) # "ok"]
    <2>1. state \in State /\ state.id = op.id
      BY <1>6, <1>8
    <2> HIDE DEF state
    <2>2. saved \in State /\ saved.id = op.id
      BY <2>1 DEF State
    <2>3. ApplyResult(state) \in Results
      BY ApplyResultType
    <2>4. Finish(saved, ApplyResult(state))
      BY <1>8 DEF state
    <2> QED
      BY <1>5, <2>2, <2>3, <2>4
  <1>9. ASSUME Finish(op.resp, "error") PROVE IInv'
    BY <1>1, <1>5, <1>9 DEF Results
  <1>10. ASSUME ~Found(op.id) PROVE Finish(op.resp, "error")
    BY <1>10 DEF CreatePoll, Verdict, RefreshError, ReadyTarget
  <1> QED
    BY <1>7, <1>8, <1>9, <1>10 DEF CreatePoll

\* An error that leaves Terraform's state alone, in any step but the ones of
\* a Create.
LEMMA KeepStatePreserves ==
    ASSUME IInv, Monotone, cloud' \in CloudType, budget' \in Budget,
           UNCHANGED <<config, known>>,
           op.step # "createWait",
           NEW result \in Results, Finish(tfstate, result)
    PROVE  IInv'
  <1>1. \A i \in known : Live(i) => tfstate # NoState /\ tfstate.id = i
    BY DEF IInv, NoOrphan, Tracks
  <1>2. tfstate # NoState => cloud[tfstate.id].status # "UNUSED"
    BY DEF IInv, TypeOK, Created, Tracks, State
  <1>3. tfstate \in State \cup {NoState}
    BY DEF IInv, TypeOK
  <1> QED
    BY <1>1, <1>2, <1>3, EndPreserves

\* A wait starts on the cluster in Terraform's state.
LEMMA WaitPreserves ==
    ASSUME IInv, Monotone, cloud' \in CloudType, budget' \in Budget,
           UNCHANGED <<tfstate, config, known>>,
           NEW step \in {"updateWait", "deleteWait"},
           op.step \in {"update", "delete"},
           step = "updateWait" => op.step = "update",
           op' = [op EXCEPT !.step = step, !.id = tfstate.id]
    PROVE  IInv'
  <1>1. tfstate # NoState /\ tfstate.id \in Ids
    BY DEF IInv, RunShape, TypeOK, State
  <1>2. /\ op' \in Op /\ op'.step = step /\ op'.id = tfstate.id
        /\ op'.plan = op.plan /\ op'.replace = op.replace
    BY <1>1 DEF IInv, TypeOK, Op, Steps
  <1>3. TypeOK'
    BY <1>2 DEF IInv, TypeOK, CloudType
  <1>4. RunShape'
    BY <1>1, <1>2 DEF IInv, RunShape
  <1>5. Created' /\ NoOrphan'
    BY <1>2 DEF IInv, TypeOK, Created, NoOrphan, Monotone, Tracks
  <1> QED
    BY <1>3, <1>4, <1>5 DEF IInv

LEMMA UpdateClusterPreserves == IInv /\ UpdateCluster => IInv'
  <1> SUFFICES ASSUME IInv, UpdateCluster PROVE IInv'
    OBVIOUS
  <1>1. /\ op.step = "update" /\ tfstate # NoState /\ tfstate.id \in Ids
        /\ tfstate \in State /\ op.plan \in [Attrs -> Vals]
        /\ UNCHANGED <<tfstate, config, known>>
    BY DEF UpdateCluster, IInv, RunShape, TypeOK, State, Op
  <1>2. UpdateAccepted(tfstate.id) => Monotone /\ cloud' \in CloudType
    <2> SUFFICES ASSUME UpdateAccepted(tfstate.id)
                 PROVE  Monotone /\ cloud' \in CloudType
      OBVIOUS
    <2> DEFINE i == tfstate.id
               spec == ApplyUpdate(cloud[i].spec, op.plan,
                                   UpdateMask(op.plan, tfstate))
    <2>1. spec \in [Attrs -> Vals]
      BY <1>1 DEF ApplyUpdate, IInv, TypeOK
    <2>2. PICK st \in {"RUNNING", "UPDATING", "UPGRADING"} :
            cloud' = [cloud EXCEPT ![i] = [status |-> st, spec |-> spec]]
      BY DEF UpdateAccepted, Updatable
    <2>3. cloud[i].status \in {"RUNNING", "UPDATING", "UPGRADING", "FAILED"}
      BY DEF UpdateAccepted, Updatable
    <2> HIDE DEF spec
    <2> QED
      BY <1>1, <2>1, <2>2, <2>3 DEF IInv, TypeOK, CloudType, Reported,
         Monotone, Live, Found
  <1>3. UNCHANGED cloud => Monotone /\ cloud' \in CloudType
    BY UnchangedMonotone DEF IInv
  <1>4. (UNCHANGED budget \/ Charge("faults")) => budget' \in Budget
    BY ChargeType DEF IInv, TypeOK
  <1>5. ASSUME op' = IdleOp("error"), Monotone, cloud' \in CloudType,
               budget' \in Budget
        PROVE  IInv'
    BY <1>1, <1>5, KeepStatePreserves DEF Finish, Results
  <1>6. ASSUME op' = [op EXCEPT !.step = "updateWait", !.id = tfstate.id],
               Monotone, cloud' \in CloudType, budget' \in Budget
        PROVE  IInv'
    BY <1>1, <1>6, WaitPreserves
  <1> QED
    BY <1>2, <1>3, <1>4, <1>5, <1>6 DEF UpdateCluster

LEMMA UpdatePollPreserves == IInv /\ UpdatePoll => IInv'
  <1> SUFFICES ASSUME IInv, UpdatePoll PROVE IInv'
    OBVIOUS
  <1>1. /\ op.step = "updateWait" /\ tfstate # NoState /\ op.id = tfstate.id
        /\ op.id \in Ids /\ op.plan \in [Attrs -> Vals]
    BY DEF UpdatePoll, IInv, RunShape, TypeOK, Op, State
  <1>2. /\ Monotone /\ cloud' \in CloudType /\ UNCHANGED <<config, known>>
        /\ budget' \in Budget
    BY UnchangedMonotone DEF UpdatePoll, IInv, TypeOK
  <1>3. ASSUME Finish(tfstate, "error") PROVE IInv'
    BY <1>1, <1>2, <1>3, KeepStatePreserves DEF Results
  <1>4. ASSUME Found(op.id),
               LET state == SetState(op.id, op.plan, FALSE)
               IN  Finish(state, ApplyResult(state))
        PROVE  IInv'
    <2> DEFINE state == SetState(op.id, op.plan, FALSE)
    <2>1. state \in State /\ state.id = op.id /\ state # NoState
      BY <1>1, <1>4, SetStateType DEF IInv
    <2>2. \A i \in known : Live(i) => i = op.id
      BY <1>1 DEF IInv, NoOrphan, Tracks
    <2>3. cloud[op.id].status # "UNUSED"
      BY <1>1 DEF IInv, Created, Tracks
    <2>4. ApplyResult(state) \in Results /\ Finish(state, ApplyResult(state))
      BY <1>4, ApplyResultType
    <2> HIDE DEF state
    <2> QED
      BY <1>2, <2>1, <2>2, <2>3, <2>4, EndPreserves
  <1>5. ASSUME ~Found(op.id) PROVE Finish(tfstate, "error")
    BY <1>5 DEF UpdatePoll, Verdict, RefreshError, ReadyTarget
  <1> QED
    BY <1>3, <1>4, <1>5 DEF UpdatePoll

\* Delete returns: the cluster it worked on is gone.
LEMMA DeletedPreserves ==
    ASSUME IInv, UNCHANGED <<cloud, config, known, budget>>, Deleted,
           op.step \in {"delete", "deleteWait"}, ~Live(tfstate.id)
    PROVE  IInv'
  <1>1. \A i \in known : ~Live(i)
    BY DEF IInv, NoOrphan, Tracks
  <1>2. Monotone /\ cloud' \in CloudType /\ budget' \in Budget
    BY UnchangedMonotone DEF IInv, TypeOK
  <1>3. CASE op.replace
    <2>1. /\ tfstate' = NoState /\ op' \in Op /\ op'.step = "create"
          /\ op'.plan = op.plan /\ op.plan # NoConfig
      BY <1>3 DEF Deleted, IInv, RunShape, TypeOK, Op, Steps
    <2>2. TypeOK'
      BY <1>2, <2>1 DEF IInv, TypeOK, CloudType
    <2>3. RunShape'
      BY <2>1 DEF RunShape
    <2>4. Created' /\ NoOrphan'
      BY <1>1, <1>2, <2>1 DEF IInv, TypeOK, Created, NoOrphan, Monotone, Tracks
    <2> QED
      BY <2>2, <2>3, <2>4 DEF IInv
  <1>4. CASE ~op.replace
    <2>1. Finish(NoState, "ok")
      BY <1>4 DEF Deleted, Finish
    <2> QED
      BY <1>1, <1>2, <2>1, EndPreserves DEF Results
  <1> QED
    BY <1>3, <1>4

LEMMA DeleteClusterPreserves == IInv /\ DeleteCluster => IInv'
  <1> SUFFICES ASSUME IInv, DeleteCluster PROVE IInv'
    OBVIOUS
  <1>1. /\ op.step = "delete" /\ tfstate # NoState /\ tfstate.id \in Ids
        /\ UNCHANGED <<config, known>>
    BY DEF DeleteCluster, IInv, RunShape, TypeOK, State
  <1>2. DeleteAccepted(tfstate.id) => Monotone /\ cloud' \in CloudType
    <2>1. ASSUME NEW st \in {"DELETING", "GONE"}, Live(tfstate.id),
                 cloud' = [cloud EXCEPT ![tfstate.id].status = st]
          PROVE  Monotone /\ cloud' \in CloudType
      BY <1>1, <2>1 DEF IInv, TypeOK, CloudType, Reported, Monotone, Live, Found
    <2> QED
      BY <2>1, UnchangedMonotone DEF DeleteAccepted, IInv
  <1>3. UNCHANGED cloud => Monotone /\ cloud' \in CloudType
    BY UnchangedMonotone DEF IInv
  <1>4. (UNCHANGED budget \/ Charge("faults")) => budget' \in Budget
    BY ChargeType DEF IInv, TypeOK
  <1>5. ASSUME Finish(tfstate, "error"), Monotone, cloud' \in CloudType,
               budget' \in Budget
        PROVE  IInv'
    BY <1>1, <1>5, KeepStatePreserves DEF Results
  <1>6. ASSUME op' = [op EXCEPT !.step = "deleteWait", !.id = tfstate.id],
               UNCHANGED tfstate,
               Monotone, cloud' \in CloudType, budget' \in Budget
        PROVE  IInv'
    BY <1>1, <1>6, WaitPreserves
  <1>7. ASSUME ~Found(tfstate.id), Deleted, UNCHANGED <<cloud, budget>>
        PROVE  IInv'
    BY <1>1, <1>7, DeletedPreserves DEF Live
  <1> QED
    BY <1>2, <1>3, <1>4, <1>5, <1>6, <1>7 DEF DeleteCluster

\* The wait of a Delete ends well only once the cluster is not live.
LEMMA DeleteWaitVerdict ==
    ASSUME DeletePoll
    PROVE  \/ Deleted /\ ~Live(op.id)
           \/ Finish(tfstate, "error")
  BY DEF DeletePoll, Verdict, RefreshError, DeleteTarget, Live, Found, Reported

LEMMA DeletePollPreserves == IInv /\ DeletePoll => IInv'
  <1> SUFFICES ASSUME IInv, DeletePoll PROVE IInv'
    OBVIOUS
  <1>1. /\ op.step = "deleteWait" /\ op.id = tfstate.id
        /\ UNCHANGED <<cloud, config, known, budget>>
    BY DEF DeletePoll, IInv, RunShape
  <1>2. Monotone /\ cloud' \in CloudType /\ budget' \in Budget
    BY <1>1, UnchangedMonotone DEF IInv, TypeOK
  <1>3. CASE Finish(tfstate, "error")
    BY <1>1, <1>2, <1>3, KeepStatePreserves DEF Results
  <1>4. CASE Deleted /\ ~Live(op.id)
    BY <1>1, <1>4, DeletedPreserves
  <1> QED
    BY <1>3, <1>4, DeleteWaitVerdict

LEMMA WaitFailsPreserves ==
    ASSUME IInv, WaitFails, UNCHANGED <<cloud, config, known>>,
           budget' \in Budget
    PROVE  IInv'
  <1>1. Monotone /\ cloud' \in CloudType
    BY UnchangedMonotone DEF IInv
  <1>2. CASE op.step = "createWait" /\ Finish(op.resp, "error")
    <2>1. /\ op.resp \in State /\ op.resp # NoState /\ op.resp.id = op.id
          /\ op.id \in Ids /\ tfstate = NoState
      BY <1>2 DEF IInv, RunShape, TypeOK, Op
    <2>2. \A i \in known : Live(i) => i = op.id
      BY <2>1 DEF IInv, NoOrphan, Tracks
    <2>3. cloud[op.id].status # "UNUSED"
      BY <1>2, <2>1 DEF IInv, Created, Tracks
    <2> QED
      BY <1>1, <1>2, <2>1, <2>2, <2>3, EndPreserves DEF Results
  <1>3. CASE op.step \in {"updateWait", "deleteWait"} /\ Finish(tfstate, "error")
    BY <1>1, <1>3, KeepStatePreserves DEF Results
  <1> QED
    BY <1>2, <1>3 DEF WaitFails

LEMMA ImportStatePreserves == IInv /\ ImportState => IInv'
  <1> SUFFICES ASSUME IInv, ImportState PROVE IInv'
    OBVIOUS
  <1> DEFINE null == [a \in Attrs |-> NoValue]
  <1>1. /\ op.step = "idle" /\ tfstate = NoState
        /\ UNCHANGED <<cloud, config, budget>> /\ op' = IdleOp("none")
    BY DEF ImportState
  <1>2. PICK i \in Ids : /\ Found(i)
                         /\ tfstate' = SetState(i, null, FALSE)
                         /\ known' = known \cup {i}
    BY DEF ImportState
  <1>3. null \in [Attrs -> Vals]
    OBVIOUS
  <1>4. tfstate' \in State /\ tfstate'.id = i /\ tfstate' # NoState
    BY <1>2, <1>3, SetStateType DEF IInv
  <1>5. op' \in Op /\ op'.step = "idle" /\ ~op'.replace
    BY <1>1, IdleOpType DEF IInv, Results
  <1>6. TypeOK'
    BY <1>1, <1>2, <1>4, <1>5 DEF IInv, TypeOK
  <1>7. RunShape'
    BY <1>5 DEF RunShape
  <1>8. Monotone
    BY <1>1, UnchangedMonotone DEF IInv
  <1>9. cloud[i].status # "UNUSED"
    BY <1>2 DEF Found, Reported
  <1>10. \A j \in known : ~Live(j)
    BY <1>1 DEF IInv, NoOrphan, Tracks
  <1>11. Created' /\ NoOrphan'
    BY <1>1, <1>2, <1>4, <1>5, <1>8, <1>9, <1>10 DEF IInv, TypeOK, Created,
       NoOrphan, Tracks, Monotone
  <1> QED
    BY <1>6, <1>7, <1>11 DEF IInv

LEMMA CrashPreserves == IInv /\ Crash => IInv'
  <1> SUFFICES ASSUME IInv, Crash PROVE IInv'
    OBVIOUS
  <1>1. /\ Monotone /\ cloud' \in CloudType /\ budget' \in Budget
        /\ UNCHANGED <<cloud, config>> /\ Finish(tfstate, "none")
    BY UnchangedMonotone, ChargeType DEF IInv, Crash
  <1>2. CASE op.step # "createWait"
    BY <1>1, <1>2, KeepStatePreserves DEF Crash, Results
  <1>3. CASE op.step = "createWait"
    <2>1. tfstate = NoState /\ known' = known \ {op.id}
      BY <1>3 DEF Crash, IInv, RunShape
    <2>2. \A i \in known' : ~Live(i)
      BY <1>3, <2>1 DEF IInv, NoOrphan, Tracks
    <2> QED
      BY <1>1, <2>1, <2>2, EndPreserves DEF Results
  <1> QED
    BY <1>2, <1>3

-----------------------------------------------------------------------------
(* The API and its other users *)

LEMMA StatusStep ==
    ASSUME IInv, NEW i \in Ids, NEW from, NEW to \in Reported \cup {"GONE"},
           SetStatus(i, from, to), "UNUSED" \notin from,
           to \in {"GONE", "DELETED"} \/ from \cap {"GONE", "DELETED"} = {}
    PROVE  Monotone /\ cloud' \in CloudType
  <1>1. cloud' = [cloud EXCEPT ![i].status = to] /\ cloud[i].status \in from
    BY DEF SetStatus
  <1>2. cloud' \in CloudType
    BY <1>1 DEF IInv, TypeOK, CloudType
  <1>3. \A j \in Ids : j # i => cloud'[j] = cloud[j]
    BY <1>1 DEF IInv, TypeOK
  <1>4. cloud'[i].status = to
    BY <1>1 DEF IInv, TypeOK
  <1>5. cloud[i].status \in Reported \cup {"UNUSED", "GONE"}
    BY DEF IInv, TypeOK
  <1> QED
    BY <1>1, <1>2, <1>3, <1>4, <1>5 DEF Monotone, Live, Found, Reported

LEMMA EnvironmentStepPreserves == IInv /\ Environment => IInv'
  <1> SUFFICES ASSUME IInv, Environment PROVE IInv'
    OBVIOUS
  <1>. SameRun
    BY EnvironmentKeepsRun
  <1>1. CASE EditConfig
    <2>1. Monotone /\ cloud' \in CloudType /\ budget' \in Budget
      BY <1>1, UnchangedMonotone, ChargeType DEF EditConfig, IInv
    <2> QED
      BY <1>1, <2>1, EnvironmentPreserves DEF EditConfig
  <1>2. ASSUME NEW i \in Ids, Progress(i) PROVE IInv'
    <2>1. Monotone /\ cloud' \in CloudType
      BY <1>2, StatusStep DEF Progress, Reported
    <2> QED
      BY <1>2, <2>1, EnvironmentPreserves DEF Progress, IInv, TypeOK
  <1>3. ASSUME NEW i \in Ids, RolloutFails(i) PROVE IInv'
    <2>1. Monotone /\ cloud' \in CloudType /\ budget' \in Budget
      BY <1>3, StatusStep, ChargeType, FailAssumption DEF RolloutFails, Reported, IInv
    <2> QED
      BY <1>3, <2>1, EnvironmentPreserves DEF RolloutFails, IInv, TypeOK
  <1>4. ASSUME NEW i \in Ids, OutOfBandUpdate(i) PROVE IInv'
    <2>1. budget' \in Budget
      BY <1>4, ChargeType DEF OutOfBandUpdate, IInv
    <2>2. Monotone /\ cloud' \in CloudType
      BY <1>4 DEF OutOfBandUpdate, Updatable, IInv, TypeOK, CloudType,
         Monotone, Live, Found, Reported
    <2> QED
      BY <1>4, <2>1, <2>2, EnvironmentPreserves DEF OutOfBandUpdate, IInv, TypeOK
  <1>5. ASSUME NEW i \in Ids, OutOfBandDelete(i) PROVE IInv'
    <2>1. budget' \in Budget
      BY <1>5, ChargeType DEF OutOfBandDelete, IInv
    <2>2. Monotone /\ cloud' \in CloudType
      <3>1. cloud' = [cloud EXCEPT ![i].status = "DELETING"] /\ Live(i)
        BY <1>5 DEF OutOfBandDelete, SetStatus
      <3> QED
        BY <3>1 DEF IInv, TypeOK, CloudType, Monotone, Live, Found, Reported
    <2> QED
      BY <1>5, <2>1, <2>2, EnvironmentPreserves DEF OutOfBandDelete, IInv, TypeOK
  <1>6. ASSUME NEW i \in Ids, OutOfBandCreate(i) PROVE IInv'
    <2>1. budget' \in Budget
      BY <1>6, ChargeType DEF OutOfBandCreate, IInv
    <2>2. Monotone /\ cloud' \in CloudType
      BY <1>6 DEF OutOfBandCreate, IInv, TypeOK, CloudType, Monotone, Live,
         Found, Reported
    <2> QED
      BY <1>6, <2>1, <2>2, EnvironmentPreserves DEF OutOfBandCreate, IInv, TypeOK
  <1> QED
    BY <1>1, <1>2, <1>3, <1>4, <1>5, <1>6 DEF Environment

-----------------------------------------------------------------------------
(* The inductive invariant and what follows from it *)

LEMMA InitEstablishes == Init => IInv
  <1> SUFFICES ASSUME Init PROVE IInv
    OBVIOUS
  <1>1. AnySpec \in Specs /\ AnySpec \in [Attrs -> Vals]
    BY SpecAssumption DEF AnySpec
  <1>2. op \in Op
    BY DEF Init, Op, Steps, Reported, Results
  <1>3. budget \in Budget
    BY DEF Init, Budget
  <1>4. TypeOK
    BY <1>1, <1>2, <1>3 DEF Init, TypeOK
  <1>5. RunShape
    BY DEF Init, RunShape
  <1>6. Created /\ NoOrphan
    BY DEF Init, Created, NoOrphan, Tracks
  <1> QED
    BY <1>4, <1>5, <1>6 DEF IInv

LEMMA ChargeOrNot ==
    ASSUME TypeOK, UNCHANGED budget \/ Charge("faults")
    PROVE  budget' \in Budget
  BY ChargeType DEF TypeOK

LEMMA NextPreserves == IInv /\ [Next]_vars => IInv'
  <1> SUFFICES ASSUME IInv, [Next]_vars PROVE IInv'
    OBVIOUS
  <1>1. CASE Read
    BY <1>1, ReadPreserves
  <1>2. CASE Plan \/ PlanWithoutRefresh
    <2>1. op.fresh \in BOOLEAN
      BY DEF IInv, TypeOK, Op
    <2> QED
      BY <1>2, <2>1, PlanPreserves, ChargeOrNot DEF Plan, PlanWithoutRefresh,
         IInv
  <1>3. CASE CreateCluster
    BY <1>3, CreateClusterPreserves
  <1>4. CASE CreatePoll
    BY <1>4, CreatePollPreserves
  <1>5. CASE UpdateCluster
    BY <1>5, UpdateClusterPreserves
  <1>6. CASE UpdatePoll
    BY <1>6, UpdatePollPreserves
  <1>7. CASE DeleteCluster
    BY <1>7, DeleteClusterPreserves
  <1>8. CASE DeletePoll
    BY <1>8, DeletePollPreserves
  <1>9. CASE PollError \/ WaitTimeout
    BY <1>9, WaitFailsPreserves, ChargeOrNot DEF PollError, WaitTimeout, IInv
  <1>10. CASE ImportState
    BY <1>10, ImportStatePreserves
  <1>11. CASE Crash
    BY <1>11, CrashPreserves
  <1>12. CASE Environment
    BY <1>12, EnvironmentStepPreserves
  <1>13. CASE UNCHANGED vars
    BY <1>13 DEF vars, IInv, TypeOK, RunShape, Created, NoOrphan, Tracks, Live,
       Found
  <1> QED
    BY <1>1, <1>2, <1>3, <1>4, <1>5, <1>6, <1>7, <1>8, <1>9, <1>10, <1>11,
       <1>12, <1>13 DEF Next, Provider

\* IInv is an invariant of the cluster resource.
THEOREM Invariance == Spec => []IInv
  BY InitEstablishes, NextPreserves, PTL DEF Spec

\* The types of ClusterResource's variables hold in every behaviour, for any
\* ids, attributes, specs and bounds.
THEOREM TypeCorrect == Spec => []TypeOK
  BY Invariance, PTL DEF IInv

\* A live cluster Terraform was told about is in its state or in the Create in
\* flight, whatever errors, timeouts, crashes and other users do.
THEOREM NeverOrphaned == Spec => []NoOrphan
  BY Invariance, PTL DEF IInv

-----------------------------------------------------------------------------
(* The cluster resource implements ObjectOwnership *)

AbstractStep == Ownership!Next \/ UNCHANGED Ownership!ownershipVars

\* Steps that touch neither the API nor what Terraform holds.
LEMMA QuietStep ==
    ASSUME Born' = Born, Alive' = Alive, Held' = Held, Unsaved' = Unsaved
    PROVE  AbstractStep
  BY DEF AbstractStep, Ownership!ownershipVars

LEMMA SameCloud ==
    ASSUME UNCHANGED cloud
    PROVE  Born' = Born /\ Alive' = Alive
  BY DEF Born, Alive, Live, Found

\* Away from the wait of a Create, Terraform holds what is in its state.
LEMMA SameHeld ==
    ASSUME UNCHANGED tfstate, op.step # "createWait", op'.step # "createWait"
    PROVE  Held' = Held /\ Unsaved' = Unsaved
  BY DEF Held, Unsaved, Tracks

\* The API and its users change one cluster: it appears, dies or goes on.
LEMMA OneCluster ==
    ASSUME IInv, NEW i \in Ids, Held' = Held, Unsaved' = Unsaved,
           \A j \in Ids \ {i} : cloud'[j] = cloud[j],
           \/ /\ cloud[i].status # "UNUSED" /\ cloud'[i].status # "UNUSED"
              /\ Live(i)' => Live(i)
           \/ cloud[i].status = "UNUSED" /\ cloud'[i].status # "UNUSED"
              /\ Live(i)'
    PROVE  AbstractStep
  <1>1. \A j \in Ids \ {i} : Live(j)' <=> Live(j)
    BY DEF Live, Found
  <1>2. CASE cloud[i].status = "UNUSED"
    <2>1. i \notin Born /\ Born' = Born \cup {i} /\ Alive' = Alive \cup {i}
      BY <1>1, <1>2 DEF Born, Alive
    <2> QED
      BY <2>1 DEF AbstractStep, Ownership!Next, Ownership!Appear
  <1>3. CASE cloud[i].status # "UNUSED" /\ Live(i)'
    BY <1>1, <1>3, QuietStep DEF Born, Alive
  <1>4. CASE cloud[i].status # "UNUSED" /\ ~Live(i)'
    <2>1. Born' = Born /\ Alive' = Alive \ {i}
      BY <1>1, <1>4 DEF Born, Alive
    <2> QED
      BY <2>1 DEF AbstractStep, Ownership!Next, Ownership!Die
  <1> QED
    BY <1>2, <1>3, <1>4

\* Terraform forgets the cluster in its state, which is not live.
LEMMA ReleaseStep ==
    ASSUME IInv, UNCHANGED cloud, tfstate # NoState, tfstate' = NoState,
           op.step # "createWait", op'.step # "createWait",
           ~Live(tfstate.id)
    PROVE  AbstractStep
  <1> DEFINE i == tfstate.id
  <1>1. i \in Ids
    BY DEF IInv, TypeOK, State
  <1>2. /\ Held = {i} /\ Held' = {} /\ Unsaved = {} /\ Unsaved' = {}
        /\ i \notin Alive
    BY <1>1 DEF Held, Unsaved, Tracks, Alive
  <1>3. Born' = Born /\ Alive' = Alive
    BY SameCloud
  <1> QED
    BY <1>1, <1>2, <1>3 DEF AbstractStep, Ownership!Next, Ownership!Release

\* A Create returns the cluster it waited for.
LEMMA SaveStep ==
    ASSUME IInv, UNCHANGED cloud, op.step = "createWait",
           op'.step = "idle", tfstate' # NoState, tfstate'.id = op.id
    PROVE  AbstractStep
  <1>1. op.id \in Ids /\ tfstate = NoState
    BY DEF IInv, RunShape, TypeOK, Op
  <1>2. Held = {op.id} /\ Held' = {op.id} /\ Unsaved = {op.id} /\ Unsaved' = {}
    BY <1>1 DEF Held, Unsaved, Tracks
  <1>3. Born' = Born /\ Alive' = Alive
    BY SameCloud
  <1> QED
    BY <1>1, <1>2, <1>3 DEF AbstractStep, Ownership!Next, Ownership!Save

LEMMA FinishIsIdle ==
    ASSUME NEW state, NEW result, Finish(state, result)
    PROVE  op'.step = "idle" /\ tfstate' = state
  BY DEF Finish, IdleOp

LEMMA ReadRefines == IInv /\ Read => AbstractStep
  <1> SUFFICES ASSUME IInv, Read PROVE AbstractStep
    OBVIOUS
  <1>1. /\ op.step = "idle" /\ op'.step = "refreshed" /\ UNCHANGED cloud
    BY DEF Read, IdleOp
  <1>2. CASE tfstate = NoState
    BY <1>1, <1>2, SameCloud, SameHeld, QuietStep DEF Read
  <1>3. CASE tfstate # NoState /\ ~Found(tfstate.id)
    <2>1. tfstate' = NoState /\ ~Live(tfstate.id)
      BY <1>3 DEF Read, Live
    <2> QED
      BY <1>1, <1>3, <2>1, ReleaseStep
  <1>4. CASE tfstate # NoState /\ Found(tfstate.id)
    <2>1. /\ tfstate.id \in Ids /\ tfstate.spec \in [Attrs -> Vals]
          /\ tfstate.tainted \in BOOLEAN
      BY <1>4 DEF IInv, TypeOK, State
    <2>2. tfstate' = SetState(tfstate.id, tfstate.spec, tfstate.tainted)
      BY <1>4 DEF Read
    <2>3. tfstate'.id = tfstate.id /\ tfstate' # NoState
      BY <1>4, <2>1, <2>2, SetStateType DEF IInv
    <2>4. Held' = Held /\ Unsaved' = Unsaved
      BY <1>1, <1>4, <2>3 DEF Held, Unsaved, Tracks
    <2> QED
      BY <1>1, <2>4, SameCloud, QuietStep
  <1> QED
    BY <1>2, <1>3, <1>4

LEMMA PlanRefines ==
    ASSUME IInv, NEW fresh, PlanFrom(fresh),
           op.step \in {"idle", "refreshed"}
    PROVE  AbstractStep
  <1>1. op'.step # "createWait" /\ UNCHANGED <<cloud, tfstate>>
    BY DEF PlanFrom, PlannedOp, IdleOp
  <1> QED
    BY <1>1, SameCloud, SameHeld, QuietStep

LEMMA CreateClusterRefines == IInv /\ CreateCluster => AbstractStep
  <1> SUFFICES ASSUME IInv, CreateCluster PROVE AbstractStep
    OBVIOUS
  <1>1. op.step = "create" /\ tfstate = NoState /\ UNCHANGED tfstate
    BY DEF CreateCluster, IInv, RunShape
  <1>2. ASSUME NEW i \in Ids, CreateAccepted(i)
        PROVE  /\ i \notin Born /\ Born' = Born \cup {i}
               /\ Alive' = Alive \cup {i}
    <2>1. /\ cloud[i].status = "UNUSED"
          /\ cloud'[i].status \in {"UNSPECIFIED", "CREATING"}
          /\ \A j \in Ids \ {i} : cloud'[j] = cloud[j]
      BY <1>2 DEF CreateAccepted, IInv, TypeOK
    <2> QED
      BY <2>1 DEF Born, Alive, Live, Found, Reported
  <1>3. ASSUME NEW i \in Ids, CreateAccepted(i), op'.step = "createWait",
               op'.id = i
        PROVE  AbstractStep
    <2>1. Held = {} /\ Held' = {i} /\ Unsaved = {} /\ Unsaved' = {i}
      BY <1>1, <1>3 DEF Held, Unsaved, Tracks
    <2>2. Ownership!Acquire(i)
      BY <1>2, <1>3, <2>1 DEF Ownership!Acquire
    <2> QED
      BY <2>2 DEF AbstractStep, Ownership!Next
  <1>4. ASSUME NEW i \in Ids, CreateAccepted(i), op'.step = "idle"
        PROVE  AbstractStep
    <2>1. Held' = Held /\ Unsaved' = Unsaved
      BY <1>1, <1>4, SameHeld
    <2>2. Ownership!Appear(i)
      BY <1>2, <1>4, <2>1 DEF Ownership!Appear
    <2> QED
      BY <2>2 DEF AbstractStep, Ownership!Next
  <1>5. ASSUME UNCHANGED cloud, op'.step = "idle" PROVE AbstractStep
    BY <1>1, <1>5, SameCloud, SameHeld, QuietStep
  <1>6. ASSUME op' = IdleOp("error") PROVE op'.step = "idle"
    BY <1>6 DEF IdleOp
  <1>7. ASSUME NEW i \in Ids, NEW resp,
               op' = [op EXCEPT !.step = "createWait", !.id = i, !.resp = resp]
        PROVE  op'.step = "createWait" /\ op'.id = i
    BY <1>7 DEF IInv, TypeOK, Op
  <1> QED
    BY <1>3, <1>4, <1>5, <1>6, <1>7 DEF CreateCluster

LEMMA CreatePollRefines == IInv /\ CreatePoll => AbstractStep
  <1> SUFFICES ASSUME IInv, CreatePoll PROVE AbstractStep
    OBVIOUS
  <1>1. /\ op.step = "createWait" /\ UNCHANGED cloud
        /\ op.id \in Ids /\ op.resp.spec \in [Attrs -> Vals]
        /\ op.resp # NoState /\ op.resp.id = op.id
    BY DEF CreatePoll, IInv, RunShape, TypeOK, Op, State
  <1>2. CASE Finish(op.resp, "error")
    BY <1>1, <1>2, FinishIsIdle, SaveStep
  <1>3. CASE Found(op.id) /\ ~Finish(op.resp, "error")
    <2>1. PICK t \in BOOLEAN : tfstate' = SetState(op.id, op.resp.spec, t)
                            \/ tfstate' = [SetState(op.id, op.resp.spec, FALSE)
                                             EXCEPT !.tainted = t]
      BY <1>3 DEF CreatePoll, Finish
    <2>2. \A u \in BOOLEAN : /\ SetState(op.id, op.resp.spec, u) \in State
                             /\ SetState(op.id, op.resp.spec, u).id = op.id
      BY <1>1, <1>3, SetStateType DEF IInv
    <2>3. tfstate' \in State /\ tfstate'.id = op.id
      BY <2>1, <2>2 DEF State
    <2>4. op'.step = "idle"
      BY <1>3, FinishIsIdle DEF CreatePoll
    <2> QED
      BY <1>1, <2>3, <2>4, SaveStep
  <1>4. ASSUME ~Found(op.id) PROVE Finish(op.resp, "error")
    BY <1>4 DEF CreatePoll, Verdict, RefreshError, ReadyTarget
  <1> QED
    BY <1>2, <1>3, <1>4

LEMMA UpdateClusterRefines == IInv /\ UpdateCluster => AbstractStep
  <1> SUFFICES ASSUME IInv, UpdateCluster PROVE AbstractStep
    OBVIOUS
  <1>1. /\ op.step = "update" /\ UNCHANGED tfstate /\ tfstate.id \in Ids
    BY DEF UpdateCluster, IInv, RunShape, TypeOK, State
  <1>2. op'.step \in {"updateWait", "idle"}
    <2>1. op' = IdleOp("error") => op'.step = "idle"
      BY DEF IdleOp
    <2>2. \A i \in Ids : op' = [op EXCEPT !.step = "updateWait", !.id = i]
                            => op'.step = "updateWait"
      BY DEF IInv, TypeOK, Op
    <2> QED
      BY <1>1, <2>1, <2>2 DEF UpdateCluster
  <1>3. Held' = Held /\ Unsaved' = Unsaved
    BY <1>1, <1>2, SameHeld
  <1>4. CASE UpdateAccepted(tfstate.id)
    <2>1. /\ \A j \in Ids \ {tfstate.id} : cloud'[j] = cloud[j]
          /\ cloud[tfstate.id].status # "UNUSED" /\ Live(tfstate.id)
          /\ cloud'[tfstate.id].status # "UNUSED"
      BY <1>1, <1>4 DEF UpdateAccepted, Updatable, IInv, TypeOK, Live, Found, Reported
    <2> QED
      BY <1>1, <1>3, <2>1, OneCluster
  <1>5. CASE UNCHANGED cloud
    BY <1>3, <1>5, SameCloud, QuietStep
  <1> QED
    BY <1>4, <1>5 DEF UpdateCluster

LEMMA UpdatePollRefines == IInv /\ UpdatePoll => AbstractStep
  <1> SUFFICES ASSUME IInv, UpdatePoll PROVE AbstractStep
    OBVIOUS
  <1>1. /\ op.step = "updateWait" /\ UNCHANGED cloud /\ tfstate # NoState
        /\ op.id \in Ids /\ op.id = tfstate.id /\ op.plan \in [Attrs -> Vals]
    BY DEF UpdatePoll, IInv, RunShape, TypeOK, Op, State
  <1>2. CASE Finish(tfstate, "error")
    BY <1>1, <1>2, FinishIsIdle, SameCloud, SameHeld, QuietStep
  <1>3. CASE Found(op.id) /\ ~Finish(tfstate, "error")
    <2>1. tfstate' = SetState(op.id, op.plan, FALSE) /\ op'.step = "idle"
      BY <1>3, FinishIsIdle DEF UpdatePoll
    <2>2. tfstate' # NoState /\ tfstate'.id = op.id
      BY <1>1, <1>3, <2>1, SetStateType DEF IInv
    <2>3. Held' = Held /\ Unsaved' = Unsaved
      BY <1>1, <2>1, <2>2 DEF Held, Unsaved, Tracks
    <2> QED
      BY <1>1, <2>3, SameCloud, QuietStep
  <1>4. ASSUME ~Found(op.id) PROVE Finish(tfstate, "error")
    BY <1>4 DEF UpdatePoll, Verdict, RefreshError, ReadyTarget
  <1> QED
    BY <1>2, <1>3, <1>4

LEMMA DeletedRefines ==
    ASSUME IInv, UNCHANGED cloud, Deleted, tfstate # NoState,
           op.step \in {"delete", "deleteWait"}, ~Live(tfstate.id)
    PROVE  AbstractStep
  <1>1. op'.step # "createWait"
    BY DEF Deleted, IdleOp, IInv, TypeOK, Op
  <1> QED
    BY <1>1, ReleaseStep DEF Deleted

LEMMA DeleteClusterRefines == IInv /\ DeleteCluster => AbstractStep
  <1> SUFFICES ASSUME IInv, DeleteCluster PROVE AbstractStep
    OBVIOUS
  <1>1. op.step = "delete" /\ tfstate # NoState /\ tfstate.id \in Ids
    BY DEF DeleteCluster, IInv, RunShape, TypeOK, State
  <1>2. CASE ~Found(tfstate.id) /\ Deleted /\ UNCHANGED cloud
    BY <1>1, <1>2, DeletedRefines DEF Live
  <1>3. ASSUME UNCHANGED tfstate, op'.step \in {"deleteWait", "idle"},
               DeleteAccepted(tfstate.id) \/ UNCHANGED cloud
        PROVE  AbstractStep
    <2>1. Held' = Held /\ Unsaved' = Unsaved
      BY <1>1, <1>3, SameHeld
    <2>2. CASE UNCHANGED cloud
      BY <2>1, <2>2, SameCloud, QuietStep
    <2>3. CASE ~UNCHANGED cloud
      <3>1. PICK st \in {"DELETING", "GONE"} :
              /\ Live(tfstate.id)
              /\ cloud' = [cloud EXCEPT ![tfstate.id].status = st]
        BY <1>3, <2>3 DEF DeleteAccepted
      <3>2. /\ \A j \in Ids \ {tfstate.id} : cloud'[j] = cloud[j]
            /\ cloud[tfstate.id].status # "UNUSED"
            /\ cloud'[tfstate.id].status # "UNUSED"
        BY <1>1, <3>1 DEF IInv, TypeOK, Live, Found, Reported
      <3> QED
        BY <1>1, <2>1, <3>1, <3>2, OneCluster
    <2> QED
      BY <2>2, <2>3
  <1>4. Finish(tfstate, "error") => UNCHANGED tfstate /\ op'.step = "idle"
    BY FinishIsIdle
  <1>5. \A i \in Ids : op' = [op EXCEPT !.step = "deleteWait", !.id = i]
                          => op'.step = "deleteWait"
    BY DEF IInv, TypeOK, Op
  <1> QED
    BY <1>1, <1>2, <1>3, <1>4, <1>5 DEF DeleteCluster

LEMMA DeletePollRefines == IInv /\ DeletePoll => AbstractStep
  <1> SUFFICES ASSUME IInv, DeletePoll PROVE AbstractStep
    OBVIOUS
  <1>1. /\ op.step = "deleteWait" /\ tfstate # NoState /\ op.id = tfstate.id
        /\ UNCHANGED cloud
    BY DEF DeletePoll, IInv, RunShape
  <1>2. CASE Finish(tfstate, "error")
    BY <1>1, <1>2, FinishIsIdle, SameCloud, SameHeld, QuietStep
  <1>3. CASE Deleted /\ ~Live(op.id)
    BY <1>1, <1>3, DeletedRefines
  <1> QED
    BY <1>2, <1>3, DeleteWaitVerdict

LEMMA WaitFailsRefines ==
    ASSUME IInv, WaitFails, UNCHANGED cloud
    PROVE  AbstractStep
  <1>1. CASE op.step = "createWait" /\ Finish(op.resp, "error")
    <2>1. op.resp # NoState /\ op.resp.id = op.id
      BY <1>1 DEF IInv, RunShape
    <2> QED
      BY <1>1, <2>1, FinishIsIdle, SaveStep
  <1>2. CASE op.step \in {"updateWait", "deleteWait"} /\ Finish(tfstate, "error")
    BY <1>2, FinishIsIdle, SameCloud, SameHeld, QuietStep
  <1> QED
    BY <1>1, <1>2 DEF WaitFails

LEMMA ImportStateRefines == IInv /\ ImportState => AbstractStep
  <1> SUFFICES ASSUME IInv, ImportState PROVE AbstractStep
    OBVIOUS
  <1>1. PICK i \in Ids :
          /\ Found(i)
          /\ tfstate' = SetState(i, [a \in Attrs |-> NoValue], FALSE)
    BY DEF ImportState
  <1>2. [a \in Attrs |-> NoValue] \in [Attrs -> Vals]
    OBVIOUS
  <1>3. tfstate' # NoState /\ tfstate'.id = i
    BY <1>1, <1>2, SetStateType DEF IInv
  <1>4. /\ op.step = "idle" /\ op'.step = "idle" /\ tfstate = NoState
        /\ UNCHANGED cloud
    BY DEF ImportState, IdleOp
  <1>5. Held = {} /\ Held' = {i} /\ Unsaved' = Unsaved
    BY <1>3, <1>4 DEF Held, Unsaved, Tracks
  <1>6. i \in Born
    BY <1>1 DEF Found, Reported, Born
  <1>7. Ownership!Adopt(i)
    BY <1>4, <1>5, <1>6, SameCloud DEF Ownership!Adopt
  <1> QED
    BY <1>7 DEF AbstractStep, Ownership!Next

LEMMA CrashRefines == IInv /\ Crash => AbstractStep
  <1> SUFFICES ASSUME IInv, Crash PROVE AbstractStep
    OBVIOUS
  <1>1. UNCHANGED <<cloud, tfstate>> /\ op'.step = "idle"
    BY FinishIsIdle DEF Crash
  <1>2. op.step = "createWait" => tfstate = NoState
    BY DEF IInv, RunShape
  <1>3. Held' = Held \ Unsaved /\ Unsaved' = {}
    BY <1>1, <1>2 DEF Held, Unsaved, Tracks
  <1>4. Ownership!Crash
    BY <1>1, <1>3, SameCloud DEF Ownership!Crash
  <1> QED
    BY <1>4 DEF AbstractStep, Ownership!Next

LEMMA EnvironmentRefines == IInv /\ Environment => AbstractStep
  <1> SUFFICES ASSUME IInv, Environment PROVE AbstractStep
    OBVIOUS
  <1>1. UNCHANGED tfstate /\ op'.step = op.step /\ op'.id = op.id
    BY EnvironmentKeepsRun DEF SameRun
  <1>2. Held' = Held /\ Unsaved' = Unsaved
    BY <1>1 DEF Held, Unsaved, Tracks
  <1>3. CASE EditConfig
    BY <1>2, <1>3, SameCloud, QuietStep DEF EditConfig
  <1>4. ASSUME NEW i \in Ids, NEW from, NEW to \in Reported \cup {"GONE"},
               SetStatus(i, from, to), "UNUSED" \notin from,
               \/ to \in {"GONE", "DELETED"}
               \/ from \cap {"GONE", "DELETED"} = {}
        PROVE  AbstractStep
    <2>1. /\ \A j \in Ids \ {i} : cloud'[j] = cloud[j]
          /\ cloud[i].status # "UNUSED" /\ cloud'[i].status = to
      BY <1>4 DEF SetStatus, IInv, TypeOK
    <2>2. Monotone
      BY <1>4, StatusStep
    <2> QED
      BY <1>2, <2>1, <2>2, OneCluster DEF Monotone
  <1>5. ASSUME NEW i \in Ids, Progress(i) PROVE AbstractStep
    BY <1>4, <1>5 DEF Progress, Reported
  <1>6. ASSUME NEW i \in Ids, RolloutFails(i) PROVE AbstractStep
    BY <1>4, <1>6, FailAssumption DEF RolloutFails, Reported
  <1>7. ASSUME NEW i \in Ids, OutOfBandUpdate(i) PROVE AbstractStep
    <2>1. /\ \A j \in Ids \ {i} : cloud'[j] = cloud[j]
          /\ Live(i) /\ cloud[i].status # "UNUSED"
          /\ cloud'[i].status # "UNUSED"
      BY <1>7 DEF OutOfBandUpdate, Updatable, IInv, TypeOK, Live, Found,
         Reported
    <2> QED
      BY <1>2, <2>1, OneCluster
  <1>8. ASSUME NEW i \in Ids, OutOfBandDelete(i) PROVE AbstractStep
    <2>1. /\ \A j \in Ids \ {i} : cloud'[j] = cloud[j]
          /\ Live(i) /\ cloud[i].status # "UNUSED"
          /\ cloud'[i].status # "UNUSED"
      BY <1>8 DEF OutOfBandDelete, SetStatus, IInv, TypeOK, Live, Found, Reported
    <2> QED
      BY <1>2, <2>1, OneCluster
  <1>9. ASSUME NEW i \in Ids, OutOfBandCreate(i) PROVE AbstractStep
    <2>1. /\ \A j \in Ids \ {i} : cloud'[j] = cloud[j]
          /\ Live(i)' /\ cloud[i].status = "UNUSED"
          /\ cloud'[i].status # "UNUSED"
      BY <1>9 DEF OutOfBandCreate, IInv, TypeOK, Live, Found, Reported
    <2> QED
      BY <1>2, <2>1, OneCluster
  <1> QED
    BY <1>3, <1>5, <1>6, <1>7, <1>8, <1>9 DEF Environment

LEMMA InitRefines == Init => Ownership!Init
  BY DEF Init, Ownership!Init, Born, Alive, Held, Unsaved, Live, Found, Tracks,
     Reported

LEMMA NextRefines == IInv /\ [Next]_vars => AbstractStep
  <1> SUFFICES ASSUME IInv, [Next]_vars PROVE AbstractStep
    OBVIOUS
  <1>1. CASE Plan \/ PlanWithoutRefresh
    BY <1>1, PlanRefines DEF Plan, PlanWithoutRefresh
  <1>2. CASE PollError \/ WaitTimeout
    BY <1>2, WaitFailsRefines DEF PollError, WaitTimeout
  <1>3. CASE UNCHANGED vars
    <2>1. UNCHANGED <<cloud, tfstate, op>>
      BY <1>3 DEF vars
    <2> QED
      BY <2>1, SameCloud, QuietStep DEF Held, Unsaved, Tracks
  <1>4. CASE \/ Read \/ CreateCluster \/ CreatePoll \/ UpdateCluster
             \/ UpdatePoll \/ DeleteCluster \/ DeletePoll \/ ImportState
             \/ Crash \/ Environment
    BY <1>4, ReadRefines, CreateClusterRefines, CreatePollRefines,
       UpdateClusterRefines, UpdatePollRefines, DeleteClusterRefines,
       DeletePollRefines, ImportStateRefines, CrashRefines, EnvironmentRefines
  <1> QED
    BY <1>1, <1>2, <1>3, <1>4 DEF Next, Provider

\* The cluster resource implements ObjectOwnership, under the refinement
\* mapping of ClusterResource: what it creates, saves, deletes, forgets and
\* loses is always one of that specification's steps, or none.
THEOREM Implementation == Spec => ImplementsOwnership
  <1>1. IInv /\ [Next]_vars => [Ownership!Next]_(Ownership!ownershipVars)
    BY NextRefines DEF AbstractStep
  <1> QED
    BY <1>1, InitRefines, Invariance, PTL DEF Spec, ImplementsOwnership,
       Ownership!Spec

-----------------------------------------------------------------------------
(* A cluster is forgotten only once it is gone *)

LEMMA ForgetStep ==
    ASSUME IInv, [Next]_vars, tfstate # NoState,
           tfstate' = NoState \/ tfstate'.id # tfstate.id
    PROVE  ~Live(tfstate.id)
  <1>1. /\ tfstate.id \in Ids /\ tfstate.spec \in [Attrs -> Vals]
        /\ tfstate.tainted \in BOOLEAN /\ op.step \notin {"create", "createWait"}
    BY DEF IInv, TypeOK, State, RunShape
  <1>2. ~ UNCHANGED tfstate
    OBVIOUS
  <1>3. CASE Read
    <2>1. Found(tfstate.id) =>
            tfstate' = SetState(tfstate.id, tfstate.spec, tfstate.tainted)
      BY <1>3 DEF Read
    <2> QED
      BY <1>1, <2>1, SetStateType DEF IInv, Live
  <1>4. CASE UpdatePoll
    <2>1. op.id = tfstate.id /\ op.plan \in [Attrs -> Vals]
      BY <1>4 DEF UpdatePoll, IInv, RunShape, TypeOK, Op
    <2>2. Found(op.id)
      BY <1>2, <1>4, FinishIsIdle DEF UpdatePoll, Verdict, RefreshError,
         ReadyTarget
    <2>3. tfstate' = SetState(op.id, op.plan, FALSE)
      BY <1>2, <1>4, FinishIsIdle DEF UpdatePoll
    <2> QED
      BY <1>1, <2>1, <2>2, <2>3, SetStateType DEF IInv
  <1>5. CASE DeleteCluster
    BY <1>2, <1>5, FinishIsIdle DEF DeleteCluster, Live
  <1>6. CASE DeletePoll
    <2>1. op.id = tfstate.id
      BY <1>6 DEF DeletePoll, IInv, RunShape
    <2> QED
      BY <1>2, <1>6, <2>1, DeleteWaitVerdict, FinishIsIdle
  <1>7. ASSUME Plan \/ PlanWithoutRefresh \/ UpdateCluster \/ Environment
               \/ PollError \/ WaitTimeout \/ Crash \/ UNCHANGED vars
        PROVE  UNCHANGED tfstate
    <2>1. CASE PollError \/ WaitTimeout
      BY <1>1, <2>1, FinishIsIdle DEF PollError, WaitTimeout, WaitFails
    <2>2. CASE Crash
      BY <2>2, FinishIsIdle DEF Crash
    <2>3. CASE Environment
      BY <2>3 DEF Environment, EditConfig, Progress, RolloutFails,
         OutOfBandUpdate, OutOfBandDelete, OutOfBandCreate
    <2> QED
      BY <1>7, <2>1, <2>2, <2>3 DEF Plan, PlanWithoutRefresh, PlanFrom,
         UpdateCluster, vars
  <1>8. ~CreateCluster /\ ~CreatePoll /\ ~ImportState
    BY <1>1 DEF CreateCluster, CreatePoll, ImportState
  <1> QED
    BY <1>2, <1>3, <1>4, <1>5, <1>6, <1>7, <1>8 DEF Next, Provider

\* A cluster leaves Terraform's state, or is exchanged for another, only when
\* the API no longer has it.
THEOREM ForgottenOnlyWhenGone == Spec => ForgetOnlyGone
  <1>1. IInv /\ [Next]_vars =>
          [tfstate # NoState
             /\ (tfstate' = NoState \/ tfstate'.id # tfstate.id)
             => ~Live(tfstate.id)]_vars
    BY ForgetStep
  <1> QED
    BY <1>1, Invariance, PTL DEF Spec, ForgetOnlyGone

-----------------------------------------------------------------------------
(* What an apply leaves *)

\* The state holds what Set makes of the API's answer.
Synced == tfstate.spec = SetSpec(tfstate.spec, cloud[tfstate.id].spec)

\* How far the specs agree while a run is in flight.  The plan of an update
\* that follows a refresh differs from what the API has only in what the mask
\* sends, so that once it is accepted Set makes the plan of the answer; a new
\* cluster has the planned spec.  All of it only as long as nobody changes the
\* cluster elsewhere, which "fresh" remembers.
SpecsAgree ==
    /\ op.step # "idle" => op.result = "none"
    /\ op.step = "refreshed" /\ op.fresh /\ tfstate # NoState => Synced
    /\ op.step = "update" =>
          /\ op.fresh => Synced
          /\ \A a \in Immutable : op.plan[a] = tfstate.spec[a]
    /\ op.step = "updateWait" /\ op.fresh
          => SetSpec(op.plan, cloud[op.id].spec) = op.plan
    /\ op.step = "createWait" =>
          /\ op.fresh => cloud[op.id].spec = op.plan
          /\ op.resp.spec = op.plan

SInv == IInv /\ SpecsAgree /\ RefreshedApplyKeepsSpec

LEMMA SetSpecIdempotent ==
    ASSUME NEW model \in [Attrs -> Vals], NEW got \in [Attrs -> Vals]
    PROVE  /\ SetSpec(SetSpec(model, got), got) = SetSpec(model, got)
           /\ SetSpec(got, got) = got
  BY DEF SetSpec

\* The mask of an update that follows a refresh loses nothing.
LEMMA UpdateLosesNothing ==
    ASSUME NEW spec \in [Attrs -> Vals], NEW plan \in [Attrs -> Vals],
           NEW state, state.spec \in [Attrs -> Vals],
           state.spec = SetSpec(state.spec, spec),
           \A a \in Immutable : plan[a] = state.spec[a]
    PROVE  SetSpec(plan, ApplyUpdate(spec, plan, UpdateMask(plan, state))) = plan
  <1> DEFINE mask == UpdateMask(plan, state)
             got == ApplyUpdate(spec, plan, mask)
  <1>1. \A a \in Attrs \ mask : plan[a] = state.spec[a]
    BY DEF UpdateMask
  <1>2. \A a \in Attrs : /\ a \in mask => got[a] = plan[a]
                         /\ a \notin mask => got[a] = spec[a]
    BY DEF ApplyUpdate
  <1>3. \A a \in Attrs : state.spec[a]
            = IF a \in Webhooks /\ state.spec[a] = NoValue THEN NoValue
              ELSE spec[a]
    BY DEF SetSpec
  <1> HIDE DEF mask, got
  <1>4. SetSpec(plan, got) = plan
    BY <1>1, <1>2, <1>3 DEF SetSpec
  <1> QED
    BY <1>4 DEF mask, got

\* As long as the history stays fresh nobody changes the spec of the cluster
\* Terraform holds.
LEMMA EnvironmentKeepsSpecs ==
    ASSUME IInv, Environment, op'.fresh, NEW i \in Ids, Tracks(i)
    PROVE  cloud'[i].spec = cloud[i].spec
  <1>1. ASSUME NEW j \in Ids, NEW from, NEW to, SetStatus(j, from, to)
        PROVE  cloud'[i].spec = cloud[i].spec
    BY <1>1 DEF SetStatus, IInv, TypeOK
  <1>2. ASSUME NEW j \in Ids, OutOfBandCreate(j)
        PROVE  cloud'[i].spec = cloud[i].spec
    BY <1>2 DEF OutOfBandCreate, IInv, TypeOK, Created
  <1>3. CASE EditConfig
    BY <1>3 DEF EditConfig
  <1>4. ASSUME NEW j \in Ids, OutOfBandUpdate(j)
        PROVE  cloud'[i].spec = cloud[i].spec
    <2>1. op' = [op EXCEPT !.fresh = op.fresh /\ ~Tracks(j)] /\ op \in Op
      BY <1>4 DEF OutOfBandUpdate, IInv, TypeOK
    <2>2. op'.fresh = (op.fresh /\ ~Tracks(j))
      BY <2>1 DEF Op
    <2>3. i # j
      BY <2>2
    <2> QED
      BY <1>4, <2>3 DEF OutOfBandUpdate, IInv, TypeOK
  <1> QED
    BY <1>1, <1>2, <1>3, <1>4 DEF Environment, Progress, RolloutFails,
       OutOfBandDelete

\* The cluster a run is about exists.
LEMMA RunExists ==
    ASSUME IInv
    PROVE  /\ tfstate # NoState =>
                /\ tfstate.id \in Ids /\ cloud[tfstate.id].status # "UNUSED"
                /\ tfstate.spec \in [Attrs -> Vals]
                /\ cloud[tfstate.id].spec \in [Attrs -> Vals]
           /\ op.step \in {"createWait", "updateWait"} =>
                /\ op.id \in Ids /\ cloud[op.id].status # "UNUSED"
                /\ op.plan \in [Attrs -> Vals]
                /\ cloud[op.id].spec \in [Attrs -> Vals]
  <1>1. tfstate # NoState =>
          tfstate.id \in Ids /\ tfstate.spec \in [Attrs -> Vals]
    BY DEF IInv, TypeOK, State
  <1>2. tfstate # NoState => cloud[tfstate.id].status # "UNUSED"
    BY <1>1 DEF IInv, Created, Tracks
  <1>3. op.step \in {"createWait", "updateWait"} =>
          op.id \in Ids /\ op.plan \in [Attrs -> Vals]
    BY DEF IInv, RunShape, TypeOK, Op
  <1>4. op.step \in {"createWait", "updateWait"}
          => cloud[op.id].status # "UNUSED"
    BY <1>2, <1>3 DEF IInv, Created, Tracks, RunShape
  <1>5. \A i \in Ids : cloud[i].spec \in [Attrs -> Vals]
    BY DEF IInv, TypeOK
  <1> QED
    BY <1>1, <1>2, <1>3, <1>4, <1>5

\* A run that is over agrees with anything, if what it reports does.
LEMMA OverAgrees ==
    ASSUME op'.step = "idle", op'.result = "specChanged" => ~op'.fresh
    PROVE  SpecsAgree' /\ RefreshedApplyKeepsSpec'
  BY DEF SpecsAgree, RefreshedApplyKeepsSpec

\* The same of a run that is not.
LEMMA RunningAgrees ==
    ASSUME op'.step # "idle", op'.result = "none", SpecsAgree'
    PROVE  RefreshedApplyKeepsSpec'
  BY DEF RefreshedApplyKeepsSpec

LEMMA FinishAgrees ==
    ASSUME NEW state, NEW result, Finish(state, result),
           result = "specChanged" => ~op.fresh
    PROVE  SpecsAgree' /\ RefreshedApplyKeepsSpec'
  <1>1. /\ op'.step = "idle" /\ op'.result = result
        /\ op'.fresh = op.fresh
    BY DEF Finish, IdleOp
  <1> QED
    BY <1>1, OverAgrees

LEMMA ReadAgrees == SInv /\ Read => SpecsAgree' /\ RefreshedApplyKeepsSpec'
  <1> SUFFICES ASSUME SInv, Read PROVE SpecsAgree' /\ RefreshedApplyKeepsSpec'
    OBVIOUS
  <1>1. op'.step = "refreshed" /\ op'.result = "none" /\ UNCHANGED cloud
    BY DEF Read, IdleOp
  <1>2. ASSUME tfstate' # NoState PROVE Synced'
    <2>1. /\ tfstate # NoState
          /\ tfstate' = SetState(tfstate.id, tfstate.spec, tfstate.tainted)
      BY <1>2 DEF Read
    <2>2. /\ tfstate'.id = tfstate.id
          /\ tfstate'.spec = SetSpec(tfstate.spec, cloud[tfstate.id].spec)
      BY <2>1 DEF SetState
    <2>3. tfstate.spec \in [Attrs -> Vals]
          /\ cloud[tfstate.id].spec \in [Attrs -> Vals]
      BY <2>1, RunExists DEF SInv
    <2>4. tfstate'.spec = SetSpec(tfstate'.spec, cloud'[tfstate'.id].spec)
      BY <1>1, <2>2, <2>3, SetSpecIdempotent
    <2> QED
      BY <2>4 DEF Synced
  <1>3. SpecsAgree'
    BY <1>1, <1>2 DEF SpecsAgree
  <1> QED
    BY <1>1, <1>3, RunningAgrees

LEMMA PlanAgrees ==
    ASSUME SInv, NEW fresh \in BOOLEAN, PlanFrom(fresh),
           fresh => op.step = "refreshed" /\ op.fresh
    PROVE  SpecsAgree' /\ RefreshedApplyKeepsSpec'
  <1>1. CASE op' = [IdleOp("ok") EXCEPT !.fresh = fresh]
    <2>1. op'.step = "idle" /\ op'.result = "ok"
      BY <1>1 DEF IdleOp
    <2> QED
      BY <2>1, OverAgrees
  <1>2. ASSUME NEW step \in {"create", "delete", "update"}, NEW replace \in BOOLEAN,
               op' = PlannedOp(step, replace, fresh),
               step = "update" => tfstate # NoState /\ ~NeedsReplace(tfstate, config)
        PROVE  SpecsAgree' /\ RefreshedApplyKeepsSpec'
    <2>1. /\ op'.step = step /\ op'.result = "none" /\ op'.plan = config
          /\ op'.fresh = fresh
      BY <1>2 DEF PlannedOp, IdleOp
    <2>2. ASSUME step = "update"
          PROVE  /\ op'.fresh => Synced'
                 /\ \A a \in Immutable : op'.plan[a] = tfstate'.spec[a]
      <3>1. UNCHANGED <<cloud, tfstate>>
        BY DEF PlanFrom
      <3>2. fresh => Synced
        BY <1>2, <2>2 DEF SInv, SpecsAgree
      <3>3. \A a \in Immutable : config[a] = tfstate.spec[a]
        BY <1>2, <2>2 DEF NeedsReplace
      <3> QED
        BY <2>1, <3>1, <3>2, <3>3 DEF Synced
    <2>3. SpecsAgree'
      BY <2>1, <2>2 DEF SpecsAgree
    <2> QED
      BY <2>1, <2>3, RunningAgrees
  <1> QED
    BY <1>1, <1>2 DEF PlanFrom

LEMMA CreateClusterAgrees ==
    SInv /\ CreateCluster => SpecsAgree' /\ RefreshedApplyKeepsSpec'
  <1> SUFFICES ASSUME SInv, CreateCluster
               PROVE  SpecsAgree' /\ RefreshedApplyKeepsSpec'
    OBVIOUS
  <1>1. CASE op' = IdleOp("error")
    <2>1. op'.step = "idle" /\ op'.result = "error"
      BY <1>1 DEF IdleOp
    <2> QED
      BY <2>1, OverAgrees
  <1>2. ASSUME NEW i \in Ids, CreateAccepted(i),
               op' = [op EXCEPT
                        !.step = "createWait", !.id = i,
                        !.resp = [id |-> i, status |-> cloud'[i].status,
                                  spec |-> SetSpec(op.plan, op.plan),
                                  tainted |-> TRUE]]
        PROVE  SpecsAgree' /\ RefreshedApplyKeepsSpec'
    <2>1. op.step = "create" /\ op.result = "none" /\ op.plan \in [Attrs -> Vals]
      BY DEF CreateCluster, SInv, SpecsAgree, IInv, RunShape, TypeOK, Op
    <2>2. /\ op'.step = "createWait" /\ op'.result = "none" /\ op'.id = i
          /\ op'.plan = op.plan /\ op'.resp.spec = SetSpec(op.plan, op.plan)
      BY <1>2, <2>1 DEF SInv, IInv, TypeOK, Op
    <2>3. op'.resp.spec = op'.plan
      BY <2>1, <2>2, SetSpecIdempotent
    <2>4. cloud'[i].spec = op.plan
      BY <1>2 DEF CreateAccepted, SInv, IInv, TypeOK
    <2>5. SpecsAgree'
      BY <2>2, <2>3, <2>4 DEF SpecsAgree
    <2> QED
      BY <2>2, <2>5, RunningAgrees
  <1> QED
    BY <1>1, <1>2 DEF CreateCluster

LEMMA RetaintedState ==
    ASSUME NEW state \in State, NEW t \in BOOLEAN
    PROVE  [state EXCEPT !.tainted = t]
             = [id |-> state.id, status |-> state.status,
                spec |-> state.spec, tainted |-> t]
  BY DEF State

\* What ends the wait of a Create, and what it says.
LEMMA CreatePollEnds ==
    ASSUME SInv, CreatePoll,
           NEW got, got = SetSpec(op.plan, cloud[op.id].spec)
    PROVE  /\ op.step = "createWait"
           /\ \/ \E state : Finish(state, "error")
              \/ /\ cloud[op.id].status = "RUNNING"
                 /\ Finish([id |-> op.id, status |-> "RUNNING", spec |-> got,
                            tainted |-> got # op.plan],
                           IF got # op.plan THEN "specChanged" ELSE "ok")
  <1>1. op.step = "createWait" /\ op.resp.spec = op.plan
    BY DEF CreatePoll, SInv, SpecsAgree
  <1> DEFINE state == SetState(op.id, op.resp.spec, FALSE)
             result == IF got # op.plan THEN "specChanged" ELSE "ok"
             ready == [id |-> op.id, status |-> "RUNNING", spec |-> got,
                       tainted |-> FALSE]
  <1>3. ASSUME Verdict(CreatePending, ReadyTarget,
                       IF Found(op.id) THEN cloud[op.id].status
                       ELSE RefreshError) = "done"
        PROVE  cloud[op.id].status = "RUNNING"
    BY <1>3 DEF Verdict, ReadyTarget, RefreshError
  <1>4. ASSUME cloud[op.id].status = "RUNNING",
               Finish([state EXCEPT !.tainted = ApplyResult(state) # "ok"],
                      ApplyResult(state))
        PROVE  Finish([id |-> op.id, status |-> "RUNNING", spec |-> got,
                       tainted |-> got # op.plan], result)
    <2>1. state = ready
      BY <1>1, <1>4 DEF SetState
    <2>3. state \in State
      BY <1>1, <1>4, RunExists, SetStateType DEF SInv, IInv, Found, Reported
    <2> HIDE DEF state
    <2>2. ApplyResult(state) = result
      BY <1>1, <2>1 DEF ApplyResult
    <2>4. [state EXCEPT !.tainted = ApplyResult(state) # "ok"]
             = [id |-> state.id, status |-> state.status, spec |-> state.spec,
                tainted |-> ApplyResult(state) # "ok"]
      BY <2>3, RetaintedState
    <2>5. (ApplyResult(state) # "ok") = (got # op.plan)
      BY <2>2
    <2>6. [state EXCEPT !.tainted = ApplyResult(state) # "ok"]
             = [id |-> op.id, status |-> "RUNNING", spec |-> got,
                tainted |-> got # op.plan]
      BY <2>1, <2>4, <2>5
    <2> QED
      BY <1>4, <2>2, <2>6
  <1> QED
    BY <1>1, <1>3, <1>4 DEF CreatePoll

LEMMA CreatePollAgrees ==
    SInv /\ CreatePoll => SpecsAgree' /\ RefreshedApplyKeepsSpec'
  <1> SUFFICES ASSUME SInv, CreatePoll
               PROVE  SpecsAgree' /\ RefreshedApplyKeepsSpec'
    OBVIOUS
  <1>1. PICK got : got = SetSpec(op.plan, cloud[op.id].spec)
    OBVIOUS
  <1>2. op.fresh => got = op.plan
    BY <1>1, RunExists, SetSpecIdempotent DEF CreatePoll, SInv, SpecsAgree
  <1>3. CASE \E state : Finish(state, "error")
    BY <1>3, FinishAgrees
  <1>4. CASE Finish([id |-> op.id, status |-> "RUNNING", spec |-> got,
                     tainted |-> got # op.plan],
                    IF got # op.plan THEN "specChanged" ELSE "ok")
    BY <1>2, <1>4, FinishAgrees
  <1> QED
    BY <1>1, <1>3, <1>4, CreatePollEnds

LEMMA UpdateClusterAgrees ==
    SInv /\ UpdateCluster => SpecsAgree' /\ RefreshedApplyKeepsSpec'
  <1> SUFFICES ASSUME SInv, UpdateCluster
               PROVE  SpecsAgree' /\ RefreshedApplyKeepsSpec'
    OBVIOUS
  <1>1. CASE op' = IdleOp("error")
    <2>1. op'.step = "idle" /\ op'.result = "error"
      BY <1>1 DEF IdleOp
    <2> QED
      BY <2>1, OverAgrees
  <1>2. CASE /\ UpdateAccepted(tfstate.id)
             /\ op' = [op EXCEPT !.step = "updateWait", !.id = tfstate.id]
    <2>1. /\ op.step = "update" /\ op.result = "none" /\ tfstate # NoState
          /\ op.plan \in [Attrs -> Vals]
      BY DEF UpdateCluster, SInv, SpecsAgree, IInv, RunShape, TypeOK, Op
    <2>2. /\ op'.step = "updateWait" /\ op'.result = "none"
          /\ op'.id = tfstate.id /\ op'.plan = op.plan
          /\ op'.fresh = op.fresh
      BY <1>2, <2>1 DEF SInv, IInv, TypeOK, Op
    <2>3. /\ tfstate.id \in Ids /\ tfstate.spec \in [Attrs -> Vals]
          /\ cloud[tfstate.id].spec \in [Attrs -> Vals]
      BY <2>1, RunExists DEF SInv
    <2>4. cloud'[tfstate.id].spec
            = ApplyUpdate(cloud[tfstate.id].spec, op.plan,
                          UpdateMask(op.plan, tfstate))
      BY <1>2, <2>3 DEF UpdateAccepted, Updatable, SInv, IInv, TypeOK
    <2>5. ASSUME op.fresh
          PROVE  SetSpec(op.plan, cloud'[tfstate.id].spec) = op.plan
      <3>1. /\ tfstate.spec = SetSpec(tfstate.spec, cloud[tfstate.id].spec)
            /\ \A a \in Immutable : op.plan[a] = tfstate.spec[a]
        BY <2>1, <2>5 DEF SInv, SpecsAgree, Synced
      <3> QED
        BY <2>1, <2>3, <2>4, <3>1, UpdateLosesNothing
    <2>6. SpecsAgree'
      BY <2>2, <2>5 DEF SpecsAgree
    <2> QED
      BY <2>2, <2>6, RunningAgrees
  <1> QED
    BY <1>1, <1>2 DEF UpdateCluster

\* What ends the wait of an Update, and what it says.
LEMMA UpdatePollEnds ==
    ASSUME SInv, UpdatePoll
    PROVE  /\ op.step = "updateWait"
           /\ \/ Finish(tfstate, "error")
              \/ /\ cloud[op.id].status = "RUNNING"
                 /\ Finish([id |-> op.id, status |-> "RUNNING",
                            spec |-> SetSpec(op.plan, cloud[op.id].spec),
                            tainted |-> FALSE],
                           ApplyResult([id |-> op.id, status |-> "RUNNING",
                              spec |-> SetSpec(op.plan, cloud[op.id].spec),
                              tainted |-> FALSE]))
  <1>1. ASSUME Verdict(UpdatePending, ReadyTarget,
                       IF Found(op.id) THEN cloud[op.id].status
                       ELSE RefreshError) = "done"
        PROVE  cloud[op.id].status = "RUNNING"
    BY <1>1 DEF Verdict, ReadyTarget, RefreshError
  <1>2. cloud[op.id].status = "RUNNING"
          => SetState(op.id, op.plan, FALSE)
               = [id |-> op.id, status |-> "RUNNING",
                  spec |-> SetSpec(op.plan, cloud[op.id].spec),
                  tainted |-> FALSE]
    BY DEF SetState
  <1> QED
    BY <1>1, <1>2 DEF UpdatePoll

LEMMA UpdatePollAgrees ==
    SInv /\ UpdatePoll => SpecsAgree' /\ RefreshedApplyKeepsSpec'
  <1> SUFFICES ASSUME SInv, UpdatePoll
               PROVE  SpecsAgree' /\ RefreshedApplyKeepsSpec'
    OBVIOUS
  <1>1. CASE Finish(tfstate, "error")
    BY <1>1, FinishAgrees
  <1>2. ASSUME NEW state, Finish(state, ApplyResult(state)),
               state.spec = SetSpec(op.plan, cloud[op.id].spec)
        PROVE  SpecsAgree' /\ RefreshedApplyKeepsSpec'
    <2>1. op.fresh => state.spec = op.plan
      BY <1>2, UpdatePollEnds DEF SInv, SpecsAgree
    <2>2. ApplyResult(state) = "specChanged" => ~op.fresh
      BY <2>1 DEF ApplyResult
    <2> QED
      BY <1>2, <2>2, FinishAgrees
  <1> QED
    BY <1>1, <1>2, UpdatePollEnds

LEMMA DeletedAgrees ==
    ASSUME SInv, Deleted, op.step \in {"delete", "deleteWait"}
    PROVE  SpecsAgree' /\ RefreshedApplyKeepsSpec'
  <1>1. CASE op' = IdleOp("ok")
    <2>1. op'.step = "idle" /\ op'.result = "ok"
      BY <1>1 DEF IdleOp
    <2> QED
      BY <2>1, OverAgrees
  <1>2. CASE op' = [op EXCEPT !.step = "create", !.id = NoId]
    <2>1. op'.step = "create" /\ op'.result = "none"
      BY <1>2 DEF SInv, SpecsAgree, IInv, TypeOK, Op
    <2>2. SpecsAgree'
      BY <2>1 DEF SpecsAgree
    <2> QED
      BY <2>1, <2>2, RunningAgrees
  <1> QED
    BY <1>1, <1>2 DEF Deleted

LEMMA DeleteAgrees ==
    SInv /\ (DeleteCluster \/ DeletePoll)
      => SpecsAgree' /\ RefreshedApplyKeepsSpec'
  <1> SUFFICES ASSUME SInv, DeleteCluster \/ DeletePoll
               PROVE  SpecsAgree' /\ RefreshedApplyKeepsSpec'
    OBVIOUS
  <1>1. op.step \in {"delete", "deleteWait"}
    BY DEF DeleteCluster, DeletePoll
  <1>2. CASE Deleted
    BY <1>1, <1>2, DeletedAgrees
  <1>3. CASE Finish(tfstate, "error")
    BY <1>3, FinishAgrees
  <1>4. CASE op.step = "delete"
             /\ op' = [op EXCEPT !.step = "deleteWait", !.id = tfstate.id]
    <2>1. op'.step = "deleteWait" /\ op'.result = "none"
      BY <1>4 DEF SInv, SpecsAgree, IInv, TypeOK, Op
    <2>2. SpecsAgree'
      BY <2>1 DEF SpecsAgree
    <2> QED
      BY <2>1, <2>2, RunningAgrees
  <1> QED
    BY <1>2, <1>3, <1>4 DEF DeleteCluster, DeletePoll

LEMMA EnvironmentAgrees ==
    SInv /\ Environment => SpecsAgree' /\ RefreshedApplyKeepsSpec'
  <1> SUFFICES ASSUME SInv, Environment
               PROVE  SpecsAgree' /\ RefreshedApplyKeepsSpec'
    OBVIOUS
  <1>1. SameRun /\ UNCHANGED tfstate
    BY EnvironmentKeepsRun DEF SInv
  <1>2. RefreshedApplyKeepsSpec'
    BY <1>1 DEF SInv, RefreshedApplyKeepsSpec, SameRun
  <1>3. ASSUME op'.fresh, tfstate # NoState
        PROVE  /\ cloud'[tfstate.id].spec = cloud[tfstate.id].spec
               /\ Synced' <=> Synced
    <2>1. cloud'[tfstate.id].spec = cloud[tfstate.id].spec
      BY <1>3, RunExists, EnvironmentKeepsSpecs DEF SInv, Tracks
    <2> QED
      BY <1>1, <2>1 DEF Synced
  <1>4. ASSUME op'.fresh, op.step = "createWait"
        PROVE  cloud'[op.id].spec = cloud[op.id].spec
    BY <1>4, RunExists, EnvironmentKeepsSpecs DEF SInv, Tracks
  <1>5. /\ op.step \in {"update", "updateWait"} => tfstate # NoState
        /\ op.step = "updateWait" => op.id = tfstate.id
    BY DEF SInv, IInv, RunShape
  <1>6. SpecsAgree'
    BY <1>1, <1>3, <1>4, <1>5 DEF SInv, SpecsAgree, SameRun
  <1> QED
    BY <1>2, <1>6

LEMMA InitAgrees == Init => SpecsAgree /\ RefreshedApplyKeepsSpec
  BY DEF Init, SpecsAgree, RefreshedApplyKeepsSpec

LEMMA NextAgrees ==
    SInv /\ [Next]_vars => SpecsAgree' /\ RefreshedApplyKeepsSpec'
  <1> SUFFICES ASSUME SInv, [Next]_vars
               PROVE  SpecsAgree' /\ RefreshedApplyKeepsSpec'
    OBVIOUS
  <1>1. CASE Plan
    BY <1>1, PlanAgrees DEF Plan, SInv, IInv, TypeOK, Op
  <1>2. CASE PlanWithoutRefresh
    BY <1>2, PlanAgrees DEF PlanWithoutRefresh
  <1>3. CASE PollError \/ WaitTimeout
    BY <1>3, FinishAgrees DEF PollError, WaitTimeout, WaitFails
  <1>4. CASE ImportState
    <2>1. op'.step = "idle" /\ op'.result = "none"
      BY <1>4 DEF ImportState, IdleOp
    <2> QED
      BY <2>1, OverAgrees
  <1>5. CASE Crash
    BY <1>5, FinishAgrees DEF Crash
  <1>6. CASE UNCHANGED vars
    BY <1>6 DEF vars, SInv, SpecsAgree, RefreshedApplyKeepsSpec, Synced
  <1> QED
    BY <1>1, <1>2, <1>3, <1>4, <1>5, <1>6, ReadAgrees, CreateClusterAgrees,
       CreatePollAgrees, UpdateClusterAgrees, UpdatePollAgrees, DeleteAgrees,
       EnvironmentAgrees DEF Next, Provider

\* SInv is an invariant too, the other one given.
THEOREM SpecInvariance == Spec => []SInv
  <1>1. Init => SInv
    BY InitEstablishes, InitAgrees DEF SInv
  <1>2. SInv /\ [Next]_vars => SInv'
    BY NextPreserves, NextAgrees DEF SInv
  <1> QED
    BY <1>1, <1>2, PTL DEF Spec

\* An apply whose plan follows a refresh ends with another spec than the
\* planned one only if somebody changed the cluster after that refresh: sending
\* only the changed attributes loses nothing, whatever attributes a cluster has.
THEOREM RefreshedApplyIsKept == Spec => []RefreshedApplyKeepsSpec
  BY SpecInvariance, PTL DEF SInv

\* A step out of a wait that ends without an error.
LEMMA SuccessStep ==
    ASSUME SInv, [Next]_vars, op.step \in {"createWait", "updateWait"},
           op'.result = "ok"
    PROVE  /\ cloud[op.id].status = "RUNNING"
           /\ SetSpec(op.plan, cloud[op.id].spec) = op.plan
           /\ tfstate' = [id |-> op.id, status |-> "RUNNING",
                          spec |-> op.plan, tainted |-> FALSE]
  <1>1. op.result = "none"
    BY DEF SInv, SpecsAgree
  <1>2. op'.result # op.result
    BY <1>1
  <1>3. ASSUME NEW state, NEW result, Finish(state, result)
        PROVE  tfstate' = state /\ result = "ok"
    BY <1>3 DEF Finish, IdleOp
  <1>4. CASE CreatePoll
    <2>1. PICK got : got = SetSpec(op.plan, cloud[op.id].spec)
      OBVIOUS
    <2>2. /\ cloud[op.id].status = "RUNNING"
          /\ Finish([id |-> op.id, status |-> "RUNNING", spec |-> got,
                     tainted |-> got # op.plan],
                    IF got # op.plan THEN "specChanged" ELSE "ok")
      BY <1>3, <1>4, <2>1, CreatePollEnds
    <2>3. got = op.plan
      BY <1>3, <2>2
    <2>4. (got # op.plan) = FALSE
      BY <2>3
    <2> QED
      BY <1>3, <2>1, <2>2, <2>3, <2>4
  <1>5. CASE UpdatePoll
    <2> DEFINE state == [id |-> op.id, status |-> "RUNNING",
                         spec |-> SetSpec(op.plan, cloud[op.id].spec),
                         tainted |-> FALSE]
    <2>1. /\ cloud[op.id].status = "RUNNING"
          /\ Finish(state, ApplyResult(state))
      BY <1>3, <1>5, UpdatePollEnds
    <2>2. ApplyResult(state) = "ok" /\ tfstate' = state
      BY <1>3, <2>1
    <2>3. state.spec = op.plan
      BY <2>2 DEF ApplyResult
    <2> QED
      BY <2>1, <2>2, <2>3
  <1>6. ~PollError /\ ~WaitTimeout /\ ~Crash
    BY <1>3 DEF PollError, WaitTimeout, WaitFails, Crash
  <1>7. ~Environment /\ ~UNCHANGED vars
    BY <1>1, <1>2, EnvironmentKeepsRun DEF SInv, SameRun, vars
  <1> QED
    BY <1>4, <1>5, <1>6, <1>7 DEF Next, Provider, Read, Plan,
       PlanWithoutRefresh, CreateCluster, UpdateCluster, DeleteCluster,
       DeletePoll, ImportState

\* An apply that ends without an error leaves a cluster the API reports
\* RUNNING, with the planned spec, and Terraform's state says so, whoever
\* changed the cluster while the apply ran.
THEOREM SuccessIsReady == Spec => SuccessMeansReady
  <1>1. SInv /\ [Next]_vars =>
          [op.step \in {"createWait", "updateWait"} /\ op'.result = "ok"
             => /\ cloud[op.id].status = "RUNNING"
                /\ SetSpec(op.plan, cloud[op.id].spec) = op.plan
                /\ tfstate' = [id |-> op.id, status |-> "RUNNING",
                               spec |-> op.plan, tainted |-> FALSE]]_vars
    BY SuccessStep
  <1> QED
    BY <1>1, SpecInvariance, PTL DEF Spec, SuccessMeansReady
=============================================================================
