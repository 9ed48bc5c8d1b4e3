----------------------- MODULE BucketResource_proofs -----------------------
(***************************************************************************)
(* Proofs about BucketResource, for every set of runs, zones and tags and  *)
(* every bound: type correctness, that a state never holds a bucket in     *)
(* another zone than the bucket's, and that a bucket held untainted is     *)
(* forgotten only once it is gone.  For a single run, also that an apply   *)
(* without an error leaves what was planned, visible.                      *)
(*                                                                         *)
(* An action moves one run and the world (bucket, view and made).  The     *)
(* invariant has a part for the world and one for each run, and the world  *)
(* moves in one of five ways, each of which preserves both parts.          *)
(***************************************************************************)
EXTENDS BucketResource, TLAPS

WorldOK ==
    /\ bucket \in Bucket /\ view \in Bucket /\ made \in 0..MaxBuckets
    /\ bucket.id <= made /\ view.id <= made
    /\ view.id = bucket.id => view.zone = bucket.zone

\* What a run holds was made, and in the zone it believes.
Holds(st) ==
    st # NoState => /\ st.id <= made
                    /\ st.id = bucket.id => st.zone = bucket.zone

\* A bucket the run has seen stays visible for as long as it exists.
Seen(st) == st.id = bucket.id => Exists(view)

\* The same after the step, of a state from before it.
HoldsNext(st) ==
    st # NoState => /\ st.id <= made'
                    /\ st.id = bucket'.id => st.zone = bucket'.zone
SeenNext(st) == st.id = bucket'.id => Exists(view')

RunOK(r) ==
    /\ state[r] \in State \cup {NoState}
    /\ op[r] \in Op
    /\ Holds(state[r]) /\ Holds(op[r].resp)
    /\ state[r] # NoState /\ ~state[r].tainted => Seen(state[r])
    /\ op[r].step \in {"createTags", "createTagsWait", "importTags"}
          => Seen(op[r].resp)
    /\ op[r].step \in {"createWait", "createTags", "createTagsWait",
                       "importTags"}
          => op[r].resp # NoState
    /\ op[r].step \in {"createWait", "createTags", "createTagsWait"}
          => op[r].resp.tainted
    /\ op[r].step \in {"readLocation", "update", "updateWait"}
          => state[r] # NoState
    /\ op[r].step \in {"create", "createBucket", "createWait", "createTags",
                       "createTagsWait", "update", "updateWait"}
          => op[r].plan \in Config
    /\ op[r].replace => op[r].plan \in Config

IInv == /\ WorldOK
        /\ state = [r \in Runs |-> state[r]] /\ op = [r \in Runs |-> op[r]]
        /\ \A r \in Runs : RunOK(r)
        /\ config \in [Runs -> Configs \cup {NoConfig}]
        /\ budget \in Budget

\* The five ways in which the world moves.
Still == UNCHANGED <<bucket, view, made>>
Retag == /\ Exists(bucket)
         /\ \E t \in ApiTags : bucket' = [bucket EXCEPT !.tags = t]
         /\ UNCHANGED <<view, made>>
Vanish == bucket' = Missing /\ UNCHANGED <<view, made>>
Appear == /\ ~Exists(bucket) /\ made < MaxBuckets
          /\ \E z \in Zones :
                bucket' = [id |-> made + 1, zone |-> z, tags |-> "none"]
          /\ made' = made + 1
          /\ UNCHANGED view
CatchUp == view' = bucket /\ UNCHANGED <<bucket, made>>

World == Still \/ Retag \/ Vanish \/ Appear \/ CatchUp

USE DataAssumption, BoundAssumption, StateAssumption

-----------------------------------------------------------------------------
(* Lemmas *)

\* The world stays well-formed.
LEMMA WorldPreserved ==
    ASSUME WorldOK, World
    PROVE  WorldOK'
  <1>1. CASE Still
    BY <1>1 DEF Still, WorldOK
  <1>2. CASE Retag
    BY <1>2 DEF Retag, WorldOK, Bucket, Exists, Missing
  <1>3. CASE Vanish
    BY <1>3 DEF Vanish, WorldOK, Bucket, Missing
  <1>4. CASE Appear
    BY <1>4 DEF Appear, WorldOK, Bucket, Missing, Exists, ApiTags
  <1>5. CASE CatchUp
    BY <1>5 DEF CatchUp, WorldOK
  <1> QED
    BY <1>1, <1>2, <1>3, <1>4, <1>5 DEF World

\* What a run holds or has seen, it still does after the world moved.
LEMMA HeldPreserved ==
    ASSUME WorldOK, World, NEW st \in State
    PROVE  /\ Holds(st) => HoldsNext(st)
           /\ Holds(st) /\ Seen(st) => SeenNext(st)
  <1>0. st.id \in Nat /\ st.id # 0 /\ st # NoState
    BY DEF State
  <1>1. CASE Still
    BY <1>1 DEF Still, Exists, Holds, Seen, HoldsNext, SeenNext
  <1>2. CASE Retag
    BY <1>0, <1>2 DEF Retag, WorldOK, Bucket, Holds, Seen, HoldsNext, SeenNext, Exists, Missing
  <1>3. CASE Vanish
    BY <1>0, <1>3 DEF Vanish, Missing, Holds, Seen, HoldsNext, SeenNext
  <1>4. CASE Appear
    BY <1>0, <1>4 DEF Appear, WorldOK, Holds, Seen, HoldsNext, SeenNext
  <1>5. CASE CatchUp
    BY <1>0, <1>5 DEF CatchUp, Holds, Seen, HoldsNext, SeenNext, Exists
  <1> QED
    BY <1>1, <1>2, <1>3, <1>4, <1>5 DEF World

\* A run that does not move keeps its part of the invariant.
LEMMA BystanderPreserved ==
    ASSUME WorldOK, World, NEW r \in Runs, RunOK(r),
           state'[r] = state[r], op'[r] = op[r]
    PROVE  RunOK(r)'
  <1>1. Holds(state[r])' /\ (state[r] # NoState /\ ~state[r].tainted
                                => Seen(state[r])')
    <2>1. CASE state[r] = NoState
      BY <2>1 DEF Holds
    <2>2. CASE state[r] # NoState
      <3>1. state[r] \in State
        BY <2>2 DEF RunOK
      <3> QED
        BY <3>1, <2>2, HeldPreserved DEF RunOK, Holds, Seen, Exists, HoldsNext, SeenNext
    <2> QED
      BY <2>1, <2>2
  <1>2. /\ Holds(op[r].resp)'
        /\ op[r].step \in {"createTags", "createTagsWait", "importTags"}
              => Seen(op[r].resp)'
    <2>1. CASE op[r].resp = NoState
      BY <2>1 DEF Holds, RunOK
    <2>2. CASE op[r].resp # NoState
      <3>1. op[r].resp \in State
        BY <2>2 DEF RunOK, Op
      <3> QED
        BY <3>1, <2>2, HeldPreserved DEF RunOK, Holds, Seen, Exists, HoldsNext, SeenNext
    <2> QED
      BY <2>1, <2>2
  <1> QED
    BY <1>1, <1>2 DEF RunOK

\* So one run may be looked at alone.
LEMMA OneRunMoves ==
    ASSUME IInv, World, NEW r \in Runs, NEW st, NEW o,
           state' = [state EXCEPT ![r] = st], op' = [op EXCEPT ![r] = o],
           state'[r] = st /\ op'[r] = o => RunOK(r)',
           config' \in [Runs -> Configs \cup {NoConfig}], budget' \in Budget
    PROVE  IInv'
  <1>1. WorldOK'
    BY WorldPreserved DEF IInv
  <1>2. /\ state' = [s \in Runs |-> state'[s]]
        /\ op' = [s \in Runs |-> op'[s]]
        /\ state'[r] = st /\ op'[r] = o
    BY DEF IInv
  <1>3. ASSUME NEW s \in Runs PROVE RunOK(s)'
    <2>1. CASE s = r
      BY <2>1, <1>2
    <2>2. CASE s # r
      <3>1. state'[s] = state[s] /\ op'[s] = op[s]
        BY <2>2 DEF IInv
      <3> QED
        BY <3>1, BystanderPreserved DEF IInv
    <2> QED
      BY <2>1, <2>2
  <1> QED
    BY <1>1, <1>2, <1>3 DEF IInv

\* A budget stays within its bounds when it is charged.
LEMMA ChargeType ==
    ASSUME budget \in Budget, NEW kind \in {"faults", "edits", "outside"},
           Charge(kind)
    PROVE  budget' \in Budget
  BY DEF Charge, Budget

LEMMA IdleOpType ==
    ASSUME NEW result \in Results
    PROVE  /\ IdleOp(result) \in Op
           /\ IdleOp(result).step = "idle"
           /\ IdleOp(result).resp = NoState
           /\ ~IdleOp(result).replace
  BY DEF IdleOp, Op, Steps, Tags

\* An operation that ends with state st.
LEMMA EndPreserves ==
    ASSUME IInv, World, NEW r \in Runs, NEW st \in State \cup {NoState},
           NEW result \in Results, Finish(r, st, result),
           budget' \in Budget, UNCHANGED config,
           HoldsNext(st),
           st # NoState /\ ~st.tainted => SeenNext(st)
    PROVE  IInv'
  <1>1. state'[r] = st /\ op'[r] = IdleOp(result) => RunOK(r)'
    <2>1. /\ IdleOp(result) \in Op /\ IdleOp(result).step = "idle"
          /\ IdleOp(result).resp = NoState /\ ~IdleOp(result).replace
      BY IdleOpType
    <2> QED
      BY <2>1 DEF RunOK, Holds, Seen, Exists, HoldsNext, SeenNext
  <1>2. config' \in [Runs -> Configs \cup {NoConfig}]
    BY DEF IInv
  <1> QED
    BY <1>1, <1>2, OneRunMoves DEF Finish

\* What a run holds, while its operation ends with the state it began with ...
LEMMA StateKept ==
    ASSUME IInv, World, NEW r \in Runs
    PROVE  /\ state[r] \in State \cup {NoState}
           /\ HoldsNext(state[r])
           /\ state[r] # NoState /\ ~state[r].tainted => SeenNext(state[r])
  <1>1. RunOK(r) /\ WorldOK
    BY DEF IInv
  <1>2. CASE state[r] = NoState
    BY <1>2 DEF HoldsNext
  <1>3. CASE state[r] # NoState
    <2>1. state[r] \in State
      BY <1>1, <1>3 DEF RunOK
    <2> QED
      BY <1>1, <1>3, <2>1, HeldPreserved DEF RunOK, Holds, Seen, Exists, HoldsNext, SeenNext
  <1> QED
    BY <1>2, <1>3

\* ... as one that failed does.
LEMMA FailPreserves ==
    ASSUME IInv, World, NEW r \in Runs, NEW result \in Results,
           Finish(r, state[r], result), budget' \in Budget, UNCHANGED config
    PROVE  IInv'
  BY StateKept, EndPreserves

\* The same for the answer a Create or an import has prepared.
LEMMA RespKept ==
    ASSUME IInv, World, NEW r \in Runs, op[r].resp # NoState
    PROVE  /\ op[r].resp \in State
           /\ HoldsNext(op[r].resp)
           /\ Seen(op[r].resp) => SeenNext(op[r].resp)
  <1>1. RunOK(r) /\ WorldOK
    BY DEF IInv
  <1>2. op[r].resp \in State
    BY <1>1 DEF RunOK, Op
  <1> QED
    BY <1>1, <1>2, HeldPreserved DEF RunOK, Holds, Seen, Exists, HoldsNext, SeenNext

\* An operation goes on to its next step.
LEMMA GotoPreserves ==
    ASSUME IInv, World, NEW r \in Runs,
           NEW step \in {"createBucket", "createTags", "createTagsWait",
                         "updateWait", "deleteWait"},
           Goto(r, step), budget' \in Budget, UNCHANGED config,
           step \in {"createBucket", "createTags", "createTagsWait",
                     "updateWait"} => op[r].plan \in Config,
           step \in {"createTags", "createTagsWait"}
              => /\ op[r].resp # NoState /\ op[r].resp.tainted
                 /\ SeenNext(op[r].resp),
           step = "updateWait" => state[r] # NoState
    PROVE  IInv'
  <1>1. RunOK(r)
    BY DEF IInv
  <1>2. /\ state' = [state EXCEPT ![r] = state[r]]
        /\ op' = [op EXCEPT ![r] = [op[r] EXCEPT !.step = step]]
    BY DEF IInv, Goto
  <1>3. /\ [op[r] EXCEPT !.step = step] \in Op
        /\ [op[r] EXCEPT !.step = step].step = step
        /\ [op[r] EXCEPT !.step = step].resp = op[r].resp
        /\ [op[r] EXCEPT !.step = step].plan = op[r].plan
        /\ [op[r] EXCEPT !.step = step].replace = op[r].replace
    BY <1>1 DEF RunOK, Op, Steps
  <1>4. HoldsNext(op[r].resp)
    BY RespKept DEF HoldsNext
  <1>5. state'[r] = state[r] /\ op'[r] = [op[r] EXCEPT !.step = step]
           => RunOK(r)'
    BY <1>1, <1>3, <1>4, StateKept
      DEF RunOK, Holds, Seen, Exists, HoldsNext, SeenNext
  <1>6. config' \in [Runs -> Configs \cup {NoConfig}]
    BY DEF IInv
  <1> QED
    BY <1>2, <1>5, <1>6, OneRunMoves

\* A run that is about to plan, with state st.
LEMMA RefreshedPreserves ==
    ASSUME IInv, Still, NEW r \in Runs, NEW st \in State \cup {NoState},
           state' = [state EXCEPT ![r] = st],
           op' = [op EXCEPT ![r] = [IdleOp("none") EXCEPT !.step = "refreshed"]],
           UNCHANGED <<config, budget>>,
           Holds(st),
           st # NoState /\ ~st.tainted => Seen(st)
    PROVE  IInv'
  <1> DEFINE o == [IdleOp("none") EXCEPT !.step = "refreshed"]
  <1>1. o \in Op /\ o.step = "refreshed" /\ o.resp = NoState /\ ~o.replace
    BY IdleOpType DEF Op, Steps, Results
  <1>2. HoldsNext(st) /\ (st # NoState /\ ~st.tainted => SeenNext(st))
    BY DEF Still, Holds, Seen, Exists, HoldsNext, SeenNext
  <1>3. state'[r] = st /\ op'[r] = o => RunOK(r)'
    BY <1>1, <1>2 DEF RunOK, Holds, Seen, Exists, HoldsNext, SeenNext
  <1>4. /\ config' \in [Runs -> Configs \cup {NoConfig}]
        /\ budget' \in Budget /\ World
    BY DEF IInv, World
  <1> QED
    BY <1>3, <1>4, OneRunMoves

\* The writes move the world as listed.
LEMMA WritesMoveWorld ==
    ASSUME UNCHANGED view
    PROVE  /\ \A zone \in Zones : CreateAccepted(zone) => World
           /\ \A r \in Runs : op[r].plan \in Config /\ TagsAccepted(r)
                                  /\ UNCHANGED made => World
           /\ bucket' = Missing /\ UNCHANGED made => World
           /\ UNCHANGED <<bucket, made>> => World
  <1>1. ASSUME NEW zone \in Zones, CreateAccepted(zone) PROVE World
    BY <1>1 DEF CreateAccepted, World, Still, Appear
  <1>2. ASSUME NEW r \in Runs, op[r].plan \in Config, TagsAccepted(r),
               UNCHANGED made
        PROVE  World
    <2>1. OnApi(op[r].plan.tags) \in ApiTags
      BY <1>2 DEF OnApi, Config, Tags, ApiTags
    <2> QED
      BY <1>2, <2>1 DEF TagsAccepted, World, Retag
  <1> QED
    BY <1>1, <1>2 DEF World, Still, Vanish

-----------------------------------------------------------------------------
(* The actions of a run *)

LEMMA ReadPreserves ==
    ASSUME IInv, NEW r \in Runs, ReadTags(r) \/ ReadLocation(r)
    PROVE  IInv'
  <1>1. RunOK(r) /\ WorldOK /\ budget \in Budget
    BY DEF IInv
  <1>2. Still /\ UNCHANGED <<config, budget>>
    BY DEF ReadTags, ReadLocation, Still
  <1>3. CASE ReadTags(r)
    <2>1. CASE state[r] = NoState \/ ~Exists(view)
      <3>1. Holds(NoState)
        BY DEF Holds
      <3> QED
        BY <1>2, <1>3, <2>1, <3>1, RefreshedPreserves DEF ReadTags
    <2>2. CASE ~(state[r] = NoState \/ ~Exists(view))
      <3> DEFINE o == [IdleOp("none") EXCEPT !.step = "readLocation",
                                             !.got = AsRead(view.tags)]
      <3>1. AsRead(view.tags) \in Tags
        BY <1>1 DEF WorldOK, Bucket, Missing, ApiTags, Tags, AsRead
      <3>2. /\ o \in Op /\ o.step = "readLocation" /\ o.resp = NoState
            /\ ~o.replace
        BY <3>1, IdleOpType DEF Op, Steps, Results
      <3>3. /\ state' = [state EXCEPT ![r] = state[r]]
            /\ op' = [op EXCEPT ![r] = o]
        BY <1>3, <2>2 DEF ReadTags, IInv
      <3>4. World
        BY <1>2 DEF World
      <3>5. state'[r] = state[r] /\ op'[r] = o => RunOK(r)'
        BY <2>2, <3>2, <3>4, StateKept
          DEF RunOK, Holds, Seen, Exists, HoldsNext, SeenNext
      <3>6. /\ config' \in [Runs -> Configs \cup {NoConfig}]
            /\ budget' \in Budget
        BY <1>2 DEF IInv
      <3> QED
        BY <3>3, <3>4, <3>5, <3>6, OneRunMoves
    <2> QED
      BY <2>1, <2>2
  <1>4. CASE ReadLocation(r)
    <2> DEFINE st == IF Exists(view)
                     THEN [id |-> view.id, zone |-> view.zone,
                           tags |-> op[r].got, tainted |-> state[r].tainted]
                     ELSE NoState
    <2>1. state[r] \in State /\ op[r].got \in Tags
      BY <1>1, <1>4 DEF RunOK, ReadLocation, Op
    <2>2. st \in State \cup {NoState}
      BY <1>1, <2>1 DEF WorldOK, Bucket, Missing, Exists, State
    <2>3. Holds(st) /\ (st # NoState => Seen(st))
      BY <1>1 DEF WorldOK, Holds, Seen
    <2>4. /\ state' = [state EXCEPT ![r] = st]
          /\ op' = [op EXCEPT ![r] =
                      [IdleOp("none") EXCEPT !.step = "refreshed"]]
      BY <1>4 DEF ReadLocation
    <2> QED
      BY <1>2, <2>2, <2>3, <2>4, RefreshedPreserves
  <1> QED
    BY <1>3, <1>4

\* A plan starts an operation for the configuration, or ends.
LEMMA PlanPreserves ==
    ASSUME IInv, NEW r \in Runs, Plan(r)
    PROVE  IInv'
  <1>1. RunOK(r) /\ config[r] \in Configs \cup {NoConfig}
    BY DEF IInv
  <1>2. World /\ UNCHANGED <<state, config, budget>>
    BY DEF Plan, World, Still
  <1>3. /\ config' \in [Runs -> Configs \cup {NoConfig}]
        /\ budget' \in Budget
        /\ state' = [state EXCEPT ![r] = state[r]]
    BY <1>2 DEF IInv
  <1>4. CASE op' = [op EXCEPT ![r] = IdleOp("ok")]
    <2>1. Finish(r, state[r], "ok") /\ "ok" \in Results
      BY <1>3, <1>4 DEF Finish, Results
    <2> QED
      BY <1>2, <1>3, <2>1, FailPreserves
  <1>5. ASSUME NEW step \in {"create", "delete", "update"},
               NEW replace \in BOOLEAN,
               op' = [op EXCEPT ![r] = [IdleOp("none") EXCEPT
                       !.step = step, !.replace = replace, !.plan = config[r]]],
               step \in {"create", "update"} \/ replace => config[r] # NoConfig,
               step = "update" => state[r] # NoState
        PROVE  IInv'
    <2> DEFINE o == [IdleOp("none") EXCEPT
                       !.step = step, !.replace = replace, !.plan = config[r]]
    <2>1. /\ o \in Op /\ o.step = step /\ o.resp = NoState
          /\ o.plan = config[r] /\ o.replace = replace
      BY <1>1, IdleOpType DEF Op, Steps, Results
    <2>2. state'[r] = state[r] /\ op'[r] = o => RunOK(r)'
      BY <1>1, <1>2, <1>5, <2>1, StateKept
        DEF RunOK, Holds, Seen, Exists, HoldsNext, SeenNext
    <2> QED
      BY <1>2, <1>3, <1>5, <2>2, OneRunMoves
  <1> QED
    BY <1>4, <1>5 DEF Plan

LEMMA CreatePreserves ==
    ASSUME IInv, NEW r \in Runs, CreateHead(r) \/ CreateBucket(r)
    PROVE  IInv'
  <1>1. RunOK(r) /\ WorldOK /\ budget \in Budget
    BY DEF IInv
  <1>2. op[r].plan \in Config /\ op[r].plan.zone \in Zones
    BY <1>1 DEF CreateHead, CreateBucket, RunOK, Config
  <1>3. budget' \in Budget /\ UNCHANGED config /\ UNCHANGED view
    BY <1>1, ChargeType DEF CreateHead, CreateBucket
  <1>4. CASE CreateHead(r)
    <2>1. World
      BY <1>4 DEF CreateHead, World, Still
    <2>2. CASE Finish(r, state[r], "alreadyExists")
      BY <1>3, <2>1, <2>2, FailPreserves DEF Results
    <2>3. CASE Goto(r, "createBucket")
      BY <1>2, <1>3, <2>1, <2>3, GotoPreserves
    <2> QED
      BY <1>4, <2>2, <2>3 DEF CreateHead
  <1>5. CASE CreateBucket(r)
    <2>1. World
      BY <1>2, <1>3, <1>5, WritesMoveWorld DEF CreateBucket
    <2>2. ASSUME NEW result \in Results, Finish(r, state[r], result)
          PROVE  IInv'
      BY <1>3, <2>1, <2>2, FailPreserves
    <2>3. ASSUME CreateAccepted(op[r].plan.zone), UNCHANGED state,
                 op' = [op EXCEPT
                         ![r].step = "createWait",
                         ![r].resp = [id |-> bucket'.id,
                                      zone |-> op[r].plan.zone,
                                      tags |-> op[r].plan.tags,
                                      tainted |-> TRUE]]
          PROVE  IInv'
      <3> DEFINE resp == [id |-> bucket'.id, zone |-> op[r].plan.zone,
                          tags |-> op[r].plan.tags, tainted |-> TRUE]
                 o == [op[r] EXCEPT !.step = "createWait", !.resp = resp]
      <3>1. WorldOK'
        BY <1>1, <2>1, WorldPreserved
      <3>2. bucket'.id \in 1..MaxBuckets /\ bucket'.zone = op[r].plan.zone
        BY <1>1, <1>2, <2>3, <3>1
          DEF CreateAccepted, WorldOK, Bucket, Missing, Exists
      <3>3. resp \in State /\ resp # NoState /\ HoldsNext(resp)
        <4>1. resp \in State
          BY <1>2, <3>2 DEF State, Config
        <4>2. resp.id <= made' /\ resp.zone = bucket'.zone
          BY <3>1, <3>2 DEF WorldOK
        <4> QED
          BY <4>1, <4>2 DEF HoldsNext
      <3>4. /\ o \in Op /\ o.step = "createWait" /\ o.resp = resp
            /\ o.plan = op[r].plan /\ o.replace = op[r].replace
        BY <1>1, <3>3 DEF RunOK, Op, Steps
      <3>5. /\ state' = [state EXCEPT ![r] = state[r]]
            /\ op' = [op EXCEPT ![r] = o]
        BY <2>3 DEF IInv
      <3>6. state'[r] = state[r] /\ op'[r] = o => RunOK(r)'
        BY <1>1, <1>2, <2>1, <3>3, <3>4, StateKept
          DEF RunOK, Holds, Seen, Exists, HoldsNext, SeenNext
      <3>7. config' \in [Runs -> Configs \cup {NoConfig}]
        BY <1>3 DEF IInv
      <3> QED
        BY <1>3, <2>1, <3>5, <3>6, <3>7, OneRunMoves
    <2> QED
      BY <1>5, <2>2, <2>3 DEF CreateBucket, Fail, Results
  <1> QED
    BY <1>4, <1>5

\* The waits of Create, its tags, Update and Delete.
LEMMA CreateWaitPreserves ==
    ASSUME IInv, NEW r \in Runs, CreateWait(r) \/ CreateTagsWait(r)
    PROVE  IInv'
  <1>1. RunOK(r) /\ World /\ op[r].resp # NoState /\ op[r].plan \in Config
    BY DEF IInv, RunOK, CreateWait, CreateTagsWait, World, Still
  <1>2. Exists(view) /\ UNCHANGED <<bucket, view, made, config, budget>>
    BY DEF CreateWait, CreateTagsWait, BucketIsThere, TagsVisible
  <1>3. /\ op[r].resp \in State /\ HoldsNext(op[r].resp)
        /\ SeenNext(op[r].resp)
    BY <1>1, <1>2, RespKept DEF Seen
  <1>4. budget' \in Budget
    BY <1>2 DEF IInv
  <1>5. CASE Finish(r, Created(r), "ok")
    <2>1. /\ Created(r) \in State
          /\ Created(r).id = op[r].resp.id /\ Created(r).zone = op[r].resp.zone
      BY <1>3 DEF Created, State
    <2>2. HoldsNext(Created(r)) /\ SeenNext(Created(r))
      BY <1>1, <1>3, <2>1 DEF HoldsNext, SeenNext
    <2> QED
      BY <1>1, <1>2, <1>4, <1>5, <2>1, <2>2, EndPreserves DEF Results
  <1>6. CASE Goto(r, "createTags")
    <2>1. op[r].resp.tainted
      BY <1>1 DEF RunOK, CreateWait, CreateTagsWait
    <2> QED
      BY <1>1, <1>2, <1>3, <1>4, <1>6, <2>1, GotoPreserves
  <1> QED
    BY <1>5, <1>6 DEF CreateWait, CreateTagsWait

LEMMA TagsPreserve ==
    ASSUME IInv, NEW r \in Runs, CreateTags(r) \/ Update(r)
    PROVE  IInv'
  <1>1. RunOK(r) /\ budget \in Budget
    BY DEF IInv
  <1>2. op[r].plan \in Config
    BY <1>1 DEF CreateTags, Update, RunOK
  <1>3. budget' \in Budget /\ UNCHANGED <<view, made, config>>
    BY <1>1, ChargeType DEF CreateTags, Update
  <1>4. World
    BY <1>2, <1>3, WritesMoveWorld DEF CreateTags, Update
  <1>5. CASE CreateTags(r)
    <2>1. op[r].resp # NoState /\ op[r].resp.tainted /\ Seen(op[r].resp)
      BY <1>1, <1>5 DEF CreateTags, RunOK
    <2>2. /\ op[r].resp \in State /\ HoldsNext(op[r].resp)
          /\ SeenNext(op[r].resp)
      BY <1>4, <2>1, RespKept
    <2>3. CASE Goto(r, "createTagsWait")
      BY <1>2, <1>3, <1>4, <2>1, <2>2, <2>3, GotoPreserves
    <2>4. CASE Finish(r, op[r].resp, "error")
      BY <1>3, <1>4, <2>2, <2>4, EndPreserves DEF Results
    <2> QED
      BY <1>5, <2>3, <2>4 DEF CreateTags
  <1>6. CASE Update(r)
    <2>1. state[r] # NoState
      BY <1>1, <1>6 DEF Update, RunOK
    <2>2. CASE Goto(r, "updateWait")
      BY <1>2, <1>3, <1>4, <2>1, <2>2, GotoPreserves
    <2>3. CASE Fail(r)
      BY <1>3, <1>4, <2>3, FailPreserves DEF Fail, Results
    <2> QED
      BY <1>6, <2>2, <2>3 DEF Update
  <1> QED
    BY <1>5, <1>6

LEMMA UpdateWaitPreserves ==
    ASSUME IInv, NEW r \in Runs, UpdateWait(r)
    PROVE  IInv'
  <1> DEFINE st == [state[r] EXCEPT !.tags = op[r].plan.tags]
  <1>1. /\ RunOK(r) /\ World /\ budget' \in Budget /\ UNCHANGED config
        /\ Exists(view) /\ Exists(view') /\ Finish(r, st, "ok")
    BY DEF IInv, UpdateWait, World, Still, TagsVisible, Exists
  <1>2. state[r] # NoState /\ state[r] \in State /\ op[r].plan.tags \in Tags
    BY <1>1 DEF UpdateWait, RunOK, Config
  <1>3. st \in State /\ st.id = state[r].id /\ st.zone = state[r].zone
    BY <1>2 DEF State
  <1>4. HoldsNext(st) /\ SeenNext(st)
    BY <1>1, <1>2, <1>3, StateKept DEF HoldsNext, SeenNext
  <1> QED
    BY <1>1, <1>3, <1>4, EndPreserves DEF Results

\* Delete succeeded, and may go on with a create.
LEMMA DeletedPreserves ==
    ASSUME IInv, World, NEW r \in Runs, Deleted(r),
           op[r].step \in {"delete", "deleteWait"},
           budget' \in Budget, UNCHANGED config
    PROVE  IInv'
  <1>1. RunOK(r)
    BY DEF IInv
  <1>2. CASE ~op[r].replace
    <2>1. Finish(r, NoState, "ok") /\ HoldsNext(NoState)
      BY <1>2 DEF Deleted, Finish, HoldsNext
    <2> QED
      BY <2>1, EndPreserves DEF Results
  <1>3. CASE op[r].replace
    <2> DEFINE o == [op[r] EXCEPT !.step = "create"]
    <2>1. /\ o \in Op /\ o.step = "create" /\ o.resp = op[r].resp
          /\ o.plan = op[r].plan /\ o.replace = op[r].replace
      BY <1>1 DEF RunOK, Op, Steps
    <2>2. /\ state' = [state EXCEPT ![r] = NoState]
          /\ op' = [op EXCEPT ![r] = o]
      BY <1>3 DEF Deleted
    <2>3. HoldsNext(op[r].resp)
      BY RespKept DEF HoldsNext
    <2>4. state'[r] = NoState /\ op'[r] = o => RunOK(r)'
      BY <1>1, <1>3, <2>1, <2>3
        DEF RunOK, Holds, Seen, Exists, HoldsNext, SeenNext
    <2>5. config' \in [Runs -> Configs \cup {NoConfig}]
      BY DEF IInv
    <2> QED
      BY <2>2, <2>4, <2>5, OneRunMoves
  <1> QED
    BY <1>2, <1>3

LEMMA DeletePreserves ==
    ASSUME IInv, NEW r \in Runs, Delete(r) \/ DeleteWait(r)
    PROVE  IInv'
  <1>1. /\ budget' \in Budget /\ UNCHANGED <<view, made, config>>
        /\ op[r].step \in {"delete", "deleteWait"}
    BY ChargeType DEF IInv, Delete, DeleteWait
  <1>2. World
    BY <1>1, WritesMoveWorld DEF Delete, DeleteWait
  <1>3. CASE Deleted(r)
    BY <1>1, <1>2, <1>3, DeletedPreserves
  <1>4. CASE Goto(r, "deleteWait")
    BY <1>1, <1>2, <1>4, GotoPreserves
  <1>5. CASE Fail(r)
    BY <1>1, <1>2, <1>5, FailPreserves DEF Fail, Results
  <1> QED
    BY <1>3, <1>4, <1>5 DEF Delete, DeleteWait

\* Errors of the waits, a crash.
LEMMA FailuresPreserve ==
    ASSUME IInv, NEW r \in Runs, PollError(r) \/ WaitTimeout(r) \/ Crash(r)
    PROVE  IInv'
  <1>1. /\ budget' \in Budget
        /\ UNCHANGED <<bucket, view, made, config>>
    BY ChargeType DEF IInv, PollError, WaitTimeout, ChargeTimeout, Crash
  <1>2. World
    BY <1>1 DEF World, Still
  <1>3. CASE Fail(r)
    BY <1>1, <1>2, <1>3, FailPreserves DEF Fail, Results
  <1>4. CASE Crash(r)
    BY <1>1, <1>2, <1>4, FailPreserves DEF Crash, Results
  <1>5. CASE /\ op[r].step \in {"createWait", "createTagsWait"}
             /\ Finish(r, op[r].resp, "error")
    <2>1. op[r].resp # NoState
      BY <1>5 DEF IInv, RunOK
    <2>2. op[r].resp \in State /\ HoldsNext(op[r].resp)
      BY <1>2, <2>1, RespKept
    <2>3. op[r].resp.tainted
      BY <1>5 DEF IInv, RunOK
    <2> QED
      BY <1>1, <1>2, <1>5, <2>2, <2>3, EndPreserves DEF Results
  <1> QED
    BY <1>3, <1>4, <1>5 DEF PollError, WaitTimeout, WaitFails

LEMMA ImportPreserves ==
    ASSUME IInv, NEW r \in Runs, ImportLocation(r) \/ ImportTags(r)
    PROVE  IInv'
  <1>1. /\ RunOK(r) /\ WorldOK /\ World /\ budget' \in Budget
        /\ UNCHANGED <<bucket, view, made, config>>
    BY DEF IInv, ImportLocation, ImportTags, World, Still
  <1>2. CASE ImportLocation(r)
    <2> DEFINE resp == [id |-> view.id, zone |-> view.zone, tags |-> "null",
                        tainted |-> FALSE]
               o == [IdleOp("none") EXCEPT !.step = "importTags", !.resp = resp]
    <2>1. Exists(view) /\ state[r] = NoState
      BY <1>2 DEF ImportLocation
    <2>2. resp \in State
      BY <1>1, <2>1 DEF WorldOK, Bucket, Missing, Exists, State, Tags
    <2>3. resp # NoState /\ HoldsNext(resp) /\ SeenNext(resp)
      BY <1>1, <2>1, <2>2 DEF WorldOK, HoldsNext, SeenNext, Exists
    <2>4. o \in Op /\ o.step = "importTags" /\ o.resp = resp /\ ~o.replace
      BY <2>2, IdleOpType DEF Op, Steps, Results
    <2>5. /\ state' = [state EXCEPT ![r] = state[r]]
          /\ op' = [op EXCEPT ![r] = o]
      BY <1>2 DEF ImportLocation, IInv
    <2>6. state'[r] = state[r] /\ op'[r] = o => RunOK(r)'
      BY <2>1, <2>3, <2>4 DEF RunOK, Holds, Seen, Exists, HoldsNext, SeenNext
    <2>7. config' \in [Runs -> Configs \cup {NoConfig}]
      BY <1>1 DEF IInv
    <2> QED
      BY <1>1, <2>5, <2>6, <2>7, OneRunMoves
  <1>3. CASE ImportTags(r)
    <2>1. CASE ~Exists(view)
      BY <1>1, <1>3, <2>1, FailPreserves DEF ImportTags, Fail, Results
    <2>2. CASE Exists(view)
      <3> DEFINE st == [op[r].resp EXCEPT !.tags = AsRead(view.tags)]
      <3>1. op[r].resp # NoState /\ Seen(op[r].resp)
        BY <1>1, <1>3 DEF ImportTags, RunOK
      <3>2. /\ op[r].resp \in State /\ HoldsNext(op[r].resp)
            /\ SeenNext(op[r].resp)
        BY <1>1, <3>1, RespKept
      <3>3. AsRead(view.tags) \in Tags
        BY <1>1 DEF WorldOK, Bucket, Missing, ApiTags, Tags, AsRead
      <3>4. /\ st \in State /\ st.id = op[r].resp.id
            /\ st.zone = op[r].resp.zone
        BY <3>2, <3>3 DEF State
      <3>5. HoldsNext(st) /\ SeenNext(st)
        BY <3>1, <3>2, <3>4 DEF HoldsNext, SeenNext
      <3>6. Finish(r, st, "none")
        BY <1>3, <2>2 DEF ImportTags
      <3> QED
        BY <1>1, <3>4, <3>5, <3>6, EndPreserves DEF Results
    <2> QED
      BY <2>1, <2>2
  <1> QED
    BY <1>2, <1>3

\* Steps in which no run moves.
LEMMA EnvironmentPreserves ==
    ASSUME IInv, Propagate \/ OutOfBand \/ \E r \in Runs : EditConfig(r)
    PROVE  IInv'
  <1>1. World
    <2>1. CASE Propagate
      BY <2>1 DEF Propagate, World, CatchUp
    <2>2. CASE OutOfBand
      <3>1. UNCHANGED view
        BY <2>2 DEF OutOfBand
      <3>2. CASE bucket' = Missing /\ UNCHANGED made
        BY <3>1, <3>2, WritesMoveWorld
      <3>3. CASE \E z \in Zones : CreateAccepted(z)
        BY <3>1, <3>3, WritesMoveWorld
      <3>4. CASE /\ Exists(bucket) /\ UNCHANGED made
                 /\ \E t \in ApiTags \ {bucket.tags} :
                       bucket' = [bucket EXCEPT !.tags = t]
        BY <3>1, <3>4 DEF World, Retag
      <3> QED
        BY <2>2, <3>2, <3>3, <3>4 DEF OutOfBand
    <2>3. CASE \E r \in Runs : EditConfig(r)
      BY <2>3 DEF EditConfig, World, Still
    <2> QED
      BY <2>1, <2>2, <2>3
  <1>2. UNCHANGED <<state, op>>
    BY DEF Propagate, OutOfBand, EditConfig
  <1>3. budget' \in Budget
    BY ChargeType DEF IInv, Propagate, OutOfBand, EditConfig
  <1>4. config' \in [Runs -> Configs \cup {NoConfig}]
    BY DEF IInv, Propagate, OutOfBand, EditConfig
  <1>5. WorldOK' /\ \A r \in Runs : RunOK(r)'
    BY <1>1, <1>2, WorldPreserved, BystanderPreserved DEF IInv
  <1> QED
    BY <1>2, <1>3, <1>4, <1>5 DEF IInv

-----------------------------------------------------------------------------
(* Theorems *)

LEMMA InitIInv == Init => IInv
  <1> SUFFICES ASSUME Init PROVE IInv
    OBVIOUS
  <1>1. WorldOK
    BY DEF Init, WorldOK, Bucket, Missing
  <1>2. ASSUME NEW r \in Runs PROVE RunOK(r)
    <2>1. /\ IdleOp("none") \in Op /\ IdleOp("none").step = "idle"
          /\ IdleOp("none").resp = NoState /\ ~IdleOp("none").replace
      BY IdleOpType DEF Results
    <2>2. state[r] = NoState /\ op[r] = IdleOp("none")
      BY DEF Init
    <2> QED
      BY <2>1, <2>2 DEF RunOK, Holds
  <1>3. budget \in Budget
    BY DEF Init, Budget
  <1> QED
    BY <1>1, <1>2, <1>3 DEF Init, IInv

\* Every step preserves the invariant.
LEMMA NextIInv == IInv /\ [Next]_vars => IInv'
  <1> SUFFICES ASSUME IInv, [Next]_vars PROVE IInv'
    OBVIOUS
  <1>1. CASE UNCHANGED vars
    BY <1>1 DEF vars, IInv, WorldOK, RunOK, Holds, Seen, Exists
  <1>2. ASSUME NEW r \in Runs, Handlers(r) PROVE IInv'
    BY <1>2, ReadPreserves, PlanPreserves, CreatePreserves,
       CreateWaitPreserves, TagsPreserve, UpdateWaitPreserves,
       DeletePreserves, FailuresPreserve, ImportPreserves DEF Handlers
  <1>3. CASE Propagate \/ OutOfBand \/ \E r \in Runs : EditConfig(r)
    BY <1>3, EnvironmentPreserves
  <1> QED
    BY <1>1, <1>2, <1>3 DEF Next

\* The inductive invariant holds in every reachable state.
THEOREM Invariance == Spec => []IInv
  BY InitIInv, NextIInv, PTL DEF Spec

\* Every variable keeps its type.
THEOREM TypeCorrect == Spec => []TypeOK
  <1>1. IInv => TypeOK
    BY DEF IInv, WorldOK, RunOK, TypeOK
  <1> QED
    BY <1>1, Invariance, PTL

\* Two runs that ask for different zones never both hold the bucket: a state
\* that holds it has its zone.
THEOREM ZoneFaithful == Spec => []StateZoneIsBuckets
  <1>1. IInv => StateZoneIsBuckets
    BY DEF IInv, RunOK, Holds, StateZoneIsBuckets
  <1> QED
    BY <1>1, Invariance, PTL

\* A bucket that a state holds untainted is forgotten only once it is gone,
\* however late reads follow the writes: Create waits for the bucket to be
\* visible before it may succeed, and Read forgets what it cannot see.
THEOREM KeptWhileItExists == Spec => UntaintedKept
  <1> DEFINE Kept(r) ==
        state[r] # NoState /\ ~state[r].tainted /\ state'[r] = NoState
           => bucket'.id # state[r].id
  <1>1. ASSUME IInv, Next, NEW r \in Runs, state[r] # NoState,
               ~state[r].tainted, state'[r] = NoState
        PROVE  bucket'.id # state[r].id
    <2>1. /\ state[r] \in State /\ state[r].id # 0
          /\ state[r].id = bucket.id => Exists(view)
      BY <1>1 DEF IInv, RunOK, State, Seen
    <2>2. state'[r] # state[r]
      BY <1>1
    <2>3. ASSUME NEW s \in Runs, NEW st, state' = [state EXCEPT ![s] = st]
          PROVE  s = r /\ st = NoState
      BY <1>1, <2>2, <2>3 DEF IInv
    <2>4. ASSUME NEW s \in Runs, Handlers(s) PROVE bucket'.id # state[r].id
      <3>1. CASE ReadTags(s)
        <4>1. state' = [state EXCEPT ![s] = NoState] /\ UNCHANGED bucket
          BY <2>2, <3>1 DEF ReadTags
        <4>2. s = r /\ ~Exists(view)
          BY <1>1, <2>3, <3>1, <4>1, <2>2 DEF ReadTags
        <4> QED
          BY <2>1, <4>1, <4>2
      <3>2. CASE ReadLocation(s)
        <4>1. ~Exists(view) /\ UNCHANGED bucket
          <5>1. CASE Exists(view)
            <6> DEFINE st == [id |-> view.id, zone |-> view.zone,
                              tags |-> op[s].got, tainted |-> state[s].tainted]
            <6>1. state' = [state EXCEPT ![s] = st]
              BY <3>2, <5>1 DEF ReadLocation
            <6>2. st \in State
              BY <1>1, <3>2, <5>1 DEF IInv, RunOK, WorldOK, Bucket, Missing, Exists,
                 State, Op, ReadLocation
            <6> QED
              BY <2>3, <6>1, <6>2
          <5> QED
            BY <3>2, <5>1 DEF ReadLocation
        <4> QED
          BY <2>1, <4>1
      <3>3. CASE DeleteWait(s)
        BY <2>1, <3>3 DEF DeleteWait
      <3>4. CASE Delete(s)
        <4>1. ~Exists(bucket') \/ UNCHANGED state
          <5>1. ASSUME Fail(s) PROVE UNCHANGED state
            BY <1>1, <5>1 DEF Fail, Finish, IInv
          <5> QED
            BY <3>4, <5>1 DEF Delete, Missing, Exists
        <4> QED
          BY <2>1, <2>2, <4>1 DEF Exists
      <3>5. ASSUME NEW st, st # NoState, state' = [state EXCEPT ![s] = st]
            PROVE  FALSE
        BY <2>3, <3>5
      <3>6. ASSUME state' = [state EXCEPT ![s] = state[s]] PROVE FALSE
        BY <1>1, <2>3, <3>6
      <3>7. CASE \/ Plan(s) \/ CreateHead(s) \/ CreateBucket(s) \/ Crash(s)
                 \/ ImportLocation(s)
        BY <2>2, <3>6, <3>7
          DEF Plan, CreateHead, CreateBucket, Crash, ImportLocation, Goto,
              Fail, Finish
      <3>8. CASE \/ CreateWait(s) \/ CreateTagsWait(s) \/ CreateTags(s)
                 \/ Update(s) \/ UpdateWait(s) \/ PollError(s)
                 \/ WaitTimeout(s) \/ ImportTags(s)
        <4>1. RunOK(s)
          BY <1>1, <2>4 DEF IInv
        <4>2. ASSUME op[s].step \in {"createWait", "createTags",
                                     "createTagsWait", "importTags"}
              PROVE  /\ op[s].resp # NoState /\ Created(s) # NoState
                     /\ [op[s].resp EXCEPT !.tags = AsRead(view.tags)]
                            # NoState
          <5>1. op[s].resp # NoState /\ op[s].resp \in State
            BY <4>1, <4>2 DEF RunOK, Op
          <5>2. Created(s) \in State
            BY <5>1 DEF Created, State
          <5>3. AsRead(view.tags) \in Tags
            BY <1>1 DEF IInv, WorldOK, Bucket, Missing, ApiTags, Tags, AsRead
          <5>4. [op[s].resp EXCEPT !.tags = AsRead(view.tags)] \in State
            BY <5>1, <5>3 DEF State
          <5> QED
            BY <5>1, <5>2, <5>4
        <4>3. ASSUME op[s].step = "updateWait"
              PROVE  [state[s] EXCEPT !.tags = op[s].plan.tags] # NoState
          <5>1. state[s] \in State /\ op[s].plan.tags \in Tags
            BY <4>1, <4>3 DEF RunOK, Config
          <5>2. [state[s] EXCEPT !.tags = op[s].plan.tags] \in State
            BY <5>1 DEF State
          <5> QED
            BY <5>2
        <4>4. CASE CreateWait(s) \/ CreateTagsWait(s) \/ CreateTags(s)
          BY <2>2, <3>5, <4>2, <4>4
            DEF CreateWait, CreateTagsWait, CreateTags, Goto, Finish
        <4>5. CASE Update(s) \/ UpdateWait(s)
          BY <2>2, <3>5, <3>6, <4>3, <4>5
            DEF Update, UpdateWait, Goto, Fail, Finish
        <4>6. CASE PollError(s) \/ WaitTimeout(s) \/ ImportTags(s)
          BY <3>5, <3>6, <4>2, <4>6
            DEF PollError, WaitTimeout, ImportTags, WaitFails, Fail, Finish
        <4> QED
          BY <3>8, <4>4, <4>5, <4>6
      <3> QED
        BY <2>4, <3>1, <3>2, <3>3, <3>4, <3>7, <3>8 DEF Handlers
    <2>5. CASE Propagate \/ OutOfBand \/ \E s \in Runs : EditConfig(s)
      BY <2>2, <2>5 DEF Propagate, OutOfBand, EditConfig
    <2> QED
      BY <1>1, <2>4, <2>5 DEF Next
  <1>2. IInv /\ [Next]_vars => [\A r \in Runs : Kept(r)]_vars
    BY <1>1
  <1> QED
    BY <1>2, Invariance, PTL DEF Spec, UntaintedKept

-----------------------------------------------------------------------------
(* One run, and nobody else who writes *)

\* What the run has written is what the bucket has.
WrittenOK(r) ==
    /\ op[r].step \in {"idle", "readLocation", "refreshed", "importTags"}
          => op[r].plan = NoConfig
    /\ op[r].step # "idle" => op[r].result = "none"
    /\ budget.outside = MaxOutside =>
          /\ op[r].step \in {"createWait", "createTags", "createTagsWait"}
                => Exists(bucket) /\ bucket.zone = op[r].plan.zone
          /\ op[r].step \in {"createTagsWait", "updateWait"}
                => Exists(bucket) /\ bucket.tags = OnApi(op[r].plan.tags)

LEMMA ChargedInside ==
    ASSUME budget \in Budget, Charge("faults") \/ UNCHANGED budget
    PROVE  budget'.outside = budget.outside
  BY DEF Charge, Budget

LEMMA ChargedOutside ==
    ASSUME budget \in Budget, Charge("outside")
    PROVE  budget'.outside # MaxOutside
  BY DEF Charge, Budget

\* A run that has ended has written nothing that matters any more.
LEMMA EndedOK ==
    ASSUME IInv, NEW r \in Runs, NEW st, NEW result, Finish(r, st, result)
    PROVE  /\ op'[r].step = "idle" /\ op'[r].plan = NoConfig
           /\ op'[r].result = result /\ state'[r] = st /\ WrittenOK(r)'
  <1>1. op'[r] = IdleOp(result) /\ state'[r] = st
    BY DEF Finish, IInv
  <1>2. op'[r].step = "idle" /\ op'[r].plan = NoConfig /\ op'[r].result = result
    BY <1>1 DEF IdleOp
  <1> QED
    BY <1>1, <1>2 DEF WrittenOK

LEMMA WentOn ==
    ASSUME IInv, NEW r \in Runs, NEW step, Goto(r, step)
    PROVE  /\ op'[r].step = step /\ op'[r].plan = op[r].plan
           /\ op'[r].result = op[r].result
  <1>1. op[r] \in Op /\ op'[r] = [op[r] EXCEPT !.step = step]
    BY DEF Goto, IInv, RunOK
  <1> QED
    BY <1>1 DEF Op

\* A run refreshes, plans or imports: nothing is written.
LEMMA PreparationWritten ==
    ASSUME IInv, NEW r \in Runs, WrittenOK(r),
           \/ ReadTags(r) \/ ReadLocation(r) \/ Plan(r)
           \/ ImportLocation(r) \/ ImportTags(r)
    PROVE  WrittenOK(r)'
  <1>1. op[r] \in Op
    BY DEF IInv, RunOK
  <1>2. CASE ReadTags(r) \/ ReadLocation(r)
    <2>1. \/ op'[r] = [IdleOp("none") EXCEPT !.step = "refreshed"]
          \/ op'[r] = [IdleOp("none") EXCEPT !.step = "readLocation",
                                             !.got = AsRead(view.tags)]
      BY <1>2 DEF ReadTags, ReadLocation, IInv
    <2>2. /\ op'[r].step \in {"refreshed", "readLocation"}
          /\ op'[r].plan = NoConfig /\ op'[r].result = "none"
      BY <2>1 DEF IdleOp
    <2> QED
      BY <2>2 DEF WrittenOK
  <1>3. CASE Plan(r)
    <2>1. \/ op'[r] = IdleOp("ok")
          \/ \E step \in {"create", "update", "delete"}, replace \in BOOLEAN :
                op'[r] = [step |-> step, replace |-> replace,
                          plan |-> config[r], got |-> "null",
                          resp |-> NoState, result |-> "none"]
      <3> DEFINE started(step, replace) ==
             [IdleOp("none") EXCEPT !.step = step, !.replace = replace,
                                    !.plan = config[r]]
      <3>1. \/ op'[r] = IdleOp("ok") \/ op'[r] = started("create", FALSE)
            \/ op'[r] = started("delete", FALSE)
            \/ op'[r] = started("delete", TRUE)
            \/ op'[r] = started("update", FALSE)
        BY <1>3 DEF Plan, IInv
      <3> QED
        BY <3>1 DEF IdleOp
    <2>2. \/ op'[r].step = "idle" /\ op'[r].plan = NoConfig
          \/ /\ op'[r].step \in {"create", "update", "delete"}
             /\ op'[r].result = "none"
      <3>1. op'[r] = IdleOp("ok")
               => op'[r].step = "idle" /\ op'[r].plan = NoConfig
        BY DEF IdleOp
      <3>2. ASSUME NEW step \in {"create", "update", "delete"},
                   NEW replace \in BOOLEAN,
                   op'[r] = [step |-> step, replace |-> replace,
                             plan |-> config[r], got |-> "null",
                             resp |-> NoState, result |-> "none"]
            PROVE  /\ op'[r].step \in {"create", "update", "delete"}
                   /\ op'[r].result = "none"
        BY <3>2
      <3> QED
        BY <2>1, <3>1, <3>2
    <2> QED
      BY <2>2 DEF WrittenOK
  <1>4. CASE ImportLocation(r)
    <2>1. op'[r] = [IdleOp("none") EXCEPT
                      !.step = "importTags",
                      !.resp = [id |-> view.id, zone |-> view.zone,
                                tags |-> "null", tainted |-> FALSE]]
      BY <1>4 DEF ImportLocation, IInv
    <2>2. /\ op'[r].step = "importTags" /\ op'[r].plan = NoConfig
          /\ op'[r].result = "none"
      BY <2>1 DEF IdleOp
    <2> QED
      BY <2>2 DEF WrittenOK
  <1>5. CASE ImportTags(r)
    BY <1>5, EndedOK DEF ImportTags, Fail
  <1> QED
    BY <1>2, <1>3, <1>4, <1>5

\* A run writes: what it waits for is what it has written.
LEMMA WritesWritten ==
    ASSUME IInv, NEW r \in Runs, WrittenOK(r),
           CreateHead(r) \/ CreateBucket(r) \/ CreateTags(r) \/ Update(r)
    PROVE  WrittenOK(r)'
  <1>1. op[r] \in Op /\ budget \in Budget
    BY DEF IInv, RunOK
  <1>2. budget'.outside = budget.outside
    BY <1>1, ChargedInside DEF CreateHead, CreateBucket, CreateTags, Update
  <1>3. op[r].step # "idle" /\ op[r].result = "none"
    BY DEF WrittenOK, CreateHead, CreateBucket, CreateTags, Update
  <1>4. CASE CreateHead(r)
    <2>1. CASE Finish(r, state[r], "alreadyExists")
      BY <2>1, EndedOK
    <2>2. CASE Goto(r, "createBucket")
      <3>1. op'[r].step = "createBucket" /\ op'[r].result = "none"
        BY <1>3, <2>2, WentOn
      <3> QED
        BY <3>1 DEF WrittenOK
    <2> QED
      BY <1>4, <2>1, <2>2 DEF CreateHead
  <1>5. CASE CreateBucket(r)
    <2>1. CASE \E st, result : Finish(r, st, result)
      BY <2>1, EndedOK
    <2>2. CASE ~\E st, result : Finish(r, st, result)
      <3>1. /\ CreateAccepted(op[r].plan.zone)
            /\ op' = [op EXCEPT
                        ![r].step = "createWait",
                        ![r].resp = [id |-> bucket'.id,
                                     zone |-> op[r].plan.zone,
                                     tags |-> op[r].plan.tags,
                                     tainted |-> TRUE]]
        BY <1>5, <2>2 DEF CreateBucket, Fail
      <3>2. /\ op'[r].step = "createWait" /\ op'[r].plan = op[r].plan
            /\ op'[r].result = op[r].result
        BY <1>1, <3>1 DEF IInv, Op
      <3>3. Exists(bucket') /\ bucket'.zone = op[r].plan.zone
        BY <3>1 DEF CreateAccepted, Exists, IInv, WorldOK
      <3> QED
        BY <1>3, <3>2, <3>3 DEF WrittenOK, Exists
    <2> QED
      BY <2>1, <2>2
  <1>6. CASE CreateTags(r) \/ Update(r)
    <2>1. CASE \E st, result : Finish(r, st, result)
      BY <2>1, EndedOK
    <2>2. CASE ~\E st, result : Finish(r, st, result)
      <3>1. /\ TagsAccepted(r)
            /\ \/ op[r].step = "createTags" /\ Goto(r, "createTagsWait")
               \/ op[r].step = "update" /\ Goto(r, "updateWait")
        BY <1>6, <2>2 DEF CreateTags, Update, Fail
      <3>2. /\ op'[r].plan = op[r].plan /\ op'[r].result = "none"
            /\ \/ /\ op[r].step = "createTags"
                  /\ op'[r].step = "createTagsWait"
               \/ op'[r].step = "updateWait"
        BY <1>3, <3>1, WentOn
      <3>3. /\ Exists(bucket') /\ bucket'.tags = OnApi(op[r].plan.tags)
            /\ bucket'.zone = bucket.zone
        BY <3>1 DEF TagsAccepted, Exists, IInv, WorldOK, Bucket, Missing
      <3> QED
        BY <1>2, <3>2, <3>3 DEF WrittenOK, Exists
    <2> QED
      BY <2>1, <2>2
  <1> QED
    BY <1>4, <1>5, <1>6

\* A run waits, deletes, fails or dies.
LEMMA RestWritten ==
    ASSUME IInv, NEW r \in Runs, WrittenOK(r),
           \/ CreateWait(r) \/ CreateTagsWait(r) \/ UpdateWait(r)
           \/ Delete(r) \/ DeleteWait(r)
           \/ PollError(r) \/ WaitTimeout(r) \/ Crash(r)
    PROVE  WrittenOK(r)'
  <1>1. op[r] \in Op /\ budget \in Budget
    BY DEF IInv, RunOK
  <1>2. CASE \E st, result : Finish(r, st, result)
    BY <1>2, EndedOK
  <1>3. CASE CreateWait(r) /\ Goto(r, "createTags")
    <2>1. op'[r].step = "createTags" /\ op'[r].plan = op[r].plan
          /\ op'[r].result = "none"
      BY <1>3, WentOn DEF WrittenOK, CreateWait
    <2> QED
      BY <1>3, <2>1 DEF CreateWait, WrittenOK, Exists
  <1>4. CASE op[r].step = "delete" /\ Goto(r, "deleteWait")
    <2>1. op'[r].step = "deleteWait" /\ op'[r].result = "none"
      BY <1>4, WentOn DEF WrittenOK
    <2> QED
      BY <2>1 DEF WrittenOK
  <1>5. CASE op[r].step \in {"delete", "deleteWait"} /\ Deleted(r)
    <2>1. \/ op'[r] = [op[r] EXCEPT !.step = "create"]
          \/ op'[r] = IdleOp("ok")
      BY <1>5 DEF Deleted, IInv
    <2>2. \/ op'[r].step = "create" /\ op'[r].result = "none"
          \/ op'[r].step = "idle" /\ op'[r].plan = NoConfig
      BY <1>1, <1>5, <2>1 DEF WrittenOK, Op, IdleOp
    <2> QED
      BY <2>2 DEF WrittenOK
  <1> QED
    BY <1>2, <1>3, <1>4, <1>5
      DEF CreateWait, CreateTagsWait, UpdateWait, Delete, DeleteWait, PollError,
          WaitTimeout, WaitFails, Fail, Crash

\* A single run finds what it has written, as long as nobody else writes.
LEMMA NextWritten ==
    ASSUME IInv, NEW r, Runs = {r}, WrittenOK(r), [Next]_vars
    PROVE  WrittenOK(r)'
  <1>1. op[r] \in Op /\ budget \in Budget
    BY DEF IInv, RunOK
  <1>2. CASE Handlers(r)
    BY <1>2, PreparationWritten, WritesWritten, RestWritten DEF Handlers
  <1>3. CASE EditConfig(r) \/ Propagate
    <2>1. budget'.outside = budget.outside
      BY <1>1, <1>3 DEF EditConfig, Propagate, Charge, Budget
    <2> QED
      BY <1>3, <2>1 DEF EditConfig, Propagate, WrittenOK
  <1>4. CASE OutOfBand
    <2>1. budget'.outside # MaxOutside
      BY <1>1, <1>4, ChargedOutside DEF OutOfBand
    <2> QED
      BY <1>4, <2>1 DEF OutOfBand, WrittenOK
  <1>5. CASE UNCHANGED vars
    BY <1>5 DEF vars, WrittenOK, Exists
  <1> QED
    BY <1>2, <1>3, <1>4, <1>5 DEF Next

\* What AppliedIsVisible says of a step.
AppliedStep ==
    \A r \in Runs :
       op[r].plan # NoConfig /\ op'[r].result = "ok" /\ state'[r] # NoState
          /\ budget.outside = MaxOutside
          => /\ Exists(view) /\ Exists(bucket)
             /\ op[r].step # "updateWait" => bucket.zone = op[r].plan.zone
             /\ op[r].step # "createWait"
                   => /\ bucket.tags = OnApi(op[r].plan.tags)
                      /\ view.tags = bucket.tags

LEMMA AppliedSteps == [][AppliedStep]_vars => AppliedIsVisible
  BY PTL DEF AppliedStep, AppliedIsVisible

\* A single run whose apply ends without an error leaves the bucket in the
\* planned zone and with the planned tags, for the next refresh to see, unless
\* somebody else has changed it: the wait for creation makes it visible, and
\* the wait for its tags compares them.
THEOREM AppliedIsSeen ==
    ASSUME NEW r, Runs = {r}
    PROVE  Spec => AppliedIsVisible
  <1>1. Init => WrittenOK(r)
    BY DEF Init, WrittenOK, IdleOp
  <1>2. IInv /\ WrittenOK(r) /\ [Next]_vars => WrittenOK(r)'
    BY NextWritten
  <1>3. ASSUME IInv, WrittenOK(r), Next, op[r].plan # NoConfig,
               op'[r].result = "ok", state'[r] # NoState,
               budget.outside = MaxOutside
        PROVE  /\ Exists(view) /\ Exists(bucket)
               /\ op[r].step # "updateWait" => bucket.zone = op[r].plan.zone
               /\ op[r].step # "createWait"
                     => /\ bucket.tags = OnApi(op[r].plan.tags)
                        /\ view.tags = bucket.tags
    <2>1. op[r].result = "none" /\ op[r].step \notin {"idle", "readLocation",
                                                      "refreshed", "importTags"}
      BY <1>3 DEF WrittenOK
    <2>2. op'[r] # op[r]
      BY <1>3, <2>1
    <2>3. ~\E step : Goto(r, step)
      <3> SUFFICES ASSUME NEW step, Goto(r, step)  PROVE FALSE
        OBVIOUS
      <3>1. r \in Runs
        BY <1>3
      <3> QED
        BY <1>3, <2>1, <3>1, WentOn
    <2>4. ASSUME NEW st, NEW result, Finish(r, st, result)
          PROVE  result = "ok"
      <3>1. r \in Runs
        BY <1>3
      <3> QED
        BY <1>3, <2>4, <3>1, EndedOK
    <2>5. ~Deleted(r)
      BY <1>3 DEF Deleted, IInv
    <2>6. op[r] \in Op
      BY <1>3 DEF IInv, RunOK
    <2>7. ~CreateBucket(r)
      <3>1. ASSUME op' = [op EXCEPT
                          ![r].step = "createWait",
                          ![r].resp = [id |-> bucket'.id,
                                       zone |-> op[r].plan.zone,
                                       tags |-> op[r].plan.tags,
                                       tainted |-> TRUE]]
            PROVE  FALSE
        BY <1>3, <2>1, <2>6, <3>1 DEF IInv, Op
      <3> QED
        BY <2>4, <3>1 DEF CreateBucket, Fail
    <2>8. CreateWait(r) \/ CreateTagsWait(r) \/ UpdateWait(r)
      BY <1>3, <2>1, <2>2, <2>3, <2>4, <2>5, <2>7
        DEF Next, Handlers, ReadTags, ReadLocation, Plan, CreateHead, CreateTags,
            Update, Delete, DeleteWait, PollError, WaitTimeout, WaitFails, Fail,
            ImportLocation, ImportTags, Crash, EditConfig, Propagate, OutOfBand
    <2> QED
      BY <1>3, <2>8
        DEF CreateWait, CreateTagsWait, UpdateWait, BucketIsThere, TagsVisible,
            WrittenOK
  <1>4. IInv /\ WrittenOK(r) /\ [Next]_vars => [AppliedStep]_vars
    <2>1. \A s \in Runs : s = r
      OBVIOUS
    <2> QED
      BY <1>3, <2>1 DEF AppliedStep
  <1> QED
    BY <1>1, <1>2, <1>4, AppliedSteps, Invariance, PTL DEF Spec
=============================================================================
