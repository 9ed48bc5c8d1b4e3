------------------------ MODULE S3ClientCache_proofs ------------------------
(***************************************************************************)
(* Proofs about S3ClientCache, for any number of callers and keys and for  *)
(* all durations that TimeAssumption admits.                               *)
(***************************************************************************)
EXTENDS S3ClientCache, FiniteSetTheorems, TLAPS

USE CallerAssumption, KeyAssumption, TimeAssumption

\* s3Mu excludes: the caller that works on the client holds it.
Exclusion ==
    /\ client = keyInfo
    /\ \A p \in Callers : pc[p] \in {"locked", "validating"} <=> mutex = p

\* A caller has a key exactly while it validates or uses one.
Holding ==
    \A p \in Callers :
        /\ pc[p] \in Timed <=> held[p] # NoKey
        /\ pc[p] \notin Timed => timer[p] = 0
        /\ pc[p] \in Timed => timer[p] <= Limit(p)

\* A key that is validated was issued timer[p] ago; the cached one, if any,
\* was on the verge of expiry then.
Validating ==
    \A p \in Callers : pc[p] = "validating" =>
        /\ held[p] # client /\ held[p] \notin wasted
        /\ left[held[p]] + timer[p] = Lifetime
        /\ client # NoKey => \/ left[client] = 0
                             \/ left[client] + timer[p] <= Margin

\* A key in use had more than Margin left when its use began.
Using ==
    \A p \in Callers : pc[p] = "using" => left[held[p]] + timer[p] > Margin

Accepted == client # NoKey => client \in usable

\* Every other key that could have been cached is one the cached key
\* replaced: it had at most Margin left when that one was issued.
Reserve == {k \in Keys : Live(k) /\ k \notin wasted}

Replaced(k) == client # NoKey /\ left[k] + Lifetime <= Margin + left[client]

Accounted ==
    \A k \in Reserve :
        \/ k = client
        \/ \E p \in Callers : pc[p] = "validating" /\ held[p] = k
        \/ Replaced(k)

\* One key beside the cached one, at most.
OneMore == \E o \in Keys \cup {NoKey} : Reserve \subseteq {client, o}

IInv == /\ TypeOK /\ Exclusion /\ Holding /\ Validating /\ Using /\ Accepted
        /\ Accounted /\ OneMore

-----------------------------------------------------------------------------
THEOREM InitIInv == Init => IInv
  <1> SUFFICES ASSUME Init PROVE IInv
    OBVIOUS
  <1>1. TypeOK
    BY DEF Init, TypeOK, Places
  <1>2. Exclusion /\ Holding /\ Validating /\ Using /\ Accepted
    BY DEF Init, Exclusion, Holding, Validating, Using, Accepted, Timed
  <1>3. Reserve = {}
    BY DEF Init, Reserve, Live
  <1> QED
    BY <1>1, <1>2, <1>3 DEF IInv, Accounted, OneMore

\* When a caller finds that it needs a key, the cached one is the only key
\* in reserve, if that: nobody validates, and what it replaced has expired.
LEMMA NothingElseInReserve ==
    ASSUME IInv, NEW p \in Callers, pc[p] = "locked", NeedsKey
    PROVE  Reserve \subseteq {client}
  <1>1. \A q \in Callers : pc[q] # "validating"
    BY DEF IInv, Exclusion
  <1>2. client # NoKey => left[client] <= Margin
    BY DEF IInv, TypeOK, Exclusion, NeedsKey, NoClient, Expiring
  <1>3. ASSUME NEW k \in Reserve, Replaced(k) PROVE FALSE
    BY <1>2, <1>3 DEF IInv, TypeOK, Reserve, Live, Replaced
  <1> QED
    BY <1>1, <1>3 DEF IInv, Accounted

\* A caller moves without the client, the keys or the time changing.
LEMMA MoveType ==
    ASSUME TypeOK, NEW p \in Callers, NEW place \in Places,
           NEW key \in Keys \cup {NoKey}, Goto(p, place, key),
           mutex' \in Callers \cup {NoCaller},
           client' \in Keys \cup {NoKey}, keyInfo' \in Keys \cup {NoKey},
           left' \in [Keys -> 0..Lifetime],
           usable' \subseteq Keys, wasted' \subseteq Keys
    PROVE  TypeOK'
  BY DEF TypeOK, Goto

LEMMA CallPreserves ==
    ASSUME IInv, NEW p \in Callers, Call(p)
    PROVE  IInv'
  <1> USE DEF IInv
  <1>1. TypeOK'
    BY MoveType DEF Call, TypeOK, Places
  <1>2. Exclusion' /\ Holding' /\ Validating' /\ Using' /\ Accepted'
    BY DEF TypeOK, Call, Goto, Exclusion, Holding, Validating, Using,
           Accepted, Timed, Limit
  <1>3. Accounted' /\ OneMore'
    BY DEF TypeOK, Call, Goto, Accounted, OneMore, Reserve, Live, Replaced
  <1> QED
    BY <1>1, <1>2, <1>3

LEMMA LockPreserves ==
    ASSUME IInv, NEW p \in Callers, Lock(p)
    PROVE  IInv'
  <1> USE DEF IInv
  <1>1. TypeOK'
    BY MoveType DEF Lock, TypeOK, Places
  <1>2. Exclusion' /\ Holding' /\ Validating' /\ Using' /\ Accepted'
    BY DEF TypeOK, Lock, Goto, Exclusion, Holding, Validating, Using,
           Accepted, Timed, Limit
  <1>3. Accounted' /\ OneMore'
    BY DEF TypeOK, Lock, Goto, Accounted, OneMore, Reserve, Live, Replaced
  <1> QED
    BY <1>1, <1>2, <1>3

LEMMA UseCachedPreserves ==
    ASSUME IInv, NEW p \in Callers, UseCached(p)
    PROVE  IInv'
  <1> USE DEF IInv
  <1>1. client \in Keys /\ left[client] > Margin
    BY DEF TypeOK, Exclusion, UseCached, NeedsKey, NoClient, Expiring
  <1>2. TypeOK'
    BY MoveType DEF UseCached, TypeOK, Places
  <1>3. Exclusion' /\ Holding' /\ Validating' /\ Using' /\ Accepted'
    BY <1>1 DEF TypeOK, UseCached, Goto, Exclusion, Holding, Validating,
                Using, Accepted, Timed, Limit
  <1>4. Accounted' /\ OneMore'
    BY DEF TypeOK, UseCached, Goto, Accounted, OneMore, Reserve, Live,
           Replaced
  <1> QED
    BY <1>2, <1>3, <1>4

LEMMA CreateKeyPreserves ==
    ASSUME IInv, NEW p \in Callers, CreateKey(p)
    PROVE  IInv'
  <1> USE DEF IInv
  <1>1. PICK k \in Keys : /\ Issue(k) /\ wasted' = wasted \ {k}
                          /\ Goto(p, "validating", k)
    BY DEF CreateKey
  <1>2. TypeOK'
    BY <1>1, MoveType DEF CreateKey, Issue, TypeOK, Places
  <1>3. client # NoKey => left[client] <= Margin
    BY DEF TypeOK, Exclusion, CreateKey, NeedsKey, NoClient, Expiring
  <1>4. Exclusion' /\ Holding' /\ Validating'
    BY <1>1, <1>3 DEF TypeOK, CreateKey, Issue, Fresh, Goto, Exclusion,
                      Holding, Validating, Timed, Limit
  <1>5. Using' /\ Accepted'
    BY <1>1 DEF TypeOK, CreateKey, Issue, Fresh, Goto, Using, Accepted
  <1>6. Reserve' \subseteq {client, k}
    BY <1>1, NothingElseInReserve DEF TypeOK, CreateKey, Issue, Reserve, Live
  <1>7. Accounted' /\ OneMore'
    BY <1>1, <1>6 DEF TypeOK, CreateKey, Goto, Accounted, OneMore
  <1> QED
    BY <1>2, <1>4, <1>5, <1>7

LEMMA CreateKeyLostPreserves ==
    ASSUME IInv, NEW p \in Callers, CreateKeyLost(p)
    PROVE  IInv'
  <1> USE DEF IInv
  <1>1. PICK k \in Keys : Issue(k) /\ wasted' = wasted \cup {k}
    BY DEF CreateKeyLost
  <1>2. TypeOK'
    BY <1>1 DEF CreateKeyLost, Issue, TypeOK
  <1>3. Exclusion' /\ Holding'
    BY <1>1 DEF CreateKeyLost, Issue, TypeOK, Exclusion, Holding, Limit
  <1>4. Validating' /\ Using' /\ Accepted'
    BY <1>1 DEF TypeOK, CreateKeyLost, Issue, Fresh, Validating, Using,
                Accepted
  <1>5. Reserve' \subseteq {client}
    BY <1>1, NothingElseInReserve
    DEF TypeOK, CreateKeyLost, Issue, Reserve, Live
  <1>6. Accounted' /\ OneMore'
    BY <1>5 DEF CreateKeyLost, Accounted, OneMore
  <1> QED
    BY <1>2, <1>3, <1>4, <1>6

LEMMA CreateKeyFailsPreserves ==
    ASSUME IInv, NEW p \in Callers, CreateKeyFails(p)
    PROVE  IInv'
  <1> USE DEF IInv
  <1>1. TypeOK'
    BY MoveType DEF CreateKeyFails, TypeOK, Places
  <1>2. Exclusion' /\ Holding' /\ Validating' /\ Using' /\ Accepted'
    BY DEF TypeOK, CreateKeyFails, Goto, Exclusion, Holding, Validating,
           Using, Accepted, Timed, Limit
  <1>3. Accounted' /\ OneMore'
    BY DEF TypeOK, CreateKeyFails, Goto, Accounted, OneMore, Reserve, Live,
           Replaced
  <1> QED
    BY <1>1, <1>2, <1>3

LEMMA ValidatedPreserves ==
    ASSUME IInv, NEW p \in Callers, Validated(p)
    PROVE  IInv'
  <1> USE DEF IInv
  <1>1. /\ held[p] \in Keys /\ timer[p] \in Nat
        /\ timer[p] <= ValidationLimit
        /\ left[held[p]] + timer[p] = Lifetime
    BY DEF TypeOK, Validated, Holding, Validating, Timed, Limit
  <1>2. \A q \in Callers : pc[q] = "validating" => q = p
    BY DEF Validated, Exclusion
  <1>3. TypeOK'
    BY <1>1, MoveType DEF Validated, TypeOK, Places
  <1>4. Exclusion' /\ Holding' /\ Accepted'
    BY <1>1, <1>2 DEF TypeOK, Validated, Goto, Exclusion, Holding, Accepted,
                      Timed, Limit
  <1>5. Validating' /\ Using'
    BY <1>1, <1>2 DEF TypeOK, Validated, Goto, Validating, Using
  <1>6. client # NoKey => \/ left[client] = 0
                          \/ left[client] + timer[p] <= Margin
    BY DEF Validated, Validating
  <1>7. ASSUME NEW k \in Reserve, Replaced(k) PROVE FALSE
    BY <1>1, <1>6, <1>7 DEF TypeOK, Reserve, Live, Replaced
  <1>8. Reserve \subseteq {client, held[p]}
    BY <1>2, <1>7 DEF Accounted
  <1>9. Reserve' = Reserve
    BY DEF Validated, Reserve, Live
  <1>10. client \in Reserve => left[client] + Lifetime <= Margin + left[held[p]]
    BY <1>1, <1>6 DEF TypeOK, Reserve, Live
  <1>11. Accounted'
    BY <1>1, <1>8, <1>9, <1>10 DEF Validated, Accounted, Replaced
  <1>12. OneMore'
    BY <1>8, <1>9 DEF TypeOK, Validated, OneMore
  <1> QED
    BY <1>3, <1>4, <1>5, <1>11, <1>12

LEMMA GiveUpPreserves ==
    ASSUME IInv, NEW p \in Callers, pc[p] = "validating", GiveUp(p)
    PROVE  IInv'
  <1> USE DEF IInv
  <1>1. held[p] \in Keys
    BY DEF TypeOK, Holding, Timed
  <1>2. \A q \in Callers : pc[q] = "validating" => q = p
    BY DEF Exclusion
  <1>3. TypeOK'
    BY <1>1, MoveType DEF GiveUp, TypeOK, Places
  <1>4. Exclusion' /\ Holding' /\ Accepted'
    BY <1>2 DEF TypeOK, GiveUp, Goto, Exclusion, Holding, Accepted, Timed,
                Limit
  <1>5. Validating' /\ Using'
    BY <1>2 DEF TypeOK, GiveUp, Goto, Validating, Using
  <1>6. Reserve' \subseteq Reserve \ {held[p]}
    BY DEF GiveUp, Reserve, Live
  <1>7. Accounted' /\ OneMore'
    BY <1>2, <1>6 DEF GiveUp, Goto, Accounted, OneMore, Replaced
  <1> QED
    BY <1>3, <1>4, <1>5, <1>7

LEMMA DonePreserves ==
    ASSUME IInv, NEW p \in Callers, Done(p)
    PROVE  IInv'
  <1> USE DEF IInv
  <1>1. TypeOK'
    BY MoveType DEF Done, TypeOK, Places
  <1>2. Exclusion' /\ Holding' /\ Validating' /\ Using' /\ Accepted'
    BY DEF TypeOK, Done, Goto, Exclusion, Holding, Validating, Using,
           Accepted, Timed, Limit
  <1>3. Accounted' /\ OneMore'
    BY DEF TypeOK, Done, Goto, Accounted, OneMore, Reserve, Live, Replaced
  <1> QED
    BY <1>1, <1>2, <1>3

LEMMA PropagatePreserves ==
    ASSUME IInv, NEW k \in Keys, Propagate(k)
    PROVE  IInv'
  <1> USE DEF IInv
  <1>1. TypeOK' /\ Exclusion' /\ Holding' /\ Validating' /\ Using' /\ Accepted'
    BY DEF TypeOK, Propagate, Exclusion, Holding, Validating, Using,
           Accepted, Limit
  <1>2. Accounted' /\ OneMore'
    BY DEF Propagate, Accounted, OneMore, Reserve, Live, Replaced
  <1> QED
    BY <1>1, <1>2

LEMMA TickPreserves ==
    ASSUME IInv, Tick
    PROVE  IInv'
  <1> USE DEF IInv
  <1>1. \A p \in Callers : pc[p] \in Timed => timer'[p] <= Limit(p)
    BY DEF TypeOK, Tick, Limit
  <1>2. \A k \in Keys : /\ left'[k] \in 0..Lifetime
                        /\ left[k] = 0 => left'[k] = 0
                        /\ left[k] > 0 => left'[k] = left[k] - 1
    BY DEF TypeOK, Tick
  <1>3. TypeOK'
    <2>1. \A p \in Callers : timer'[p] \in 0..(ValidationLimit + MaxUse)
      BY <1>1 DEF TypeOK, Tick, Limit
    <2>2. timer' \in [Callers -> 0..(ValidationLimit + MaxUse)]
      BY <2>1 DEF Tick
    <2>3. left' \in [Keys -> 0..Lifetime]
      BY <1>2 DEF Tick
    <2> QED
      BY <2>2, <2>3 DEF TypeOK, Tick
  <1>4. Exclusion' /\ Holding' /\ Accepted'
    BY <1>1 DEF TypeOK, Tick, Exclusion, Holding, Accepted, Limit
  <1>5. Validating'
    <2> SUFFICES ASSUME NEW p \in Callers, pc[p] = "validating"
                 PROVE  /\ held[p] # client /\ held[p] \notin wasted'
                        /\ left'[held[p]] + timer'[p] = Lifetime
                        /\ client # NoKey => \/ left'[client] = 0
                                             \/ left'[client] + timer'[p]
                                                    <= Margin
      BY DEF Tick, Validating
    <2>1. /\ held[p] \in Keys /\ timer[p] \in Nat
          /\ timer[p] < ValidationLimit /\ timer'[p] = timer[p] + 1
      BY DEF TypeOK, Tick, Holding, Timed, Limit
    <2>2. left[held[p]] > 0
      BY <2>1 DEF TypeOK, Validating
    <2> QED
      BY <1>2, <2>1, <2>2 DEF TypeOK, Tick, Validating
  <1>6. Using'
    BY <1>2 DEF TypeOK, Tick, Using, Holding, Timed
  <1>7. Reserve' \subseteq Reserve
    BY <1>2 DEF TypeOK, Tick, Reserve, Live
  <1>8. \A k \in Reserve' : Replaced(k) => Replaced(k)'
    BY <1>2, <1>7 DEF TypeOK, Tick, Reserve, Live, Replaced
  <1>9. Accounted' /\ OneMore'
    BY <1>7, <1>8 DEF Tick, Accounted, OneMore
  <1> QED
    BY <1>3, <1>4, <1>5, <1>6, <1>9

LEMMA StutterPreserves ==
    ASSUME IInv, UNCHANGED vars
    PROVE  IInv'
  BY DEF IInv, vars, TypeOK, Exclusion, Holding, Limit, Validating, Using,
         Accepted, Accounted, OneMore, Reserve, Live, Replaced

THEOREM Invariance == Spec => []IInv
  <1>1. IInv /\ [Next]_vars => IInv'
    BY CallPreserves, LockPreserves, UseCachedPreserves, CreateKeyPreserves,
       CreateKeyLostPreserves, CreateKeyFailsPreserves, ValidatedPreserves,
       GiveUpPreserves, DonePreserves, PropagatePreserves, TickPreserves,
       StutterPreserves
    DEF Next, S3Client, ValidationFails, ValidationTimeout
  <1> QED
    BY InitIInv, <1>1, PTL DEF Spec

-----------------------------------------------------------------------------
\* The variables keep their types.
THEOREM TypeCorrect == Spec => []TypeOK
  <1>1. IInv => TypeOK
    BY DEF IInv
  <1> QED
    BY Invariance, <1>1, PTL

\* An operation that uses its client for at most Margin never signs with an
\* expired key, for all durations.
THEOREM NeverExpiredInUse == Spec => []KeyOutlivesUse
  <1>1. IInv => KeyOutlivesUse
    <2> SUFFICES ASSUME IInv, MaxUse <= Margin,
                        NEW p \in Callers, pc[p] = "using"
                 PROVE  Live(held[p])
      BY DEF KeyOutlivesUse
    <2>1. held[p] \in Keys /\ timer[p] \in Nat /\ timer[p] <= MaxUse
      BY DEF IInv, TypeOK, Holding, Timed, Limit
    <2> QED
      BY <2>1 DEF IInv, TypeOK, Using, Live
  <1> QED
    BY Invariance, <1>1, PTL

\* Only a key the object storage has accepted is cached.
THEOREM CachedIsAccepted == Spec => []OnlyAcceptedKeyCached
  <1>1. IInv => OnlyAcceptedKeyCached
    BY DEF IInv, Accepted, OnlyAcceptedKeyCached
  <1> QED
    BY Invariance, <1>1, PTL

\* A pair has at most two elements.
LEMMA PairCardinality ==
    ASSUME NEW a, NEW b
    PROVE  IsFiniteSet({a, b}) /\ Cardinality({a, b}) <= 2
  <1>1. IsFiniteSet({b}) /\ Cardinality({b}) = 1
    BY FS_Singleton
  <1>2. {a, b} = {b} \cup {a}
    OBVIOUS
  <1>3. IsFiniteSet({b} \cup {a}) /\ Cardinality({b} \cup {a}) <= 2
    <2>1. /\ IsFiniteSet({b} \cup {a})
          /\ Cardinality({b} \cup {a}) =
                IF a \in {b} THEN Cardinality({b}) ELSE Cardinality({b}) + 1
      BY <1>1, FS_AddElement, Zenon
    <2> QED
      BY <1>1, <2>1
  <1> QED
    BY <1>2, <1>3, Zenon

\* However many callers there are, they keep no more than two keys alive.
THEOREM NoExcessKeys == Spec => []FewLiveKeys
  <1>1. IInv => FewLiveKeys
    <2> SUFFICES ASSUME IInv PROVE Cardinality(Reserve) <= 2
      BY DEF FewLiveKeys, Reserve
    <2>1. PICK o \in Keys \cup {NoKey} : Reserve \subseteq {client, o}
      BY DEF IInv, OneMore
    <2>2. IsFiniteSet({client, o}) /\ Cardinality({client, o}) <= 2
      BY PairCardinality
    <2>3. /\ Cardinality(Reserve) <= Cardinality({client, o})
          /\ IsFiniteSet(Reserve)
      BY <2>1, <2>2, FS_Subset
    <2>4. Cardinality(Reserve) \in Nat /\ Cardinality({client, o}) \in Nat
      BY <2>2, <2>3, FS_CardinalityType
    <2> QED
      BY <2>2, <2>3, <2>4
  <1> QED
    BY Invariance, <1>1, PTL

\* Every client that S3Client returns has more than Margin to live.
THEOREM ReturnsFresh == Spec => AlwaysHandedOutFresh
  <1>1. IInv /\ [Next]_vars => [HandedOutFresh]_vars
    <2> SUFFICES ASSUME IInv, Next PROVE HandedOutFresh
      OBVIOUS
    <2> SUFFICES ASSUME NEW p \in Callers, pc[p] # "using", pc'[p] = "using"
                 PROVE  held'[p] = keyInfo' /\ left'[held'[p]] > Margin
      BY DEF HandedOutFresh
    <2>1. UseCached(p) \/ Validated(p)
      BY DEF IInv, TypeOK, Next, S3Client, Call, Lock, UseCached, CreateKey,
             CreateKeyLost, CreateKeyFails, Validated, ValidationFails,
             ValidationTimeout, GiveUp, Done, Propagate, Tick, Goto
    <2>2. CASE UseCached(p)
      BY <2>2 DEF IInv, TypeOK, Exclusion, UseCached, Goto, NeedsKey,
                  NoClient, Expiring
    <2>3. CASE Validated(p)
      <3>1. /\ held[p] \in Keys /\ timer[p] \in Nat
            /\ timer[p] <= ValidationLimit
            /\ left[held[p]] + timer[p] = Lifetime
        BY <2>3 DEF IInv, TypeOK, Validated, Holding, Validating, Timed,
                    Limit
      <3> QED
        BY <2>3, <3>1 DEF IInv, TypeOK, Validated, Goto
    <2> QED
      BY <2>1, <2>2, <2>3
  <1> QED
    BY Invariance, <1>1, PTL DEF Spec, AlwaysHandedOutFresh
=============================================================================
