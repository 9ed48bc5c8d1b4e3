--------------------------- MODULE S3ClientCache ---------------------------
(***************************************************************************)
(* The S3 client every object storage resource shares:                     *)
(* Client.S3Client, createS3Client and PollUntil of src/coreweave/s3.go.   *)
(*                                                                         *)
(* One mutex (s3Mu) guards the cached client (singletonS3Client) and the   *)
(* expiry of the access key it signs with (s3AccessKeyInfo).  A caller     *)
(* that finds no client, or one whose key is about to expire, asks the API *)
(* for a new key and polls ListBuckets until the key is accepted, holding  *)
(* the mutex all along.                                                    *)
(*                                                                         *)
(* Time is counted down, not up: left[k] is what key k still has to live,  *)
(* timer[p] how long caller p has been in its present wait.  An expired    *)
(* key that nobody refers to stands for a new one.                         *)
(***************************************************************************)
EXTENDS Naturals, FiniteSets

CONSTANTS
    Callers,          \* resource operations running in the provider
    NoCaller,
    Keys,             \* the keys that may be in sight at one time
    NoKey,
    Lifetime,         \* DurationSeconds: 15 minutes
    Margin,           \* refresh when this or less is left: 5 minutes
    ValidationLimit,  \* PollUntil's timeout: 1 minute
    MaxUse            \* how long an operation uses the client it was given

ASSUME CallerAssumption == NoCaller \notin Callers
ASSUME KeyAssumption == NoKey \notin Keys
ASSUME TimeAssumption ==
    /\ {Lifetime, Margin, ValidationLimit, MaxUse} \subseteq Nat
    /\ Margin + ValidationLimit < Lifetime
    /\ 2 * Margin < Lifetime

VARIABLES
    mutex,      \* who holds s3Mu
    client,     \* the key singletonS3Client signs with
    keyInfo,    \* the key s3AccessKeyInfo describes
    pc,         \* where each caller is
    held,       \* the key each caller's client signs with
    left,       \* how long each key has to live
    usable,     \* the keys the object storage accepts
    wasted,     \* history: keys issued, but never cached
    timer       \* how long each caller has been validating or using

vars == <<mutex, client, keyInfo, pc, held, left, usable, wasted, timer>>

Places == {"idle", "waiting", "locked", "validating", "using"}

TypeOK ==
    /\ mutex \in Callers \cup {NoCaller}
    /\ client \in Keys \cup {NoKey}
    /\ keyInfo \in Keys \cup {NoKey}
    /\ pc \in [Callers -> Places]
    /\ held \in [Callers -> Keys \cup {NoKey}]
    /\ left \in [Keys -> 0..Lifetime]
    /\ usable \subseteq Keys
    /\ wasted \subseteq Keys
    /\ timer \in [Callers -> 0..(ValidationLimit + MaxUse)]

-----------------------------------------------------------------------------
\* The first condition of S3Client: it has no client yet.
NoClient == client = NoKey \/ keyInfo = NoKey

\* Mutant of Expiring: only an expired key is refreshed.
MutExpired == IF NoClient THEN FALSE ELSE left[keyInfo] = 0

\* The second: time.Until(s3AccessKeyInfo.Expiry) <= 5 minutes.
Expiring == IF NoClient THEN FALSE ELSE left[keyInfo] <= Margin

NeedsKey == NoClient \/ Expiring

Goto(p, place, key) ==
    /\ pc' = [pc EXCEPT ![p] = place]
    /\ held' = [held EXCEPT ![p] = key]
    /\ timer' = [timer EXCEPT ![p] = 0]

\* An operation needs the client.
Call(p) ==
    /\ pc[p] = "idle"
    /\ Goto(p, "waiting", NoKey)
    /\ UNCHANGED <<mutex, client, keyInfo, left, usable, wasted>>

\* Mutant of Lock: callers do not exclude each other.
MutUnguarded(p) ==
    /\ pc[p] = "waiting"
    /\ mutex' = p
    /\ Goto(p, "locked", NoKey)
    /\ UNCHANGED <<client, keyInfo, left, usable, wasted>>

\* s3Mu.Lock()
Lock(p) ==
    /\ pc[p] = "waiting" /\ mutex = NoCaller
    /\ mutex' = p
    /\ Goto(p, "locked", NoKey)
    /\ UNCHANGED <<client, keyInfo, left, usable, wasted>>

\* The cached client is good for more than Margin.
UseCached(p) ==
    /\ pc[p] = "locked" /\ ~NeedsKey
    /\ mutex' = NoCaller
    /\ Goto(p, "using", client)
    /\ UNCHANGED <<client, keyInfo, left, usable, wasted>>

\* A key nobody refers to: the API hands it out as a new one.
Fresh(k) == /\ left[k] = 0 /\ k \notin {client, keyInfo}
            /\ \A p \in Callers : held[p] # k

Issue(k) ==
    /\ Fresh(k)
    /\ left' = [left EXCEPT ![k] = Lifetime]
    /\ usable' = usable \ {k}

\* Mutant of CreateKey: the client is overwritten before it is validated.
MutOverwriteFirst(p) ==
    /\ pc[p] = "locked" /\ NeedsKey
    /\ \E k \in Keys :
          /\ Issue(k)
          /\ wasted' = wasted \ {k}
          /\ Goto(p, "validating", k)
          /\ client' = k /\ keyInfo' = k
    /\ UNCHANGED mutex

\* createS3Client: CreateAccessKeyFromJWT answers.
CreateKey(p) ==
    /\ pc[p] = "locked" /\ NeedsKey
    /\ \E k \in Keys :
          /\ Issue(k)
          /\ wasted' = wasted \ {k}
          /\ Goto(p, "validating", k)
    /\ UNCHANGED <<mutex, client, keyInfo>>

\* Its answer is lost: the HTTP client sends the request again.
CreateKeyLost(p) ==
    /\ pc[p] = "locked" /\ NeedsKey
    /\ \E k \in Keys : Issue(k) /\ wasted' = wasted \cup {k}
    /\ UNCHANGED <<mutex, client, keyInfo, pc, held, timer>>

\* Mutant of CreateKeyFails: the error return leaves s3Mu locked.
MutStillLocked(p) ==
    /\ pc[p] = "locked" /\ NeedsKey
    /\ Goto(p, "idle", NoKey)
    /\ UNCHANGED <<mutex, client, keyInfo, left, usable, wasted>>

\* It fails.
CreateKeyFails(p) ==
    /\ pc[p] = "locked" /\ NeedsKey
    /\ mutex' = NoCaller
    /\ Goto(p, "idle", NoKey)
    /\ UNCHANGED <<client, keyInfo, left, usable, wasted>>

\* ListBuckets accepts the key: it is cached, and returned.
Validated(p) ==
    /\ pc[p] = "validating" /\ held[p] \in usable /\ left[held[p]] > 0
    /\ client' = held[p]
    /\ keyInfo' = held[p]
    /\ mutex' = NoCaller
    /\ Goto(p, "using", held[p])
    /\ UNCHANGED <<left, usable, wasted>>

GiveUp(p) ==
    /\ mutex' = NoCaller
    /\ wasted' = wasted \cup {held[p]}
    /\ Goto(p, "idle", NoKey)
    /\ UNCHANGED <<client, keyInfo, left, usable>>

\* ListBuckets fails with another error than AccessDenied, or the caller's
\* context is cancelled.
ValidationFails(p) == pc[p] = "validating" /\ GiveUp(p)

\* PollUntil's deadline passes.  A last answer may still win the select.
ValidationTimeout(p) ==
    pc[p] = "validating" /\ timer[p] >= ValidationLimit /\ GiveUp(p)

\* The operation is done with the client.
Done(p) ==
    /\ pc[p] = "using"
    /\ Goto(p, "idle", NoKey)
    /\ UNCHANGED <<mutex, client, keyInfo, left, usable, wasted>>

\* The object storage learns of a key.
Propagate(k) ==
    /\ left[k] > 0 /\ k \notin usable
    /\ usable' = usable \cup {k}
    /\ UNCHANGED <<mutex, client, keyInfo, pc, held, left, wasted, timer>>

Timed == {"validating", "using"}
Limit(p) == IF pc[p] = "validating" THEN ValidationLimit ELSE MaxUse

\* Mutant of Tick: a poll or an operation is not given up in time.
MutUnbounded ==
    /\ left' = [k \in Keys |-> IF left[k] = 0 THEN 0 ELSE left[k] - 1]
    /\ timer' = [p \in Callers |-> IF pc[p] \in Timed THEN timer[p] + 1
                                   ELSE timer[p]]
    /\ wasted' = {k \in wasted : left[k] > 1}
    /\ UNCHANGED <<mutex, client, keyInfo, pc, held, usable>>

\* Time passes, but no wait outlives its limit.
Tick ==
    /\ \A p \in Callers : pc[p] \in Timed => timer[p] < Limit(p)
    /\ left' = [k \in Keys |-> IF left[k] = 0 THEN 0 ELSE left[k] - 1]
    /\ timer' = [p \in Callers |-> IF pc[p] \in Timed THEN timer[p] + 1
                                   ELSE timer[p]]
    /\ wasted' = {k \in wasted : left[k] > 1}
    /\ UNCHANGED <<mutex, client, keyInfo, pc, held, usable>>

-----------------------------------------------------------------------------
Init ==
    /\ mutex = NoCaller
    /\ client = NoKey /\ keyInfo = NoKey
    /\ pc = [p \in Callers |-> "idle"]
    /\ held = [p \in Callers |-> NoKey]
    /\ left = [k \in Keys |-> 0]
    /\ usable = {} /\ wasted = {}
    /\ timer = [p \in Callers |-> 0]

S3Client(p) == \/ Lock(p) \/ UseCached(p)
               \/ CreateKey(p) \/ CreateKeyLost(p) \/ CreateKeyFails(p)
               \/ Validated(p) \/ ValidationFails(p) \/ ValidationTimeout(p)

Next == \/ \E p \in Callers : Call(p) \/ S3Client(p) \/ Done(p)
        \/ \E k \in Keys : Propagate(k)
        \/ Tick

Spec == Init /\ [][Next]_vars

(***************************************************************************)
(* Fairness.  sync.Mutex hands over to a waiter that has starved for 1 ms, *)
(* so a caller that finds s3Mu free again and again gets it.  The HTTP     *)
(* client gives up after RetryMax attempts, so CreateKeyLost cannot go on  *)
(* for ever; every poll and every operation has a timeout, and time        *)
(* passes.  Nothing is assumed of Propagate: a key may never be accepted.  *)
(***************************************************************************)
Fairness ==
    /\ WF_vars(Tick)
    /\ \A p \in Callers :
          /\ SF_vars(Lock(p))
          /\ WF_vars(UseCached(p))
          /\ WF_vars(CreateKey(p) \/ CreateKeyFails(p))
          /\ WF_vars(Validated(p) \/ ValidationTimeout(p))
          /\ WF_vars(Done(p))

FairSpec == Spec /\ Fairness

-----------------------------------------------------------------------------
Live(k) == left[k] > 0

\* An operation that uses its client for no longer than Margin never signs a
\* request with an expired key, whoever refreshed the client meanwhile: the
\* comparison with 5 minutes in S3Client (s3.go:121) is what guarantees it.
KeyOutlivesUse ==
    MaxUse <= Margin => \A p \in Callers : pc[p] = "using" => Live(held[p])

\* The comment at s3.go:97 and 128: a key is known to be accepted by the
\* object storage before it replaces the cached one, also when several
\* callers refresh, fail and retry.
OnlyAcceptedKeyCached ==
    client # NoKey /\ Live(client) => client \in usable

\* The comment at s3.go:24: the shared client "prevents us from generating
\* excess access keys".  Of the keys that were ever cached or may still be,
\* at most two are alive at a time, however many callers find the client
\* stale at once.  (Keys whose validation failed, or whose answer was lost,
\* are in wasted: nothing deletes those.)
FewLiveKeys ==
    Cardinality({k \in Keys : Live(k) /\ k \notin wasted}) <= 2

\* The expiry that is compared belongs to the key that is handed out, and a
\* client handed out has more than Margin to live, even if its validation
\* took the whole of PollUntil's minute.
HandedOutFresh ==
    \A p \in Callers :
        pc[p] # "using" /\ pc'[p] = "using"
            => /\ held'[p] = keyInfo'
               /\ left'[held'[p]] > Margin

AlwaysHandedOutFresh == [][HandedOutFresh]_vars

\* A caller that wants the client gets it or an error: neither the callers
\* that refresh under s3Mu before it, nor keys that are never accepted, keep
\* it out for ever (s3.go:80, 159).
CallReturns ==
    \A p \in Callers : pc[p] = "waiting" ~> pc[p] \in {"using", "idle"}
=============================================================================
