------------------------------- MODULE JwksCache -------------------------------
(***************************************************************************)
(* The cache of Keycloak's signing keys, with the verifications that ask   *)
(* it for a key while keys come and go at the provider, and fetches take   *)
(* time or fail.                                                           *)
(*                                                                         *)
(* Times are ages: how long ago something happened, in ticks, up to the    *)
(* age from which nothing tells them apart.  A step of the event loop ends *)
(* at an await, so that a fetch resumes everyone waiting for it at once.   *)
(***************************************************************************)
EXTENDS Integers, FiniteSets

CONSTANTS
  Kids,            \* key identifiers a token may name
  Verifications,   \* tokens being verified at once
  Ttl,             \* ttlMs: from this age the keys have expired
  Interval,        \* intervaloMinimoMs, between fetches for an unknown kid
  Timeout,         \* timeoutMs of a fetch
  MaxRotations,    \* bound: keys published or withdrawn
  None

ASSUME JwksAssumption ==
  /\ Interval \in Nat \ {0} /\ Timeout \in Nat \ {0}
  /\ Ttl \in Nat /\ Ttl > Timeout
  /\ MaxRotations \in Nat
  /\ None \notin Verifications \union Kids

VARIABLES
  presence,    \* ticks a kid has been published, or minus the ticks (and one)
               \* it has not
  up,          \* the provider answers in time, with keys that can be used
  rotations,
  chaves,      \* the keys cached
  age,         \* agora - buscadoEm
  sinceKid,    \* agora - ultimaRenovacaoPorKid
  emVoo,       \* the verification that started the fetch under way
  flight,      \* the fetch each verification has started
  state,       \* where each verification is
  kid,         \* the kid of its token
  joined,      \* the verification whose fetch it waits for
  sinceFailure \* the age of the last fetch that failed

provider == <<presence, up, rotations>>
cache == <<chaves, age, sinceKid, emVoo>>
callers == <<flight, state, kid, joined>>
vars == <<provider, cache, callers, sinceFailure>>

(* A key published for that long has had its chance to be fetched.         *)
Window == Interval + Timeout

Published == {k \in Kids : presence[k] >= 0}

NoFlight == [age |-> 0, mandatory |-> FALSE, answer |-> {}, asked |-> FALSE]
InFlight == {v \in Verifications : flight[v].asked}

AtMost(n, bound) == IF n > bound THEN bound ELSE n

-----------------------------------------------------------------------------
(* Faulty variants, each used in place of the definition of the comment.   *)

NeverExpires == FALSE                     \* Expired: the TTL is not looked at
NeverJoins == FALSE                       \* FetchUnderWay: everyone fetches
AgeOfCompletion(v) == 0                   \* FetchedAge: buscadoEm = the end of the fetch
NoTimeout == TRUE                         \* FetchesInTime: fetch without its signal
ThrowsAlways(v) == TRUE                   \* Rethrows: a failure refuses everyone
Sliding(v, k) ==                          \* Refuse: the interval starts again
  /\ state' = [state EXCEPT ![v] = "refused"]
  /\ sinceKid' = 0
  /\ UNCHANGED <<chaves, age, emVoo, flight, joined>>
OnSuccessOnly(done) ==                    \* Landed: emVoo cleared without finally
  IF done THEN None ELSE emVoo

-----------------------------------------------------------------------------
(* chavePublica, up to its await.                                          *)

Expired == age >= Ttl

FetchUnderWay == emVoo # None

(* renovar: join the fetch under way, or start one. *)
Renew(v, mandatory) ==
  /\ state' = [state EXCEPT ![v] = "waiting"]
  /\ \/ /\ FetchUnderWay
        /\ joined' = [joined EXCEPT ![v] = emVoo]
        /\ UNCHANGED <<emVoo, flight>>
     \/ /\ ~FetchUnderWay
        /\ emVoo' = v
        /\ joined' = [joined EXCEPT ![v] = v]
        /\ flight' = [flight EXCEPT ![v] =
             [age |-> 0, mandatory |-> mandatory, answer |-> {}, asked |-> TRUE]]
  /\ UNCHANGED <<chaves, age>>

Hit(v, k) ==
  /\ k \in chaves /\ ~Expired
  /\ state' = [state EXCEPT ![v] = "served"]
  /\ UNCHANGED <<cache, flight, joined>>

Reload(v) ==
  /\ chaves = {} \/ Expired
  /\ Renew(v, chaves = {})
  /\ UNCHANGED sinceKid

(* The keys are good but the kid is not among them. *)
LookAgain(v, k) ==
  /\ chaves # {} /\ ~Expired /\ k \notin chaves
  /\ sinceKid >= Interval
  /\ sinceKid' = 0
  /\ Renew(v, FALSE)

Refuse(v, k) ==
  /\ state' = [state EXCEPT ![v] = "refused"]
  /\ UNCHANGED <<cache, flight, joined>>

TooSoon(v, k) ==
  /\ chaves # {} /\ ~Expired /\ k \notin chaves
  /\ sinceKid < Interval
  /\ Refuse(v, k)

Ask(v, k) ==
  /\ state[v] = "idle"
  /\ kid' = [kid EXCEPT ![v] = k]
  /\ Hit(v, k) \/ Reload(v) \/ LookAgain(v, k) \/ TooSoon(v, k)
  /\ UNCHANGED <<provider, sinceFailure>>

(* The guard goes on with the answer. *)
Return(v) ==
  /\ state[v] \in {"served", "refused"}
  /\ state' = [state EXCEPT ![v] = "idle"]
  /\ kid' = [kid EXCEPT ![v] = None]
  /\ joined' = [joined EXCEPT ![v] = None]
  /\ UNCHANGED <<provider, cache, flight, sinceFailure>>

-----------------------------------------------------------------------------
(* buscar: the provider answers, and the fetch ends one way or the other.  *)

Answer(v) ==
  /\ v \in InFlight /\ up
  /\ flight[v].answer = {} /\ Published # {}
  /\ flight' = [flight EXCEPT ![v].answer = Published]
  /\ UNCHANGED <<provider, cache, state, kid, joined, sinceFailure>>

Landed(done) == None

(* Everyone who waits for v's fetch looks the key up again, or gets the    *)
(* error of the fetch.                                                     *)
Resume(v, keys, thrown) ==
  /\ state' = [u \in Verifications |->
       IF state[u] # "waiting" \/ joined[u] # v THEN state[u]
       ELSE IF ~thrown /\ kid[u] \in keys THEN "served" ELSE "refused"]
  /\ flight' = [flight EXCEPT ![v] = NoFlight]
  /\ UNCHANGED <<kid, joined>>

(* buscadoEm is the time the call started, not the time of the answer. *)
FetchedAge(v) == flight[v].age

Succeed(v) ==
  /\ v \in InFlight
  /\ flight[v].answer # {}
  /\ chaves' = flight[v].answer
  /\ age' = FetchedAge(v)
  /\ emVoo' = Landed(TRUE)
  /\ Resume(v, flight[v].answer, FALSE)
  /\ UNCHANGED <<provider, sinceKid, sinceFailure>>

Rethrows(v) == flight[v].mandatory \/ chaves = {}

(* No answer, an error, an answer too late, or one without a usable key. *)
Fail(v) ==
  /\ v \in InFlight
  /\ flight[v].answer = {} /\ (~up \/ Published = {})
  /\ emVoo' = Landed(FALSE)
  /\ Resume(v, chaves, Rethrows(v))
  /\ sinceFailure' = 0
  /\ UNCHANGED <<provider, chaves, age, sinceKid>>

-----------------------------------------------------------------------------
(* The world outside: time, keys, outages.                                 *)

Older(p) == IF p >= 0 THEN AtMost(p + 1, Window) ELSE -AtMost(1 - p, Ttl + 1)

(* AbortSignal.timeout ends a fetch in time. *)
FetchesInTime == \A v \in InFlight : flight[v].age < Timeout

Tick ==
  /\ FetchesInTime
  /\ presence' = [k \in Kids |-> Older(presence[k])]
  /\ age' = AtMost(age + 1, Ttl)
  /\ sinceKid' = AtMost(sinceKid + 1, Interval)
  /\ sinceFailure' = AtMost(sinceFailure + 1, Window)
  /\ flight' = [v \in Verifications |->
       IF v \in InFlight THEN [flight[v] EXCEPT !.age = @ + 1] ELSE flight[v]]
  /\ UNCHANGED <<up, rotations, chaves, emVoo, state, kid, joined>>

Rotate(k) ==
  /\ rotations < MaxRotations
  /\ rotations' = rotations + 1
  /\ presence' = [presence EXCEPT ![k] = IF @ >= 0 THEN -1 ELSE 0]
  /\ UNCHANGED <<up, cache, callers, sinceFailure>>

Outage ==
  /\ up' = ~up
  /\ UNCHANGED <<presence, rotations, cache, callers, sinceFailure>>

-----------------------------------------------------------------------------
Init ==
  /\ presence \in [Kids -> {-(Ttl + 1), 0}]
  /\ Published # {}
  /\ up \in BOOLEAN
  /\ rotations = 0
  /\ chaves = {}
  /\ age = Ttl
  /\ sinceKid = Interval
  /\ emVoo = None
  /\ flight = [v \in Verifications |-> NoFlight]
  /\ state = [v \in Verifications |-> "idle"]
  /\ kid = [v \in Verifications |-> None]
  /\ joined = [v \in Verifications |-> None]
  /\ sinceFailure = Window

Next ==
  \/ \E v \in Verifications :
       \/ \E k \in Kids : Ask(v, k)
       \/ Return(v) \/ Answer(v) \/ Succeed(v) \/ Fail(v)
  \/ Tick
  \/ \E k \in Kids : Rotate(k)
  \/ Outage

(* Time passes, the event loop resumes what is ready, and a provider that  *)
(* is up answers.  Nobody has to ask, and no outage has to end.            *)
Fairness ==
  /\ WF_vars(Tick)
  /\ \A v \in Verifications : WF_vars(Return(v) \/ Answer(v) \/ Succeed(v) \/ Fail(v))

Spec == Init /\ [][Next]_vars /\ Fairness

-----------------------------------------------------------------------------
(* Properties.                                                             *)

Flight == [age : 0..Timeout, mandatory : BOOLEAN, answer : SUBSET Kids, asked : BOOLEAN]

(* Types; no fetch outlasts its timeout. *)
TypeOK ==
  /\ presence \in [Kids -> -(Ttl + 1)..Window]
  /\ up \in BOOLEAN
  /\ rotations \in 0..MaxRotations
  /\ chaves \subseteq Kids
  /\ age \in 0..Ttl
  /\ sinceKid \in 0..Interval
  /\ emVoo \in Verifications \union {None}
  /\ flight \in [Verifications -> Flight]
  /\ state \in [Verifications -> {"idle", "waiting", "served", "refused"}]
  /\ kid \in [Verifications -> Kids \union {None}]
  /\ joined \in [Verifications -> Verifications \union {None}]
  /\ sinceFailure \in 0..Window

(* However many tokens arrive while the keys are missing or expired, the   *)
(* provider is asked by one of them, and everyone who waits, waits for it  *)
(* (jwks.cache.ts, emVoo).                                                 *)
OneFetchAtATime ==
  /\ Cardinality(InFlight) <= 1
  /\ \A v \in Verifications : state[v] = "waiting" => joined[v] \in InFlight

(* The keys are no older than they are taken for: a kid still cached was   *)
(* published when the fetch began, or later (buscadoEm is the start of the *)
(* fetch, so that a key withdrawn while it ran is not kept a TTL longer).  *)
KeysAreFresh ==
  \A k \in chaves : age < Ttl => presence[k] >= -(age + 1)

Becomes(v, s) == state[v] # s /\ state'[v] = s

(* A key withdrawn for the whole TTL is accepted by nobody, except while   *)
(* the provider cannot be asked (buscar serves the old keys then).         *)
WithdrawnKeyRunsOut ==
  [][\A v \in Verifications :
       (Becomes(v, "served") /\ presence[kid'[v]] <= -(Ttl + 1)) => sinceFailure' = 0]_vars

(* No failure of the provider refuses a token whose key was cached: only   *)
(* an answer without the key does (buscar, the catch).                     *)
KnownKeyIsNeverRefused ==
  [][\A v \in Verifications :
       (Becomes(v, "refused") /\ kid'[v] \in chaves) => kid'[v] \notin chaves']_vars

(* A key published for as long as the interval and a fetch may take is     *)
(* refused only when a fetch has failed meanwhile, or is under way: then   *)
(* the first token with the kid waits for it, and the second is refused    *)
(* (chavePublica, the interval; renovar, the shared fetch).                *)
LongPublishedKeyIsServed ==
  [][\A v \in Verifications :
       (Becomes(v, "refused") /\ presence[kid'[v]] >= Window /\ emVoo' = None)
         => sinceFailure' < Window]_vars

(* A key that stays published is cached in the end, if the provider stays  *)
(* up and tokens with that kid keep coming.                                *)
NewKeyIsLearned ==
  \A k \in Kids :
    (<>[](up /\ k \in Published) /\ []<>(\E v \in Verifications : kid[v] = k))
      => <>[](k \in chaves)
=============================================================================
