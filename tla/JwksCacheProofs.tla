---------------------------- MODULE JwksCacheProofs ----------------------------
(***************************************************************************)
(* What TLAPS proves about JwksCache, for any keys, any number of          *)
(* verifications at once, and any times to live, to wait and to fetch.     *)
(***************************************************************************)
EXTENDS JwksCache, FiniteSetTheorems, TLAPS

-----------------------------------------------------------------------------
(* The inductive invariant.                                                *)

(* emVoo is the fetch under way, there is no other, and it is what the     *)
(* waiting wait for.                                                       *)
FlightInv ==
  \A v \in Verifications :
    /\ flight[v].asked <=> emVoo = v
    /\ state[v] = "waiting" => joined[v] = emVoo /\ emVoo # None
    /\ state[v] # "idle" => kid[v] \in Kids
    /\ flight[v].asked /\ flight[v].mandatory => chaves = {}

(* What a fetch of that age brings, or brought: every key published before *)
(* it began, and none withdrawn before.                                    *)
Reflects(keys, since, p) ==
  \A k \in Kids : /\ k \in keys => p[k] >= -(since + 1)
                  /\ p[k] > since => k \in keys

AnswerInv ==
  \A v \in Verifications :
    flight[v].asked /\ flight[v].answer # {} => Reflects(flight[v].answer, flight[v].age, presence)

CacheInv == chaves # {} /\ age < Ttl => Reflects(chaves, age, presence)

(* After a fetch for an unknown kid, the cache is as young as that fetch   *)
(* or the one it joined, unless it failed.                                 *)
IntervalInv ==
  sinceKid < Interval /\ emVoo = None =>
    age <= sinceKid + Timeout \/ sinceFailure <= sinceKid + Timeout

IInv == TypeOK /\ FlightInv /\ AnswerInv /\ CacheInv /\ IntervalInv

-----------------------------------------------------------------------------
(* What the operators return                                               *)

(* A kid grows older by a tick, and changes sides only when it is published or withdrawn. *)
LEMMA OlderBounds ==
  ASSUME NEW p \in -(Ttl + 1)..Window
  PROVE  /\ Older(p) \in -(Ttl + 1)..Window
         /\ p >= 0 => Older(p) >= 0
         /\ Older(p) <= p + 1
         /\ Older(p) >= 0 => p >= 0
         /\ p < 0 => Older(p) >= p - 1
  BY JwksAssumption DEF Older, AtMost, Window

(* A clock stops at its bound and goes on one by one until then. *)
LEMMA AtMostBounds ==
  ASSUME NEW bound \in Nat, NEW n \in 0..bound
  PROVE  /\ AtMost(n + 1, bound) \in 0..bound
         /\ AtMost(n + 1, bound) <= n + 1
         /\ AtMost(n + 1, bound) < bound => AtMost(n + 1, bound) = n + 1
  BY DEF AtMost

(* A step of a verification, or one of the world.                          *)
LEMMA NextCases ==
  ASSUME NEW P, [Next]_vars,
         \A v \in Verifications, k \in Kids : Ask(v, k) /\ Hit(v, k) => P,
         \A v \in Verifications, k \in Kids : Ask(v, k) /\ Reload(v) => P,
         \A v \in Verifications, k \in Kids : Ask(v, k) /\ LookAgain(v, k) => P,
         \A v \in Verifications, k \in Kids : Ask(v, k) /\ TooSoon(v, k) => P,
         \A v \in Verifications : Return(v) => P,
         \A v \in Verifications : Answer(v) => P,
         \A v \in Verifications : Succeed(v) => P,
         \A v \in Verifications : Fail(v) => P,
         Tick => P,
         \A k \in Kids : Rotate(k) => P,
         Outage \/ UNCHANGED vars => P
  PROVE  P
<1>1. ASSUME NEW v \in Verifications, NEW k \in Kids, Ask(v, k) PROVE P
  BY <1>1 DEF Ask
<1> QED
  BY <1>1 DEF Next

-----------------------------------------------------------------------------
(* Types                                                                   *)

(* Types are kept by who starts or joins a fetch, *)
LEMMA RenewTypes ==
  ASSUME TypeOK, NEW v \in Verifications, NEW mandatory \in BOOLEAN, Renew(v, mandatory)
  PROVE  /\ state' \in [Verifications -> {"idle", "waiting", "served", "refused"}]
         /\ joined' \in [Verifications -> Verifications \union {None}]
         /\ emVoo' \in Verifications \union {None}
         /\ flight' \in [Verifications -> Flight]
         /\ UNCHANGED <<chaves, age>>
<1>1. [age |-> 0, mandatory |-> mandatory, answer |-> {}, asked |-> TRUE] \in Flight
  BY JwksAssumption DEF Flight
<1> QED
  BY <1>1 DEF Renew, TypeOK, FetchUnderWay

(* by the end of a fetch, *)
LEMMA ResumeTypes ==
  ASSUME TypeOK, NEW v \in Verifications, NEW keys, NEW thrown, Resume(v, keys, thrown)
  PROVE  /\ state' \in [Verifications -> {"idle", "waiting", "served", "refused"}]
         /\ flight' \in [Verifications -> Flight]
         /\ UNCHANGED <<kid, joined>>
<1>1. NoFlight \in Flight
  BY JwksAssumption DEF NoFlight, Flight
<1> QED
  BY <1>1 DEF Resume, TypeOK

(* by the passing of time, *)
LEMMA TickTypes ==
  ASSUME TypeOK, Tick
  PROVE  /\ presence' \in [Kids -> -(Ttl + 1)..Window]
         /\ age' \in 0..Ttl /\ sinceKid' \in 0..Interval /\ sinceFailure' \in 0..Window
         /\ flight' \in [Verifications -> Flight]
<1>1. presence' \in [Kids -> -(Ttl + 1)..Window]
  BY OlderBounds DEF Tick, FetchesInTime, TypeOK
<1>2. age' \in 0..Ttl /\ sinceKid' \in 0..Interval /\ sinceFailure' \in 0..Window
  <2>1. Ttl \in Nat /\ Interval \in Nat /\ Window \in Nat
    BY JwksAssumption DEF Window
  <2>2. AtMost(age + 1, Ttl) \in 0..Ttl
    BY <2>1, AtMostBounds DEF TypeOK
  <2>3. AtMost(sinceKid + 1, Interval) \in 0..Interval
    BY <2>1, AtMostBounds DEF TypeOK
  <2>4. AtMost(sinceFailure + 1, Window) \in 0..Window
    BY <2>1, AtMostBounds DEF TypeOK
  <2> QED
    BY <2>2, <2>3, <2>4 DEF Tick, FetchesInTime
<1>3. ASSUME NEW v \in Verifications PROVE flight'[v] \in Flight
  <2>1. flight[v] \in Flight
    BY DEF TypeOK
  <2>2. CASE v \in InFlight
    BY <2>1, <2>2, JwksAssumption DEF Tick, FetchesInTime, Flight
  <2> QED
    BY <2>1, <2>2 DEF Tick, FetchesInTime
<1>4. flight' \in [Verifications -> Flight]
  BY <1>3 DEF Tick, FetchesInTime
<1> QED
  BY <1>1, <1>2, <1>4

(* and so by every step. *)
LEMMA TypeStep ==
  ASSUME TypeOK, [Next]_vars
  PROVE  TypeOK'
<1>1. ASSUME NEW v \in Verifications, NEW k \in Kids, Ask(v, k) /\ Hit(v, k) PROVE TypeOK'
  BY <1>1 DEF Ask, Hit, TypeOK, cache, provider
<1>2. ASSUME NEW v \in Verifications, NEW k \in Kids, Ask(v, k) /\ Reload(v) PROVE TypeOK'
  <2>1. (chaves = {}) \in BOOLEAN /\ Renew(v, chaves = {})
    BY <1>2 DEF Reload
  <2>2. /\ state' \in [Verifications -> {"idle", "waiting", "served", "refused"}]
        /\ joined' \in [Verifications -> Verifications \union {None}]
        /\ emVoo' \in Verifications \union {None}
        /\ flight' \in [Verifications -> Flight]
        /\ UNCHANGED <<chaves, age>>
    BY <2>1, RenewTypes
  <2>3. kid' \in [Verifications -> Kids \union {None}] /\ sinceKid' = sinceKid
        /\ UNCHANGED <<provider, sinceFailure>>
    BY <1>2 DEF Ask, Reload, TypeOK
  <2> QED
    BY <2>2, <2>3 DEF TypeOK, provider
<1>3. ASSUME NEW v \in Verifications, NEW k \in Kids, Ask(v, k) /\ LookAgain(v, k)
      PROVE  TypeOK'
  <2>1. FALSE \in BOOLEAN /\ Renew(v, FALSE)
    BY <1>3 DEF LookAgain
  <2>2. /\ state' \in [Verifications -> {"idle", "waiting", "served", "refused"}]
        /\ joined' \in [Verifications -> Verifications \union {None}]
        /\ emVoo' \in Verifications \union {None}
        /\ flight' \in [Verifications -> Flight]
        /\ UNCHANGED <<chaves, age>>
    BY <2>1, RenewTypes
  <2>3. kid' \in [Verifications -> Kids \union {None}] /\ sinceKid' \in 0..Interval
        /\ UNCHANGED <<provider, sinceFailure>>
    BY <1>3, JwksAssumption DEF Ask, LookAgain, TypeOK
  <2> QED
    BY <2>2, <2>3 DEF TypeOK, provider
<1>4. ASSUME NEW v \in Verifications, NEW k \in Kids, Ask(v, k) /\ TooSoon(v, k)
      PROVE  TypeOK'
  BY <1>4 DEF Ask, TooSoon, Refuse, TypeOK, cache, provider
<1>5. ASSUME NEW v \in Verifications, Return(v) PROVE TypeOK'
  BY <1>5 DEF Return, TypeOK, cache, provider
<1>6. ASSUME NEW v \in Verifications, Answer(v) PROVE TypeOK'
  <2>1. Published \in SUBSET Kids
    BY DEF Published
  <2> QED
    BY <1>6, <2>1 DEF Answer, TypeOK, Flight, cache, provider
<1>7. ASSUME NEW v \in Verifications, Succeed(v) PROVE TypeOK'
  <2>1. flight[v].answer \subseteq Kids /\ flight[v].age \in 0..Ttl
    BY JwksAssumption DEF TypeOK, Flight
  <2> QED
    BY <1>7, <2>1, ResumeTypes DEF Succeed, FetchedAge, Landed, TypeOK, provider
<1>8. ASSUME NEW v \in Verifications, Fail(v) PROVE TypeOK'
  BY <1>8, ResumeTypes, JwksAssumption DEF Fail, Landed, TypeOK, Window, provider
<1>9. CASE Tick
  BY <1>9, TickTypes DEF Tick, FetchesInTime, TypeOK
<1>10. ASSUME NEW k \in Kids, Rotate(k) PROVE TypeOK'
  BY <1>10, JwksAssumption DEF Rotate, TypeOK, cache, callers, Window
<1>11. CASE Outage \/ UNCHANGED vars
  BY <1>11 DEF Outage, vars, TypeOK, cache, callers, provider
<1> QED
  BY <1>1, <1>2, <1>3, <1>4, <1>5, <1>6, <1>7, <1>8, <1>9, <1>10, <1>11, NextCases

-----------------------------------------------------------------------------
(* One fetch                                                               *)

(* Who starts a fetch finds none under way; who does not, joins it. *)
LEMMA RenewKeepsFlight ==
  ASSUME TypeOK, FlightInv, NEW v \in Verifications, NEW k \in Kids,
         NEW mandatory \in BOOLEAN, mandatory => chaves = {},
         Renew(v, mandatory), kid' = [kid EXCEPT ![v] = k]
  PROVE  FlightInv'
<1> SUFFICES ASSUME NEW u \in Verifications
             PROVE  /\ flight'[u].asked <=> emVoo' = u
                    /\ state'[u] = "waiting" => joined'[u] = emVoo' /\ emVoo' # None
                    /\ state'[u] # "idle" => kid'[u] \in Kids
                    /\ flight'[u].asked /\ flight'[u].mandatory => chaves' = {}
  BY DEF FlightInv
<1>1. None \notin Verifications
  BY JwksAssumption
<1>2. CASE FetchUnderWay
  BY <1>2 DEF Renew, FetchUnderWay, TypeOK, FlightInv
<1>3. CASE ~FetchUnderWay
  <2>1. /\ ~flight[u].asked /\ state[u] # "waiting"
        /\ flight'[u].asked <=> u = v
        /\ emVoo' = v /\ joined'[v] = v
        /\ flight'[v].mandatory = mandatory
    BY <1>1, <1>3 DEF Renew, FetchUnderWay, TypeOK, FlightInv
  <2>2. /\ state'[u] = "waiting" => u = v
        /\ state'[u] # "idle" => kid'[u] \in Kids
        /\ chaves' = chaves
    BY <2>1 DEF Renew, TypeOK, FlightInv
  <2> QED
    BY <1>1, <2>1, <2>2
<1> QED
  BY <1>2, <1>3

(* A fetch that ends leaves nobody waiting. *)
LEMMA ResumeKeepsFlight ==
  ASSUME TypeOK, FlightInv, NEW v \in InFlight, NEW keys, NEW thrown,
         Resume(v, keys, thrown), emVoo' = None
  PROVE  /\ FlightInv'
         /\ \A u \in Verifications : ~flight'[u].asked
<1>1. None \notin Verifications /\ emVoo = v /\ v \in Verifications
  BY JwksAssumption DEF InFlight, FlightInv
<1>2. ASSUME NEW u \in Verifications PROVE ~flight'[u].asked /\ state'[u] # "waiting"
  BY <1>1 DEF Resume, NoFlight, TypeOK, FlightInv
<1>3. ASSUME NEW u \in Verifications, state'[u] # "idle" PROVE kid'[u] \in Kids
  BY <1>3 DEF Resume, TypeOK, FlightInv
<1> QED
  BY <1>1, <1>2, <1>3 DEF FlightInv

(* Every step keeps one fetch at a time. *)
LEMMA FlightStep ==
  ASSUME TypeOK, FlightInv, [Next]_vars
  PROVE  FlightInv'
<1> USE DEF TypeOK, FlightInv
<1>1. ASSUME NEW v \in Verifications, NEW k \in Kids, Ask(v, k) /\ Hit(v, k) PROVE FlightInv'
  BY <1>1 DEF Ask, Hit, cache
<1>2. ASSUME NEW v \in Verifications, NEW k \in Kids, Ask(v, k) /\ Reload(v) PROVE FlightInv'
  <2>1. (chaves = {}) \in BOOLEAN /\ Renew(v, chaves = {})
    BY <1>2 DEF Reload
  <2> QED
    BY <1>2, <2>1, RenewKeepsFlight DEF Ask
<1>3. ASSUME NEW v \in Verifications, NEW k \in Kids, Ask(v, k) /\ LookAgain(v, k)
      PROVE  FlightInv'
  BY <1>3, RenewKeepsFlight DEF Ask, LookAgain
<1>4. ASSUME NEW v \in Verifications, NEW k \in Kids, Ask(v, k) /\ TooSoon(v, k)
      PROVE  FlightInv'
  BY <1>4 DEF Ask, TooSoon, Refuse, cache
<1>5. ASSUME NEW v \in Verifications, Return(v) PROVE FlightInv'
  BY <1>5 DEF Return, cache
<1>6. ASSUME NEW v \in Verifications, Answer(v) PROVE FlightInv'
  <2>1. \A u \in Verifications : /\ flight'[u].asked = flight[u].asked
                                 /\ flight'[u].mandatory = flight[u].mandatory
    BY <1>6 DEF Answer, Flight
  <2> QED
    BY <1>6, <2>1 DEF Answer, cache
<1>7. ASSUME NEW v \in Verifications, Succeed(v) PROVE FlightInv'
  BY <1>7, ResumeKeepsFlight DEF Succeed, Landed
<1>8. ASSUME NEW v \in Verifications, Fail(v) PROVE FlightInv'
  BY <1>8, ResumeKeepsFlight DEF Fail, Landed
<1>9. CASE Tick
  <2>1. \A u \in Verifications : /\ flight'[u].asked = flight[u].asked
                                 /\ flight'[u].mandatory = flight[u].mandatory
    BY <1>9 DEF Tick, FetchesInTime, Flight
  <2> QED
    BY <1>9, <2>1 DEF Tick, FetchesInTime
<1>10. ASSUME NEW k \in Kids, Rotate(k) PROVE FlightInv'
  BY <1>10 DEF Rotate, cache, callers
<1>11. CASE Outage \/ UNCHANGED vars
  BY <1>11 DEF Outage, vars, cache, callers
<1> QED
  BY <1>1, <1>2, <1>3, <1>4, <1>5, <1>6, <1>7, <1>8, <1>9, <1>10, <1>11, NextCases

-----------------------------------------------------------------------------
(* What the keys reflect                                                   *)

(* A tick makes the keys and the fetch older by one. *)
LEMMA TickReflects ==
  ASSUME TypeOK, Tick, NEW keys \in SUBSET Kids, NEW since \in Nat, Reflects(keys, since, presence)
  PROVE  Reflects(keys, since + 1, presence')
<1> SUFFICES ASSUME NEW k \in Kids
             PROVE  /\ k \in keys => presence'[k] >= -(since + 1 + 1)
                    /\ presence'[k] > since + 1 => k \in keys
  BY DEF Reflects
<1>1. /\ presence'[k] = Older(presence[k])
      /\ presence[k] \in -(Ttl + 1)..Window
  BY DEF Tick, FetchesInTime, TypeOK
<1>2. /\ k \in keys => presence[k] >= -(since + 1)
      /\ presence[k] > since => k \in keys
  BY DEF Reflects
<1> DEFINE p == presence[k]
           q == presence'[k]
<1>3. /\ q \in -(Ttl + 1)..Window /\ p \in Int /\ q \in Int
      /\ p >= 0 => q >= 0
      /\ q <= p + 1
      /\ p < 0 => q >= p - 1
  BY <1>1, OlderBounds, JwksAssumption DEF Window
<1> HIDE DEF p, q
<1>4. /\ p >= -(since + 1) => q >= -(since + 1 + 1)
      /\ q > since + 1 => p > since
  BY <1>3
<1> QED
  BY <1>2, <1>4 DEF p, q

(* A key published or withdrawn at this moment is too young to matter. *)
LEMMA RotateReflects ==
  ASSUME TypeOK, NEW k \in Kids, Rotate(k),
         NEW keys, NEW since \in Nat, Reflects(keys, since, presence)
  PROVE  Reflects(keys, since, presence')
BY DEF Rotate, TypeOK, Reflects

(* What the provider publishes now reflects any fetch that is under way. *)
LEMMA PublishedReflects ==
  ASSUME TypeOK, NEW since \in Nat
  PROVE  Reflects(Published, since, presence)
BY DEF TypeOK, Reflects, Published

(* Every step keeps what the answers and the keys reflect. *)
LEMMA ReflectsStep ==
  ASSUME TypeOK, FlightInv, AnswerInv, CacheInv, [Next]_vars
  PROVE  AnswerInv' /\ CacheInv'
<1> DEFINE Goal == AnswerInv' /\ CacheInv'
<1>1. ASSUME presence' = presence, chaves' = chaves, age' = age,
             \A v \in Verifications :
               \/ flight'[v] = flight[v] \/ ~flight'[v].asked \/ flight'[v].answer = {}
      PROVE  Goal
  BY <1>1 DEF AnswerInv, CacheInv, Reflects
<1>2. ASSUME NEW v \in Verifications, NEW mandatory, Renew(v, mandatory),
             presence' = presence
      PROVE  Goal
  <2>1. \A u \in Verifications : flight'[u] = flight[u] \/ flight'[u].answer = {}
    BY <1>2 DEF Renew, TypeOK
  <2> QED
    BY <1>1, <1>2, <2>1 DEF Renew
<1>3. ASSUME NEW v \in Verifications, NEW k \in Kids, Ask(v, k) /\ Hit(v, k) PROVE Goal
  BY <1>1, <1>3 DEF Ask, Hit, cache, provider
<1>4. ASSUME NEW v \in Verifications, NEW k \in Kids, Ask(v, k) /\ Reload(v) PROVE Goal
  BY <1>2, <1>4 DEF Ask, Reload, provider
<1>5. ASSUME NEW v \in Verifications, NEW k \in Kids, Ask(v, k) /\ LookAgain(v, k) PROVE Goal
  BY <1>2, <1>5 DEF Ask, LookAgain, provider
<1>6. ASSUME NEW v \in Verifications, NEW k \in Kids, Ask(v, k) /\ TooSoon(v, k) PROVE Goal
  BY <1>1, <1>6 DEF Ask, TooSoon, Refuse, cache, provider
<1>7. ASSUME NEW v \in Verifications, Return(v) PROVE Goal
  BY <1>1, <1>7 DEF Return, cache, provider
<1>8. ASSUME NEW v \in Verifications, Answer(v) PROVE Goal
  <2>1. flight[v].age \in Nat
    BY DEF TypeOK, Flight
  <2>2. Reflects(Published, flight[v].age, presence)
    BY <2>1, PublishedReflects
  <2>3. /\ flight'[v].answer = Published /\ flight'[v].age = flight[v].age
        /\ \A u \in Verifications \ {v} : flight'[u] = flight[u]
        /\ presence' = presence /\ chaves' = chaves /\ age' = age
    BY <1>8 DEF Answer, TypeOK, Flight, cache, provider
  <2> QED
    BY <2>2, <2>3 DEF AnswerInv, CacheInv, Reflects
<1>9. ASSUME NEW v \in Verifications, Succeed(v) PROVE Goal
  <2>1. \A u \in Verifications : flight'[u] = flight[u] \/ ~flight'[u].asked
    BY <1>9 DEF Succeed, Resume, NoFlight, TypeOK
  <2>2. flight[v].asked /\ flight[v].answer # {} /\ presence' = presence
        /\ chaves' = flight[v].answer /\ age' = flight[v].age
    BY <1>9 DEF Succeed, InFlight, FetchedAge, provider
  <2> QED
    BY <2>1, <2>2 DEF AnswerInv, CacheInv, Reflects
<1>10. ASSUME NEW v \in Verifications, Fail(v) PROVE Goal
  <2>1. \A u \in Verifications : flight'[u] = flight[u] \/ ~flight'[u].asked
    BY <1>10 DEF Fail, Resume, NoFlight, TypeOK
  <2> QED
    BY <1>1, <1>10, <2>1 DEF Fail, provider
<1>11. CASE Tick
  <2>1. ASSUME NEW v \in Verifications, flight'[v].asked, flight'[v].answer # {}
        PROVE  Reflects(flight'[v].answer, flight'[v].age, presence')
    <3>1. flight[v] \in Flight
      BY DEF TypeOK
    <3>2. /\ flight[v].asked /\ flight'[v].answer = flight[v].answer
          /\ flight'[v].age = flight[v].age + 1
      BY <1>11, <2>1, <3>1 DEF Tick, FetchesInTime, InFlight, Flight
    <3>3. /\ Reflects(flight[v].answer, flight[v].age, presence)
          /\ flight[v].answer \in SUBSET Kids /\ flight[v].age \in Nat
      BY <2>1, <3>1, <3>2 DEF AnswerInv, Flight
    <3> QED
      BY <1>11, <3>2, <3>3, TickReflects
  <2>2. ASSUME chaves' # {}, age' < Ttl PROVE Reflects(chaves', age', presence')
    <3>1. AtMost(age + 1, Ttl) < Ttl => AtMost(age + 1, Ttl) = age + 1
      BY AtMostBounds, JwksAssumption DEF TypeOK
    <3>2. age' = age + 1 /\ chaves' = chaves
      BY <1>11, <2>2, <3>1 DEF Tick, FetchesInTime
    <3>3. chaves \in SUBSET Kids /\ age \in Nat /\ age < Ttl
      BY <2>2, <3>2, JwksAssumption DEF TypeOK
    <3> QED
      BY <1>11, <2>2, <3>2, <3>3, TickReflects DEF CacheInv
  <2> QED
    BY <2>1, <2>2 DEF AnswerInv, CacheInv
<1>12. ASSUME NEW k \in Kids, Rotate(k) PROVE Goal
  <2>1. \A v \in Verifications : flight[v].age \in Nat
    BY DEF TypeOK, Flight
  <2>2. UNCHANGED <<flight, chaves, age>> /\ age \in Nat
    BY <1>12 DEF Rotate, cache, callers, TypeOK
  <2>3. ASSUME NEW v \in Verifications, flight'[v].asked, flight'[v].answer # {}
        PROVE  Reflects(flight'[v].answer, flight'[v].age, presence')
    BY <1>12, <2>1, <2>2, <2>3, RotateReflects DEF AnswerInv
  <2>4. ASSUME chaves' # {}, age' < Ttl PROVE Reflects(chaves', age', presence')
    BY <1>12, <2>2, <2>4, RotateReflects DEF CacheInv
  <2> QED
    BY <2>3, <2>4 DEF AnswerInv, CacheInv
<1>13. CASE Outage \/ UNCHANGED vars
  BY <1>1, <1>13 DEF Outage, vars, cache, callers, provider
<1> QED
  BY <1>3, <1>4, <1>5, <1>6, <1>7, <1>8, <1>9, <1>10, <1>11, <1>12, <1>13, NextCases

(* Every step keeps the cache as young as the last fetch for an unknown kid. *)
LEMMA IntervalStep ==
  ASSUME TypeOK, IntervalInv, [Next]_vars
  PROVE  IntervalInv'
<1> USE DEF IntervalInv
<1>1. ASSUME UNCHANGED <<age, sinceKid, emVoo, sinceFailure>> PROVE IntervalInv'
  BY <1>1
<1>2. ASSUME NEW v \in Verifications, NEW mandatory, Renew(v, mandatory) PROVE IntervalInv'
  BY <1>2, JwksAssumption DEF Renew, FetchUnderWay
<1>3. ASSUME NEW v \in Verifications, NEW k \in Kids, Ask(v, k) PROVE IntervalInv'
  BY <1>1, <1>2, <1>3 DEF Ask, Hit, Reload, LookAgain, TooSoon, Refuse, cache
<1>4. ASSUME NEW v \in Verifications, Return(v) \/ Answer(v) PROVE IntervalInv'
  BY <1>1, <1>4 DEF Return, Answer, cache
<1>5. ASSUME NEW v \in Verifications, Succeed(v) PROVE IntervalInv'
  <2>1. flight[v].age \in 0..Timeout
    BY DEF TypeOK, Flight
  <2> QED
    BY <1>5, <2>1, JwksAssumption DEF Succeed, FetchedAge, TypeOK
<1>6. ASSUME NEW v \in Verifications, Fail(v) PROVE IntervalInv'
  BY <1>6, JwksAssumption DEF Fail, TypeOK
<1>7. CASE Tick
  <2>1. /\ Ttl \in Nat /\ Interval \in Nat /\ Window \in Nat
        /\ age \in 0..Ttl /\ sinceKid \in 0..Interval /\ sinceFailure \in 0..Window
    BY JwksAssumption DEF Window, TypeOK
  <2>2. age' \in 0..Ttl /\ age' <= age + 1
    BY <1>7, <2>1, AtMostBounds DEF Tick, FetchesInTime
  <2>3. sinceFailure' \in 0..Window /\ sinceFailure' <= sinceFailure + 1
    BY <1>7, <2>1, AtMostBounds DEF Tick, FetchesInTime
  <2>4. sinceKid' < Interval => sinceKid' = sinceKid + 1
    BY <1>7, <2>1, AtMostBounds DEF Tick, FetchesInTime
  <2> QED
    BY <1>7, <2>1, <2>2, <2>3, <2>4, JwksAssumption DEF Tick, FetchesInTime
<1>8. ASSUME NEW k \in Kids, Rotate(k) PROVE IntervalInv'
  BY <1>1, <1>8 DEF Rotate, cache
<1>9. CASE Outage \/ UNCHANGED vars
  BY <1>1, <1>9 DEF Outage, vars, cache
<1> QED
  BY <1>3, <1>4, <1>5, <1>6, <1>7, <1>8, <1>9 DEF Next

-----------------------------------------------------------------------------
(* The theorems                                                            *)

(* Whatever comes in whatever order, the cache is consistent. *)
THEOREM CacheInvariant == Spec => []IInv
<1>1. Init => IInv
  <2> SUFFICES ASSUME Init PROVE IInv
    OBVIOUS
  <2>1. TypeOK
    <3>1. NoFlight \in Flight
      BY JwksAssumption DEF NoFlight, Flight
    <3>2. presence \in [Kids -> -(Ttl + 1)..Window]
      BY JwksAssumption DEF Init, Window
    <3> QED
      BY <3>1, <3>2, JwksAssumption DEF Init, TypeOK, Window
  <2>2. FlightInv
    BY JwksAssumption DEF Init, FlightInv, NoFlight
  <2>3. AnswerInv /\ CacheInv /\ IntervalInv
    BY JwksAssumption DEF Init, AnswerInv, CacheInv, IntervalInv, NoFlight
  <2> QED
    BY <2>1, <2>2, <2>3 DEF IInv
<1>2. IInv /\ [Next]_vars => IInv'
  BY TypeStep, FlightStep, ReflectsStep, IntervalStep DEF IInv
<1> QED
  BY <1>1, <1>2, PTL DEF Spec

(* The types hold. *)
THEOREM CacheTypeCorrect == Spec => []TypeOK
<1>1. IInv => TypeOK
  BY DEF IInv
<1> QED
  BY <1>1, CacheInvariant, PTL

(* However many tokens arrive together, the provider is asked once and     *)
(* they wait for that (jwks.cache.ts, emVoo).                              *)
THEOREM ProviderIsAskedOnce == Spec => []OneFetchAtATime
<1>1. IInv => OneFetchAtATime
  <2> SUFFICES ASSUME IInv PROVE OneFetchAtATime
    OBVIOUS
  <2>1. InFlight = {} \/ \E v \in Verifications : InFlight = {v}
    BY DEF IInv, FlightInv, InFlight
  <2>2. Cardinality(InFlight) <= 1
    <3>1. CASE InFlight = {}
      BY <3>1, FS_EmptySet
    <3>2. ASSUME NEW v \in Verifications, InFlight = {v} PROVE Cardinality(InFlight) = 1
      BY <3>2, FS_Singleton
    <3> QED
      BY <2>1, <3>1, <3>2
  <2>3. ASSUME NEW v \in Verifications, state[v] = "waiting" PROVE joined[v] \in InFlight
    BY <2>3 DEF IInv, TypeOK, FlightInv, InFlight
  <2> QED
    BY <2>2, <2>3 DEF OneFetchAtATime
<1> QED
  BY <1>1, CacheInvariant, PTL

(* The cached keys are no older than buscadoEm says. *)
THEOREM CachedKeysAreFresh == Spec => []KeysAreFresh
<1>1. IInv => KeysAreFresh
  BY DEF IInv, TypeOK, CacheInv, Reflects, KeysAreFresh
<1> QED
  BY <1>1, CacheInvariant, PTL

-----------------------------------------------------------------------------
(* What a token may meet                                                   *)

(* Who is served finds the kid among keys that reflect the provider. *)
LEMMA ServedStep ==
  ASSUME IInv, [Next]_vars,
         NEW u \in Verifications, state[u] # "served", state'[u] = "served"
  PROVE  (kid'[u] \in Kids /\ presence[kid'[u]] > -(Ttl + 1)) \/ sinceFailure' = 0
<1> DEFINE Goal == (kid'[u] \in Kids /\ presence[kid'[u]] > -(Ttl + 1)) \/ sinceFailure' = 0
<1> USE DEF IInv
<1>1. ASSUME NEW v \in Verifications, NEW k \in Kids, Ask(v, k) /\ Hit(v, k) PROVE Goal
  <2>1. u = v /\ kid'[u] = k /\ presence' = presence
    BY <1>1 DEF Ask, Hit, TypeOK, provider
  <2>2. k \in chaves /\ age < Ttl
    BY <1>1, JwksAssumption DEF Hit, Expired, TypeOK
  <2>3. presence[k] >= -(age + 1)
    BY <2>2 DEF CacheInv, Reflects
  <2> QED
    BY <2>1, <2>2, <2>3, JwksAssumption DEF TypeOK
<1>2. ASSUME NEW v \in Verifications, NEW mandatory, Renew(v, mandatory) PROVE Goal
  BY <1>2 DEF Renew, TypeOK
<1>3. ASSUME NEW v \in Verifications, NEW k \in Kids, Ask(v, k) /\ TooSoon(v, k) PROVE Goal
  BY <1>3 DEF TooSoon, Refuse, TypeOK
<1>4. ASSUME NEW v \in Verifications, Return(v) \/ Answer(v) PROVE Goal
  BY <1>4 DEF Return, Answer, TypeOK
<1>5. ASSUME NEW v \in Verifications, Succeed(v) PROVE Goal
  <2>1. flight[v].asked /\ flight[v].answer # {} /\ flight[v] \in Flight
    BY <1>5 DEF Succeed, InFlight, TypeOK
  <2>2. /\ kid'[u] = kid[u] /\ kid[u] \in flight[v].answer
        /\ presence' = presence
    BY <1>5 DEF Succeed, Resume, TypeOK, provider
  <2>3. /\ kid[u] \in Kids /\ flight[v].age \in 0..Timeout
    BY <2>1, <2>2 DEF Flight
  <2>4. presence[kid[u]] >= -(flight[v].age + 1)
    BY <2>1, <2>2, <2>3 DEF AnswerInv, Reflects
  <2> QED
    BY <2>2, <2>3, <2>4, JwksAssumption DEF TypeOK
<1>6. ASSUME NEW v \in Verifications, Fail(v) PROVE Goal
  BY <1>6 DEF Fail
<1>7. CASE Tick \/ Outage \/ UNCHANGED vars \/ \E k \in Kids : Rotate(k)
  BY <1>7 DEF Tick, FetchesInTime, Outage, Rotate, vars, callers
<1> QED
  BY <1>1, <1>2, <1>3, <1>4, <1>5, <1>6, <1>7 DEF Next, Ask, Reload, LookAgain

(* A key withdrawn for the whole TTL is accepted by nobody, except while   *)
(* the provider cannot be asked (buscar).                                  *)
THEOREM WithdrawnKeysRunOut == Spec => WithdrawnKeyRunsOut
<1> DEFINE RunsOut == \A v \in Verifications :
      (Becomes(v, "served") /\ presence[kid'[v]] <= -(Ttl + 1)) => sinceFailure' = 0
<1>1. IInv /\ [Next]_vars => RunsOut
  <2> SUFFICES ASSUME IInv, [Next]_vars, NEW v \in Verifications, Becomes(v, "served")
               PROVE  presence[kid'[v]] <= -(Ttl + 1) => sinceFailure' = 0
    OBVIOUS
  <2>1. (kid'[v] \in Kids /\ presence[kid'[v]] > -(Ttl + 1)) \/ sinceFailure' = 0
    BY ServedStep DEF Becomes
  <2> QED
    BY <2>1, JwksAssumption DEF IInv, TypeOK
<1>2. IInv /\ [Next]_vars => [RunsOut]_vars
  BY <1>1
<1> QED
  BY <1>2, CacheInvariant, PTL DEF Spec, WithdrawnKeyRunsOut

(* Who is refused: its kid came too early, or the fetch it waited for did  *)
(* not bring it.                                                           *)
LEMMA RefusedStep ==
  ASSUME IInv, [Next]_vars,
         NEW u \in Verifications, state[u] # "refused", state'[u] = "refused"
  PROVE  /\ kid'[u] \in chaves => kid'[u] \notin chaves'
         /\ \/ kid'[u] \in Kids /\ presence[kid'[u]] < Window
            \/ sinceFailure' < Window
            \/ emVoo' # None
<1> DEFINE Known == kid'[u] \in chaves => kid'[u] \notin chaves'
           Excuse == \/ kid'[u] \in Kids /\ presence[kid'[u]] < Window
                     \/ sinceFailure' < Window
                     \/ emVoo' # None
<1> USE DEF IInv
<1>1. ASSUME NEW v \in Verifications, NEW k \in Kids, Ask(v, k) /\ Hit(v, k) PROVE FALSE
  BY <1>1 DEF Hit, TypeOK
<1>2. ASSUME NEW v \in Verifications, NEW mandatory, Renew(v, mandatory) PROVE FALSE
  BY <1>2 DEF Renew, TypeOK
<1>3. ASSUME NEW v \in Verifications, NEW k \in Kids, Ask(v, k) /\ TooSoon(v, k)
      PROVE  Known /\ Excuse
  <2>1. u = v /\ kid'[u] = k /\ k \notin chaves /\ chaves # {}
    BY <1>3 DEF Ask, TooSoon, Refuse, TypeOK
  <2>2. age < Ttl /\ sinceKid < Interval /\ emVoo' = emVoo /\ sinceFailure' = sinceFailure
    BY <1>3, JwksAssumption DEF Ask, TooSoon, Refuse, Expired, TypeOK, cache
  <2>3. presence[k] <= age
    BY <2>1, <2>2 DEF CacheInv, Reflects, TypeOK
  <2>4. emVoo = None => \/ age <= sinceKid + Timeout
                       \/ sinceFailure <= sinceKid + Timeout
    BY <2>2 DEF IntervalInv
  <2>5. emVoo = None => presence[k] < Window \/ sinceFailure < Window
    BY <2>2, <2>3, <2>4, JwksAssumption DEF TypeOK, Window
  <2> QED
    BY <2>1, <2>2, <2>5
<1>4. ASSUME NEW v \in Verifications, Return(v) \/ Answer(v) PROVE FALSE
  BY <1>4 DEF Return, Answer, TypeOK
<1>5. ASSUME NEW v \in Verifications, Succeed(v) PROVE Known /\ Excuse
  <2>1. flight[v].asked /\ flight[v].answer # {} /\ flight[v] \in Flight
    BY <1>5 DEF Succeed, InFlight, TypeOK
  <2>2. /\ kid'[u] = kid[u] /\ kid[u] \notin flight[v].answer /\ state[u] = "waiting"
        /\ chaves' = flight[v].answer
    BY <1>5 DEF Succeed, Resume, TypeOK
  <2>3. kid[u] \in Kids /\ flight[v].age \in 0..Timeout
    BY <2>1, <2>2 DEF FlightInv, Flight
  <2>4. presence[kid[u]] <= flight[v].age
    BY <2>1, <2>2, <2>3 DEF AnswerInv, Reflects, TypeOK
  <2> QED
    BY <2>2, <2>3, <2>4, JwksAssumption DEF TypeOK, Window
<1>6. ASSUME NEW v \in Verifications, Fail(v) PROVE Known /\ Excuse
  <2>1. /\ kid'[u] = kid[u] /\ chaves' = chaves /\ sinceFailure' = 0
        /\ Rethrows(v) \/ kid[u] \notin chaves
    BY <1>6 DEF Fail, Resume, TypeOK
  <2>2. Rethrows(v) => chaves = {}
    BY <1>6 DEF Fail, InFlight, Rethrows, FlightInv
  <2> QED
    BY <2>1, <2>2, JwksAssumption DEF Window
<1>7. CASE Tick \/ Outage \/ UNCHANGED vars \/ \E k \in Kids : Rotate(k)
  BY <1>7 DEF Tick, FetchesInTime, Outage, Rotate, vars, callers
<1> QED
  BY <1>1, <1>2, <1>3, <1>4, <1>5, <1>6, <1>7 DEF Next, Ask, Reload, LookAgain

(* No failure of the provider refuses a token whose key was cached         *)
(* (buscar, the catch).                                                    *)
THEOREM KnownKeysAreNeverRefused == Spec => KnownKeyIsNeverRefused
<1>1. IInv /\ [Next]_vars =>
        \A v \in Verifications :
          (Becomes(v, "refused") /\ kid'[v] \in chaves) => kid'[v] \notin chaves'
  BY RefusedStep DEF Becomes
<1>2. IInv /\ [Next]_vars =>
        [\A v \in Verifications :
          (Becomes(v, "refused") /\ kid'[v] \in chaves) => kid'[v] \notin chaves']_vars
  BY <1>1
<1> QED
  BY <1>2, CacheInvariant, PTL DEF Spec, KnownKeyIsNeverRefused

(* A key published for the interval and a fetch is refused only after a    *)
(* failure or beside a fetch (chavePublica).                               *)
THEOREM LongPublishedKeysAreServed == Spec => LongPublishedKeyIsServed
<1> DEFINE Served == \A v \in Verifications :
      (Becomes(v, "refused") /\ presence[kid'[v]] >= Window /\ emVoo' = None)
        => sinceFailure' < Window
<1>1. IInv /\ [Next]_vars => Served
  <2> SUFFICES ASSUME IInv, [Next]_vars, NEW v \in Verifications, Becomes(v, "refused")
               PROVE  presence[kid'[v]] >= Window /\ emVoo' = None => sinceFailure' < Window
    OBVIOUS
  <2>1. \/ kid'[v] \in Kids /\ presence[kid'[v]] < Window
        \/ sinceFailure' < Window \/ emVoo' # None
    BY RefusedStep DEF Becomes
  <2> QED
    BY <2>1, JwksAssumption DEF IInv, TypeOK, Window
<1>2. IInv /\ [Next]_vars => [Served]_vars
  BY <1>1
<1> QED
  BY <1>2, CacheInvariant, PTL DEF Spec, LongPublishedKeyIsServed
=============================================================================
