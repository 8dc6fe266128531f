---------------------------- MODULE PromiseProofs ----------------------------
(***************************************************************************)
(* Proofs about PromiseJobs for every set of promises, values and handlers: *)
(* SingleResolver is invariant, the queue implements PromiseChain, and      *)
(* reactions run in the order of their registration.                        *)
(***************************************************************************)
EXTENDS PromiseJobs, TLAPS

\* No promise is fulfilled with a promise: settle_promise adopts it instead.
FulfilledNeverPromise ==
    \A p \in Promises : promise_state[p] = "fulfilled" => promise_result[p] \in Values

\* A handler that runs belongs to the front job, whatever it registered since.
HandlerOwnsFront == phase = "handler" => jobs # <<>> /\ handler # Undefined

\* make_promise makes pending promises.
UnmadePending == \A p \in Promises : p \notin made => Pending(p)

PendingResolved == \A p \in made : Pending(p) => HasResolver(p)

\* The inductive invariant.
Inv ==
    /\ TypeOK
    /\ ReactionsWait
    /\ JobsCarryOutcomes
    /\ PendingResolved
    /\ FulfilledNeverPromise
    /\ HandlerOwnsFront
    /\ UnmadePending

-----------------------------------------------------------------------------
\* Popping the front job and appending others.
LEMMA PopAppend ==
    ASSUME NEW S, NEW s \in Seq(S), s # <<>>, NEW e \in Seq(S)
    PROVE  /\ Tail(s) \o e \in Seq(S)
           /\ Len(Tail(s) \o e) = Len(s) - 1 + Len(e)
           /\ \A i \in 1 .. Len(s) - 1 : (Tail(s) \o e)[i] = s[i + 1]
           /\ \A i \in 1 .. Len(e) : (Tail(s) \o e)[Len(s) - 1 + i] = e[i]
  <1>1. Len(s) \in Nat /\ Len(s) >= 1 /\ Len(e) \in Nat
    OBVIOUS
  <1>2. Tail(s) \in Seq(S) /\ Len(Tail(s)) = Len(s) - 1
    BY <1>1
  <1>3. \A i \in 1 .. Len(s) - 1 : Tail(s)[i] = s[i + 1]
    BY <1>1, <1>2
  <1> QED
    BY <1>1, <1>2, <1>3

LEMMA Appended ==
    ASSUME NEW S, NEW s \in Seq(S), NEW e \in S
    PROVE  /\ Append(s, e) \in Seq(S)
           /\ Len(Append(s, e)) = Len(s) + 1
           /\ \A i \in 1 .. Len(s) : Append(s, e)[i] = s[i]
           /\ Append(s, e)[Len(s) + 1] = e
  OBVIOUS

\* The fields of a reaction and of a job.
LEMMA ReactionType ==
    ASSUME NEW x \in PromiseReaction
    PROVE  x.on_fulfilled \in Handlers /\ x.on_rejected \in Handlers /\ x.next_promise \in Promises
  BY DEF PromiseReaction

LEMMA JobType ==
    ASSUME NEW x \in PromiseReactionJob
    PROVE  /\ x.on_fulfilled \in Handlers /\ x.on_rejected \in Handlers
           /\ x.next_promise \in Promises /\ x.fulfilled \in BOOLEAN /\ x.result \in Results
  BY DEF PromiseReactionJob

LEMMA MakesReaction ==
    ASSUME NEW f \in Handlers, NEW r \in Handlers, NEW p \in Promises
    PROVE  /\ Reaction(f, r, p) \in PromiseReaction
           /\ Reaction(f, r, p).on_fulfilled = f
           /\ Reaction(f, r, p).on_rejected = r
           /\ Reaction(f, r, p).next_promise = p
  BY DEF Reaction, PromiseReaction

LEMMA MakesJob ==
    ASSUME NEW x \in PromiseReaction, NEW f \in BOOLEAN, NEW v \in Results
    PROVE  /\ JobOf(x, f, v) \in PromiseReactionJob
           /\ JobOf(x, f, v).fulfilled = f
           /\ JobOf(x, f, v).result = v
           /\ JobOf(x, f, v).on_fulfilled = x.on_fulfilled
           /\ JobOf(x, f, v).on_rejected = x.on_rejected
           /\ JobOf(x, f, v).next_promise = x.next_promise
  BY ReactionType DEF JobOf, PromiseReactionJob

-----------------------------------------------------------------------------
LEMMA InitInv == Init => Inv
  <1> SUFFICES ASSUME Init PROVE Inv
    OBVIOUS
  <1> USE ConstantsDistinct DEF Init
  <1>1. TypeOK
    BY DEF TypeOK, Results
  <1>2. ReactionsWait
    BY DEF ReactionsWait
  <1>3. JobsCarryOutcomes
    BY DEF JobsCarryOutcomes
  <1>4. PendingResolved /\ FulfilledNeverPromise /\ HandlerOwnsFront /\ UnmadePending
    BY DEF PendingResolved, FulfilledNeverPromise, HandlerOwnsFront, UnmadePending, Pending
  <1> QED
    BY <1>1, <1>2, <1>3, <1>4 DEF Inv

\* What the invariant says of the front job and of the promise it settles.
LEMMA FrontJob ==
    ASSUME Inv, jobs # <<>>
    PROVE  LET t == jobs[1].next_promise IN
           /\ jobs \in Seq(PromiseReactionJob) /\ Len(jobs) \in Nat /\ Len(jobs) >= 1
           /\ jobs[1] \in PromiseReactionJob
           /\ t \in made /\ t \in Promises /\ Pending(t)
           /\ source[t] \in made /\ ~Pending(source[t])
           /\ \A j \in 2 .. Len(jobs) : jobs[j].next_promise # t
           /\ \A s \in Promises : \A i \in 1 .. Len(promise_reactions[s]) :
                 promise_reactions[s][i].next_promise # t
  <1>1. jobs \in Seq(PromiseReactionJob) /\ Len(jobs) \in Nat /\ Len(jobs) >= 1
    BY DEF Inv, TypeOK
  <1>2. 1 \in 1 .. Len(jobs) /\ jobs[1] \in PromiseReactionJob
    BY <1>1
  <1>3. jobs[1].next_promise \in Promises
    BY <1>2, JobType
  <1>4. LET t == jobs[1].next_promise IN
        /\ t \in made /\ Pending(t)
        /\ source[t] \in made /\ ~Pending(source[t])
        /\ \A j \in 1 .. Len(jobs) : jobs[j].next_promise = t => 1 = j
    BY <1>2 DEF Inv, JobsCarryOutcomes
  <1>5. ASSUME NEW s \in Promises, NEW i \in 1 .. Len(promise_reactions[s])
        PROVE  promise_reactions[s][i].next_promise # jobs[1].next_promise
    BY <1>4 DEF Inv, ReactionsWait
  <1> QED
    BY <1>1, <1>2, <1>3, <1>4, <1>5

\* Case one of settle_promise: the target takes the outcome, and its reactions
\* become jobs.
LEMMA SettleKeeps ==
    ASSUME Inv, jobs # <<>>, NEW f \in BOOLEAN, NEW v \in Results,
           ~(f /\ v \in Promises),
           settle_promise(jobs[1].next_promise, f, v, Tail(jobs)),
           UNCHANGED history, UNCHANGED made, phase' = "jobs", returned' = returned
    PROVE  Inv'
  <1> DEFINE t == jobs[1].next_promise
             R == promise_reactions[t]
             E == [i \in 1 .. Len(R) |-> JobOf(R[i], f, v)]
             n == Len(jobs) - 1
  <1> USE ConstantsDistinct
  <1>t. /\ jobs \in Seq(PromiseReactionJob) /\ Len(jobs) \in Nat /\ n \in Nat
        /\ t \in made /\ t \in Promises /\ Pending(t)
        /\ source[t] \in made /\ ~Pending(source[t])
        /\ \A j \in 2 .. Len(jobs) : jobs[j].next_promise # t
        /\ \A s \in Promises : \A i \in 1 .. Len(promise_reactions[s]) :
              promise_reactions[s][i].next_promise # t
    BY FrontJob
  <1>ty. TypeOK
    BY DEF Inv
  <1>R. R \in Seq(PromiseReaction) /\ Len(R) \in Nat
    BY <1>t, <1>ty DEF TypeOK
  <1>v. v \in Results
    OBVIOUS
  <1>E. /\ E \in Seq(PromiseReactionJob) /\ Len(E) = Len(R)
        /\ \A i \in 1 .. Len(R) :
             /\ E[i].next_promise = R[i].next_promise
             /\ E[i].fulfilled = f /\ E[i].result = v
             /\ E[i].on_fulfilled = R[i].on_fulfilled
             /\ E[i].on_rejected = R[i].on_rejected
    <2>1. ASSUME NEW i \in 1 .. Len(R)
          PROVE  /\ E[i] \in PromiseReactionJob
                 /\ E[i].next_promise = R[i].next_promise
                 /\ E[i].fulfilled = f /\ E[i].result = v
                 /\ E[i].on_fulfilled = R[i].on_fulfilled
                 /\ E[i].on_rejected = R[i].on_rejected
      <3>1. R[i] \in PromiseReaction
        BY <1>R
      <3>2. E[i] = JobOf(R[i], f, v)
        OBVIOUS
      <3> HIDE DEF E, R
      <3> QED
        BY <3>1, <3>2, <1>v, MakesJob
    <2>2. E \in [1 .. Len(R) -> PromiseReactionJob]
      BY <2>1
    <2>3. E \in Seq(PromiseReactionJob) /\ Len(E) = Len(R)
      BY <2>2, <1>R
    <2> QED
      BY <2>1, <2>3
  <1>s. Settles(t, f, v)
    BY <1>t DEF Settles
  <1>n. /\ promise_state' = [promise_state EXCEPT ![t] = StateName(f)]
        /\ promise_result' = [promise_result EXCEPT ![t] = v]
        /\ promise_reactions' = [p \in Promises |-> IF p = t THEN <<>> ELSE promise_reactions[p]]
        /\ jobs' = Tail(jobs) \o E
    <2>1. Enqueued(t, f, v) = E
      BY <1>s DEF Enqueued
    <2>2. ~Adopts(t, f, v)
      BY DEF Adopts
    <2> QED
      BY <1>s, <2>1, <2>2 DEF settle_promise
  <1>h. source' = source /\ kind' = kind /\ registered' = registered /\ made' = made
    BY DEF history
  <1> HIDE DEF E, R
  <1>j. /\ jobs' \in Seq(PromiseReactionJob)
        /\ Len(jobs') = n + Len(R)
        /\ \A i \in 1 .. n : jobs'[i] = jobs[i + 1]
        /\ \A i \in 1 .. Len(R) : jobs'[n + i] = E[i]
    BY <1>t, <1>E, <1>n, PopAppend
  <1> HIDE DEF t
  <1>S. StateName(f) \in {"fulfilled", "rejected"} /\ (f <=> StateName(f) = "fulfilled")
    BY DEF StateName
  <1>p. \A q \in Promises : /\ q # t => promise_state'[q] = promise_state[q] /\ promise_result'[q] = promise_result[q]
                            /\ q # t => promise_reactions'[q] = promise_reactions[q]
    BY <1>n, <1>ty DEF TypeOK
  <1>q. promise_state'[t] = StateName(f) /\ promise_result'[t] = v /\ promise_reactions'[t] = <<>>
    BY <1>n, <1>ty, <1>t DEF TypeOK
  <1>1. TypeOK'
    <2>1. promise_reactions' \in [Promises -> Seq(PromiseReaction)]
      BY <1>n, <1>ty DEF TypeOK
    <2>2. promise_state' \in [Promises -> {"pending", "fulfilled", "rejected"}]
      BY <1>n, <1>ty, <1>S DEF TypeOK
    <2>3. promise_result' \in [Promises -> Results]
      BY <1>n, <1>ty, <1>v DEF TypeOK
    <2> QED
      BY <2>1, <2>2, <2>3, <1>h, <1>j, <1>ty DEF TypeOK
  <1>2. ReactionsWait'
    <2> SUFFICES ASSUME NEW s \in Promises, NEW i \in 1 .. Len(promise_reactions'[s])
                 PROVE  LET x == promise_reactions'[s][i] IN
                        /\ s \in made' /\ promise_state'[s] = "pending"
                        /\ x.next_promise \in made' /\ promise_state'[x.next_promise] = "pending"
                        /\ source'[x.next_promise] = s
                        /\ KindMatches(x, kind'[x.next_promise])
                        /\ \A j \in 1 .. Len(promise_reactions'[s]) :
                              promise_reactions'[s][j].next_promise = x.next_promise => i = j
      BY DEF ReactionsWait, Pending, KindMatches
    <2>1. s # t /\ promise_reactions'[s] = promise_reactions[s]
      BY <1>p, <1>q
    <2>2. promise_reactions[s][i].next_promise # t
      BY <2>1, <1>t
    <2>3. LET x == promise_reactions[s][i] IN
          /\ s \in made /\ promise_state[s] = "pending"
          /\ x.next_promise \in made /\ promise_state[x.next_promise] = "pending"
          /\ source[x.next_promise] = s
          /\ KindMatches(x, kind[x.next_promise])
          /\ \A j \in 1 .. Len(promise_reactions[s]) :
                promise_reactions[s][j].next_promise = x.next_promise => i = j
      BY <2>1 DEF Inv, ReactionsWait, Pending
    <2>4. promise_reactions[s][i].next_promise \in Promises
      BY <2>3, <1>ty DEF TypeOK
    <2> QED
      BY <2>1, <2>2, <2>3, <2>4, <1>p, <1>h
  <1>w. \A k \in 1 .. Len(R) :
          LET q == R[k].next_promise IN
          /\ q \in made /\ promise_state[q] = "pending" /\ q # t /\ source[q] = t
          /\ KindMatches(R[k], kind[q])
          /\ \A j \in 1 .. Len(R) : R[j].next_promise = q => k = j
    BY <1>t DEF Inv, ReactionsWait, R, Pending
  <1>o. \A i \in 1 .. Len(jobs) :
          LET p == jobs[i].next_promise IN
          /\ p \in made /\ promise_state[p] = "pending"
          /\ source[p] \in made /\ promise_state[source[p]] # "pending"
          /\ jobs[i].fulfilled = (promise_state[source[p]] = "fulfilled")
          /\ jobs[i].result = promise_result[source[p]]
          /\ KindMatches(jobs[i], kind[p])
          /\ \A j \in 1 .. Len(jobs) : jobs[j].next_promise = p => i = j
    BY DEF Inv, JobsCarryOutcomes, Pending
  <1>m. made \subseteq Promises
    BY <1>ty DEF TypeOK
  <1>3. JobsCarryOutcomes'
    <2> SUFFICES ASSUME NEW i \in 1 .. Len(jobs')
                 PROVE  LET p == jobs'[i].next_promise IN
                        /\ p \in made' /\ promise_state'[p] = "pending"
                        /\ source'[p] \in made' /\ promise_state'[source'[p]] # "pending"
                        /\ jobs'[i].fulfilled = (promise_state'[source'[p]] = "fulfilled")
                        /\ jobs'[i].result = promise_result'[source'[p]]
                        /\ KindMatches(jobs'[i], kind'[p])
                        /\ \A j \in 1 .. Len(jobs') : jobs'[j].next_promise = p => i = j
      BY DEF JobsCarryOutcomes, Pending, KindMatches
    <2>1. CASE i \in 1 .. n
      <3> DEFINE p == jobs[i + 1].next_promise
      <3>1. i + 1 \in 1 .. Len(jobs) /\ i + 1 \in 2 .. Len(jobs) /\ jobs'[i] = jobs[i + 1]
        BY <2>1, <1>t, <1>j
      <3>2. p \in made /\ p \in Promises /\ p # t /\ source[p] \in Promises /\ source[p] # t
        BY <3>1, <1>o, <1>t, <1>m DEF Pending
      <3>3. ASSUME NEW j \in 1 .. Len(jobs'), jobs'[j].next_promise = p PROVE i = j
        <4>1. CASE j \in 1 .. n
          <5>1. j + 1 \in 1 .. Len(jobs) /\ jobs'[j] = jobs[j + 1]
            <6>1. j + 1 \in 1 .. Len(jobs)
              BY <4>1, <1>t
            <6>2. jobs'[j] = jobs[j + 1]
              BY <4>1, <1>j
            <6> QED
              BY <6>1, <6>2
          <5>2. i + 1 = j + 1
            BY <5>1, <3>1, <3>3, <1>o
          <5> QED
            BY <5>2, <4>1, <2>1
        <4>2. CASE j \notin 1 .. n
          <5>1. PICK k \in 1 .. Len(R) : j = n + k
            <6>1. j - n \in 1 .. Len(R) /\ j = n + (j - n)
              BY <4>2, <1>j, <1>t, <1>R
            <6> QED
              BY <6>1
          <5>2. jobs'[j].next_promise = R[k].next_promise
            BY <5>1, <1>j, <1>E
          <5>3. source[p] = t
            BY <5>2, <3>3, <1>w
          <5> QED
            BY <5>3, <3>2
        <4> QED
          BY <4>1, <4>2
      <3>4. promise_state'[p] = promise_state[p] /\ promise_state'[source[p]] = promise_state[source[p]]
            /\ promise_result'[source[p]] = promise_result[source[p]]
        BY <3>2, <1>p
      <3> QED
        BY <3>1, <3>2, <3>3, <3>4, <1>h, <1>o
    <2>2. CASE i \notin 1 .. n
      <3>1. PICK k \in 1 .. Len(R) : i = n + k
        <4>1. i - n \in 1 .. Len(R) /\ i = n + (i - n)
          BY <2>2, <1>j, <1>t, <1>R
        <4> QED
          BY <4>1
      <3> DEFINE p == R[k].next_promise
      <3>2. /\ jobs'[i].next_promise = p /\ jobs'[i].fulfilled = f /\ jobs'[i].result = v
            /\ jobs'[i].on_fulfilled = R[k].on_fulfilled
            /\ jobs'[i].on_rejected = R[k].on_rejected
        BY <3>1, <1>j, <1>E
      <3>3. p \in made /\ p # t /\ promise_state[p] = "pending" /\ source[p] = t /\ p \in Promises
        BY <1>w, <1>m
      <3>4. KindMatches(jobs'[i], kind[p])
        BY <3>2, <1>w DEF KindMatches
      <3>5. ASSUME NEW j \in 1 .. Len(jobs'), jobs'[j].next_promise = p PROVE i = j
        <4>1. CASE j \in 1 .. n
          <5>1. j + 1 \in 1 .. Len(jobs) /\ jobs'[j] = jobs[j + 1]
            <6>1. j + 1 \in 1 .. Len(jobs)
              BY <4>1, <1>t
            <6>2. jobs'[j] = jobs[j + 1]
              BY <4>1, <1>j
            <6> QED
              BY <6>1, <6>2
          <5>2. promise_state[source[p]] # "pending"
            BY <5>1, <3>5, <1>o
          <5> QED
            BY <5>2, <3>3, <1>t DEF Pending
        <4>2. CASE j \notin 1 .. n
          <5>1. PICK l \in 1 .. Len(R) : j = n + l
            <6>1. j - n \in 1 .. Len(R) /\ j = n + (j - n)
              BY <4>2, <1>j, <1>t, <1>R
            <6> QED
              BY <6>1
          <5>2. jobs'[j].next_promise = R[l].next_promise
            BY <5>1, <1>j, <1>E
          <5>3. k = l
            BY <5>2, <3>5, <1>w
          <5> QED
            BY <5>3, <5>1, <3>1
        <4> QED
          BY <4>1, <4>2
      <3> HIDE DEF p
      <3> QED
        BY <3>2, <3>3, <3>4, <3>5, <1>p, <1>q, <1>h, <1>S, <1>t
    <2> QED
      BY <2>1, <2>2
  <1>4. PendingResolved'
    <2> SUFFICES ASSUME NEW p \in made, promise_state'[p] = "pending"
                 PROVE  HasResolver(p)'
      BY <1>h DEF PendingResolved, Pending
    <2>1. p \in Promises /\ p # t /\ Pending(p)
      BY <1>m, <1>p, <1>q, <1>S DEF Pending
    <2>2. HasResolver(p)
      BY <2>1 DEF Inv, PendingResolved
    <2>3. CASE \E i \in 1 .. Len(jobs) : jobs[i].next_promise = p
      <3>1. PICK i \in 1 .. Len(jobs) : jobs[i].next_promise = p
        BY <2>3
      <3>2. i # 1
        BY <3>1, <2>1 DEF t
      <3>3. i - 1 \in 1 .. n /\ i - 1 \in 1 .. Len(jobs') /\ jobs'[i - 1] = jobs[i]
        <4>1. i - 1 \in 1 .. n /\ (i - 1) + 1 = i
          BY <3>2, <1>t
        <4> QED
          BY <4>1, <1>j, <1>R
      <3> QED
        BY <3>1, <3>3 DEF HasResolver
    <2>4. CASE /\ source[p] \in Promises
               /\ \E i \in 1 .. Len(promise_reactions[source[p]]) :
                     promise_reactions[source[p]][i].next_promise = p
      <3>1. CASE source[p] = t
        <4>1. PICK k \in 1 .. Len(R) : R[k].next_promise = p
          BY <2>4, <3>1 DEF R
        <4>2. n + k \in 1 .. Len(jobs') /\ jobs'[n + k].next_promise = p
          <5>1. jobs'[n + k] = E[k] /\ E[k].next_promise = R[k].next_promise
            BY <1>j, <1>E
          <5>2. n + k \in 1 .. Len(jobs')
            BY <1>j, <1>t, <1>R
          <5> QED
            BY <5>1, <5>2, <4>1
        <4> QED
          BY <4>2 DEF HasResolver
      <3>2. CASE source[p] # t
        <4>1. promise_reactions'[source'[p]] = promise_reactions[source[p]]
          BY <3>2, <2>4, <1>p, <1>h
        <4> QED
          BY <4>1, <2>4, <1>h DEF HasResolver
      <3> QED
        BY <3>1, <3>2
    <2> QED
      BY <2>2, <2>3, <2>4 DEF HasResolver
  <1>5. FulfilledNeverPromise'
    <2> SUFFICES ASSUME NEW p \in Promises, promise_state'[p] = "fulfilled"
                 PROVE  promise_result'[p] \in Values
      BY DEF FulfilledNeverPromise
    <2>1. CASE p = t
      BY <2>1, <1>q, <1>S, <1>v DEF Results
    <2>2. CASE p # t
      BY <2>2, <1>p DEF Inv, FulfilledNeverPromise
    <2> QED
      BY <2>1, <2>2
  <1>6. HandlerOwnsFront' /\ UnmadePending'
    <2>1. UnmadePending
      BY DEF Inv
    <2> QED
      BY <2>1, <1>h, <1>p, <1>t DEF HandlerOwnsFront, UnmadePending, Pending
  <1> QED
    BY <1>1, <1>2, <1>3, <1>4, <1>5, <1>6 DEF Inv

\* Cases two and three of settle_promise: the target adopts another promise, as
\* a reaction while that promise is pending, or as a job once it has settled.
LEMMA AdoptKeeps ==
    ASSUME Inv, jobs # <<>>, NEW v \in made, v # jobs[1].next_promise,
           settle_promise(jobs[1].next_promise, TRUE, v, Tail(jobs)),
           Registers(jobs[1].next_promise, "adopt", v),
           UNCHANGED made, phase' = "jobs", returned' = returned
    PROVE  Inv'
  <1> DEFINE t == jobs[1].next_promise
             x == Reaction(Undefined, Undefined, t)
             y == JobOf(x, promise_state[v] = "fulfilled", promise_result[v])
             E == IF Pending(v) THEN <<>> ELSE <<y>>
             n == Len(jobs) - 1
  <1> USE ConstantsDistinct
  <1>t. /\ jobs \in Seq(PromiseReactionJob) /\ Len(jobs) \in Nat /\ n \in Nat
        /\ t \in made /\ t \in Promises /\ Pending(t)
        /\ source[t] \in made /\ ~Pending(source[t])
        /\ \A j \in 2 .. Len(jobs) : jobs[j].next_promise # t
        /\ \A s \in Promises : \A i \in 1 .. Len(promise_reactions[s]) :
              promise_reactions[s][i].next_promise # t
    BY FrontJob
  <1>ty. TypeOK
    BY DEF Inv
  <1>m. made \subseteq Promises /\ v \in Promises
    BY <1>ty DEF TypeOK
  <1>x. /\ x \in PromiseReaction /\ x.next_promise = t
        /\ x.on_fulfilled = Undefined /\ x.on_rejected = Undefined
    BY <1>t, MakesReaction DEF Handlers
  <1> HIDE DEF x
  <1>y. /\ y \in PromiseReactionJob /\ y.next_promise = t
        /\ y.fulfilled = (promise_state[v] = "fulfilled") /\ y.result = promise_result[v]
        /\ y.on_fulfilled = Undefined /\ y.on_rejected = Undefined
    <2>1. promise_result[v] \in Results /\ (promise_state[v] = "fulfilled") \in BOOLEAN
      BY <1>m, <1>ty DEF TypeOK
    <2>2. x.on_fulfilled \in Handlers /\ x.on_rejected \in Handlers /\ x.next_promise \in Promises
      BY <1>x, ReactionType
    <2>3. y \in PromiseReactionJob
      BY <2>1, <2>2 DEF y, JobOf, PromiseReactionJob
    <2> QED
      BY <2>3, <1>x DEF y, JobOf
  <1> HIDE DEF y
  <1>a. Adopts(t, TRUE, v) /\ ~Settles(t, TRUE, v)
    BY <1>t, <1>m DEF Adopts, Settles
  <1>n. /\ promise_state' = promise_state
        /\ promise_result' = promise_result
        /\ promise_reactions' =
             [p \in Promises |-> IF p = v /\ Pending(v) THEN Append(promise_reactions[p], x)
                                 ELSE promise_reactions[p]]
        /\ jobs' = Tail(jobs) \o E
    <2>1. Enqueued(t, TRUE, v) = E
      BY <1>a DEF Enqueued, x, y
    <2>2. promise_state' = promise_state /\ promise_result' = promise_result
      BY <1>a, <1>ty DEF settle_promise, TypeOK
    <2>3. promise_reactions' =
             [p \in Promises |-> IF p = v /\ Pending(v) THEN Append(promise_reactions[p], x)
                                 ELSE promise_reactions[p]]
      BY <1>a DEF settle_promise, x
    <2> QED
      BY <2>1, <2>2, <2>3 DEF settle_promise
  <1>h. /\ source' = [source EXCEPT ![t] = v] /\ kind' = [kind EXCEPT ![t] = "adopt"]
        /\ registered' = [registered EXCEPT ![v] = Append(@, <<t, "adopt">>)]
        /\ made' = made
    BY DEF Registers
  <1>E. E \in Seq(PromiseReactionJob) /\ (Pending(v) => Len(E) = 0)
        /\ (~Pending(v) => Len(E) = 1 /\ E[1] = y)
    BY <1>y
  <1> HIDE DEF E
  <1>j. /\ jobs' \in Seq(PromiseReactionJob)
        /\ Len(jobs') = n + Len(E)
        /\ \A i \in 1 .. n : jobs'[i] = jobs[i + 1]
        /\ \A i \in 1 .. Len(E) : jobs'[n + i] = E[i]
    BY <1>t, <1>E, <1>n, PopAppend
  <1> HIDE DEF t
  <1>p. \A q \in Promises : q # t => source'[q] = source[q] /\ kind'[q] = kind[q]
    BY <1>h, <1>ty DEF TypeOK
  <1>q. source'[t] = v /\ kind'[t] = "adopt"
    BY <1>h, <1>ty, <1>t DEF TypeOK
  <1>L. \A s \in Promises : promise_reactions[s] \in Seq(PromiseReaction) /\ Len(promise_reactions[s]) \in Nat
    BY <1>ty DEF TypeOK
  <1>r. \A s \in Promises : ~(s = v /\ Pending(v)) => promise_reactions'[s] = promise_reactions[s]
    BY <1>n
  <1>g. Pending(v) =>
          /\ promise_reactions'[v] \in Seq(PromiseReaction)
          /\ Len(promise_reactions'[v]) = Len(promise_reactions[v]) + 1
          /\ \A i \in 1 .. Len(promise_reactions[v]) : promise_reactions'[v][i] = promise_reactions[v][i]
          /\ promise_reactions'[v][Len(promise_reactions[v]) + 1] = x
    <2>1. promise_reactions[v] \in Seq(PromiseReaction)
      BY <1>L, <1>m
    <2>2. Pending(v) => promise_reactions'[v] = Append(promise_reactions[v], x)
      BY <1>n, <1>m
    <2> DEFINE r == promise_reactions[v]
    <2>3. /\ Append(r, x) \in Seq(PromiseReaction)
          /\ Len(Append(r, x)) = Len(r) + 1
          /\ \A i \in 1 .. Len(r) : Append(r, x)[i] = r[i]
          /\ Append(r, x)[Len(r) + 1] = x
      <3> HIDE DEF r
      <3>1. r \in Seq(PromiseReaction)
        BY <2>1 DEF r
      <3> QED
        BY <3>1, <1>x, Appended
    <2> QED
      BY <2>2, <2>3
  <1>1. TypeOK'
    <2>1. promise_reactions' \in [Promises -> Seq(PromiseReaction)]
      BY <1>n, <1>ty, <1>x DEF TypeOK
    <2>2. source' \in [Promises -> Promises \cup {NoPromise}] /\ kind' \in [Promises -> Kinds \cup {"none"}]
      BY <1>h, <1>ty, <1>m DEF TypeOK, Kinds
    <2>3. registered' \in [Promises -> Seq(Promises \X Kinds)]
      <3>1. <<t, "adopt">> \in Promises \X Kinds
        BY <1>t DEF Kinds
      <3>2. Append(registered[v], <<t, "adopt">>) \in Seq(Promises \X Kinds)
        BY <3>1, <1>ty, <1>m DEF TypeOK
      <3> QED
        BY <3>2, <1>h, <1>ty DEF TypeOK
    <2> QED
      BY <2>1, <2>2, <2>3, <1>h, <1>j, <1>n, <1>ty DEF TypeOK
  <1>w. \A s \in Promises : \A i \in 1 .. Len(promise_reactions[s]) :
          LET q == promise_reactions[s][i].next_promise IN
          /\ s \in made /\ promise_state[s] = "pending" /\ q # t /\ q \in Promises
          /\ q \in made /\ promise_state[q] = "pending"
          /\ source[q] = s
          /\ KindMatches(promise_reactions[s][i], kind[q])
          /\ \A j \in 1 .. Len(promise_reactions[s]) :
                promise_reactions[s][j].next_promise = q => i = j
    <2> SUFFICES ASSUME NEW s \in Promises, NEW i \in 1 .. Len(promise_reactions[s])
                 PROVE  LET q == promise_reactions[s][i].next_promise IN
                        /\ s \in made /\ promise_state[s] = "pending" /\ q # t /\ q \in Promises
                        /\ q \in made /\ promise_state[q] = "pending"
                        /\ source[q] = s
                        /\ KindMatches(promise_reactions[s][i], kind[q])
                        /\ \A j \in 1 .. Len(promise_reactions[s]) :
                              promise_reactions[s][j].next_promise = q => i = j
      OBVIOUS
    <2>1. promise_reactions[s][i].next_promise # t
      BY <1>t
    <2>2. ReactionsWait
      BY DEF Inv
    <2> QED
      BY <2>1, <2>2, <1>m DEF ReactionsWait, Pending
  <1>2. ReactionsWait'
    <2> SUFFICES ASSUME NEW s \in Promises, NEW i \in 1 .. Len(promise_reactions'[s])
                 PROVE  LET z == promise_reactions'[s][i] IN
                        /\ s \in made' /\ promise_state'[s] = "pending"
                        /\ z.next_promise \in made' /\ promise_state'[z.next_promise] = "pending"
                        /\ source'[z.next_promise] = s
                        /\ KindMatches(z, kind'[z.next_promise])
                        /\ \A j \in 1 .. Len(promise_reactions'[s]) :
                              promise_reactions'[s][j].next_promise = z.next_promise => i = j
      BY DEF ReactionsWait, Pending, KindMatches
    <2>1. CASE ~(s = v /\ Pending(v))
      <3>1. promise_reactions'[s] = promise_reactions[s]
        BY <2>1, <1>r
      <3> QED
        BY <3>1, <1>w, <1>p, <1>n, <1>h
    <2>2. CASE s = v /\ Pending(v)
      <3> DEFINE k == Len(promise_reactions[v])
      <3>0. k \in Nat /\ Len(promise_reactions'[v]) = k + 1
        BY <2>2, <1>g, <1>L, <1>m
      <3>1. CASE i \in 1 .. k
        <4>1. promise_reactions'[v][i] = promise_reactions[v][i]
          BY <3>1, <2>2, <1>g
        <4>2. ASSUME NEW j \in 1 .. Len(promise_reactions'[v]),
                     promise_reactions'[v][j].next_promise = promise_reactions[v][i].next_promise
              PROVE  i = j
          <5>1. CASE j \in 1 .. k
            <6>1. promise_reactions'[v][j] = promise_reactions[v][j]
              BY <5>1, <2>2, <1>g
            <6> QED
              BY <6>1, <4>2, <5>1, <3>1, <1>w, <1>m
          <5>2. CASE j = k + 1
            <6>1. promise_reactions'[v][j] = x
              BY <5>2, <2>2, <1>g
            <6> QED
              BY <6>1, <4>2, <3>1, <1>w, <1>m, <1>x
          <5> QED
            BY <5>1, <5>2, <3>0
        <4> QED
          BY <4>1, <4>2, <3>1, <2>2, <1>w, <1>p, <1>n, <1>h
      <3>2. CASE i = k + 1
        <4>1. promise_reactions'[v][i] = x
          BY <3>2, <2>2, <1>g
        <4>2. ASSUME NEW j \in 1 .. Len(promise_reactions'[v]),
                     promise_reactions'[v][j].next_promise = t
              PROVE  i = j
          <5>1. CASE j \in 1 .. k
            <6>1. promise_reactions'[v][j] = promise_reactions[v][j]
              BY <5>1, <2>2, <1>g
            <6> QED
              BY <6>1, <4>2, <5>1, <1>w, <1>m
          <5> QED
            BY <5>1, <3>0, <3>2
        <4>3. KindMatches(x, "adopt")
          BY <1>x DEF KindMatches
        <4> QED
          BY <4>1, <4>2, <4>3, <2>2, <1>x, <1>q, <1>n, <1>h, <1>t DEF Pending
      <3> QED
        BY <3>0, <3>1, <3>2, <2>2
    <2> QED
      BY <2>1, <2>2
  <1>o. \A i \in 1 .. Len(jobs) :
          LET p == jobs[i].next_promise IN
          /\ p \in made /\ promise_state[p] = "pending"
          /\ source[p] \in made /\ promise_state[source[p]] # "pending"
          /\ jobs[i].fulfilled = (promise_state[source[p]] = "fulfilled")
          /\ jobs[i].result = promise_result[source[p]]
          /\ KindMatches(jobs[i], kind[p])
          /\ \A j \in 1 .. Len(jobs) : jobs[j].next_promise = p => i = j
    BY DEF Inv, JobsCarryOutcomes, Pending
  <1>3. JobsCarryOutcomes'
    <2> SUFFICES ASSUME NEW i \in 1 .. Len(jobs')
                 PROVE  LET p == jobs'[i].next_promise IN
                        /\ p \in made' /\ promise_state'[p] = "pending"
                        /\ source'[p] \in made' /\ promise_state'[source'[p]] # "pending"
                        /\ jobs'[i].fulfilled = (promise_state'[source'[p]] = "fulfilled")
                        /\ jobs'[i].result = promise_result'[source'[p]]
                        /\ KindMatches(jobs'[i], kind'[p])
                        /\ \A j \in 1 .. Len(jobs') : jobs'[j].next_promise = p => i = j
      BY DEF JobsCarryOutcomes, Pending, KindMatches
    <2>0. \A j \in 1 .. n : /\ j + 1 \in 1 .. Len(jobs) /\ jobs'[j] = jobs[j + 1]
                            /\ jobs'[j].next_promise # t
      BY <1>t, <1>j
    <2>1. \A j \in 1 .. Len(jobs') : j \notin 1 .. n => j = n + 1 /\ ~Pending(v) /\ jobs'[j] = y
      <3> SUFFICES ASSUME NEW j \in 1 .. Len(jobs'), j \notin 1 .. n
                   PROVE  j = n + 1 /\ ~Pending(v) /\ jobs'[j] = y
        OBVIOUS
      <3>1. ~Pending(v)
        BY <1>j, <1>t, <1>E
      <3>2. Len(E) = 1 /\ E[1] = y /\ 1 \in 1 .. Len(E)
        <4>1. Len(E) = 1 /\ E[1] = y
          BY <3>1, <1>E
        <4> QED
          BY <4>1
      <3>3. j = n + 1
        BY <3>2, <1>j, <1>t
      <3>4. jobs'[n + 1] = E[1]
        BY <3>2, <1>j
      <3> QED
        BY <3>1, <3>2, <3>3, <3>4
    <2>2. CASE i \in 1 .. n
      <3> DEFINE p == jobs[i + 1].next_promise
      <3>1. i + 1 \in 1 .. Len(jobs) /\ jobs'[i] = jobs[i + 1] /\ p # t
        BY <2>0, <2>2
      <3>2. p \in made /\ p \in Promises
        BY <3>1, <1>o, <1>m
      <3>3. ASSUME NEW j \in 1 .. Len(jobs'), jobs'[j].next_promise = p PROVE i = j
        <4>1. j \in 1 .. n
          BY <2>1, <3>3, <3>1, <1>y
        <4>2. j + 1 \in 1 .. Len(jobs) /\ jobs'[j] = jobs[j + 1]
          BY <4>1, <2>0
        <4>3. i + 1 = j + 1
          BY <4>2, <3>1, <3>3, <1>o
        <4> QED
          BY <4>3, <4>1, <2>2
      <3> QED
        BY <3>1, <3>2, <3>3, <1>p, <1>n, <1>h, <1>o
    <2>3. CASE i \notin 1 .. n
      <3>1. i = n + 1 /\ ~Pending(v) /\ jobs'[i] = y
        BY <2>1, <2>3
      <3>2. ASSUME NEW j \in 1 .. Len(jobs'), jobs'[j].next_promise = t PROVE i = j
        BY <2>0, <2>1, <3>1, <3>2
      <3>3. KindMatches(y, "adopt")
        BY <1>y DEF KindMatches
      <3> QED
        BY <3>1, <3>2, <3>3, <1>y, <1>q, <1>n, <1>h, <1>t DEF Pending
    <2> QED
      BY <2>2, <2>3
  <1>4. PendingResolved'
    <2> SUFFICES ASSUME NEW p \in made, promise_state[p] = "pending"
                 PROVE  HasResolver(p)'
      BY <1>h, <1>n DEF PendingResolved, Pending
    <2>1. CASE p = t /\ Pending(v)
      <3>1. Len(promise_reactions[v]) + 1 \in 1 .. Len(promise_reactions'[v])
        BY <2>1, <1>g, <1>L, <1>m
      <3>2. promise_reactions'[v][Len(promise_reactions[v]) + 1].next_promise = t
        BY <2>1, <1>g, <1>x
      <3> QED
        BY <3>1, <3>2, <2>1, <1>q, <1>m DEF HasResolver
    <2>2. CASE p = t /\ ~Pending(v)
      <3>1. n + 1 \in 1 .. Len(jobs') /\ jobs'[n + 1] = y
        <4>1. Len(E) = 1 /\ E[1] = y /\ 1 \in 1 .. Len(E)
          BY <2>2, <1>E
        <4> QED
          BY <4>1, <1>j, <1>t
      <3> QED
        BY <3>1, <2>2, <1>y DEF HasResolver
    <2>3. CASE p # t
      <3>1. HasResolver(p) /\ p \in Promises /\ source'[p] = source[p]
        BY <2>3, <1>m, <1>p DEF Inv, PendingResolved, Pending
      <3>2. CASE \E i \in 1 .. Len(jobs) : jobs[i].next_promise = p
        <4>1. PICK i \in 1 .. Len(jobs) : jobs[i].next_promise = p
          BY <3>2
        <4>2. i # 1
          BY <4>1, <2>3 DEF t
        <4>3. i - 1 \in 1 .. n /\ (i - 1) + 1 = i
          BY <4>2, <1>t
        <4>4. i - 1 \in 1 .. Len(jobs') /\ jobs'[i - 1] = jobs[i]
          BY <4>3, <1>j, <1>E
        <4> QED
          BY <4>1, <4>4 DEF HasResolver
      <3>3. CASE /\ source[p] \in Promises
                 /\ \E i \in 1 .. Len(promise_reactions[source[p]]) :
                       promise_reactions[source[p]][i].next_promise = p
        <4>1. PICK i \in 1 .. Len(promise_reactions[source[p]]) :
                     promise_reactions[source[p]][i].next_promise = p
          BY <3>3
        <4>2. /\ i \in 1 .. Len(promise_reactions'[source[p]])
              /\ promise_reactions'[source[p]][i] = promise_reactions[source[p]][i]
          <5>1. CASE source[p] = v /\ Pending(v)
            BY <5>1, <1>g, <1>L, <1>m
          <5>2. CASE ~(source[p] = v /\ Pending(v))
            BY <5>2, <3>3, <1>r
          <5> QED
            BY <5>1, <5>2
        <4> QED
          BY <4>1, <4>2, <3>1, <3>3 DEF HasResolver
      <3> QED
        BY <3>1, <3>2, <3>3 DEF HasResolver
    <2> QED
      BY <2>1, <2>2, <2>3
  <1>5. FulfilledNeverPromise' /\ HandlerOwnsFront' /\ UnmadePending'
    BY <1>n, <1>h DEF Inv, FulfilledNeverPromise, HandlerOwnsFront, UnmadePending, Pending
  <1> QED
    BY <1>1, <1>2, <1>3, <1>4, <1>5 DEF Inv

\* promise_then and promise_catch: a reaction on s, for a promise made for it.
LEMMA ReactKeeps ==
    ASSUME Inv, NEW s \in made, NEW p \in Promises \ made,
           NEW x \in PromiseReaction, x.next_promise = p,
           NEW k \in {"then", "catch"}, KindMatches(x, k),
           React(s, x, k)
    PROVE  Inv'
  <1> DEFINE y == JobOf(x, promise_state[s] = "fulfilled", promise_result[s])
             r == promise_reactions[s]
  <1> USE ConstantsDistinct
  <1>ty. TypeOK
    BY DEF Inv
  <1>m. made \subseteq Promises /\ s \in Promises /\ s # p /\ made' = made \cup {p} /\ p \in made'
    BY <1>ty DEF TypeOK, React
  <1>y. /\ y \in PromiseReactionJob /\ y.next_promise = p
        /\ y.fulfilled = (promise_state[s] = "fulfilled") /\ y.result = promise_result[s]
        /\ y.on_fulfilled = x.on_fulfilled /\ y.on_rejected = x.on_rejected
    <2>1. promise_result[s] \in Results /\ (promise_state[s] = "fulfilled") \in BOOLEAN
      BY <1>m, <1>ty DEF TypeOK
    <2>2. y \in PromiseReactionJob
      BY <2>1, ReactionType DEF JobOf, PromiseReactionJob
    <2> QED
      BY <2>2 DEF JobOf
  <1>n. /\ promise_state' = promise_state /\ promise_result' = promise_result
        /\ phase' = phase /\ returned' = returned
        /\ source' = [source EXCEPT ![p] = s] /\ kind' = [kind EXCEPT ![p] = k]
        /\ registered' = [registered EXCEPT ![s] = Append(@, <<p, k>>)]
        /\ Pending(s) => jobs' = jobs /\ promise_reactions' = [promise_reactions EXCEPT ![s] = Append(@, x)]
        /\ ~Pending(s) => jobs' = Append(jobs, y) /\ promise_reactions' = promise_reactions
    BY DEF React, Registers
  <1> HIDE DEF y
  <1>L. \A q \in Promises : promise_reactions[q] \in Seq(PromiseReaction) /\ Len(promise_reactions[q]) \in Nat
    BY <1>ty DEF TypeOK
  <1>g. Pending(s) =>
          /\ Len(promise_reactions'[s]) = Len(r) + 1
          /\ \A i \in 1 .. Len(r) : promise_reactions'[s][i] = r[i]
          /\ promise_reactions'[s][Len(r) + 1] = x
    <2>1. r \in Seq(PromiseReaction)
      BY <1>L, <1>m
    <2>2. Pending(s) => promise_reactions'[s] = Append(r, x)
      BY <1>n, <1>m, <1>ty DEF TypeOK
    <2> HIDE DEF r
    <2> QED
      BY <2>1, <2>2, Appended
  <1> HIDE DEF r
  <1>r. \A q \in Promises : ~(q = s /\ Pending(s)) => promise_reactions'[q] = promise_reactions[q]
    BY <1>n, <1>ty DEF TypeOK
  <1>J. jobs \in Seq(PromiseReactionJob) /\ Len(jobs) \in Nat
    BY <1>ty DEF TypeOK
  <1>j. ~Pending(s) =>
          /\ jobs' \in Seq(PromiseReactionJob)
          /\ Len(jobs') = Len(jobs) + 1
          /\ \A i \in 1 .. Len(jobs) : jobs'[i] = jobs[i]
          /\ jobs'[Len(jobs) + 1] = y
    <2>1. /\ Append(jobs, y) \in Seq(PromiseReactionJob)
          /\ Len(Append(jobs, y)) = Len(jobs) + 1
          /\ \A i \in 1 .. Len(jobs) : Append(jobs, y)[i] = jobs[i]
          /\ Append(jobs, y)[Len(jobs) + 1] = y
      BY <1>J, <1>y, Appended
    <2> QED
      BY <2>1, <1>n
  <1>p. \A q \in Promises : q # p => source'[q] = source[q] /\ kind'[q] = kind[q]
    BY <1>n, <1>ty DEF TypeOK
  <1>q. source'[p] = s /\ kind'[p] = k
    BY <1>n, <1>ty DEF TypeOK
  <1>P. promise_state[p] = "pending"
    BY DEF Inv, UnmadePending, Pending
  <1>w. \A z \in Promises : \A i \in 1 .. Len(promise_reactions[z]) :
          LET q == promise_reactions[z][i].next_promise IN
          /\ z \in made /\ promise_state[z] = "pending" /\ q # p /\ q \in Promises
          /\ q \in made /\ promise_state[q] = "pending"
          /\ source[q] = z
          /\ KindMatches(promise_reactions[z][i], kind[q])
          /\ \A j \in 1 .. Len(promise_reactions[z]) :
                promise_reactions[z][j].next_promise = q => i = j
    <2> SUFFICES ASSUME NEW z \in Promises, NEW i \in 1 .. Len(promise_reactions[z])
                 PROVE  LET q == promise_reactions[z][i].next_promise IN
                        /\ z \in made /\ promise_state[z] = "pending" /\ q # p /\ q \in Promises
                        /\ q \in made /\ promise_state[q] = "pending"
                        /\ source[q] = z
                        /\ KindMatches(promise_reactions[z][i], kind[q])
                        /\ \A j \in 1 .. Len(promise_reactions[z]) :
                              promise_reactions[z][j].next_promise = q => i = j
      OBVIOUS
    <2>1. ReactionsWait
      BY DEF Inv
    <2> QED
      BY <2>1, <1>m DEF ReactionsWait, Pending
  <1>o. \A i \in 1 .. Len(jobs) :
          LET q == jobs[i].next_promise IN
          /\ q \in made /\ q \in Promises /\ q # p /\ promise_state[q] = "pending"
          /\ source[q] \in made /\ promise_state[source[q]] # "pending"
          /\ jobs[i].fulfilled = (promise_state[source[q]] = "fulfilled")
          /\ jobs[i].result = promise_result[source[q]]
          /\ KindMatches(jobs[i], kind[q])
          /\ \A j \in 1 .. Len(jobs) : jobs[j].next_promise = q => i = j
    BY <1>m DEF Inv, JobsCarryOutcomes, Pending
  <1>1. TypeOK'
    <2>1. promise_reactions' \in [Promises -> Seq(PromiseReaction)]
      <3>1. CASE Pending(s)
        <4>1. Append(promise_reactions[s], x) \in Seq(PromiseReaction)
          BY <1>L, <1>m
        <4>2. promise_reactions' = [promise_reactions EXCEPT ![s] = Append(promise_reactions[s], x)]
          BY <3>1, <1>n
        <4>3. promise_reactions \in [Promises -> Seq(PromiseReaction)]
          BY <1>ty DEF TypeOK
        <4> QED
          BY <4>1, <4>2, <4>3
      <3> QED
        BY <3>1, <1>n, <1>ty DEF TypeOK
    <2>2. source' \in [Promises -> Promises \cup {NoPromise}] /\ kind' \in [Promises -> Kinds \cup {"none"}]
      BY <1>n, <1>ty, <1>m DEF TypeOK, Kinds
    <2>3. registered' \in [Promises -> Seq(Promises \X Kinds)]
      <3>1. <<p, k>> \in Promises \X Kinds
        BY DEF Kinds
      <3>2. Append(registered[s], <<p, k>>) \in Seq(Promises \X Kinds)
        BY <3>1, <1>ty, <1>m DEF TypeOK
      <3> QED
        BY <3>2, <1>n, <1>ty DEF TypeOK
    <2>4. jobs' \in Seq(PromiseReactionJob)
      BY <1>n, <1>j, <1>J
    <2> QED
      BY <2>1, <2>2, <2>3, <2>4, <1>n, <1>m, <1>ty DEF TypeOK
  <1>2. ReactionsWait'
    <2> SUFFICES ASSUME NEW z \in Promises, NEW i \in 1 .. Len(promise_reactions'[z])
                 PROVE  LET e == promise_reactions'[z][i] IN
                        /\ z \in made' /\ promise_state'[z] = "pending"
                        /\ e.next_promise \in made' /\ promise_state'[e.next_promise] = "pending"
                        /\ source'[e.next_promise] = z
                        /\ KindMatches(e, kind'[e.next_promise])
                        /\ \A j \in 1 .. Len(promise_reactions'[z]) :
                              promise_reactions'[z][j].next_promise = e.next_promise => i = j
      BY DEF ReactionsWait, Pending, KindMatches
    <2>1. CASE ~(z = s /\ Pending(s))
      <3>1. promise_reactions'[z] = promise_reactions[z]
        BY <2>1, <1>r
      <3> QED
        BY <3>1, <1>w, <1>p, <1>n, <1>m
    <2>2. CASE z = s /\ Pending(s)
      <3> DEFINE l == Len(r)
      <3>0. l \in Nat /\ Len(promise_reactions'[s]) = l + 1
        BY <2>2, <1>g, <1>L, <1>m DEF r
      <3>1. CASE i \in 1 .. l
        <4>1. promise_reactions'[s][i] = promise_reactions[s][i] /\ i \in 1 .. Len(promise_reactions[s])
          BY <3>1, <2>2, <1>g DEF r
        <4>2. ASSUME NEW j \in 1 .. Len(promise_reactions'[s]),
                     promise_reactions'[s][j].next_promise = promise_reactions[s][i].next_promise
              PROVE  i = j
          <5>1. CASE j \in 1 .. l
            <6>1. promise_reactions'[s][j] = promise_reactions[s][j] /\ j \in 1 .. Len(promise_reactions[s])
              BY <5>1, <2>2, <1>g DEF r
            <6> QED
              BY <6>1, <4>1, <4>2, <1>w, <1>m
          <5>2. CASE j = l + 1
            <6>1. promise_reactions'[s][j] = x
              BY <5>2, <2>2, <1>g
            <6> QED
              BY <6>1, <4>1, <4>2, <1>w, <1>m
          <5> QED
            BY <5>1, <5>2, <3>0
        <4> QED
          BY <4>1, <4>2, <2>2, <1>w, <1>p, <1>n, <1>m
      <3>2. CASE i = l + 1
        <4>1. promise_reactions'[s][i] = x
          BY <3>2, <2>2, <1>g
        <4>2. ASSUME NEW j \in 1 .. Len(promise_reactions'[s]),
                     promise_reactions'[s][j].next_promise = p
              PROVE  i = j
          <5>1. CASE j \in 1 .. l
            <6>1. promise_reactions'[s][j] = promise_reactions[s][j] /\ j \in 1 .. Len(promise_reactions[s])
              BY <5>1, <2>2, <1>g DEF r
            <6> QED
              BY <6>1, <4>2, <1>w, <1>m
          <5> QED
            BY <5>1, <3>0, <3>2
        <4> QED
          BY <4>1, <4>2, <2>2, <1>q, <1>n, <1>m, <1>P DEF Pending
      <3> QED
        BY <3>0, <3>1, <3>2, <2>2
    <2> QED
      BY <2>1, <2>2
  <1>3. JobsCarryOutcomes'
    <2> SUFFICES ASSUME NEW i \in 1 .. Len(jobs')
                 PROVE  LET q == jobs'[i].next_promise IN
                        /\ q \in made' /\ promise_state'[q] = "pending"
                        /\ source'[q] \in made' /\ promise_state'[source'[q]] # "pending"
                        /\ jobs'[i].fulfilled = (promise_state'[source'[q]] = "fulfilled")
                        /\ jobs'[i].result = promise_result'[source'[q]]
                        /\ KindMatches(jobs'[i], kind'[q])
                        /\ \A j \in 1 .. Len(jobs') : jobs'[j].next_promise = q => i = j
      BY DEF JobsCarryOutcomes, Pending, KindMatches
    <2>1. CASE Pending(s)
      BY <2>1, <1>n, <1>o, <1>p, <1>m
    <2>2. CASE ~Pending(s)
      <3>0. \A j \in 1 .. Len(jobs') : \/ j \in 1 .. Len(jobs) /\ jobs'[j] = jobs[j]
                                       \/ j = Len(jobs) + 1 /\ jobs'[j] = y
        BY <2>2, <1>j, <1>J
      <3>1. CASE i \in 1 .. Len(jobs) /\ jobs'[i] = jobs[i]
        <4>1. ASSUME NEW j \in 1 .. Len(jobs'), jobs'[j].next_promise = jobs[i].next_promise
              PROVE  i = j
          BY <4>1, <3>0, <3>1, <1>o, <1>y
        <4> QED
          BY <3>1, <4>1, <1>n, <1>o, <1>p, <1>m
      <3>2. CASE i = Len(jobs) + 1 /\ jobs'[i] = y
        <4>1. ASSUME NEW j \in 1 .. Len(jobs'), jobs'[j].next_promise = p
              PROVE  i = j
          BY <4>1, <3>0, <3>2, <1>o
        <4>2. KindMatches(y, k)
          BY <1>y DEF KindMatches
        <4> QED
          BY <3>2, <4>1, <4>2, <2>2, <1>y, <1>q, <1>n, <1>m, <1>P DEF Pending
      <3> QED
        BY <3>0, <3>1, <3>2
    <2> QED
      BY <2>1, <2>2
  <1>4. PendingResolved'
    <2> SUFFICES ASSUME NEW z \in made', promise_state[z] = "pending"
                 PROVE  HasResolver(z)'
      BY <1>n DEF PendingResolved, Pending
    <2>1. CASE z = p /\ Pending(s)
      <3>1. Len(r) + 1 \in 1 .. Len(promise_reactions'[s])
        BY <2>1, <1>g, <1>L, <1>m DEF r
      <3>2. promise_reactions'[s][Len(r) + 1].next_promise = p
        BY <2>1, <1>g
      <3> QED
        BY <3>1, <3>2, <2>1, <1>q, <1>m DEF HasResolver
    <2>2. CASE z = p /\ ~Pending(s)
      <3>1. Len(jobs) + 1 \in 1 .. Len(jobs') /\ jobs'[Len(jobs) + 1] = y
        BY <2>2, <1>j, <1>J
      <3> QED
        BY <3>1, <2>2, <1>y DEF HasResolver
    <2>3. CASE z # p
      <3>1. HasResolver(z) /\ z \in Promises /\ source'[z] = source[z]
        BY <2>3, <1>m, <1>p DEF Inv, PendingResolved, Pending
      <3>2. CASE \E i \in 1 .. Len(jobs) : jobs[i].next_promise = z
        <4>1. PICK i \in 1 .. Len(jobs) : jobs[i].next_promise = z
          BY <3>2
        <4>2. i \in 1 .. Len(jobs') /\ jobs'[i] = jobs[i]
          BY <1>n, <1>j, <1>J
        <4> QED
          BY <4>1, <4>2 DEF HasResolver
      <3>3. CASE /\ source[z] \in Promises
                 /\ \E i \in 1 .. Len(promise_reactions[source[z]]) :
                       promise_reactions[source[z]][i].next_promise = z
        <4>1. PICK i \in 1 .. Len(promise_reactions[source[z]]) :
                     promise_reactions[source[z]][i].next_promise = z
          BY <3>3
        <4>2. /\ i \in 1 .. Len(promise_reactions'[source[z]])
              /\ promise_reactions'[source[z]][i] = promise_reactions[source[z]][i]
          <5>1. CASE source[z] = s /\ Pending(s)
            BY <5>1, <1>g, <1>L, <1>m DEF r
          <5>2. CASE ~(source[z] = s /\ Pending(s))
            BY <5>2, <3>3, <1>r
          <5> QED
            BY <5>1, <5>2
        <4> QED
          BY <4>1, <4>2, <3>1, <3>3 DEF HasResolver
      <3> QED
        BY <3>1, <3>2, <3>3 DEF HasResolver
    <2> QED
      BY <2>1, <2>2, <2>3
  <1>5. FulfilledNeverPromise' /\ UnmadePending'
    BY <1>n, <1>m DEF Inv, FulfilledNeverPromise, UnmadePending, Pending
  <1>6. HandlerOwnsFront'
    <2> SUFFICES ASSUME phase = "handler" PROVE jobs' # <<>> /\ handler' # Undefined
      BY <1>n DEF HandlerOwnsFront
    <2>1. jobs # <<>> /\ handler # Undefined
      BY DEF Inv, HandlerOwnsFront
    <2>2. Len(jobs) >= 1 /\ 1 \in 1 .. Len(jobs)
      BY <2>1, <1>J
    <2>3. jobs'[1] = jobs[1] /\ Len(jobs') >= 1
      BY <2>2, <1>n, <1>j, <1>J
    <2>4. jobs' # <<>>
      BY <2>3
    <2> QED
      BY <2>1, <2>3, <2>4 DEF handler
  <1> QED
    BY <1>1, <1>2, <1>3, <1>4, <1>5, <1>6 DEF Inv

\* promise_resolve and promise_reject: a promise settled from the start.
LEMMA MakeKeeps ==
    ASSUME Inv, NEW p \in Promises \ made, NEW f \in BOOLEAN, NEW v \in Values \cup made,
           ~(f /\ v \in Promises),
           settle_promise(p, f, v, jobs), made' = made \cup {p},
           UNCHANGED <<phase, returned>>, UNCHANGED history
    PROVE  /\ Inv'
           /\ promise_state' = [promise_state EXCEPT ![p] = StateName(f)]
           /\ promise_result' = [promise_result EXCEPT ![p] = v]
  <1> USE ConstantsDistinct
  <1>ty. TypeOK
    BY DEF Inv
  <1>P. Pending(p)
    BY DEF Inv, UnmadePending
  <1>R. promise_reactions[p] = <<>>
    <2>1. promise_reactions[p] \in Seq(PromiseReaction) /\ Len(promise_reactions[p]) \in Nat
      BY <1>ty DEF TypeOK
    <2>2. ~(1 \in 1 .. Len(promise_reactions[p]))
      BY DEF Inv, ReactionsWait
    <2> QED
      BY <2>1, <2>2
  <1>s. Settles(p, f, v) /\ ~Adopts(p, f, v)
    BY <1>P DEF Settles, Adopts
  <1>e. Enqueued(p, f, v) = <<>>
    BY <1>s, <1>R DEF Enqueued
  <1>n. /\ promise_state' = [promise_state EXCEPT ![p] = StateName(f)]
        /\ promise_result' = [promise_result EXCEPT ![p] = v]
        /\ promise_reactions' = promise_reactions
        /\ jobs' = jobs /\ phase' = phase /\ returned' = returned
        /\ source' = source /\ kind' = kind /\ registered' = registered
    <2>1. jobs' = jobs
      BY <1>e, <1>ty DEF settle_promise, TypeOK
    <2>2. promise_reactions' = promise_reactions
      BY <1>s, <1>R, <1>ty DEF settle_promise, TypeOK
    <2> QED
      BY <2>1, <2>2, <1>s DEF settle_promise, history
  <1>S. StateName(f) \in {"fulfilled", "rejected"} /\ (f <=> StateName(f) = "fulfilled")
    BY DEF StateName
  <1>m. made \subseteq Promises /\ v \in Results
    BY <1>ty DEF TypeOK, Results
  <1>p. \A q \in Promises : q # p => promise_state'[q] = promise_state[q] /\ promise_result'[q] = promise_result[q]
    BY <1>n, <1>ty DEF TypeOK
  <1>q. promise_state'[p] = StateName(f) /\ promise_result'[p] = v
    BY <1>n, <1>ty DEF TypeOK
  <1>1. TypeOK'
    BY <1>n, <1>S, <1>m, <1>ty DEF TypeOK
  <1>2. ReactionsWait'
    <2>1. ReactionsWait
      BY DEF Inv
    <2> QED
      BY <2>1, <1>n, <1>p, <1>m DEF ReactionsWait, Pending, KindMatches
  <1>3. JobsCarryOutcomes'
    <2>1. JobsCarryOutcomes
      BY DEF Inv
    <2> QED
      BY <2>1, <1>n, <1>p, <1>m DEF JobsCarryOutcomes, Pending, KindMatches
  <1>4. PendingResolved'
    <2>1. PendingResolved
      BY DEF Inv
    <2> SUFFICES ASSUME NEW z \in made', promise_state'[z] = "pending" PROVE HasResolver(z)'
      BY DEF PendingResolved, Pending
    <2>2. z # p /\ z \in made /\ Pending(z)
      BY <1>q, <1>S, <1>p, <1>m DEF Pending
    <2> QED
      BY <2>1, <2>2, <1>n DEF PendingResolved, HasResolver
  <1>5. FulfilledNeverPromise' /\ UnmadePending'
    <2>1. FulfilledNeverPromise /\ UnmadePending
      BY DEF Inv
    <2>2. f => v \in Values
      BY <1>m
    <2> QED
      BY <2>1, <2>2, <1>p, <1>q, <1>S DEF FulfilledNeverPromise, UnmadePending, Pending
  <1>6. HandlerOwnsFront'
    BY <1>n DEF Inv, HandlerOwnsFront, handler
  <1> QED
    BY <1>1, <1>2, <1>3, <1>4, <1>5, <1>6, <1>n DEF Inv

-----------------------------------------------------------------------------
\* An API call that allocates uses a promise not made before.
LEMMA CallMakes ==
    ASSUME ApiCall, made \subseteq Promises
    PROVE  \E p \in Promises \ made :
           \/ \E v \in Values : promise_resolve(p, v)
           \/ \E v \in Values \cup made : promise_reject(p, v)
           \/ \E s \in made, f \in Functions : promise_then(s, f, p)
           \/ \E s \in made, f \in Functions : promise_catch(s, f, p)
  <1>1. \E p \in Promises : p \notin made
    BY DEF ApiCall
  <1>2. make_promise \in Promises \ made
    BY <1>1 DEF make_promise
  <1>3. LET p == make_promise IN
           \/ \E v \in Values : promise_resolve(p, v)
           \/ \E v \in Values \cup made : promise_reject(p, v)
           \/ \E s \in made, f \in Functions : promise_then(s, f, p)
           \/ \E s \in made, f \in Functions : promise_catch(s, f, p)
    BY DEF ApiCall
  <1> HIDE DEF make_promise
  <1> QED
    BY <1>2, <1>3

\* Every step keeps the invariant.
LEMMA ApiKeeps == Inv /\ ApiCall => Inv'
  <1> SUFFICES ASSUME Inv, ApiCall PROVE Inv'
    OBVIOUS
  <1> USE ConstantsDistinct
  <1>1. PICK p \in Promises \ made :
           \/ \E v \in Values : promise_resolve(p, v)
           \/ \E v \in Values \cup made : promise_reject(p, v)
           \/ \E s \in made, f \in Functions : promise_then(s, f, p)
           \/ \E s \in made, f \in Functions : promise_catch(s, f, p)
    BY CallMakes DEF Inv, TypeOK
  <1>2. ASSUME NEW v \in Values, promise_resolve(p, v) PROVE Inv'
    <2>1. v \notin Promises
      OBVIOUS
    <2> QED
      BY <1>2, <2>1, MakeKeeps DEF promise_resolve
  <1>3. ASSUME NEW v \in Values \cup made, promise_reject(p, v) PROVE Inv'
    BY <1>3, MakeKeeps DEF promise_reject
  <1>4. ASSUME NEW s \in made, NEW f \in Functions, promise_then(s, f, p) PROVE Inv'
    <2> DEFINE x == Reaction(f, Undefined, p)
    <2>1. /\ x \in PromiseReaction /\ x.next_promise = p
          /\ x.on_fulfilled = f /\ x.on_rejected = Undefined
      BY MakesReaction DEF Handlers
    <2>2. React(s, x, "then")
      BY <1>4 DEF promise_then
    <2> HIDE DEF x
    <2>3. KindMatches(x, "then")
      BY <2>1 DEF KindMatches
    <2> QED
      BY <2>1, <2>2, <2>3, ReactKeeps
  <1>5. ASSUME NEW s \in made, NEW f \in Functions, promise_catch(s, f, p) PROVE Inv'
    <2> DEFINE x == Reaction(Undefined, f, p)
    <2>1. /\ x \in PromiseReaction /\ x.next_promise = p
          /\ x.on_fulfilled = Undefined /\ x.on_rejected = f
      BY MakesReaction DEF Handlers
    <2>2. React(s, x, "catch")
      BY <1>5 DEF promise_catch
    <2> HIDE DEF x
    <2>3. KindMatches(x, "catch")
      BY <2>1 DEF KindMatches
    <2> QED
      BY <2>1, <2>2, <2>3, ReactKeeps
  <1> QED
    BY <1>1, <1>2, <1>3, <1>4, <1>5

\* A job without a handler has an outcome that its promise takes as it is.
LEMMA ForwardedOutcome ==
    ASSUME Inv, jobs # <<>>
    PROVE  LET f == jobs[1].fulfilled
               v == jobs[1].result
           IN  f \in BOOLEAN /\ v \in Results /\ ~(f /\ v \in Promises)
  <1> USE ConstantsDistinct
  <1>1. 1 \in 1 .. Len(jobs) /\ jobs[1] \in PromiseReactionJob
    BY FrontJob
  <1>2. jobs[1].fulfilled \in BOOLEAN /\ jobs[1].result \in Results
    BY <1>1, JobType
  <1>3. LET s == source[jobs[1].next_promise] IN
        /\ s \in made /\ jobs[1].fulfilled = (promise_state[s] = "fulfilled")
        /\ jobs[1].result = promise_result[s]
    BY <1>1 DEF Inv, JobsCarryOutcomes
  <1>4. jobs[1].fulfilled => jobs[1].result \in Values
    BY <1>3 DEF Inv, FulfilledNeverPromise, TypeOK
  <1> QED
    BY <1>2, <1>4

\* A step that only moves control keeps what it does not touch.
LEMMA ControlKeeps ==
    ASSUME Inv, UNCHANGED <<made, promise_state, promise_result, promise_reactions, jobs>>,
           UNCHANGED history, phase' \in {"host", "jobs", "handler"},
           returned' \in {"none", "ok", "error"},
           phase' = "handler" => jobs # <<>> /\ handler # Undefined
    PROVE  Inv'
  <1> USE DEF history
  <1>1. TypeOK'
    BY DEF Inv, TypeOK
  <1>2. ReactionsWait' /\ JobsCarryOutcomes'
    BY DEF Inv, ReactionsWait, JobsCarryOutcomes, Pending, KindMatches
  <1>3. PendingResolved'
    BY DEF Inv, PendingResolved, HasResolver, Pending
  <1>4. FulfilledNeverPromise' /\ HandlerOwnsFront' /\ UnmadePending'
    BY DEF Inv, FulfilledNeverPromise, HandlerOwnsFront, UnmadePending, Pending, handler
  <1> QED
    BY <1>1, <1>2, <1>3, <1>4 DEF Inv

LEMMA ForwardKeeps == Inv /\ Propagate => Inv'
  <1> SUFFICES ASSUME Inv, Propagate PROVE Inv'
    OBVIOUS
  <1> DEFINE t == jobs[1].next_promise
             f == jobs[1].fulfilled
             v == jobs[1].result
  <1>1. jobs # <<>> /\ settle_promise(t, f, v, Tail(jobs)) /\ phase' = "jobs" /\ UNCHANGED <<made, returned>>
    BY DEF Propagate
  <1>2. f \in BOOLEAN /\ v \in Results /\ ~(f /\ v \in Promises)
    BY <1>1, ForwardedOutcome
  <1>3. UNCHANGED history
    BY <1>2 DEF Propagate, RegistersAdoption, Adopts
  <1> HIDE DEF f, v
  <1> QED
    BY <1>1, <1>2, <1>3, SettleKeeps

LEMMA ThrowsKeeps == ASSUME Inv, NEW v \in Values \cup made, HandlerThrows(v) PROVE Inv'
  <1>1. jobs # <<>>
    BY DEF HandlerThrows, Inv, HandlerOwnsFront
  <1>2. v \in Results
    BY DEF Inv, TypeOK, Results
  <1> QED
    BY <1>1, <1>2, SettleKeeps DEF HandlerThrows

LEMMA ReturnsKeeps == ASSUME Inv, NEW v \in Values \cup made, HandlerReturns(v) PROVE Inv'
  <1> USE ConstantsDistinct
  <1>1. jobs # <<>>
    BY DEF HandlerReturns, Inv, HandlerOwnsFront
  <1>2. v \in Results /\ made \subseteq Promises
    BY DEF Inv, TypeOK, Results
  <1>3. Pending(jobs[1].next_promise)
    BY <1>1, FrontJob
  <1>4. CASE v \in Promises
    <2>1. v \in made
      BY <1>4
    <2>2. Registers(jobs[1].next_promise, "adopt", v)
      BY <1>3, <1>4 DEF HandlerReturns, RegistersAdoption, Adopts
    <2> QED
      BY <1>1, <2>1, <2>2, AdoptKeeps DEF HandlerReturns
  <1>5. CASE v \notin Promises
    <2>1. UNCHANGED history
      BY <1>5 DEF HandlerReturns, RegistersAdoption, Adopts
    <2> QED
      BY <1>1, <1>2, <1>5, <2>1, SettleKeeps DEF HandlerReturns
  <1> QED
    BY <1>4, <1>5

LEMMA NextKeeps == Inv /\ [Next]_vars => Inv'
  <1> SUFFICES ASSUME Inv, [Next]_vars PROVE Inv'
    OBVIOUS
  <1>t. phase \in {"host", "jobs", "handler"} /\ returned \in {"none", "ok", "error"}
    BY DEF Inv, TypeOK
  <1>1. CASE ApiCall
    BY <1>1, ApiKeeps
  <1>2. CASE RunJobs
    BY <1>2, <1>t, ControlKeeps DEF RunJobs
  <1>3. CASE Drained
    BY <1>3, <1>t, ControlKeeps DEF Drained
  <1>4. CASE Propagate
    BY <1>4, ForwardKeeps
  <1>5. CASE CallHandler
    BY <1>5, <1>t, ControlKeeps DEF CallHandler
  <1>6. CASE \E v \in Values \cup made : HandlerThrows(v)
    BY <1>6, ThrowsKeeps
  <1>7. CASE \E v \in Values \cup made : HandlerReturns(v)
    BY <1>7, ReturnsKeeps
  <1>8. CASE HandlerFails
    BY <1>8, <1>t, ControlKeeps DEF HandlerFails
  <1>9. CASE UNCHANGED vars
    <2>1. HandlerOwnsFront
      BY DEF Inv
    <2> QED
      BY <1>9, <2>1, <1>t, ControlKeeps DEF vars, history, HandlerOwnsFront
  <1> QED
    BY <1>1, <1>2, <1>3, <1>4, <1>5, <1>6, <1>7, <1>8, <1>9 DEF Next, RunStep

LEMMA Invariance == Spec => []Inv
  BY InitInv, NextKeeps, PTL DEF Spec

\* Every variable keeps its type, whatever the script, the host and the handlers do.
THEOREM TypesHold == Spec => []TypeOK
  <1>1. Inv => TypeOK
    BY DEF Inv
  <1> QED
    BY <1>1, Invariance, PTL

\* Every pending promise has exactly one resolver, so that settle_promise never
\* drops an outcome for a settled target and run_jobs never abandons a promise.
THEOREM OneResolver == Spec => []SingleResolver
  <1>1. Inv => SingleResolver
    BY DEF Inv, SingleResolver, PendingResolved
  <1> QED
    BY <1>1, Invariance, PTL

\* When run_jobs has drained the queue, a promise that is still pending waits
\* for another pending promise: no promise waits for a settled one.
OnlyCyclesStayPending ==
    jobs = <<>> => \A p \in made : Pending(p) => source[p] \in made /\ Pending(source[p])

\* With an empty queue only promises that wait for each other are pending.
THEOREM DrainedSettles == Spec => []OnlyCyclesStayPending
  <1>1. ASSUME Inv PROVE OnlyCyclesStayPending
    <2> SUFFICES ASSUME jobs = <<>>, NEW p \in made, Pending(p)
                 PROVE  source[p] \in made /\ Pending(source[p])
      BY DEF OnlyCyclesStayPending
    <2>1. HasResolver(p)
      BY <1>1 DEF Inv, PendingResolved
    <2>2. \A i \in 1 .. Len(jobs) : FALSE
      OBVIOUS
    <2>3. PICK i \in 1 .. Len(promise_reactions[source[p]]) :
             source[p] \in Promises /\ promise_reactions[source[p]][i].next_promise = p
      BY <2>1, <2>2 DEF HasResolver
    <2> QED
      BY <1>1, <2>3 DEF Inv, ReactionsWait
  <1> QED
    BY <1>1, Invariance, PTL

-----------------------------------------------------------------------------
(* The refinement: every step of the queue is a step of PromiseChain. *)

\* What settle_promise does to the state and result of a pending target.
LEMMA SettledFields ==
    ASSUME TypeOK, NEW t \in Promises, Pending(t), NEW f \in BOOLEAN, NEW v, NEW q,
           settle_promise(t, f, v, q)
    PROVE  /\ ~(f /\ v \in Promises) =>
                 /\ promise_state' = [promise_state EXCEPT ![t] = StateName(f)]
                 /\ promise_result' = [promise_result EXCEPT ![t] = v]
           /\ f /\ v \in Promises =>
                 promise_state' = promise_state /\ promise_result' = promise_result
  <1>1. CASE f /\ v \in Promises
    <2>1. ~Settles(t, f, v)
      BY <1>1 DEF Settles
    <2>2. /\ promise_state' = [promise_state EXCEPT ![t] = promise_state[t]]
          /\ promise_result' = [promise_result EXCEPT ![t] = promise_result[t]]
      BY <2>1 DEF settle_promise
    <2>3. promise_state' = promise_state /\ promise_result' = promise_result
      BY <2>2 DEF TypeOK
    <2> QED
      BY <1>1, <2>3
  <1>2. CASE ~(f /\ v \in Promises)
    <2>1. Settles(t, f, v)
      BY <1>2 DEF Settles
    <2>2. /\ promise_state' = [promise_state EXCEPT ![t] = StateName(f)]
          /\ promise_result' = [promise_result EXCEPT ![t] = v]
      BY <2>1 DEF settle_promise
    <2> QED
      BY <1>2, <2>2
  <1> QED
    BY <1>1, <1>2

\* Settling a made or a new promise, seen in the abstract state.
LEMMA StatusSettles ==
    ASSUME TypeOK, NEW t \in Promises, NEW f \in BOOLEAN,
           promise_state' = [promise_state EXCEPT ![t] = StateName(f)],
           made' = made \cup {t}
    PROVE  status' = [status EXCEPT ![t] = StateName(f)]
  BY DEF status, TypeOK

\* The front job's promise is ready: the promise it waits for has settled, and
\* the handler is the one for that outcome.
LEMMA FrontReady ==
    ASSUME Inv, jobs # <<>>
    PROVE  LET t == jobs[1].next_promise IN
           /\ Abstract!Ready(t)
           /\ Abstract!Handled(t) <=> handler # Undefined
           /\ status[source[t]] = StateName(jobs[1].fulfilled)
           /\ promise_result[source[t]] = jobs[1].result
  <1> DEFINE t == jobs[1].next_promise
             s == source[t]
  <1>1. 1 \in 1 .. Len(jobs) /\ t \in Promises /\ t \in made /\ Pending(t)
    BY FrontJob
  <1>2. /\ s \in made /\ promise_state[s] # "pending"
        /\ jobs[1].fulfilled = (promise_state[s] = "fulfilled")
        /\ jobs[1].result = promise_result[s]
        /\ KindMatches(jobs[1], kind[t])
    BY <1>1 DEF Inv, JobsCarryOutcomes, Pending
  <1>3. s \in Promises /\ promise_state[s] \in {"fulfilled", "rejected"}
    BY <1>2 DEF Inv, TypeOK
  <1>4. status[s] = promise_state[s] /\ status[t] = "pending"
    BY <1>1, <1>2, <1>3 DEF status, Pending
  <1>5. status[s] = StateName(jobs[1].fulfilled)
    BY <1>2, <1>3, <1>4 DEF StateName
  <1> HIDE DEF s, t
  <1>6. Abstract!Ready(t)
    <2>1. s \in Abstract!Made
      BY <1>3, <1>4 DEF Abstract!Made
    <2> QED
      BY <2>1, <1>3, <1>4 DEF Abstract!Ready, Abstract!Settled, s
  <1>7. Abstract!Handled(t) <=> handler # Undefined
    <2>1. CASE promise_state[s] = "fulfilled"
      <3>1. handler = jobs[1].on_fulfilled
        BY <1>2, <2>1 DEF handler
      <3> QED
        BY <3>1, <2>1, <1>2, <1>4 DEF Abstract!Handled, KindMatches, s
    <2>2. CASE promise_state[s] = "rejected"
      <3>1. handler = jobs[1].on_rejected
        BY <1>2, <2>2 DEF handler
      <3> QED
        BY <3>1, <2>2, <1>2, <1>4 DEF Abstract!Handled, KindMatches, s
    <2> QED
      BY <1>3, <2>1, <2>2
  <1> QED
    BY <1>2, <1>5, <1>6, <1>7 DEF s, t

LEMMA InitRefines == Init => Abstract!Init
  BY DEF Init, Abstract!Init, status

LEMMA MadeMaps == ASSUME Inv PROVE Abstract!Made = made
  BY DEF Inv, TypeOK, Abstract!Made, status

LEMMA ApiRefines == ASSUME Inv, ApiCall PROVE Abstract!Next
  <1> USE ConstantsDistinct
  <1>ty. TypeOK /\ made \subseteq Promises
    BY DEF Inv, TypeOK
  <1>1. PICK p \in Promises \ made :
           \/ \E v \in Values : promise_resolve(p, v)
           \/ \E v \in Values \cup made : promise_reject(p, v)
           \/ \E s \in made, f \in Functions : promise_then(s, f, p)
           \/ \E s \in made, f \in Functions : promise_catch(s, f, p)
    BY CallMakes DEF Inv, TypeOK
  <1>2. Pending(p) /\ status[p] = "unmade"
    BY DEF Inv, UnmadePending, status
  <1>3. ASSUME NEW v \in Values, promise_resolve(p, v) PROVE Abstract!Make(p, v)
    <2>1. v \notin Promises
      OBVIOUS
    <2>2. promise_state' = [promise_state EXCEPT ![p] = StateName(TRUE)]
          /\ promise_result' = [promise_result EXCEPT ![p] = v]
      BY <1>3, <2>1, <1>2, <1>ty, SettledFields DEF promise_resolve
    <2>3. status' = [status EXCEPT ![p] = "fulfilled"]
      BY <1>3, <2>2, <1>ty, StatusSettles DEF promise_resolve, StateName
    <2> QED
      BY <1>3, <2>2, <2>3, <1>2 DEF promise_resolve, history, Abstract!Make, Abstract!Settle, Abstract!Become
  <1>4. ASSUME NEW v \in Values \cup made, promise_reject(p, v) PROVE Abstract!Make(p, v)
    <2>2. promise_state' = [promise_state EXCEPT ![p] = StateName(FALSE)]
          /\ promise_result' = [promise_result EXCEPT ![p] = v]
      BY <1>4, <1>2, <1>ty, SettledFields DEF promise_reject
    <2>3. status' = [status EXCEPT ![p] = "rejected"]
      BY <1>4, <2>2, <1>ty, StatusSettles DEF promise_reject, StateName
    <2> QED
      BY <1>4, <2>2, <2>3, <1>2 DEF promise_reject, history, Abstract!Make, Abstract!Settle, Abstract!Become
  <1>5. ASSUME NEW s \in made, NEW k, NEW x, x.next_promise = p, React(s, x, k)
        PROVE  Abstract!Chain(p, k, s)
    <2>1. promise_state' = promise_state /\ made' = made \cup {p} /\ promise_result' = promise_result
      BY <1>5 DEF React
    <2>2. status' = [status EXCEPT ![p] = "pending"]
      BY <2>1, <1>2, <1>ty DEF status, Pending, TypeOK
    <2>3. source' = [source EXCEPT ![p] = s] /\ kind' = [kind EXCEPT ![p] = k]
      BY <1>5 DEF React, Registers
    <2> QED
      BY <2>1, <2>2, <2>3, <1>2 DEF Abstract!Chain, Abstract!Wait
  <1>6. ASSUME NEW s \in made, NEW f \in Functions, promise_then(s, f, p)
        PROVE  Abstract!Chain(p, "then", s)
    BY <1>5, <1>6, MakesReaction DEF promise_then, Handlers
  <1>7. ASSUME NEW s \in made, NEW f \in Functions, promise_catch(s, f, p)
        PROVE  Abstract!Chain(p, "catch", s)
    BY <1>5, <1>7, MakesReaction DEF promise_catch, Handlers
  <1> QED
    BY <1>1, <1>3, <1>4, <1>6, <1>7, MadeMaps DEF Abstract!Next

LEMMA PropagateRefines == ASSUME Inv, Propagate PROVE Abstract!Next
  <1> DEFINE t == jobs[1].next_promise
             f == jobs[1].fulfilled
             v == jobs[1].result
  <1>0. jobs # <<>> /\ handler = Undefined /\ settle_promise(t, f, v, Tail(jobs)) /\ made' = made
    BY DEF Propagate
  <1>1. f \in BOOLEAN /\ v \in Results /\ ~(f /\ v \in Promises)
    BY <1>0, ForwardedOutcome
  <1>2. TypeOK /\ t \in Promises /\ t \in made /\ Pending(t)
    BY <1>0, FrontJob DEF Inv
  <1>3. UNCHANGED history
    BY <1>1 DEF Propagate, RegistersAdoption, Adopts
  <1>4. /\ Abstract!Ready(t) /\ ~Abstract!Handled(t)
        /\ status[source[t]] = StateName(f) /\ promise_result[source[t]] = v
    BY <1>0, FrontReady
  <1> HIDE DEF f, v, t
  <1>5. promise_state' = [promise_state EXCEPT ![t] = StateName(f)]
        /\ promise_result' = [promise_result EXCEPT ![t] = v]
    BY <1>0, <1>1, <1>2, SettledFields
  <1>6. status' = [status EXCEPT ![t] = StateName(f)]
    <2>1. made' = made \cup {t}
      BY <1>0, <1>2
    <2> QED
      BY <2>1, <1>1, <1>2, <1>5, StatusSettles
  <1>7. Abstract!Forward(t)
    BY <1>3, <1>4, <1>5, <1>6 DEF Abstract!Forward, Abstract!Become, history
  <1> QED
    BY <1>7, <1>2 DEF Abstract!Next

\* A handler that threw, or that returned a value.
LEMMA ConcludeRefines ==
    ASSUME Inv, phase = "handler", NEW f \in BOOLEAN, NEW v \in Values \cup made,
           ~(f /\ v \in Promises),
           settle_promise(jobs[1].next_promise, f, v, Tail(jobs)),
           UNCHANGED history, UNCHANGED made
    PROVE  Abstract!Next
  <1> DEFINE t == jobs[1].next_promise
  <1>0. jobs # <<>> /\ handler # Undefined
    BY DEF Inv, HandlerOwnsFront
  <1>2. TypeOK /\ t \in Promises /\ t \in made /\ Pending(t) /\ made \subseteq Promises
    BY <1>0, FrontJob DEF Inv, TypeOK
  <1>4. Abstract!Ready(t) /\ Abstract!Handled(t)
    BY <1>0, FrontReady
  <1> HIDE DEF t
  <1>5. promise_state' = [promise_state EXCEPT ![t] = StateName(f)]
        /\ promise_result' = [promise_result EXCEPT ![t] = v]
    BY <1>2, SettledFields DEF t
  <1>6. status' = [status EXCEPT ![t] = StateName(f)]
    <2>1. made' = made \cup {t}
      BY <1>2
    <2> QED
      BY <2>1, <1>2, <1>5, StatusSettles
  <1>7. Abstract!Become(t, StateName(f), v)
    BY <1>5, <1>6 DEF Abstract!Become, history
  <1>8. Abstract!Settle(t, v)
    <2>1. CASE f
      <3>1. v \in Values /\ StateName(f) = "fulfilled"
        BY <2>1, <1>2 DEF StateName
      <3> QED
        BY <3>1, <1>7 DEF Abstract!Settle
    <2>2. CASE ~f
      <3>1. StateName(f) = "rejected"
        BY <2>2 DEF StateName
      <3> QED
        BY <3>1, <1>7 DEF Abstract!Settle
    <2> QED
      BY <2>1, <2>2
  <1> QED
    BY <1>2, <1>4, <1>8, MadeMaps DEF Abstract!Next, Abstract!Conclude

LEMMA ReturnsRefines ==
    ASSUME Inv, NEW v \in Values \cup made, HandlerReturns(v)
    PROVE  Abstract!Next
  <1> USE ConstantsDistinct
  <1> DEFINE t == jobs[1].next_promise
  <1>0. jobs # <<>> /\ handler # Undefined /\ phase = "handler" /\ made' = made
    BY DEF Inv, HandlerOwnsFront, HandlerReturns
  <1>2. TypeOK /\ t \in Promises /\ t \in made /\ Pending(t) /\ made \subseteq Promises
    BY <1>0, FrontJob DEF Inv, TypeOK
  <1>3. CASE v \in Promises
    <2>1. v \in made /\ v # t
      BY <1>3 DEF HandlerReturns
    <2>2. source' = [source EXCEPT ![t] = v] /\ kind' = [kind EXCEPT ![t] = "adopt"]
      BY <1>2, <1>3 DEF HandlerReturns, RegistersAdoption, Adopts, Registers
    <2>3. promise_state' = promise_state /\ promise_result' = promise_result
      BY <1>2, <1>3, SettledFields DEF HandlerReturns
    <2>4. Abstract!Ready(t) /\ Abstract!Handled(t)
      BY <1>0, FrontReady
    <2> HIDE DEF t
    <2>5. status' = [status EXCEPT ![t] = "pending"]
      BY <1>0, <1>2, <2>3 DEF status, Pending, TypeOK
    <2>6. Abstract!Adopt(t, v)
      BY <2>1, <2>2, <2>3, <2>4, <2>5 DEF Abstract!Adopt, Abstract!Wait
    <2> QED
      BY <1>2, <2>1, <2>6, MadeMaps DEF Abstract!Next
  <1>4. CASE v \notin Promises
    <2>1. UNCHANGED history
      BY <1>4 DEF HandlerReturns, RegistersAdoption, Adopts
    <2> QED
      BY <1>0, <1>4, <2>1, ConcludeRefines DEF HandlerReturns
  <1> QED
    BY <1>3, <1>4

LEMMA StepRefines ==
    ASSUME Inv, [Next]_vars
    PROVE  [Abstract!Next]_(Abstract!vars)
  <1>0. ASSUME UNCHANGED <<made, promise_state, promise_result>>, UNCHANGED history
        PROVE  UNCHANGED Abstract!vars
    BY <1>0 DEF Abstract!vars, status, history
  <1>1. CASE ApiCall
    BY <1>1, ApiRefines
  <1>2. CASE RunJobs
    BY <1>2, <1>0 DEF RunJobs
  <1>3. CASE Drained
    BY <1>3, <1>0 DEF Drained
  <1>4. CASE Propagate
    BY <1>4, PropagateRefines
  <1>5. CASE CallHandler
    BY <1>5, <1>0 DEF CallHandler
  <1>6. ASSUME NEW v \in Values \cup made, HandlerThrows(v) PROVE Abstract!Next
    BY <1>6, ConcludeRefines DEF HandlerThrows
  <1>7. ASSUME NEW v \in Values \cup made, HandlerReturns(v) PROVE Abstract!Next
    BY <1>7, ReturnsRefines
  <1>8. CASE HandlerFails
    BY <1>8, <1>0 DEF HandlerFails
  <1>9. CASE UNCHANGED vars
    BY <1>9, <1>0 DEF vars, history
  <1> QED
    BY <1>1, <1>2, <1>3, <1>4, <1>5, <1>6, <1>7, <1>8, <1>9 DEF Next, RunStep

\* The reaction lists, the job queue and the loop of run_jobs implement the
\* promise chains: every promise settles at most once, only after the promise it
\* waits for, with the outcome of that promise or of its handler for it.
THEOREM ChainsImplemented == Spec => ImplementsChains
  <1>1. Init => Abstract!Init
    BY InitRefines
  <1>2. Inv /\ [Next]_vars => [Abstract!Next]_(Abstract!vars)
    BY StepRefines
  <1> QED
    BY <1>1, <1>2, Invariance, PTL DEF Spec, ImplementsChains, Abstract!Spec

-----------------------------------------------------------------------------
(* The order of reactions: those registered on one promise run in the order *)
(* in which they were registered (RegistrationOrder).                       *)


\* In the list q, what resolves promise x comes before what resolves y.
InOrder(q, x, y) ==
    \A a, b \in 1 .. Len(q) : q[a].next_promise = x /\ q[b].next_promise = y => a < b

\* Registrations on s that have not run keep their order, as reactions of s
\* while it is pending and as jobs of the queue afterwards.
OrderKept ==
    \A s \in Promises : \A i, j \in 1 .. Len(registered[s]) :
       /\ i < j
       /\ ~Concluded(registered[s][i], s) /\ ~Concluded(registered[s][j], s)
       => /\ InOrder(promise_reactions[s], registered[s][i][1], registered[s][j][1])
          /\ InOrder(jobs, registered[s][i][1], registered[s][j][1])

\* Only made promises are registered, and one that adopts never registers again.
RegisteredOnce ==
    \A s \in Promises : \A i \in 1 .. Len(registered[s]) :
       LET e == registered[s][i] IN
       /\ e[1] \in made
       /\ e[2] = "adopt" => kind[e[1]] = "adopt"

\* The inductive invariant.
OrderInv == Inv /\ RegistrationOrder /\ OrderKept /\ RegisteredOnce

-----------------------------------------------------------------------------
\* What the types say of the registrations.
LEMMA Entries ==
    ASSUME OrderInv, NEW s \in Promises, NEW i \in 1 .. Len(registered[s])
    PROVE  /\ registered[s] \in Seq(Promises \X Kinds) /\ Len(registered[s]) \in Nat
           /\ registered[s][i] = <<registered[s][i][1], registered[s][i][2]>>
           /\ registered[s][i][1] \in Promises /\ registered[s][i][1] \in made
           /\ registered[s][i][2] \in Kinds
  <1>1. registered[s] \in Seq(Promises \X Kinds)
    BY DEF OrderInv, Inv, TypeOK
  <1>2. registered[s][i] \in Promises \X Kinds
    BY <1>1
  <1>3. registered[s][i][1] \in made
    BY DEF OrderInv, RegisteredOnce
  <1> QED
    BY <1>1, <1>2, <1>3

\* A registration that has not run is resolved by a reaction of s or by a job.
LEMMA Outstanding ==
    ASSUME OrderInv, NEW s \in Promises, NEW p \in made, Pending(p), source[p] = s
    PROVE  /\ Pending(s) => \A a \in 1 .. Len(jobs) : jobs[a].next_promise # p
           /\ ~Pending(s) => \E a \in 1 .. Len(jobs) : jobs[a].next_promise = p
  <1>1. ASSUME Pending(s), NEW a \in 1 .. Len(jobs), jobs[a].next_promise = p PROVE FALSE
    BY <1>1 DEF OrderInv, Inv, JobsCarryOutcomes
  <1>2. ASSUME ~Pending(s) PROVE \E a \in 1 .. Len(jobs) : jobs[a].next_promise = p
    <2>1. HasResolver(p)
      BY DEF OrderInv, Inv, PendingResolved
    <2>2. \A a \in 1 .. Len(promise_reactions[s]) : FALSE
      BY <1>2 DEF OrderInv, Inv, ReactionsWait
    <2> QED
      BY <2>1, <2>2 DEF HasResolver
  <1> QED
    BY <1>1, <1>2

\* The registration of the front job is the first of its promise still to run.
LEMMA FrontFirst ==
    ASSUME OrderInv, jobs # <<>>, NEW s \in Promises,
           NEW i \in 1 .. Len(registered[s]), NEW j \in 1 .. Len(registered[s]), i < j,
           ~Concluded(registered[s][j], s), registered[s][j][1] = jobs[1].next_promise
    PROVE  Concluded(registered[s][i], s)
  <1> SUFFICES ASSUME ~Concluded(registered[s][i], s) PROVE FALSE
    OBVIOUS
  <1> DEFINE p == registered[s][i][1]
             t == jobs[1].next_promise
  <1>1. InOrder(jobs, p, t)
    BY DEF OrderInv, OrderKept
  <1>2. p \in made /\ Pending(p) /\ source[p] = s /\ source[t] = s
    BY Entries DEF Concluded
  <1>3. 1 \in 1 .. Len(jobs) /\ ~Pending(s)
    BY <1>2, FrontJob DEF OrderInv
  <1>4. PICK a \in 1 .. Len(jobs) : jobs[a].next_promise = p
    BY <1>2, <1>3, Outstanding
  <1>5. a < 1
    BY <1>1, <1>3, <1>4 DEF InOrder
  <1> QED
    BY <1>5

-----------------------------------------------------------------------------
LEMMA InOrderTail ==
    ASSUME NEW S, NEW q \in Seq(S), q # <<>>, NEW x, NEW y, InOrder(q, x, y)
    PROVE  InOrder(Tail(q), x, y)
  <1>1. Len(Tail(q)) = Len(q) - 1 /\ Len(q) \in Nat
    OBVIOUS
  <1>2. \A a \in 1 .. Len(q) - 1 : Tail(q)[a] = q[a + 1]
    BY <1>1
  <1> QED
    BY <1>1, <1>2 DEF InOrder

\* What is appended for z leaves the order of the others alone and comes last.
LEMMA InOrderAppend ==
    ASSUME NEW S, NEW q \in Seq(S), NEW e \in S, NEW x, NEW y, x # e.next_promise
    PROVE  /\ y # e.next_promise /\ InOrder(q, x, y) => InOrder(Append(q, e), x, y)
           /\ (\A a \in 1 .. Len(q) : q[a].next_promise # y) => InOrder(Append(q, e), x, y)
  <1>1. /\ Len(Append(q, e)) = Len(q) + 1 /\ Len(q) \in Nat
        /\ \A a \in 1 .. Len(q) : Append(q, e)[a] = q[a]
        /\ Append(q, e)[Len(q) + 1] = e
    BY Appended
  <1>2. \A a \in 1 .. Len(q) + 1 : a \in 1 .. Len(q) \/ a = Len(q) + 1
    BY <1>1
  <1>3. ASSUME y # e.next_promise, InOrder(q, x, y) PROVE InOrder(Append(q, e), x, y)
    BY <1>1, <1>2, <1>3 DEF InOrder
  <1>4. ASSUME \A a \in 1 .. Len(q) : q[a].next_promise # y PROVE InOrder(Append(q, e), x, y)
    <2> SUFFICES ASSUME NEW a \in 1 .. Len(q) + 1, NEW b \in 1 .. Len(q) + 1,
                        Append(q, e)[a].next_promise = x, Append(q, e)[b].next_promise = y
                 PROVE  a < b
      BY <1>1 DEF InOrder
    <2>1. b = Len(q) + 1
      BY <1>1, <1>2, <1>4
    <2>2. a \in 1 .. Len(q)
      BY <1>1, <1>2
    <2> QED
      BY <2>1, <2>2, <1>1
  <1> QED
    BY <1>3, <1>4

-----------------------------------------------------------------------------
\* A promise p without a registration of kind k comes to wait for s: what was
\* registered for p before has run, and p is resolved after all the others.
LEMMA RegisterOrder ==
    ASSUME OrderInv, NEW p \in Promises, NEW s \in Promises, NEW k \in Kinds,
           promise_state' = promise_state, made' = made \cup {p}, Pending(p),
           Registers(p, k, s),
           \A r \in Promises : \A i \in 1 .. Len(registered[r]) :
              registered[r][i][1] = p => registered[r][i][2] # k /\ registered[r][i][2] # "adopt",
           \A r \in Promises : \A i, j \in 1 .. Len(registered[r]) :
              /\ i < j /\ registered[r][j][1] = p
              => Concluded(registered[r][i], r) \/ registered[r][i][1] = p,
           \A x, y \in Promises : InOrder(jobs, x, y) /\ x # p /\ y # p => InOrder(jobs', x, y),
           \A r, x, y \in Promises :
              InOrder(promise_reactions[r], x, y) /\ x # p /\ y # p
              => InOrder(promise_reactions'[r], x, y),
           \A x \in Promises : x # p => InOrder(jobs', x, p) /\ InOrder(promise_reactions'[s], x, p)
    PROVE  (RegistrationOrder /\ OrderKept /\ RegisteredOnce)'
  <1> DEFINE m == Len(registered[s])
             e == <<p, k>>
  <1>ty. TypeOK
    BY DEF OrderInv, Inv
  <1>h. /\ source' = [source EXCEPT ![p] = s]
        /\ kind' = [kind EXCEPT ![p] = k]
        /\ registered' = [registered EXCEPT ![s] = Append(@, e)]
    BY DEF Registers
  <1>f. /\ source'[p] = s /\ kind'[p] = k
        /\ \A q \in Promises : q # p => source'[q] = source[q] /\ kind'[q] = kind[q]
    BY <1>h, <1>ty DEF TypeOK
  <1>m. registered[s] \in Seq(Promises \X Kinds) /\ m \in Nat /\ e \in Promises \X Kinds
    BY <1>ty DEF TypeOK
  <1>r. \A r \in Promises : r # s => registered'[r] = registered[r]
    BY <1>h, <1>ty DEF TypeOK
  <1>s. /\ Len(registered'[s]) = m + 1 /\ registered'[s][m + 1] = e
        /\ \A i \in 1 .. m : registered'[s][i] = registered[s][i]
    <2>1. registered'[s] = Append(registered[s], e)
      BY <1>h, <1>ty DEF TypeOK
    <2> HIDE DEF e
    <2> QED
      BY <2>1, <1>m, Appended
  <1>e. e[1] = p /\ e[2] = k
    OBVIOUS
  <1> HIDE DEF m, e
  \* Every registration is an old one or the new one.
  <1>o. ASSUME NEW r \in Promises, NEW i \in 1 .. Len(registered'[r])
        PROVE  \/ i \in 1 .. Len(registered[r]) /\ registered'[r][i] = registered[r][i]
               \/ r = s /\ i = m + 1 /\ registered'[r][i] = e
    <2>1. CASE r = s
      <3>1. i \in 1 .. m \/ i = m + 1
        BY <2>1, <1>s, <1>m
      <3> QED
        BY <2>1, <3>1, <1>s DEF m
    <2>2. CASE r # s
      BY <2>2, <1>r
    <2> QED
      BY <2>1, <2>2
  \* What has run stays so, and for p all the old ones have.
  <1>c. ASSUME NEW r \in Promises, NEW i \in 1 .. Len(registered[r]), NEW z, z = registered[r][i]
        PROVE  /\ z[1] = p => Concluded(z, r)'
               /\ z[1] # p => (Concluded(z, r)' <=> Concluded(z, r))
    <2>1. z[1] \in Promises
      BY <1>c, Entries
    <2>2. CASE z[1] = p
      <3>1. z[2] # k
        BY <1>c, <2>2
      <3> QED
        BY <2>2, <3>1, <1>f DEF Concluded
    <2>3. CASE z[1] # p
      BY <2>1, <2>3, <1>f DEF Concluded, Pending
    <2> QED
      BY <2>2, <2>3
  <1>n. ASSUME NEW z, z = e PROVE ~Concluded(z, s)'
    BY <1>n, <1>e, <1>f DEF Concluded, Pending
  <1>1. RegistrationOrder'
    <2> SUFFICES ASSUME NEW r \in Promises, NEW i \in 1 .. Len(registered'[r]),
                        NEW j \in 1 .. Len(registered'[r]), i < j,
                        NEW x, NEW y, x = registered'[r][i], y = registered'[r][j],
                        Concluded(y, r)'
                 PROVE  Concluded(x, r)'
      BY DEF RegistrationOrder, Concluded
    <2>2. j \in 1 .. Len(registered[r]) /\ y = registered[r][j]
      BY <1>n, <1>o
    <2>3. i \in 1 .. Len(registered[r]) /\ x = registered[r][i]
      BY <2>2, <1>o, <1>m DEF m
    <2>4. CASE y[1] = p
      <3>1. Concluded(x, r) \/ x[1] = p
        BY <2>2, <2>3, <2>4
      <3> QED
        BY <3>1, <2>3, <1>c
    <2>5. CASE y[1] # p
      <3>1. Concluded(x, r)
        BY <2>2, <2>3, <2>5, <1>c DEF OrderInv, RegistrationOrder
      <3> QED
        BY <3>1, <2>3, <1>c
    <2> QED
      BY <2>4, <2>5
  <1>2. OrderKept'
    <2> SUFFICES ASSUME NEW r \in Promises, NEW i \in 1 .. Len(registered'[r]),
                        NEW j \in 1 .. Len(registered'[r]), i < j,
                        NEW x, NEW y, x = registered'[r][i], y = registered'[r][j],
                        ~Concluded(x, r)', ~Concluded(y, r)'
                 PROVE  InOrder(promise_reactions'[r], x[1], y[1]) /\ InOrder(jobs', x[1], y[1])
      BY DEF OrderKept, Concluded
    <2>1. i \in 1 .. Len(registered[r]) /\ x = registered[r][i]
      <3>0. \/ j \in 1 .. Len(registered[r]) /\ registered'[r][j] = registered[r][j]
            \/ r = s /\ j = m + 1 /\ registered'[r][j] = e
        BY <1>o, Zenon
      <3>2. ~(r = s /\ i = m + 1)
        BY <3>0, <1>m DEF m
      <3> QED
        BY <3>2, <1>o
    <2>2. x[1] # p /\ ~Concluded(x, r) /\ x[1] \in Promises
      BY <2>1, <1>c, Entries
    <2>3. CASE j \in 1 .. Len(registered[r]) /\ y = registered[r][j]
      <3>1. y[1] # p /\ ~Concluded(y, r) /\ y[1] \in Promises
        BY <2>3, <1>c, Entries
      <3>2. InOrder(promise_reactions[r], x[1], y[1]) /\ InOrder(jobs, x[1], y[1])
        BY <2>1, <2>2, <2>3, <3>1 DEF OrderInv, OrderKept
      <3> QED
        BY <2>2, <3>1, <3>2
    <2>4. CASE r = s /\ y = e
      BY <2>2, <2>4, <1>e
    <2> QED
      BY <2>3, <2>4, <1>o
  <1>3. RegisteredOnce'
    <2> SUFFICES ASSUME NEW r \in Promises, NEW i \in 1 .. Len(registered'[r]),
                        NEW z, z = registered'[r][i]
                 PROVE  z[1] \in made' /\ (z[2] = "adopt" => kind'[z[1]] = "adopt")
      BY DEF RegisteredOnce
    <2>1. CASE i \in 1 .. Len(registered[r]) /\ z = registered[r][i]
      <3>1. z[1] \in made /\ z[1] \in Promises /\ (z[2] = "adopt" => kind[z[1]] = "adopt")
        BY <2>1, Entries DEF OrderInv, RegisteredOnce
      <3>2. z[1] = p => z[2] # "adopt"
        BY <2>1
      <3> QED
        BY <3>1, <3>2, <1>f
    <2>2. CASE r = s /\ z = e
      BY <2>2, <1>e, <1>f
    <2> QED
      BY <2>1, <2>2, <1>o
  <1> QED
    BY <1>1, <1>2, <1>3

-----------------------------------------------------------------------------
\* promise_then and promise_catch register a new promise, behind all others.
LEMMA ReactOrder ==
    ASSUME OrderInv, NEW s \in made, NEW p \in Promises \ made,
           NEW x \in PromiseReaction, x.next_promise = p,
           NEW k \in {"then", "catch"}, React(s, x, k)
    PROVE  (RegistrationOrder /\ OrderKept /\ RegisteredOnce)'
  <1> DEFINE y == JobOf(x, promise_state[s] = "fulfilled", promise_result[s])
  <1>ty. /\ TypeOK /\ s \in Promises /\ k \in Kinds
         /\ jobs \in Seq(PromiseReactionJob)
         /\ \A r \in Promises : promise_reactions[r] \in Seq(PromiseReaction)
    BY DEF OrderInv, Inv, TypeOK, Kinds
  <1>y. y \in PromiseReactionJob /\ y.next_promise = p
    <2>1. promise_result[s] \in Results /\ (promise_state[s] = "fulfilled") \in BOOLEAN
      BY <1>ty DEF TypeOK
    <2> QED
      BY <2>1, MakesJob
  <1>n. /\ promise_state' = promise_state /\ made' = made \cup {p} /\ Registers(p, k, s)
        /\ Pending(s) => jobs' = jobs /\ promise_reactions' = [promise_reactions EXCEPT ![s] = Append(@, x)]
        /\ ~Pending(s) => jobs' = Append(jobs, y) /\ promise_reactions' = promise_reactions
    BY DEF React
  <1> HIDE DEF y
  <1>p. Pending(p)
    BY DEF OrderInv, Inv, UnmadePending
  <1>j. \A a \in 1 .. Len(jobs) : jobs[a].next_promise # p
    BY DEF OrderInv, Inv, JobsCarryOutcomes
  <1>r. \A r \in Promises : \A a \in 1 .. Len(promise_reactions[r]) : promise_reactions[r][a].next_promise # p
    BY DEF OrderInv, Inv, ReactionsWait
  <1>e. \A r \in Promises : \A i \in 1 .. Len(registered[r]) : registered[r][i][1] # p
    BY Entries
  <1>f. ~Pending(s) => promise_reactions' = promise_reactions
    BY <1>n
  <1>1. ASSUME NEW u \in Promises, NEW w \in Promises, u # p
        PROVE  /\ InOrder(jobs, u, w) /\ w # p => InOrder(jobs', u, w)
               /\ InOrder(jobs', u, p)
    <2>1. CASE Pending(s)
      BY <2>1, <1>n, <1>j DEF InOrder
    <2>2. CASE ~Pending(s)
      BY <2>2, <1>n, <1>1, <1>y, <1>ty, <1>j, InOrderAppend
    <2> QED
      BY <2>1, <2>2
  <1>2. ASSUME NEW r \in Promises, NEW u \in Promises, NEW w \in Promises, u # p
        PROVE  /\ InOrder(promise_reactions[r], u, w) /\ w # p => InOrder(promise_reactions'[r], u, w)
               /\ InOrder(promise_reactions'[r], u, p)
    <2>1. CASE Pending(s) /\ r = s
      <3>1. promise_reactions'[r] = Append(promise_reactions[r], x)
        BY <2>1, <1>n, <1>ty DEF TypeOK
      <3> QED
        BY <3>1, <1>2, <1>ty, <1>r, InOrderAppend
    <2>2. CASE ~(Pending(s) /\ r = s)
      <3>1. promise_reactions'[r] = promise_reactions[r]
        BY <2>2, <1>n, <1>ty DEF TypeOK
      <3> QED
        BY <3>1, <1>r DEF InOrder
    <2> QED
      BY <2>1, <2>2
  <1> QED
    BY <1>1, <1>2, <1>n, <1>p, <1>e, <1>ty, RegisterOrder

\* A handler that returned a promise: the promise of its job waits once more.
LEMMA AdoptOrder ==
    ASSUME OrderInv, jobs # <<>>, handler # Undefined,
           NEW v \in made, v # jobs[1].next_promise,
           settle_promise(jobs[1].next_promise, TRUE, v, Tail(jobs)),
           Registers(jobs[1].next_promise, "adopt", v), UNCHANGED made
    PROVE  (RegistrationOrder /\ OrderKept /\ RegisteredOnce)'
  <1> DEFINE t == jobs[1].next_promise
             x == Reaction(Undefined, Undefined, t)
             y == JobOf(x, promise_state[v] = "fulfilled", promise_result[v])
             q == Tail(jobs)
  <1> USE ConstantsDistinct
  <1>i. Inv /\ TypeOK
    BY DEF OrderInv, Inv
  <1>t. /\ jobs \in Seq(PromiseReactionJob) /\ Len(jobs) \in Nat /\ Len(jobs) >= 1
        /\ 1 \in 1 .. Len(jobs)
        /\ t \in made /\ t \in Promises /\ Pending(t)
        /\ \A j \in 2 .. Len(jobs) : jobs[j].next_promise # t
        /\ \A s \in Promises : \A i \in 1 .. Len(promise_reactions[s]) :
              promise_reactions[s][i].next_promise # t
    BY <1>i, FrontJob
  <1>k. kind[t] # "adopt"
    <2>1. KindMatches(jobs[1], kind[t])
      BY <1>t, <1>i DEF Inv, JobsCarryOutcomes
    <2> QED
      BY <2>1 DEF KindMatches, handler
  <1>m. /\ v \in Promises /\ made' = made \cup {t} /\ "adopt" \in Kinds
        /\ \A r \in Promises : promise_reactions[r] \in Seq(PromiseReaction)
    BY <1>i, <1>t DEF TypeOK, Kinds
  <1>x. x \in PromiseReaction /\ x.next_promise = t
    BY <1>t, MakesReaction DEF Handlers
  <1>y. y \in PromiseReactionJob /\ y.next_promise = t
    <2>1. promise_result[v] \in Results /\ (promise_state[v] = "fulfilled") \in BOOLEAN
      BY <1>m, <1>i DEF TypeOK
    <2> HIDE DEF x
    <2>2. x.on_fulfilled \in Handlers /\ x.on_rejected \in Handlers /\ x.next_promise \in Promises
      BY <1>x, ReactionType
    <2>3. y \in PromiseReactionJob
      BY <2>1, <2>2 DEF JobOf, PromiseReactionJob
    <2> QED
      BY <2>3, <1>x DEF JobOf
  <1>q. /\ q \in Seq(PromiseReactionJob) /\ Len(q) = Len(jobs) - 1
        /\ \A a \in 1 .. Len(q) : q[a].next_promise # t
    <2>1. q \in Seq(PromiseReactionJob) /\ Len(q) = Len(jobs) - 1
      BY <1>t
    <2>2. \A a \in 1 .. Len(q) : q[a] = jobs[a + 1] /\ a + 1 \in 2 .. Len(jobs)
      BY <2>1, <1>t
    <2> QED
      BY <2>1, <2>2, <1>t
  <1>n. /\ promise_state' = promise_state
        /\ Pending(v) => /\ jobs' = q
                         /\ promise_reactions' = [promise_reactions EXCEPT ![v] = Append(@, x)]
        /\ ~Pending(v) => jobs' = Append(q, y) /\ promise_reactions' = promise_reactions
    <2>a. Adopts(t, TRUE, v) /\ ~Settles(t, TRUE, v)
      BY <1>t, <1>m DEF Adopts, Settles
    <2>1. promise_state' = promise_state
      BY <2>a, <1>i DEF settle_promise, TypeOK
    <2>2. promise_reactions' = [p \in Promises |->
              IF p = v /\ Pending(p) THEN Append(promise_reactions[p], x) ELSE promise_reactions[p]]
      BY <2>a, Zenon DEF settle_promise
    <2>3. jobs' = q \o (IF Pending(v) THEN <<>> ELSE <<y>>)
      BY <2>a DEF settle_promise, Enqueued
    <2> HIDE DEF x, y, q
    <2>4. CASE Pending(v)
      <3>1. jobs' = q
        BY <2>3, <2>4, <1>q
      <3>2. promise_reactions' = [promise_reactions EXCEPT ![v] = Append(@, x)]
        BY <2>2, <2>4, <1>i, <1>m DEF TypeOK
      <3> QED
        BY <2>1, <2>4, <3>1, <3>2
    <2>5. CASE ~Pending(v)
      <3>1. jobs' = Append(q, y)
        BY <2>3, <2>5, <1>q, <1>y
      <3>2. promise_reactions' = promise_reactions
        BY <2>2, <2>5, <1>i DEF TypeOK
      <3> QED
        BY <2>1, <2>5, <3>1, <3>2
    <2> QED
      BY <2>4, <2>5
  <1> HIDE DEF x, y
  <1>e. ASSUME NEW r \in Promises, NEW i \in 1 .. Len(registered[r]), registered[r][i][1] = t
        PROVE  registered[r][i][2] # "adopt"
    BY <1>k, <1>e DEF OrderInv, RegisteredOnce
  <1>c. ASSUME NEW r \in Promises, NEW i \in 1 .. Len(registered[r]),
               NEW j \in 1 .. Len(registered[r]), i < j, registered[r][j][1] = t
        PROVE  Concluded(registered[r][i], r) \/ registered[r][i][1] = t
    BY <1>c, FrontFirst DEF OrderInv, RegistrationOrder
  <1>1. ASSUME NEW u \in Promises, NEW w \in Promises, u # t
        PROVE  /\ InOrder(jobs, u, w) /\ w # t => InOrder(jobs', u, w)
               /\ InOrder(jobs', u, t)
    <2>0. InOrder(jobs, u, w) => InOrder(q, u, w)
      BY <1>t, InOrderTail
    <2> HIDE DEF q, t
    <2>1. CASE Pending(v)
      BY <2>0, <2>1, <1>n, <1>q DEF InOrder
    <2>2. CASE ~Pending(v)
      BY <2>0, <2>2, <1>n, <1>1, <1>y, <1>q, InOrderAppend
    <2> QED
      BY <2>1, <2>2
  <1>2. ASSUME NEW r \in Promises, NEW u \in Promises, NEW w \in Promises, u # t
        PROVE  /\ InOrder(promise_reactions[r], u, w) /\ w # t => InOrder(promise_reactions'[r], u, w)
               /\ InOrder(promise_reactions'[r], u, t)
    <2>1. CASE Pending(v) /\ r = v
      <3>1. promise_reactions'[r] = Append(promise_reactions[r], x)
        BY <2>1, <1>n, <1>i DEF TypeOK
      <3>2. /\ promise_reactions[r] \in Seq(PromiseReaction)
            /\ \A a \in 1 .. Len(promise_reactions[r]) : promise_reactions[r][a].next_promise # t
        BY <1>m, <1>t
      <3> HIDE DEF t
      <3> QED
        BY <3>1, <3>2, <1>2, <1>x, InOrderAppend
    <2>2. CASE ~(Pending(v) /\ r = v)
      <3>1. promise_reactions'[r] = promise_reactions[r]
        BY <2>2, <1>n, <1>i DEF TypeOK
      <3> HIDE DEF t
      <3> QED
        BY <3>1, <1>t DEF InOrder
    <2> QED
      BY <2>1, <2>2
  <1> HIDE DEF t
  <1>r. Registers(t, "adopt", v)
    BY DEF t
  <1> QED
    BY <1>1, <1>2, <1>n, <1>t, <1>e, <1>c, <1>m, <1>r, RegisterOrder

\* A promise settles: its reactions become jobs, in their order.
LEMMA SettleOrder ==
    ASSUME OrderInv, jobs # <<>>, NEW f \in BOOLEAN, NEW v \in Results,
           ~(f /\ v \in Promises),
           settle_promise(jobs[1].next_promise, f, v, Tail(jobs)),
           UNCHANGED history, UNCHANGED made
    PROVE  (RegistrationOrder /\ OrderKept /\ RegisteredOnce)'
  <1> DEFINE t == jobs[1].next_promise
             R == promise_reactions[t]
             E == [i \in 1 .. Len(R) |-> JobOf(R[i], f, v)]
             n == Len(jobs) - 1
  <1>i. Inv /\ TypeOK
    BY DEF OrderInv, Inv
  <1>t. /\ jobs \in Seq(PromiseReactionJob) /\ Len(jobs) \in Nat /\ n \in Nat
        /\ t \in made /\ t \in Promises /\ Pending(t)
        /\ R \in Seq(PromiseReaction) /\ Len(R) \in Nat
    BY <1>i, FrontJob DEF TypeOK
  <1>E. /\ E \in Seq(PromiseReactionJob) /\ Len(E) = Len(R)
        /\ \A i \in 1 .. Len(R) : E[i].next_promise = R[i].next_promise
    <2>1. ASSUME NEW i \in 1 .. Len(R)
          PROVE  E[i] \in PromiseReactionJob /\ E[i].next_promise = R[i].next_promise
      <3>1. R[i] \in PromiseReaction
        BY <1>t
      <3>2. E[i] = JobOf(R[i], f, v)
        OBVIOUS
      <3> HIDE DEF E, R
      <3> QED
        BY <3>1, <3>2, MakesJob
    <2>2. E \in [1 .. Len(R) -> PromiseReactionJob]
      BY <2>1
    <2>3. Len(E) = Len(R)
      BY <1>t
    <2> HIDE DEF E, R
    <2> QED
      BY <2>1, <2>2, <2>3, <1>t
  <1>s. Settles(t, f, v)
    BY <1>t DEF Settles
  <1>n. /\ jobs' = Tail(jobs) \o E
        /\ promise_state' = [promise_state EXCEPT ![t] = StateName(f)]
        /\ \A r \in Promises : r # t => promise_reactions'[r] = promise_reactions[r]
    <2>1. Enqueued(t, f, v) = E
      BY <1>s DEF Enqueued
    <2>2. ~Adopts(t, f, v)
      BY DEF Adopts
    <2> HIDE DEF E, R, t
    <2> QED
      BY <2>1, <2>2, <1>s DEF settle_promise, t
  <1>h. source' = source /\ kind' = kind /\ registered' = registered
    BY DEF history
  <1>l. /\ Len(jobs') = n + Len(R)
        /\ \A a \in 1 .. n : jobs'[a] = jobs[a + 1] /\ a + 1 \in 1 .. Len(jobs)
        /\ \A a \in 1 .. Len(R) : jobs'[n + a].next_promise = R[a].next_promise
    <2> HIDE DEF E, R, t
    <2>1. /\ Len(Tail(jobs) \o E) = Len(jobs) - 1 + Len(E)
          /\ \A a \in 1 .. Len(jobs) - 1 : (Tail(jobs) \o E)[a] = jobs[a + 1]
          /\ \A a \in 1 .. Len(E) : (Tail(jobs) \o E)[Len(jobs) - 1 + a] = E[a]
      <3>1. jobs \in Seq(PromiseReactionJob) /\ E \in Seq(PromiseReactionJob)
        BY <1>E, <1>t
      <3> QED
        BY <3>1, PopAppend
    <2>2. /\ Len(jobs') = n + Len(E)
          /\ \A a \in 1 .. n : jobs'[a] = jobs[a + 1]
          /\ \A a \in 1 .. Len(E) : jobs'[n + a] = E[a]
      BY <2>1, <1>n
    <2>3. \A a \in 1 .. n : a + 1 \in 1 .. Len(jobs)
      BY <1>t
    <2> HIDE DEF n
    <2> QED
      BY <2>2, <2>3, <1>E
  <1>S. StateName(f) # "pending"
    BY DEF StateName
  <1> HIDE DEF E, R, t
  \* Only the registration of t runs.
  <1>c. ASSUME NEW r \in Promises, NEW i \in 1 .. Len(registered[r]), NEW z, z = registered[r][i]
        PROVE  Concluded(z, r)' <=> Concluded(z, r) \/ z[1] = t
    <2>1. z[1] \in Promises
      BY <1>c, Entries
    <2>2. /\ promise_state'[t] # "pending"
          /\ z[1] # t => promise_state'[z[1]] = promise_state[z[1]]
      BY <2>1, <1>n, <1>S, <1>i, <1>t DEF TypeOK
    <2> QED
      BY <2>2, <1>h DEF Concluded, Pending
  <1>1. RegistrationOrder'
    <2> SUFFICES ASSUME NEW r \in Promises, NEW i \in 1 .. Len(registered[r]),
                        NEW j \in 1 .. Len(registered[r]), i < j,
                        NEW x, NEW y, x = registered[r][i], y = registered[r][j],
                        Concluded(y, r)'
                 PROVE  Concluded(x, r)'
      BY <1>h DEF RegistrationOrder, Concluded
    <2>1. CASE Concluded(y, r)
      <3>1. Concluded(x, r)
        BY <2>1 DEF OrderInv, RegistrationOrder
      <3> QED
        BY <3>1, <1>c
    <2>2. CASE ~Concluded(y, r)
      <3>1. y[1] = t
        BY <2>2, <1>c
      <3>2. Concluded(x, r)
        BY <2>2, <3>1, FrontFirst DEF t
      <3> QED
        BY <3>2, <1>c
    <2> QED
      BY <2>1, <2>2
  \* Where a promise that still waits is queued, and from which list it came.
  <1>w. ASSUME NEW r \in Promises, NEW p \in made, Pending(p), source[p] = r,
               NEW a \in 1 .. Len(jobs'), jobs'[a].next_promise = p
        PROVE  \/ r # t /\ a \in 1 .. n /\ jobs[a + 1].next_promise = p
               \/ r = t /\ a - n \in 1 .. Len(R) /\ R[a - n].next_promise = p
    <2>1. CASE a \in 1 .. n
      <3>1. jobs[a + 1].next_promise = p /\ a + 1 \in 1 .. Len(jobs)
        BY <2>1, <1>l, <1>w
      <3>2. ~Pending(r)
        BY <3>1, <1>w DEF OrderInv, Inv, JobsCarryOutcomes
      <3> QED
        BY <2>1, <3>1, <3>2, <1>t
    <2>2. CASE a \notin 1 .. n
      <3>1. a - n \in 1 .. Len(R) /\ a = n + (a - n)
        BY <2>2, <1>l, <1>t
      <3>2. R[a - n].next_promise = p
        BY <3>1, <1>l, <1>w
      <3>3. source[p] = t
        BY <3>1, <3>2, <1>t DEF R, OrderInv, Inv, ReactionsWait
      <3> QED
        BY <3>1, <3>2, <3>3, <1>w
    <2> QED
      BY <2>1, <2>2
  <1>2. OrderKept'
    <2> SUFFICES ASSUME NEW r \in Promises, NEW i \in 1 .. Len(registered[r]),
                        NEW j \in 1 .. Len(registered[r]), i < j,
                        NEW x, NEW y, x = registered[r][i], y = registered[r][j],
                        ~Concluded(x, r)', ~Concluded(y, r)'
                 PROVE  InOrder(promise_reactions'[r], x[1], y[1]) /\ InOrder(jobs', x[1], y[1])
      BY <1>h DEF OrderKept, Concluded
    <2>1. /\ ~Concluded(x, r) /\ x[1] # t /\ x[1] \in made
          /\ ~Concluded(y, r) /\ y[1] # t /\ y[1] \in made
      BY <1>c, Entries
    <2>2. InOrder(promise_reactions[r], x[1], y[1]) /\ InOrder(jobs, x[1], y[1])
      BY <2>1 DEF OrderInv, OrderKept
    <2>3. Pending(x[1]) /\ source[x[1]] = r /\ Pending(y[1]) /\ source[y[1]] = r
      BY <2>1 DEF Concluded
    <2>4. InOrder(promise_reactions'[r], x[1], y[1])
      <3>1. CASE r # t
        BY <3>1, <2>2, <1>n
      <3>2. CASE r = t
        <4>1. promise_reactions'[r] = <<>>
          BY <3>2, <1>s DEF settle_promise, t
        <4> QED
          BY <4>1 DEF InOrder
      <3> QED
        BY <3>1, <3>2
    <2>5. ASSUME NEW a \in 1 .. Len(jobs'), NEW b \in 1 .. Len(jobs'),
                 jobs'[a].next_promise = x[1], jobs'[b].next_promise = y[1]
          PROVE  a < b
      <3>a. a \in Nat /\ b \in Nat
        BY <1>l, <1>t
      <3>1. CASE r # t
        <4>1. /\ a \in 1 .. n /\ jobs[a + 1].next_promise = x[1]
              /\ b \in 1 .. n /\ jobs[b + 1].next_promise = y[1]
          BY <3>1, <2>1, <2>3, <2>5, <1>w
        <4>2. a + 1 \in 1 .. Len(jobs) /\ b + 1 \in 1 .. Len(jobs)
          BY <4>1, <1>l
        <4>3. a + 1 < b + 1
          BY <4>1, <4>2, <2>2 DEF InOrder
        <4> QED
          BY <4>3, <3>a
      <3>2. CASE r = t
        <4>a. a - n \in 1 .. Len(R) /\ R[a - n].next_promise = x[1]
          BY SMTT(60), <3>2, <2>1, <2>3, <2>5, <1>w
        <4>b. b - n \in 1 .. Len(R) /\ R[b - n].next_promise = y[1]
          BY SMTT(60), <3>2, <2>1, <2>3, <2>5, <1>w
        <4>2. InOrder(R, x[1], y[1])
          BY <3>2, <2>2 DEF R
        <4>3. a - n < b - n
          BY <4>a, <4>b, <4>2 DEF InOrder
        <4> QED
          BY <4>3, <3>a, <1>t
      <3> QED
        BY <3>1, <3>2
    <2>6. InOrder(jobs', x[1], y[1])
      BY <2>5 DEF InOrder
    <2> QED
      BY <2>4, <2>6
  <1>3. RegisteredOnce'
    BY <1>h DEF OrderInv, RegisteredOnce
  <1> QED
    BY <1>1, <1>2, <1>3

\* promise_resolve and promise_reject make a promise that nothing waits for.
LEMMA MakeOrder ==
    ASSUME OrderInv, NEW p \in Promises \ made, NEW f \in BOOLEAN, NEW v \in Values \cup made,
           ~(f /\ v \in Promises),
           settle_promise(p, f, v, jobs), made' = made \cup {p}, UNCHANGED history
    PROVE  (RegistrationOrder /\ OrderKept /\ RegisteredOnce)'
  <1>i. Inv /\ TypeOK
    BY DEF OrderInv, Inv
  <1>s. Settles(p, f, v) /\ ~Adopts(p, f, v)
    BY <1>i DEF Inv, UnmadePending, Settles, Adopts
  <1>R. promise_reactions[p] = <<>>
    <2>1. promise_reactions[p] \in Seq(PromiseReaction) /\ Len(promise_reactions[p]) \in Nat
      BY <1>i DEF TypeOK
    <2>2. ~(1 \in 1 .. Len(promise_reactions[p]))
      BY <1>i DEF Inv, ReactionsWait
    <2> QED
      BY <2>1, <2>2
  <1>n. /\ jobs' = jobs /\ promise_reactions' = promise_reactions
        /\ promise_state' = [promise_state EXCEPT ![p] = StateName(f)]
        /\ source' = source /\ kind' = kind /\ registered' = registered
    <2>1. Enqueued(p, f, v) = <<>>
      BY <1>s, <1>R DEF Enqueued
    <2>2. jobs' = jobs
      BY <2>1, <1>i DEF settle_promise, TypeOK
    <2>3. promise_reactions' = promise_reactions
      BY <1>s, <1>R, <1>i DEF settle_promise, TypeOK
    <2> QED
      BY <2>2, <2>3, <1>s DEF settle_promise, history
  <1>c. ASSUME NEW r \in Promises, NEW i \in 1 .. Len(registered[r]), NEW z, z = registered[r][i]
        PROVE  Concluded(z, r)' <=> Concluded(z, r)
    <2>1. z[1] \in Promises /\ z[1] # p
      BY <1>c, Entries
    <2>2. promise_state'[z[1]] = promise_state[z[1]]
      BY <2>1, <1>n, <1>i DEF TypeOK
    <2> QED
      BY <2>2, <1>n DEF Concluded, Pending
  <1>1. RegistrationOrder'
    <2> SUFFICES ASSUME NEW r \in Promises, NEW i \in 1 .. Len(registered[r]),
                        NEW j \in 1 .. Len(registered[r]), i < j,
                        NEW x, NEW y, x = registered[r][i], y = registered[r][j],
                        Concluded(y, r)'
                 PROVE  Concluded(x, r)'
      BY <1>n DEF RegistrationOrder, Concluded
    <2>1. Concluded(y, r)
      BY <1>c
    <2>2. Concluded(x, r)
      BY <2>1 DEF OrderInv, RegistrationOrder
    <2> QED
      BY <2>2, <1>c
  <1>2. OrderKept'
    <2> SUFFICES ASSUME NEW r \in Promises, NEW i \in 1 .. Len(registered[r]),
                        NEW j \in 1 .. Len(registered[r]), i < j,
                        NEW x, NEW y, x = registered[r][i], y = registered[r][j],
                        ~Concluded(x, r)', ~Concluded(y, r)'
                 PROVE  InOrder(promise_reactions'[r], x[1], y[1]) /\ InOrder(jobs', x[1], y[1])
      BY <1>n DEF OrderKept, Concluded
    <2>1. ~Concluded(x, r) /\ ~Concluded(y, r)
      BY <1>c
    <2> QED
      BY <2>1, <1>n DEF OrderInv, OrderKept
  <1>3. RegisteredOnce'
    BY <1>n DEF OrderInv, RegisteredOnce
  <1> QED
    BY <1>1, <1>2, <1>3

LEMMA ControlOrder ==
    ASSUME OrderInv, UNCHANGED <<made, promise_state, promise_reactions, jobs>>, UNCHANGED history
    PROVE  (RegistrationOrder /\ OrderKept /\ RegisteredOnce)'
  <1> USE DEF history
  <1>1. RegistrationOrder'
    BY DEF OrderInv, RegistrationOrder, Concluded, Pending
  <1>2. OrderKept'
    BY DEF OrderInv, OrderKept, Concluded, Pending
  <1>3. RegisteredOnce'
    BY DEF OrderInv, RegisteredOnce
  <1> QED
    BY <1>1, <1>2, <1>3

-----------------------------------------------------------------------------
\* Every step keeps the order.
LEMMA OrderInit == Init => OrderInv
  <1> SUFFICES ASSUME Init PROVE OrderInv
    OBVIOUS
  <1>1. \A s \in Promises : \A i \in 1 .. Len(registered[s]) : FALSE
    BY DEF Init
  <1>2. RegistrationOrder /\ OrderKept /\ RegisteredOnce
    BY <1>1 DEF RegistrationOrder, OrderKept, RegisteredOnce
  <1> QED
    BY <1>2, InitInv DEF OrderInv

LEMMA ApiOrder ==
    ASSUME OrderInv, ApiCall
    PROVE  (RegistrationOrder /\ OrderKept /\ RegisteredOnce)'
  <1> USE ConstantsDistinct
  <1>1. PICK p \in Promises \ made :
           \/ \E v \in Values : promise_resolve(p, v)
           \/ \E v \in Values \cup made : promise_reject(p, v)
           \/ \E s \in made, f \in Functions : promise_then(s, f, p)
           \/ \E s \in made, f \in Functions : promise_catch(s, f, p)
    BY CallMakes DEF OrderInv, Inv, TypeOK
  <1>2. CASE \E v \in Values : promise_resolve(p, v)
    <2>1. PICK v \in Values : promise_resolve(p, v)
      BY <1>2
    <2>2. v \notin Promises
      OBVIOUS
    <2> QED
      BY <2>1, <2>2, MakeOrder DEF promise_resolve
  <1>3. CASE \E v \in Values \cup made : promise_reject(p, v)
    BY <1>3, MakeOrder DEF promise_reject
  <1>4. CASE \E s \in made, f \in Functions : promise_then(s, f, p)
    BY <1>4, MakesReaction, ReactOrder DEF promise_then, Handlers
  <1>5. CASE \E s \in made, f \in Functions : promise_catch(s, f, p)
    BY <1>5, MakesReaction, ReactOrder DEF promise_catch, Handlers
  <1> QED
    BY <1>1, <1>2, <1>3, <1>4, <1>5

LEMMA PropagateOrder ==
    ASSUME OrderInv, Propagate
    PROVE  (RegistrationOrder /\ OrderKept /\ RegisteredOnce)'
  <1> DEFINE t == jobs[1].next_promise
             f == jobs[1].fulfilled
             v == jobs[1].result
  <1>1. jobs # <<>> /\ settle_promise(t, f, v, Tail(jobs)) /\ UNCHANGED made
    BY DEF Propagate
  <1>2. f \in BOOLEAN /\ v \in Results /\ ~(f /\ v \in Promises)
    BY <1>1, ForwardedOutcome DEF OrderInv
  <1>3. UNCHANGED history
    BY <1>2 DEF Propagate, RegistersAdoption, Adopts
  <1> HIDE DEF f, v
  <1> QED
    BY <1>1, <1>2, <1>3, SettleOrder

LEMMA HandlerOrder ==
    ASSUME OrderInv, NEW v \in Values \cup made, HandlerThrows(v) \/ HandlerReturns(v)
    PROVE  (RegistrationOrder /\ OrderKept /\ RegisteredOnce)'
  <1> USE ConstantsDistinct
  <1>1. jobs # <<>> /\ handler # Undefined
    BY DEF HandlerThrows, HandlerReturns, OrderInv, Inv, HandlerOwnsFront
  <1>2. v \in Results /\ made \subseteq Promises
    BY DEF OrderInv, Inv, TypeOK, Results
  <1>3. Pending(jobs[1].next_promise)
    BY <1>1, FrontJob DEF OrderInv
  <1>4. CASE HandlerThrows(v)
    BY <1>1, <1>2, <1>4, SettleOrder DEF HandlerThrows
  <1>5. CASE HandlerReturns(v) /\ v \in Promises
    <2>1. v \in made
      BY <1>5
    <2>2. Registers(jobs[1].next_promise, "adopt", v)
      BY <1>3, <1>5 DEF HandlerReturns, RegistersAdoption, Adopts
    <2> QED
      BY <1>1, <1>5, <2>1, <2>2, AdoptOrder DEF HandlerReturns
  <1>6. CASE HandlerReturns(v) /\ v \notin Promises
    <2>1. UNCHANGED history
      BY <1>6 DEF HandlerReturns, RegistersAdoption, Adopts
    <2> QED
      BY <1>1, <1>2, <1>6, <2>1, SettleOrder DEF HandlerReturns
  <1> QED
    BY <1>4, <1>5, <1>6

LEMMA OrderNext == OrderInv /\ [Next]_vars => OrderInv'
  <1> SUFFICES ASSUME OrderInv, [Next]_vars
               PROVE  (RegistrationOrder /\ OrderKept /\ RegisteredOnce)'
    BY NextKeeps DEF OrderInv
  <1>1. CASE ApiCall
    BY <1>1, ApiOrder
  <1>2. CASE RunJobs \/ Drained \/ CallHandler \/ HandlerFails
    BY <1>2, ControlOrder DEF RunJobs, Drained, CallHandler, HandlerFails
  <1>3. CASE Propagate
    BY <1>3, PropagateOrder
  <1>4. CASE \E v \in Values \cup made : HandlerThrows(v)
    BY <1>4, HandlerOrder
  <1>5. CASE \E v \in Values \cup made : HandlerReturns(v)
    BY <1>5, HandlerOrder
  <1>6. CASE UNCHANGED vars
    BY <1>6, ControlOrder DEF vars, history
  <1> QED
    BY <1>1, <1>2, <1>3, <1>4, <1>5, <1>6 DEF Next, RunStep

\* The reactions registered on one promise run in the order of their registration,
\* whether it was pending or settled then, and however often run_jobs failed on
\* a job, left it in the queue and was called again.
THEOREM ReactionsRunInOrder == Spec => []RegistrationOrder
  <1>1. OrderInv => RegistrationOrder
    BY DEF OrderInv
  <1> QED
    BY <1>1, OrderInit, OrderNext, PTL DEF Spec

=============================================================================
