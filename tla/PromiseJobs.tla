----------------------------- MODULE PromiseJobs -----------------------------
(***************************************************************************)
(* Promises and the host-driven job queue: Context::promise_resolve,       *)
(* promise_reject, promise_then and promise_catch, Runtime::settle_promise *)
(* and the loop of Runtime::run_jobs.                                      *)
(*                                                                         *)
(* The script and the host are one actor: whenever a handler runs, or no   *)
(* run_jobs is active, it may make any of the API calls with any promise   *)
(* made so far.  run_jobs is not atomic: the call of a handler lies        *)
(* between reading the front job and popping it, and the handler's own API *)
(* calls change the queue in between.  A handler never calls run_jobs.     *)
(*                                                                         *)
(* source, kind and registered are history variables: the code keeps none  *)
(* of them, and no action reads them.                                      *)
(***************************************************************************)
EXTENDS Naturals, Sequences

CONSTANTS Promises,      \* the promises the heap has room for
          Values,        \* values that are not promises
          Functions,     \* reaction handlers
          Undefined,     \* the value undefined
          NoPromise

ASSUME ConstantsDistinct ==
    /\ Undefined \in Values
    /\ NoPromise \notin Promises
    /\ Promises \cap Values = {}
    /\ Functions \cap Values = {}

VARIABLES
    made,               \* promises allocated by make_promise
    promise_state,      \* HeapObject::promise_state
    promise_result,     \* HeapObject::promise_result
    promise_reactions,  \* HeapObject::promise_reactions
    jobs,               \* Runtime::jobs_
    phase,              \* who is running: the host, the run_jobs loop, a handler
    returned,           \* what the last finished run_jobs returned
    source,             \* history: the promise each promise waits for
    kind,               \* history: what was registered with that promise
    registered          \* history: registrations on each promise, in order

vars == <<made, promise_state, promise_result, promise_reactions, jobs, phase,
          returned, source, kind, registered>>
history == <<source, kind, registered>>

-----------------------------------------------------------------------------
Handlers == Functions \cup {Undefined}
Results == Values \cup Promises
Kinds == {"then", "catch", "adopt"}

PromiseReaction ==
    [on_fulfilled : Handlers, on_rejected : Handlers, next_promise : Promises]
PromiseReactionJob ==
    [fulfilled : BOOLEAN, result : Results,
     on_fulfilled : Handlers, on_rejected : Handlers, next_promise : Promises]

Reaction(f, r, p) ==
    [on_fulfilled |-> f, on_rejected |-> r, next_promise |-> p]

\* enqueue_promise_reaction: the job that carries reaction x of a settled promise
JobOf(x, fulfilled, result) ==
    [fulfilled |-> fulfilled, result |-> result,
     on_fulfilled |-> x.on_fulfilled, on_rejected |-> x.on_rejected,
     next_promise |-> x.next_promise]

Pending(p) == promise_state[p] = "pending"

\* Mutant: the handler for fulfilment is taken for both outcomes.
HandlerOneSided == jobs[1].on_fulfilled

\* The handler of the front job that run_jobs selects.
handler == IF jobs[1].fulfilled THEN jobs[1].on_fulfilled ELSE jobs[1].on_rejected

-----------------------------------------------------------------------------
(* Runtime::settle_promise, once the target is known not to be the result. *)
Adopts(target, fulfilled, result) ==
    Pending(target) /\ fulfilled /\ result \in Promises
Settles(target, fulfilled, result) ==
    Pending(target) /\ ~(fulfilled /\ result \in Promises)

StateName(fulfilled) == IF fulfilled THEN "fulfilled" ELSE "rejected"

\* Mutant: the reactions of the settled promise are queued last to first.
EnqueuedBackwards(target, fulfilled, result) ==
    IF Settles(target, fulfilled, result)
    THEN LET n == Len(promise_reactions[target])
         IN  [i \in 1 .. n |-> JobOf(promise_reactions[target][n + 1 - i], fulfilled, result)]
    ELSE IF Adopts(target, fulfilled, result) /\ ~Pending(result)
         THEN <<JobOf(Reaction(Undefined, Undefined, target),
                      promise_state[result] = "fulfilled", promise_result[result])>>
         ELSE <<>>

\* The jobs that settling the target enqueues: its reactions, in their order,
\* or the adoption of a promise that has settled already.
Enqueued(target, fulfilled, result) ==
    IF Settles(target, fulfilled, result)
    THEN [i \in 1 .. Len(promise_reactions[target]) |->
             JobOf(promise_reactions[target][i], fulfilled, result)]
    ELSE IF Adopts(target, fulfilled, result) /\ ~Pending(result)
         THEN <<JobOf(Reaction(Undefined, Undefined, target),
                      promise_state[result] = "fulfilled", promise_result[result])>>
         ELSE <<>>

\* queue is what is left of jobs_ when the call that settles has finished.
settle_promise(target, fulfilled, result, queue) ==
    /\ promise_state' =
         [promise_state EXCEPT ![target] =
            IF Settles(target, fulfilled, result) THEN StateName(fulfilled) ELSE @]
    /\ promise_result' =
         [promise_result EXCEPT ![target] =
            IF Settles(target, fulfilled, result) THEN result ELSE @]
    /\ promise_reactions' =
         [p \in Promises |->
            IF p = target /\ Settles(target, fulfilled, result) THEN <<>>
            ELSE IF p = result /\ Adopts(target, fulfilled, result) /\ Pending(p)
                 THEN Append(promise_reactions[p], Reaction(Undefined, Undefined, target))
                 ELSE promise_reactions[p]]
    /\ jobs' = queue \o Enqueued(target, fulfilled, result)

\* history: p now waits for s
Registers(p, k, s) ==
    /\ source' = [source EXCEPT ![p] = s]
    /\ kind' = [kind EXCEPT ![p] = k]
    /\ registered' = [registered EXCEPT ![s] = Append(@, <<p, k>>)]

RegistersAdoption(target, fulfilled, result) ==
    IF Adopts(target, fulfilled, result)
    THEN Registers(target, "adopt", result)
    ELSE UNCHANGED history

-----------------------------------------------------------------------------
Init ==
    /\ made = {}
    /\ promise_state = [p \in Promises |-> "pending"]
    /\ promise_result = [p \in Promises |-> Undefined]
    /\ promise_reactions = [p \in Promises |-> <<>>]
    /\ jobs = <<>>
    /\ phase = "host"
    /\ returned = "none"
    /\ source = [p \in Promises |-> NoPromise]
    /\ kind = [p \in Promises |-> "none"]
    /\ registered = [p \in Promises |-> <<>>]

\* Runtime::make_promise: the new cell is one that no promise has.  Which one the
\* heap hands out is fixed by what it has handed out before, and nothing in the
\* code depends on it.
make_promise == CHOOSE p \in Promises : p \notin made

\* The script or the host has control, and may call into the Context.
InControl == phase \in {"host", "handler"}

\* promise_resolve makes a promise only for a value that is not one.
promise_resolve(p, value) ==
    /\ InControl
    /\ made' = made \cup {p}
    /\ settle_promise(p, TRUE, value, jobs)
    /\ UNCHANGED <<phase, returned>> /\ UNCHANGED history

promise_reject(p, value) ==
    /\ InControl
    /\ made' = made \cup {p}
    /\ settle_promise(p, FALSE, value, jobs)
    /\ UNCHANGED <<phase, returned>> /\ UNCHANGED history

\* What promise_then and promise_catch share: reaction x on s, chained to a new p.
React(s, x, k) ==
    /\ InControl
    /\ made' = made \cup {x.next_promise}
    /\ promise_reactions' =
         IF Pending(s) THEN [promise_reactions EXCEPT ![s] = Append(@, x)]
                       ELSE promise_reactions
    /\ jobs' =
         IF Pending(s) THEN jobs
         ELSE Append(jobs, JobOf(x, promise_state[s] = "fulfilled", promise_result[s]))
    /\ Registers(x.next_promise, k, s)
    /\ UNCHANGED <<promise_state, promise_result, phase, returned>>

promise_then(s, f, p) == React(s, Reaction(f, Undefined, p), "then")
promise_catch(s, f, p) == React(s, Reaction(Undefined, f, p), "catch")

\* Mutant: promise_then takes any value for a handler.
ApiCallUnchecked ==
    /\ made # Promises
    /\ \/ \E v \in Values : promise_resolve(make_promise, v)
       \/ \E s \in made, f \in made : promise_then(s, f, make_promise)

\* Every call that allocates takes a promise not made before.
ApiCall ==
    /\ made # Promises
    /\ \/ \E v \in Values : promise_resolve(make_promise, v)
       \/ \E v \in Values \cup made : promise_reject(make_promise, v)
       \/ \E s \in made, f \in Functions : promise_then(s, f, make_promise)
       \/ \E s \in made, f \in Functions : promise_catch(s, f, make_promise)

-----------------------------------------------------------------------------
(* Runtime::run_jobs *)
RunJobs ==
    /\ phase = "host"
    /\ phase' = "jobs"
    /\ UNCHANGED <<made, promise_state, promise_result, promise_reactions, jobs,
                   returned>> /\ UNCHANGED history

Drained ==
    /\ phase = "jobs" /\ jobs = <<>>
    /\ phase' = "host" /\ returned' = "ok"
    /\ UNCHANGED <<made, promise_state, promise_result, promise_reactions, jobs>>
    /\ UNCHANGED history

\* Mutant: the job is not popped once its outcome is handed on.
PropagateKeeps ==
    /\ phase = "jobs" /\ jobs # <<>>
    /\ handler = Undefined
    /\ settle_promise(jobs[1].next_promise, jobs[1].fulfilled, jobs[1].result, jobs)
    /\ RegistersAdoption(jobs[1].next_promise, jobs[1].fulfilled, jobs[1].result)
    /\ UNCHANGED <<made, phase, returned>>

\* A job without a handler for its outcome hands the outcome on.
Propagate ==
    /\ phase = "jobs" /\ jobs # <<>>
    /\ handler = Undefined
    /\ settle_promise(jobs[1].next_promise, jobs[1].fulfilled, jobs[1].result, Tail(jobs))
    /\ RegistersAdoption(jobs[1].next_promise, jobs[1].fulfilled, jobs[1].result)
    /\ UNCHANGED <<made, phase, returned>>

CallHandler ==
    /\ phase = "jobs" /\ jobs # <<>>
    /\ handler # Undefined
    /\ phase' = "handler"
    /\ UNCHANGED <<made, promise_state, promise_result, promise_reactions, jobs,
                   returned>> /\ UNCHANGED history

HandlerThrows(v) ==
    /\ phase = "handler"
    /\ settle_promise(jobs[1].next_promise, FALSE, v, Tail(jobs))
    /\ phase' = "jobs"
    /\ UNCHANGED <<made, returned>> /\ UNCHANGED history

HandlerReturns(v) ==
    /\ phase = "handler"
    /\ v # jobs[1].next_promise
    /\ settle_promise(jobs[1].next_promise, TRUE, v, Tail(jobs))
    /\ RegistersAdoption(jobs[1].next_promise, TRUE, v)
    /\ phase' = "jobs"
    /\ UNCHANGED <<made, returned>>

\* Mutant: a failed job is dropped from the queue.
HandlerFailsPops ==
    /\ phase = "handler"
    /\ phase' = "host" /\ returned' = "error"
    /\ jobs' = Tail(jobs)
    /\ UNCHANGED <<made, promise_state, promise_result, promise_reactions>>
    /\ UNCHANGED history

\* run_jobs returns an error and leaves the job where it is: the handler ended
\* in an engine failure, or returned the very promise that the job settles.
HandlerFails ==
    /\ phase = "handler"
    /\ phase' = "host" /\ returned' = "error"
    /\ UNCHANGED <<made, promise_state, promise_result, promise_reactions, jobs>>
    /\ UNCHANGED history

RunStep ==
    \/ RunJobs
    \/ Drained
    \/ Propagate
    \/ CallHandler
    \/ \E v \in Values \cup made : HandlerThrows(v)
    \/ \E v \in Values \cup made : HandlerReturns(v)
    \/ HandlerFails

Next == ApiCall \/ RunStep

Spec == Init /\ [][Next]_vars

\* The host calls run_jobs again and again, the loop is sequential code that
\* runs on, and every handler ends.
Fairness ==
    /\ WF_vars(RunJobs)
    /\ WF_vars(Drained \/ Propagate \/ CallHandler)
    /\ WF_vars(HandlerFails \/ \E v \in Values \cup made :
                  HandlerThrows(v) \/ HandlerReturns(v))
LiveSpec == Spec /\ Fairness

-----------------------------------------------------------------------------
\* Every variable has its type.
TypeOK ==
    /\ made \subseteq Promises
    /\ promise_state \in [Promises -> {"pending", "fulfilled", "rejected"}]
    /\ promise_result \in [Promises -> Results]
    /\ promise_reactions \in [Promises -> Seq(PromiseReaction)]
    /\ jobs \in Seq(PromiseReactionJob)
    /\ phase \in {"host", "jobs", "handler"}
    /\ returned \in {"none", "ok", "error"}
    /\ source \in [Promises -> Promises \cup {NoPromise}]
    /\ kind \in [Promises -> Kinds \cup {"none"}]
    /\ registered \in [Promises -> Seq(Promises \X Kinds)]

\* What is registered for promise p by reaction or job x is what history says.
KindMatches(x, k) ==
    /\ (x.on_fulfilled # Undefined) <=> (k = "then")
    /\ (x.on_rejected # Undefined) <=> (k = "catch")

\* Reactions wait on pending promises only, and for one promise each.
ReactionsWait ==
    \A s \in Promises : \A i \in 1 .. Len(promise_reactions[s]) :
       LET x == promise_reactions[s][i] IN
       /\ s \in made /\ Pending(s)
       /\ x.next_promise \in made /\ Pending(x.next_promise)
       /\ source[x.next_promise] = s
       /\ KindMatches(x, kind[x.next_promise])
       /\ \A j \in 1 .. Len(promise_reactions[s]) :
             promise_reactions[s][j].next_promise = x.next_promise => i = j

\* A queued job carries the outcome its source settled with.
JobsCarryOutcomes ==
    \A i \in 1 .. Len(jobs) :
       LET p == jobs[i].next_promise IN
       /\ p \in made /\ Pending(p)
       /\ source[p] \in made /\ ~Pending(source[p])
       /\ jobs[i].fulfilled = (promise_state[source[p]] = "fulfilled")
       /\ jobs[i].result = promise_result[source[p]]
       /\ KindMatches(jobs[i], kind[p])
       /\ \A j \in 1 .. Len(jobs) : jobs[j].next_promise = p => i = j

\* A pending promise is never abandoned: a reaction or a job will settle it.
HasResolver(p) ==
    \/ \E i \in 1 .. Len(jobs) : jobs[i].next_promise = p
    \/ /\ source[p] \in Promises
       /\ \E i \in 1 .. Len(promise_reactions[source[p]]) :
             promise_reactions[source[p]][i].next_promise = p

\* Every pending promise has exactly one resolver: one reaction on a pending
\* promise, or one job that carries the outcome of the promise it waited for.
\* So the early return of settle_promise for a settled target never drops an
\* outcome, whatever handlers, failures and retries the host goes through.
SingleResolver ==
    /\ ReactionsWait
    /\ JobsCarryOutcomes
    /\ \A p \in made : Pending(p) => HasResolver(p)

\* The registration e on s has run: its promise no longer waits for s by it.
Concluded(e, s) ==
    ~(Pending(e[1]) /\ source[e[1]] = s /\ kind[e[1]] = e[2])

\* Reactions on one promise run in the order in which they were registered,
\* before or after it settled, and across jobs that failed and were retried.
RegistrationOrder ==
    \A s \in Promises : \A i, j \in 1 .. Len(registered[s]) :
       i < j /\ Concluded(registered[s][j], s) => Concluded(registered[s][i], s)

Queued(p) == \E i \in 1 .. Len(jobs) : jobs[i].next_promise = p

\* Unless run_jobs keeps returning errors, every queued job is run in the end.
JobsDrain ==
    <>[](returned # "error") =>
       \A p \in Promises : Queued(p) ~> ~Queued(p)
-----------------------------------------------------------------------------
(* PromiseChain is what the queue, the reaction lists and the loop implement. *)
status == [p \in Promises |-> IF p \in made THEN promise_state[p] ELSE "unmade"]

Abstract == INSTANCE PromiseChain WITH
    result <- promise_result, waits <- source

\* Every behaviour of the queue and the reaction lists is one of PromiseChain: a
\* promise settles once, after the promise it waits for, with the outcome that
\* its handler for that outcome decided, or with that very outcome.
ImplementsChains == Abstract!Spec
=============================================================================
