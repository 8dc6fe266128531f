---------------------------- MODULE PromiseChain ----------------------------
(***************************************************************************)
(* What promises promise, with neither reaction lists nor a job queue: a   *)
(* promise is settled from the start, or waits for one other promise and   *)
(* takes its outcome, through a handler if there is one for that outcome,  *)
(* after that promise has settled.                                         *)
(***************************************************************************)
CONSTANTS Promises, Values, Undefined, NoPromise

VARIABLES status,   \* unmade, pending, fulfilled or rejected
          result,   \* what a settled promise settled with
          waits,    \* the promise a pending promise waits for
          kind      \* how: through a then or a catch handler, or as its adopter

vars == <<status, result, waits, kind>>

Made == {p \in Promises : status[p] # "unmade"}
Settled(p) == status[p] \in {"fulfilled", "rejected"}

\* p's handler is for the outcome of the promise it waits for.
Handled(p) ==
    \/ kind[p] = "then" /\ status[waits[p]] = "fulfilled"
    \/ kind[p] = "catch" /\ status[waits[p]] = "rejected"

\* p is pending, and what it waits for is there.
Ready(p) == status[p] = "pending" /\ waits[p] \in Made /\ Settled(waits[p])

Become(p, s, v) ==
    /\ status' = [status EXCEPT ![p] = s]
    /\ result' = [result EXCEPT ![p] = v]
    /\ UNCHANGED <<waits, kind>>

Wait(p, k, s) ==
    /\ status' = [status EXCEPT ![p] = "pending"]
    /\ waits' = [waits EXCEPT ![p] = s]
    /\ kind' = [kind EXCEPT ![p] = k]
    /\ UNCHANGED result

Settle(p, v) == \/ v \in Values /\ Become(p, "fulfilled", v)
                \/ Become(p, "rejected", v)

Init ==
    /\ status = [p \in Promises |-> "unmade"]
    /\ result = [p \in Promises |-> Undefined]
    /\ waits = [p \in Promises |-> NoPromise]
    /\ kind = [p \in Promises |-> "none"]

Make(p, v) == status[p] = "unmade" /\ Settle(p, v)

Chain(p, k, s) == status[p] = "unmade" /\ Wait(p, k, s)

\* Without a handler the outcome is handed on as it is.
Forward(p) == Ready(p) /\ ~Handled(p) /\ Become(p, status[waits[p]], result[waits[p]])

\* A handler decides: it returns or throws a value, or returns another promise.
Conclude(p, v) == Ready(p) /\ Handled(p) /\ Settle(p, v)
Adopt(p, q) == Ready(p) /\ Handled(p) /\ p # q /\ Wait(p, "adopt", q)

Next ==
    \E p \in Promises :
       \/ \E v \in Values \cup Made : Make(p, v)
       \/ \E k \in {"then", "catch"}, s \in Made : Chain(p, k, s)
       \/ Forward(p)
       \/ \E v \in Values \cup Made : Conclude(p, v)
       \/ \E q \in Made : Adopt(p, q)

Spec == Init /\ [][Next]_vars
=============================================================================
