---------------------------- MODULE ModuleProofs ----------------------------
(***************************************************************************)
(* Proofs about Modules for every set of names and every set of import     *)
(* graphs: bodies run at most once, dependencies run first, and a success  *)
(* that is reported to the host is true.                                   *)
(***************************************************************************)
EXTENDS Modules, TLAPS

\* The status of a record while op works on it.
Busy(op) == IF op = "link" THEN "linking" ELSE "evaluating"

\* An import that op has dealt with.
Reached(s, op, d) == IF op = "link" THEN s[d] # "absent"
                                    ELSE s[d] \in {"evaluating", "evaluated"}

\* The calls on the stack are all of one kind, each for another record, which
\* is busy with it and never failed; only the innermost call runs a body.
CallsNest ==
    \A i \in 1 .. Len(calls) : LET c == calls[i] IN
       /\ c.op = calls[1].op
       /\ status[c.name] = Busy(c.op)
       /\ c.name \notin failed
       /\ \A j \in 1 .. Len(calls) : calls[j].name = c.name => j = i
       /\ c.at <= Len(imports[c.name]) + 1
       /\ c.step = "bind" => c.op = "link" /\ c.at <= Len(imports[c.name])
       /\ c.step = "body" =>
             c.op = "evaluate" /\ i = Len(calls) /\ c.at = Len(imports[c.name]) + 1

\* A call has dealt with the imports it has passed, and with the one whose
\* binding comes next.
ImportsReached ==
    \A i \in 1 .. Len(calls) : LET c == calls[i] IN
       \A j \in 1 .. Len(imports[c.name]) :
          j < c.at \/ (j = c.at /\ c.step = "bind") => Reached(status, c.op, imports[c.name][j])

\* Bindings are stored one by one, and a linked record has all of them.
BindingsStored ==
    /\ \A i \in 1 .. Len(calls) : calls[i].op = "link" => bound[calls[i].name] = calls[i].at - 1
    /\ \A m \in Names : status[m] = "absent" => bound[m] = 0
    /\ \A m \in Names : IsLinked(m) =>
          /\ bound[m] = Len(imports[m])
          /\ \A i \in 1 .. Len(imports[m]) : status[imports[m][i]] # "absent"

\* A record is left busy by a call that is active or by one that failed.
BusyExplained ==
    /\ \A m \in Names : status[m] = "linking" => OnStack(m, "link") \/ m \in failed
    /\ \A m \in Names : status[m] = "evaluating" => OnStack(m, "evaluate") \/ m \in failed
    /\ \A m \in failed : status[m] \in {"linking", "evaluating"}

\* A module whose body has started is running it, is done, or failed.
BodiesStarted ==
    /\ EvaluatedOnce
    /\ \A i \in 1 .. Len(ran) :
          \/ status[ran[i]] = "evaluated"
          \/ ran[i] \in failed
          \/ \E k \in 1 .. Len(calls) : calls[k].name = ran[i] /\ calls[k].step = "body"
    /\ \A m \in Names : status[m] = "evaluated" => export[m] = "initialized"

\* The outermost call works for the host's request, which has no result yet.
RequestServed ==
    /\ request.op = "none" => returned = "none" /\ ~Active
    /\ Active => /\ returned = "none"
                 /\ calls[1].name = request.name
                 /\ calls[1].op = "evaluate" => request.op = "evaluate"

\* The inductive invariant.
Inv ==
    /\ TypeOK
    /\ CallsNest
    /\ ImportsReached
    /\ BindingsStored
    /\ BusyExplained
    /\ BodiesStarted
    /\ RequestServed
    /\ HostIsToldTrue

-----------------------------------------------------------------------------
\* The top of a stack is dropped, or replaced.
LEMMA TopDropped ==
    ASSUME NEW S, NEW s \in Seq(S), s # <<>>
    PROVE  LET t == SubSeq(s, 1, Len(s) - 1)
           IN  /\ t \in Seq(S) /\ Len(t) = Len(s) - 1
               /\ \A i \in 1 .. Len(s) - 1 : t[i] = s[i]
  <1>1. Len(s) \in Nat /\ Len(s) >= 1
    OBVIOUS
  <1>2. SubSeq(s, 1, Len(s) - 1) \in Seq(S)
    BY <1>1
  <1>3. Len(SubSeq(s, 1, Len(s) - 1)) = Len(s) - 1
    BY SMTT(60), <1>1
  <1>4. \A i \in 1 .. Len(s) - 1 : SubSeq(s, 1, Len(s) - 1)[i] = s[i]
    BY <1>1
  <1> QED
    BY <1>2, <1>3, <1>4

LEMMA TopReplaced ==
    ASSUME NEW S, NEW s \in Seq(S), s # <<>>, NEW c \in S
    PROVE  LET t == Append(SubSeq(s, 1, Len(s) - 1), c)
           IN  /\ t \in Seq(S) /\ Len(t) = Len(s) /\ t[Len(s)] = c
               /\ \A i \in 1 .. Len(s) - 1 : t[i] = s[i]
  <1> DEFINE u == SubSeq(s, 1, Len(s) - 1)
  <1>1. Len(s) \in Nat /\ Len(s) >= 1
    OBVIOUS
  <1>2. u \in Seq(S) /\ Len(u) = Len(s) - 1 /\ \A i \in 1 .. Len(s) - 1 : u[i] = s[i]
    BY TopDropped
  <1> HIDE DEF u
  <1>3. /\ Append(u, c) \in Seq(S) /\ Len(Append(u, c)) = Len(s) /\ Append(u, c)[Len(s)] = c
        /\ \A i \in 1 .. Len(s) - 1 : Append(u, c)[i] = u[i]
    BY <1>1, <1>2
  <1> QED
    BY <1>2, <1>3 DEF u

LEMMA Appended ==
    ASSUME NEW S, NEW s \in Seq(S), NEW e \in S
    PROVE  /\ Append(s, e) \in Seq(S) /\ Len(Append(s, e)) = Len(s) + 1
           /\ Append(s, e)[Len(s) + 1] = e
           /\ \A i \in 1 .. Len(s) : Append(s, e)[i] = s[i]
  OBVIOUS

\* The fields of a call, and a call that is made.
LEMMA CallFields ==
    ASSUME NEW c \in Call
    PROVE  /\ c.op \in {"link", "evaluate"} /\ c.name \in Names
           /\ c.at \in Nat /\ c.at >= 1 /\ c.step \in Steps
  BY DEF Call

LEMMA Entered ==
    ASSUME NEW op \in {"link", "evaluate"}, NEW m \in Names
    PROVE  /\ Enter(op, m) \in Call /\ Enter(op, m).op = op /\ Enter(op, m).name = m
           /\ Enter(op, m).at = 1 /\ Enter(op, m).step = "load"
  BY DEF Enter, Call, Steps

\* The active call: its record, its imports, and where it is among them.
LEMMA TopFacts ==
    ASSUME Inv, Active
    PROVE  /\ calls \in Seq(Call) /\ Len(calls) \in Nat /\ Len(calls) >= 1
           /\ Len(calls) \in 1 .. Len(calls)
           /\ Top = calls[Len(calls)] /\ Top \in Call
           /\ Top.op \in {"link", "evaluate"} /\ Top.name \in Names
           /\ Top.at \in Nat /\ Top.at >= 1 /\ Top.step \in Steps
           /\ Top.op = calls[1].op
           /\ imports[Top.name] \in Seq(Names) /\ Len(imports[Top.name]) \in Nat
           /\ status[Top.name] = Busy(Top.op) /\ Top.name \notin failed
           /\ MoreImports => Dependency \in Names /\ Top.at \in 1 .. Len(imports[Top.name])
  <1>1. calls \in Seq(Call) /\ Len(calls) \in Nat /\ Len(calls) >= 1
    BY DEF Inv, TypeOK, Active
  <1>2. Len(calls) \in 1 .. Len(calls) /\ Top \in Call /\ Top = calls[Len(calls)]
    BY <1>1 DEF Top
  <1>3. /\ Top.op \in {"link", "evaluate"} /\ Top.name \in Names
        /\ Top.at \in Nat /\ Top.at >= 1 /\ Top.step \in Steps
    BY <1>2, CallFields
  <1>4. imports[Top.name] \in Seq(Names) /\ Len(imports[Top.name]) \in Nat
    BY <1>3 DEF Inv, TypeOK
  <1>5. /\ Top.op = calls[1].op /\ status[Top.name] = Busy(Top.op)
        /\ Top.name \notin failed
    BY <1>2 DEF Inv, CallsNest
  <1>6. MoreImports => Dependency \in Names /\ Top.at \in 1 .. Len(imports[Top.name])
    BY <1>3, <1>4 DEF MoreImports, Dependency
  <1> QED
    BY <1>1, <1>2, <1>3, <1>4, <1>5, <1>6

\* Every record on the stack has a call of its own kind.
LEMMA StackedNames ==
    ASSUME Inv, NEW i \in 1 .. Len(calls)
    PROVE  /\ calls[i] \in Call /\ calls[i].name \in Names
           /\ calls[i].op \in {"link", "evaluate"} /\ calls[i].at \in Nat
           /\ calls[i].step \in Steps
           /\ imports[calls[i].name] \in Seq(Names)
           /\ Len(imports[calls[i].name]) \in Nat
           /\ \A j \in 1 .. Len(imports[calls[i].name]) : imports[calls[i].name][j] \in Names
  <1>1. calls[i] \in Call
    BY DEF Inv, TypeOK
  <1>2. /\ calls[i].name \in Names /\ calls[i].op \in {"link", "evaluate"}
        /\ calls[i].at \in Nat /\ calls[i].step \in Steps
    BY <1>1, CallFields
  <1>3. imports[calls[i].name] \in Seq(Names)
    BY <1>2 DEF Inv, TypeOK
  <1> QED
    BY <1>1, <1>2, <1>3

-----------------------------------------------------------------------------
LEMMA InitInv == Init => Inv
  <1> SUFFICES ASSUME Init PROVE Inv
    OBVIOUS
  <1>1. TypeOK
    BY GraphsAssumption DEF Init, TypeOK, States
  <1>2. Len(calls) = 0 /\ Len(ran) = 0
    BY DEF Init
  <1>3. CallsNest /\ ImportsReached
    BY <1>2 DEF CallsNest, ImportsReached
  <1>4. BindingsStored
    BY <1>2 DEF BindingsStored, Init, IsLinked
  <1>5. BusyExplained
    BY DEF BusyExplained, Init
  <1>6. BodiesStarted
    BY <1>2 DEF BodiesStarted, EvaluatedOnce, Init
  <1>7. RequestServed /\ HostIsToldTrue
    BY DEF RequestServed, HostIsToldTrue, Init, Active
  <1> QED
    BY <1>1, <1>3, <1>4, <1>5, <1>6, <1>7 DEF Inv

\* An error leaves the records it passes busy, and failed for good.
LEMMA UnwindKeeps ==
    ASSUME Inv, Active, Unwind, UNCHANGED export
    PROVE  Inv'
  <1>1. /\ calls' = <<>> /\ Len(calls') = 0 /\ returned' = "error" /\ ~Active'
        /\ failed' = failed \cup {calls[i].name : i \in 1 .. Len(calls)}
        /\ UNCHANGED <<imports, status, bound, export, request, ran>>
    BY DEF Unwind, Active
  <1>2. TypeOK'
    <2>1. failed' \subseteq Names
      BY <1>1, StackedNames DEF Inv, TypeOK
    <2> QED
      BY <1>1, <2>1 DEF Inv, TypeOK
  <1>3. CallsNest' /\ ImportsReached'
    BY <1>1 DEF CallsNest, ImportsReached
  <1>4. BindingsStored'
    BY <1>1 DEF Inv, BindingsStored, IsLinked
  <1>5. BusyExplained'
    <2>1. \A m \in Names, op \in {"link", "evaluate"} : OnStack(m, op) => m \in failed'
      BY <1>1 DEF OnStack
    <2>2. \A i \in 1 .. Len(calls) : status[calls[i].name] \in {"linking", "evaluating"}
      BY DEF Inv, CallsNest, Busy
    <2> QED
      BY <1>1, <2>1, <2>2 DEF Inv, BusyExplained
  <1>6. BodiesStarted'
    BY <1>1 DEF Inv, BodiesStarted, EvaluatedOnce
  <1>7. RequestServed' /\ HostIsToldTrue'
    BY <1>1 DEF Inv, RequestServed, HostIsToldTrue
  <1> QED
    BY <1>2, <1>3, <1>4, <1>5, <1>6, <1>7 DEF Inv

-----------------------------------------------------------------------------
(* The three ways a call changes the stack: it moves on, it enters another *)
(* call, or it returns.                                                    *)

LEMMA Moves ==
    ASSUME Inv, Active, NEW c \in Call, c.op = Top.op, c.name = Top.name,
           calls' = WithTop(c)
    PROVE  /\ calls' \in Seq(Call) /\ Len(calls') = Len(calls) /\ Active'
           /\ calls'[Len(calls)] = c /\ Top' = c
           /\ \A i \in 1 .. Len(calls) - 1 : calls'[i] = calls[i]
           /\ \A i \in 1 .. Len(calls) :
                 calls'[i].op = calls[i].op /\ calls'[i].name = calls[i].name
           /\ \A m, op : OnStack(m, op)' <=> OnStack(m, op)
  <1>1. calls \in Seq(Call) /\ Len(calls) \in Nat /\ Len(calls) >= 1 /\ Top = calls[Len(calls)]
    BY TopFacts
  <1>2. /\ calls' \in Seq(Call) /\ Len(calls') = Len(calls) /\ calls'[Len(calls)] = c
        /\ \A i \in 1 .. Len(calls) - 1 : calls'[i] = calls[i]
    BY <1>1, TopReplaced DEF WithTop, Callers, Active
  <1>3. \A i \in 1 .. Len(calls) :
           calls'[i].op = calls[i].op /\ calls'[i].name = calls[i].name
    <2> SUFFICES ASSUME NEW i \in 1 .. Len(calls)
                 PROVE  calls'[i].op = calls[i].op /\ calls'[i].name = calls[i].name
      OBVIOUS
    <2>1. CASE i = Len(calls)
      BY <1>1, <1>2, <2>1
    <2>2. CASE i \in 1 .. Len(calls) - 1
      BY <1>2, <2>2
    <2> QED
      BY <1>1, <2>1, <2>2
  <1>4. \A m, op : OnStack(m, op)' <=> OnStack(m, op)
    BY <1>2, <1>3 DEF OnStack
  <1>5. Active' /\ Top' = c
    BY <1>1, <1>2 DEF Active, Top
  <1> QED
    BY <1>2, <1>3, <1>4, <1>5

LEMMA MoveStack ==
    ASSUME Inv, Active, NEW c \in Call, c.op = Top.op, c.name = Top.name,
           calls' = WithTop(c), UNCHANGED <<imports, status, failed>>,
           c.at <= Len(imports[c.name]) + 1,
           c.step = "bind" => c.op = "link" /\ c.at <= Len(imports[c.name]),
           c.step = "body" => c.op = "evaluate" /\ c.at = Len(imports[c.name]) + 1,
           \A j \in 1 .. Len(imports[c.name]) :
              j < c.at \/ (j = c.at /\ c.step = "bind") => Reached(status, c.op, imports[c.name][j])
    PROVE  CallsNest' /\ ImportsReached' /\ BusyExplained'
  <1> DEFINE n == Len(calls)
  <1>1. /\ n \in Nat /\ n >= 1 /\ Len(calls') = n /\ Top = calls[n] /\ n \in 1 .. n
        /\ calls'[n] = c /\ \A i \in 1 .. n - 1 : calls'[i] = calls[i]
        /\ \A i \in 1 .. n :
              calls'[i].op = calls[i].op /\ calls'[i].name = calls[i].name
        /\ \A m, op : OnStack(m, op)' <=> OnStack(m, op)
    BY TopFacts, Moves
  <1>2. \A i \in 1 .. n : i = n \/ i \in 1 .. n - 1
    BY <1>1
  <1> HIDE DEF n
  <1>3. CallsNest'
    <2> SUFFICES ASSUME NEW i \in 1 .. n
                 PROVE  /\ calls'[i].op = calls'[1].op
                        /\ status[calls'[i].name] = Busy(calls'[i].op)
                        /\ calls'[i].name \notin failed
                        /\ \A j \in 1 .. n : calls'[j].name = calls'[i].name => j = i
                        /\ calls'[i].at <= Len(imports[calls'[i].name]) + 1
                        /\ calls'[i].step = "bind" =>
                              /\ calls'[i].op = "link"
                              /\ calls'[i].at <= Len(imports[calls'[i].name])
                        /\ calls'[i].step = "body" =>
                              /\ calls'[i].op = "evaluate" /\ i = n
                              /\ calls'[i].at = Len(imports[calls'[i].name]) + 1
      BY <1>1 DEF CallsNest, Busy
    <2>1. 1 \in 1 .. n
      BY <1>1
    <2>2. /\ calls'[i].op = calls'[1].op
          /\ status[calls'[i].name] = Busy(calls'[i].op)
          /\ calls'[i].name \notin failed
          /\ \A j \in 1 .. n : calls'[j].name = calls'[i].name => j = i
      BY <1>1, <2>1 DEF Inv, CallsNest, n
    <2>3. CASE i = n
      BY <1>1, <2>2, <2>3
    <2>4. CASE i \in 1 .. n - 1
      BY <1>1, <2>2, <2>4 DEF Inv, CallsNest, n
    <2> QED
      BY <1>2, <2>3, <2>4
  <1>4. ImportsReached'
    <2> SUFFICES ASSUME NEW i \in 1 .. n, NEW j \in 1 .. Len(imports[calls'[i].name]),
                        j < calls'[i].at \/ (j = calls'[i].at /\ calls'[i].step = "bind")
                 PROVE  Reached(status, calls'[i].op, imports[calls'[i].name][j])
      BY <1>1 DEF ImportsReached
    <2>1. CASE i = n
      BY <1>1, <2>1
    <2>2. CASE i \in 1 .. n - 1
      BY <1>1, <2>2 DEF Inv, ImportsReached, n
    <2> QED
      BY <1>2, <2>1, <2>2
  <1>5. BusyExplained'
    BY <1>1 DEF Inv, BusyExplained
  <1> QED
    BY <1>3, <1>4, <1>5

\* The record that is entered was not busy before, so it is on the stack once.
LEMMA EnterStack ==
    ASSUME Inv, Active, NEW c \in Call, c.op = Top.op, c.name = Top.name,
           NEW d \in Names, status[d] = IF Top.op = "link" THEN "absent" ELSE "linked",
           status' = [status EXCEPT ![d] = Busy(Top.op)],
           calls' = Append(WithTop(c), Enter(Top.op, d)), UNCHANGED <<imports, failed>>,
           c.at <= Len(imports[c.name]) + 1,
           c.step = "bind" => c.op = "link" /\ c.at <= Len(imports[c.name]),
           c.step # "body",
           \A j \in 1 .. Len(imports[c.name]) :
              j < c.at \/ (j = c.at /\ c.step = "bind") =>
                 Reached(status, c.op, imports[c.name][j]) \/ imports[c.name][j] = d
    PROVE  /\ calls' \in Seq(Call) /\ Len(calls') = Len(calls) + 1 /\ Active'
           /\ \A i \in 1 .. Len(calls) - 1 : calls'[i] = calls[i]
           /\ calls'[Len(calls)] = c /\ calls'[Len(calls) + 1] = Enter(Top.op, d)
           /\ \A i \in 1 .. Len(calls) :
                 calls'[i].op = calls[i].op /\ calls'[i].name = calls[i].name
           /\ CallsNest' /\ ImportsReached' /\ BusyExplained'
  <1> DEFINE n == Len(calls)
             e == Enter(Top.op, d)
             w == WithTop(c)
  <1>1. /\ n \in Nat /\ n >= 1 /\ Top = calls[n] /\ n \in 1 .. n /\ calls \in Seq(Call)
        /\ Top.op \in {"link", "evaluate"} /\ status[Top.name] = Busy(Top.op)
        /\ Top.op = calls[1].op
    BY TopFacts
  <1>2. e \in Call /\ e.op = Top.op /\ e.name = d /\ e.at = 1 /\ e.step = "load"
    BY <1>1, Entered
  <1>3. /\ w \in Seq(Call) /\ Len(w) = n /\ w[n] = c
        /\ \A i \in 1 .. n - 1 : w[i] = calls[i]
    BY <1>1, TopReplaced DEF WithTop, Callers, Active
  <1> HIDE DEF n, e, w
  <1>4. /\ calls' \in Seq(Call) /\ Len(calls') = n + 1 /\ calls'[n + 1] = e
        /\ \A i \in 1 .. n : calls'[i] = w[i]
    BY <1>2, <1>3, Appended DEF e, w
  <1>5. \A i \in 1 .. n + 1 : i = n + 1 \/ i = n \/ i \in 1 .. n - 1
    BY <1>1
  <1>6. \A i \in 1 .. n : i = n \/ i \in 1 .. n - 1
    BY <1>1
  <1>7. calls'[n] = c /\ \A i \in 1 .. n - 1 : calls'[i] = calls[i] /\ i \in 1 .. n
    BY <1>1, <1>3, <1>4
  <1>8. \A i \in 1 .. n : calls'[i].op = calls[i].op /\ calls'[i].name = calls[i].name
    BY <1>1, <1>6, <1>7
  <1>9. \A i \in 1 .. n : /\ calls[i].op = Top.op /\ status[calls[i].name] = Busy(Top.op)
                          /\ calls[i].name \notin failed /\ calls[i].name \in Names
                          /\ calls[i].name # d
    <2>1. \A i \in 1 .. n : /\ calls[i].op = Top.op /\ status[calls[i].name] = Busy(Top.op)
                            /\ calls[i].name \notin failed /\ calls[i].name \in Names
      BY <1>1, StackedNames DEF Inv, CallsNest, n
    <2>2. status[d] # Busy(Top.op)
      BY <1>1 DEF Busy
    <2> QED
      BY <2>1, <2>2
  <1>10. /\ status \in [Names -> States] /\ status'[d] = Busy(Top.op)
         /\ \A m \in Names : m # d => status'[m] = status[m]
    BY DEF Inv, TypeOK
  <1>11. d \notin failed
    BY <1>1 DEF Inv, BusyExplained
  <1>17. ASSUME NEW i \in 1 .. n
         PROVE  /\ calls'[i].op = Top.op /\ calls'[i].name \notin failed
                /\ calls'[i].name \in Names /\ calls'[i].name # d
                /\ status'[calls'[i].name] = Busy(Top.op)
    <2>1. calls'[i].op = calls[i].op /\ calls'[i].name = calls[i].name
      BY <1>8
    <2>2. /\ calls[i].op = Top.op /\ status[calls[i].name] = Busy(Top.op)
          /\ calls[i].name \notin failed /\ calls[i].name \in Names
          /\ calls[i].name # d
      BY <1>9
    <2>3. status'[calls[i].name] = Busy(Top.op)
      BY <1>10, <2>2
    <2> HIDE DEF WithTop
    <2> QED
      BY <2>1, <2>2, <2>3, Zenon
  <1>12. CallsNest'
    <2> SUFFICES ASSUME NEW i \in 1 .. n + 1
                 PROVE  /\ calls'[i].op = calls'[1].op
                        /\ status'[calls'[i].name] = Busy(calls'[i].op)
                        /\ calls'[i].name \notin failed
                        /\ \A j \in 1 .. n + 1 : calls'[j].name = calls'[i].name => j = i
                        /\ calls'[i].at <= Len(imports[calls'[i].name]) + 1
                        /\ calls'[i].step = "bind" =>
                              /\ calls'[i].op = "link"
                              /\ calls'[i].at <= Len(imports[calls'[i].name])
                        /\ calls'[i].step = "body" =>
                              /\ calls'[i].op = "evaluate" /\ i = n + 1
                              /\ calls'[i].at = Len(imports[calls'[i].name]) + 1
      BY <1>4 DEF CallsNest, Busy
    <2>1. \A j \in 1 .. n + 1 : j = n + 1 \/ j \in 1 .. n
      BY <1>1
    <2>2. calls'[1].op = Top.op
      BY <1>1, <1>8
    <2>3. CASE i = n + 1
      <3>1. Len(imports[d]) \in Nat
        BY DEF Inv, TypeOK
      <3>2. \A j \in 1 .. n + 1 : calls'[j].name = d => j = n + 1
        BY <1>8, <1>9, <2>1
      <3> QED
        BY <1>2, <1>4, <1>10, <1>11, <2>2, <2>3, <3>1, <3>2
    <2>4. CASE i \in 1 .. n
      <3>1. /\ calls'[i].op = calls'[1].op /\ calls'[i].name \notin failed
            /\ status'[calls'[i].name] = Busy(calls'[i].op)
        BY <1>17, <2>2, <2>4, Zenon
      <3>2. \A j \in 1 .. n + 1 : calls'[j].name = calls'[i].name => j = i
        BY <1>2, <1>4, <1>8, <1>9, <2>1, <2>4 DEF Inv, CallsNest, n
      <3>3. CASE i = n
        BY <1>7, <3>1, <3>2, <3>3
      <3>4. CASE i \in 1 .. n - 1
        <4>1. calls'[i] = calls[i] /\ i \in 1 .. n /\ i # n
          <5>1. calls'[i] = calls[i] /\ i \in 1 .. n
            BY <1>7, <3>4
          <5>2. i # n
            BY <1>1, <3>4
          <5> QED
            BY <5>1, <5>2
        <4>2. /\ calls[i].at <= Len(imports[calls[i].name]) + 1
              /\ calls[i].step = "bind" =>
                    calls[i].op = "link" /\ calls[i].at <= Len(imports[calls[i].name])
              /\ calls[i].step # "body"
          BY <4>1 DEF Inv, CallsNest, n
        <4> QED
          BY <3>1, <3>2, <4>1, <4>2, Zenon
      <3> QED
        BY <1>6, <2>4, <3>3, <3>4
    <2> QED
      BY <2>1, <2>3, <2>4
  <1>13. \A m \in Names :
            /\ Reached(status, Top.op, m) => Reached(status', Top.op, m)
            /\ Reached(status', Top.op, d)
    BY <1>1, <1>10 DEF Reached, Busy
  <1>14. ImportsReached'
    <2> SUFFICES ASSUME NEW i \in 1 .. n + 1, NEW j \in 1 .. Len(imports[calls'[i].name]),
                        j < calls'[i].at \/ (j = calls'[i].at /\ calls'[i].step = "bind")
                 PROVE  Reached(status', calls'[i].op, imports[calls'[i].name][j])
      BY <1>4 DEF ImportsReached
    <2>1. i # n + 1
      <3> SUFFICES ASSUME i = n + 1 PROVE FALSE
        OBVIOUS
      <3>1. calls'[i].at = 1 /\ calls'[i].step = "load"
        BY <1>2, <1>4
      <3>2. j \in Nat /\ j >= 1
        OBVIOUS
      <3> QED
        BY <3>1, <3>2
    <2>2. CASE i = n
      <3>1. calls'[i] = c
        BY <1>7, <2>2
      <3>2. imports[c.name] \in Seq(Names)
        BY CallFields DEF Inv, TypeOK
      <3>3. imports[c.name][j] \in Names
        BY <3>1, <3>2
      <3>4. Reached(status, c.op, imports[c.name][j]) \/ imports[c.name][j] = d
        BY <3>1
      <3>5. Reached(status', Top.op, imports[c.name][j])
        BY <1>13, <3>3, <3>4
      <3> QED
        BY <3>1, <3>5
    <2>3. CASE i \in 1 .. n - 1
      <3>1. calls'[i] = calls[i] /\ i \in 1 .. n
        BY <1>7, <2>3
      <3>2. imports[calls[i].name][j] \in Names
        BY <3>1, StackedNames DEF n
      <3>3. Reached(status, calls[i].op, imports[calls[i].name][j])
        BY <3>1 DEF Inv, ImportsReached, n
      <3>4. calls[i].op = Top.op
        BY <1>9, <3>1
      <3>5. Reached(status', Top.op, imports[calls[i].name][j])
        BY <1>13, <3>2, <3>3, <3>4
      <3> QED
        BY <3>1, <3>4, <3>5, Zenon
    <2> QED
      BY <1>5, <2>1, <2>2, <2>3
  <1>15. BusyExplained'
    <2>1. \A m, op : OnStack(m, op) => OnStack(m, op)'
      BY <1>1, <1>4, <1>8 DEF OnStack, n
    <2>2. ASSUME NEW op, op = Top.op PROVE OnStack(d, op)'
      <3>1. n + 1 \in 1 .. Len(calls')
        BY <1>1, <1>4
      <3>2. calls'[n + 1].name = d /\ calls'[n + 1].op = Top.op
        BY <1>2, <1>4
      <3> QED
        BY <2>2, <3>1, <3>2, Zenon DEF OnStack
    <2>3. \A m \in failed : m # d /\ m \in Names /\ status'[m] = status[m]
      BY <1>10, <1>11 DEF Inv, TypeOK
    <2>4. ASSUME NEW m \in Names, status'[m] = "linking" PROVE OnStack(m, "link")' \/ m \in failed
      <3>1. CASE m = d
        BY <1>1, <1>10, <2>2, <2>4, <3>1 DEF Busy
      <3>2. CASE m # d
        BY <1>10, <2>1, <2>4, <3>2 DEF Inv, BusyExplained
      <3> QED
        BY <3>1, <3>2
    <2>5. ASSUME NEW m \in Names, status'[m] = "evaluating"
          PROVE  OnStack(m, "evaluate")' \/ m \in failed
      <3>1. CASE m = d
        BY <1>1, <1>10, <2>2, <2>5, <3>1 DEF Busy
      <3>2. CASE m # d
        BY <1>10, <2>1, <2>5, <3>2 DEF Inv, BusyExplained
      <3> QED
        BY <3>1, <3>2
    <2> QED
      BY <2>3, <2>4, <2>5 DEF Inv, BusyExplained
  <1>16. Active'
    BY <1>1, <1>4 DEF Active
  <1> QED
    BY <1>4, <1>7, <1>8, <1>12, <1>14, <1>15, <1>16 DEF n, e

\* The record that is left is done, and every other one is as it was.
LEMMA LeaveStack ==
    ASSUME Inv, Active, NEW done, done = (IF Top.op = "link" THEN "linked" ELSE "evaluated"),
           status' = [status EXCEPT ![Top.name] = done],
           calls' = Callers, UNCHANGED <<imports, failed>>
    PROVE  /\ calls' \in Seq(Call) /\ Len(calls') = Len(calls) - 1
           /\ \A i \in 1 .. Len(calls) - 1 : calls'[i] = calls[i]
           /\ CallsNest' /\ ImportsReached' /\ BusyExplained'
  <1> DEFINE n == Len(calls)
  <1>1. /\ n \in Nat /\ n >= 1 /\ Top = calls[n] /\ n \in 1 .. n /\ calls \in Seq(Call)
        /\ Top.op \in {"link", "evaluate"} /\ Top.name \notin failed /\ Top.name \in Names
        /\ Top.op = calls[1].op
    BY TopFacts
  <1>2. /\ calls' \in Seq(Call) /\ Len(calls') = n - 1
        /\ \A i \in 1 .. n - 1 : calls'[i] = calls[i]
    BY <1>1, TopDropped DEF Callers, Active
  <1> HIDE DEF n
  <1>3. \A i \in 1 .. n - 1 : /\ i \in 1 .. n /\ 1 \in 1 .. n - 1 /\ i # n
                              /\ calls[i].op = Top.op
                              /\ calls[i].name # Top.name /\ calls[i].name \in Names
    BY <1>1, StackedNames DEF Inv, CallsNest, n
  <1>4. /\ status \in [Names -> States] /\ status'[Top.name] = done
        /\ \A m \in Names : m # Top.name => status'[m] = status[m]
    BY <1>1 DEF Inv, TypeOK
  <1>5. CallsNest'
    <2> SUFFICES ASSUME NEW i \in 1 .. n - 1
                 PROVE  /\ calls[i].op = calls'[1].op
                        /\ status'[calls[i].name] = Busy(calls[i].op)
                        /\ calls[i].name \notin failed
                        /\ \A j \in 1 .. n - 1 : calls'[j].name = calls[i].name => j = i
                        /\ calls[i].at <= Len(imports[calls[i].name]) + 1
                        /\ calls[i].step = "bind" =>
                              /\ calls[i].op = "link"
                              /\ calls[i].at <= Len(imports[calls[i].name])
                        /\ calls[i].step # "body"
      BY <1>2 DEF CallsNest, Busy
    <2>1. status'[calls[i].name] = Busy(calls[i].op)
      BY <1>3, <1>4 DEF Inv, CallsNest, n
    <2>2. \A j \in 1 .. n - 1 : calls'[j].name = calls[i].name => j = i
      BY <1>2, <1>3 DEF Inv, CallsNest, n
    <2> QED
      BY <1>2, <1>3, <2>1, <2>2 DEF Inv, CallsNest, n
  <1>6. \A m \in Names : Reached(status, Top.op, m) => Reached(status', Top.op, m)
    BY <1>4 DEF Reached
  <1>7. ImportsReached'
    <2> SUFFICES ASSUME NEW i \in 1 .. n - 1, NEW j \in 1 .. Len(imports[calls'[i].name]),
                        j < calls'[i].at \/ (j = calls'[i].at /\ calls'[i].step = "bind")
                 PROVE  Reached(status', calls'[i].op, imports[calls'[i].name][j])
      BY <1>2 DEF ImportsReached
    <2>0. calls'[i] = calls[i]
      BY <1>2
    <2>1. imports[calls[i].name][j] \in Names
      BY <1>3, <2>0, StackedNames DEF n
    <2>2. Reached(status, calls[i].op, imports[calls[i].name][j])
      BY <1>3, <2>0 DEF Inv, ImportsReached, n
    <2>3. calls[i].op = Top.op
      BY <1>3
    <2> QED
      BY <1>6, <2>0, <2>1, <2>2, <2>3, Zenon
  <1>8. BusyExplained'
    <2>1. \A m, op : OnStack(m, op) /\ m # Top.name => OnStack(m, op)'
      <3> SUFFICES ASSUME NEW i \in 1 .. n, calls[i].name # Top.name
                   PROVE  i \in 1 .. n - 1 /\ calls'[i] = calls[i]
        BY <1>2 DEF OnStack, n
      <3> QED
        BY <1>1, <1>2
    <2>2. \A m \in failed : m # Top.name /\ m \in Names
      BY <1>1 DEF Inv, TypeOK
    <2> QED
      BY <1>1, <1>4, <2>1, <2>2 DEF Inv, BusyExplained
  <1> QED
    BY <1>2, <1>5, <1>7, <1>8 DEF n

-----------------------------------------------------------------------------
\* While a call is active the host waits for the call that it made.
LEMMA RequestKept ==
    ASSUME Inv, Active, Active', UNCHANGED <<request, returned>>,
           calls'[1].name = calls[1].name, calls'[1].op = calls[1].op
    PROVE  RequestServed' /\ HostIsToldTrue'
  BY DEF Inv, RequestServed, HostIsToldTrue

\* Only the innermost call runs a body.
LEMMA NoBody ==
    ASSUME Inv, Active, Top.step # "body"
    PROVE  /\ \A k \in 1 .. Len(calls) : calls[k].step # "body"
           /\ \A i \in 1 .. Len(ran) : status[ran[i]] = "evaluated" \/ ran[i] \in failed
  <1>1. \A k \in 1 .. Len(calls) : calls[k].step # "body"
    BY TopFacts DEF Inv, CallsNest
  <1> QED
    BY <1>1 DEF Inv, BodiesStarted

\* A call moves on: to the binding of its import, to the next import, to the body.
LEMMA MovedStep ==
    ASSUME NEW c \in Call, NEW s \in Steps
    PROVE  LET x == [c EXCEPT !.step = s]
           IN  x \in Call /\ x.op = c.op /\ x.name = c.name /\ x.at = c.at /\ x.step = s
  BY DEF Call

LEMMA MovedAt ==
    ASSUME NEW c \in Call, NEW k \in Nat, k >= 1
    PROVE  LET x == [c EXCEPT !.at = k]
           IN  x \in Call /\ x.op = c.op /\ x.name = c.name /\ x.at = k /\ x.step = c.step
  BY DEF Call

\* The innermost call enters another record and leaves everything else alone.
LEMMA EnterKeeps ==
    ASSUME Inv, Active, Top.step # "body",
           NEW c \in Call, c.op = Top.op, c.name = Top.name, c.op = "link" => c.at = Top.at,
           NEW d \in Names, status[d] = IF Top.op = "link" THEN "absent" ELSE "linked",
           status' = [status EXCEPT ![d] = Busy(Top.op)],
           calls' = Append(WithTop(c), Enter(Top.op, d)),
           UNCHANGED <<imports, bound, export, request, returned, ran, failed>>,
           c.at <= Len(imports[c.name]) + 1,
           c.step = "bind" => c.op = "link" /\ c.at <= Len(imports[c.name]),
           c.step # "body",
           \A j \in 1 .. Len(imports[c.name]) :
              j < c.at \/ (j = c.at /\ c.step = "bind") =>
                 Reached(status, c.op, imports[c.name][j]) \/ imports[c.name][j] = d
    PROVE  Inv'
  <1> DEFINE n == Len(calls)
  <1>1. /\ n \in Nat /\ n >= 1 /\ n \in 1 .. n /\ Top = calls[n]
        /\ Top.op \in {"link", "evaluate"}
    BY TopFacts
  <1>2. /\ \A k \in 1 .. n : calls[k].step # "body"
        /\ \A i \in 1 .. Len(ran) : status[ran[i]] = "evaluated" \/ ran[i] \in failed
    BY NoBody
  <1>3. /\ calls' \in Seq(Call) /\ Len(calls') = n + 1 /\ Active'
        /\ \A i \in 1 .. n - 1 : calls'[i] = calls[i]
        /\ calls'[n] = c /\ calls'[n + 1] = Enter(Top.op, d)
        /\ \A i \in 1 .. n :
              calls'[i].op = calls[i].op /\ calls'[i].name = calls[i].name
        /\ CallsNest' /\ ImportsReached' /\ BusyExplained'
    BY EnterStack
  <1> HIDE DEF n
  <1>4. /\ Enter(Top.op, d).op = Top.op /\ Enter(Top.op, d).name = d /\ Enter(Top.op, d).at = 1
    BY <1>1, Entered
  <1>5. /\ status \in [Names -> States] /\ status'[d] = Busy(Top.op)
        /\ Busy(Top.op) \in {"linking", "evaluating"}
        /\ \A m \in Names : m # d => status'[m] = status[m]
        /\ status[d] = IF status'[d] = "linking" THEN "absent" ELSE "linked"
    BY DEF Inv, TypeOK, Busy
  <1>6. TypeOK'
    <2>1. status' \in [Names -> States]
      BY <1>5 DEF States
    <2> QED
      BY <1>3, <2>1 DEF Inv, TypeOK
  <1>7. BindingsStored'
    <2>1. ASSUME NEW i \in 1 .. n + 1, calls'[i].op = "link"
          PROVE  bound[calls'[i].name] = calls'[i].at - 1
      <3>1. CASE i = n + 1
        <4>1. status[d] = "absent"
          BY <1>3, <1>4, <2>1, <3>1
        <4>2. bound[d] = 0
          BY <4>1 DEF Inv, BindingsStored
        <4> QED
          BY <1>3, <1>4, <3>1, <4>2
      <3>2. CASE i = n
        BY <1>1, <1>3, <2>1, <3>2 DEF Inv, BindingsStored, n
      <3>3. CASE i \in 1 .. n - 1
        <4>1. calls'[i] = calls[i] /\ i \in 1 .. Len(calls)
          BY <1>1, <1>3, <3>3 DEF n
        <4> QED
          BY <2>1, <4>1 DEF Inv, BindingsStored
      <3>4. i = n + 1 \/ i = n \/ i \in 1 .. n - 1
        BY <1>1
      <3> QED
        BY <3>1, <3>2, <3>3, <3>4
    <2>2. \A m \in Names : status'[m] = "absent" => bound[m] = 0
      BY <1>5 DEF Inv, BindingsStored
    <2>3. ASSUME NEW m \in Names, IsLinked(m)'
          PROVE  /\ bound[m] = Len(imports[m])
                 /\ \A i \in 1 .. Len(imports[m]) : status'[imports[m][i]] # "absent"
      <3>1. IsLinked(m)
        BY <1>5, <2>3 DEF IsLinked
      <3>2. \A i \in 1 .. Len(imports[m]) : imports[m][i] \in Names
        BY DEF Inv, TypeOK
      <3> QED
        BY <1>5, <3>1, <3>2 DEF Inv, BindingsStored
    <2> QED
      BY <1>3, <2>1, <2>2, <2>3 DEF BindingsStored
  <1>8. BodiesStarted'
    <2>1. \A i \in 1 .. Len(ran) : ran[i] \in Names
      BY DEF Inv, TypeOK
    <2>2. \A i \in 1 .. Len(ran) : status'[ran[i]] = "evaluated" \/ ran[i] \in failed
      BY <1>2, <1>5, <2>1
    <2>3. \A m \in Names : status'[m] = "evaluated" => export[m] = "initialized"
      BY <1>5 DEF Inv, BodiesStarted
    <2> QED
      BY <2>2, <2>3 DEF Inv, BodiesStarted, EvaluatedOnce
  <1>9. RequestServed' /\ HostIsToldTrue'
    BY <1>1, <1>3, RequestKept
  <1> QED
    BY <1>3, <1>6, <1>7, <1>8, <1>9 DEF Inv

\* The innermost call moves on and changes nothing, or stores a binding.
LEMMA MoveKeeps ==
    ASSUME Inv, Active, Top.step # "body",
           NEW c \in Call, c.op = Top.op, c.name = Top.name,
           calls' = WithTop(c),
           c.op = "link" => bound' = [bound EXCEPT ![Top.name] = c.at - 1],
           c.op = "evaluate" => UNCHANGED bound,
           UNCHANGED <<imports, status, export, request, returned, ran, failed>>,
           c.at <= Len(imports[c.name]) + 1,
           c.step = "bind" => c.op = "link" /\ c.at <= Len(imports[c.name]),
           c.step # "body",
           \A j \in 1 .. Len(imports[c.name]) :
              j < c.at \/ (j = c.at /\ c.step = "bind") => Reached(status, c.op, imports[c.name][j])
    PROVE  Inv'
  <1> DEFINE n == Len(calls)
  <1>1. /\ n \in Nat /\ n >= 1 /\ n \in 1 .. n /\ Top = calls[n]
        /\ Top.op \in {"link", "evaluate"} /\ Top.name \in Names
        /\ status[Top.name] = Busy(Top.op) /\ Top.op = calls[1].op
    BY TopFacts
  <1>2. /\ \A k \in 1 .. n : calls[k].step # "body"
        /\ \A i \in 1 .. Len(ran) : status[ran[i]] = "evaluated" \/ ran[i] \in failed
    BY NoBody
  <1>3. CallsNest' /\ ImportsReached' /\ BusyExplained'
    BY MoveStack
  <1>4. /\ calls' \in Seq(Call) /\ Len(calls') = n /\ Active' /\ calls'[n] = c
        /\ \A i \in 1 .. n - 1 : calls'[i] = calls[i]
        /\ \A i \in 1 .. n :
              calls'[i].op = calls[i].op /\ calls'[i].name = calls[i].name
    BY Moves
  <1> HIDE DEF n
  <1>5. c.at \in Nat /\ c.at - 1 \in Nat
    BY CallFields
  <1>6. /\ bound' \in [Names -> Nat]
        /\ \A m \in Names : m # Top.name => bound'[m] = bound[m]
        /\ c.op = "link" => bound'[Top.name] = c.at - 1
        /\ c.op = "evaluate" => bound' = bound
    <2>1. bound \in [Names -> Nat] /\ Top.name \in Names
      BY <1>1 DEF Inv, TypeOK
    <2>2. CASE c.op = "link"
      <3>1. bound' = [bound EXCEPT ![Top.name] = c.at - 1]
        BY <2>2
      <3> QED
        BY <2>1, <2>2, <3>1, <1>5
    <2>3. CASE c.op = "evaluate"
      BY <2>1, <2>3
    <2> QED
      BY <2>2, <2>3, <1>1
  <1>7. TypeOK'
    BY <1>4, <1>6 DEF Inv, TypeOK
  <1>8. BindingsStored'
    <2>1. ASSUME NEW i \in 1 .. n, calls'[i].op = "link"
          PROVE  bound'[calls'[i].name] = calls'[i].at - 1
      <3>1. CASE i = n
        BY <1>4, <1>6, <2>1, <3>1
      <3>2. CASE i \in 1 .. n - 1
        <4>1. calls'[i] = calls[i] /\ i \in 1 .. Len(calls) /\ i # n
          BY <1>1, <1>4, <3>2 DEF n
        <4>2. calls[i].name # Top.name /\ calls[i].name \in Names
          BY <1>1, <4>1, StackedNames DEF Inv, CallsNest, n
        <4> QED
          BY <1>6, <2>1, <4>1, <4>2 DEF Inv, BindingsStored
      <3> QED
        BY <1>1, <3>1, <3>2
    <2>2. status[Top.name] \in {"linking", "evaluating"}
      BY <1>1 DEF Busy
    <2>3. \A m \in Names : status[m] = "absent" => bound'[m] = 0
      BY <1>6, <2>2 DEF Inv, BindingsStored
    <2>4. ASSUME NEW m \in Names, IsLinked(m) PROVE bound'[m] = Len(imports[m])
      <3>1. CASE m = Top.name
        BY <1>1, <1>6, <2>4, <3>1 DEF Inv, BindingsStored, IsLinked, Busy
      <3>2. CASE m # Top.name
        BY <1>6, <2>4, <3>2 DEF Inv, BindingsStored
      <3> QED
        BY <3>1, <3>2
    <2> QED
      BY <1>4, <2>1, <2>3, <2>4 DEF Inv, BindingsStored, IsLinked
  <1>9. BodiesStarted'
    BY <1>2 DEF Inv, BodiesStarted, EvaluatedOnce
  <1>10. RequestServed' /\ HostIsToldTrue'
    BY <1>1, <1>4, RequestKept
  <1> QED
    BY <1>3, <1>7, <1>8, <1>9, <1>10 DEF Inv

-----------------------------------------------------------------------------
\* What the innermost call has dealt with so far.
LEMMA TopReached ==
    ASSUME Inv, Active
    PROVE  \A j \in 1 .. Len(imports[Top.name]) :
              j < Top.at \/ (j = Top.at /\ Top.step = "bind") =>
                 Reached(status, Top.op, imports[Top.name][j])
  BY TopFacts DEF Inv, ImportsReached

LEMMA LinkLoadKeeps == Inv /\ LinkLoad => Inv'
  <1> SUFFICES ASSUME Inv, LinkLoad PROVE Inv'
    OBVIOUS
  <1> DEFINE c == [Top EXCEPT !.step = "bind"]
             d == Dependency
  <1>1. /\ Active /\ Top.op = "link" /\ Top.step = "load" /\ MoreImports
        /\ UNCHANGED <<imports, bound, export, request, returned, ran, failed>>
    BY DEF LinkLoad, Linking
  <1>2. /\ Top \in Call /\ Top.name \in Names /\ Top.at \in Nat /\ Top.at >= 1
        /\ Len(imports[Top.name]) \in Nat /\ d = imports[Top.name][Top.at]
        /\ d \in Names /\ Top.at \in 1 .. Len(imports[Top.name])
        /\ Len(calls) \in 1 .. Len(calls) /\ Top = calls[Len(calls)]
    BY <1>1, TopFacts DEF Dependency
  <1>3. c \in Call /\ c.op = Top.op /\ c.name = Top.name /\ c.at = Top.at /\ c.step = "bind"
    BY <1>2, MovedStep DEF Steps
  <1>4. \A j \in 1 .. Len(imports[Top.name]) :
           j < Top.at => Reached(status, Top.op, imports[Top.name][j])
    BY <1>1, TopReached
  <1>5. c.at <= Len(imports[c.name]) + 1 /\ c.at <= Len(imports[c.name])
    BY <1>2, <1>3
  <1>6. \A j \in 1 .. Len(imports[c.name]) :
            j < c.at \/ (j = c.at /\ c.step = "bind") =>
               Reached(status, c.op, imports[c.name][j]) \/ imports[c.name][j] = d
    BY <1>2, <1>3, <1>4
  <1> HIDE DEF c, d
  <1>7. CASE NeedsLink(d)
    <2>1. /\ status' = [status EXCEPT ![d] = "linking"]
          /\ calls' = Append(WithTop(c), Enter("link", d)) /\ status[d] = "absent"
      BY <1>7 DEF LinkLoad, NeedsLink, c, d
    <2>2. /\ status' = [status EXCEPT ![d] = Busy(Top.op)]
          /\ calls' = Append(WithTop(c), Enter(Top.op, d))
          /\ status[d] = IF Top.op = "link" THEN "absent" ELSE "linked"
      BY <1>1, <2>1 DEF Busy
    <2> QED
      BY <1>1, <1>2, <1>3, <1>5, <1>6, <2>2, EnterKeeps
  <1>8. CASE ~NeedsLink(d)
    <2>1. status' = status /\ calls' = WithTop(c) /\ status[d] # "absent"
      BY <1>8 DEF LinkLoad, NeedsLink, c, d
    <2>2. Reached(status, c.op, d)
      BY <1>1, <1>3, <2>1 DEF Reached
    <2>3. bound' = [bound EXCEPT ![Top.name] = c.at - 1]
      <3>1. bound \in [Names -> Nat] /\ bound[Top.name] = c.at - 1
        BY <1>1, <1>2, <1>3 DEF Inv, TypeOK, BindingsStored
      <3> QED
        BY <1>1, <1>2, <3>1
    <2> QED
      BY <1>1, <1>2, <1>3, <1>5, <1>6, <2>1, <2>2, <2>3, MoveKeeps
  <1> QED
    BY <1>7, <1>8

LEMMA LinkBindKeeps == Inv /\ LinkBind => Inv'
  <1> SUFFICES ASSUME Inv, LinkBind PROVE Inv'
    OBVIOUS
  <1> DEFINE c == [Top EXCEPT !.at = Top.at + 1, !.step = "load"]
  <1>1. /\ Active /\ Top.op = "link" /\ Top.step = "bind" /\ calls' = WithTop(c)
        /\ bound' = [bound EXCEPT ![Top.name] = Top.at]
        /\ UNCHANGED <<imports, status, export, request, returned, ran, failed>>
    BY DEF LinkBind, Linking
  <1>2. /\ Top \in Call /\ Top.name \in Names /\ Top.at \in Nat /\ Top.at >= 1
        /\ Len(imports[Top.name]) \in Nat /\ Top.at <= Len(imports[Top.name])
    <2>1. Len(calls) \in 1 .. Len(calls) /\ Top = calls[Len(calls)]
      BY <1>1, TopFacts
    <2>2. Top.at <= Len(imports[Top.name])
      BY <1>1, <2>1 DEF Inv, CallsNest
    <2> QED
      BY <1>1, <2>2, TopFacts
  <1>3. Top.at + 1 \in Nat /\ Top.at + 1 >= 1 /\ (Top.at + 1) - 1 = Top.at
    BY <1>2
  <1>4. c \in Call /\ c.op = Top.op /\ c.name = Top.name /\ c.at = Top.at + 1 /\ c.step = "load"
    <2> DEFINE b == [Top EXCEPT !.at = Top.at + 1]
    <2>1. "load" \in Steps
      BY DEF Steps
    <2>2. b \in Call /\ b.op = Top.op /\ b.name = Top.name /\ b.at = Top.at + 1
      BY <1>2, <1>3, MovedAt
    <2>3. c = [b EXCEPT !.step = "load"]
      OBVIOUS
    <2> HIDE DEF b, c
    <2>4. c \in Call /\ c.op = b.op /\ c.name = b.name /\ c.at = b.at /\ c.step = "load"
      BY <2>1, <2>2, <2>3, MovedStep
    <2> QED
      BY <2>2, <2>4
  <1>5. \A j \in 1 .. Len(imports[Top.name]) :
           j <= Top.at => Reached(status, Top.op, imports[Top.name][j])
    BY <1>1, <1>2, TopReached
  <1> HIDE DEF c
  <1>6. c.at <= Len(imports[c.name]) + 1 /\ bound' = [bound EXCEPT ![Top.name] = c.at - 1]
    <2>1. c.at - 1 = Top.at
      BY <1>3, <1>4
    <2>2. c.at <= Len(imports[c.name]) + 1
      BY <1>2, <1>4
    <2> QED
      BY <1>1, <2>1, <2>2
  <1>7. \A j \in 1 .. Len(imports[c.name]) :
            j < c.at \/ (j = c.at /\ c.step = "bind") => Reached(status, c.op, imports[c.name][j])
    BY <1>2, <1>4, <1>5
  <1> QED
    BY <1>1, <1>4, <1>6, <1>7, MoveKeeps

LEMMA EvaluateDependencyKeeps == Inv /\ EvaluateDependency => Inv'
  <1> SUFFICES ASSUME Inv, EvaluateDependency PROVE Inv'
    OBVIOUS
  <1> DEFINE c == [Top EXCEPT !.at = Top.at + 1]
             d == Dependency
  <1>1. /\ Active /\ Top.op = "evaluate" /\ Top.step = "load" /\ MoreImports
        /\ UNCHANGED <<imports, bound, export, request, returned, ran, failed>>
    BY DEF EvaluateDependency, Evaluating
  <1>2. /\ Top \in Call /\ Top.name \in Names /\ Top.at \in Nat /\ Top.at >= 1
        /\ Len(imports[Top.name]) \in Nat /\ d = imports[Top.name][Top.at]
        /\ d \in Names /\ Top.at \in 1 .. Len(imports[Top.name])
    BY <1>1, TopFacts DEF Dependency
  <1>3. c \in Call /\ c.op = Top.op /\ c.name = Top.name /\ c.at = Top.at + 1 /\ c.step = "load"
    BY SMTT(60), <1>1, <1>2, MovedAt
  <1>4. \A j \in 1 .. Len(imports[Top.name]) :
           j < Top.at => Reached(status, Top.op, imports[Top.name][j])
    BY <1>1, TopReached
  <1>5. c.at <= Len(imports[c.name]) + 1
    BY <1>2, <1>3
  <1>6. \A j \in 1 .. Len(imports[c.name]) :
            j < c.at \/ (j = c.at /\ c.step = "bind") =>
               Reached(status, c.op, imports[c.name][j]) \/ imports[c.name][j] = d
    BY <1>2, <1>3, <1>4
  <1> HIDE DEF c, d
  <1>7. CASE status[d] = "linked"
    <2>1. /\ status' = [status EXCEPT ![d] = "evaluating"]
          /\ calls' = Append(WithTop(c), Enter("evaluate", d))
      BY <1>7 DEF EvaluateDependency, c, d
    <2>2. /\ status' = [status EXCEPT ![d] = Busy(Top.op)]
          /\ calls' = Append(WithTop(c), Enter(Top.op, d))
          /\ status[d] = IF Top.op = "link" THEN "absent" ELSE "linked"
      BY <1>1, <1>7, <2>1 DEF Busy
    <2> QED
      BY <1>1, <1>2, <1>3, <1>5, <1>6, <2>2, EnterKeeps
  <1>8. CASE status[d] # "linked"
    <2>1. /\ status' = status /\ calls' = WithTop(c)
          /\ status[d] \in {"evaluating", "evaluated"}
      BY <1>8 DEF EvaluateDependency, c, d
    <2>2. Reached(status, c.op, d)
      BY <1>1, <1>3, <2>1 DEF Reached
    <2> QED
      BY <1>1, <1>2, <1>3, <1>5, <1>6, <2>1, <2>2, MoveKeeps
  <1> QED
    BY <1>7, <1>8

\* A record that is linked has bound all it imports.
LEMMA LinkCompileKeeps == Inv /\ LinkCompile => Inv'
  <1> SUFFICES ASSUME Inv, LinkCompile PROVE Inv'
    OBVIOUS
  <1> DEFINE n == Len(calls)
  <1>1. /\ Active /\ Top.op = "link" /\ Top.step = "load" /\ ~MoreImports
        /\ status' = [status EXCEPT ![Top.name] = "linked"] /\ calls' = Callers
        /\ returned' = IF n = 1 /\ request.op = "link" THEN "ok" ELSE returned
        /\ UNCHANGED <<imports, bound, export, request, ran, failed>>
    BY DEF LinkCompile, Linking, Leave
  <1>2. /\ n \in Nat /\ n >= 1 /\ n \in 1 .. n /\ Top = calls[n] /\ Top.name \in Names
        /\ Top.at \in Nat /\ Top.at >= 1 /\ Len(imports[Top.name]) \in Nat
        /\ status[Top.name] = "linking" /\ Top.name \notin failed
    BY <1>1, TopFacts DEF Busy
  <1>3. /\ calls' \in Seq(Call) /\ Len(calls') = n - 1
        /\ \A i \in 1 .. n - 1 : calls'[i] = calls[i]
        /\ CallsNest' /\ ImportsReached' /\ BusyExplained'
    BY <1>1, LeaveStack
  <1>4. Top.at = Len(imports[Top.name]) + 1
    BY SMTT(60), <1>1, <1>2 DEF MoreImports, Inv, CallsNest
  <1>5. \A j \in 1 .. Len(imports[Top.name]) : status[imports[Top.name][j]] # "absent"
    BY <1>1, <1>2, <1>4, TopReached DEF Reached
  <1>6. bound[Top.name] = Len(imports[Top.name])
    BY <1>1, <1>2, <1>4 DEF Inv, BindingsStored
  <1>7. /\ status \in [Names -> States] /\ status'[Top.name] = "linked"
        /\ \A m \in Names : m # Top.name => status'[m] = status[m]
    BY <1>1, <1>2 DEF Inv, TypeOK
  <1> HIDE DEF n
  <1>8. TypeOK'
    <2>1. status' \in [Names -> States]
      BY <1>1, <1>2, <1>7 DEF States
    <2>2. returned' \in {"none", "ok", "error"}
      BY <1>1 DEF Inv, TypeOK
    <2> QED
      BY <1>1, <1>3, <2>1, <2>2 DEF Inv, TypeOK
  <1>9. BindingsStored'
    <2>1. ASSUME NEW i \in 1 .. n - 1, calls'[i].op = "link"
          PROVE  bound[calls'[i].name] = calls'[i].at - 1
      <3>1. calls'[i] = calls[i] /\ i \in 1 .. Len(calls)
        BY <1>2, <1>3 DEF n
      <3> QED
        BY <2>1, <3>1 DEF Inv, BindingsStored
    <2>2. \A m \in Names : status'[m] = "absent" => bound[m] = 0
      BY <1>7 DEF Inv, BindingsStored
    <2>3. \A m \in Names : IsLinked(m)' => m = Top.name \/ IsLinked(m)
      BY <1>7 DEF IsLinked
    <2>4. ASSUME NEW m \in Names, m = Top.name \/ IsLinked(m)
          PROVE  /\ bound[m] = Len(imports[m])
                 /\ \A i \in 1 .. Len(imports[m]) : status'[imports[m][i]] # "absent"
      <3>1. /\ bound[m] = Len(imports[m])
            /\ \A i \in 1 .. Len(imports[m]) : status[imports[m][i]] # "absent"
        BY <1>5, <1>6, <2>4 DEF Inv, BindingsStored
      <3>2. \A i \in 1 .. Len(imports[m]) : imports[m][i] \in Names
        BY DEF Inv, TypeOK
      <3> QED
        BY <1>7, <3>1, <3>2
    <2> QED
      BY <1>1, <1>3, <2>1, <2>2, <2>3, <2>4 DEF BindingsStored
  <1>10. BodiesStarted'
    <2>1. \A i \in 1 .. Len(ran) : status[ran[i]] = "evaluated" \/ ran[i] \in failed
      BY <1>1, NoBody
    <2>2. \A i \in 1 .. Len(ran) : ran[i] \in Names
      BY DEF Inv, TypeOK
    <2>3. \A i \in 1 .. Len(ran) : status'[ran[i]] = "evaluated" \/ ran[i] \in failed
      BY <1>2, <1>7, <2>1, <2>2
    <2>4. \A m \in Names : status'[m] = "evaluated" => export[m] = "initialized"
      BY <1>7 DEF Inv, BodiesStarted
    <2> QED
      BY <1>1, <2>3, <2>4 DEF Inv, BodiesStarted, EvaluatedOnce
  <1>11. RequestServed' /\ HostIsToldTrue'
    <2>1. /\ request.op # "none" /\ returned = "none" /\ calls[1].name = request.name
          /\ calls[1].op = "evaluate" => request.op = "evaluate"
      BY <1>1 DEF Inv, RequestServed
    <2>2. CASE n = 1
      <3>1. ~Active'
        BY <1>3, <2>2 DEF Active
      <3>2. request.name = Top.name
        BY <1>2, <2>1, <2>2
      <3>3. status'[request.name] = "linked"
        BY <1>7, <3>2
      <3> QED
        BY <1>1, <2>1, <2>2, <3>1, <3>3 DEF RequestServed, HostIsToldTrue, IsLinked
    <2>3. CASE n # 1
      <3>1. Active' /\ 1 \in 1 .. n - 1
        BY <1>2, <1>3, <2>3 DEF Active
      <3> QED
        BY <1>1, <1>3, <2>3, <3>1, RequestKept
    <2> QED
      BY <2>2, <2>3
  <1> QED
    BY <1>3, <1>8, <1>9, <1>10, <1>11 DEF Inv

\* The body of a module starts when every import is dealt with, and never again.
LEMMA StartBodyKeeps == Inv /\ StartBody => Inv'
  <1> SUFFICES ASSUME Inv, StartBody PROVE Inv'
    OBVIOUS
  <1> DEFINE n == Len(calls)
             c == [Top EXCEPT !.step = "body"]
  <1>1. /\ Active /\ Top.op = "evaluate" /\ Top.step = "load" /\ ~MoreImports
        /\ calls' = WithTop(c)
        /\ export' = [export EXCEPT ![Top.name] = "uninitialized"]
        /\ ran' = Append(ran, Top.name)
        /\ UNCHANGED <<imports, status, bound, request, returned, failed>>
    BY DEF StartBody, Evaluating
  <1>2. /\ n \in Nat /\ n >= 1 /\ n \in 1 .. n /\ Top = calls[n] /\ Top.name \in Names
        /\ Top \in Call /\ Top.at \in Nat /\ Len(imports[Top.name]) \in Nat
        /\ status[Top.name] = "evaluating" /\ Top.name \notin failed
        /\ Top.op = calls[1].op
    BY <1>1, TopFacts DEF Busy
  <1>3. /\ c \in Call /\ c.op = Top.op /\ c.name = Top.name /\ c.at = Top.at
        /\ c.step = "body"
    BY <1>2, MovedStep DEF Steps
  <1>4. Top.at = Len(imports[Top.name]) + 1
    BY <1>1, <1>2 DEF MoreImports, Inv, CallsNest
  <1> HIDE DEF n, c
  <1>5. \A j \in 1 .. Len(imports[c.name]) :
            j < c.at \/ (j = c.at /\ c.step = "bind") => Reached(status, c.op, imports[c.name][j])
    BY <1>1, <1>3, TopReached
  <1>6. c.at <= Len(imports[c.name]) + 1 /\ c.at = Len(imports[c.name]) + 1
    BY <1>2, <1>3, <1>4
  <1>7. CallsNest' /\ ImportsReached' /\ BusyExplained'
    BY <1>1, <1>3, <1>5, <1>6, MoveStack
  <1>8. /\ calls' \in Seq(Call) /\ Len(calls') = n /\ Active' /\ calls'[n] = c
        /\ \A i \in 1 .. n : calls'[i].op = calls[i].op /\ calls'[i].name = calls[i].name
    BY <1>1, <1>3, Moves DEF n
  <1>9. /\ ran \in Seq(Names) /\ Len(ran) \in Nat /\ ran' \in Seq(Names)
        /\ Len(ran') = Len(ran) + 1 /\ ran'[Len(ran) + 1] = Top.name
        /\ \A i \in 1 .. Len(ran) : ran'[i] = ran[i]
    <2>1. ran \in Seq(Names)
      BY DEF Inv, TypeOK
    <2> QED
      BY <1>1, <1>2, <2>1, Appended
  <1>10. /\ export' \in [Names -> {"none", "uninitialized", "initialized"}]
         /\ \A m \in Names : m # Top.name => export'[m] = export[m]
    BY <1>1 DEF Inv, TypeOK
  <1>11. TypeOK'
    BY <1>1, <1>8, <1>9, <1>10 DEF Inv, TypeOK
  <1>12. BindingsStored'
    <2>1. ASSUME NEW i \in 1 .. n PROVE calls'[i].op # "link"
      BY <1>1, <1>2, <1>8, <2>1 DEF Inv, CallsNest, n
    <2> QED
      BY <1>1, <1>8, <2>1 DEF Inv, BindingsStored, IsLinked
  <1>13. BodiesStarted'
    <2>1. \A i \in 1 .. Len(ran) : status[ran[i]] = "evaluated" \/ ran[i] \in failed
      BY <1>1, NoBody
    <2>2. \A i \in 1 .. Len(ran) : ran[i] # Top.name
      BY <1>2, <2>1
    <2>3. \A i \in 1 .. Len(ran) + 1 : i = Len(ran) + 1 \/ i \in 1 .. Len(ran)
      BY <1>9
    <2>4. EvaluatedOnce'
      <3> SUFFICES ASSUME NEW i \in 1 .. Len(ran) + 1, NEW j \in 1 .. Len(ran) + 1,
                          ran'[i] = ran'[j]
                   PROVE  i = j
        BY <1>9 DEF EvaluatedOnce
      <3>1. CASE i \in 1 .. Len(ran) /\ j \in 1 .. Len(ran)
        BY <1>9, <3>1 DEF Inv, BodiesStarted, EvaluatedOnce
      <3>2. CASE i = Len(ran) + 1 \/ j = Len(ran) + 1
        BY <1>9, <2>2, <2>3, <3>2
      <3> QED
        BY <2>3, <3>1, <3>2
    <2>5. ASSUME NEW i \in 1 .. Len(ran) + 1
          PROVE  \/ status[ran'[i]] = "evaluated" \/ ran'[i] \in failed
                 \/ \E k \in 1 .. n : calls'[k].name = ran'[i] /\ calls'[k].step = "body"
      <3>1. CASE i = Len(ran) + 1
        BY <1>2, <1>3, <1>8, <1>9, <3>1
      <3>2. CASE i \in 1 .. Len(ran)
        BY <1>9, <2>1, <3>2
      <3> QED
        BY <2>3, <3>1, <3>2
    <2>6. \A m \in Names : status[m] = "evaluated" => export'[m] = "initialized"
      BY <1>2, <1>10 DEF Inv, BodiesStarted
    <2>7. \A i \in 1 .. Len(ran') :
             \/ status'[ran'[i]] = "evaluated" \/ ran'[i] \in failed'
             \/ \E k \in 1 .. Len(calls') : calls'[k].name = ran'[i] /\ calls'[k].step = "body"
      BY <1>1, <1>8, <1>9, <2>5
    <2>8. \A m \in Names : status'[m] = "evaluated" => export'[m] = "initialized"
      BY <1>1, <2>6
    <2> QED
      BY <2>4, <2>7, <2>8, Zenon DEF BodiesStarted
  <1>14. RequestServed' /\ HostIsToldTrue'
    <2>1. calls'[1].name = calls[1].name /\ calls'[1].op = calls[1].op
      BY <1>2, <1>8
    <2> QED
      BY <1>1, <1>8, <2>1, RequestKept
  <1> QED
    BY <1>7, <1>11, <1>12, <1>13, <1>14 DEF Inv

LEMMA InitializeExportKeeps == Inv /\ InitializeExport => Inv'
  <1> SUFFICES ASSUME Inv, InitializeExport PROVE Inv'
    OBVIOUS
  <1>1. /\ Active /\ export' = [export EXCEPT ![Top.name] = "initialized"]
        /\ UNCHANGED <<imports, status, bound, calls, request, returned, ran, failed>>
    BY DEF InitializeExport, Evaluating
  <1>2. export' \in [Names -> {"none", "uninitialized", "initialized"}]
    BY <1>1 DEF Inv, TypeOK
  <1>3. \A m \in Names : export[m] = "initialized" => export'[m] = "initialized"
    BY <1>1 DEF Inv, TypeOK
  <1>4. TypeOK'
    BY <1>1, <1>2 DEF Inv, TypeOK
  <1>5. CallsNest' /\ ImportsReached'
    BY <1>1 DEF Inv, CallsNest, ImportsReached
  <1>6. BindingsStored' /\ BusyExplained'
    BY <1>1 DEF Inv, BindingsStored, BusyExplained, IsLinked, OnStack
  <1>7. BodiesStarted'
    BY <1>1, <1>3 DEF Inv, BodiesStarted, EvaluatedOnce
  <1>8. RequestServed' /\ HostIsToldTrue'
    BY <1>1 DEF Inv, RequestServed, HostIsToldTrue, Active, IsLinked
  <1> QED
    BY <1>4, <1>5, <1>6, <1>7, <1>8 DEF Inv

\* A module whose body has ended is evaluated, and its binding is readable.
LEMMA BodyEndsKeeps == Inv /\ BodyEnds => Inv'
  <1> SUFFICES ASSUME Inv, BodyEnds PROVE Inv'
    OBVIOUS
  <1> DEFINE n == Len(calls)
  <1>1. /\ Active /\ Top.op = "evaluate" /\ Top.step = "body"
        /\ export[Top.name] = "initialized"
        /\ status' = [status EXCEPT ![Top.name] = "evaluated"] /\ calls' = Callers
        /\ returned' = IF n = 1 THEN "ok" ELSE returned
        /\ UNCHANGED <<imports, bound, export, request, ran, failed>>
    BY DEF BodyEnds, Evaluating
  <1>2. /\ n \in Nat /\ n >= 1 /\ n \in 1 .. n /\ Top = calls[n] /\ Top.name \in Names
        /\ status[Top.name] = "evaluating" /\ Top.name \notin failed
        /\ Top.op = calls[1].op
    BY <1>1, TopFacts DEF Busy
  <1>3. /\ calls' \in Seq(Call) /\ Len(calls') = n - 1
        /\ \A i \in 1 .. n - 1 : calls'[i] = calls[i]
        /\ CallsNest' /\ ImportsReached' /\ BusyExplained'
    BY <1>1, LeaveStack
  <1>4. /\ status \in [Names -> States] /\ status'[Top.name] = "evaluated"
        /\ \A m \in Names : m # Top.name => status'[m] = status[m]
    BY <1>1, <1>2 DEF Inv, TypeOK
  <1>5. \A i \in 1 .. n : calls[i].op = "evaluate" /\ (calls[i].step = "body" => i = n)
    BY <1>1, <1>2 DEF Inv, CallsNest
  <1> HIDE DEF n
  <1>6. TypeOK'
    <2>1. status' \in [Names -> States]
      BY <1>1, <1>2, <1>4 DEF States
    <2>2. returned' \in {"none", "ok", "error"}
      BY <1>1 DEF Inv, TypeOK
    <2> QED
      BY <1>1, <1>3, <2>1, <2>2 DEF Inv, TypeOK
  <1>7. BindingsStored'
    <2>1. \A i \in 1 .. n - 1 : calls'[i].op # "link"
      BY <1>2, <1>3, <1>5
    <2>2. \A m \in Names : status'[m] = "absent" => bound[m] = 0
      BY <1>4 DEF Inv, BindingsStored
    <2>3. \A m \in Names : IsLinked(m)' => IsLinked(m)
      BY <1>2, <1>4 DEF IsLinked
    <2>4. \A m \in Names : IsLinked(m) =>
             /\ bound[m] = Len(imports[m])
             /\ \A i \in 1 .. Len(imports[m]) : status'[imports[m][i]] # "absent"
      <3>1. \A m \in Names : \A i \in 1 .. Len(imports[m]) : imports[m][i] \in Names
        BY DEF Inv, TypeOK
      <3> QED
        BY <1>4, <3>1 DEF Inv, BindingsStored
    <2> QED
      BY <1>1, <1>3, <2>1, <2>2, <2>3, <2>4 DEF BindingsStored
  <1>8. BodiesStarted'
    <2>1. ASSUME NEW i \in 1 .. Len(ran) PROVE status'[ran[i]] = "evaluated" \/ ran[i] \in failed
      <3>1. ran[i] \in Names
        BY DEF Inv, TypeOK
      <3>2. CASE \E k \in 1 .. n : calls[k].name = ran[i] /\ calls[k].step = "body"
        <4>1. ran[i] = Top.name
          BY <1>2, <1>5, <3>2
        <4> QED
          BY <1>4, <4>1
      <3>3. CASE status[ran[i]] = "evaluated" \/ ran[i] \in failed
        BY <1>4, <3>1, <3>3
      <3> QED
        BY <3>2, <3>3 DEF Inv, BodiesStarted, n
    <2>2. \A m \in Names : status'[m] = "evaluated" => export[m] = "initialized"
      BY <1>1, <1>4 DEF Inv, BodiesStarted
    <2> QED
      BY <1>1, <2>1, <2>2 DEF Inv, BodiesStarted, EvaluatedOnce
  <1>9. RequestServed' /\ HostIsToldTrue'
    <2>1. /\ request.op = "evaluate" /\ returned = "none" /\ calls[1].name = request.name
      BY <1>1, <1>2 DEF Inv, RequestServed
    <2>2. CASE n = 1
      <3>1. ~Active'
        BY <1>3, <2>2 DEF Active
      <3>2. status'[request.name] = "evaluated"
        BY <1>2, <1>4, <2>1, <2>2
      <3> QED
        BY <1>1, <2>1, <2>2, <3>1, <3>2 DEF RequestServed, HostIsToldTrue
    <2>3. CASE n # 1
      <3>1. Active' /\ 1 \in 1 .. n - 1
        BY <1>2, <1>3, <2>3 DEF Active
      <3> QED
        BY <1>1, <1>3, <2>3, <3>1, RequestKept
    <2> QED
      BY <2>2, <2>3
  <1> QED
    BY <1>3, <1>6, <1>7, <1>8, <1>9 DEF Inv

-----------------------------------------------------------------------------
(* The host *)

\* The host has no call that is active: every busy record is a failed one.
LEMMA IdleFacts ==
    ASSUME Inv, ~Active
    PROVE  /\ calls = <<>> /\ Len(calls) = 0
           /\ \A m \in Names : status[m] \in {"linking", "evaluating"} => m \in failed
           /\ \A i \in 1 .. Len(ran) : status[ran[i]] = "evaluated" \/ ran[i] \in failed
  <1>1. calls = <<>> /\ Len(calls) = 0
    BY DEF Active
  <1> QED
    BY <1>1 DEF Inv, BusyExplained, BodiesStarted, OnStack

\* The host starts a call on a record that was not busy.
LEMMA HostEnters ==
    ASSUME Inv, ~Active, NEW op \in {"link", "evaluate"}, NEW m \in Names,
           status[m] = IF op = "link" THEN "absent" ELSE "linked",
           status' = [status EXCEPT ![m] = Busy(op)],
           calls' = <<Enter(op, m)>>, returned' = "none",
           request'.name = m, request'.op \in {"link", "evaluate"},
           request' \in [op : {"none"}] \cup [op : {"link", "evaluate"}, name : Names],
           op = "evaluate" => request'.op = "evaluate",
           UNCHANGED <<imports, bound, export, ran, failed>>
    PROVE  Inv'
  <1> DEFINE e == Enter(op, m)
  <1>1. e \in Call /\ e.op = op /\ e.name = m /\ e.at = 1 /\ e.step = "load"
    BY Entered
  <1> HIDE DEF e
  <1>2. /\ calls' = <<e>> /\ calls' \in Seq(Call) /\ Len(calls') = 1 /\ calls'[1] = e
        /\ Active' /\ \A i \in 1 .. 1 : i = 1
    BY <1>1 DEF Active, e
  <1>3. /\ status \in [Names -> States] /\ status'[m] = Busy(op)
        /\ Busy(op) \in {"linking", "evaluating"} /\ m \notin failed
        /\ status[m] = IF status'[m] = "linking" THEN "absent" ELSE "linked"
        /\ \A x \in Names : x # m => status'[x] = status[x]
    BY DEF Inv, TypeOK, Busy, BusyExplained
  <1>4. TypeOK'
    <2>1. status' \in [Names -> States]
      BY <1>3 DEF States
    <2> QED
      BY <1>2, <2>1 DEF Inv, TypeOK
  <1>5. CallsNest'
    <2>1. imports[m] \in Seq(Names) /\ Len(imports[m]) \in Nat
      BY DEF Inv, TypeOK
    <2>2. 1 <= Len(imports[m]) + 1
      BY <2>1
    <2> QED
      BY <1>1, <1>2, <1>3, <2>2 DEF CallsNest, Busy
  <1>6. ImportsReached'
    <2> SUFFICES ASSUME NEW j \in 1 .. Len(imports[m])
                 PROVE  ~(j < 1)
      BY <1>1, <1>2 DEF ImportsReached
    <2> QED
      OBVIOUS
  <1>7. BindingsStored'
    <2>1. op = "link" => bound[m] = 0
      BY DEF Inv, BindingsStored
    <2>2. \A x \in Names : status'[x] = "absent" => bound[x] = 0
      BY <1>3 DEF Inv, BindingsStored
    <2>3. \A x \in Names : IsLinked(x)' => IsLinked(x)
      BY <1>3 DEF IsLinked
    <2>4. \A x \in Names : IsLinked(x) =>
             /\ bound[x] = Len(imports[x])
             /\ \A i \in 1 .. Len(imports[x]) : status'[imports[x][i]] # "absent"
      <3>1. \A x \in Names : \A i \in 1 .. Len(imports[x]) : imports[x][i] \in Names
        BY DEF Inv, TypeOK
      <3> QED
        BY <1>3, <3>1 DEF Inv, BindingsStored
    <2> QED
      BY <1>1, <1>2, <2>1, <2>2, <2>3, <2>4 DEF BindingsStored
  <1>8. BusyExplained'
    <2>1. ASSUME NEW o, o = op PROVE OnStack(m, o)'
      BY <1>1, <1>2, <2>1 DEF OnStack
    <2>2. \A x \in Names : x # m /\ status'[x] \in {"linking", "evaluating"} => x \in failed
      BY <1>3, IdleFacts
    <2>3. \A x \in failed : status'[x] \in {"linking", "evaluating"}
      BY <1>3 DEF Inv, TypeOK, BusyExplained
    <2>4. (status'[m] = "linking" => OnStack(m, "link")')
          /\ (status'[m] = "evaluating" => OnStack(m, "evaluate")')
      BY <1>3, <2>1 DEF Busy
    <2> QED
      BY <2>2, <2>3, <2>4 DEF BusyExplained
  <1>9. BodiesStarted'
    <2>1. \A i \in 1 .. Len(ran) : ran[i] \in Names
      BY DEF Inv, TypeOK
    <2>2. \A i \in 1 .. Len(ran) : status'[ran[i]] = "evaluated" \/ ran[i] \in failed
      BY <1>3, <2>1, IdleFacts
    <2>3. \A x \in Names : status'[x] = "evaluated" => export[x] = "initialized"
      BY <1>3 DEF Inv, BodiesStarted
    <2> QED
      BY <2>2, <2>3 DEF Inv, BodiesStarted, EvaluatedOnce
  <1>10. RequestServed' /\ HostIsToldTrue'
    BY <1>1, <1>2 DEF RequestServed, HostIsToldTrue
  <1> QED
    BY <1>4, <1>5, <1>6, <1>7, <1>8, <1>9, <1>10 DEF Inv

\* The host is answered, or makes a call that has nothing to do.
LEMMA HostIdle ==
    ASSUME Inv, ~Active, ~Active',
           UNCHANGED <<imports, status, bound, export, calls, ran, failed>>,
           request' \in [op : {"none"}] \cup [op : {"link", "evaluate"}, name : Names],
           returned' \in {"none", "ok", "error"},
           request'.op = "none" => returned' = "none",
           returned' = "ok" /\ request'.name \notin failed =>
              IF request'.op = "link" THEN status[request'.name] \in {"linked", "evaluating", "evaluated"}
                                      ELSE status[request'.name] = "evaluated"
    PROVE  Inv'
  <1>1. TypeOK'
    BY DEF Inv, TypeOK
  <1>2. CallsNest' /\ ImportsReached'
    BY DEF Inv, CallsNest, ImportsReached
  <1>3. BindingsStored' /\ BusyExplained'
    BY DEF Inv, BindingsStored, BusyExplained, IsLinked, OnStack
  <1>4. BodiesStarted'
    BY DEF Inv, BodiesStarted, EvaluatedOnce
  <1>5. RequestServed' /\ HostIsToldTrue'
    BY DEF RequestServed, HostIsToldTrue, IsLinked
  <1> QED
    BY <1>1, <1>2, <1>3, <1>4, <1>5 DEF Inv

LEMMA MakesRequest ==
    ASSUME NEW op \in {"link", "evaluate"}, NEW m \in Names
    PROVE  LET r == [op |-> op, name |-> m]
           IN  /\ r \in [op : {"none"}] \cup [op : {"link", "evaluate"}, name : Names]
               /\ r.op = op /\ r.name = m
  OBVIOUS

\* A request that is made names a module.
LEMMA RequestFields ==
    ASSUME Inv
    PROVE  /\ request.op \in {"none", "link", "evaluate"}
           /\ request.op # "none" => request.name \in Names
  BY DEF Inv, TypeOK

LEMMA HostKeeps == Inv /\ Host => Inv'
  <1> SUFFICES ASSUME Inv, Host PROVE Inv'
    OBVIOUS
  <1>1. ASSUME NEW op \in {"link", "evaluate"}, NEW m \in Names, HostLink(op, m) PROVE Inv'
    <2>1. ~Active /\ request.op = "none" /\ request' = [op |-> op, name |-> m]
          /\ UNCHANGED <<imports, bound, export, ran, failed>>
      BY <1>1 DEF HostLink
    <2>2. /\ request' \in [op : {"none"}] \cup [op : {"link", "evaluate"}, name : Names]
          /\ request'.op = op /\ request'.name = m
      BY <2>1, MakesRequest
    <2>3. CASE NeedsLink(m)
      <3>1. /\ status' = [status EXCEPT ![m] = "linking"] /\ status[m] = "absent"
            /\ calls' = <<Enter("link", m)>> /\ returned' = "none"
        BY <1>1, <2>3 DEF HostLink, NeedsLink
      <3>2. Busy("link") = "linking"
        BY DEF Busy
      <3> QED
        BY <2>1, <2>2, <3>1, <3>2, HostEnters
    <2>4. CASE ~NeedsLink(m)
      <3>1. /\ calls' = <<>> /\ UNCHANGED status /\ status[m] # "absent"
            /\ returned' = IF op = "link" THEN "ok" ELSE "none"
        BY <1>1, <2>4 DEF HostLink, NeedsLink
      <3>2. calls = <<>> /\ ~Active'
        BY <2>1, <3>1 DEF Active
      <3>3. status[m] \in States
        BY DEF Inv, TypeOK
      <3>4. m \notin failed => status[m] \in {"linked", "evaluating", "evaluated"}
        BY <2>1, <3>1, <3>3, IdleFacts DEF States
      <3> QED
        BY <2>1, <2>2, <3>1, <3>2, <3>4, HostIdle
    <2> QED
      BY <2>3, <2>4
  <1>2. ASSUME NEW op \in {"link", "evaluate"}, NEW m \in Names, HostLoadFails(op, m) PROVE Inv'
    <2>1. ~Active /\ request' = [op |-> op, name |-> m] /\ returned' = "error"
          /\ UNCHANGED <<imports, status, bound, export, calls, ran, failed>>
      BY <1>2 DEF HostLoadFails
    <2>2. /\ request' \in [op : {"none"}] \cup [op : {"link", "evaluate"}, name : Names]
          /\ request'.op = op
      BY <2>1, MakesRequest
    <2>3. ~Active'
      BY <2>1 DEF Active
    <2> QED
      BY <2>1, <2>2, <2>3, HostIdle
  <1>3. CASE HostEvaluate
    <2>1. /\ ~Active /\ request.op = "evaluate" /\ returned = "none"
          /\ UNCHANGED <<imports, bound, export, request, ran>>
      BY <1>3 DEF HostEvaluate
    <2>2. /\ request \in [op : {"none"}] \cup [op : {"link", "evaluate"}, name : Names]
          /\ request.name \in Names
      BY <2>1, RequestFields DEF Inv, TypeOK
    <2>3. CASE status[request.name] = "linked"
      <3>1. /\ status' = [status EXCEPT ![request.name] = "evaluating"]
            /\ calls' = <<Enter("evaluate", request.name)>> /\ UNCHANGED <<returned, failed>>
        BY <1>3, <2>3 DEF HostEvaluate
      <3>2. Busy("evaluate") = "evaluating"
        BY DEF Busy
      <3> QED
        BY <2>1, <2>2, <2>3, <3>1, <3>2, HostEnters
    <2>4. CASE status[request.name] # "linked"
      <3>1. /\ UNCHANGED <<status, calls, failed>> /\ returned' \in {"ok", "error"}
            /\ returned' = "ok" => status[request.name] \in {"evaluating", "evaluated"}
        BY <1>3, <2>4 DEF HostEvaluate
      <3>2. ~Active'
        BY <2>1, <3>1 DEF Active
      <3>3. status[request.name] = "evaluating" => request.name \in failed
        BY <2>1, <2>2, IdleFacts
      <3> QED
        BY <2>1, <2>2, <3>1, <3>2, <3>3, HostIdle
    <2> QED
      BY <2>3, <2>4
  <1>4. CASE HostContinues
    <2>1. /\ ~Active /\ request' = [op |-> "none"] /\ returned' = "none"
          /\ UNCHANGED <<imports, status, bound, export, calls, ran, failed>>
      BY <1>4 DEF HostContinues
    <2>2. request' \in [op : {"none"}] \cup [op : {"link", "evaluate"}, name : Names]
      BY <2>1
    <2>3. ~Active'
      BY <2>1 DEF Active
    <2> QED
      BY <2>1, <2>2, <2>3, HostIdle
  <1> QED
    BY <1>1, <1>2, <1>3, <1>4 DEF Host

-----------------------------------------------------------------------------
LEMMA StepKeeps == Inv /\ Step => Inv'
  <1> SUFFICES ASSUME Inv, Step PROVE Inv'
    OBVIOUS
  <1>1. CASE LinkLoadFails
    BY <1>1, UnwindKeeps DEF LinkLoadFails, Linking
  <1>2. CASE LinkMissingExport
    BY <1>2, UnwindKeeps DEF LinkMissingExport, Linking
  <1>3. CASE LinkCompileFails
    BY <1>3, UnwindKeeps DEF LinkCompileFails, Linking
  <1>4. CASE EvaluateUnlinked
    BY <1>4, UnwindKeeps DEF EvaluateUnlinked, Evaluating
  <1>5. CASE ReadUninitialized
    BY <1>5, UnwindKeeps DEF ReadUninitialized, Evaluating
  <1>6. CASE BodyFails
    BY <1>6, UnwindKeeps DEF BodyFails, Evaluating
  <1> QED
    BY <1>1, <1>2, <1>3, <1>4, <1>5, <1>6, LinkLoadKeeps, LinkBindKeeps, LinkCompileKeeps,
       EvaluateDependencyKeeps, StartBodyKeeps, InitializeExportKeeps, BodyEndsKeeps DEF Step

LEMMA NextKeeps == Inv /\ [Next]_vars => Inv'
  <1> SUFFICES ASSUME Inv, [Next]_vars PROVE Inv'
    OBVIOUS
  <1>1. CASE UNCHANGED vars
    <2>1. UNCHANGED <<imports, status, bound, export, calls, request, returned, ran, failed>>
      BY <1>1 DEF vars
    <2>2. TypeOK' /\ CallsNest' /\ ImportsReached'
      BY <2>1 DEF Inv, TypeOK, CallsNest, ImportsReached
    <2>3. BindingsStored' /\ BusyExplained' /\ BodiesStarted'
      BY <2>1 DEF Inv, BindingsStored, BusyExplained, BodiesStarted, EvaluatedOnce, IsLinked,
                  OnStack
    <2>4. RequestServed' /\ HostIsToldTrue'
      BY <2>1 DEF Inv, RequestServed, HostIsToldTrue, Active, IsLinked
    <2> QED
      BY <2>2, <2>3, <2>4 DEF Inv
  <1> QED
    BY <1>1, HostKeeps, StepKeeps DEF Next

LEMMA Invariance == Spec => []Inv
  BY InitInv, NextKeeps, PTL DEF Spec

\* Every variable of the module system keeps its type (src/src/runtime/module.cpp).
THEOREM TypesHold == Spec => []TypeOK
  <1>1. Inv => TypeOK
    BY DEF Inv
  <1> QED
    BY <1>1, Invariance, PTL

\* evaluate_record starts no module body a second time, for every import graph
\* and whatever calls the host makes and sees fail.
THEOREM BodiesRunOnce == Spec => []EvaluatedOnce
  <1>1. Inv => EvaluatedOnce
    BY DEF Inv, BodiesStarted
  <1> QED
    BY <1>1, Invariance, PTL

\* While a body runs, evaluate_record has dealt with all that it imports.
THEOREM DependenciesRunFirst == Spec => []DependenciesFirst
  <1>1. ASSUME Inv PROVE DependenciesFirst
    <2> SUFFICES ASSUME Evaluating("body"), NEW i \in 1 .. Len(imports[Top.name])
                 PROVE  LET d == imports[Top.name][i]
                        IN  \/ status[d] = "evaluated" /\ export[d] = "initialized"
                            \/ OnStack(d, "evaluate")
                            \/ d \in failed
      BY DEF DependenciesFirst
    <2> DEFINE d == imports[Top.name][i]
    <2>1. Active /\ Top.op = "evaluate" /\ Top.step = "body"
      BY DEF Evaluating
    <2>2. /\ Len(calls) \in 1 .. Len(calls) /\ Top = calls[Len(calls)]
          /\ Top.at \in Nat /\ Len(imports[Top.name]) \in Nat
          /\ imports[Top.name] \in Seq(Names)
      BY <1>1, <2>1, TopFacts
    <2>3. i < Top.at
      BY <1>1, <2>1, <2>2 DEF Inv, CallsNest
    <2>4. Reached(status, Top.op, d) /\ d \in Names
      BY <1>1, <2>1, <2>2, <2>3, TopReached
    <2>5. status[d] \in {"evaluating", "evaluated"}
      BY <2>1, <2>4 DEF Reached
    <2> HIDE DEF d
    <2>6. CASE status[d] = "evaluated"
      BY <1>1, <2>4, <2>6 DEF Inv, BodiesStarted, d
    <2>7. CASE status[d] = "evaluating"
      BY <1>1, <2>4, <2>7 DEF Inv, BusyExplained, d
    <2> QED
      BY <2>5, <2>6, <2>7
  <1> QED
    BY <1>1, Invariance, PTL

\* The result of link and evaluate stands for all that the call was to do.
THEOREM SuccessIsTrue == Spec => []SuccessMeansDone
  <1>1. ASSUME Inv PROVE LinkedClosed
    <2> SUFFICES ASSUME NEW m \in Names, IsLinked(m)
                 PROVE  /\ bound[m] = Len(imports[m])
                        /\ \A i \in 1 .. Len(imports[m]) :
                              LET d == imports[m][i] IN
                              IsLinked(d) \/ OnStack(d, "link") \/ d \in failed
      BY DEF LinkedClosed
    <2>1. bound[m] = Len(imports[m])
      BY <1>1 DEF Inv, BindingsStored
    <2>2. ASSUME NEW i \in 1 .. Len(imports[m])
          PROVE  LET d == imports[m][i] IN IsLinked(d) \/ OnStack(d, "link") \/ d \in failed
      <3>1. imports[m][i] \in Names /\ status[imports[m][i]] \in States
        BY <1>1 DEF Inv, TypeOK
      <3>2. status[imports[m][i]] # "absent"
        BY <1>1 DEF Inv, BindingsStored
      <3>3. status[imports[m][i]] = "linking" =>
               OnStack(imports[m][i], "link") \/ imports[m][i] \in failed
        BY <1>1, <3>1 DEF Inv, BusyExplained
      <3> QED
        BY <3>1, <3>2, <3>3 DEF IsLinked, States
    <2> QED
      BY <2>1, <2>2
  <1>2. Inv => SuccessMeansDone
    BY <1>1 DEF Inv, SuccessMeansDone
  <1> QED
    BY <1>2, Invariance, PTL
=============================================================================
