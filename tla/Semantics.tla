------------------------------ MODULE Semantics ------------------------------
(***************************************************************************)
(* What a program means, independently of bytecode: a big-step evaluator   *)
(* of the statements of module Lowering that follows the completion rules  *)
(* the repository states (docs/P1_COMPLETION_AND_INVOCATION.md): a catch   *)
(* clause takes a throw, a finalizer runs once whatever the completion of  *)
(* its try statement and replaces it only by an abrupt completion of its   *)
(* own, a loop consumes the breaks and continues that name it, a call      *)
(* gives the caller the callee's return or throw, and an engine failure is *)
(* seen by no clause.                                                      *)
(*                                                                         *)
(* A for-of over a generator evaluates the generator's body and runs the   *)
(* loop's body at each yield.  As the engine has no IteratorClose, leaving *)
(* the loop early abandons the generator where it stands.                  *)
(*                                                                         *)
(* An outcome o is [t, v, log, n, left]: completion type, value or label,  *)
(* the observations, the number of inputs read and, for each generator     *)
(* being abandoned, the completion its consumer left with.  The context x  *)
(* holds the bodies, the inputs, the caught value and the consumer.        *)
(***************************************************************************)
EXTENDS Lowering

RECURSIVE ExecList(_, _, _)
RECURSIVE Exec(_, _, _)
RECURSIVE Iterate(_, _, _)

Complete(o, t, v) == [o EXCEPT !.t = t, !.v = v]
Normally(o) == Complete(o, "normal", "undefined")
See(o, v)   == [o EXCEPT !.log = Append(@, v)]

\* An input of the environment; x.inputs are the ones that were read.
Asked(o, x)  == o.n < Len(x.inputs) /\ x.inputs[o.n + 1]
AfterAsk(o)  == [o EXCEPT !.n = @ + 1]

ExecList(list, o, x) ==
  IF list = <<>> THEN Normally(o)
  ELSE LET first == Exec(Head(list), Normally(o), x)
       IN  IF first.t # "normal" THEN first ELSE ExecList(Tail(list), first, x)

\* try block catch clause finally final.
Protected(s, o, x) ==
  LET block == ExecList(s.b, o, x)
      clause == IF s.k # "try_finally" /\ block.t = "throw"
                THEN ExecList(s.c, block, [x EXCEPT !.exc = block.v])
                ELSE block
      final == ExecList(s.f, Normally(clause), x)
  IN  CASE s.k = "try_catch" -> clause
        [] clause.t \in {"failure", "abandon"} -> clause
        [] final.t = "normal" -> Complete(final, clause.t, clause.v)
        [] OTHER -> final

\* The body of a loop labelled l ran to o: does the loop go on, and what
\* does it complete with when it does not.
Mine(o, l)    == o.v = "" \/ o.v = l
GoesOn(o, l)  == o.t = "normal" \/ (o.t = "continue" /\ Mine(o, l))
Left(o, l)    == IF o.t = "break" /\ Mine(o, l) THEN Normally(o) ELSE o

\* The test of a while or do-while loop, then another turn.
Iterate(s, o, x) ==
  IF ~Asked(o, x) THEN Normally(AfterAsk(o))
  ELSE LET body == ExecList(s.b, AfterAsk(o), x)
       IN  IF GoesOn(body, s.v) THEN Iterate(s, body, x) ELSE Left(body, s.v)

\* A function call: what the caller sees of the body's completion.
Called(name, o, x) ==
  LET body == ExecList(x.bodies[name], Normally(o),
                       [x EXCEPT !.exc = "", !.consumer = <<>>])
  IN  IF body.t = "return" THEN Complete(body, "normal", body.v) ELSE body

\* The call is an operand of an expression whose value is observed.
Observed(o) == IF o.t = "normal" THEN Normally(See(o, o.v)) ELSE o

\* The generator hands v to the for-of that consumes it.  When the consumer
\* leaves its loop, the generator is abandoned.
YieldTo(c, o, v) ==
  LET body == ExecList(c.body, See(Normally(o), v), c.x)
  IN  IF GoesOn(body, "") THEN Normally(body)
      ELSE LET out == Left(body, "")
           IN  [Complete(body, "abandon", "") EXCEPT
                  !.left = Append(@, [t |-> out.t, v |-> out.v])]

ForOf(s, o, x) ==
  LET consumer == <<[body |-> s.b, x |-> x]>>
      g == ExecList(x.bodies[s.v], Normally(o),
                    [x EXCEPT !.exc = "", !.consumer = consumer])
      n == Len(g.left)
  IN  CASE s.v \notin x.generators ->  \* its result is not iterable
             LET r == Called(s.v, o, x)
             IN  IF r.t = "normal" THEN Complete(r, "throw", "TypeError") ELSE r
        [] g.t = "abandon" ->
             [Complete(g, g.left[n].t, g.left[n].v) EXCEPT
                !.left = SubSeq(@, 1, n - 1)]
        [] g.t \in {"throw", "failure"} -> g
        [] OTHER -> Normally(g)

Exec(s, o, x) ==
  CASE s.k = "mark"     -> See(o, s.v)
    [] s.k = "caught"   -> See(o, x.exc)
    [] s.k = "throw"    -> Complete(o, "throw", s.v)
    [] s.k = "return"   -> Complete(o, "return", s.v)
    [] s.k \in {"expr", "rest"} ->
         IF Asked(o, x) THEN Complete(AfterAsk(o), "throw", s.v)
         ELSE AfterAsk(o)
    [] s.k \in {"call", "apply", "getter"} ->
         CASE s.v = "thrower" -> Complete(o, "throw", "TypeError")
           [] s.v = "abort"   -> Complete(o, "failure", "undefined")
           [] OTHER           -> Observed(Called(s.v, o, x))
    [] s.k = "new"      ->
         LET c == Called(s.v, o, x)
         IN  IF s.v \in x.generators THEN Complete(o, "throw", "TypeError")
             ELSE IF c.t = "normal" THEN Normally(See(c, "receiver")) ELSE c
    [] s.k = "calldata" -> Complete(o, "throw", "TypeError")
    [] s.k = "next"     ->  \* on itself while it runs, or once completed
         IF x.consumer # <<>> THEN Complete(o, "failure", "undefined")
         ELSE See(o, "undefined")
    [] s.k = "yield"    -> YieldTo(x.consumer[1], o, s.v)
    [] s.k \in {"break", "continue"} -> Complete(o, s.k, s.v)
    [] s.k = "while"    -> Iterate(s, o, x)
    [] s.k = "dowhile"  ->
         LET body == ExecList(s.b, o, x)
         IN  IF GoesOn(body, s.v) THEN Iterate(s, body, x) ELSE Left(body, s.v)
    [] s.k = "labeled"  ->
         LET body == ExecList(s.b, o, x)
         IN  IF body.t = "break" /\ body.v = s.v THEN Normally(body) ELSE body
    [] s.k = "if"       ->
         ExecList(IF Asked(o, x) THEN s.b ELSE s.c, AfterAsk(o), x)
    [] s.k = "forof"    -> ForOf(s, o, x)
    [] OTHER            -> Protected(s, o, x)

\* The outcome of a program: bodies are its functions, "main" its script.
Outcome(bodies, generators, inputs) ==
  ExecList(bodies["main"],
           [t |-> "normal", v |-> "undefined", log |-> <<>>, n |-> 0,
            left |-> <<>>],
           [exc |-> "", bodies |-> bodies, consumer |-> <<>>,
            generators |-> generators, inputs |-> inputs])

=============================================================================
