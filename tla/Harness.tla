------------------------------ MODULE Harness ------------------------------
(***************************************************************************)
(* Source programs compiled by Lowering, accepted by Verifier, run by      *)
(* Interpreter and compared with Semantics.  An MC module supplies the     *)
(* source programs: records of statement lists, one for the script and one *)
(* for each function.                                                      *)
(***************************************************************************)
EXTENDS Completions, Semantics, TLC

CONSTANT
  Sources     \* a set of [main, f, g : statement list, starred : the generators]

\* The chunk of one body, annotated with the verifier's depths and its
\* source.  (Merging with the empty function makes TLC tabulate the map.)
Compiled(list, generator) ==
  LET c == CompileBody(list, generator)
  IN  [code |-> c.code, handlers |-> c.handlers, generator |-> c.generator,
       depth |-> Depths(c) @@ <<>>, source |-> list]

MCPrograms ==
  {[main |-> Compiled(s.main, FALSE), f |-> Compiled(s.f, "f" \in s.starred),
    g |-> Compiled(s.g, "g" \in s.starred)] : s \in Sources}
MCNames == {"main", "f", "g"}
MCSlots == 1 .. 4

\* When a run ends, its result and everything it let the host observe are
\* those of the program's meaning: no clause is skipped, repeated, entered by
\* the wrong completion or left by the wrong one (vm.cpp,
\* propagate_completion; compiler.cpp, compile_try).  Programs that leave an
\* operand behind are excepted.
RunsAsSpecified ==
  Ended /\ ~LeavesOperand =>
           LET o == Outcome([n \in Names |-> prog[n].source],
                            {n \in Names : prog[n].generator}, inputs)
           IN  /\ result.type = o.t
               /\ o.t # "failure" => result.value.id = o.v
               /\ log = o.log

-----------------------------------------------------------------------------
(* Notation for source programs.                                           *)

Mark(v)           == Leaf("mark", v)
Caught            == Leaf("caught", "")
TryCatch(b, c)    == Stmt("try_catch", "", b, c, <<>>)
TryFinally(b, f)  == Stmt("try_finally", "", b, <<>>, f)
TryFull(b, c, f)  == Stmt("try_catch_finally", "", b, c, f)
While(l, b)       == Stmt("while", l, b, <<>>, <<>>)
For(g, b)         == Stmt("forof", g, b, <<>>, <<>>)
Script(main, f, g, starred) ==
  [main |-> main, f |-> f, g |-> g, starred |-> starred]

=============================================================================
