---------------------------- MODULE MCControlFlow ----------------------------
(***************************************************************************)
(* Nested try statements inside loops: every pair of an outer and an inner *)
(* try statement of the three forms, the inner one in the block or in the  *)
(* catch clause, with the ways of leaving each of their parts; then loops  *)
(* inside a protected region, labels, do-while, if and expressions.        *)
(***************************************************************************)
EXTENDS Harness

MCGenIds == {"g1"}

\* Ways to leave the part p of a try statement.
Exits(p) ==
  {<<Mark(p)>>, <<Leaf("throw", p)>>, <<Leaf("return", p)>>,
   <<Leaf("break", "")>>, <<Leaf("continue", "")>>}
Clauses(p) ==
  {<<Caught>>, <<Caught, Leaf("throw", p)>>, <<Caught, Leaf("continue", "")>>}
Finals(p) ==
  {<<Mark(p)>>, <<Mark(p), Leaf("return", p)>>,
   <<Mark(p), Leaf("break", "")>>}

Tries(blocks, clauses, finals) ==
  {<<TryCatch(b, c)>> : b \in blocks, c \in clauses}
    \cup {<<TryFinally(b, f)>> : b \in blocks, f \in finals}
    \cup {<<TryFull(b, c, f)>> :
            b \in blocks, c \in clauses, f \in finals}

Inner == Tries(Exits("b2"), Clauses("c2"), Finals("f2"))

\* The inner statement in the block, and in the catch clause.
Outer ==
  Tries(Inner, Clauses("c1"), Finals("f1"))
    \cup {<<TryFull(<<Leaf("throw", "b1")>>, <<Caught>> \o i,
                    <<Mark("f1")>>)>> : i \in Inner}

InLoop == {<<While("", t \o <<Mark("w")>>)>> : t \in Outer}

LoopInTry ==
  {<<TryFull(<<While("", <<TryCatch(b, c)>>), Mark("m")>>,
             <<Mark("c")>>, <<Mark("f")>>)>> :
     b \in Exits("b"), c \in Clauses("c")}

Labelled ==
  {<<While("l", <<While("", <<TryFinally(<<Leaf(k, "l")>>, f)>>),
                  Mark("w")>>)>> :
     k \in {"break", "continue"}, f \in Finals("f")}

LabelledBlock ==
  {<<Stmt("labeled", "l",
          <<TryFinally(<<Stmt("if", "", <<Leaf("break", "l")>>, e, <<>>)>>,
                       <<Mark("f")>>),
            Mark("m")>>, <<>>, <<>>), Mark("z")>> :
     e \in {<<Mark("e")>>, <<Leaf("throw", "e")>>, <<Leaf("return", "e")>>}}

DoWhile ==
  {<<Stmt("dowhile", "",
          <<TryFull(<<Leaf("expr", "x")>> \o b, c, <<Mark("f")>>)>>,
          <<>>, <<>>), Mark("z")>> :
     b \in Exits("b"), c \in Clauses("c")}

\* Finalizers with control flow of their own, entered by every completion.
BusyFinalizer ==
  {<<While("", <<TryFinally(b, f), Mark("w")>>)>> :
     b \in Exits("b"),
     f \in {<<While("", <<Mark("f")>>)>>,
            <<Stmt("if", "", <<Mark("f")>>, <<Leaf("break", "")>>, <<>>)>>,
            <<Stmt("labeled", "k", <<Leaf("break", "k")>>, <<>>, <<>>),
              Mark("f")>>}}

FromScript(bodies) ==
  {Script(<<Leaf("call", "f"), Mark("end")>>, b, <<>>, {}) : b \in bodies}

MCSources ==
  FromScript(InLoop \cup LoopInTry \cup Labelled \cup LabelledBlock
           \cup DoWhile \cup BusyFinalizer)

=============================================================================
