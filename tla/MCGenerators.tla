---------------------------- MODULE MCGenerators ----------------------------
(***************************************************************************)
(* Generators driven by for-of: yields inside try blocks, catch clauses    *)
(* and loops, consumers that finish, leave early or throw, a generator     *)
(* that drives another one, and Generator.next on a generator that is      *)
(* completed or executing.  The programs of MCInvocation are run too.      *)
(***************************************************************************)
EXTENDS MCInvocation

\* The first generator object a program creates.
FirstGen == CHOOSE g \in MCGenIds : TRUE

Y(v) == Leaf("yield", v)

Producers ==
  {<<Y("a"), Y("b")>>,
   <<Y("a"), Leaf("return", "r")>>,
   <<While("", <<Y("a"), Leaf("expr", "x")>>)>>,
   <<TryCatch(<<Y("a"), Leaf("throw", "t")>>, <<Caught, Y("c")>>), Y("d")>>,
   <<TryFinally(<<Y("a"), Leaf("throw", "t")>>, <<Mark("fg")>>)>>,
   <<TryFull(<<Y("a"), Leaf("expr", "x")>>, <<Caught, Y("c")>>,
             <<Mark("fg")>>), Leaf("return", "r")>>,
   <<While("", <<TryFinally(<<Y("a"), Leaf("break", "")>>, <<Mark("fg")>>)>>),
     Y("e")>>}

Bodies ==
  {<<Mark("m")>>, <<Leaf("break", "")>>, <<Leaf("continue", "")>>,
   <<Leaf("throw", "u")>>, <<Leaf("return", "v")>>, <<Leaf("expr", "z")>>,
   <<TryCatch(<<Leaf("throw", "u")>>, <<Caught>>)>>}

Consumers ==
  {<<For("g", b), Mark("k")>> : b \in Bodies}
    \cup {<<TryFull(<<For("g", b), Mark("k")>>, <<Caught>>, <<Mark("ff")>>)>> :
            b \in Bodies}
    \cup {<<For("g", <<TryFinally(b, <<Mark("fb")>>)>>)>> : b \in Bodies}

Driven ==
  {Script(<<Leaf(c, "f"), Mark("end")>>, f, g, {"g"}) :
     c \in {"call", "apply"}, f \in Consumers, g \in Producers}

\* The consumer is itself a generator.
Chained ==
  {Script(<<TryCatch(<<For("f", b)>>, <<Caught>>), Mark("end")>>,
          <<TryFinally(<<For("g", <<Y("y")>>)>>, <<Mark("ff")>>)>>, g,
          {"f", "g"}) :
     b \in {<<Mark("m")>>, <<Leaf("break", "")>>, <<Leaf("throw", "u")>>},
     g \in Producers}

NextAgain ==
  {Script(<<For("g", <<Mark("m")>>), Leaf("next", FirstGen)>>, <<>>,
          <<Y("a")>>, {"g"}),
   Script(<<TryCatch(<<For("g", <<Mark("m")>>)>>, <<Caught>>)>>, <<>>,
          <<Y("a"), TryCatch(<<Leaf("next", FirstGen)>>, <<Caught>>)>>, {"g"}),
   Script(<<TryCatch(<<For("f", <<Mark("m")>>)>>, <<Caught>>)>>,
          <<Leaf("return", "data")>>, <<>>, {})}

GeneratorSources == Driven \cup Chained \cup NextAgain \cup Invocations \cup ObjectRest

=============================================================================
