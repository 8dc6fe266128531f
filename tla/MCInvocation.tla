---------------------------- MODULE MCInvocation ----------------------------
(***************************************************************************)
(* Three functions deep, each call made directly, as a constructor, by a   *)
(* native function that calls back or by a getter, with and without        *)
(* handlers on the way, and every way for the innermost one to end; and     *)
(* object rest patterns, which leave an operand behind when a getter       *)
(* throws.                                                                 *)
(***************************************************************************)
EXTENDS Harness

MCGenIds == {"g1", "g2"}

Calls(n) == {Leaf(k, n) : k \in {"call", "new", "apply", "getter"}}

Inmost ==
  {<<Leaf("return", "r")>>, <<Leaf("throw", "t")>>, <<Leaf("expr", "x")>>,
   <<Leaf("call", "abort")>>, <<Leaf("call", "thrower")>>,
   <<Leaf("calldata", "d")>>,
   <<TryFinally(<<Leaf("return", "r")>>, <<Mark("fg")>>)>>}

Middle ==
  {<<c, Mark("mid")>> : c \in Calls("g")}
    \cup {<<TryCatch(<<c>>, <<Caught>>)>> : c \in Calls("g")}
    \cup {<<TryFinally(<<c, Leaf("return", "q")>>, <<Mark("ff")>>)>> :
            c \in Calls("g")}
    \cup {<<TryFull(<<c>>, <<Caught, Leaf("throw", "u")>>,
                    <<Mark("ff"), Leaf("return", "v")>>)>> : c \in Calls("g")}

Script1 ==
  {<<c, Mark("end")>> : c \in Calls("f")}
    \cup {<<TryFull(<<c>>, <<Caught>>, <<Mark("fm")>>)>> : c \in Calls("f")}

\* Object rest with no handler in reach and with a finalizer on the way, and
\* a constructor call of a generator function.
Single ==
  {Script(<<TryCatch(<<Leaf("call", "f")>>, <<Caught>>)>>,
          <<TryFinally(<<Leaf("rest", "x")>>, <<Mark("ff")>>)>>, <<>>, {}),
   Script(<<Leaf("rest", "x"), Mark("end")>>, <<>>, <<>>, {}),
   Script(<<TryCatch(<<Leaf("new", "f")>>, <<Caught>>)>>,
          <<>>, <<>>, {"f"})}

Invocations ==
  {Script(m, f, g, {}) : m \in Script1, f \in Middle, g \in Inmost}
    \cup Single

\* Object rest whose getter throws inside a handler's reach, in this frame or
\* in a caller's.
ObjectRest ==
  {Script(<<TryCatch(<<Leaf(c, "f"), Mark("end")>>, <<Caught>>)>>, b,
          <<Mark("g")>>, {}) :
     c \in {"call", "apply", "getter", "new"},
     b \in {<<Leaf("rest", "x")>>,
            <<TryCatch(<<Leaf("rest", "x")>>, <<Caught, Leaf("apply", "g")>>)>>,
            <<TryFinally(<<Leaf("rest", "x")>>, <<Leaf("call", "g")>>)>>}}

=============================================================================
