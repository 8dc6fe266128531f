---------------------------- MODULE MCDeviations ----------------------------
(***************************************************************************)
(* Programs on which the code departs from what its documentation says,    *)
(* one small family for each, and what still holds for them.               *)
(***************************************************************************)
EXTENDS MCInvocation

\* A finalizer that handles a throw of its own while a return waits.
NestedHandler ==
  {Script(<<Leaf("call", "f")>>,
          <<TryFinally(<<Leaf("return", "r")>>,
                       <<TryCatch(<<Leaf("throw", "t")>>, <<Caught>>)>>)>>,
          <<>>, {})}

\* A break through an inner finalizer to a target inside an outer try.
InnerTarget ==
  {Script(<<Leaf("call", "f")>>,
          <<TryFinally(<<While("", <<TryFinally(<<Leaf("break", "")>>,
                                                <<Mark("inner")>>)>>),
                         Mark("after")>>,
                       <<Mark("outer")>>)>>, <<>>, {})}

=============================================================================
