--------------------------- MODULE ObjectContract ---------------------------
(***************************************************************************)
(* What ECMAScript promises of any object, exotic or not, whatever calls   *)
(* are made on it (the invariants of the essential internal methods): a    *)
(* non-configurable property stays, a read-only one keeps its value, an    *)
(* object that is not extensible neither grows nor changes its prototype.  *)
(* own[o] maps the own property keys of o to complete descriptors.         *)
(***************************************************************************)
VARIABLES own, extensible, prototype

IsAccessor(p) == "get" \in DOMAIN p

\* A non-configurable property p may still become q.
MayBecome(p, q) ==
    \/ q = p
    \/ /\ ~IsAccessor(p) /\ ~IsAccessor(q)
       /\ p.writable
       /\ q.enumerable = p.enumerable /\ ~q.configurable

Lawful(o) ==
    /\ \A k \in DOMAIN own[o] :
          ~own[o][k].configurable =>
              k \in DOMAIN own'[o] /\ MayBecome(own[o][k], own'[o][k])
    /\ ~extensible[o] =>
          /\ ~extensible'[o]
          /\ prototype'[o] = prototype[o]
          /\ DOMAIN own'[o] \subseteq DOMAIN own[o]

Init == TRUE

Next ==
    /\ DOMAIN own' = DOMAIN own
    /\ \A o \in DOMAIN own : Lawful(o)

Spec == Init /\ [][Next]_<<own, extensible, prototype>>
=============================================================================
