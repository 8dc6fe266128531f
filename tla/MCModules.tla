----------------------------- MODULE MCModules -----------------------------
(***************************************************************************)
(* Import graphs of three modules.  Graphs that differ only in the names   *)
(* of the modules behave alike, so one of each kind is enough; it is chosen *)
(* here and not by a symmetry set, because the run checks a liveness       *)
(* property too.                                                           *)
(***************************************************************************)
EXTENDS Modules, TLC

CONSTANTS a, b, c

MCNames == {a, b, c}

\* Import lists with at most two entries; a module may import itself, and may
\* name the same module twice.
Lists == UNION {[1 .. n -> MCNames] : n \in 0 .. 2}
AllGraphs == [MCNames -> Lists]

Renamed(g, p) == [m \in MCNames |-> [i \in DOMAIN g[p[m]] |->
                    CHOOSE n \in MCNames : p[n] = g[p[m]][i]]]

Rank(m) == CASE m = a -> 1 [] m = b -> 2 [] OTHER -> 3
Code(l) == IF l = <<>> THEN 0
           ELSE IF Len(l) = 1 THEN Rank(l[1]) ELSE 4 * Rank(l[1]) + Rank(l[2])
Number(g) == 256 * Code(g[a]) + 16 * Code(g[b]) + Code(g[c])

\* One graph of each kind: the one with the least number.
MCGraphs ==
    {g \in AllGraphs : \A p \in Permutations(MCNames) : Number(g) <= Number(Renamed(g, p))}
=============================================================================
