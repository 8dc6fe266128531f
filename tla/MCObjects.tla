----------------------------- MODULE MCObjects -----------------------------
(***************************************************************************)
(* One Subject of each kind below a Parent, and definitions that reach     *)
(* every kind of attribute change on two indices and the length.           *)
(***************************************************************************)
EXTENDS Objects

CONSTANTS Subject, Parent, Datum, Accessor, SymbolKey, Parameter

MCIndexNames == <<"0", "1">>
MCStringUnits == <<Datum>>
MCKeys == {"0", "1", "length", SymbolKey}

\* A prototype with a read-only "0", an accessor "1", and a symbol key that
\* was added before both.
Inherited ==
    [object("ordinary", Null) EXCEPT
        !.properties = ("0" :> data(Datum, FALSE, FALSE, TRUE))
                         @@ ("1" :> complete_descriptor([get |-> Accessor], TRUE))
                         @@ (SymbolKey :> data(Datum, TRUE, TRUE, TRUE)),
        !.property_order = <<SymbolKey, "1", "0">>]

MCHeaps ==
    { (Subject :> subject) @@ (Parent :> Inherited) :
        subject \in { object(kind, Parent) : kind \in {"ordinary", "array", "string", "function"} }
                      \cup {arguments_object(Parent, <<Undefined, Undefined>>, <<Parameter, Null>>)} }

Attributes ==
    { <<>>, [value |-> Datum], data(Datum, TRUE, TRUE, TRUE), data(Datum, FALSE, TRUE, FALSE),
      [writable |-> FALSE], [configurable |-> FALSE], [enumerable |-> FALSE],
      [get |-> Accessor, configurable |-> TRUE], [set |-> Undefined],
      [value |-> Undefined, get |-> Accessor] }

FewAttributes ==
    { data(Datum, TRUE, TRUE, TRUE), [configurable |-> FALSE], [get |-> Accessor, configurable |-> TRUE] }

Lengths ==
    { [value |-> 0], [value |-> 2], [writable |-> FALSE], [value |-> 0, writable |-> FALSE] }

MCDefinitions ==
    ({Subject} \X {"0"} \X Attributes) \cup ({Subject} \X {"1"} \X FewAttributes)
      \cup ({Subject} \X {"length"} \X Lengths)

MCWrites ==
    { <<Subject, "0", Datum, Subject>>, <<Subject, "1", Datum, Subject>>, <<Parent, "1", Datum, Subject>> }

MCDeletions == {Subject} \X {"0", "1", "length"}
MCReparentings == {<<Subject, Null>>, <<Parent, Subject>>}
=============================================================================
