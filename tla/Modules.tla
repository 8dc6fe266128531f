------------------------------ MODULE Modules ------------------------------
(***************************************************************************)
(* ModuleSystem: load, link_record and evaluate_record, driven by the      *)
(* host's calls of link and evaluate, over any import graph.               *)
(*                                                                         *)
(* The recursion of link_record and evaluate_record is the stack calls.    *)
(* Each entry is one activation: the record it is for, the import it has   *)
(* reached, and where in the loop's body it is.  An error returns through  *)
(* every activation without touching a record, so it unwinds in one step.  *)
(* The loader, the compiler and the module bodies may fail at any call;    *)
(* every import is resolved and every body compiled and run at most once,  *)
(* so a source that always fails is among the choices.                     *)
(*                                                                         *)
(* A module exports one binding, and its body initializes it, reads its    *)
(* imports and ends in any order.  ran and failed are history variables.   *)
(***************************************************************************)
EXTENDS Naturals, Sequences

CONSTANTS Names,        \* canonical module names
          Graphs        \* bound: the import lists the sources may have

ASSUME GraphsAssumption == Graphs \subseteq [Names -> Seq(Names)]

VARIABLES
    imports,    \* Record::imports of every module the loader knows
    status,     \* Record::state, or absent
    bound,      \* number of imports whose binding has its target environment
    export,     \* the module's own binding: no upvalue, uninitialized or initialized
    calls,      \* active link_record and evaluate_record calls, innermost last
    request,    \* the host's call: what and for which module
    returned,   \* what the last host call returned
    ran,        \* history: the modules whose bodies were started, in order
    failed      \* history: the modules whose activation ended in an error

vars == <<imports, status, bound, export, calls, request, returned, ran, failed>>

-----------------------------------------------------------------------------
Steps == {"load", "bind", "body"}
Call == [op : {"link", "evaluate"}, name : Names, at : Nat \ {0}, step : Steps]
\* Mutant: the loop over the imports starts at index 0.
EnterAtZero(op, m) == [op |-> op, name |-> m, at |-> 0, step |-> "load"]

Enter(op, m) == [op |-> op, name |-> m, at |-> 1, step |-> "load"]

Active == calls # <<>>
Top == calls[Len(calls)]
Callers == SubSeq(calls, 1, Len(calls) - 1)
OnStack(m, op) == \E i \in 1 .. Len(calls) : calls[i].name = m /\ calls[i].op = op
Dependency == imports[Top.name][Top.at]
MoreImports == Top.at <= Len(imports[Top.name])

\* The activation on top of the stack moves on.
WithTop(c) == Append(Callers, c)

IsLinked(m) == status[m] \in {"linked", "evaluating", "evaluated"}

Init ==
    /\ imports \in Graphs
    /\ status = [m \in Names |-> "absent"]
    /\ bound = [m \in Names |-> 0]
    /\ export = [m \in Names |-> "none"]
    /\ calls = <<>>
    /\ request = [op |-> "none"]
    /\ returned = "none"
    /\ ran = <<>>
    /\ failed = {}

-----------------------------------------------------------------------------
\* Mutant: an error puts the records of the evaluation back to linked.
UnwindResets ==
    /\ calls' = <<>>
    /\ returned' = "error"
    /\ failed' = failed \cup {calls[i].name : i \in 1 .. Len(calls)}
    /\ status' = [m \in Names |-> IF status[m] = "evaluating" THEN "linked" ELSE status[m]]
    /\ UNCHANGED <<imports, bound, request, ran>>

\* An error leaves every activation, and no record is changed on the way.
Unwind ==
    /\ calls' = <<>>
    /\ returned' = "error"
    /\ failed' = failed \cup {calls[i].name : i \in 1 .. Len(calls)}
    /\ UNCHANGED <<imports, status, bound, request, ran>>

\* The innermost activation returns; the last one returns to the host, or to
\* ModuleSystem::evaluate, which goes on to evaluate_record.
Leave ==
    /\ calls' = Callers
    /\ returned' = IF Len(calls) = 1 /\ request.op = "link" THEN "ok" ELSE returned

\* link_record is a no-op unless the record has just been loaded.
NeedsLink(m) == status[m] = "absent"

\* ModuleSystem::link and the first half of evaluate: load and link_record.
HostLink(op, m) ==
    /\ ~Active /\ request.op = "none"
    /\ \/ /\ NeedsLink(m)
          /\ status' = [status EXCEPT ![m] = "linking"]
          /\ calls' = <<Enter("link", m)>>
          /\ returned' = "none"
       \/ /\ ~NeedsLink(m)
          /\ calls' = <<>>
          /\ returned' = IF op = "link" THEN "ok" ELSE "none"
          /\ UNCHANGED status
    /\ request' = [op |-> op, name |-> m]
    /\ UNCHANGED <<imports, bound, export, ran, failed>>

HostLoadFails(op, m) ==
    /\ ~Active /\ request.op = "none"
    /\ request' = [op |-> op, name |-> m]
    /\ returned' = "error"
    /\ UNCHANGED <<imports, status, bound, export, calls, ran, failed>>

\* ModuleSystem::evaluate after link_record has succeeded: evaluate_record.
HostEvaluate ==
    /\ ~Active /\ request.op = "evaluate" /\ returned = "none"
    /\ \/ /\ status[request.name] = "linked"
          /\ status' = [status EXCEPT ![request.name] = "evaluating"]
          /\ calls' = <<Enter("evaluate", request.name)>>
          /\ UNCHANGED <<returned, failed>>
       \/ /\ status[request.name] \in {"evaluating", "evaluated"}
          /\ returned' = "ok"
          /\ UNCHANGED <<status, calls, failed>>
       \/ /\ status[request.name] = "linking"
          /\ returned' = "error"
          /\ UNCHANGED <<status, calls, failed>>
    /\ UNCHANGED <<imports, bound, export, request, ran>>

\* The host has its result and makes another call.
HostContinues ==
    /\ ~Active /\ returned # "none"
    /\ request' = [op |-> "none"]
    /\ returned' = "none"
    /\ UNCHANGED <<imports, status, bound, export, calls, ran, failed>>

-----------------------------------------------------------------------------
(* link_record *)
Linking(step) == Active /\ Top.op = "link" /\ Top.step = step

LinkLoad ==
    /\ Linking("load") /\ MoreImports
    /\ LET here == WithTop([Top EXCEPT !.step = "bind"]) IN
       IF NeedsLink(Dependency)
       THEN /\ status' = [status EXCEPT ![Dependency] = "linking"]
            /\ calls' = Append(here, Enter("link", Dependency))
       ELSE calls' = here /\ UNCHANGED status
    /\ UNCHANGED <<imports, bound, export, request, returned, ran, failed>>

LinkLoadFails == Linking("load") /\ MoreImports /\ Unwind /\ UNCHANGED export

\* Mutant: the import's target is never stored.
LinkBindForgets ==
    /\ Linking("bind")
    /\ calls' = WithTop([Top EXCEPT !.at = Top.at + 1, !.step = "load"])
    /\ UNCHANGED <<imports, status, bound, export, request, returned, ran, failed>>

\* Mutant: the loop does not advance to the next import.
LinkBindStays ==
    /\ Linking("bind")
    /\ bound' = [bound EXCEPT ![Top.name] = Top.at]
    /\ calls' = WithTop([Top EXCEPT !.step = "load"])
    /\ UNCHANGED <<imports, status, export, request, returned, ran, failed>>

LinkBind ==
    /\ Linking("bind")
    /\ bound' = [bound EXCEPT ![Top.name] = Top.at]
    /\ calls' = WithTop([Top EXCEPT !.at = Top.at + 1, !.step = "load"])
    /\ UNCHANGED <<imports, status, export, request, returned, ran, failed>>

LinkMissingExport == Linking("bind") /\ Unwind /\ UNCHANGED export

\* Mutant: the record is not marked linked.
LinkCompileForgets ==
    /\ Linking("load") /\ ~MoreImports
    /\ Leave
    /\ UNCHANGED <<imports, status, bound, export, request, ran, failed>>

LinkCompile ==
    /\ Linking("load") /\ ~MoreImports
    /\ status' = [status EXCEPT ![Top.name] = "linked"]
    /\ Leave
    /\ UNCHANGED <<imports, bound, export, request, ran, failed>>

LinkCompileFails == Linking("load") /\ ~MoreImports /\ Unwind /\ UNCHANGED export

-----------------------------------------------------------------------------
(* evaluate_record *)
Evaluating(step) == Active /\ Top.op = "evaluate" /\ Top.step = step

\* Mutant: a dependency that is only linked is taken for evaluated.
EvaluateSkips ==
    /\ Evaluating("load") /\ MoreImports
    /\ IsLinked(Dependency)
    /\ calls' = WithTop([Top EXCEPT !.at = Top.at + 1])
    /\ UNCHANGED <<imports, status, bound, export, request, returned, ran, failed>>

EvaluateDependency ==
    /\ Evaluating("load") /\ MoreImports
    /\ LET here == WithTop([Top EXCEPT !.at = Top.at + 1]) IN
       \/ /\ status[Dependency] = "linked"
          /\ status' = [status EXCEPT ![Dependency] = "evaluating"]
          /\ calls' = Append(here, Enter("evaluate", Dependency))
       \/ /\ status[Dependency] \in {"evaluating", "evaluated"}
          /\ calls' = here
          /\ UNCHANGED status
    /\ UNCHANGED <<imports, bound, export, request, returned, ran, failed>>

EvaluateUnlinked ==
    /\ Evaluating("load") /\ MoreImports
    /\ ~IsLinked(Dependency)
    /\ Unwind /\ UNCHANGED export

\* run_module: the exported locals are captured before the body starts.
StartBody ==
    /\ Evaluating("load") /\ ~MoreImports
    /\ calls' = WithTop([Top EXCEPT !.step = "body"])
    /\ export' = [export EXCEPT ![Top.name] = "uninitialized"]
    /\ ran' = Append(ran, Top.name)
    /\ UNCHANGED <<imports, status, bound, request, returned, failed>>

InitializeExport ==
    /\ Evaluating("body")
    /\ export' = [export EXCEPT ![Top.name] = "initialized"]
    /\ UNCHANGED <<imports, status, bound, calls, request, returned, ran, failed>>

\* HeapModuleEnvironment::get of an import whose exporter has not initialized it.
ReadUninitialized ==
    /\ Evaluating("body")
    /\ \E i \in 1 .. Len(imports[Top.name]) : export[imports[Top.name][i]] # "initialized"
    /\ Unwind /\ UNCHANGED export

BodyFails == Evaluating("body") /\ Unwind /\ UNCHANGED export

BodyEnds ==
    /\ Evaluating("body")
    /\ export[Top.name] = "initialized"
    /\ status' = [status EXCEPT ![Top.name] = "evaluated"]
    /\ calls' = Callers
    /\ returned' = IF Len(calls) = 1 THEN "ok" ELSE returned
    /\ UNCHANGED <<imports, bound, export, request, ran, failed>>

-----------------------------------------------------------------------------
Host ==
    \/ \E op \in {"link", "evaluate"}, m \in Names : HostLink(op, m) \/ HostLoadFails(op, m)
    \/ HostEvaluate
    \/ HostContinues

Step ==
    \/ LinkLoad \/ LinkLoadFails \/ LinkBind \/ LinkMissingExport
    \/ LinkCompile \/ LinkCompileFails
    \/ EvaluateDependency \/ EvaluateUnlinked
    \/ StartBody \/ InitializeExport \/ ReadUninitialized \/ BodyFails \/ BodyEnds

Next == Host \/ Step

Spec == Init /\ [][Next]_vars

\* The recursion is sequential code: an active call goes on, and a body ends.
LiveSpec == Spec /\ WF_vars(Step)

-----------------------------------------------------------------------------
States == {"absent", "linking", "linked", "evaluating", "evaluated"}

\* Every variable has its type.
TypeOK ==
    /\ imports \in [Names -> Seq(Names)]
    /\ status \in [Names -> States]
    /\ bound \in [Names -> Nat]
    /\ export \in [Names -> {"none", "uninitialized", "initialized"}]
    /\ calls \in Seq(Call)
    /\ request \in [op : {"none"}] \cup [op : {"link", "evaluate"}, name : Names]
    /\ returned \in {"none", "ok", "error"}
    /\ ran \in Seq(Names)
    /\ failed \subseteq Names

\* No module body is started twice, through cycles, errors and repeated calls.
EvaluatedOnce == \A i, j \in 1 .. Len(ran) : ran[i] = ran[j] => i = j

\* While a module body runs, everything it imports is evaluated and readable,
\* unless the exporter is further down the stack (an import cycle) or failed.
DependenciesFirst ==
    Evaluating("body") =>
       \A i \in 1 .. Len(imports[Top.name]) :
          LET d == imports[Top.name][i] IN
          \/ status[d] = "evaluated" /\ export[d] = "initialized"
          \/ OnStack(d, "evaluate")
          \/ d \in failed

\* A linked module has every import bound to a module that is linked too, or is
\* being linked (an import cycle), or failed to link.
LinkedClosed ==
    \A m \in Names : IsLinked(m) =>
       /\ bound[m] = Len(imports[m])
       /\ \A i \in 1 .. Len(imports[m]) :
             LET d == imports[m][i] IN
             IsLinked(d) \/ OnStack(d, "link") \/ d \in failed

\* What the host is told: a module that never failed is linked when link
\* succeeds, and evaluated when evaluate succeeds.
HostIsToldTrue ==
    ~Active /\ returned = "ok" /\ request.name \notin failed =>
       IF request.op = "link" THEN IsLinked(request.name)
                              ELSE status[request.name] = "evaluated"

\* The success of a call stands for all that the call was to do: the module
\* itself is done, and so is everything it imports, through cycles, errors in
\* the middle of linking (module.cpp:155) and repeated calls.
SuccessMeansDone == HostIsToldTrue /\ LinkedClosed

\* Every host call returns, whatever the import graph.
HostCallReturns == Active ~> ~Active

\* The linker rejects a module that cannot be linked, and evaluation fails for
\* one that cannot be evaluated, however often the host asks: success is only
\* reported for a module that is linked, or evaluated.
FailureIsRemembered ==
    ~Active /\ returned = "ok" =>
       IF request.op = "link" THEN IsLinked(request.name)
                              ELSE status[request.name] = "evaluated"
=============================================================================
