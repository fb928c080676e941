-------------------------- MODULE MCControlMachine --------------------------
(* Small program texts for ControlMachine.                                 *)
EXTENDS ControlRefinement

CONSTANTS f, g

(* Return, perform, a bound perform, a body whose callback decides what it *)
(* does, that body under a handler, and the handler with work after it.    *)
ScopedText ==
  <<[tag |-> "Return"],
    [tag |-> "Perform"],
    [tag |-> "Bind", inner |-> 2, then |-> f],
    [tag |-> "Bind", inner |-> 1, then |-> g],
    [tag |-> "Handle", source |-> 4],
    [tag |-> "Bind", inner |-> 5, then |-> f]>>

(* Two continuations over a perform, alone and under a handler: captured   *)
(* queues of several nodes.                                                *)
QueueText ==
  <<[tag |-> "Return"],
    [tag |-> "Perform"],
    [tag |-> "Bind", inner |-> 2, then |-> f],
    [tag |-> "Bind", inner |-> 3, then |-> g],
    [tag |-> "Handle", source |-> 4]>>

MCCallbacks == {f, g}
=============================================================================
