---------------------------- MODULE StackContract ---------------------------
(***************************************************************************)
(* What the stack budget promises to compiled code: a call whose frame     *)
(* would make the stack higher than the budget raises the exhaustion       *)
(* exception in the caller, every other call gets its frame, and an        *)
(* exception is one jump to the innermost region that catches it.  There   *)
(* is no counter: the height of the stack is known exactly.                *)
(***************************************************************************)
EXTENDS StackProgram

VARIABLES calls, outcome
vars == <<calls, outcome>>

Top == calls[Len(calls)]
Below == SubSeq(calls, 1, Len(calls) - 1)

Executing == outcome = "running" /\ Top.fn # Entry

Raise(stack, exception) ==
  \E n \in 1..Len(stack) : \E k \in 1..Len(stack[n].armed) :
    /\ Innermost(stack, n, k, exception)
    /\ calls' = Land(stack, n, k, exception)

(* A frame for g on top of a stack, or exhaustion raised from it.          *)
Invoke(stack, g) ==
  LET height == stack[Len(stack)].height + Weight(g)
  IN  IF height > StackBudget
      THEN Raise(stack, Exhaustion)
      ELSE calls' = Append(stack, [fn |-> g, armed |-> <<>>, held |-> {},
                                   height |-> height])

Init == calls = <<>> /\ outcome = "idle"

Start ==
  /\ outcome = "idle" \/ (~ExitCodes /\ outcome \in {"returned", "failed"})
  /\ outcome' = "running"
  /\ Invoke(<<[fn |-> Entry, armed |-> <<EntryRegion>>, held |-> {},
               height |-> 0]>>, Main)

Call(g) == Executing /\ Invoke(calls, g) /\ UNCHANGED outcome

TailCall(g) ==
  Executing /\ Top.armed = <<>> /\ Invoke(Below, g) /\ UNCHANGED outcome

Return == Executing /\ calls' = Below /\ UNCHANGED outcome

Arm(t) ==
  /\ Executing /\ t \in Tries[Top.fn]
  /\ Enclosing[Top.fn][t] =
       IF Top.armed = <<>> THEN TopLevel ELSE Top.armed[Len(Top.armed)]
  /\ calls' = [calls EXCEPT ![Len(calls)].armed = Append(@, t)]
  /\ UNCHANGED outcome

Leave ==
  /\ Executing /\ Top.armed # <<>>
  /\ calls' = [calls EXCEPT ![Len(calls)].armed = SubSeq(@, 1, Len(@) - 1)]
  /\ UNCHANGED outcome

Throw(exception) ==
  /\ Executing /\ exception \in Tags \cup Top.held
  /\ Raise(calls, exception)
  /\ UNCHANGED outcome

Trap == Executing /\ outcome' = "trapped" /\ calls' = <<>>

(* `run` ends with main's code, or with code 1 after an uncaught exception. *)
Finish ==
  /\ outcome = "running" /\ Top.fn = Entry
  /\ outcome' = IF Top.armed = <<>> THEN "failed" ELSE "returned"
  /\ calls' = <<>>

Next ==
  \/ Start \/ Return \/ Leave \/ Trap \/ Finish
  \/ \E g \in Functions : Call(g) \/ TailCall(g)
  \/ \E f \in Functions : \E t \in Tries[f] : Arm(t)
  \/ \E exception \in Exceptions : Throw(exception)

Spec == Init /\ [][Next]_vars
=============================================================================
