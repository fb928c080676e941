---------------------------- MODULE NativeBudget ----------------------------
(***************************************************************************)
(* The stack-exhaustion budget as psrs-backend emits it: every lowered     *)
(* function keeps one global, depth, in step with the weight of the native *)
(* stack, and every try region saves it before arming and restores it when *)
(* it catches, because an exception unwinds frames without their           *)
(* epilogues.  The program's control flow is unconstrained within what MIR *)
(* allows.                                                                 *)
(*                                                                         *)
(* A function whose control flow is irreducible is emitted by another      *)
(* routine, the dispatcher.  It gets the prologue too, but the dispatcher  *)
(* emits no epilogue and no tail decrement.                                *)
(*                                                                         *)
(* The engine owns the frames, their armed regions and the unwinding; a    *)
(* frame's watermark holds the i32 local of each of its try regions (the   *)
(* entries of other functions' regions are never used).                    *)
(***************************************************************************)
EXTENDS StackProgram

CONSTANT
  Dispatched    \* the functions the dispatcher emits

(* A function with a try region is never one of them.                      *)
ASSUME DispatchAssumption ==
  Dispatched \subseteq Functions /\ \A f \in Dispatched : Tries[f] = {}

(* Every function is emitted by the structured path.                       *)
Reducible == Dispatched = {}

VARIABLES
  depth,     \* the depth global, an i32
  frames,    \* the native stack, the running activation last
  flight,    \* the exception being unwound, or NoException
  outcome    \* "idle", "running", "returned", "failed" or "trapped"

vars == <<depth, frames, flight, outcome>>

Top == frames[Len(frames)]
Below == SubSeq(frames, 1, Len(frames) - 1)
LastRegion == Top.armed[Len(Top.armed)]
SetTop(frame) == frames' = [frames EXCEPT ![Len(frames)] = frame]

(* Code of a lowered function is running.                                  *)
Executing ==
  outcome = "running" /\ flight = NoException /\ frames # <<>> /\ Top.fn # Entry

-----------------------------------------------------------------------------
(* The emitted instructions.                                               *)

(* i32.add and i32.sub wrap.                                               *)
Int32(x) == IF x > MaxInt THEN x - 2 * (MaxInt + 1)
            ELSE IF x < -MaxInt - 1 THEN x + 2 * (MaxInt + 1) ELSE x
increment(counter, f) == Int32(counter + Weight(f))
decrement(counter, f) == Int32(counter - Weight(f))

(* What a function f does to the counter before a return or a tail call.   *)
Epilogue(counter, f) == IF f \in Dispatched THEN counter ELSE decrement(counter, f)

(* Mutant: the check reads the counter before the increment.               *)
OverflowsLate(counter, f) == counter > StackBudget
Overflows(counter, f) == increment(counter, f) > StackBudget

NewFrame(stack, g) ==
  [fn |-> g, armed |-> <<>>, held |-> {}, watermark |-> [t \in Regions |-> 0],
   height |-> stack[Len(stack)].height + Weight(g)]

(* The engine pushes a frame for g and g's prologue runs: the increment,   *)
(* then the check, whose throw finds no region of g armed.                 *)
Prologue(stack, counter, g) ==
  /\ frames' = Append(stack, NewFrame(stack, g))
  /\ depth' = increment(counter, g)
  /\ flight' = IF Overflows(counter, g) THEN Exhaustion ELSE NoException

-----------------------------------------------------------------------------
Init ==
  /\ depth = 0 /\ frames = <<>> /\ flight = NoException /\ outcome = "idle"

(* The host calls `run`: the entry saves the counter, arms its region and  *)
(* calls main.  Where no exit is available it may do so again.             *)
Start ==
  /\ outcome = "idle" \/ (~ExitCodes /\ outcome \in {"returned", "failed"})
  /\ outcome' = "running"
  /\ Prologue(<<[fn |-> Entry, armed |-> <<EntryRegion>>, held |-> {},
                 watermark |-> [t \in Regions |-> depth], height |-> 0]>>,
              depth, Main)

Call(g) == Executing /\ Prologue(frames, depth, g) /\ UNCHANGED outcome

(* Mutant: no decrement before the transfer.                               *)
TailCallKeepsWeight(g) ==
  Executing /\ Top.armed = <<>> /\ Prologue(Below, depth, g) /\ UNCHANGED outcome

(* return_call and return_call_ref, never emitted in a protected block.  A *)
(* direct self tail call is a loop and changes nothing here.               *)
TailCall(g) ==
  /\ Executing /\ Top.armed = <<>>
  /\ Prologue(Below, Epilogue(depth, Top.fn), g)
  /\ UNCHANGED outcome

(* Mutant: the epilogue runs twice, for the block and for its shared join. *)
ReturnDecrementsTwice ==
  /\ Executing
  /\ depth' = decrement(Epilogue(depth, Top.fn), Top.fn) /\ frames' = Below
  /\ UNCHANGED <<flight, outcome>>

Return ==
  /\ Executing
  /\ depth' = Epilogue(depth, Top.fn) /\ frames' = Below
  /\ UNCHANGED <<flight, outcome>>

(* Mutant: the watermark leaves out the frame's own weight.                *)
ArmSavesCaller(t) ==
  /\ Executing /\ t \in Tries[Top.fn]
  /\ Enclosing[Top.fn][t] = IF Top.armed = <<>> THEN TopLevel ELSE LastRegion
  /\ SetTop([Top EXCEPT !.watermark[t] = decrement(depth, Top.fn),
                        !.armed = Append(@, t)])
  /\ UNCHANGED <<depth, flight, outcome>>

(* A try block is reached: watermark save, then the try_table.             *)
Arm(t) ==
  /\ Executing /\ t \in Tries[Top.fn]
  /\ Enclosing[Top.fn][t] = IF Top.armed = <<>> THEN TopLevel ELSE LastRegion
  /\ SetTop([Top EXCEPT !.watermark[t] = depth, !.armed = Append(@, t)])
  /\ UNCHANGED <<depth, flight, outcome>>

(* A protected block jumps out of its region.                              *)
Leave ==
  /\ Executing /\ Top.armed # <<>>
  /\ SetTop([Top EXCEPT !.armed = SubSeq(@, 1, Len(@) - 1)])
  /\ UNCHANGED <<depth, flight, outcome>>

(* throw with a tag of MIR's, or throw_ref of an exception a handler of    *)
(* this activation received.  The dispatcher rejects both.                 *)
Throw(exception) ==
  /\ Executing /\ Top.fn \notin Dispatched
  /\ exception \in Tags \cup Top.held
  /\ flight' = exception
  /\ UNCHANGED <<depth, frames, outcome>>

(* A trap ends the instance; its counter can no longer be read.            *)
Trap ==
  /\ Executing /\ outcome' = "trapped" /\ frames' = <<>>
  /\ UNCHANGED <<depth, flight>>

(* The entry's code after main or after its catch.                         *)
Finish ==
  /\ outcome = "running" /\ flight = NoException /\ frames # <<>> /\ Top.fn = Entry
  /\ outcome' = IF Top.armed = <<>> THEN "failed" ELSE "returned"
  /\ frames' = <<>>
  /\ UNCHANGED <<depth, flight>>

-----------------------------------------------------------------------------
(* Unwinding.                                                              *)

Unwinding == outcome = "running" /\ flight # NoException /\ frames # <<>>

(* Mutant: the handler starts without restoring the watermark.             *)
CatchWithoutRestore ==
  /\ Unwinding /\ Top.armed # <<>> /\ matches(Top.fn, LastRegion, flight)
  /\ SetTop([Top EXCEPT !.armed = SubSeq(@, 1, Len(@) - 1),
                        !.held = @ \cup Delivered(Top.fn, LastRegion, flight)])
  /\ flight' = NoException
  /\ UNCHANGED <<depth, outcome>>

(* The innermost region catches; its handler first restores the watermark. *)
Catch ==
  /\ Unwinding /\ Top.armed # <<>> /\ matches(Top.fn, LastRegion, flight)
  /\ depth' = Top.watermark[LastRegion]
  /\ SetTop([Top EXCEPT !.armed = SubSeq(@, 1, Len(@) - 1),
                        !.held = @ \cup Delivered(Top.fn, LastRegion, flight)])
  /\ flight' = NoException
  /\ UNCHANGED outcome

(* It does not catch: the exception passes it.                             *)
Pass ==
  /\ Unwinding /\ Top.armed # <<>> /\ ~matches(Top.fn, LastRegion, flight)
  /\ SetTop([Top EXCEPT !.armed = SubSeq(@, 1, Len(@) - 1)])
  /\ UNCHANGED <<depth, flight, outcome>>

(* No region left: the frame goes, and its epilogue never runs.            *)
Discard ==
  /\ Unwinding /\ Top.armed = <<>>
  /\ frames' = Below
  /\ UNCHANGED <<depth, flight, outcome>>

Unwind == Catch \/ Pass \/ Discard

-----------------------------------------------------------------------------
Next ==
  \/ Start \/ Return \/ Leave \/ Trap \/ Finish \/ Unwind
  \/ \E g \in Functions : Call(g) \/ TailCall(g)
  \/ \E f \in Functions : \E t \in Tries[f] : Arm(t)
  \/ \E exception \in Exceptions : Throw(exception)

(* The engine completes an unwinding it has begun.                         *)
Spec == Init /\ [][Next]_vars /\ WF_vars(Unwind)

-----------------------------------------------------------------------------
(* Properties.                                                             *)

Frame ==
  [fn : Functions \cup {Entry}, armed : Seq(Regions), held : SUBSET Exceptions,
   watermark : [Regions -> Int], height : Nat]

(* The entry is the bottom frame and heights add up.                       *)
StackOK ==
  \A n \in 1..Len(frames) :
    /\ frames[n].fn = Entry <=> n = 1
    /\ frames[n].height =
         IF n = 1 THEN 0 ELSE frames[n - 1].height + Weight(frames[n].fn)

(* While anything runs above it, or is thrown, the entry's region is armed.*)
EntryOK ==
  IF outcome = "running"
  THEN /\ frames # <<>>
       /\ frames[1].armed = <<EntryRegion>>
            \/ (frames[1].armed = <<>> /\ Len(frames) = 1 /\ flight = NoException)
  ELSE frames = <<>> /\ flight = NoException

(* Type invariant: the counter never wraps, every frame is well formed,    *)
(* and the stack is the entry with lowered functions above it.             *)
TypeOK ==
  /\ depth \in 0..MaxInt
  /\ frames \in Seq(Frame)
  /\ flight \in Exceptions \cup {NoException}
  /\ outcome \in {"idle", "running", "returned", "failed", "trapped"}
  /\ StackOK /\ EntryOK

(* Whenever compiled code runs, the counter is the weight of the native    *)
(* stack, whatever calls, tail calls, returns and catches came before; and *)
(* a run that ended, normally or not, leaves nothing on it.  It needs      *)
(* Reducible.                                                              *)
CounterIsHeight ==
  /\ outcome = "running" /\ flight = NoException => depth = Top.height
  /\ outcome \in {"idle", "returned", "failed"} => depth = 0

(* Whatever emitted the functions, the counter never falls below the       *)
(* weight of the stack the code runs on, nor passes the budget there.      *)
CounterCovers ==
  outcome = "running" /\ flight = NoException =>
    Top.height <= depth /\ depth <= StackBudget

(* With Reducible, the watermark of every armed region, in every frame of  *)
(* the stack, is the height of its own frame: what the counter must be in  *)
(* its handler.                                                            *)
WatermarksFit ==
  \A n \in 1..Len(frames) : \A k \in 1..Len(frames[n].armed) :
    frames[n].watermark[frames[n].armed[k]] = frames[n].height

(* No lowered code runs above the budget: a frame higher than it is the    *)
(* one whose prologue has just thrown, with no region armed.               *)
WithinBudget ==
  \A n \in 1..Len(frames) :
    \/ frames[n].height <= StackBudget
    \/ n = Len(frames) /\ flight = Exhaustion /\ frames[n].armed = <<>>

(* An exception always reaches a handler, at the latest the entry's.       *)
ExceptionsSettle == flight # NoException ~> flight = NoException

-----------------------------------------------------------------------------
(* The refinement mapping: frames without their watermarks, and an         *)
(* exception in flight seen where it is going to land.                     *)
Visible(frame) == [fn |-> frame.fn, armed |-> frame.armed,
                   held |-> frame.held, height |-> frame.height]
View(stack) == [n \in 1..Len(stack) |-> Visible(stack[n])]

Destination(stack, exception) ==
  LET Reached(n) == \E k \in 1..Len(stack[n].armed) : Innermost(stack, n, k, exception)
      n0 == CHOOSE n \in 1..Len(stack) : Reached(n)
      k0 == CHOOSE k \in 1..Len(stack[n0].armed) : Innermost(stack, n0, k, exception)
  IN  IF \E n \in 1..Len(stack) : Reached(n)
      THEN Land(stack, n0, k0, exception) ELSE <<>>

Settled == IF flight = NoException THEN View(frames) ELSE Destination(View(frames), flight)

Contract == INSTANCE StackContract WITH calls <- Settled

(* With Reducible, the emitted counter implements the contract: calls are  *)
(* refused exactly when their frame would exceed the budget, and unwinding *)
(* is one jump.                                                            *)
ImplementsStackContract == Contract!Spec
=============================================================================
