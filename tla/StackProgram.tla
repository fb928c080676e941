---------------------------- MODULE StackProgram ----------------------------
(***************************************************************************)
(* What the stack budget needs to know of a lowered Wasm program: the      *)
(* weight of each function's frame, its try regions with their clauses,    *)
(* and where an exception lands.  NativeBudget and StackContract share it. *)
(*                                                                         *)
(* A frame is what the engine keeps for an activation: the function, the   *)
(* try regions armed in it (innermost last), the exception references its  *)
(* handlers hold, and its height, the weight of the stack up to and        *)
(* including it.  Compiled code cannot read a height.                      *)
(***************************************************************************)
EXTENDS Integers, Sequences

CONSTANTS
  Functions,      \* the lowered MIR functions
  Main,           \* the function the synthesized `run` entry calls
  Entry,          \* the entry itself, which carries no prologue
  Locals,         \* parameter and local value count of each function
  FixedWeight,    \* FRAME_WEIGHT_FIXED
  LocalWeight,    \* FRAME_WEIGHT_PER_LOCAL
  StackBudget,    \* STACK_BUDGET
  MaxInt,         \* the largest i32
  Tags,           \* the tags MIR code throws
  Exhaustion,     \* the psrs:stack-exhaustion tag, appended after MIR's tags
  CatchAll,       \* a catch_all clause
  CatchAllRef,    \* a catch_all_ref clause
  NoException,    \* nothing is in flight
  TopLevel,       \* the code of a function outside its try regions
  Tries,          \* try blocks of each function
  Enclosing,      \* the try region a try block lies in, or TopLevel
  Clauses,        \* the clauses of each try block
  ExitCodes       \* whether the target has WASI CLI, so the entry exits

(* The weight recorded for a function with that many locals.               *)
frame_weight(locals) == FixedWeight + LocalWeight * locals

Weight(f) == IF f = Entry THEN 0 ELSE frame_weight(Locals[f])

EntryRegion == "entry"

Regions == {EntryRegion} \cup UNION {Tries[f] : f \in Functions}

(* Mutant: the entry arms a region without a clause.                       *)
ClausesWithoutEntry(f, t) == IF f = Entry THEN {} ELSE Clauses[f][t]
ClausesOf(f, t) == IF f = Entry THEN {CatchAll} ELSE Clauses[f][t]

Exceptions == Tags \cup {Exhaustion}

ASSUME ProgramAssumption ==
  /\ Main \in Functions /\ Entry \notin Functions
  /\ Locals \in [Functions -> Nat]
  /\ Exhaustion \notin Tags /\ NoException \notin Exceptions
  /\ {CatchAll, CatchAllRef} \cap Exceptions = {}
  /\ \A f \in Functions :
       /\ Enclosing[f] \in [Tries[f] -> Tries[f] \cup {TopLevel}]
       /\ Clauses[f] \in [Tries[f] -> SUBSET (Tags \cup {CatchAll, CatchAllRef})]

(* The constants fit: 32 and 16 per local against a budget of 2^18, and a  *)
(* Wasm function has at most 50 000 locals.                                *)
ASSUME WeightAssumption ==
  /\ FixedWeight \in Nat \ {0} /\ LocalWeight \in Nat
  /\ StackBudget \in Nat /\ MaxInt \in Nat
  /\ ExitCodes \in BOOLEAN
  /\ \A f \in Functions : StackBudget + frame_weight(Locals[f]) <= MaxInt

-----------------------------------------------------------------------------
(* A clause catches every exception or the one whose tag it names; MIR has *)
(* no name for the exhaustion tag.                                         *)
matches(f, t, exception) ==
  {CatchAll, CatchAllRef, exception} \cap ClausesOf(f, t) # {}

(* The exception references a handler of region t holds after a catch.     *)
Delivered(f, t, exception) ==
  IF CatchAllRef \in ClausesOf(f, t) THEN {exception} ELSE {}

(* Region k of frame n catches the exception.                              *)
Catches(calls, n, k, exception) ==
  /\ n \in 1..Len(calls)
  /\ k \in 1..Len(calls[n].armed)
  /\ matches(calls[n].fn, calls[n].armed[k], exception)

(* ... and no region of a later frame, nor an inner one of frame n, does.  *)
Innermost(calls, n, k, exception) ==
  /\ Catches(calls, n, k, exception)
  /\ \A m \in 1..Len(calls) : \A j \in 1..Len(calls[m].armed) :
       Catches(calls, m, j, exception) => m < n \/ (m = n /\ j <= k)

(* Control at the handler of region k of frame n: later frames are gone,   *)
(* and that region and the ones inside it are no longer armed.             *)
Land(calls, n, k, exception) ==
  Append(SubSeq(calls, 1, n - 1),
         [calls[n] EXCEPT
            !.armed = SubSeq(@, 1, k - 1),
            !.held = @ \cup Delivered(calls[n].fn, calls[n].armed[k], exception)])
=============================================================================
