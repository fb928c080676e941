------------------------- MODULE NativeBudgetProofs -------------------------
(***************************************************************************)
(* Theorems about NativeBudget for every program and every budget.  The    *)
(* counter never falls below the height of the native stack on which       *)
(* compiled code runs, so no such code runs above the budget; where the    *)
(* dispatcher emits no function, the counter is that height.               *)
(*                                                                         *)
(* There the emitted budget also implements StackContract: unwinding       *)
(* changes nothing the contract sees, because the region an exception will *)
(* reach is settled when it is thrown.                                     *)
(***************************************************************************)
EXTENDS NativeBudget, StackLemmas, TLAPS

(* What a counter value may be where the height is that: never below it,   *)
(* never above the budget, and nothing else than it with Reducible.        *)
Fits(counter, height) ==
  /\ counter \in Nat /\ height <= counter /\ counter <= StackBudget
  /\ Reducible => counter = height

(* The counter and the watermarks of the armed regions fit.                *)
CounterFits ==
  /\ outcome = "running" /\ flight = NoException => Fits(depth, Top.height)
  /\ outcome \in {"idle", "returned", "failed"} => Fits(depth, 0)

WatermarksCover ==
  \A n \in 1..Len(frames) : \A k \in 1..Len(frames[n].armed) :
    Fits(frames[n].watermark[frames[n].armed[k]], frames[n].height)

(* The counter needs the watermarks to survive a catch, the budget to stay *)
(* within an i32, and the shape of the stack for all of them: the four are *)
(* inductive together.                                                     *)
Inv == TypeOK /\ CounterFits /\ WatermarksCover /\ WithinBudget

(* A stack on which a prologue may run: nothing in flight above it, and    *)
(* the entry still guarding it.                                            *)
Sound(stack) ==
  /\ stack \in Seq(Frame) /\ Len(stack) > 0
  /\ stack[1].armed = <<EntryRegion>>
  /\ \A n \in 1..Len(stack) :
       /\ stack[n].fn = Entry <=> n = 1
       /\ stack[n].height =
            IF n = 1 THEN 0 ELSE stack[n - 1].height + Weight(stack[n].fn)
       /\ \A k \in 1..Len(stack[n].armed) :
            Fits(stack[n].watermark[stack[n].armed[k]], stack[n].height)
       /\ stack[n].height <= StackBudget

(* Weights are natural numbers, and a frame above the budget by one weight *)
(* still fits the counter.                                                 *)
LEMMA WeightFacts ==
  /\ \A f \in Functions \cup {Entry} : Weight(f) \in Nat
  /\ \A f \in Functions : StackBudget + Weight(f) <= MaxInt
  /\ StackBudget \in Nat /\ MaxInt \in Nat /\ StackBudget <= MaxInt
<1>1. ASSUME NEW f \in Functions
      PROVE  frame_weight(Locals[f]) \in Nat /\ Weight(f) = frame_weight(Locals[f])
  <2>1. Locals[f] \in Nat /\ FixedWeight \in Nat /\ LocalWeight \in Nat
    BY ProgramAssumption, WeightAssumption
  <2>2. \A a, b, c \in Nat : a + b * c \in Nat
    OBVIOUS
  <2>3. frame_weight(Locals[f]) \in Nat
    BY <2>1, <2>2 DEF frame_weight
  <2>4. QED  BY <2>3, ProgramAssumption DEF Weight
<1>2. Weight(Entry) = 0
  BY DEF Weight
<1>3. StackBudget + frame_weight(Locals[Main]) <= MaxInt /\ Main \in Functions
  BY ProgramAssumption, WeightAssumption
<1>4. QED  BY <1>1, <1>2, <1>3, WeightAssumption

(* Frames in a stack have the fields their type gives them.                *)
LEMMA FrameFields ==
  ASSUME NEW stack \in Seq(Frame), NEW n \in 1..Len(stack)
  PROVE  /\ stack[n] \in Frame
         /\ stack[n].fn \in Functions \cup {Entry}
         /\ stack[n].armed \in Seq(Regions)
         /\ Len(stack[n].armed) \in Nat
         /\ stack[n].held \in SUBSET Exceptions
         /\ stack[n].watermark \in [Regions -> Int]
         /\ stack[n].height \in Nat
<1>1. stack[n] \in Frame
  OBVIOUS
<1>2. QED  BY <1>1 DEF Frame

(* While lowered code runs, both its stack and the stack below it are      *)
(* sound, and its epilogue leaves a counter that fits the height below.    *)
LEMMA ExecutingFacts ==
  ASSUME Inv, Executing
  PROVE  /\ Len(frames) \in Nat /\ Len(frames) > 1
         /\ Sound(frames) /\ Sound(Below)
         /\ Len(Below) = Len(frames) - 1
         /\ \A n \in 1..Len(Below) : Below[n] = frames[n]
         /\ Top \in Frame /\ Top.fn \in Functions
         /\ Fits(depth, Top.height)
         /\ Fits(Epilogue(depth, Top.fn), Below[Len(Below)].height)
<1>1. frames \in Seq(Frame) /\ Len(frames) \in Nat /\ Len(frames) > 0
  BY DEF Inv, TypeOK, Executing
<1>2. Top \in Frame /\ Len(frames) > 1 /\ Top.fn \in Functions
  BY <1>1, FrameFields DEF Inv, TypeOK, StackOK, Executing, Top
<1>3. frames[1].armed = <<EntryRegion>>
  <2>1. EntryOK
    BY DEF Inv, TypeOK
  <2>2. outcome = "running"
    BY DEF Executing
  <2>3. Len(frames) # 1
    <3>1. \A n \in Nat : n > 1 => n # 1
      OBVIOUS
    <3>2. QED  BY <1>1, <1>2, <3>1, Zenon
  <2>4. QED  BY <2>1, <2>2, <2>3 DEF EntryOK
<1>4. \A n \in 1..Len(frames) : frames[n].height <= StackBudget
  BY ProgramAssumption DEF Inv, WithinBudget, Executing, Exceptions
<1>5. Sound(frames)
  BY <1>1, <1>3, <1>4 DEF Inv, TypeOK, StackOK, WatermarksCover, Sound
<1>6. /\ Below \in Seq(Frame) /\ Len(Below) = Len(frames) - 1
      /\ \A n \in 1..Len(Below) : Below[n] = frames[n]
  BY <1>1, PopFacts DEF Below
<1>7. Sound(Below)
  <2>1. /\ Below[1].armed = <<EntryRegion>> /\ Len(Below) > 0
        /\ Below \in Seq(Frame)
    BY <1>1, <1>2, <1>3, <1>6
  <2>2. ASSUME NEW n \in 1..Len(Below)
        PROVE  /\ Below[n].fn = Entry <=> n = 1
               /\ Below[n].height =
                    IF n = 1 THEN 0 ELSE Below[n - 1].height + Weight(Below[n].fn)
               /\ \A k \in 1..Len(Below[n].armed) :
                    Fits(Below[n].watermark[Below[n].armed[k]], Below[n].height)
               /\ Below[n].height <= StackBudget
    <3>1. n \in 1..Len(frames) /\ Below[n] = frames[n]
      BY <1>1, <1>6
    <3>2. n # 1 => Below[n - 1] = frames[n - 1]
      BY <1>1, <1>6
    <3>3. QED  BY <1>5, <3>1, <3>2 DEF Sound
  <2>3. QED  BY <2>1, <2>2 DEF Sound
<1>8. Fits(depth, Top.height)
  BY DEF Inv, CounterFits, Executing
<1>9. Top.height = Below[Len(Below)].height + Weight(Top.fn)
  BY <1>1, <1>2, <1>6 DEF Inv, TypeOK, StackOK, Top
<1>10. Below[Len(Below)].height \in Nat /\ Below[Len(Below)].height <= StackBudget
  BY <1>2, <1>6, <1>7, FrameFields DEF Sound
<1>11. Fits(Epilogue(depth, Top.fn), Below[Len(Below)].height)
  <2>1. /\ depth \in Nat /\ Top.height <= depth /\ depth <= StackBudget
        /\ Reducible => depth = Top.height
    BY <1>8 DEF Fits
  <2>2. Weight(Top.fn) \in Nat /\ StackBudget \in Nat /\ MaxInt \in Nat /\ StackBudget <= MaxInt
    BY <1>2, WeightFacts
  <2>3. /\ depth - Weight(Top.fn) \in Nat
        /\ Below[Len(Below)].height <= depth - Weight(Top.fn)
        /\ depth - Weight(Top.fn) <= StackBudget
        /\ Reducible => depth - Weight(Top.fn) = Below[Len(Below)].height
    BY <1>9, <1>10, <2>1, <2>2
  <2>4. decrement(depth, Top.fn) = depth - Weight(Top.fn)
    BY <2>2, <2>3 DEF decrement, Int32
  <2>5. CASE Top.fn \in Dispatched
    <3>1. Epilogue(depth, Top.fn) = depth /\ ~Reducible
      BY <2>5 DEF Epilogue, Reducible
    <3>2. Below[Len(Below)].height <= depth
      BY <1>9, <1>10, <2>1, <2>2
    <3>3. QED  BY <2>1, <3>1, <3>2 DEF Fits
  <2>6. CASE Top.fn \notin Dispatched
    BY <2>3, <2>4, <2>6 DEF Fits, Epilogue
  <2>7. QED  BY <2>5, <2>6
<1>12. QED  BY <1>1, <1>2, <1>5, <1>6, <1>7, <1>8, <1>11

(* A prologue on a sound stack whose height the counter fits: the frame it *)
(* leaves, and whether it throws.                                          *)
LEMMA PrologueFacts ==
  ASSUME NEW stack, NEW counter, NEW g \in Functions, Sound(stack),
         Fits(counter, stack[Len(stack)].height), Prologue(stack, counter, g)
  PROVE  /\ depth' = counter + Weight(g) /\ depth' \in 0..MaxInt
         /\ flight' = IF counter + Weight(g) > StackBudget
                      THEN Exhaustion ELSE NoException
         /\ NewFrame(stack, g) \in Frame
         /\ NewFrame(stack, g).height = stack[Len(stack)].height + Weight(g)
         /\ stack[Len(stack)].height \in Nat /\ counter \in Nat /\ Weight(g) \in Nat
         /\ frames' \in Seq(Frame) /\ Len(frames') = Len(stack) + 1
         /\ frames'[Len(frames')] = NewFrame(stack, g)
         /\ \A n \in 1..Len(stack) : frames'[n] = stack[n]
<1>1. Len(stack) \in 1..Len(stack) /\ stack \in Seq(Frame)
  BY DEF Sound
<1>2. /\ counter \in Nat /\ counter <= StackBudget
      /\ stack[Len(stack)].height \in Nat
  BY <1>1, FrameFields DEF Fits
<1>3. /\ Weight(g) \in Nat /\ StackBudget + Weight(g) <= MaxInt
      /\ StackBudget \in Nat /\ MaxInt \in Nat
  BY WeightFacts
<1>4. increment(counter, g) = counter + Weight(g) /\ counter + Weight(g) \in 0..MaxInt
  BY <1>2, <1>3 DEF increment, Int32
<1>5. NewFrame(stack, g) \in Frame
  <2>1. <<>> \in Seq(Regions) /\ {} \in SUBSET Exceptions
    OBVIOUS
  <2>2. [t \in Regions |-> 0] \in [Regions -> Int]
    OBVIOUS
  <2>3. stack[Len(stack)].height + Weight(g) \in Nat
    BY <1>2, <1>3
  <2>4. QED  BY <2>1, <2>2, <2>3 DEF NewFrame, Frame
<1>6. NewFrame(stack, g).height = stack[Len(stack)].height + Weight(g)
  BY DEF NewFrame
<1>7. frames' = Append(stack, NewFrame(stack, g))
  BY DEF Prologue
<1>8. QED  BY <1>1, <1>2, <1>3, <1>4, <1>5, <1>6, <1>7 DEF Prologue, Overflows

(* ... and the invariant holds after it.                                   *)
LEMMA PrologueKeepsInv ==
  ASSUME NEW stack, NEW counter, NEW g \in Functions, Sound(stack),
         Fits(counter, stack[Len(stack)].height), Prologue(stack, counter, g),
         outcome' = "running"
  PROVE  Inv'
<1> DEFINE new == NewFrame(stack, g)
           below == stack[Len(stack)].height
<1>1. /\ depth' = counter + Weight(g) /\ depth' \in 0..MaxInt
      /\ flight' = IF counter + Weight(g) > StackBudget THEN Exhaustion ELSE NoException
      /\ new \in Frame /\ new.height = below + Weight(g)
      /\ below \in Nat /\ counter \in Nat /\ Weight(g) \in Nat
      /\ frames' \in Seq(Frame) /\ Len(frames') = Len(stack) + 1
      /\ frames'[Len(frames')] = new
      /\ \A n \in 1..Len(stack) : frames'[n] = stack[n]
  BY PrologueFacts
<1>2. new.fn = g /\ new.armed = <<>> /\ g # Entry
  BY ProgramAssumption DEF NewFrame
<1>3. Len(stack) \in Nat /\ Len(stack) > 0
  BY DEF Sound
<1> HIDE DEF new
<1>4. StackOK'
  <2> SUFFICES ASSUME NEW n \in 1..Len(frames')
               PROVE  /\ frames'[n].fn = Entry <=> n = 1
                      /\ frames'[n].height =
                           IF n = 1 THEN 0 ELSE frames'[n - 1].height + Weight(frames'[n].fn)
    BY DEF StackOK
  <2>1. CASE n \in 1..Len(stack)
    <3>1. frames'[n] = stack[n]
      BY <1>1, <2>1
    <3>2. n # 1 => n - 1 \in 1..Len(stack) /\ frames'[n - 1] = stack[n - 1]
      <4>1. n # 1 => n - 1 \in 1..Len(stack)
        BY <1>3, <2>1
      <4>2. QED  BY <1>1, <4>1
    <3>3. /\ stack[n].fn = Entry <=> n = 1
          /\ stack[n].height =
               IF n = 1 THEN 0 ELSE stack[n - 1].height + Weight(stack[n].fn)
      BY <2>1 DEF Sound
    <3>4. QED  BY <3>1, <3>2, <3>3
  <2>2. CASE n = Len(frames')
    BY <1>1, <1>2, <1>3, <2>2
  <2>3. QED  BY <1>1, <1>3, <2>1, <2>2
<1>5. EntryOK'
  <2>1. stack[1].armed = <<EntryRegion>>
    BY DEF Sound
  <2>2. frames'[1] = stack[1] /\ frames' # <<>>
    BY <1>1, <1>3
  <2>3. QED  BY <2>1, <2>2 DEF EntryOK
<1>6. TypeOK'
  <2>1. flight' \in Exceptions \cup {NoException}
    BY <1>1 DEF Exceptions
  <2>2. QED  BY <1>1, <1>4, <1>5, <2>1 DEF TypeOK
<1>7. CounterFits'
  <2>1. below <= counter /\ (Reducible => counter = below) /\ StackBudget \in Nat
    BY WeightFacts DEF Fits
  <2>2. flight' = NoException => Fits(depth', new.height)
    BY <1>1, <2>1, ProgramAssumption DEF Fits, Exceptions
  <2>3. QED  BY <1>1, <2>2 DEF CounterFits, Top
<1>8. WatermarksCover'
  <2> SUFFICES ASSUME NEW n \in 1..Len(frames'), NEW k \in 1..Len(frames'[n].armed)
               PROVE  Fits(frames'[n].watermark[frames'[n].armed[k]], frames'[n].height)
    BY DEF WatermarksCover
  <2>1. CASE n \in 1..Len(stack)
    BY <1>1, <2>1 DEF Sound
  <2>2. CASE n = Len(frames')
    BY <1>1, <1>2, <2>2
  <2>3. QED  BY <1>1, <1>3, <2>1, <2>2
<1>9. WithinBudget'
  <2>1. \A n \in 1..Len(stack) : frames'[n].height <= StackBudget
    BY <1>1 DEF Sound
  <2>2. new.height <= StackBudget \/ (flight' = Exhaustion /\ new.armed = <<>>)
    <3>1. StackBudget \in Nat /\ below <= counter
      BY WeightFacts DEF Fits
    <3>2. QED  BY <1>1, <1>2, <3>1
  <2>3. QED  BY <1>1, <1>3, <2>1, <2>2 DEF WithinBudget
<1>10. QED  BY <1>6, <1>7, <1>8, <1>9 DEF Inv

(* Changing the top frame without moving it: what is left to show.         *)
LEMMA SetTopKeepsShape ==
  ASSUME Inv, frames # <<>>, outcome = "running", NEW frame \in Frame, SetTop(frame),
         frame.fn = Top.fn, frame.height = Top.height,
         \A k \in 1..Len(frame.armed) : Fits(frame.watermark[frame.armed[k]], frame.height)
  PROVE  /\ Len(frames) \in Nat /\ Len(frames) > 0
         /\ frames' \in Seq(Frame) /\ Len(frames') = Len(frames)
         /\ frames'[Len(frames)] = frame
         /\ \A n \in 1..Len(frames) : n # Len(frames) => frames'[n] = frames[n]
         /\ StackOK' /\ WatermarksCover' /\ Top' = frame
<1>1. frames \in Seq(Frame) /\ Len(frames) \in Nat /\ Len(frames) > 0
  BY DEF Inv, TypeOK
<1>2. /\ frames' \in Seq(Frame) /\ Len(frames') = Len(frames)
      /\ frames'[Len(frames)] = frame
      /\ \A n \in 1..Len(frames) : n # Len(frames) => frames'[n] = frames[n]
  BY <1>1, SetTopFacts DEF SetTop
<1>3. \A n \in 1..Len(frames) :
        frames'[n].fn = frames[n].fn /\ frames'[n].height = frames[n].height
  BY <1>1, <1>2 DEF Top
<1>4. StackOK'
  <2> SUFFICES ASSUME NEW n \in 1..Len(frames')
               PROVE  /\ frames'[n].fn = Entry <=> n = 1
                      /\ frames'[n].height =
                           IF n = 1 THEN 0 ELSE frames'[n - 1].height + Weight(frames'[n].fn)
    BY DEF StackOK
  <2>1. /\ frames[n].fn = Entry <=> n = 1
        /\ frames[n].height =
             IF n = 1 THEN 0 ELSE frames[n - 1].height + Weight(frames[n].fn)
    BY <1>2 DEF Inv, TypeOK, StackOK
  <2>2. n \in 1..Len(frames) /\ (n # 1 => n - 1 \in 1..Len(frames))
    BY <1>1, <1>2
  <2>3. QED  BY <1>3, <2>1, <2>2
<1>5. WatermarksCover'
  BY <1>1, <1>2 DEF Inv, WatermarksCover
<1>6. QED  BY <1>1, <1>2, <1>4, <1>5 DEF Top

(* The start of a run: the entry alone is a sound stack of height 0, which *)
(* the counter fits.                                                       *)
LEMMA StartSound ==
  ASSUME Inv, Start
  PROVE  LET stack == <<[fn |-> Entry, armed |-> <<EntryRegion>>, held |-> {},
                         watermark |-> [t \in Regions |-> depth], height |-> 0]>>
         IN  Sound(stack) /\ Fits(depth, stack[Len(stack)].height) /\ Fits(depth, 0)
<1> DEFINE entry == [fn |-> Entry, armed |-> <<EntryRegion>>, held |-> {},
                     watermark |-> [t \in Regions |-> depth], height |-> 0]
<1>1. Fits(depth, 0) /\ depth \in Nat
  BY DEF Fits, Inv, CounterFits, Start
<1>2. EntryRegion \in Regions
  BY DEF Regions
<1>3. entry \in Frame
  <2>1. <<EntryRegion>> \in Seq(Regions) /\ {} \in SUBSET Exceptions
    BY <1>2
  <2>2. [t \in Regions |-> depth] \in [Regions -> Int]
    BY <1>1
  <2>3. QED  BY <2>1, <2>2 DEF Frame
<1>4. \A k \in 1..Len(entry.armed) : Fits(entry.watermark[entry.armed[k]], 0)
  BY <1>1, <1>2
<1>5. entry.fn = Entry /\ entry.armed = <<EntryRegion>> /\ entry.height = 0
  OBVIOUS
<1> HIDE DEF entry
<1>6. <<entry>> \in Seq(Frame) /\ Len(<<entry>>) = 1 /\ <<entry>>[1] = entry
  BY <1>3
<1>7. Sound(<<entry>>)
  BY <1>4, <1>5, <1>6, WeightFacts DEF Sound
<1>8. QED  BY <1>1, <1>5, <1>6, <1>7 DEF entry

(* A return leaves the caller's frame on top, at the height the epilogue   *)
(* computes.                                                               *)
LEMMA ReturnKeepsInv == ASSUME Inv, Return PROVE Inv'
<1>1. /\ Len(frames) \in Nat /\ Len(frames) > 1
      /\ Sound(frames) /\ Sound(Below)
      /\ Len(Below) = Len(frames) - 1
      /\ \A n \in 1..Len(Below) : Below[n] = frames[n]
      /\ Fits(Epilogue(depth, Top.fn), Below[Len(Below)].height)
  BY ExecutingFacts DEF Return
<1>2. /\ frames' = Below /\ Fits(depth', Below[Len(Below)].height)
      /\ flight' = NoException /\ outcome' = "running"
  BY <1>1 DEF Return, Executing
<1>3. depth' \in 0..MaxInt
  BY <1>2, WeightFacts DEF Fits
<1>4. StackOK' /\ EntryOK'
  <2>1. StackOK'
    BY <1>1, <1>2 DEF StackOK, Sound
  <2>2. EntryOK'
    BY <1>1, <1>2 DEF EntryOK, Sound
  <2>3. QED  BY <2>1, <2>2
<1>5. TypeOK'
  BY <1>1, <1>2, <1>3, <1>4 DEF TypeOK, Sound
<1>6. CounterFits'
  BY <1>1, <1>2 DEF CounterFits, Top
<1>7. WatermarksCover' /\ WithinBudget'
  BY <1>1, <1>2 DEF WatermarksCover, WithinBudget, Sound
<1>8. QED  BY <1>5, <1>6, <1>7 DEF Inv

(* Arming saves a counter that fits the frame.                             *)
LEMMA ArmKeepsInv ==
  ASSUME Inv, NEW f \in Functions, NEW t \in Tries[f], Arm(t)
  PROVE  Inv'
<1> DEFINE frame == [Top EXCEPT !.watermark[t] = depth, !.armed = Append(@, t)]
<1>1. /\ Len(frames) \in Nat /\ Len(frames) > 1 /\ Sound(frames)
      /\ Top \in Frame /\ Top.fn \in Functions /\ Fits(depth, Top.height)
      /\ depth \in Int
  BY ExecutingFacts, WeightFacts DEF Arm, Inv, TypeOK
<1>2. /\ SetTop(frame) /\ depth' = depth
      /\ flight' = NoException /\ flight = NoException
      /\ outcome' = "running" /\ outcome = "running" /\ frames # <<>>
  BY DEF Arm, Executing
<1>3. t \in Regions
  BY DEF Regions
<1>4. /\ Top.armed \in Seq(Regions) /\ Top.watermark \in [Regions -> Int]
      /\ Top.height \in Nat
  BY <1>1 DEF Frame
<1>5. frame \in Frame /\ frame.fn = Top.fn /\ frame.height = Top.height
  <2>1. Append(Top.armed, t) \in Seq(Regions)
    BY <1>3, <1>4
  <2>2. [Top.watermark EXCEPT ![t] = depth] \in [Regions -> Int]
    BY <1>1, <1>4
  <2>3. QED  BY <1>1, <2>1, <2>2 DEF Frame
<1>6. \A k \in 1..Len(frame.armed) : Fits(frame.watermark[frame.armed[k]], frame.height)
  <2>1. frame.watermark = [Top.watermark EXCEPT ![t] = depth]
        /\ frame.armed = Append(Top.armed, t)
    BY <1>1 DEF Frame
  <2>2. \A k \in 1..Len(Top.armed) : /\ Fits(Top.watermark[Top.armed[k]], Top.height)
                                     /\ Top.armed[k] \in Regions
    <3>1. Len(frames) \in 1..Len(frames)
      BY <1>1
    <3>2. \A k \in 1..Len(Top.armed) : Fits(Top.watermark[Top.armed[k]], Top.height)
      BY <1>1, <3>1 DEF Sound, Top
    <3>3. \A k \in 1..Len(Top.armed) : Top.armed[k] \in Regions
      BY <1>4
    <3>4. QED  BY <3>2, <3>3
  <2>3. \A r \in Regions : [Top.watermark EXCEPT ![t] = depth][r]
                              = IF r = t THEN depth ELSE Top.watermark[r]
    BY <1>1, <1>4
  <2>4. \A k \in 1..Len(frame.armed) :
          \/ k \in 1..Len(Top.armed) /\ frame.armed[k] = Top.armed[k]
          \/ frame.armed[k] = t
    BY <1>3, <1>4, <2>1
  <2> HIDE DEF frame
  <2>5. QED  BY <1>1, <1>3, <1>5, <2>1, <2>2, <2>3, <2>4
<1> HIDE DEF frame
<1>7. /\ frames' \in Seq(Frame) /\ Len(frames') = Len(frames)
      /\ frames'[Len(frames)] = frame
      /\ \A n \in 1..Len(frames) : n # Len(frames) => frames'[n] = frames[n]
      /\ StackOK' /\ WatermarksCover' /\ Top' = frame
  BY <1>2, <1>5, <1>6, SetTopKeepsShape
<1>8. EntryOK'
  BY <1>1, <1>2, <1>7 DEF EntryOK, Sound
<1>9. TypeOK'
  BY <1>2, <1>7, <1>8 DEF Inv, TypeOK
<1>10. CounterFits'
  BY <1>1, <1>2, <1>5, <1>7 DEF CounterFits
<1>11. WithinBudget'
  BY <1>1, <1>5, <1>7 DEF WithinBudget, Sound, Top
<1>12. QED  BY <1>7, <1>9, <1>10, <1>11 DEF Inv

(* Taking the last region off the top frame, with whatever its handler is  *)
(* given to hold: the frame it leaves.                                     *)
LEMMA DisarmedFrame ==
  ASSUME Inv, frames # <<>>, Top.armed # <<>>, NEW held \in SUBSET Exceptions
  PROVE  LET frame == [Top EXCEPT !.armed = SubSeq(@, 1, Len(@) - 1), !.held = held]
         IN  /\ frame \in Frame
             /\ frame.fn = Top.fn /\ frame.height = Top.height
             /\ frame.held = held /\ frame.armed = SubSeq(Top.armed, 1, Len(Top.armed) - 1)
             /\ Len(Top.armed) \in Nat /\ Len(Top.armed) > 0
             /\ Len(frame.armed) = Len(Top.armed) - 1
             /\ \A k \in 1..Len(frame.armed) : frame.armed[k] = Top.armed[k]
             /\ \A k \in 1..Len(frame.armed) :
                  Fits(frame.watermark[frame.armed[k]], frame.height)
             /\ Fits(Top.watermark[LastRegion], Top.height)
<1> DEFINE frame == [Top EXCEPT !.armed = SubSeq(@, 1, Len(@) - 1), !.held = held]
           rest == SubSeq(Top.armed, 1, Len(Top.armed) - 1)
<1>1. frames \in Seq(Frame) /\ Len(frames) \in 1..Len(frames)
  BY DEF Inv, TypeOK
<1>2. Top \in Frame /\ Top.armed \in Seq(Regions) /\ Len(Top.armed) \in Nat
  BY <1>1, FrameFields DEF Top
<1>3. Len(Top.armed) > 0
  BY <1>2
<1>4. /\ rest \in Seq(Regions) /\ Len(rest) = Len(Top.armed) - 1
      /\ \A k \in 1..Len(rest) : rest[k] = Top.armed[k]
  BY <1>2, <1>3, PopFacts
<1> HIDE DEF rest
<1>5. frame = [Top EXCEPT !.armed = rest, !.held = held]
  BY DEF rest
<1>6. /\ frame \in Frame /\ frame.fn = Top.fn /\ frame.height = Top.height
      /\ frame.watermark = Top.watermark /\ frame.armed = rest /\ frame.held = held
  <2> HIDE DEF frame
  <2> QED  BY <1>2, <1>4, <1>5 DEF Frame
<1>7. \A k \in 1..Len(Top.armed) : Fits(Top.watermark[Top.armed[k]], Top.height)
  BY <1>1 DEF Inv, WatermarksCover, Top
<1>8. Fits(Top.watermark[LastRegion], Top.height)
  BY <1>2, <1>3, <1>7 DEF LastRegion
<1> HIDE DEF frame
<1>9. \A k \in 1..Len(frame.armed) : Fits(frame.watermark[frame.armed[k]], frame.height)
  BY <1>2, <1>3, <1>4, <1>6, <1>7
<1>10. QED  BY <1>2, <1>3, <1>4, <1>6, <1>8, <1>9 DEF frame, rest

(* Leaving a region, or an exception passing one, changes the frame only.  *)
LEMMA LeaveKeepsInv == ASSUME Inv, Leave PROVE Inv'
<1> DEFINE frame == [Top EXCEPT !.armed = SubSeq(@, 1, Len(@) - 1), !.held = Top.held]
<1>1. /\ Len(frames) \in Nat /\ Len(frames) > 1 /\ Sound(frames)
      /\ Top \in Frame /\ Fits(depth, Top.height)
  BY ExecutingFacts DEF Leave
<1>2. /\ depth' = depth /\ flight' = NoException /\ flight = NoException
      /\ outcome' = "running" /\ outcome = "running"
      /\ frames # <<>> /\ Top.armed # <<>>
  BY DEF Leave, Executing
<1>3. Top.held \in SUBSET Exceptions
  BY <1>1 DEF Frame
<1>4. SetTop(frame)
  <2>1. frame = [Top EXCEPT !.armed = SubSeq(@, 1, Len(@) - 1)]
    BY <1>1 DEF Frame
  <2>2. QED  BY <2>1 DEF Leave
<1>5. /\ frame \in Frame /\ frame.fn = Top.fn /\ frame.height = Top.height
      /\ \A k \in 1..Len(frame.armed) : Fits(frame.watermark[frame.armed[k]], frame.height)
  BY <1>2, <1>3, DisarmedFrame
<1> HIDE DEF frame
<1>6. /\ frames' \in Seq(Frame) /\ Len(frames') = Len(frames)
      /\ frames'[Len(frames)] = frame
      /\ \A n \in 1..Len(frames) : n # Len(frames) => frames'[n] = frames[n]
      /\ StackOK' /\ WatermarksCover' /\ Top' = frame
  BY <1>2, <1>4, <1>5, SetTopKeepsShape
<1>7. EntryOK'
  BY <1>1, <1>2, <1>6 DEF EntryOK, Sound
<1>8. TypeOK'
  BY <1>2, <1>6, <1>7 DEF Inv, TypeOK
<1>9. CounterFits'
  BY <1>1, <1>2, <1>5, <1>6 DEF CounterFits
<1>10. WithinBudget'
  BY <1>1, <1>5, <1>6 DEF WithinBudget, Sound, Top
<1>11. QED  BY <1>6, <1>8, <1>9, <1>10 DEF Inv

(* What unwinding starts from: the entry is still armed at the bottom.     *)
LEMMA UnwindingFacts ==
  ASSUME Inv, Unwinding
  PROVE  /\ frames \in Seq(Frame) /\ Len(frames) \in Nat /\ Len(frames) > 0
         /\ outcome = "running" /\ flight \in Exceptions
         /\ frames[1].armed = <<EntryRegion>> /\ frames[1].fn = Entry
         /\ \A n \in 1..Len(frames) : n < Len(frames) => frames[n].height <= StackBudget
         /\ Top.armed # <<>> => Top.height <= StackBudget
         /\ Top \in Frame /\ Top.height \in Nat
<1>1. frames \in Seq(Frame) /\ Len(frames) \in Nat /\ Len(frames) > 0
  BY DEF Inv, TypeOK, Unwinding
<1>2. outcome = "running" /\ flight \in Exceptions /\ flight # NoException
  BY DEF Inv, TypeOK, Unwinding
<1>3. frames[1].armed = <<EntryRegion>>
  BY <1>2 DEF Inv, TypeOK, EntryOK
<1>4. frames[1].fn = Entry
  BY <1>1 DEF Inv, TypeOK, StackOK
<1>5. \A n \in 1..Len(frames) : n < Len(frames) => frames[n].height <= StackBudget
  BY <1>1 DEF Inv, WithinBudget
<1>6. Top.armed # <<>> => Top.height <= StackBudget
  BY <1>1 DEF Inv, WithinBudget, Top
<1>7. Top \in Frame /\ Top.height \in Nat
  BY <1>1, FrameFields DEF Top
<1>8. QED  BY <1>1, <1>2, <1>3, <1>4, <1>5, <1>6, <1>7

(* The entry's region catches everything.                                  *)
LEMMA EntryMatches == \A exception : matches(Entry, EntryRegion, exception)
BY DEF matches, ClausesOf

(* ... so no exception passes it, and its frame is never discarded.        *)
LEMMA PassKeepsInv == ASSUME Inv, Pass PROVE Inv'
<1> DEFINE frame == [Top EXCEPT !.armed = SubSeq(@, 1, Len(@) - 1), !.held = Top.held]
<1>1. /\ frames \in Seq(Frame) /\ Len(frames) \in Nat /\ Len(frames) > 0
      /\ outcome = "running" /\ flight \in Exceptions
      /\ frames[1].armed = <<EntryRegion>> /\ frames[1].fn = Entry
      /\ \A n \in 1..Len(frames) : n < Len(frames) => frames[n].height <= StackBudget
      /\ Top.armed # <<>> => Top.height <= StackBudget
      /\ Top \in Frame /\ Top.height \in Nat
  BY UnwindingFacts DEF Pass
<1>2. /\ depth' = depth /\ flight' = flight /\ outcome' = outcome /\ flight # NoException
      /\ frames # <<>> /\ Top.armed # <<>> /\ ~matches(Top.fn, LastRegion, flight)
  BY DEF Pass, Unwinding
<1>3. Len(frames) # 1
  BY <1>1, <1>2, EntryMatches DEF LastRegion, Top
<1>4. Top.held \in SUBSET Exceptions
  BY <1>1 DEF Frame
<1>5. SetTop(frame)
  <2>1. frame = [Top EXCEPT !.armed = SubSeq(@, 1, Len(@) - 1)]
    BY <1>1 DEF Frame
  <2>2. QED  BY <2>1 DEF Pass
<1>6. /\ frame \in Frame /\ frame.fn = Top.fn /\ frame.height = Top.height
      /\ \A k \in 1..Len(frame.armed) : Fits(frame.watermark[frame.armed[k]], frame.height)
  BY <1>2, <1>4, DisarmedFrame
<1> HIDE DEF frame
<1>7. /\ frames' \in Seq(Frame) /\ Len(frames') = Len(frames)
      /\ frames'[Len(frames)] = frame
      /\ \A n \in 1..Len(frames) : n # Len(frames) => frames'[n] = frames[n]
      /\ StackOK' /\ WatermarksCover' /\ Top' = frame
  BY <1>1, <1>2, <1>5, <1>6, SetTopKeepsShape
<1>8. EntryOK'
  BY <1>1, <1>2, <1>3, <1>7 DEF EntryOK
<1>9. TypeOK'
  BY <1>2, <1>7, <1>8 DEF Inv, TypeOK
<1>10. CounterFits'
  BY <1>1, <1>2 DEF CounterFits
<1>11. WithinBudget'
  BY <1>1, <1>2, <1>6, <1>7 DEF WithinBudget
<1>12. QED  BY <1>7, <1>9, <1>10, <1>11 DEF Inv

(* A catch restores a counter that fits the frame that catches.            *)
LEMMA CatchKeepsInv == ASSUME Inv, Catch PROVE Inv'
<1> DEFINE held == Top.held \cup Delivered(Top.fn, LastRegion, flight)
           frame == [Top EXCEPT !.armed = SubSeq(@, 1, Len(@) - 1), !.held = held]
<1>1. /\ frames \in Seq(Frame) /\ Len(frames) \in Nat /\ Len(frames) > 0
      /\ outcome = "running" /\ flight \in Exceptions
      /\ frames[1].armed = <<EntryRegion>> /\ frames[1].fn = Entry
      /\ \A n \in 1..Len(frames) : n < Len(frames) => frames[n].height <= StackBudget
      /\ Top.armed # <<>> => Top.height <= StackBudget
      /\ Top \in Frame /\ Top.height \in Nat
  BY UnwindingFacts DEF Catch
<1>2. /\ depth' = Top.watermark[LastRegion] /\ flight' = NoException
      /\ outcome' = outcome /\ frames # <<>> /\ Top.armed # <<>>
  BY DEF Catch, Unwinding
<1>3. held \in SUBSET Exceptions
  BY <1>1 DEF Frame, Delivered
<1>4. SetTop(frame)
  BY DEF Catch
<1>5. /\ frame \in Frame /\ frame.fn = Top.fn /\ frame.height = Top.height
      /\ frame.armed = SubSeq(Top.armed, 1, Len(Top.armed) - 1)
      /\ Len(frame.armed) = Len(Top.armed) - 1
      /\ \A k \in 1..Len(frame.armed) : Fits(frame.watermark[frame.armed[k]], frame.height)
      /\ Fits(Top.watermark[LastRegion], Top.height)
  <2> HIDE DEF held
  <2> QED  BY <1>2, <1>3, DisarmedFrame
<1> HIDE DEF frame
<1>6. /\ frames' \in Seq(Frame) /\ Len(frames') = Len(frames)
      /\ frames'[Len(frames)] = frame
      /\ \A n \in 1..Len(frames) : n # Len(frames) => frames'[n] = frames[n]
      /\ StackOK' /\ WatermarksCover' /\ Top' = frame
  BY <1>1, <1>2, <1>4, <1>5, SetTopKeepsShape
<1>7. EntryOK'
  <2>1. CASE Len(frames) = 1
    <3>1. Top.armed = <<EntryRegion>>
      BY <1>1, <2>1 DEF Top
    <3>2. frame.armed = <<>>
      BY <1>5, <3>1
    <3>3. QED  BY <1>1, <1>2, <1>6, <2>1, <3>2 DEF EntryOK
  <2>2. CASE Len(frames) # 1
    BY <1>1, <1>2, <1>6, <2>2 DEF EntryOK
  <2>3. QED  BY <2>1, <2>2
<1>8. depth' \in 0..MaxInt
  BY <1>2, <1>5, WeightFacts DEF Fits
<1>9. TypeOK'
  BY <1>1, <1>2, <1>6, <1>7, <1>8 DEF TypeOK
<1>10. CounterFits'
  BY <1>1, <1>2, <1>5, <1>6 DEF CounterFits
<1>11. WithinBudget'
  BY <1>1, <1>2, <1>5, <1>6 DEF WithinBudget
<1>12. QED  BY <1>6, <1>9, <1>10, <1>11 DEF Inv

(* A discarded frame is not the entry's.                                   *)
LEMMA DiscardKeepsInv == ASSUME Inv, Discard PROVE Inv'
<1>1. /\ frames \in Seq(Frame) /\ Len(frames) \in Nat /\ Len(frames) > 0
      /\ outcome = "running" /\ flight \in Exceptions
      /\ frames[1].armed = <<EntryRegion>> /\ frames[1].fn = Entry
      /\ \A n \in 1..Len(frames) : n < Len(frames) => frames[n].height <= StackBudget
  BY UnwindingFacts DEF Discard
<1>2. /\ depth' = depth /\ flight' = flight /\ outcome' = outcome /\ flight # NoException
      /\ frames' = Below /\ Top.armed = <<>>
  BY DEF Discard, Unwinding
<1>3. Len(frames) # 1
  BY <1>1, <1>2 DEF Top
<1>4. /\ frames' \in Seq(Frame) /\ Len(frames') = Len(frames) - 1 /\ Len(frames') > 0
      /\ \A n \in 1..Len(frames') : frames'[n] = frames[n]
  BY <1>1, <1>2, <1>3, PopFacts DEF Below
<1>5. StackOK'
  BY <1>1, <1>4 DEF Inv, TypeOK, StackOK
<1>6. EntryOK'
  BY <1>1, <1>2, <1>4 DEF EntryOK
<1>7. TypeOK'
  BY <1>2, <1>4, <1>5, <1>6 DEF Inv, TypeOK
<1>8. CounterFits'
  BY <1>1, <1>2 DEF CounterFits
<1>9. WatermarksCover' /\ WithinBudget'
  <2>1. \A n \in 1..Len(frames') : n \in 1..Len(frames) /\ n < Len(frames)
    BY <1>1, <1>4
  <2>2. WatermarksCover'
    BY <1>4, <2>1 DEF Inv, WatermarksCover
  <2>3. WithinBudget'
    BY <1>1, <1>4, <2>1 DEF WithinBudget
  <2>4. QED  BY <2>2, <2>3
<1>10. QED  BY <1>7, <1>8, <1>9 DEF Inv

(* The remaining actions leave the frames alone or end the run.            *)
LEMMA ThrowKeepsInv ==
  ASSUME Inv, NEW exception \in Exceptions, Throw(exception) PROVE Inv'
<1>1. Len(frames) > 1 /\ Sound(frames) /\ Len(frames) \in Nat
  BY ExecutingFacts DEF Throw
<1>2. /\ frames' = frames /\ depth' = depth /\ outcome' = outcome
      /\ flight' = exception /\ outcome = "running" /\ exception # NoException
  BY ProgramAssumption DEF Throw, Executing
<1>3. EntryOK'
  BY <1>1, <1>2 DEF EntryOK, Sound
<1>4. TypeOK'
  BY <1>2, <1>3 DEF Inv, TypeOK, StackOK
<1>5. CounterFits' /\ WatermarksCover' /\ WithinBudget'
  BY <1>1, <1>2 DEF Inv, CounterFits, WatermarksCover, WithinBudget, Sound
<1>6. QED  BY <1>4, <1>5 DEF Inv

(* A trap ends the run whatever the counter.                               *)
LEMMA TrapKeepsInv == ASSUME Inv, Trap PROVE Inv'
<1>1. /\ frames' = <<>> /\ depth' = depth /\ flight' = NoException
      /\ outcome' = "trapped"
  BY DEF Trap, Executing
<1>2. StackOK' /\ EntryOK' /\ WatermarksCover' /\ WithinBudget' /\ CounterFits'
  BY <1>1 DEF StackOK, EntryOK, WatermarksCover, WithinBudget, CounterFits
<1>3. TypeOK'
  BY <1>1, <1>2 DEF Inv, TypeOK
<1>4. QED  BY <1>2, <1>3 DEF Inv

(* The entry ends with a counter that fits its own height, nothing.        *)
LEMMA FinishKeepsInv == ASSUME Inv, Finish PROVE Inv'
<1>1. /\ frames' = <<>> /\ depth' = depth /\ flight' = NoException
      /\ outcome' \in {"returned", "failed"}
  BY DEF Finish
<1>2. Fits(depth, 0)
  <2>1. Len(frames) \in 1..Len(frames) /\ Fits(depth, Top.height) /\ Top.fn = Entry
    BY DEF Finish, Inv, TypeOK, CounterFits
  <2>2. Top.height = 0
    BY <2>1 DEF Inv, TypeOK, StackOK, Top
  <2>3. QED  BY <2>1, <2>2
<1>3. StackOK' /\ EntryOK' /\ WatermarksCover' /\ WithinBudget' /\ CounterFits'
  BY <1>1, <1>2 DEF StackOK, EntryOK, WatermarksCover, WithinBudget, CounterFits
<1>4. TypeOK'
  BY <1>1, <1>3 DEF Inv, TypeOK
<1>5. QED  BY <1>3, <1>4 DEF Inv

-----------------------------------------------------------------------------
(* The invariant holds initially.                                          *)
LEMMA InitInv == Init => Inv
<1> SUFFICES ASSUME Init PROVE Inv
  OBVIOUS
<1>1. StackOK /\ EntryOK /\ WatermarksCover /\ WithinBudget /\ CounterFits
  BY WeightFacts DEF Fits, Init, StackOK, EntryOK, WatermarksCover, WithinBudget, CounterFits
<1>2. TypeOK
  BY <1>1, WeightFacts DEF Init, TypeOK
<1>3. QED  BY <1>1, <1>2 DEF Inv

(* Every step keeps it.                                                    *)
LEMMA NextKeepsInv == Inv /\ [Next]_vars => Inv'
<1> SUFFICES ASSUME Inv, [Next]_vars PROVE Inv'
  OBVIOUS
<1>1. CASE Start
  <2> DEFINE stack == <<[fn |-> Entry, armed |-> <<EntryRegion>>, held |-> {},
                         watermark |-> [t \in Regions |-> depth], height |-> 0]>>
  <2>1. Sound(stack) /\ Fits(depth, stack[Len(stack)].height)
    BY <1>1, StartSound
  <2>2. Prologue(stack, depth, Main) /\ outcome' = "running" /\ Main \in Functions
    BY <1>1, ProgramAssumption DEF Start
  <2> HIDE DEF stack
  <2>3. QED  BY <2>1, <2>2, PrologueKeepsInv
<1>2. ASSUME NEW g \in Functions, Call(g) PROVE Inv'
  <2>1. Sound(frames) /\ Fits(depth, frames[Len(frames)].height)
    BY <1>2, ExecutingFacts DEF Call, Top
  <2>2. Prologue(frames, depth, g) /\ outcome' = "running"
    BY <1>2 DEF Call, Executing
  <2>3. QED  BY <2>1, <2>2, PrologueKeepsInv
<1>3. ASSUME NEW g \in Functions, TailCall(g) PROVE Inv'
  <2>1. Sound(Below) /\ Fits(Epilogue(depth, Top.fn), Below[Len(Below)].height)
    BY <1>3, ExecutingFacts DEF TailCall
  <2>2. Prologue(Below, Epilogue(depth, Top.fn), g) /\ outcome' = "running"
    BY <1>3 DEF TailCall, Executing
  <2>3. QED  BY <2>1, <2>2, PrologueKeepsInv
<1>4. CASE UNCHANGED vars
  BY <1>4 DEF vars, Inv, TypeOK, StackOK, EntryOK, CounterFits, WatermarksCover,
              WithinBudget, Top
<1>5. QED
  BY <1>1, <1>2, <1>3, <1>4, ReturnKeepsInv, LeaveKeepsInv, TrapKeepsInv,
     FinishKeepsInv, CatchKeepsInv, PassKeepsInv, DiscardKeepsInv, ArmKeepsInv,
     ThrowKeepsInv DEF Next, Unwind

(* The four invariants hold of every behaviour.                            *)
THEOREM BudgetInvariant == Spec => []Inv
BY InitInv, NextKeepsInv, PTL DEF Spec

(* The counter never wraps and the stack stays well formed.                *)
THEOREM BudgetTypeCorrect == Spec => []TypeOK
<1>1. Inv => TypeOK
  BY DEF Inv
<1>2. QED  BY <1>1, BudgetInvariant, PTL

(* Whatever emitted the functions, the counter covers the stack the code   *)
(* runs on: a missing epilogue can only make the check throw early.        *)
THEOREM CounterCoversStack == Spec => []CounterCovers
<1>1. Inv => CounterCovers
  BY DEF Inv, CounterFits, Fits, CounterCovers
<1>2. QED  BY <1>1, BudgetInvariant, PTL

(* No lowered code runs above the budget.                                  *)
THEOREM BudgetRespected == Spec => []WithinBudget
<1>1. Inv => WithinBudget
  BY DEF Inv
<1>2. QED  BY <1>1, BudgetInvariant, PTL

(* Where the structured path emits every function, the counter is the      *)
(* height of the stack whenever compiled code runs: no call, tail call,    *)
(* return or caught exception makes it drift.                              *)
THEOREM CounterCorrect == ASSUME Reducible PROVE Spec => []CounterIsHeight
<1>1. Inv => CounterIsHeight
  BY DEF Inv, CounterFits, Fits, CounterIsHeight
<1>2. QED  BY <1>1, BudgetInvariant, PTL

(* ... and so are the watermarks of all armed regions.                     *)
THEOREM WatermarksCorrect == ASSUME Reducible PROVE Spec => []WatermarksFit
<1>1. Inv => WatermarksFit
  BY DEF Inv, WatermarksCover, Fits, WatermarksFit
<1>2. QED  BY <1>1, BudgetInvariant, PTL

-----------------------------------------------------------------------------
(* The refinement of StackContract *)

VisibleFrame == [fn : Functions \cup {Entry}, armed : Seq(Regions),
                 held : SUBSET Exceptions, height : Nat]

(* What the contract sees of a stack.                                      *)
LEMMA ViewFacts ==
  ASSUME NEW stack \in Seq(Frame)
  PROVE  /\ View(stack) \in Seq(VisibleFrame)
         /\ Len(View(stack)) = Len(stack) /\ Len(stack) \in Nat
         /\ \A n \in 1..Len(stack) :
              /\ View(stack)[n] = Visible(stack[n])
              /\ Visible(stack[n]) \in VisibleFrame
              /\ Visible(stack[n]).fn = stack[n].fn
              /\ Visible(stack[n]).armed = stack[n].armed
              /\ Visible(stack[n]).held = stack[n].held
              /\ Visible(stack[n]).height = stack[n].height
<1>1. \A n \in 1..Len(stack) :
        /\ Visible(stack[n]) \in VisibleFrame
        /\ Visible(stack[n]).fn = stack[n].fn
        /\ Visible(stack[n]).armed = stack[n].armed
        /\ Visible(stack[n]).held = stack[n].held
        /\ Visible(stack[n]).height = stack[n].height
  BY FrameFields DEF Visible, VisibleFrame
<1>2. Len(stack) \in Nat
  OBVIOUS
<1>3. View(stack) \in Seq(VisibleFrame) /\ Len(View(stack)) = Len(stack)
  BY <1>1, <1>2 DEF View
<1>4. QED  BY <1>1, <1>2, <1>3 DEF View

(* Frames a contract state has.                                            *)
LEMMA VisibleFields ==
  ASSUME NEW c \in Seq(VisibleFrame), NEW n \in 1..Len(c)
  PROVE  /\ c[n] \in VisibleFrame /\ c[n].armed \in Seq(Regions)
         /\ Len(c[n].armed) \in Nat /\ Len(c) \in Nat
<1>1. c[n] \in VisibleFrame
  OBVIOUS
<1>2. QED  BY <1>1 DEF VisibleFrame

-----------------------------------------------------------------------------
(* Where an exception lands.                                               *)

(* The innermost catching region is unique.                                *)
LEMMA InnermostUnique ==
  ASSUME NEW c \in Seq(VisibleFrame), NEW e, NEW n, NEW k, NEW m, NEW j,
         Innermost(c, n, k, e), Innermost(c, m, j, e)
  PROVE  n = m /\ k = j
<1>1. /\ n \in 1..Len(c) /\ k \in 1..Len(c[n].armed)
      /\ m \in 1..Len(c) /\ j \in 1..Len(c[m].armed)
      /\ Catches(c, n, k, e) /\ Catches(c, m, j, e)
  BY DEF Innermost, Catches
<1>2. n \in Nat /\ m \in Nat /\ k \in Nat /\ j \in Nat
  BY <1>1, VisibleFields
<1>3. m < n \/ (m = n /\ j <= k)
  BY <1>1 DEF Innermost
<1>4. n < m \/ (n = m /\ k <= j)
  BY <1>1 DEF Innermost
<1>5. QED  BY <1>2, <1>3, <1>4

(* There is one as soon as some region catches.                            *)
LEMMA InnermostExists ==
  ASSUME NEW c \in Seq(VisibleFrame), NEW e, NEW n0, NEW k0, Catches(c, n0, k0, e)
  PROVE  \E n \in 1..Len(c) : \E k \in 1..Len(c[n].armed) : Innermost(c, n, k, e)
<1> DEFINE Stops == {n \in 1..Len(c) : \E k \in 1..Len(c[n].armed) : Catches(c, n, k, e)}
<1>1. Stops # {} /\ Stops \in SUBSET (1..Len(c)) /\ Len(c) \in Nat
  BY DEF Catches
<1>2. PICK n \in Stops : \A m \in Stops : m <= n
  <2> HIDE DEF Stops
  <2> QED  BY <1>1, GreatestExists
<1>3. n \in 1..Len(c) /\ Len(c[n].armed) \in Nat
  BY <1>2, VisibleFields
<1> DEFINE Inside == {k \in 1..Len(c[n].armed) : Catches(c, n, k, e)}
<1>4. Inside # {} /\ Inside \in SUBSET (1..Len(c[n].armed))
  BY <1>2
<1>5. PICK k \in Inside : \A j \in Inside : j <= k
  <2> HIDE DEF Inside
  <2> QED  BY <1>3, <1>4, GreatestExists
<1>6. ASSUME NEW m \in 1..Len(c), NEW j \in 1..Len(c[m].armed), Catches(c, m, j, e)
      PROVE  m < n \/ (m = n /\ j <= k)
  <2>1. m <= n
    BY <1>2, <1>6
  <2>2. m = n => j <= k
    BY <1>5, <1>6
  <2>3. QED  BY <1>1, <1>3, <2>1, <2>2
<1>7. Innermost(c, n, k, e)
  BY <1>5, <1>6 DEF Innermost
<1>8. QED  BY <1>3, <1>5, <1>7

(* The destination of an exception is its innermost catching region.       *)
LEMMA DestinationIsInnermost ==
  ASSUME NEW c \in Seq(VisibleFrame), NEW e, NEW n, NEW k, Innermost(c, n, k, e)
  PROVE  Destination(c, e) = Land(c, n, k, e)
<1> DEFINE Reached(m) == \E j \in 1..Len(c[m].armed) : Innermost(c, m, j, e)
           n0 == CHOOSE m \in 1..Len(c) : Reached(m)
           k0 == CHOOSE j \in 1..Len(c[n0].armed) : Innermost(c, n0, j, e)
<1>1. n \in 1..Len(c) /\ k \in 1..Len(c[n].armed)
  BY DEF Innermost, Catches
<1>2. Reached(n)
  BY <1>1
<1>3. n0 \in 1..Len(c) /\ Reached(n0)
  <2> HIDE DEF Reached
  <2> QED  BY <1>1, <1>2
<1> HIDE DEF n0
<1>4. k0 \in 1..Len(c[n0].armed) /\ Innermost(c, n0, k0, e)
  BY <1>3
<1> HIDE DEF k0
<1>5. n0 = n /\ k0 = k
  BY <1>4, InnermostUnique
<1>6. Destination(c, e) = Land(c, n0, k0, e)
  BY <1>1, <1>2 DEF Destination, n0, k0
<1>7. QED  BY <1>5, <1>6

(* Two stacks with the same catching regions and the same landings send an *)
(* exception to the same place.                                            *)
LEMMA SameDestination ==
  ASSUME NEW c \in Seq(VisibleFrame), NEW d \in Seq(VisibleFrame), NEW e,
         Catches(d, 1, 1, e),
         \A m, j : Catches(c, m, j, e) <=> Catches(d, m, j, e),
         \A m, j : Catches(d, m, j, e) => Land(c, m, j, e) = Land(d, m, j, e)
  PROVE  Destination(c, e) = Destination(d, e)
<1>1. PICK n, k : Innermost(d, n, k, e)
  BY InnermostExists
<1>2. Catches(d, n, k, e)
  BY <1>1 DEF Innermost
<1>3. ASSUME NEW m \in 1..Len(c), NEW j \in 1..Len(c[m].armed), Catches(c, m, j, e)
      PROVE  m < n \/ (m = n /\ j <= k)
  <2>1. Catches(d, m, j, e)
    BY <1>3
  <2>2. m \in 1..Len(d) /\ j \in 1..Len(d[m].armed)
    BY <2>1 DEF Catches
  <2>3. QED  BY <1>1, <2>1, <2>2 DEF Innermost
<1>4. Innermost(c, n, k, e)
  BY <1>2, <1>3 DEF Innermost
<1>5. QED  BY <1>1, <1>2, <1>4, DestinationIsInnermost

(* Landing depends only on the frames below, and on the landing frame      *)
(* without its inner regions.                                              *)
LEMMA SameLand ==
  ASSUME NEW c \in Seq(VisibleFrame), NEW d \in Seq(VisibleFrame), NEW e,
         NEW m \in 1..Len(d), m <= Len(c), NEW j \in 1..Len(d[m].armed),
         j <= Len(c[m].armed),
         \A i \in 1..(m - 1) : c[i] = d[i],
         c[m].fn = d[m].fn, c[m].held = d[m].held, c[m].height = d[m].height,
         \A i \in 1..j : c[m].armed[i] = d[m].armed[i]
  PROVE  Land(c, m, j, e) = Land(d, m, j, e)
<1>1. m \in 1..Len(c) /\ Len(c) \in Nat /\ Len(d) \in Nat /\ m - 1 \in Nat
  BY VisibleFields
<1>2. SubSeq(c, 1, m - 1) = SubSeq(d, 1, m - 1)
  BY <1>1, SamePrefix
<1>3. /\ c[m] \in VisibleFrame /\ d[m] \in VisibleFrame
      /\ c[m].armed \in Seq(Regions) /\ d[m].armed \in Seq(Regions)
      /\ Len(c[m].armed) \in Nat /\ Len(d[m].armed) \in Nat
  BY <1>1, VisibleFields
<1>4. SubSeq(c[m].armed, 1, j - 1) = SubSeq(d[m].armed, 1, j - 1)
  <2>1. j - 1 \in Nat /\ j - 1 <= Len(c[m].armed) /\ j - 1 <= Len(d[m].armed)
    BY <1>3
  <2>2. \A i \in 1..(j - 1) : c[m].armed[i] = d[m].armed[i]
    BY <1>3
  <2>3. QED  BY <1>3, <2>1, <2>2, SamePrefix
<1>5. Delivered(c[m].fn, c[m].armed[j], e) = Delivered(d[m].fn, d[m].armed[j], e)
  BY <1>3
<1> DEFINE Landed(r) == [r EXCEPT
              !.armed = SubSeq(@, 1, j - 1),
              !.held = @ \cup Delivered(r.fn, r.armed[j], e)]
<1>6. Landed(c[m]) = Landed(d[m])
  BY <1>3, <1>4, <1>5 DEF VisibleFrame
<1>7. Land(c, m, j, e) = Append(SubSeq(c, 1, m - 1), Landed(c[m]))
      /\ Land(d, m, j, e) = Append(SubSeq(d, 1, m - 1), Landed(d[m]))
  BY DEF Land
<1> HIDE DEF Landed
<1>8. QED  BY <1>2, <1>6, <1>7

(* A frame with no armed region on top does not change a destination.      *)
LEMMA BareTop ==
  ASSUME NEW c \in Seq(VisibleFrame), NEW d \in Seq(VisibleFrame), NEW e,
         Len(c) = Len(d) + 1, \A i \in 1..Len(d) : c[i] = d[i],
         c[Len(c)].armed = <<>>, Catches(d, 1, 1, e)
  PROVE  Destination(c, e) = Destination(d, e)
<1>1. Len(c) \in Nat /\ Len(d) \in Nat
  OBVIOUS
<1>2. ASSUME NEW m, NEW j  PROVE Catches(c, m, j, e) <=> Catches(d, m, j, e)
  <2>1. CASE m \in 1..Len(d)
    BY <1>1, <2>1 DEF Catches
  <2>2. CASE m = Len(c)
    BY <1>1, <2>2 DEF Catches
  <2>3. CASE m \notin 1..Len(c)
    BY <1>1, <2>3 DEF Catches
  <2>4. QED  BY <1>1, <2>1, <2>2, <2>3
<1>3. ASSUME NEW m, NEW j, Catches(d, m, j, e)  PROVE Land(c, m, j, e) = Land(d, m, j, e)
  <2>1. m \in 1..Len(d) /\ j \in 1..Len(d[m].armed)
    BY <1>3 DEF Catches
  <2>2. c[m] = d[m] /\ m <= Len(c) /\ \A i \in 1..(m - 1) : c[i] = d[i]
    BY <1>1, <2>1
  <2>3. j <= Len(c[m].armed)
    BY <2>1, <2>2, VisibleFields
  <2>4. QED  BY <2>1, <2>2, <2>3, SameLand
<1>4. QED  BY <1>2, <1>3, SameDestination

(* Nor does a last region on top that does not catch the exception.        *)
LEMMA PassedRegion ==
  ASSUME NEW c \in Seq(VisibleFrame), NEW d \in Seq(VisibleFrame), NEW e,
         Len(c) = Len(d), Len(d) > 0, \A i \in 1..(Len(d) - 1) : c[i] = d[i],
         c[Len(d)].fn = d[Len(d)].fn, c[Len(d)].held = d[Len(d)].held,
         c[Len(d)].height = d[Len(d)].height,
         Len(c[Len(d)].armed) = Len(d[Len(d)].armed) + 1,
         \A k \in 1..Len(d[Len(d)].armed) : c[Len(d)].armed[k] = d[Len(d)].armed[k],
         ~matches(c[Len(d)].fn, c[Len(d)].armed[Len(c[Len(d)].armed)], e),
         Catches(d, 1, 1, e)
  PROVE  Destination(c, e) = Destination(d, e)
<1>1. Len(d) \in Nat /\ Len(d) \in 1..Len(d) /\ Len(d) \in 1..Len(c)
  OBVIOUS
<1>2. Len(c[Len(d)].armed) \in Nat /\ Len(d[Len(d)].armed) \in Nat
  BY <1>1, VisibleFields
<1>3. ASSUME NEW m, NEW j  PROVE Catches(c, m, j, e) <=> Catches(d, m, j, e)
  <2>1. CASE m \in 1..(Len(d) - 1)
    BY <1>1, <2>1 DEF Catches
  <2>2. CASE m = Len(d)
    <3>1. CASE j \in 1..Len(d[Len(d)].armed)
      BY <1>1, <1>2, <2>2, <3>1 DEF Catches
    <3>2. CASE j = Len(c[Len(d)].armed)
      BY <1>1, <1>2, <2>2, <3>2 DEF Catches
    <3>3. CASE j \notin 1..Len(c[Len(d)].armed)
      BY <1>1, <1>2, <2>2, <3>3 DEF Catches
    <3>4. QED  BY <1>2, <3>1, <3>2, <3>3
  <2>3. CASE m \notin 1..Len(d)
    BY <2>3 DEF Catches
  <2>4. QED  BY <1>1, <2>1, <2>2, <2>3
<1>4. ASSUME NEW m, NEW j, Catches(d, m, j, e)  PROVE Land(c, m, j, e) = Land(d, m, j, e)
  <2>1. m \in 1..Len(d) /\ j \in 1..Len(d[m].armed)
    BY <1>4 DEF Catches
  <2>2. m <= Len(c) /\ \A i \in 1..(m - 1) : c[i] = d[i]
    BY <1>1, <2>1
  <2>3. /\ c[m].fn = d[m].fn /\ c[m].held = d[m].held /\ c[m].height = d[m].height
        /\ j <= Len(c[m].armed) /\ \A i \in 1..j : c[m].armed[i] = d[m].armed[i]
    <3>1. CASE m = Len(d)
      BY <1>1, <1>2, <2>1, <3>1
    <3>2. CASE m # Len(d)
      <4>1. c[m] = d[m]
        BY <1>1, <2>1, <3>2
      <4>2. QED  BY <2>1, <4>1, VisibleFields
    <3>3. QED  BY <3>1, <3>2
  <2>4. QED  BY <2>1, <2>2, <2>3, SameLand
<1>5. QED  BY <1>3, <1>4, SameDestination

-----------------------------------------------------------------------------
(* The contract's operators are those of the program.                      *)
LEMMA SameProgram ==
  /\ Contract!EntryRegion = EntryRegion
  /\ \A f : Contract!Weight(f) = Weight(f)
  /\ \A c, n, k, e : Contract!Innermost(c, n, k, e) <=> Innermost(c, n, k, e)
  /\ \A c, n, k, e : Contract!Land(c, n, k, e) = Land(c, n, k, e)
  /\ Contract!Exceptions = Exceptions
<1>1. \A f, t : Contract!ClausesOf(f, t) = ClausesOf(f, t)
  BY DEF Contract!ClausesOf, ClausesOf
<1>2. \A f, t, e : Contract!matches(f, t, e) <=> matches(f, t, e)
  BY <1>1 DEF Contract!matches, matches
<1>3. \A f, t, e : Contract!Delivered(f, t, e) = Delivered(f, t, e)
  BY <1>1 DEF Contract!Delivered, Delivered
<1>4. \A c, n, k, e : Contract!Catches(c, n, k, e) <=> Catches(c, n, k, e)
  BY <1>2 DEF Contract!Catches, Catches
<1>5. \A c, n, k, e : Contract!Innermost(c, n, k, e) <=> Innermost(c, n, k, e)
  BY <1>4 DEF Contract!Innermost, Innermost
<1>6. \A c, n, k, e : Contract!Land(c, n, k, e) = Land(c, n, k, e)
  BY <1>3 DEF Contract!Land, Land
<1>7. \A f : Contract!Weight(f) = Weight(f)
  BY DEF Contract!Weight, Weight, Contract!frame_weight, frame_weight
<1>8. QED
  BY <1>5, <1>6, <1>7 DEF Contract!EntryRegion, EntryRegion, Contract!Exceptions, Exceptions

-----------------------------------------------------------------------------
(* Steps.                                                                  *)

(* The entry guards every sound stack, and every stack being unwound.      *)
LEMMA EntryCatches ==
  ASSUME NEW stack \in Seq(Frame), Len(stack) > 0, stack[1].fn = Entry,
         stack[1].armed = <<EntryRegion>>, NEW e
  PROVE  Catches(View(stack), 1, 1, e)
<1>1. 1 \in 1..Len(stack)
  OBVIOUS
<1>2. /\ View(stack)[1].fn = Entry /\ View(stack)[1].armed = <<EntryRegion>>
      /\ Len(View(stack)) = Len(stack)
  BY <1>1, ViewFacts
<1>3. QED  BY <1>1, <1>2, EntryMatches DEF Catches

(* Throwing from a stack is the contract's Raise.                          *)
LEMMA RaiseStep ==
  ASSUME NEW c \in Seq(VisibleFrame), NEW e, Catches(c, 1, 1, e),
         Settled' = Destination(c, e)
  PROVE  Contract!Raise(c, e)
<1>0. PICK n \in 1..Len(c) : \E k \in 1..Len(c[n].armed) : Innermost(c, n, k, e)
  BY InnermostExists
<1>1. PICK k \in 1..Len(c[n].armed) : Innermost(c, n, k, e)
  BY <1>0
<1>2. Settled' = Land(c, n, k, e)
  BY <1>1, DestinationIsInnermost
<1>3. Contract!Innermost(c, n, k, e) /\ Settled' = Contract!Land(c, n, k, e)
  BY <1>1, <1>2, SameProgram
<1>4. QED  BY <1>3 DEF Contract!Raise

(* A prologue is the contract's Invoke.                                    *)
LEMMA PrologueStep ==
  ASSUME NEW stack, NEW counter, NEW g \in Functions, Sound(stack),
         counter = stack[Len(stack)].height, Prologue(stack, counter, g)
  PROVE  Contract!Invoke(View(stack), g)
<1> DEFINE new == NewFrame(stack, g)
           height == counter + Weight(g)
<1>1. /\ flight' = IF height > StackBudget THEN Exhaustion ELSE NoException
      /\ new \in Frame /\ new.height = height
      /\ frames' \in Seq(Frame) /\ Len(frames') = Len(stack) + 1
      /\ frames'[Len(frames')] = new
      /\ \A n \in 1..Len(stack) : frames'[n] = stack[n]
  <2>1. stack \in Seq(Frame) /\ Len(stack) \in 1..Len(stack)
    BY DEF Sound
  <2>2. counter \in Nat /\ counter <= StackBudget
    BY <2>1, FrameFields DEF Sound
  <2>3. Fits(counter, stack[Len(stack)].height)
    BY <2>2 DEF Fits
  <2>4. QED  BY <2>3, PrologueFacts
<1>2. new.fn = g /\ new.armed = <<>> /\ new.held = {}
  BY DEF NewFrame
<1> HIDE DEF new
<1>3. /\ stack \in Seq(Frame) /\ Len(stack) \in Nat /\ Len(stack) \in 1..Len(stack)
      /\ stack[1].fn = Entry /\ stack[1].armed = <<EntryRegion>> /\ Len(stack) > 0
  BY DEF Sound
<1>4. /\ View(stack) \in Seq(VisibleFrame) /\ Len(View(stack)) = Len(stack)
      /\ \A n \in 1..Len(stack) : View(stack)[n] = Visible(stack[n])
      /\ View(stack)[Len(View(stack))].height = counter
  BY <1>3, ViewFacts
<1>5. /\ View(frames') \in Seq(VisibleFrame) /\ Len(View(frames')) = Len(stack) + 1
      /\ View(frames')[Len(stack) + 1] = Visible(new)
      /\ Visible(new) \in VisibleFrame /\ Visible(new).armed = <<>>
      /\ \A n \in 1..Len(stack) : View(frames')[n] = Visible(stack[n])
  <2>1. \A n \in 1..Len(frames') : View(frames')[n] = Visible(frames'[n])
    BY <1>1, ViewFacts
  <2>2. Len(stack) + 1 \in 1..Len(frames') /\ \A n \in 1..Len(stack) : n \in 1..Len(frames')
    BY <1>1, <1>3
  <2>3. View(frames')[Len(stack) + 1] = Visible(new)
    BY <1>1, <2>1, <2>2
  <2>4. Visible(new) \in VisibleFrame /\ Visible(new).armed = <<>>
    BY <1>1, <1>2, <2>2, ViewFacts
  <2>5. View(frames') \in Seq(VisibleFrame) /\ Len(View(frames')) = Len(stack) + 1
    BY <1>1, ViewFacts
  <2>6. QED  BY <1>1, <2>1, <2>2, <2>3, <2>4, <2>5
<1>6. CASE height > StackBudget
  <2>1. Catches(View(stack), 1, 1, Exhaustion)
    BY <1>3, EntryCatches
  <2>2. Destination(View(frames'), Exhaustion) = Destination(View(stack), Exhaustion)
    BY <1>3, <1>4, <1>5, <2>1, BareTop
  <2>3. Settled' = Destination(View(frames'), Exhaustion)
    BY <1>1, <1>6, ProgramAssumption DEF Settled, Exceptions
  <2>4. Contract!Raise(View(stack), Exhaustion)
    BY <1>4, <2>1, <2>2, <2>3, RaiseStep
  <2>5. QED  BY <1>4, <1>6, <2>4, SameProgram DEF Contract!Invoke
<1>7. CASE ~(height > StackBudget)
  <2>1. Settled' = View(frames')
    BY <1>1, <1>7 DEF Settled
  <2>2. Visible(new) = [fn |-> g, armed |-> <<>>, held |-> {}, height |-> height]
    BY <1>1, <1>2 DEF Visible
  <2>3. View(frames') = Append(View(stack), Visible(new))
    <3>1. /\ Append(View(stack), Visible(new)) \in Seq(VisibleFrame)
          /\ Len(Append(View(stack), Visible(new))) = Len(stack) + 1
          /\ Append(View(stack), Visible(new))[Len(stack) + 1] = Visible(new)
          /\ \A n \in 1..Len(stack) : Append(View(stack), Visible(new))[n] = Visible(stack[n])
      BY <1>3, <1>4, <1>5
    <3>2. \A n \in 1..Len(View(frames')) :
            View(frames')[n] = Append(View(stack), Visible(new))[n]
      BY <1>3, <1>5, <3>1
    <3>3. QED  BY <1>5, <3>1, <3>2, SequencesEqual
  <2>4. QED  BY <1>4, <1>7, <2>1, <2>2, <2>3, SameProgram DEF Contract!Invoke
<1>8. QED  BY <1>6, <1>7

(* While lowered code runs, the contract's state is the stack as it is.    *)
LEMMA ExecutingView ==
  ASSUME Inv, Executing
  PROVE  /\ Settled = View(frames) /\ Contract!Executing
         /\ Contract!Top = Visible(Top)
         /\ Contract!Top.fn = Top.fn /\ Contract!Top.armed = Top.armed
         /\ Contract!Top.held = Top.held
         /\ Contract!Below = View(Below)
<1>1. /\ Len(frames) \in Nat /\ Len(frames) > 1 /\ Sound(frames)
      /\ Len(Below) = Len(frames) - 1
      /\ \A n \in 1..Len(Below) : Below[n] = frames[n]
      /\ frames \in Seq(Frame) /\ Below \in Seq(Frame)
  BY ExecutingFacts DEF Sound
<1>2. Settled = View(frames)
  BY DEF Settled, Executing
<1>3. Len(frames) \in 1..Len(frames)
  BY <1>1
<1>4. /\ View(frames) \in Seq(VisibleFrame) /\ Len(View(frames)) = Len(frames)
      /\ \A n \in 1..Len(frames) : View(frames)[n] = Visible(frames[n])
  BY <1>1, ViewFacts
<1>5. Contract!Top = Visible(Top)
  BY <1>2, <1>3, <1>4 DEF Contract!Top, Top
<1>6. Visible(Top).fn = Top.fn /\ Visible(Top).armed = Top.armed /\ Visible(Top).held = Top.held
  BY DEF Visible
<1>7. Contract!Executing
  BY <1>5, <1>6 DEF Contract!Executing, Executing
<1>8. Contract!Below = View(Below)
  <2>1. /\ View(Below) \in Seq(VisibleFrame) /\ Len(View(Below)) = Len(frames) - 1
        /\ \A n \in 1..Len(Below) : View(Below)[n] = Visible(Below[n])
    BY <1>1, ViewFacts
  <2>2. /\ SubSeq(View(frames), 1, Len(frames) - 1) \in Seq(VisibleFrame)
        /\ Len(SubSeq(View(frames), 1, Len(frames) - 1)) = Len(frames) - 1
        /\ \A n \in 1..(Len(frames) - 1) :
             SubSeq(View(frames), 1, Len(frames) - 1)[n] = View(frames)[n]
    BY <1>1, <1>4, PrefixFacts
  <2>3. SubSeq(View(frames), 1, Len(frames) - 1) = View(Below)
    BY <1>1, <1>4, <2>1, <2>2, SequencesEqual
  <2>4. QED  BY <1>2, <1>4, <2>3 DEF Contract!Below
<1>9. QED  BY <1>2, <1>5, <1>6, <1>7, <1>8

(* Replacing the top frame, as the contract sees it.                       *)
LEMMA SetTopView ==
  ASSUME frames \in Seq(Frame), Len(frames) > 0, NEW frame \in Frame, SetTop(frame)
  PROVE  /\ frames' \in Seq(Frame)
         /\ View(frames') = [View(frames) EXCEPT ![Len(frames)] = Visible(frame)]
<1>1. /\ frames' \in Seq(Frame) /\ Len(frames') = Len(frames) /\ frames'[Len(frames)] = frame
      /\ \A n \in 1..Len(frames) : n # Len(frames) => frames'[n] = frames[n]
  BY SetTopFacts DEF SetTop
<1>2. /\ View(frames) \in Seq(VisibleFrame) /\ Len(View(frames)) = Len(frames)
      /\ \A n \in 1..Len(frames) : View(frames)[n] = Visible(frames[n])
      /\ Len(frames) \in 1..Len(frames)
  BY ViewFacts
<1>3. /\ View(frames') \in Seq(VisibleFrame) /\ Len(View(frames')) = Len(frames)
      /\ \A n \in 1..Len(frames) : /\ View(frames')[n] = Visible(frames'[n])
                                   /\ Visible(frames'[n]) \in VisibleFrame
  BY <1>1, ViewFacts
<1>4. Visible(frame) \in VisibleFrame
  BY <1>1, <1>2, <1>3
<1> DEFINE t == [View(frames) EXCEPT ![Len(View(frames))] = Visible(frame)]
<1>5. /\ t \in Seq(VisibleFrame) /\ Len(t) = Len(frames) /\ t[Len(frames)] = Visible(frame)
      /\ \A n \in 1..Len(frames) : n # Len(frames) => t[n] = View(frames)[n]
  BY <1>2, <1>4, SetTopFacts
<1> HIDE DEF t
<1>6. \A n \in 1..Len(frames) : View(frames')[n] = t[n]
  BY <1>1, <1>2, <1>3, <1>5
<1>7. View(frames') = t
  BY <1>3, <1>5, <1>6, SequencesEqual
<1>8. QED  BY <1>1, <1>2, <1>7 DEF t

(* The steps of running code are steps of the contract.                    *)
LEMMA StartStep == ASSUME Reducible, Inv, Start PROVE Contract!Start
<1> DEFINE entry == [fn |-> Entry, armed |-> <<EntryRegion>>, held |-> {},
                     watermark |-> [t \in Regions |-> depth], height |-> 0]
           stack == <<entry>>
<1>1. Sound(stack) /\ depth = stack[Len(stack)].height
  BY StartSound DEF Fits
<1>2. Prologue(stack, depth, Main) /\ Main \in Functions
  BY ProgramAssumption DEF Start
<1>3. View(stack) = <<[fn |-> Entry, armed |-> <<EntryRegion>>, held |-> {},
                       height |-> 0]>>
  <2> DEFINE seen == [fn |-> Entry, armed |-> <<EntryRegion>>, held |-> {}, height |-> 0]
  <2>1. Visible(entry) = seen
    BY DEF Visible
  <2>2. stack \in Seq(Frame) /\ Len(stack) = 1 /\ stack[1] = entry
    BY <1>1 DEF Sound
  <2> HIDE DEF entry, stack, seen
  <2>3. /\ View(stack) \in Seq(VisibleFrame) /\ Len(View(stack)) = 1
        /\ View(stack)[1] = seen /\ seen \in VisibleFrame
    BY <2>1, <2>2, ViewFacts
  <2>4. /\ <<seen>> \in Seq(VisibleFrame) /\ Len(<<seen>>) = 1 /\ <<seen>>[1] = seen
    BY <2>3
  <2>5. View(stack) = <<seen>>
    BY <2>3, <2>4, SequencesEqual
  <2>6. QED  BY <2>5 DEF seen
<1>4. Contract!Invoke(View(stack), Main)
  <2> HIDE DEF stack
  <2> QED  BY <1>1, <1>2, PrologueStep
<1> HIDE DEF stack
<1>5. QED  BY <1>3, <1>4, SameProgram DEF Contract!Start, Start

(* Calls push the frame the contract pushes, or raise.                     *)
LEMMA CallStep ==
  ASSUME Reducible, Inv, NEW g \in Functions, Call(g) PROVE Contract!Call(g)
<1>1. Sound(frames) /\ depth = frames[Len(frames)].height
  BY ExecutingFacts DEF Call, Top, Fits
<1>2. Contract!Invoke(View(frames), g)
  BY <1>1, PrologueStep DEF Call
<1>3. QED  BY <1>2, ExecutingView DEF Call, Contract!Call

(* A tail call gives its own frame back first.                             *)
LEMMA TailCallStep ==
  ASSUME Reducible, Inv, NEW g \in Functions, TailCall(g) PROVE Contract!TailCall(g)
<1>1. Sound(Below) /\ Epilogue(depth, Top.fn) = Below[Len(Below)].height
  BY ExecutingFacts DEF TailCall, Fits
<1>2. Contract!Invoke(View(Below), g)
  BY <1>1, PrologueStep DEF TailCall
<1>3. QED  BY <1>2, ExecutingView DEF TailCall, Contract!TailCall

(* A return uncovers the caller.                                           *)
LEMMA ReturnStep == ASSUME Inv, Return PROVE Contract!Return
<1>1. Settled' = View(Below)
  BY DEF Return, Executing, Settled
<1>2. QED  BY <1>1, ExecutingView DEF Return, Contract!Return

(* Updating the armed regions of a visible frame.                          *)
LEMMA VisibleArmed ==
  ASSUME NEW frame, NEW other, NEW regions,
         frame.fn = other.fn, frame.held = other.held, frame.height = other.height,
         frame.armed = regions
  PROVE  Visible(frame) = [Visible(other) EXCEPT !.armed = regions]
BY DEF Visible

(* Arming and leaving a region change the top frame's regions only.        *)
LEMMA ArmStep ==
  ASSUME Inv, NEW f \in Functions, NEW t \in Tries[f], Arm(t)
  PROVE  Contract!Arm(t)
<1> DEFINE frame == [Top EXCEPT !.watermark[t] = depth, !.armed = Append(@, t)]
<1>1. /\ Len(frames) \in Nat /\ Len(frames) > 1 /\ frames \in Seq(Frame)
      /\ Top \in Frame /\ depth \in Int
  BY ExecutingFacts, WeightFacts DEF Arm, Inv, TypeOK
<1>2. /\ SetTop(frame) /\ flight' = NoException
  BY DEF Arm, Executing
<1>3. frame \in Frame
  <2>1. t \in Regions /\ Top.armed \in Seq(Regions) /\ Top.watermark \in [Regions -> Int]
    BY <1>1 DEF Regions, Frame
  <2>2. Append(Top.armed, t) \in Seq(Regions)
    BY <2>1
  <2>3. [Top.watermark EXCEPT ![t] = depth] \in [Regions -> Int]
    BY <1>1, <2>1
  <2>4. QED  BY <1>1, <2>2, <2>3 DEF Frame
<1>4. Visible(frame) = [Visible(Top) EXCEPT !.armed = Append(@, t)]
  <2>1. /\ frame.fn = Top.fn /\ frame.armed = Append(Top.armed, t)
        /\ frame.held = Top.held /\ frame.height = Top.height
    BY <1>1 DEF Frame
  <2>2. Visible(frame) = [Visible(Top) EXCEPT !.armed = Append(Top.armed, t)]
    <3> HIDE DEF frame
    <3> QED  BY <2>1, VisibleArmed
  <2>3. Visible(Top).armed = Top.armed
    BY DEF Visible
  <2> HIDE DEF frame
  <2>4. QED  BY <2>2, <2>3
<1> HIDE DEF frame
<1>5. View(frames') = [View(frames) EXCEPT ![Len(frames)] = Visible(frame)]
  BY <1>1, <1>2, <1>3, SetTopView
<1>6. /\ View(frames)[Len(frames)] = Visible(Top) /\ Len(View(frames)) = Len(frames)
  <2>1. Len(frames) \in 1..Len(frames)
    BY <1>1
  <2>2. QED  BY <1>1, <2>1, ViewFacts DEF Top
<1>7. Settled' = [Settled EXCEPT ![Len(Settled)].armed = Append(@, t)]
  <2>1. Settled' = View(frames') /\ Settled = View(frames)
    BY <1>2, ExecutingView DEF Settled, Arm
  <2>2. QED  BY <1>4, <1>5, <1>6, <2>1
<1>8. QED  BY <1>7, ExecutingView DEF Arm, Contract!Arm, LastRegion

(* Leaving a region.                                                       *)
LEMMA LeaveStep == ASSUME Inv, Leave PROVE Contract!Leave
<1> DEFINE rest == SubSeq(Top.armed, 1, Len(Top.armed) - 1)
           frame == [Top EXCEPT !.armed = SubSeq(@, 1, Len(@) - 1), !.held = Top.held]
<1>1. /\ Len(frames) \in Nat /\ Len(frames) > 1 /\ frames \in Seq(Frame) /\ Top \in Frame
  BY ExecutingFacts DEF Leave, Inv, TypeOK
<1>2. flight' = NoException /\ frames # <<>> /\ Top.armed # <<>>
  BY DEF Leave, Executing
<1>3. Top.held \in SUBSET Exceptions
  BY <1>1 DEF Frame
<1>4. SetTop(frame)
  <2>1. frame = [Top EXCEPT !.armed = SubSeq(@, 1, Len(@) - 1)]
    BY <1>1 DEF Frame
  <2>2. QED  BY <2>1 DEF Leave
<1>5. /\ frame \in Frame /\ frame.fn = Top.fn /\ frame.height = Top.height
      /\ frame.held = Top.held /\ frame.armed = rest
  BY <1>2, <1>3, DisarmedFrame
<1> HIDE DEF frame
<1>6. Visible(frame) = [Visible(Top) EXCEPT !.armed = rest]
  <2> HIDE DEF rest
  <2> QED  BY <1>5 DEF Visible
<1>7. View(frames') = [View(frames) EXCEPT ![Len(frames)] = Visible(frame)]
  BY <1>1, <1>4, <1>5, SetTopView
<1>8. View(frames)[Len(frames)] = Visible(Top) /\ Len(View(frames)) = Len(frames)
  <2>1. Len(frames) \in 1..Len(frames)
    BY <1>1
  <2>2. QED  BY <1>1, <2>1, ViewFacts DEF Top
<1>9. Visible(Top).armed = Top.armed
  BY DEF Visible
<1>10. Settled' = [Settled EXCEPT ![Len(Settled)].armed = SubSeq(@, 1, Len(@) - 1)]
  <2>1. Settled' = View(frames') /\ Settled = View(frames)
    BY <1>2, ExecutingView DEF Settled, Leave
  <2>2. SubSeq(View(frames)[Len(frames)].armed, 1,
               Len(View(frames)[Len(frames)].armed) - 1) = rest
    BY <1>8, <1>9
  <2> HIDE DEF rest
  <2>3. View(frames') = [View(frames) EXCEPT ![Len(frames)].armed = rest]
    BY <1>6, <1>7, <1>8
  <2>4. QED  BY <1>8, <2>1, <2>2, <2>3
<1>11. QED  BY <1>10, ExecutingView DEF Leave, Contract!Leave

(* A throw is a jump already when it is thrown.                            *)
LEMMA ThrowStep ==
  ASSUME Inv, NEW exception \in Exceptions, Throw(exception)
  PROVE  Contract!Throw(exception)
<1>1. /\ frames \in Seq(Frame) /\ Len(frames) > 0 /\ frames[1].fn = Entry
      /\ frames[1].armed = <<EntryRegion>>
  BY ExecutingFacts DEF Throw, Sound
<1>2. View(frames) \in Seq(VisibleFrame) /\ Catches(View(frames), 1, 1, exception)
  BY <1>1, ViewFacts, EntryCatches
<1>3. Settled' = Destination(View(frames), exception)
  <2>1. flight' = exception /\ exception # NoException /\ frames' = frames
    BY ProgramAssumption DEF Throw
  <2>2. QED  BY <2>1 DEF Settled
<1>4. Contract!Raise(View(frames), exception)
  BY <1>2, <1>3, RaiseStep
<1>5. QED  BY <1>4, ExecutingView DEF Throw, Contract!Throw

(* A trap.                                                                 *)
LEMMA TrapStep == ASSUME Inv, Trap PROVE Contract!Trap
<1>1. Settled' = <<>>
  BY DEF Trap, Executing, Settled, View
<1>2. QED  BY <1>1, ExecutingView DEF Trap, Contract!Trap

(* The end of a run.                                                       *)
LEMMA FinishStep == ASSUME Inv, Finish PROVE Contract!Finish
<1>1. frames \in Seq(Frame) /\ Len(frames) \in 1..Len(frames)
  BY DEF Finish, Inv, TypeOK
<1>2. Settled' = <<>> /\ Settled = View(frames)
  BY DEF Finish, Settled, View
<1>3. Contract!Top = Visible(Top)
  BY <1>1, <1>2, ViewFacts DEF Contract!Top, Top
<1>4. Visible(Top).fn = Top.fn /\ Visible(Top).armed = Top.armed
  BY DEF Visible
<1>5. QED  BY <1>2, <1>3, <1>4 DEF Finish, Contract!Finish

-----------------------------------------------------------------------------
(* Unwinding is invisible.                                                 *)

(* A discarded frame had no region armed.                                  *)
LEMMA DiscardStutters == ASSUME Inv, Discard PROVE Settled' = Settled
<1>1. /\ frames \in Seq(Frame) /\ Len(frames) \in Nat /\ Len(frames) > 0
      /\ frames[1].armed = <<EntryRegion>> /\ frames[1].fn = Entry
  BY UnwindingFacts DEF Discard
<1>2. flight' = flight /\ flight # NoException /\ frames' = Below /\ Top.armed = <<>>
  BY DEF Discard, Unwinding
<1>3. Len(frames) # 1
  BY <1>1, <1>2 DEF Top
<1>4. /\ Below \in Seq(Frame) /\ Len(Below) = Len(frames) - 1 /\ Len(Below) > 0
      /\ \A n \in 1..Len(Below) : Below[n] = frames[n]
  BY <1>1, <1>3, PopFacts DEF Below
<1>5. Len(frames) \in 1..Len(frames) /\ \A n \in 1..Len(Below) : n \in 1..Len(frames)
  BY <1>1, <1>4
<1>6. /\ View(frames) \in Seq(VisibleFrame) /\ View(Below) \in Seq(VisibleFrame)
      /\ Len(View(frames)) = Len(View(Below)) + 1
      /\ \A n \in 1..Len(View(Below)) : View(frames)[n] = View(Below)[n]
      /\ View(frames)[Len(View(frames))].armed = <<>>
  <2>1. /\ View(frames) \in Seq(VisibleFrame) /\ Len(View(frames)) = Len(frames)
        /\ \A n \in 1..Len(frames) : /\ View(frames)[n] = Visible(frames[n])
                                     /\ Visible(frames[n]).armed = frames[n].armed
    BY <1>1, ViewFacts
  <2>2. /\ View(Below) \in Seq(VisibleFrame) /\ Len(View(Below)) = Len(Below)
        /\ \A n \in 1..Len(Below) : View(Below)[n] = Visible(Below[n])
    BY <1>4, ViewFacts
  <2>3. Len(View(frames)) = Len(View(Below)) + 1
    BY <1>1, <1>4, <2>1, <2>2
  <2>4. \A n \in 1..Len(View(Below)) : View(frames)[n] = View(Below)[n]
    BY <1>4, <1>5, <2>1, <2>2
  <2>5. View(frames)[Len(View(frames))].armed = <<>>
    BY <1>2, <1>5, <2>1 DEF Top
  <2>6. QED  BY <2>1, <2>2, <2>3, <2>4, <2>5
<1>7. Catches(View(Below), 1, 1, flight)
  BY <1>1, <1>4, EntryCatches
<1>8. Destination(View(frames), flight) = Destination(View(Below), flight)
  BY <1>6, <1>7, BareTop
<1>9. QED  BY <1>2, <1>8 DEF Settled

(* A passed region does not catch the exception.                           *)
LEMMA PassStutters == ASSUME Inv, Pass PROVE Settled' = Settled
<1> DEFINE frame == [Top EXCEPT !.armed = SubSeq(@, 1, Len(@) - 1), !.held = Top.held]
<1>1. /\ frames \in Seq(Frame) /\ Len(frames) \in Nat /\ Len(frames) > 0
      /\ frames[1].armed = <<EntryRegion>> /\ frames[1].fn = Entry /\ Top \in Frame
  BY UnwindingFacts DEF Pass
<1>2. /\ flight' = flight /\ flight # NoException
      /\ frames # <<>> /\ Top.armed # <<>> /\ ~matches(Top.fn, LastRegion, flight)
  BY DEF Pass, Unwinding
<1>3. Len(frames) # 1
  BY <1>1, <1>2, EntryMatches DEF LastRegion, Top
<1>4. Top.held \in SUBSET Exceptions
  BY <1>1 DEF Frame
<1>5. SetTop(frame)
  <2>1. frame = [Top EXCEPT !.armed = SubSeq(@, 1, Len(@) - 1)]
    BY <1>1 DEF Frame
  <2>2. QED  BY <2>1 DEF Pass
<1>6. /\ frame \in Frame /\ frame.fn = Top.fn /\ frame.height = Top.height
      /\ frame.held = Top.held
      /\ Len(Top.armed) \in Nat /\ Len(frame.armed) = Len(Top.armed) - 1
      /\ \A k \in 1..Len(frame.armed) : frame.armed[k] = Top.armed[k]
  BY <1>2, <1>4, DisarmedFrame
<1> HIDE DEF frame
<1>7. /\ frames' \in Seq(Frame) /\ Len(frames') = Len(frames)
      /\ frames'[Len(frames)] = frame
      /\ \A n \in 1..Len(frames) : n # Len(frames) => frames'[n] = frames[n]
  BY <1>1, <1>5, <1>6, SetTopFacts DEF SetTop
<1> DEFINE c == View(frames)
           d == View(frames')
<1>8. /\ c \in Seq(VisibleFrame) /\ d \in Seq(VisibleFrame)
      /\ Len(c) = Len(frames) /\ Len(d) = Len(frames)
      /\ \A n \in 1..Len(frames) : c[n] = Visible(frames[n]) /\ d[n] = Visible(frames'[n])
  BY <1>1, <1>7, ViewFacts
<1>9. c[Len(frames)] = Visible(Top) /\ d[Len(frames)] = Visible(frame)
  BY <1>1, <1>7, <1>8 DEF Top
<1>10. Catches(d, 1, 1, flight)
  <2>1. frames'[1] = frames[1]
    BY <1>1, <1>3, <1>7
  <2>2. QED  BY <1>1, <1>7, <2>1, EntryCatches
<1> HIDE DEF c, d
<1>11. /\ \A i \in 1..(Len(d) - 1) : c[i] = d[i]
       /\ c[Len(d)].fn = d[Len(d)].fn /\ c[Len(d)].held = d[Len(d)].held
       /\ c[Len(d)].height = d[Len(d)].height
       /\ c[Len(d)].armed = Top.armed /\ d[Len(d)].armed = frame.armed
       /\ c[Len(d)].fn = Top.fn
  <2>1. Len(d) = Len(frames)
    BY <1>8
  <2>2. \A i \in 1..(Len(d) - 1) : c[i] = d[i]
    <3>1. \A i \in 1..(Len(frames) - 1) : i \in 1..Len(frames) /\ i # Len(frames)
      BY <1>1
    <3>2. QED  BY <1>7, <1>8, <2>1, <3>1
  <2>3. /\ Visible(Top).fn = Top.fn /\ Visible(Top).held = Top.held
        /\ Visible(Top).height = Top.height /\ Visible(Top).armed = Top.armed
        /\ Visible(frame).fn = frame.fn /\ Visible(frame).held = frame.held
        /\ Visible(frame).height = frame.height /\ Visible(frame).armed = frame.armed
    BY DEF Visible
  <2>4. QED  BY <1>6, <1>9, <2>1, <2>2, <2>3
<1>12. Destination(c, flight) = Destination(d, flight)
  <2>1. ~matches(c[Len(d)].fn, c[Len(d)].armed[Len(c[Len(d)].armed)], flight)
    BY <1>2, <1>11 DEF LastRegion
  <2>2. Len(c[Len(d)].armed) = Len(d[Len(d)].armed) + 1
    BY <1>6, <1>11
  <2>3. \A k \in 1..Len(d[Len(d)].armed) : c[Len(d)].armed[k] = d[Len(d)].armed[k]
    <3>1. \A k \in 1..Len(frame.armed) : frame.armed[k] = Top.armed[k]
      BY <1>6
    <3>2. c[Len(d)].armed = Top.armed /\ d[Len(d)].armed = frame.armed
      BY <1>11
    <3>3. QED  BY <3>1, <3>2, Zenon
  <2>4. /\ c \in Seq(VisibleFrame) /\ d \in Seq(VisibleFrame)
        /\ Len(c) = Len(d) /\ Len(d) > 0
    BY <1>1, <1>8
  <2>5. /\ \A i \in 1..(Len(d) - 1) : c[i] = d[i]
        /\ c[Len(d)].fn = d[Len(d)].fn /\ c[Len(d)].held = d[Len(d)].held
        /\ c[Len(d)].height = d[Len(d)].height
    BY <1>11
  <2>6. QED  BY <1>10, <2>1, <2>2, <2>3, <2>4, <2>5, PassedRegion
<1>13. QED  BY <1>2, <1>12 DEF Settled, c, d

(* A catch is where the exception was going to land.                       *)
LEMMA CatchStutters == ASSUME Inv, Catch PROVE Settled' = Settled
<1> DEFINE held == Top.held \cup Delivered(Top.fn, LastRegion, flight)
           frame == [Top EXCEPT !.armed = SubSeq(@, 1, Len(@) - 1), !.held = held]
           c == View(frames)
           N == Len(frames)
           K == Len(Top.armed)
<1>1. /\ frames \in Seq(Frame) /\ N \in Nat /\ N > 0 /\ Top \in Frame
      /\ flight \in Exceptions
  BY UnwindingFacts DEF Catch
<1>2. /\ flight' = NoException /\ flight # NoException
      /\ frames # <<>> /\ Top.armed # <<>> /\ matches(Top.fn, LastRegion, flight)
  BY DEF Catch, Unwinding
<1>3. held \in SUBSET Exceptions
  BY <1>1 DEF Frame, Delivered
<1>4. SetTop(frame)
  BY DEF Catch
<1>5. /\ frame \in Frame /\ frame.fn = Top.fn /\ frame.height = Top.height
      /\ frame.held = held /\ frame.armed = SubSeq(Top.armed, 1, K - 1)
      /\ K \in Nat /\ K > 0
  <2> HIDE DEF held
  <2> QED  BY <1>2, <1>3, DisarmedFrame
<1> HIDE DEF frame
<1>6. View(frames') = [c EXCEPT ![N] = Visible(frame)]
  BY <1>1, <1>4, <1>5, SetTopView
<1>7. /\ c \in Seq(VisibleFrame) /\ Len(c) = N
      /\ c[N] = Visible(Top) /\ c[N].armed = Top.armed /\ c[N].fn = Top.fn
      /\ c[N].held = Top.held /\ c[N].height = Top.height
  <2>1. N \in 1..N
    BY <1>1
  <2>2. QED  BY <1>1, <2>1, ViewFacts DEF Top
<1> HIDE DEF c
<1>8. Innermost(c, N, K, flight)
  <2>1. Catches(c, N, K, flight)
    BY <1>1, <1>2, <1>5, <1>7 DEF Catches, LastRegion
  <2>2. ASSUME NEW m \in 1..Len(c), NEW j \in 1..Len(c[m].armed)
        PROVE  m < N \/ (m = N /\ j <= K)
    BY <1>1, <1>5, <1>7
  <2>3. QED  BY <2>1, <2>2 DEF Innermost
<1>9. Settled = Land(c, N, K, flight)
  BY <1>2, <1>7, <1>8, DestinationIsInnermost DEF Settled, c
<1>10. [c[N] EXCEPT !.armed = SubSeq(@, 1, K - 1),
                    !.held = @ \cup Delivered(c[N].fn, c[N].armed[K], flight)]
         = Visible(frame)
  <2>1. Visible(frame) = [fn |-> Top.fn, armed |-> SubSeq(Top.armed, 1, K - 1),
                          held |-> held, height |-> Top.height]
    <3> HIDE DEF held, K
    <3> QED  BY <1>5 DEF Visible
  <2>2. c[N] = [fn |-> Top.fn, armed |-> Top.armed, held |-> Top.held,
                height |-> Top.height]
    BY <1>7 DEF Visible
  <2>3. Visible(frame) = [c[N] EXCEPT !.armed = SubSeq(Top.armed, 1, K - 1), !.held = held]
    <3> DEFINE regions == SubSeq(Top.armed, 1, K - 1)
               landed == Visible(frame)
               old == c[N]
    <3>1. landed = [fn |-> Top.fn, armed |-> regions, held |-> held, height |-> Top.height]
      BY <2>1
    <3>2. old = [fn |-> Top.fn, armed |-> Top.armed, held |-> Top.held,
                 height |-> Top.height]
      BY <2>2
    <3> HIDE DEF held, regions, landed, old
    <3> DEFINE updated == [old EXCEPT !.armed = regions, !.held = held]
    <3>3. DOMAIN updated = DOMAIN landed
      BY <3>1, <3>2
    <3>4. DOMAIN landed = {"fn", "armed", "held", "height"}
      BY <3>1
    <3>5. /\ updated.fn = landed.fn /\ updated.armed = landed.armed
          /\ updated.held = landed.held /\ updated.height = landed.height
      BY <3>1, <3>2
    <3>6. /\ updated = [field \in DOMAIN updated |-> updated[field]]
          /\ landed = [field \in DOMAIN landed |-> landed[field]]
      BY <3>1, <3>2
    <3>7. landed = [old EXCEPT !.armed = regions, !.held = held]
      BY <3>3, <3>4, <3>5, <3>6
    <3>8. QED  BY <3>7 DEF regions, landed, old
  <2>4. /\ c[N].armed = Top.armed /\ c[N].held = Top.held /\ c[N].fn = Top.fn
        /\ Top.armed[K] = LastRegion
    BY <1>7 DEF LastRegion
  <2>5. QED  BY <2>3, <2>4
<1>11. Land(c, N, K, flight) = Append(SubSeq(c, 1, N - 1), Visible(frame))
  BY <1>10 DEF Land
<1>12. Append(SubSeq(c, 1, N - 1), Visible(frame)) = [c EXCEPT ![N] = Visible(frame)]
  <2> DEFINE s == SubSeq(c, 1, N - 1)
  <2>1. /\ s \in Seq(VisibleFrame) /\ Len(s) = N - 1
        /\ \A i \in 1..(N - 1) : s[i] = c[i]
    BY <1>1, <1>7, PrefixFacts
  <2>2. Visible(frame) \in VisibleFrame
    <3>1. frames' \in Seq(Frame) /\ Len(frames') = N /\ frames'[N] = frame /\ N \in 1..N
      BY <1>1, <1>4, <1>5, SetTopFacts DEF SetTop
    <3>2. QED  BY <3>1, ViewFacts
  <2> HIDE DEF s
  <2>3. /\ Append(s, Visible(frame)) \in Seq(VisibleFrame)
        /\ Len(Append(s, Visible(frame))) = N
        /\ Append(s, Visible(frame))[N] = Visible(frame)
        /\ \A i \in 1..(N - 1) : Append(s, Visible(frame))[i] = c[i]
    BY <1>1, <2>1, <2>2
  <2>4. /\ [c EXCEPT ![N] = Visible(frame)] \in Seq(VisibleFrame)
        /\ Len([c EXCEPT ![N] = Visible(frame)]) = N
        /\ [c EXCEPT ![N] = Visible(frame)][N] = Visible(frame)
        /\ \A i \in 1..(N - 1) : [c EXCEPT ![N] = Visible(frame)][i] = c[i]
    BY <1>1, <1>7, <2>2
  <2>5. Append(s, Visible(frame)) = [c EXCEPT ![N] = Visible(frame)]
    <3>1. \A i \in 1..N : i = N \/ i \in 1..(N - 1)
      BY <1>1
    <3>2. QED  BY <2>3, <2>4, <3>1, SequencesEqual
  <2>6. QED  BY <2>5 DEF s
<1>13. Settled' = View(frames')
  BY <1>2 DEF Settled
<1>14. QED  BY <1>6, <1>9, <1>11, <1>12, <1>13

-----------------------------------------------------------------------------
(* Initial states map to initial states.                                   *)
LEMMA InitRefines == Init => Contract!Init
BY DEF Init, Contract!Init, Settled, View

(* Every step maps to a step of the contract or to a stutter.              *)
LEMMA NextRefines == Reducible /\ Inv /\ [Next]_vars => [Contract!Next]_(Contract!vars)
<1> SUFFICES ASSUME Reducible, Inv, [Next]_vars PROVE [Contract!Next]_(Contract!vars)
  OBVIOUS
<1>1. CASE Start
  BY <1>1, StartStep DEF Contract!Next
<1>2. CASE Return
  BY <1>2, ReturnStep DEF Contract!Next
<1>3. CASE Leave
  BY <1>3, LeaveStep DEF Contract!Next
<1>4. CASE Trap
  BY <1>4, TrapStep DEF Contract!Next
<1>5. CASE Finish
  BY <1>5, FinishStep DEF Contract!Next
<1>6. ASSUME NEW g \in Functions, Call(g) PROVE Contract!Next
  BY <1>6, CallStep DEF Contract!Next
<1>7. ASSUME NEW g \in Functions, TailCall(g) PROVE Contract!Next
  BY <1>7, TailCallStep DEF Contract!Next
<1>8. ASSUME NEW f \in Functions, NEW t \in Tries[f], Arm(t) PROVE Contract!Next
  BY <1>8, ArmStep DEF Contract!Next
<1>9. ASSUME NEW exception \in Exceptions, Throw(exception) PROVE Contract!Next
  BY <1>9, ThrowStep, SameProgram DEF Contract!Next
<1>10. CASE Unwind
  <2>1. Settled' = Settled
    BY <1>10, CatchStutters, PassStutters, DiscardStutters DEF Unwind
  <2>2. outcome' = outcome
    BY <1>10 DEF Unwind, Catch, Pass, Discard
  <2>3. QED  BY <2>1, <2>2 DEF Contract!vars
<1>11. CASE UNCHANGED vars
  BY <1>11 DEF vars, Contract!vars, Settled
<1>12. QED
  BY <1>1, <1>2, <1>3, <1>4, <1>5, <1>6, <1>7, <1>8, <1>9, <1>10, <1>11 DEF Next

(* The emitted counter, checks and watermarks implement the contract: a    *)
(* call is refused exactly when its frame would not fit the budget, and an *)
(* exception is one jump to the innermost region that catches it.          *)
THEOREM BudgetImplementsContract ==
  ASSUME Reducible PROVE Spec => ImplementsStackContract
<1>1. Spec => []Inv
  BY BudgetInvariant
<1>2. Inv /\ [Next]_vars => [Contract!Next]_(Contract!vars)
  BY NextRefines
<1>3. QED
  BY <1>1, <1>2, InitRefines, PTL
     DEF Spec, ImplementsStackContract, Contract!Spec
=============================================================================
