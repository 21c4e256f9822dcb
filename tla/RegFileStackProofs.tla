------------------------- MODULE RegFileStackProofs -------------------------
(***************************************************************************)
(* The stacked register file implements the stack of contexts, for any     *)
(* depth, any registers and masks, and any width of the data.              *)
(***************************************************************************)
EXTENDS RegFileStack, TLAPS

(* What the refinement maps the variables to.                              *)
Regs     == [r \in mask |-> regs[r]]
Contexts == [k \in 1 .. held |-> [r \in stack_mask |-> rf_stack[k][r]]]

(* The registers start cleared, with nothing saved.                        *)
LEMMA TypeInit == Init => TypeOK
  BY DepthAssumption, DataAssumption DEF Init, TypeOK, Contents, Zero, Instances

(* Every clock edge keeps the types.                                       *)
LEMMA TypeStep == TypeOK /\ [Next]_vars => TypeOK'
<1> SUFFICES ASSUME TypeOK, [Next]_vars PROVE TypeOK'
  OBVIOUS
<1> USE DepthAssumption, MaskAssumption, DataAssumption
<1>1. CASE Reset
  BY <1>1 DEF Reset, TypeOK, Contents, Zero
<1>2. ASSUME NEW w_ena \in BOOLEAN, NEW w_addr \in Registers, NEW w_data \in RegData
      PROVE  Written(w_ena, w_addr, w_data) \in Contents
  BY DEF Written, Contents, TypeOK
<1>3. ASSUME NEW data \in Contents PROVE Instance(data) \in Contents
  BY DEF Instance, Contents
<1>4. ASSUME NEW w_ena \in BOOLEAN, NEW w_addr \in Registers, NEW w_data \in RegData,
             Normal(w_ena, w_addr, w_data)
      PROVE  TypeOK'
  BY <1>2, <1>4 DEF Normal, TypeOK
<1>5. ASSUME NEW w_ena \in BOOLEAN, NEW w_addr \in Registers, NEW w_data \in RegData,
             Push(w_ena, w_addr, w_data)
      PROVE  TypeOK'
  <2>1. \A k \in Instances : push_data(k) \in Contents
    BY DEF push_data, TypeOK, Instances
  <2>2. rf_stack' \in [Instances -> Contents]
    BY <1>3, <1>5, <2>1 DEF Push
  <2>3. held' \in 0 .. Depth - 1
    BY <1>5 DEF Push, TypeOK
  <2> QED
    BY <1>2, <1>5, <2>2, <2>3 DEF Push, TypeOK
<1>6. ASSUME NEW undriven \in Contents, Pop(undriven) PROVE TypeOK'
  <2>1. \A k \in 0 .. Depth - 1 : pop_data(k, undriven) \in Contents
    BY DEF pop_data, TypeOK, Instances
  <2>2. rf_stack' \in [Instances -> Contents]
    BY <1>3, <1>6, <2>1 DEF Pop, Instances
  <2>3. regs' \in Contents
    <3>1. pop_data(0, undriven) \in Contents
      BY <2>1
    <3> QED
      BY <1>6, <3>1 DEF Pop, Popped, Contents, TypeOK
  <2>4. held' \in 0 .. Depth - 1
    BY <1>6 DEF Pop, TypeOK
  <2> QED
    BY <2>2, <2>3, <2>4 DEF TypeOK
<1>7. CASE UNCHANGED vars
  BY <1>7 DEF vars, TypeOK
<1> QED
  BY <1>1, <1>4, <1>5, <1>6, <1>7 DEF Next

(* The registers hold words, and no more contexts are held than there are  *)
(* instances.                                                              *)
THEOREM Typed == Spec => []TypeOK
  BY TypeInit, TypeStep, PTL DEF Spec

LEMMA ContextsLen == TypeOK => Len(Contexts) = held /\ Contexts \in Seq([stack_mask -> RegData])
<1> SUFFICES ASSUME TypeOK PROVE Len(Contexts) = held /\ Contexts \in Seq([stack_mask -> RegData])
  OBVIOUS
<1> USE DepthAssumption, MaskAssumption
<1>1. held \in Nat /\ 1 .. held \subseteq Instances
  BY DEF TypeOK, Instances
<1>2. \A k \in 1 .. held : [r \in stack_mask |-> rf_stack[k][r]] \in [stack_mask -> RegData]
  BY <1>1 DEF TypeOK, Contents
<1>3. Contexts \in [1 .. held -> [stack_mask -> RegData]]
  BY <1>2 DEF Contexts
<1> QED
  BY <1>1, <1>3

(* The cleared registers are those of the stack.                           *)
LEMMA StackInit == Init => Stack!Init
<1> SUFFICES ASSUME Init PROVE Stack!Init
  OBVIOUS
<1>1. [r \in mask |-> regs[r]] = [r \in mask |-> 0]
  BY MaskAssumption DEF Init, Zero
<1>2. [k \in 1 .. held |-> [r \in stack_mask |-> rf_stack[k][r]]] = << >>
  BY DEF Init
<1> QED
  BY <1>1, <1>2 DEF Stack!Init

(* A write to the registers is one to those of the stack, or none.         *)
LEMMA StackWritten ==
  ASSUME TypeOK, NEW w_ena \in BOOLEAN, NEW w_addr \in Registers, NEW w_data \in RegData,
         regs' = Written(w_ena, w_addr, w_data)
  PROVE  Stack!Written
<1> USE MaskAssumption
<1>0. \A r \in mask : Takes(r)
  BY DEF Takes
<1>1. \A r \in mask : regs'[r] = IF w_ena /\ w_addr = r THEN w_data ELSE regs[r]
  BY <1>0 DEF Written
<1>2. CASE w_ena /\ w_addr \in mask
  <2>1. [r \in mask |-> regs'[r]] = [[r \in mask |-> regs[r]] EXCEPT ![w_addr] = w_data]
    BY <1>1, <1>2
  <2> QED
    BY <1>2, <2>1 DEF Stack!Written
<1>3. CASE ~(w_ena /\ w_addr \in mask)
  <2>1. [r \in mask |-> regs'[r]] = [r \in mask |-> regs[r]]
    BY <1>1, <1>3
  <2> QED
    BY <2>1 DEF Stack!Written
<1> QED
  BY <1>2, <1>3

(* Every clock edge is a step of the stack.                                *)
LEMMA StackStep == TypeOK /\ TypeOK' /\ [Next]_vars => [Stack!Next]_(Stack!vars)
<1> SUFFICES ASSUME TypeOK, TypeOK', [Next]_vars PROVE [Stack!Next]_(Stack!vars)
  OBVIOUS
<1> USE DepthAssumption, MaskAssumption, DataAssumption
<1>0. Len(Contexts) = held /\ Stack!Held = held
  BY ContextsLen DEF Contexts, Stack!Held
<1>1. CASE Reset
  <2>1. [r \in mask |-> regs'[r]] = [r \in mask |-> 0]
    BY <1>1 DEF Reset, Zero
  <2>2. [k \in 1 .. held' |-> [r \in stack_mask |-> rf_stack'[k][r]]] = << >>
    BY <1>1 DEF Reset
  <2> QED
    BY <2>1, <2>2 DEF Stack!Next, Stack!Reset
<1>2. ASSUME NEW w_ena \in BOOLEAN, NEW w_addr \in Registers, NEW w_data \in RegData,
             Normal(w_ena, w_addr, w_data)
      PROVE  Stack!Next
  <2>1. Stack!Written
    BY <1>2, StackWritten DEF Normal
  <2>2. [k \in 1 .. held' |-> [r \in stack_mask |-> rf_stack'[k][r]]]
          = [k \in 1 .. held |-> [r \in stack_mask |-> rf_stack[k][r]]]
    BY <1>2 DEF Normal
  <2> QED
    BY <2>1, <2>2 DEF Stack!Next, Stack!Work
<1>3. ASSUME NEW w_ena \in BOOLEAN, NEW w_addr \in Registers, NEW w_data \in RegData,
             Push(w_ena, w_addr, w_data)
      PROVE  Stack!Next
  <2>1. Stack!Written
    BY <1>3, StackWritten DEF Push
  <2>2. held' = Stack!Kept(held + 1) /\ held' \in Nat /\ held' <= held + 1 /\ held' <= Depth - 1
    BY <1>3 DEF Push, Stack!Kept, TypeOK
  <2>3. ASSUME NEW k \in 1 .. held'
        PROVE  [r \in stack_mask |-> rf_stack'[k][r]]
                 = IF k = 1 THEN Stack!Saved([r \in mask |-> regs[r]]) ELSE Contexts[k - 1]
    <3>1. k \in Instances
      BY <2>2 DEF Instances
    <3>2. \A r \in stack_mask : rf_stack'[k][r] = push_data(k)[r]
      BY <1>3, <3>1 DEF Push, Instance
    <3>3. CASE k = 1
      BY <3>2, <3>3 DEF push_data, Stack!Saved
    <3>4. CASE k # 1
      <4>1. held \in Nat /\ k - 1 \in 1 .. held
        BY <2>2, <3>4 DEF TypeOK
      <4>2. Contexts[k - 1] = [r \in stack_mask |-> rf_stack[k - 1][r]]
        BY <4>1 DEF Contexts
      <4> QED
        BY <3>2, <3>4, <4>2 DEF push_data
    <3> QED
      BY <3>3, <3>4
  <2>4. [k \in 1 .. held' |-> [r \in stack_mask |-> rf_stack'[k][r]]]
          = [k \in 1 .. Stack!Kept(held + 1) |->
               IF k = 1 THEN Stack!Saved([r \in mask |-> regs[r]]) ELSE Contexts[k - 1]]
    BY <2>2, <2>3
  <2> QED
    BY <1>0, <2>1, <2>4 DEF Stack!Next, Stack!Enter, Contexts
<1>4. ASSUME NEW undriven \in Contents, Pop(undriven) PROVE Stack!Next
  <2>1. ASSUME NEW top \in Contents, top = pop_data(0, undriven)
        PROVE  [r \in mask |-> regs'[r]]
                 = [r \in mask |-> IF r \in stack_mask THEN [s \in stack_mask |-> top[s]][r]
                                   ELSE [s \in mask |-> regs[s]][r]]
    BY <1>4, <2>1 DEF Pop, Popped
  <2>2. pop_data(0, undriven) \in Contents
    BY DEF pop_data, TypeOK, Instances
  <2>3. CASE held = 0
    <3>1. [k \in 1 .. held' |-> [r \in stack_mask |-> rf_stack'[k][r]]]
            = [k \in 1 .. held |-> [r \in stack_mask |-> rf_stack[k][r]]]
      BY <1>4, <2>3 DEF Pop
    <3>2. [s \in stack_mask |-> pop_data(0, undriven)[s]] \in [stack_mask -> RegData]
      BY <2>2 DEF Contents
    <3> QED
      BY <1>0, <2>1, <2>2, <2>3, <3>1, <3>2 DEF Stack!Next, Stack!ReturnLost, Stack!Restored
  <2>4. CASE held > 0
    <3>1. held \in Nat /\ held <= Depth - 1 /\ held' = held - 1
      BY <1>4, <2>4 DEF Pop, TypeOK
    <3>2. pop_data(0, undriven) = rf_stack[1]
      BY <2>4, <3>1 DEF pop_data
    <3>3. Contexts[1] = [r \in stack_mask |-> rf_stack[1][r]]
      BY <2>4, <3>1 DEF Contexts
    <3>4. ASSUME NEW k \in 1 .. held - 1
          PROVE  [r \in stack_mask |-> rf_stack'[k][r]] = Contexts[k + 1]
      <4>1. k \in Instances /\ k # Depth - 1 /\ k + 1 \in 1 .. held
        BY <3>1 DEF Instances
      <4>2. \A r \in stack_mask : rf_stack'[k][r] = rf_stack[k + 1][r]
        BY <1>4, <4>1 DEF Pop, Instance, pop_data
      <4>3. Contexts[k + 1] = [r \in stack_mask |-> rf_stack[k + 1][r]]
        BY <4>1 DEF Contexts
      <4> QED
        BY <4>2, <4>3
    <3>5. [k \in 1 .. held' |-> [r \in stack_mask |-> rf_stack'[k][r]]]
            = [k \in 1 .. held - 1 |-> Contexts[k + 1]]
      BY <3>1, <3>4
    <3>6. [r \in mask |-> regs'[r]]
            = [r \in mask |-> IF r \in stack_mask THEN Contexts[1][r]
                              ELSE [s \in mask |-> regs[s]][r]]
      BY <2>1, <2>2, <3>2, <3>3
    <3> QED
      BY <1>0, <2>4, <3>5, <3>6 DEF Stack!Next, Stack!Return, Stack!Restored, Contexts
  <2> QED
    BY <2>3, <2>4 DEF TypeOK
<1>5. CASE UNCHANGED vars
  <2>1. [r \in mask |-> regs'[r]] = [r \in mask |-> regs[r]]
    BY <1>5 DEF vars
  <2>2. [k \in 1 .. held' |-> [r \in stack_mask |-> rf_stack'[k][r]]]
          = [k \in 1 .. held |-> [r \in stack_mask |-> rf_stack[k][r]]]
    BY <1>5 DEF vars
  <2> QED
    BY <2>1, <2>2 DEF Stack!vars
<1> QED
  BY <1>1, <1>2, <1>3, <1>4, <1>5 DEF Next

(* Whatever the depth, the registers and the data: a return restores what  *)
(* its entry saved, unless that was pushed out.                            *)
THEOREM Implements == Spec => Stack!Spec
<1>1. Init => Stack!Init
  BY StackInit
<1>2. TypeOK /\ TypeOK' /\ [Next]_vars => [Stack!Next]_(Stack!vars)
  BY StackStep
<1> QED
  BY <1>1, <1>2, Typed, PTL DEF Spec, Stack!Spec
=============================================================================
