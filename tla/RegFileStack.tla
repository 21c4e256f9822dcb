---------------------------- MODULE RegFileStack ----------------------------
(***************************************************************************)
(* The stacked register file of the Hippomenes core                        *)
(* (veryl_stacked_regfile/src/regfile_stack.veryl): a register file whose  *)
(* contents a push shifts into a chain of Depth - 1 instances              *)
(* (regfile_instance.veryl) and a pop shifts back.  A step is a clock edge *)
(* after the first reset.  The masks are sets of registers.                *)
(***************************************************************************)
EXTENDS RegFileParameters, Sequences

VARIABLES
  regs,     \* the registers the core sees
  rf_stack, \* those of the instances, which are numbered from 1
  held      \* history: the contexts that have been pushed and not yet lost

vars == <<regs, rf_stack, held>>

Commands  == {"none", "push", "pop"}
Instances == 1 .. Depth - 1
Zero      == [r \in Registers |-> 0]
Contents  == [Registers -> RegData]

Init == regs = Zero /\ rf_stack = [k \in Instances |-> Zero] /\ held = 0

(* In the loop over the registers those outside the mask are cleared and   *)
(* each of the others writes to i_w_addr; the last assignment wins.  So a  *)
(* write to a register without backing store takes effect for one cycle.   *)
Takes(r) == \E i \in mask : i >= r

Written(w_ena, w_addr, w_data) ==
  [r \in Registers |->
     IF w_ena /\ w_addr = r /\ Takes(r) THEN w_data ELSE IF r \in mask THEN regs[r] ELSE 0]

(* A pop ignores the write.                                                *)
Popped(top) ==
  [r \in Registers |->
     IF r \in stack_mask THEN top[r] ELSE IF r \in mask THEN regs[r] ELSE 0]

(* Mutant of push_data: the first instance saves what is being written.    *)
push_dataForwarded(k) == IF k = 1 THEN regs' ELSE rf_stack[k - 1]

push_data(k) == IF k = 1 THEN regs ELSE rf_stack[k - 1]

(* The last instance, and the registers themselves if there is none, pop   *)
(* rf_stack[Depth], which nothing drives.                                  *)
pop_data(k, undriven) == IF k = Depth - 1 THEN undriven ELSE rf_stack[k + 1]

Instance(data) == [r \in Registers |-> IF r \in stack_mask THEN data[r] ELSE 0]

Reset ==
  /\ regs' = Zero /\ rf_stack' = [k \in Instances |-> Zero]
  /\ held' = 0

Normal(w_ena, w_addr, w_data) ==
  /\ regs' = Written(w_ena, w_addr, w_data)
  /\ UNCHANGED <<rf_stack, held>>

Push(w_ena, w_addr, w_data) ==
  /\ regs' = Written(w_ena, w_addr, w_data)
  /\ rf_stack' = [k \in Instances |-> Instance(push_data(k))]
  /\ held' = IF held < Depth - 1 THEN held + 1 ELSE held

Pop(undriven) ==
  /\ regs' = Popped(pop_data(0, undriven))
  /\ rf_stack' = [k \in Instances |-> Instance(pop_data(k, undriven))]
  /\ held' = IF held > 0 THEN held - 1 ELSE 0

Next ==
  \/ Reset
  \/ \E w_ena \in BOOLEAN, w_addr \in Registers, w_data \in RegData :
       Normal(w_ena, w_addr, w_data) \/ Push(w_ena, w_addr, w_data)
  \/ \E undriven \in Contents : Pop(undriven)

Spec == Init /\ [][Next]_vars
-----------------------------------------------------------------------------
(* Types of the registers.                                                 *)
TypeOK ==
  /\ regs \in Contents /\ rf_stack \in [Instances -> Contents]
  /\ held \in 0 .. Depth - 1

(* The register file and the first instances are what the core sees and    *)
(* the contexts its interrupts have saved.                                 *)
Stack == INSTANCE ContextStack WITH
  Mask      <- mask,
  StackMask <- stack_mask,
  Data      <- RegData,
  CAPACITY  <- Depth - 1,
  regs      <- [r \in mask |-> regs[r]],
  contexts  <- [k \in 1 .. held |-> [r \in stack_mask |-> rf_stack[k][r]]]

(* Every return restores exactly what the matching entry saved, whatever   *)
(* happens in between, unless more than Depth - 1 interrupts were nested   *)
(* in it.                                                                  *)
Restore == Stack!Next
Restores == Stack!Spec
=============================================================================
