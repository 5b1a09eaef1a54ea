---------------------------- MODULE CompileRun ----------------------------
(***************************************************************************)
(* The compiler and the machine: a source is compiled, and if no name in   *)
(* it was reported the file output.asm is given to the machine.            *)
(***************************************************************************)
EXTENDS Assembler

CONSTANTS StackSize, IntMax, Inputs, EvalOrders  \* see Machine

VARIABLES
  inst, stack, rPC, rBP, rSP, calls,  \* see Machine
  machine                             \* the machine's status

machineVars == <<inst, stack, rPC, rBP, rSP, calls, machine>>
allVars == <<vars, machineVars>>

M == INSTANCE Machine WITH status <- machine, Programs <- {}

CRInit == Init /\ M!Init

Compile == Next /\ UNCHANGED machineVars

Start == status = "succeeded" /\ resolved /\ M!Load(code) /\ UNCHANGED vars

Run == M!Step /\ UNCHANGED vars

CRNext == Compile \/ Start \/ Run

CRSpec == CRInit /\ [][CRNext]_allVars
----------------------------------------------------------------------------
(***************************************************************************)
(* Properties.                                                             *)
(***************************************************************************)

\* The machine's promises (see Machine) for the code of the compiler: no
\* procedure that was compiled damages the links of a frame in use.
LinksIntact == clean => M!LinksIntact

\* The procedure, or 0 for the program, that a frame belongs to.
FrameOwner(base) ==
  IF base = 0 THEN 0
  ELSE LET k == CHOOSE k \in DOMAIN calls : calls[k].base = base IN calls[k].entry

\* The static links of the frames in use lead from block to enclosing block:
\* the frame a procedure's link denotes belongs to the block the procedure was
\* declared in, also when the procedure was called from far inside.
StaticChainLexical ==
  clean => \A k \in DOMAIN calls :
    LET blocks == owner[calls[k].entry + 1]
    IN  FrameOwner(stack[calls[k].base]) = blocks[Len(blocks) - 1]

\* The code that runs belongs to the block of the frame it runs in.
RunsInOwnFrame ==
  clean /\ machine = "running" /\ M!Fetchable /\ rPC < length =>
    Last(owner[rPC + 1]) = FrameOwner(rBP)

\* A program that compiled without a message does nothing undefined, except
\* that it may run out of stack, divide by zero or overflow an int.
RunsSafely ==
  clean /\ machine = "undefined" =>
    /\ M!Fetchable
    /\ \/ \E c \in M!Touched : c >= StackSize
       \/ M!IsOpr(DOMAIN M!Arithmetic)

\* Operators work on values that were pushed behind the variables of the
\* frame, never on a variable's cell.
AboveVariables ==
  clean /\ machine = "running" /\ rPC < length =>
    LET blocks == owner[rPC + 1]
        size == At(Last(blocks)).a
    IN  At(rPC).type \notin {"INT", "JMP"} => rSP - Takes(At(rPC)) >= rBP + size - 1
============================================================================
