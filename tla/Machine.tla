------------------------------ MODULE Machine ------------------------------
(***************************************************************************)
(* The stack machine of machine/machine.cpp: its registers, its stack and  *)
(* one step per instruction.                                               *)
(*                                                                         *)
(* A frame starts at rBP with three cells: the static link, the caller's   *)
(* rBP and the return address; the variables of the block follow, and then *)
(* the values being computed.                                              *)
(*                                                                         *)
(* Nothing is checked at run time.  What the program then does is          *)
(* undefined in C++, and the model stops in status "undefined": a read or  *)
(* write outside of the stack, a fetch from outside of the code, a         *)
(* division by zero, an overflow of int.                                   *)
(***************************************************************************)
EXTENDS Integers, Sequences

CONSTANTS
  Programs,   \* the files the machine may be started with
  StackSize,  \* cells of the stack; 1024 in the program
  IntMax,     \* the greatest int
  Inputs,     \* the values the user may enter
  EvalOrders  \* orders the build may evaluate a comparison in, see Base

ASSUME MachineAssumption ==
  /\ <<>> \notin Programs
  /\ StackSize \in Nat /\ StackSize >= 3
  /\ IntMax \in Nat
  /\ Inputs \subseteq Int
  /\ EvalOrders \subseteq {"lhs_first", "rhs_first"}

VARIABLES
  inst,          \* the code
  stack,         \* indexed from 0
  rPC, rBP, rSP, \* program counter, base of the frame, top of the stack
  status,        \* "idle" before the start, "running", or how the run ended
  calls          \* history: what every call in progress must restore

registers == <<rPC, rBP, rSP>>
vars == <<inst, stack, registers, status, calls>>

Cells == 0..(StackSize - 1)
Ints == (-IntMax - 1)..IntMax

inst_t(type, l, a) == [type |-> type, l |-> l, a |-> a]
rInst == inst[rPC + 1]
Fetchable == rPC + 1 \in DOMAIN inst

\* The loader's loop reads once more before it meets the end of the file; this
\* read leaves the instruction as it was, and it is appended again.
Loaded(file) == Append(file, file[Len(file)])
----------------------------------------------------------------------------
(***************************************************************************)
(* Operands.                                                               *)
(***************************************************************************)

\* Cells met when l static links are followed from the current frame; a link
\* that leads out of the stack leads nowhere further.
Links(l) ==
  LET link[k \in 0..l] == IF k = 0 THEN rBP
                          ELSE IF link[k - 1] \in Cells THEN stack[link[k - 1]] ELSE -1
  IN  link

\* The frame l blocks out.
Frame(l) == Links(l)[l]

IntegerOf(b) == IF b THEN 1 ELSE 0

\* Division truncates, and % goes with it.
Quotient(x, y) == LET q == (IF x < 0 THEN -x ELSE x) \div (IF y < 0 THEN -y ELSE y)
                  IN  IF (x < 0) = (y < 0) THEN q ELSE -q
Remainder(x, y) == x - y * Quotient(x, y)

\* The operators that replace their two operands by the result.
Arithmetic == [o \in 2..5 |-> <<"ADD", "SUB", "MUL", "DIV">>[o - 1]]
Compute(o, x, y) == CASE Arithmetic[o] = "ADD" -> x + y
                      [] Arithmetic[o] = "SUB" -> x - y
                      [] Arithmetic[o] = "MUL" -> x * y
                      [] Arithmetic[o] = "DIV" -> Quotient(x, y)

\* The operators that leave their operands and push the result.
Comparisons == {6} \cup 8..13
Compare(o, x, y) == CASE o = 6  -> Remainder(y, 2)
                      [] o = 8  -> IntegerOf(x = y)
                      [] o = 9  -> IntegerOf(x # y)
                      [] o = 10 -> IntegerOf(x < y)
                      [] o = 11 -> IntegerOf(x >= y)
                      [] o = 12 -> IntegerOf(x > y)
                      [] o = 13 -> IntegerOf(x <= y)

\* A comparison is an assignment to stack[++rSP] of an expression that reads
\* rSP, and which side goes first is unspecified: the operands lie below the
\* new top if the left-hand side does, and one cell lower if the right-hand
\* side does.
Base(order) == IF order = "lhs_first" THEN rSP + 1 ELSE rSP
----------------------------------------------------------------------------
(***************************************************************************)
(* The steps.                                                              *)
(***************************************************************************)

Is(type) == Fetchable /\ rInst.type = type
IsOpr(operators) == Is("OPR") /\ rInst.a \in operators

\* The program returns, not a procedure.  Slip: the test is for the sentinel
\* in the program's frame.
SlipOutermost == rBP = -1
Outermost == rBP = 0

\* The cells INT reserves: the links are on the stack already.  Slip: one is
\* taken to be missing.
SlipReserved == rInst.a - 4
Reserved == rInst.a - 3

\* The cells the instruction reads or writes.
Touched ==
  CASE Is("INT") -> (rSP + 1)..(rSP + Reserved)
    [] Is("LIT") -> {rSP + 1}
    [] Is("LOD") -> {Links(rInst.l)[k] : k \in 0..rInst.l}
                      \cup {Frame(rInst.l) + rInst.a, rSP + 1}
    [] Is("STO") -> {Links(rInst.l)[k] : k \in 0..rInst.l}
                      \cup {Frame(rInst.l) + rInst.a, rSP}
    [] Is("CAL") -> {Links(rInst.l)[k] : k \in 0..rInst.l} \cup (rSP + 1)..(rSP + 3)
    [] Is("JPC") -> {rSP}
    [] IsOpr({0}) -> IF Outermost THEN {} ELSE {rBP + 1, rBP + 2}
    [] IsOpr({1, 14}) -> {rSP}
    [] IsOpr(DOMAIN Arithmetic) -> {rSP - 1, rSP}
    [] IsOpr(Comparisons) -> {rSP + 1, rSP, rSP - 1, rSP - 2}
    [] IsOpr({16}) -> {rSP + 1}
    [] OTHER -> {}

Defined ==
  /\ Fetchable
  /\ Touched \subseteq Cells
  /\ IsOpr(DOMAIN Arithmetic) =>
       /\ Arithmetic[rInst.a] = "DIV" => stack[rSP] # 0
       /\ Compute(rInst.a, stack[rSP - 1], stack[rSP]) \in Ints

\* The instruction replaces the stack from cell base on by values.
Put(base, values) ==
  stack' = [c \in Cells |-> IF c \in base..(base + Len(values) - 1)
                            THEN values[c - base + 1] ELSE stack[c]]

Push(values) == Put(rSP + 1, values) /\ rSP' = rSP + Len(values)

Continue == rPC' = rPC + 1 /\ UNCHANGED <<rBP, status, calls>>

INT ==
  /\ Is("INT")
  /\ Push([k \in 1..Reserved |-> 0])
  /\ Continue

LIT == Is("LIT") /\ Push(<<rInst.a>>) /\ Continue

LOD == Is("LOD") /\ Push(<<stack[Frame(rInst.l) + rInst.a]>>) /\ Continue

\* The value that is stored stays on the stack.
STO ==
  /\ Is("STO")
  /\ Put(Frame(rInst.l) + rInst.a, <<stack[rSP]>>)
  /\ UNCHANGED rSP
  /\ Continue

\* The cells of a new frame: static link, caller's frame, return address.
\* Slip: the caller's frame comes first.
SlipLinkCells == <<rBP, Frame(rInst.l), rPC + 1>>
LinkCells == <<Frame(rInst.l), rBP, rPC + 1>>

CAL ==
  /\ Is("CAL")
  /\ Push(LinkCells)
  /\ rBP' = rSP + 1
  /\ rPC' = rInst.a
  /\ calls' = Append(calls, [entry |-> rInst.a, base |-> rSP + 1, rBP |-> rBP,
                             rPC |-> rPC + 1, rSP |-> rSP])
  /\ UNCHANGED status

JMP == Is("JMP") /\ rPC' = rInst.a /\ UNCHANGED <<stack, rBP, rSP, status, calls>>

\* The condition stays on the stack.
JPC ==
  /\ Is("JPC")
  /\ rPC' = IF stack[rSP] = 0 THEN rInst.a ELSE rPC + 1
  /\ UNCHANGED <<stack, rBP, rSP, status, calls>>

Complete ==
  /\ IsOpr({0}) /\ Outermost
  /\ status' = "completed"
  /\ UNCHANGED <<stack, registers, calls>>

\* What the top becomes when a procedure returns.  Slip: one cell stays.
SlipTopBelow == rBP
TopBelow == rBP - 1

RET ==
  /\ IsOpr({0}) /\ ~Outermost
  /\ rSP' = TopBelow
  /\ rPC' = stack[rBP + 2]
  /\ rBP' = stack[rBP + 1]
  /\ calls' = SubSeq(calls, 1, Len(calls) - 1)
  /\ UNCHANGED <<stack, status>>

NOT == IsOpr({1}) /\ Put(rSP, <<IntegerOf(stack[rSP] = 0)>>) /\ UNCHANGED rSP /\ Continue

\* ADD, SUB, MUL, DIV.
ArithmeticStep ==
  /\ IsOpr(DOMAIN Arithmetic)
  /\ Put(rSP - 1, <<Compute(rInst.a, stack[rSP - 1], stack[rSP])>>)
  /\ rSP' = rSP - 1
  /\ Continue

\* ODD and the six comparisons.
ComparisonStep ==
  /\ IsOpr(Comparisons)
  /\ \E order \in EvalOrders :
       Push(<<Compare(rInst.a, stack[Base(order) - 2], stack[Base(order) - 1])>>)
  /\ Continue

\* NOP, and WR and NL, which print and change nothing in the machine.
Skip == Is("OPR") /\ rInst.a \notin 0..6 \cup 8..13 \cup {16}
        /\ UNCHANGED <<stack, rSP>> /\ Continue

RD == IsOpr({16}) /\ (\E n \in Inputs : Push(<<n>>)) /\ Continue

GoWrong ==
  /\ status' = "undefined"
  /\ UNCHANGED <<stack, registers, calls>>

Step ==
  /\ status = "running"
  /\ UNCHANGED inst
  /\ IF Defined THEN \/ INT \/ LIT \/ LOD \/ STO \/ CAL \/ JMP \/ JPC
                     \/ Complete \/ RET \/ NOT
                     \/ ArithmeticStep \/ ComparisonStep \/ Skip \/ RD
     ELSE GoWrong

\* The registers before the first instruction, and the frame of the program.
Init ==
  /\ inst = <<>> /\ status = "idle"
  /\ stack = [c \in Cells |-> IF c < 3 THEN -1 ELSE 0]
  /\ rPC = 0 /\ rBP = 0 /\ rSP = 2
  /\ calls = <<>>

Load(file) ==
  /\ status = "idle"
  /\ inst' = Loaded(file) /\ status' = "running"
  /\ UNCHANGED <<stack, registers, calls>>

Stopped == status \in {"completed", "undefined"} /\ UNCHANGED vars

Next == (\E file \in Programs : Load(file)) \/ Step \/ Stopped

Spec == Init /\ [][Next]_vars
----------------------------------------------------------------------------
(***************************************************************************)
(* Properties.  They hold of code the compiler emits, not of any code.     *)
(***************************************************************************)

\* Whatever a procedure stores, pushes or calls, the links of every frame in
\* use stay what the call made them, so that each return goes back to its
\* call; and the top of the stack never sinks into the links of the frame.
LinksIntact ==
  /\ \A k \in DOMAIN calls : /\ stack[calls[k].base + 1] = calls[k].rBP
                             /\ stack[calls[k].base + 2] = calls[k].rPC
  /\ rBP = IF calls = <<>> THEN 0 ELSE calls[Len(calls)].base
  /\ rSP >= rBP + 2

\* A return restores the registers of the innermost call that has not
\* returned, and takes everything off the stack that was pushed since.
ReturnStep ==
  Len(calls') < Len(calls) =>
    LET call == calls[Len(calls)]
    IN  rBP' = call.rBP /\ rPC' = call.rPC /\ rSP' = call.rSP
ReturnsRestore == [][ReturnStep]_vars
============================================================================
