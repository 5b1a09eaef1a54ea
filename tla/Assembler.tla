----------------------------- MODULE Assembler -----------------------------
(***************************************************************************)
(* The compiler: the semantic actions of Assembler.cpp and Assembler.h, in *)
(* the order in which the automaton of Automaton.cpp runs them, and the    *)
(* main loop of plc.cpp around them.                                       *)
(*                                                                         *)
(* The automaton shifts the symbols of the source program and reduces the  *)
(* rules of the grammar; reducing a rule runs the action attached to it.   *)
(* Which reductions a program leads to, and in which order, is a matter of *)
(* the grammar alone: a rule is reduced when everything on its right-hand  *)
(* side has been.  Instead of the automaton's states this module keeps     *)
(* items, the rules the source is in the middle of, each with the values   *)
(* of those symbols of its right-hand side that have been recognized, and  *)
(* lets the source program be any program: when a nonterminal comes next,  *)
(* one of its rules begins (Expand), a terminal is read (Shift), and a     *)
(* rule whose right-hand side is complete ends (the reductions).  The      *)
(* values of all the items, one behind the other, are those on the         *)
(* automaton's stack.                                                      *)
(*                                                                         *)
(* Addresses count from 0, as in the program: address a is code[a + 1].    *)
(***************************************************************************)
EXTENDS Grammar, Integers, FiniteSets, SequencesExt

CONSTANTS
  Names,        \* identifiers the source may use
  Numbers,      \* numbers the source may use
  Productions,  \* bound: rules the source is derived by
  Siblings,     \* bound: whether a procedure may follow another in a block
  MaxPending,   \* bound: symbols of the rules the source is in
  MaxCode,      \* bound: length of the code at which the source must wind up
  MaxLexErrors  \* bound: lexical errors in the source

ASSUME AssemblerAssumption ==
  /\ Numbers \subseteq Int
  /\ Productions \subseteq DOMAIN Rules
  /\ Siblings \in BOOLEAN
  /\ MaxPending \in Nat \ {0} /\ MaxCode \in Nat /\ MaxLexErrors \in Nat

VARIABLES
  \* The automaton and the main loop.
  items,       \* the rules the source is in, outermost first, see Item
  status,      \* what became of the compilation
  lexErrors,   \* lexical errors so far
  \* The assembler; stacks have their top last.
  code, proc_int_backfill, proc_body_backfill,
  if_not_backfill, while_entry_backfill, while_not_backfill,
  \* The symbol manager.
  layers, cur,
  \* History, read by properties only.
  open,        \* the blocks the source is in, outermost first, see Block
  owner,       \* for every instruction, the blocks around its source
  bodies,      \* where the code of the statement of every block starts
  clean,       \* no procedure was declared twice in a block
  resolved     \* every name that was used was found, and of the right kind

automaton   == <<status, lexErrors>>
procStacks  == <<proc_int_backfill, proc_body_backfill>>
whileStacks == <<while_entry_backfill, while_not_backfill>>
stacks      == <<procStacks, if_not_backfill, whileStacks>>
symbols     == <<layers, cur>>
nesting     == <<open, bodies>>
errorFree   == <<clean, resolved>>
vars == <<items, automaton, code, stacks, symbols, nesting, owner, errorFree>>

Symbol == INSTANCE SymbolManager
  WITH Values <- Numbers, Addresses <- Nat, FirstAddresses <- {3},
       MaxLayers <- MaxPending, MaxEntries <- MaxPending

\* The operands of the OPR instruction.
OPR_RET   == 0
OPR_NOT   == 1
OPR_ADD   == 2
OPR_SUB   == 3
OPR_MUL   == 4
OPR_DIV   == 5
OPR_ODD   == 6
OPR_NOP   == 7
OPR_CMPE  == 8
OPR_CMPNE == 9
OPR_CMPL  == 10
OPR_CMPGE == 11
OPR_CMPG  == 12
OPR_CMPLE == 13
OPR_WR    == 14
OPR_NL    == 15
OPR_RD    == 16

inst_t(type, l, a) == [type |-> type, l |-> l, a |-> a]
length == Len(code)
At(address) == code[address + 1]
Addresses == 0..(length - 1)

\* A value on the automaton's stack, symbol_t: a token of the source, an
\* operator made by a reduction, or the null pointer.
symbol_t(name, desc) == [name |-> name, desc |-> desc]
Operator(opr) == symbol_t("operator", opr)
nullptr == symbol_t("nullptr", -1)
IsToken(v) == v.name \notin {"operator", "nullptr"}
----------------------------------------------------------------------------
(***************************************************************************)
(* The automaton.                                                          *)
(***************************************************************************)

Item(rule, vals) == [rule |-> rule, vals |-> vals]

\* The innermost rule: r is its name, and v the values of its right-hand side
\* so far, v[1] the first.
r == Last(items).rule
v == Last(items).vals
Complete == Len(v) = Len(Rules[r].rhs)
Upcoming == Rules[r].rhs[Len(v) + 1]

\* The source goes on, until PL0 is complete.
Reading == status = "parsing" /\ ~(r = "PL0" /\ Complete)

\* The symbols of the rules the source is in.
Underway ==
  LET outward[k \in 0..Len(items)] ==
        IF k = 0 THEN 0 ELSE outward[k - 1] + Len(Rules[items[k].rule].rhs)
  IN  outward[Len(items)]

\* A nonterminal comes next and turns out to be derived by rule p.
\* The block whose statement begins is noted in bodies.
Expand(p) ==
  /\ Reading /\ ~Complete /\ Upcoming = Rules[p].lhs
  /\ length < MaxCode \/ Rules[p].rhs = <<>>
  /\ Underway + Len(Rules[p].rhs) < MaxPending
  /\ p = "PROC" /\ ~Siblings => r # "PROC"
  /\ items' = Append(items, Item(p, <<>>))
  /\ bodies' = IF Upcoming = "Ssentence" /\ r = "SUBPROG"
               THEN bodies \cup {<<open, length>>} ELSE bodies
  /\ UNCHANGED <<automaton, code, stacks, symbols, open, owner, errorFree>>

\* Tokens the lexer may deliver for a terminal of the grammar.
Tokens(s) == CASE s = ID  -> {symbol_t(name, 0) : name \in Names}
               [] s = NUM -> {symbol_t(NUM, n) : n \in Numbers}
               [] OTHER   -> {symbol_t(s, 0)}

\* One more symbol of the innermost rule of its is recognized.
Recognized(its, value) == [its EXCEPT ![Len(its)].vals = Append(@, value)]

Shift ==
  /\ Reading /\ ~Complete /\ Upcoming \in Terminals
  /\ \E token \in Tokens(Upcoming) : items' = Recognized(items, token)
  /\ UNCHANGED <<automaton, code, stacks, symbols, nesting, owner, errorFree>>

\* The reductions by the rules rs share an action.
Reducing(rs) == r \in rs /\ Complete /\ Reading

\* The action is over; value is what it returned.
Return(value) ==
  /\ items' = Recognized(Front(items), value)
  /\ UNCHANGED automaton

Attached ==
  {"CONSTDEF", "OPTVARID", "VAR", "PROCH", "PROC", "CALL", "READ", "OPTRDID",
   "WRITE", "OPTWRID", "IDFACTOR", "NUMFACTOR", "AOP", "SOP", "MOP", "DOP",
   "NEXPROP", "PEXPROP", "EQOP", "LOP", "LEOP", "GOP", "GEOP", "NEOP",
   "OPTFACTOR", "OPTEXPRITEM", "FEXPRITEM", "EXPR", "EXPRITEM", "ASSERTION",
   "RASSERTION", "ASSIGN", "CONDHEADER", "CONDITION", "WHILEFLAG",
   "WHILEHEADER", "WHILE"}

\* Rules without an action of their own.  When SUBPROG is reduced the source
\* leaves a block.
Default ==
  /\ Reducing(DOMAIN Rules \ Attached)
  /\ Return(nullptr)
  /\ open' = IF r = "SUBPROG" THEN Front(open) ELSE open
  /\ UNCHANGED <<code, stacks, symbols, bodies, owner, errorFree>>
----------------------------------------------------------------------------
(***************************************************************************)
(* Code.  The helpers return the instructions they emit, none if the name  *)
(* is unknown or of the wrong kind (the error goes to the terminal only).  *)
(***************************************************************************)

insert(insts) ==
  /\ code' = code \o insts
  /\ owner' = owner \o [k \in 1..Len(insts) |-> open]

\* Give the instruction at address the operand a.
Backfill(c, address, a) == [c EXCEPT ![address + 1].a = a]

Found(name, types) ==
  LET f == Symbol!findEntry(name) IN f.level >= 0 /\ f.entry.type \in types

Access(type, name) ==
  LET f == Symbol!findEntry(name) IN inst_t(type, f.level, f.entry.address)

call_proc(name) ==
  IF Found(name, {"PROCEDURE"}) THEN <<Access("CAL", name)>> ELSE <<>>

load_number(number) == <<inst_t("LIT", 0, number)>>

load_id(name) ==
  IF Found(name, {"CONSTANT"})
  THEN load_number(Symbol!findEntry(name).entry.value)
  ELSE IF Found(name, {"VARIABLE"}) THEN <<Access("LOD", name)>> ELSE <<>>

store_id(name) ==
  IF Found(name, {"VARIABLE"}) THEN <<Access("STO", name)>> ELSE <<>>

insert_opr(id) == IF id = OPR_NOP THEN <<>> ELSE <<inst_t("OPR", 0, id)>>

read_id(name) ==
  IF Found(name, {"VARIABLE"}) THEN insert_opr(OPR_RD) \o store_id(name) ELSE <<>>

write_id(name) ==
  IF Found(name, {"VARIABLE"}) THEN load_id(name) \o insert_opr(OPR_WR) ELSE <<>>
----------------------------------------------------------------------------
(***************************************************************************)
(* The semantic actions that return a value.                               *)
(***************************************************************************)

\* CONSTDEF, OPTVARID and VAR: declare a name.
Declare ==
  /\ Reducing({"CONSTDEF", "OPTVARID", "VAR"})
  /\ IF r = "CONSTDEF" THEN Symbol!insertConstant(v[1].name, v[3].desc)
     ELSE Symbol!insertVariable(v[2].name, 3)
  /\ Return(nullptr)
  /\ UNCHANGED <<code, stacks, nesting, owner, errorFree>>

\* The two instructions a block starts with, operands to be filled in later,
\* and what the stacks remember of them.
Prologue == <<inst_t("INT", 0, 0), inst_t("JMP", 0, 0)>>
\* Slip: the INT's address is taken after the JMP was inserted.
SlipPushPrologue ==
  /\ proc_int_backfill' = Append(proc_int_backfill, length + 1)
  /\ proc_body_backfill' = Append(proc_body_backfill,
       [jmp_inst |-> length + 1, proc_body |-> length + 2])
PushPrologue ==
  /\ proc_int_backfill' = Append(proc_int_backfill, length)
  /\ proc_body_backfill' = Append(proc_body_backfill,
       [jmp_inst |-> length + 1, proc_body |-> length + 2])

\* The address procedures are called at.  Slip: that of the second instruction.
SlipEntryAddress == length + 1
EntryAddress == length

\* PROCH: a procedure begins, and the source enters its block.
ProcedureHeader ==
  /\ Reducing({"PROCH"})
  /\ clean' = (clean /\ ~Symbol!isDuplicated(v[2].name))
  /\ Symbol!insertProcedure(v[2].name, EntryAddress)
  /\ open' = Append(open, length)
  /\ code' = code \o Prologue
  /\ owner' = owner \o <<open', open'>>
  /\ PushPrologue
  /\ Return(nullptr)
  /\ UNCHANGED <<if_not_backfill, whileStacks, bodies, resolved>>

\* The size of the frames of the procedure that ends.  Slip: its layer has been
\* left already.
SlipFrameSize ==
  3 + Cardinality(Symbol!VariablesOf(IF Len(layers) > 1 THEN layers[Len(layers) - 1]
                                     ELSE layers[1]))
FrameSize == Symbol!countLayerSize

\* Slip: the layer stays open.
SlipLeaveScope == UNCHANGED symbols
LeaveScope == Symbol!ascend

\* Slip: the enclosing block is not told.
SlipUpdateUpper(pbbs) == pbbs
\* Slip: it is taken off and not put back.
SlipDropUpper(pbbs) == Front(pbbs)
\* The entry of the enclosing block, to which the code emitted so far does
\* not belong.
UpdateUpper(pbbs) ==
  Append(Front(pbbs), [jmp_inst |-> Last(pbbs).jmp_inst, proc_body |-> length + 1])

\* PROC: a procedure ends.
ProcedureEnd ==
  /\ Reducing({"PROC"})
  /\ code' = Backfill(Backfill(code \o insert_opr(OPR_RET),
                               Last(proc_int_backfill), FrameSize),
                      Last(proc_body_backfill).jmp_inst,
                      Last(proc_body_backfill).proc_body)
  /\ owner' = Append(owner, Append(open, Last(proc_int_backfill)))
  /\ proc_int_backfill' = Front(proc_int_backfill)
  /\ proc_body_backfill' = UpdateUpper(Front(proc_body_backfill))
  /\ LeaveScope
  /\ Return(nullptr)
  /\ UNCHANGED <<if_not_backfill, whileStacks, nesting, errorFree>>

\* CALL, READ, OPTRDID, WRITE, OPTWRID, IDFACTOR, NUMFACTOR: what they emit.
\* In WRITE and OPTWRID the value of the expression is always nullptr.
Written(value) ==
  IF value # nullptr THEN write_id(value.name) ELSE insert_opr(OPR_WR)
Emitted ==
  CASE r = "CALL"      -> call_proc(v[2].name)
    [] r = "READ"      -> read_id(v[4].name)
    [] r = "OPTRDID"   -> read_id(v[2].name)
    [] r = "WRITE"     -> Written(v[4]) \o insert_opr(OPR_NL)
    [] r = "OPTWRID"   -> Written(v[2])
    [] r = "IDFACTOR"  -> load_id(v[1].name)
    [] r = "NUMFACTOR" -> load_number(v[1].desc)

Simple == {"CALL", "READ", "OPTRDID", "WRITE", "OPTWRID", "IDFACTOR", "NUMFACTOR"}
EmitSimple ==
  /\ Reducing(Simple)
  /\ insert(Emitted)
  /\ resolved' = (resolved /\ Emitted # <<>>)
  /\ Return(nullptr)
  /\ UNCHANGED <<stacks, symbols, nesting, clean>>

\* The operator rules and the code of the operators.
oprOf == [AOP |-> OPR_ADD, SOP |-> OPR_SUB, MOP |-> OPR_MUL, DOP |-> OPR_DIV,
          EQOP |-> OPR_CMPE, LOP |-> OPR_CMPL, LEOP |-> OPR_CMPLE,
          GOP |-> OPR_CMPG, GEOP |-> OPR_CMPGE, NEOP |-> OPR_CMPNE,
          NEXPROP |-> OPR_SUB, PEXPROP |-> OPR_NOP]
\* A leading minus subtracts from 0.  Slip: from nothing.
SlipMinuend == <<>>
Minuend == IF r = "NEXPROP" THEN load_number(0) ELSE <<>>

ReadOperator ==
  /\ Reducing(DOMAIN oprOf)
  /\ insert(Minuend)
  /\ Return(Operator(oprOf[r]))
  /\ UNCHANGED <<stacks, symbols, nesting, errorFree>>

\* An operand is complete: apply the operator that was waiting for it, and
\* hand on the operator that follows it.
Pending(value) == IF value # nullptr THEN insert_opr(value.desc) ELSE <<>>
\* Slip: behind a sign it is the sign that is handed on.
SlipHandedOn == IF r \in {"EXPR", "EXPRITEM"} THEN nullptr
                ELSE IF r = "FEXPRITEM" THEN Operator(v[1].desc)
                ELSE Operator(v[3].desc)
HandedOn == IF r \in {"EXPR", "EXPRITEM"} THEN nullptr ELSE Operator(v[3].desc)
ApplyOperator ==
  /\ Reducing({"OPTFACTOR", "OPTEXPRITEM", "FEXPRITEM", "EXPR", "EXPRITEM"})
  /\ insert(Pending(v[1]))
  /\ Return(HandedOn)
  /\ UNCHANGED <<stacks, symbols, nesting, errorFree>>
----------------------------------------------------------------------------
(***************************************************************************)
(* The semantic actions that are declared to return a value and end        *)
(* without returning one.  This is undefined: the compiler may crash there *)
(* and then, or go on with a value, which no action ever looks at.         *)
(***************************************************************************)

EndWithoutReturn ==
  \/ Return(nullptr)
  \/ status' = "crashed" /\ UNCHANGED <<items, lexErrors>>

\* ASSERTION and RASSERTION: compare.
Assertion ==
  /\ Reducing({"ASSERTION", "RASSERTION"})
  /\ insert(insert_opr(IF r = "ASSERTION" THEN v[2].desc ELSE OPR_ODD))
  /\ EndWithoutReturn
  /\ UNCHANGED <<stacks, symbols, nesting, errorFree>>

Assign ==
  /\ Reducing({"ASSIGN"})
  /\ insert(store_id(v[1].name))
  /\ resolved' = (resolved /\ store_id(v[1].name) # <<>>)
  /\ EndWithoutReturn
  /\ UNCHANGED <<stacks, symbols, nesting, clean>>

\* CONDHEADER: if ... then.
IfHeader ==
  /\ Reducing({"CONDHEADER"})
  /\ insert(<<inst_t("JPC", 0, 0)>>)
  /\ if_not_backfill' = Append(if_not_backfill, length)
  /\ EndWithoutReturn
  /\ UNCHANGED <<procStacks, whileStacks, symbols, nesting, errorFree>>

\* Slip: the oldest if is taken for the innermost one.
SlipInnermostIf == Head(if_not_backfill)
InnermostIf == Last(if_not_backfill)

\* CONDITION: the statement behind then is complete.
IfEnd ==
  /\ Reducing({"CONDITION"})
  /\ code' = Backfill(code, InnermostIf, length)
  /\ if_not_backfill' = Front(if_not_backfill)
  /\ EndWithoutReturn
  /\ UNCHANGED <<procStacks, whileStacks, symbols, nesting, owner, errorFree>>

\* WHILEFLAG: while, the place to come back to.
WhileEntry ==
  /\ Reducing({"WHILEFLAG"})
  /\ while_entry_backfill' = Append(while_entry_backfill, length)
  /\ EndWithoutReturn
  /\ UNCHANGED <<code, procStacks, if_not_backfill, while_not_backfill,
                 symbols, nesting, owner, errorFree>>

\* WHILEHEADER: while ... do.
WhileHeader ==
  /\ Reducing({"WHILEHEADER"})
  /\ insert(<<inst_t("JPC", 0, 0)>>)
  /\ while_not_backfill' = Append(while_not_backfill, length)
  /\ EndWithoutReturn
  /\ UNCHANGED <<procStacks, if_not_backfill, while_entry_backfill, symbols,
                 nesting, errorFree>>

\* A loop is left to behind its jump back.  Slip: to the jump back.
SlipLoopExit == length
LoopExit == length + 1

\* WHILE: the statement behind do is complete.
WhileEnd ==
  /\ Reducing({"WHILE"})
  /\ code' = Backfill(Append(code, inst_t("JMP", 0, Last(while_entry_backfill))),
                      Last(while_not_backfill), LoopExit)
  /\ owner' = Append(owner, open)
  /\ while_entry_backfill' = Front(while_entry_backfill)
  /\ while_not_backfill' = Front(while_not_backfill)
  /\ EndWithoutReturn
  /\ UNCHANGED <<procStacks, if_not_backfill, symbols, nesting, errorFree>>
----------------------------------------------------------------------------
(***************************************************************************)
(* The main loop.                                                          *)
(***************************************************************************)

Init ==
  /\ items = <<Item("PL0", <<>>)>>
  /\ status = "parsing" /\ lexErrors = 0
  /\ code = Prologue
  /\ proc_int_backfill = <<0>>
  /\ proc_body_backfill = <<[jmp_inst |-> 1, proc_body |-> 2]>>
  /\ if_not_backfill = <<>>
  /\ while_entry_backfill = <<>> /\ while_not_backfill = <<>>
  /\ Symbol!Init
  /\ open = <<0>> /\ owner = <<<<0>>, <<0>>>> /\ bodies = {}
  /\ clean = TRUE /\ resolved = TRUE

\* The automaton accepts: PL0 itself is never reduced.
Succeed ==
  /\ status = "parsing" /\ ~Reading
  /\ status' = "succeeded"
  /\ code' = Backfill(Backfill(code \o insert_opr(OPR_RET),
                               0, Symbol!countLayerSize),
                      1, Last(proc_body_backfill).proc_body)
  /\ owner' = Append(owner, <<0>>)
  /\ UNCHANGED <<items, lexErrors, stacks, symbols, nesting, errorFree>>

\* The automaton meets a symbol that does not belong there.
SyntaxErrorFound ==
  /\ Reading
  /\ status' = "failed"
  /\ UNCHANGED <<items, lexErrors, code, stacks, symbols, nesting, owner,
                 errorFree>>

\* The value on top of the automaton's stack, if there is one, is a token.
TokenOnTop ==
  \A k \in DOMAIN items :
    /\ items[k].vals # <<>>
    /\ \A j \in (k + 1)..Len(items) : items[j].vals = <<>>
    => IsToken(Last(items[k].vals))

\* The lexer throws instead of delivering the next symbol, so everything the
\* automaton could reduce has been when this happens.  The handler outside
\* the loop reports the error; the loop starts again and emits the prologue
\* once more, while automaton and stacks are what they were.
LexicalError ==
  /\ Reading /\ lexErrors < MaxLexErrors
  /\ TokenOnTop
  /\ lexErrors' = lexErrors + 1
  /\ insert(Prologue)
  /\ PushPrologue
  /\ UNCHANGED <<items, status, if_not_backfill, whileStacks, symbols,
                 nesting, errorFree>>

\* The compiler has written its output, or crashed.
Done == status # "parsing" /\ UNCHANGED vars

Next ==
  \/ \E p \in Productions : Expand(p)
  \/ Shift
  \/ Default \/ Declare \/ ProcedureHeader \/ ProcedureEnd
  \/ EmitSimple \/ ReadOperator \/ ApplyOperator
  \/ Assertion \/ Assign
  \/ IfHeader \/ IfEnd \/ WhileEntry \/ WhileHeader \/ WhileEnd
  \/ Succeed \/ SyntaxErrorFound \/ LexicalError
  \/ Done

Spec == Init /\ [][Next]_vars
----------------------------------------------------------------------------
(***************************************************************************)
(* Properties.                                                             *)
(***************************************************************************)

\* Instructions that still need their operand.
Placeholders == {a \in Addresses : At(a).type \in {"INT", "JMP", "JPC"} /\ At(a).a = 0}

\* The addresses the stacks remember for filling in later.
Remembered ==
  proc_int_backfill \o if_not_backfill \o while_not_backfill
    \o [k \in DOMAIN proc_body_backfill |-> proc_body_backfill[k].jmp_inst]

\* While the source is read, every instruction that lacks its operand is on
\* exactly one of the backfill stacks, exactly once, and nothing else is: an
\* operand is neither forgotten nor filled in twice, however procedures, ifs
\* and loops nest and wherever the lexer throws.
PlaceholdersQueued ==
  status = "parsing" => /\ ToSet(Remembered) = Placeholders
                        /\ IsInjective(Remembered)

\* A backfill stack is never empty when its top is used: by the end of a
\* procedure, which also changes the entry below, of an if, of a loop, and by
\* the main loop when the source ends.
BackfillReady ==
  /\ Reducing({"PROC"}) => proc_int_backfill # <<>> /\ Len(proc_body_backfill) >= 2
  /\ Reducing({"CONDITION"}) => if_not_backfill # <<>>
  /\ Reducing({"WHILE"}) => while_entry_backfill # <<>> /\ while_not_backfill # <<>>
  /\ status = "parsing" /\ ~Reading => proc_body_backfill # <<>>

\* In the finished code the INT and the JMP every procedure starts with have
\* their operands (comments at Assembler.cpp:49 and Assembler.cpp:53).
BlocksFilled ==
  status = "succeeded" =>
    \A b \in bodies : {Last(b[1]), Last(b[1]) + 1} \cap Placeholders = {}

\* In the finished code the JMP every block starts with goes to the code of
\* the block's own statement, over the code of the procedures declared in it.
BodiesReached ==
  status = "succeeded" => \A b \in bodies : At(Last(b[1]) + 1).a = b[2]

\* A call enters the code of a procedure at its first instruction, and the
\* level of the call counts the blocks from the caller out to the block the
\* procedure was declared in: following that many static links from the
\* caller's frame leads to the frame the callee's own static link must denote.
Outward(blocks, l) == SubSeq(blocks, 1, Len(blocks) - l)
StaticLinks ==
  clean => \A i \in DOMAIN code : code[i].type = "CAL" =>
    LET callee == code[i].a
    IN  /\ callee \in Addresses /\ At(callee).type = "INT"
        /\ owner[callee + 1] = Append(Outward(owner[i], code[i].l), callee)

\* When a name is looked up, the symbol table's open layers are the blocks
\* around the use of the name in the source.
Resolving == Simple \cup {"ASSIGN"}
ScopesMatch ==
  clean /\ Reducing(Resolving) =>
    /\ Len(layers) = Len(open)
    /\ \A d \in 2..Len(open) :
         layers[d - 1] # <<>> /\ layers[d - 1][1].address = open[d]

\* In the finished code every variable that is read or written lies in its
\* block's frame: behind the three links, and within the size that the INT of
\* the block reserves.
SlotsInFrame ==
  clean /\ status = "succeeded" =>
    \A i \in DOMAIN code : code[i].type \in {"LOD", "STO"} =>
      LET block == Last(Outward(owner[i], code[i].l))
      IN  code[i].a >= 3 /\ code[i].a < At(block).a

\* The source was read without an error of the lexer, and no block declares two
\* procedures: of two, the return of the first is emitted behind the code of
\* the second (see BodiesReached), and an error puts a second prologue in the
\* middle of a statement.
Plain ==
  /\ lexErrors = 0
  /\ \A b, c \in ToSet(owner) : Len(b) > 1 /\ Len(b) = Len(c) /\ Front(b) = Front(c) => b = c

\* In the finished code the instructions a condition guards are entered only
\* through the condition: from outside of them nothing jumps into them.  They
\* belong to one block.
Jumps == {a \in Addresses : At(a).type \in {"JMP", "JPC"}}
ConditionsGuard ==
  status = "succeeded" /\ Plain => \A c \in Jumps : At(c).type = "JPC" =>
    /\ c < At(c).a /\ At(c).a \in Addresses
    /\ \A a \in c..At(c).a : owner[a + 1] = owner[c + 1]
    /\ \A j \in Jumps : At(j).a \in (c + 1)..(At(c).a - 1) => j \in c..(At(c).a - 1)

\* In the finished code every jump back closes a loop: a condition between the
\* target and the jump leaves the loop to the instruction behind the jump.
LoopsLeave ==
  status = "succeeded" /\ Plain => \A j \in Jumps : At(j).a <= j =>
    \E c \in At(j).a..(j - 1) : At(c).type = "JPC" /\ At(c).a = j + 1

\* Values an instruction takes, and values it leaves, when every value that
\* is computed is used up by the instruction it is computed for.
Takes(i) == CASE i.type \in {"STO", "JPC"} -> 1
              [] i.type = "OPR" /\ i.a \in {OPR_ADD, OPR_SUB, OPR_MUL, OPR_DIV,
                   OPR_CMPE, OPR_CMPNE, OPR_CMPL, OPR_CMPGE, OPR_CMPG, OPR_CMPLE} -> 2
              [] i.type = "OPR" /\ i.a \in {OPR_ODD, OPR_WR} -> 1
              [] OTHER -> 0
Leaves(i) == IF i.type \in {"LIT", "LOD"} THEN 1
             ELSE IF i.type = "OPR" /\ i.a \in OPR_NOT..OPR_RD \ {OPR_WR, OPR_NL} THEN 1
             ELSE 0
\* Values computed and not used before the instruction at each address.
Pile[a \in 0..length] == IF a = 0 THEN 0
                        ELSE Pile[a - 1] - Takes(code[a]) + Leaves(code[a])

\* Every instruction finds the values it takes, and no statement leaves one
\* behind: where a jump, a call, a procedure or the end of one stands, none
\* is left over.  (Provided all names were found, as what uses an unknown name
\* emits nothing, and the lexer did not throw in the middle of a statement.)
OperandsReady ==
  resolved /\ lexErrors = 0 => \A a \in Addresses :
    /\ Takes(At(a)) <= Pile[a]
    /\ At(a).type \in {"INT", "CAL", "JMP", "JPC", "STO"} \/ At(a) = inst_t("OPR", 0, OPR_RET)
         => Takes(At(a)) = Pile[a]
============================================================================
