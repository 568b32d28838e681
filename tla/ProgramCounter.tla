--------------------------- MODULE ProgramCounter ---------------------------
(***************************************************************************)
(* Where the interpreter goes on (Interpreter::execute).  It reads a       *)
(* method's code byte by byte: an instruction leaves the program counter   *)
(* at the next one only if it has read as many bytes as its class file has *)
(* for it; jumps are relative to the opcode, the tables of a switch begin  *)
(* at the next multiple of four, and a subroutine returns to the number    *)
(* that JSR has pushed.  Java goes from one instruction of the program to  *)
(* another.                                                                *)
(*                                                                         *)
(* A thread that must be stopped for the collector is stopped only where   *)
(* the code has a SAFEPOINT.                                               *)
(***************************************************************************)
EXTENDS Integers, Sequences, SequencesExt, FiniteSetsExt, TLC

CONSTANTS
  Codes,     \* the programs: see IsCode
  Radix,     \* the number of values of a byte
  Operands   \* the values that a switch may find

-----------------------------------------------------------------------------
(* The lengths of instructions in the interpreter, by the initials of      *)
(* their names.                                                            *)

Bytes(n, names) == [name \in names |-> n]

\* An instruction with a local variable, and the forms with its number 0 to 3.
Forms(name) == Bytes(2, {name}) @@ Bytes(1, {name \o "_n"})

\* Mutation: the bytes of the dimensions are not skipped.
LengthAShort ==
  Bytes(1, {"aaload", "aastore", "aconst_null", "arraylength"}) @@ Forms("aload")
  @@ Bytes(2, {"anewarray"})

LengthA ==
  Bytes(1, {"aaload", "aastore", "aconst_null", "arraylength"}) @@ Forms("aload")
  @@ Bytes(3, {"anewarray"})

LengthB ==
  Forms("astore") @@ Bytes(1, {"baload", "bastore", "caload", "castore"})
  @@ Bytes(2, {"bipush"}) @@ Bytes(3, {"checkcast"})

LengthD ==
  Bytes(1, {"d2f", "d2i", "d2l", "dadd", "daload", "dastore", "dcmp", "dconst", "ddiv", "dmul"})
  @@ Forms("dload")

LengthDup ==
  Bytes(1, {"dneg", "drem", "dsub", "dup", "dup_x1", "dup_x2", "dup2"}) @@ Forms("dstore")

LengthDup2 ==
  Bytes(1, {"dup2_x1", "dup2_x2", "f2d", "f2i", "f2l", "fadd", "faload", "fastore"})

LengthF ==
  Bytes(1, {"fcmp", "fconst", "fdiv", "fmul", "fneg", "frem", "fsub"})
  @@ Forms("fload") @@ Forms("fstore")

LengthG ==
  Bytes(3, {"getfield", "getstatic"})
  @@ Bytes(1, {"i2b", "i2c", "i2d", "i2f", "i2l", "i2s", "iadd", "iaload", "iand", "iastore"})

LengthI == Bytes(1, {"iconst", "idiv"})

LengthIInc ==
  Bytes(3, {"iinc"}) @@ Forms("iload") @@ Bytes(1, {"imul", "ineg"}) @@ Bytes(3, {"instanceof"})

LengthInvoke == Bytes(5, {"invokeinterface"}) @@ Bytes(3, {"invokespecial", "invokestatic", "invokevirtual"})

LengthIOr ==
  Bytes(1, {"ior", "irem", "ishl", "ishr", "isub", "iushr", "ixor"}) @@ Forms("istore")

LengthL ==
  Bytes(1, {"l2d", "l2f", "l2i", "ladd", "laload", "land", "lastore", "lcmp", "lconst"})

LengthLdc ==
  Bytes(2, {"ldc"}) @@ Bytes(3, {"ldc_w", "ldc2_w"}) @@ Bytes(1, {"ldiv"})

LengthLLoad == Forms("lload") @@ Bytes(1, {"lmul", "lneg"})

LengthLOr ==
  Bytes(1, {"lor", "lrem", "lshl", "lshr", "lsub", "lushr", "lxor"}) @@ Forms("lstore")

LengthM ==
  Bytes(1, {"monitorenter", "monitorexit"}) @@ Bytes(4, {"multianewarray"})
  @@ Bytes(3, {"new"}) @@ Bytes(2, {"newarray"})

LengthP == Bytes(1, {"nop", "pop", "pop2"}) @@ Bytes(3, {"putfield", "putstatic"})

LengthS == Bytes(1, {"saload", "sastore", "swap"}) @@ Bytes(3, {"sipush"})

InterpreterLength ==
  LengthA @@ LengthB @@ LengthD @@ LengthDup @@ LengthDup2 @@ LengthF @@ LengthG @@ LengthI
  @@ LengthIInc @@ LengthInvoke @@ LengthIOr @@ LengthL @@ LengthLdc @@ LengthLLoad
  @@ LengthLOr @@ LengthM @@ LengthP @@ LengthS

Straight == DOMAIN InterpreterLength
Branch == {"if", "goto", "jsr"}
WideBranch == {"goto_w", "jsr_w"}
Switch == {"tableswitch", "lookupswitch"}
End == {"return", "athrow"}
Unknown == {"wide", "invokedynamic"}

-----------------------------------------------------------------------------
(* Code as a class file has it.                                            *)

Calls == {"invokeinterface", "invokespecial", "invokestatic", "invokevirtual"}

\* Instructions with operands, by the bytes that these take.
OneByte ==
  {"aload", "astore", "bipush", "dload", "dstore", "fload", "fstore", "iload", "istore",
   "ldc", "lload", "lstore", "newarray", "ret"}
TwoBytes ==
  {"anewarray", "checkcast", "getfield", "getstatic", "iinc", "instanceof", "invokespecial",
   "invokestatic", "invokevirtual", "ldc_w", "ldc2_w", "new", "putfield", "putstatic", "sipush"}
  \cup Branch
FourBytes == {"invokeinterface"} \cup WideBranch

\* The padding of a switch whose opcode is at address a (the first is 0).
Padding(a) == (4 - ((a + 1) % 4)) % 4

\* An instruction is [op, to]: the instructions that it may jump to.  A switch
\* also has keys, in their order; its default is the first of to.
JavaLength(instruction, a) ==
  CASE instruction.op \in OneByte -> 2
    [] instruction.op \in TwoBytes -> 3
    [] instruction.op \in FourBytes -> 5
    [] instruction.op = "multianewarray" -> 4
    [] instruction.op = "tableswitch" -> 13 + Padding(a) + 4 * Len(instruction.keys)
    [] instruction.op = "lookupswitch" -> 9 + Padding(a) + 8 * Len(instruction.keys)
    [] OTHER -> 1

\* The addresses of the instructions.
Addresses(code) ==
  LET address[i \in 1 .. Len(code) + 1] ==
        IF i = 1 THEN 0 ELSE address[i - 1] + JavaLength(code[i - 1], address[i - 1])
  IN address

\* A number as n bytes, the highest first.
Big(v, n) == [k \in 1 .. n |-> (v \div Radix ^ (n - k)) % Radix]

OpcodeByte == 1   \* what the opcodes are does not matter here

AsBytes(code, i) ==
  LET a == Addresses(code)[i]
      instruction == code[i]
      offset(k) == Addresses(code)[instruction.to[k]] - a
      keys == instruction.keys
  IN <<OpcodeByte>> \o
     CASE instruction.op \in Branch -> Big(offset(1), 2)
       [] instruction.op \in WideBranch -> Big(offset(1), 4)
       [] instruction.op = "tableswitch" ->
            [k \in 1 .. Padding(a) |-> 0] \o Big(offset(1), 4)
            \o Big(keys[1], 4) \o Big(keys[Len(keys)], 4)
            \o FlattenSeq([k \in 1 .. Len(keys) |-> Big(offset(k + 1), 4)])
       [] instruction.op = "lookupswitch" ->
            [k \in 1 .. Padding(a) |-> 0] \o Big(offset(1), 4) \o Big(Len(keys), 4)
            \o FlattenSeq([k \in 1 .. Len(keys) |-> Big(keys[k], 4) \o Big(offset(k + 1), 4)])
       [] OTHER -> [k \in 1 .. JavaLength(instruction, a) - 1 |-> 0]

ClassFile(code) == FlattenSeq([i \in DOMAIN code |-> AsBytes(code, i)])

IsCode(code) ==
  \A i \in DOMAIN code :
    /\ code[i].op \in Straight \cup Branch \cup WideBranch \cup Switch \cup End \cup Unknown \cup {"ret"}
    /\ code[i].to \in Seq(DOMAIN code)
    /\ code[i].op \in Switch =>
         Len(code[i].to) = Len(code[i].keys) + 1 /\ code[i].keys \in Seq(Int)

IsSetting ==
  /\ Radix \in Nat \ {0, 1} /\ Operands \subseteq Int
  /\ \A code \in Codes : IsCode(code)

-----------------------------------------------------------------------------
VARIABLES
  program,      \* one of Codes
  currentCode,  \* the program counter
  returnPc,     \* the return address in the local variable of the method, or -1
  at,           \* the instruction at which Java is
  javaReturn,   \* the instruction after Java's last JSR, or -1
  passed,       \* the addresses reached since the last safepoint; none, once one
                \* of them is reached again without another
  state         \* of the interpreter: "running", "returned", "killed"

vars == <<program, currentCode, returnPc, at, javaReturn, passed, state>>

\* The bytes that the interpreter reads.
Byte(a) == ClassFile(program)[a + 1]

Unsigned(a, n) ==
  LET number[k \in 0 .. n] == IF k = 0 THEN 0 ELSE number[k - 1] * Radix + Byte(a + k - 1)
  IN number[n]

\* Bytes that are put together as an int16_t or an int32_t.
Number(a, n) ==
  IF 2 * Unsigned(a, n) < Radix ^ n THEN Unsigned(a, n) ELSE Unsigned(a, n) - Radix ^ n

\* The instruction that the interpreter finds.
Op == program[at]
Running(ops) == state = "running" /\ Addresses(program)[at] = currentCode /\ Op.op \in ops

NoPoll ==
  passed' = IF currentCode' \in passed THEN {} ELSE passed \cup {currentCode'}

\* SAFEPOINT
Polls == passed' = {currentCode'}

GoOn(pc, i) == currentCode' = pc /\ at' = i
Stays == UNCHANGED <<program, returnPc, javaReturn, state>>

\* An instruction that does not jump; of these only calls have a SAFEPOINT.
GoStraight ==
  /\ Running(Straight)
  /\ GoOn(currentCode + InterpreterLength[Op.op], at + 1)
  /\ IF Op.op \in Calls THEN Polls ELSE NoPoll
  /\ Stays

\* IF, IFXNULL, IF_ACMP, IF_ICMP: the branch is taken or not.
\* Mutation: a branch that is not taken has skipped one byte too few.
SkippedShort == 2

Skipped == 3

If ==
  /\ Running({"if"})
  /\ \/ GoOn(currentCode + Number(currentCode + 1, 2), Op.to[1])
     \/ GoOn(currentCode + Skipped, at + 1)
  /\ Polls /\ Stays

\* GOTO, GOTO_W
Goto ==
  /\ Running({"goto", "goto_w"})
  /\ GoOn(currentCode + Number(currentCode + 1, IF Op.op = "goto" THEN 2 ELSE 4), Op.to[1])
  /\ Polls /\ Stays

\* JSR, JSR_W, and the store that follows in any subroutine.
Jsr ==
  /\ Running({"jsr", "jsr_w"})
  /\ LET n == IF Op.op = "jsr" THEN 2 ELSE 4
     IN /\ GoOn(currentCode + Number(currentCode + 1, n), Op.to[1])
        /\ returnPc' = currentCode + 1 + n
  /\ javaReturn' = at + 1
  /\ Polls /\ UNCHANGED <<program, state>>

Ret ==
  /\ Running({"ret"}) /\ returnPc # -1
  /\ GoOn(returnPc, javaReturn)
  /\ NoPoll /\ Stays

\* The table of a switch, where the defaults are.
\* Mutation: the table begins behind at least one byte of padding.
TableLate == ((currentCode + 4) \div 4) * 4 + 4

Table == ((currentCode + 1 + 3) \div 4) * 4

\* What Java has for the operand.
JavaCase(v) ==
  LET found == {k \in DOMAIN Op.keys : Op.keys[k] = v}
  IN IF found = {} THEN Op.to[1] ELSE Op.to[Min(found) + 1]

TableOffset(v) ==
  LET low == Number(Table + 4, 4)
      high == Number(Table + 8, 4)
  IN IF v < low \/ v > high THEN Number(Table, 4) ELSE Number(Table + 12 + 4 * (v - low), 4)

Tableswitch(v) ==
  /\ Running({"tableswitch"})
  /\ GoOn(currentCode + TableOffset(v), JavaCase(v))
  /\ NoPoll /\ Stays

\* The pairs are tried in their order.
PairOffset(v) ==
  LET matching == {i \in 0 .. Number(Table + 4, 4) - 1 : Number(Table + 8 + 8 * i, 4) = v}
  IN Number(IF matching = {} THEN Table ELSE Table + 12 + 8 * Min(matching), 4)

Lookupswitch(v) ==
  /\ Running({"lookupswitch"})
  /\ GoOn(currentCode + PairOffset(v), JavaCase(v))
  /\ NoPoll /\ Stays

\* ATHROW, with a handler in the method.
Athrow ==
  /\ Running({"athrow"}) /\ Op.to # <<>>
  /\ GoOn(Addresses(program)[Op.to[1]], Op.to[1])
  /\ Polls /\ Stays

Ends(how) ==
  /\ state' = how
  /\ UNCHANGED <<program, currentCode, returnPc, at, javaReturn, passed>>

Return ==
  \/ Running({"return"}) /\ Ends("returned")
  \/ Running({"athrow"}) /\ Op.to = <<>> /\ Ends("returned")

\* WIDE and INVOKEDYNAMIC end the virtual machine.
Unimplemented == Running(Unknown) /\ Ends("killed")

Init ==
  /\ program \in Codes
  /\ currentCode = 0 /\ at = 1 /\ returnPc = -1 /\ javaReturn = -1
  /\ passed = {0} /\ state = "running"

Next ==
  \/ GoStraight \/ If \/ Goto \/ Jsr \/ Ret \/ Athrow \/ Return \/ Unimplemented
  \/ \E v \in Operands : Tableswitch(v) \/ Lookupswitch(v)

Spec == Init /\ [][Next]_vars

-----------------------------------------------------------------------------
(* Properties.                                                             *)

TypeOK ==
  /\ program \in Codes /\ currentCode \in Nat /\ at \in 1 .. Len(program)
  /\ returnPc \in Int /\ javaReturn \in Int /\ passed \subseteq Nat
  /\ state \in {"running", "returned", "killed"}

\* After any number of instructions, jumps, switches and subroutines, backwards
\* and forwards, the interpreter is at the instruction at which Java is.  (The
\* types of the variables are checked on the way.)
GoesWhereJavaGoes == TypeOK /\ currentCode = Addresses(program)[at]

\* A thread that goes in circles passes a SAFEPOINT in each of them, so that the
\* collector does not wait for it in vain; unless it goes back by a switch.
BackBySwitch ==
  \E i \in DOMAIN program :
    program[i].op \in Switch /\ \E k \in DOMAIN program[i].to : program[i].to[k] <= i

CirclesArePolled == passed = {} => BackBySwitch
=============================================================================
