---------------------------- MODULE Instructions ----------------------------
(***************************************************************************)
(* The instruction classes of NetQASM and their binary form                *)
(* (netqasm/lang/instr, encoding.py, operand.py, parsing/binary.py).       *)
(*                                                                         *)
(* An instruction is its mnemonic and its operands.  A class of base.py is *)
(* its layout: the kinds of its operands, in the order of the fields of    *)
(* its command structure.  A byte is a number below 256.                   *)
(***************************************************************************)
EXTENDS Integers, Sequences, SequencesExt

---------------------------------------------------------------------------
(* Operands.  An index is a register; in a ProtoSubroutine also a number.  *)

RegisterName == [R |-> 0, C |-> 1, Q |-> 2, M |-> 3]

Register(name, index)  == [kind |-> "reg", name |-> name, index |-> index]
Immediate(v)           == [kind |-> "imm", value |-> v]
Address(a)             == [kind |-> "addr", value |-> a]
ArrayEntry(a, i)       == [kind |-> "entry", addr |-> a, index |-> i]
ArraySlice(a, s, t)    == [kind |-> "slice", addr |-> a, start |-> s, stop |-> t]
Label(name)            == [kind |-> "label", label |-> name]
Template(name)         == [kind |-> "template", template |-> name]

---------------------------------------------------------------------------
(* The layouts of base.py: imm is an 8-bit field, int a 32-bit one.        *)

NoOperandInstruction       == <<>>
RegInstruction             == <<"reg">>
RegRegInstruction          == <<"reg", "reg">>
RegImmImmInstruction       == <<"reg", "imm", "imm">>
RegRegImmImmInstruction    == <<"reg", "reg", "imm", "imm">>
RegRegImm4Instruction      == <<"reg", "reg", "imm", "imm", "imm", "imm">>
RegRegRegInstruction       == <<"reg", "reg", "reg">>
RegRegRegRegInstruction    == <<"reg", "reg", "reg", "reg">>
ImmInstruction             == <<"int">>
ImmImmInstruction          == <<"imm", "imm">>
RegRegImmInstruction       == <<"reg", "reg", "int">>
RegImmInstruction          == <<"reg", "int">>
RegEntryInstruction        == <<"reg", "entry">>
RegAddrInstruction         == <<"reg", "addr">>
ArrayEntryInstruction      == <<"entry">>
ArraySliceInstruction      == <<"slice">>
AddrInstruction            == <<"addr">>
Reg5Instruction            == <<"reg", "reg", "reg", "reg", "reg">>

SingleQubitInstruction     == RegInstruction
TwoQubitInstruction        == RegRegInstruction
RotationInstruction        == RegImmImmInstruction
ControlledRotationInstruction == RegRegImmImmInstruction
ClassicalOpInstruction     == RegRegRegInstruction
ClassicalOpModInstruction  == RegRegRegRegInstruction

---------------------------------------------------------------------------
(* The classes of an instruction set: opcode, mnemonic, layout.            *)

Class(id, mnemonic, layout) == [id |-> id, mnemonic |-> mnemonic, layout |-> layout]

MemoryClasses ==
  { Class(1, "qalloc", RegInstruction),    Class(2, "init", RegInstruction),
    Class(3, "array", RegAddrInstruction), Class(4, "set", RegImmInstruction),
    Class(5, "store", RegEntryInstruction), Class(6, "load", RegEntryInstruction),
    Class(7, "undef", ArrayEntryInstruction), Class(8, "lea", RegAddrInstruction) }

BranchClasses ==
  { Class(9, "jmp", ImmInstruction),
    Class(10, "bez", RegImmInstruction),    Class(11, "bnz", RegImmInstruction),
    Class(12, "beq", RegRegImmInstruction), Class(13, "bne", RegRegImmInstruction),
    Class(14, "blt", RegRegImmInstruction), Class(15, "bge", RegRegImmInstruction) }

ArithmeticClasses ==
  { Class(16, "add", ClassicalOpInstruction),     Class(17, "sub", ClassicalOpInstruction),
    Class(18, "addm", ClassicalOpModInstruction), Class(19, "subm", ClassicalOpModInstruction) }

MeasureClasses ==
  { Class(32, "meas", RegRegInstruction), Class(41, "meas_basis", RegRegImm4Instruction) }

EprClasses ==
  { Class(33, "create_epr", Reg5Instruction), Class(34, "recv_epr", RegRegRegRegInstruction) }

WaitAndReturnClasses ==
  { Class(35, "wait_all", ArraySliceInstruction), Class(36, "wait_any", ArraySliceInstruction),
    Class(37, "wait_single", ArrayEntryInstruction), Class(38, "qfree", RegInstruction),
    Class(39, "ret_reg", RegInstruction), Class(40, "ret_arr", AddrInstruction),
    Class(100, "breakpoint", ImmImmInstruction) }

CORE_INSTRUCTIONS == MemoryClasses \cup BranchClasses \cup ArithmeticClasses
                       \cup MeasureClasses \cup EprClasses \cup WaitAndReturnClasses

VanillaFlavour ==
  { Class(20, "x", SingleQubitInstruction), Class(21, "y", SingleQubitInstruction),
    Class(22, "z", SingleQubitInstruction), Class(23, "h", SingleQubitInstruction),
    Class(24, "s", SingleQubitInstruction), Class(25, "k", SingleQubitInstruction),
    Class(26, "t", SingleQubitInstruction), Class(27, "rot_x", RotationInstruction),
    Class(28, "rot_y", RotationInstruction), Class(29, "rot_z", RotationInstruction),
    Class(30, "cnot", TwoQubitInstruction), Class(31, "cphase", TwoQubitInstruction),
    Class(41, "mov", TwoQubitInstruction) }

NVFlavour ==
  { Class(27, "rot_x", RotationInstruction), Class(28, "rot_y", RotationInstruction),
    Class(29, "rot_z", RotationInstruction),
    Class(30, "crot_x", ControlledRotationInstruction),
    Class(31, "crot_y", ControlledRotationInstruction) }

\* Flavour.id_map and name_map: the instructions of the flavour replace those of
\* the core that have the same opcode, or the same mnemonic.
GetInstrById(flavour, id) ==
  IF \E c \in flavour : c.id = id THEN CHOOSE c \in flavour : c.id = id
                                  ELSE CHOOSE c \in CORE_INSTRUCTIONS : c.id = id

HasName(flavour, name) == \E c \in flavour \cup CORE_INSTRUCTIONS : c.mnemonic = name

GetInstrByName(flavour, name) ==
  IF \E c \in flavour : c.mnemonic = name
    THEN CHOOSE c \in flavour : c.mnemonic = name
    ELSE CHOOSE c \in CORE_INSTRUCTIONS : c.mnemonic = name

---------------------------------------------------------------------------
(* The bytes of an operand.                                                *)

COMMAND_BYTES == 7

RegisterByte(r) == RegisterName[r.name] + 4 * (r.index % 16)

ByteRegister(b) == Register(CHOOSE n \in DOMAIN RegisterName : RegisterName[n] = b % 4,
                            (b \div 4) % 16)

\* A C integer of 32 bits, least significant byte first.
IntegerBytes(v) == << v % 256, (v \div 256) % 256, (v \div 65536) % 256, (v \div 16777216) % 256 >>

BytesInteger(b) == b[1] + 256 * b[2] + 65536 * b[3]
                     + 16777216 * (IF b[4] >= 128 THEN b[4] - 256 ELSE b[4])

FieldBytes(field, op) ==
  CASE field = "reg"   -> << RegisterByte(op) >>
    [] field = "imm"   -> << op.value % 256 >>
    [] field = "int"   -> IntegerBytes(op.value)
    [] field = "addr"  -> IntegerBytes(op.value)
    [] field = "entry" -> IntegerBytes(op.addr) \o << RegisterByte(op.index) >>
    [] field = "slice" -> IntegerBytes(op.addr) \o << RegisterByte(op.start), RegisterByte(op.stop) >>

FieldSize(field) ==
  CASE field \in {"reg", "imm"}  -> 1
    [] field \in {"int", "addr"} -> 4
    [] field = "entry"           -> 5
    [] field = "slice"           -> 6

FieldValue(field, b) ==
  CASE field = "reg"   -> ByteRegister(b[1])
    [] field = "imm"   -> Immediate(b[1])
    [] field = "int"   -> Immediate(BytesInteger(b))
    [] field = "addr"  -> Address(BytesInteger(b))
    [] field = "entry" -> ArrayEntry(BytesInteger(b), ByteRegister(b[5]))
    [] field = "slice" -> ArraySlice(BytesInteger(b), ByteRegister(b[5]), ByteRegister(b[6]))

\* The values a field keeps whole: ctypes cuts off what does not fit.
KeepsRegister(op) ==
  op.kind = "reg" /\ op = Register(op.name, op.index)
    /\ op.name \in DOMAIN RegisterName /\ op.index \in 0 .. 15

IsInt32(v) == v \in Int /\ -2147483647 - 1 <= v /\ v <= 2147483647

FieldKeeps(field, op) ==
  CASE field = "reg"   -> KeepsRegister(op)
    [] field = "imm"   -> op = Immediate(op.value) /\ op.value \in 0 .. 255
    [] field = "int"   -> op = Immediate(op.value) /\ IsInt32(op.value)
    [] field = "addr"  -> op = Address(op.value) /\ IsInt32(op.value)
    [] field = "entry" -> op = ArrayEntry(op.addr, op.index) /\ IsInt32(op.addr) /\ KeepsRegister(op.index)
    [] field = "slice" -> op = ArraySlice(op.addr, op.start, op.stop) /\ IsInt32(op.addr)
                            /\ KeepsRegister(op.start) /\ KeepsRegister(op.stop)

---------------------------------------------------------------------------
(* The bytes of an instruction, padded to the size all commands have.      *)

Pad(bytes) == bytes \o [i \in 1 .. COMMAND_BYTES - Len(bytes) |-> 0]

Serialize(flavour, instr) ==
  LET class == GetInstrByName(flavour, instr.mnemonic)
  IN  Pad(<< class.id >> \o FlattenSeq([i \in DOMAIN instr.operands |->
                                          FieldBytes(class.layout[i], instr.operands[i])]))

\* The bytes before the i-th field, the opcode included.
FieldOffset(layout, i) == FoldLeft(LAMBDA n, f : n + FieldSize(f), 1, SubSeq(layout, 1, i - 1))

DeserializeCommand(flavour, raw) ==
  LET class  == GetInstrById(flavour, raw[1])
      field(i) == SubSeq(raw, FieldOffset(class.layout, i) + 1, Len(raw))
  IN  [mnemonic |-> class.mnemonic,
       operands |-> [i \in DOMAIN class.layout |-> FieldValue(class.layout[i], field(i))]]

\* A subroutine as a message carries it, and as the node controller reads it.
SubroutineBytes(flavour, instrs) == [i \in DOMAIN instrs |-> Serialize(flavour, instrs[i])]

DeserializeSubroutine(flavour, raw) == [i \in DOMAIN raw |-> DeserializeCommand(flavour, raw[i])]

\* from_operands asserts the kinds of the operands.
OperandFits(field, op) == op.kind = (IF field = "int" THEN "imm" ELSE field)

\* The angle of a rotation may be a template.
FromOperands(class, operands) ==
  /\ Len(operands) = Len(class.layout)
  /\ \A i \in DOMAIN operands :
       \/ OperandFits(class.layout[i], operands[i])
       \/ class.layout = RotationInstruction /\ i > 1 /\ operands[i].kind = "template"
=============================================================================
