------------------------------ MODULE Assembler -----------------------------
(***************************************************************************)
(* From a ProtoSubroutine to the instructions a node controller runs:      *)
(* netqasm/lang/parsing/text.py (assemble_subroutine), the transpiler of   *)
(* the host's hardware if it has one, the instantiation of templates in    *)
(* subroutine.py, and the way through bytes of encoding.py and             *)
(* parsing/binary.py.  The machine then runs what came out.  The lexical   *)
(* part of the parser is left out: source is what it returns.              *)
(***************************************************************************)
EXTENDS Isa, TextAssembler, NvTranspiler, PauliFrames

CONSTANTS
  Sources,      \* the ProtoSubroutines
  Arguments,    \* values for their templates
  Coins,        \* measurement outcomes
  Targets,      \* of "vanilla", "nv" and "nv_hardware": what is compiled for
  MaxSteps      \* bound: instructions executed

ASSUME AssemblerAssumption ==
  /\ MaxSteps \in Nat
  /\ Places = 0 .. MaxQubits - 1
  /\ Targets \subseteq {"vanilla", "nv", "nv_hardware"}

VARIABLES
  source, arguments, machine, target,
  seen,    \* the machine when it last was between two commands of the source
  code,    \* the instructions
  origin,  \* for each of them, the source command it comes from
  phase,   \* "text", "assembled", or "rejected": assembling raised
  steps

vars == << source, arguments, machine, target, seen, code, origin, phase, steps >>

---------------------------------------------------------------------------

Init ==
  /\ source \in Sources /\ arguments \in Arguments /\ target \in Targets
  /\ \E c \in Coins : machine = Machine0(c) /\ seen = Machine0(c)
  /\ code = <<>> /\ origin = <<>> /\ phase = "text" /\ steps = 0

Flavour == IF target = "vanilla" THEN VanillaFlavour ELSE NVFlavour

Hardware == target = "nv_hardware"

\* The host serialises and sends the subroutine, and the node controller deserialises it.
Load(instrs) == DeserializeSubroutine(Flavour, SubroutineBytes(Flavour, Instantiate(instrs, arguments)))

Reject == phase' = "rejected" /\ UNCHANGED << code, origin >>

\* subrt_compile_subroutine: the subroutine as it is, or transpiled.
Transpiled(instrs, from) ==
  IF target = "vanilla" THEN code' = Load(instrs) /\ origin' = from
  ELSE LET mapped == MapInstructions(Hardware, instrs)
       IN  /\ code' = Load(Transpile(Hardware, instrs))
           /\ origin' = FlattenSeq([i \in DOMAIN mapped |-> [k \in DOMAIN mapped[i] |-> from[i]]])
                          \o [k \in DOMAIN NoOpAtEnd(instrs) |-> Len(source) + 1]

\* For each instruction that is assembled, the command it comes from.
Origins(cmds) ==
  LET replaced == ReplaceConstants(MakeArgsOperands(cmds))
  IN  FlattenSeq([i \in DOMAIN cmds |-> IF IsLabel(cmds[i]) THEN <<>> ELSE [k \in DOMAIN replaced[i] |-> i]])

\* assemble_subroutine, the transpiler, and the way to the node controller.
Compile ==
  /\ phase = "text"
  /\ IF CanAssemble(source) /\ (target # "vanilla" => CanTranspile(Hardware, Assembled(source)))
       THEN phase' = "assembled" /\ Transpiled(Assembled(source), Origins(source))
       ELSE Reject
  /\ UNCHANGED << source, arguments, machine, target, seen, steps >>

\* Is the machine between two commands of the source?
Between(m) ==
  \/ m.pc \in {0, Len(code)} \/ m.status # "running"
  \/ origin[m.pc + 1] # origin[m.pc]

Execute ==
  /\ phase = "assembled" /\ machine.status = "running" /\ steps < MaxSteps
  /\ machine' = StepCommands(machine, code)
  /\ seen' = IF Between(machine') THEN machine' ELSE seen
  /\ steps' = steps + 1
  /\ UNCHANGED << source, arguments, target, code, origin, phase >>

Next == Compile \/ Execute

Spec == Init /\ [][Next]_vars

---------------------------------------------------------------------------
(* What the assembler promises.                                            *)

\* The registers the program names: the others are the assembler's.
NamedRegisters == CurrentRegisters(MakeArgsOperands(source))

\* The first line that is not a label, or the end.
FirstCommand(cmds) ==
  CHOOSE n \in 1 .. Len(cmds) + 1 :
    (n = Len(cmds) + 1 \/ ~ IsLabel(cmds[n])) /\ \A k \in 1 .. n - 1 : IsLabel(cmds[k])

SourcePosition ==
  CASE phase # "assembled" -> FirstCommand(source)
    [] phase = "assembled" /\ seen.pc < Len(code) -> origin[seen.pc + 1]
    [] OTHER -> Len(source) + 1

Program == INSTANCE SourceProgram WITH machine <-
  [seen EXCEPT !.pc = SourcePosition,
               !.regs = [r \in DOMAIN @ \cap NamedRegisters |-> @[r]]]

\* The compiled, serialised and deserialised subroutine does, command for command,
\* what the text says: expanded constants, branch targets, templates, the gates of
\* another flavour and encodings change nothing the program can see (text.py,
\* transpile.py, subroutine.py, encoding.py).
RunsAsWritten == Program!Spec

---------------------------------------------------------------------------
(* What programs keep to, and no line of the assembler enforces.           *)

Operands(cmd) == cmd.args \o cmd.operands

\* The parts of an operand that say where in an array it is.
Indexing(op) ==
  CASE op.kind = "entry" -> {op.index} [] op.kind = "slice" -> {op.start, op.stop} [] OTHER -> {}

\* The operands that a command writes, or gives to the host by their names.
Written(mnemonic) ==
  CASE mnemonic \in {"set", "load", "lea", "add", "sub", "addm", "subm", "ret_reg"} -> {1}
    [] mnemonic = "meas" -> {2}
    [] OTHER -> {}

\* get_current_registers does not see a register that only indexes an array, so a command
\* with constants may overwrite it; nobody checks that a branch goes to a label and a label
\* is the target of a branch; a constant where a register is written gets a register too.
WellWritten(cmds) ==
  \A i \in DOMAIN cmds : ~ IsLabel(cmds[i]) =>
    LET operands == Operands(cmds[i])
    IN  \A j \in DOMAIN operands :
          /\ \A r \in Indexing(operands[j]) : r.kind = "reg" => r \in CurrentRegisters(MakeArgsOperands(cmds))
          /\ (operands[j].kind = "label") <=> (cmds[i].mnemonic \in Branches /\ j = Len(operands))
          /\ j \in Written(cmds[i].mnemonic) => operands[j].kind = "reg"

IsSequence(s) == s \in Seq(ToSet(s))

\* What the parser returns: labels, and commands with two lists.
Parsed(cmds) ==
  /\ IsSequence(cmds)
  /\ \A i \in DOMAIN cmds : ~ IsLabel(cmds[i]) => IsSequence(cmds[i].args) /\ IsSequence(cmds[i].operands)

SourcesAreWellWritten ==
  \A s \in Sources : Parsed(s) /\
    (CanAssemble(s) => /\ WellWritten(s)
                       /\ \A a \in Arguments : \A i \in DOMAIN Assembled(s) :
                            FitsItsFields(Instantiate(Assembled(s), a)[i]))
=============================================================================
