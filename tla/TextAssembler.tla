---------------------------- MODULE TextAssembler ---------------------------
(***************************************************************************)
(* From a ProtoSubroutine to a Subroutine: the passes of                   *)
(* assemble_subroutine in netqasm/lang/parsing/text.py, and the            *)
(* instantiation of templates in subroutine.py.                            *)
(***************************************************************************)
EXTENDS Instructions

CONSTANT NumRegisters   \* registers of a kind, 2 ** REG_INDEX_BITS

ASSUME RegistersAssumption == NumRegisters \in 1 .. 16

---------------------------------------------------------------------------
(* The passes of assemble_subroutine.                                      *)

IsLabel(cmd) == cmd.mnemonic = "label"

Cmd(mnemonic, operands) == [mnemonic |-> mnemonic, args |-> <<>>, operands |-> operands]

MakeArgsOperands(cmds) ==
  [i \in DOMAIN cmds |->
     IF IsLabel(cmds[i]) THEN cmds[i] ELSE Cmd(cmds[i].mnemonic, cmds[i].args \o cmds[i].operands)]

\* Numbers that stay numbers: (instruction, operand position) of _REPLACE_CONSTANTS_EXCEPTION.
KeepsConstant(mnemonic, j) ==
  \/ mnemonic \in {"set", "bez", "bnz"} /\ j = 2
  \/ mnemonic = "jmp" /\ j = 1
  \/ mnemonic \in {"beq", "bne", "blt", "bge"} /\ j = 3
  \/ mnemonic = "breakpoint" /\ j \in {1, 2}
  \/ mnemonic \in {"rot_x", "rot_y", "rot_z"} /\ j \in {2, 3}
  \/ mnemonic \in {"crot_x", "crot_y", "crot_z"} /\ j \in {3, 4}
  \/ mnemonic = "meas_basis" /\ j \in 3 .. 6

\* The registers that occur as operands; those that only index an array are not looked at.
CurrentRegisters(cmds) ==
  { op \in UNION { ToSet(cmds[i].operands) : i \in { j \in DOMAIN cmds : ~ IsLabel(cmds[j]) } } :
      op.kind = "reg" }

\* The places of a command that hold a constant which needs a register, in order.
ConstantSlots(cmd) ==
  LET slot(j, attr, op) == IF op.kind = "imm" THEN << << j, attr >> >> ELSE <<>>
  IN  FlattenSeq([j \in DOMAIN cmd.operands |->
        LET op == cmd.operands[j]
        IN  CASE op.kind = "entry" -> slot(j, "index", op.index)
              [] op.kind = "slice" -> slot(j, "start", op.start) \o slot(j, "stop", op.stop)
              [] OTHER -> IF KeepsConstant(cmd.mnemonic, j) THEN <<>> ELSE slot(j, "self", op)])

SlotValue(cmd, slot) ==
  IF slot[2] = "self" THEN cmd.operands[slot[1]] ELSE cmd.operands[slot[1]][slot[2]]

\* Operand j of a command, with the registers of temporary for the constants.
FillSlots(j, op, temporary) ==
  LET filled(attr, part) == IF << j, attr >> \in DOMAIN temporary THEN temporary[<< j, attr >>] ELSE part
  IN  CASE op.kind = "entry" -> ArrayEntry(op.addr, filled("index", op.index))
        [] op.kind = "slice" -> ArraySlice(op.addr, filled("start", op.start), filled("stop", op.stop))
        [] OTHER -> filled("self", op)

\* The registers R a set may use: those that no command names, lowest first.
FreeRegisters(cmds) ==
  LET current == CurrentRegisters(cmds)
  IN  FlattenSeq([i \in 1 .. NumRegisters |->
        IF Register("R", i - 1) \in current THEN <<>> ELSE << Register("R", i - 1) >>])

\* A command, after the sets that load its constants.
ExpandCommand(cmd, free) ==
  LET slots == ConstantSlots(cmd)
      temporary == [slot \in ToSet(slots) |-> free[CHOOSE k \in DOMAIN slots : slots[k] = slot]]
  IN  IF IsLabel(cmd) THEN << cmd >>
      ELSE [k \in DOMAIN slots |-> Cmd("set", << temporary[slots[k]], SlotValue(cmd, slots[k]) >>)]
             \o << Cmd(cmd.mnemonic, [j \in DOMAIN cmd.operands |-> FillSlots(j, cmd.operands[j], temporary)]) >>

EnoughRegisters(cmds) ==
  LET free == FreeRegisters(cmds)
  IN  \A i \in DOMAIN cmds : IsLabel(cmds[i]) \/ Len(ConstantSlots(cmds[i])) <= Len(free)

\* For each command of the source, what replaces it.
ReplaceConstants(cmds) ==
  LET free == FreeRegisters(cmds) IN [i \in DOMAIN cmds |-> ExpandCommand(cmds[i], free)]

LabelsUnique(cmds) ==
  \A i, j \in DOMAIN cmds :
    IsLabel(cmds[i]) /\ IsLabel(cmds[j]) /\ cmds[i].label = cmds[j].label => i = j

\* The lines of labels are removed.
WithoutLabels(cmds) ==
  FlattenSeq([i \in DOMAIN cmds |-> IF IsLabel(cmds[i]) THEN <<>> ELSE << cmds[i] >>])

\* A label stands for the number of the line after it.
AssignBranchLabels(cmds) ==
  LET line(i) == Len(WithoutLabels(SubSeq(cmds, 1, i - 1)))
      labels  == { i \in DOMAIN cmds : IsLabel(cmds[i]) }
      update(op) ==
        IF op.kind = "label" /\ \E i \in labels : cmds[i].label = op.label
          THEN Immediate(line(CHOOSE i \in labels : cmds[i].label = op.label))
          ELSE op
      updated(c) == IF IsLabel(c) THEN c
                    ELSE Cmd(c.mnemonic, [j \in DOMAIN c.operands |-> update(c.operands[j])])
  IN  WithoutLabels([i \in DOMAIN cmds |-> updated(cmds[i])])

\* _build_subroutine: the instruction of the flavour, and the assertions of from_operands.
CanBuild(cmds) ==
  \A i \in DOMAIN cmds :
    /\ HasName(VanillaFlavour, cmds[i].mnemonic)
    /\ FromOperands(GetInstrByName(VanillaFlavour, cmds[i].mnemonic), cmds[i].operands)

\* No operand is cut off by the width of its field.  (The opcode of meas_basis is that of mov.)
FitsItsFields(instr) ==
  LET layout == GetInstrByName(VanillaFlavour, instr.mnemonic).layout
  IN  instr.mnemonic # "meas_basis" /\ \A i \in DOMAIN layout : FieldKeeps(layout[i], instr.operands[i])

BuildSubroutine(cmds) ==
  [i \in DOMAIN cmds |-> [mnemonic |-> cmds[i].mnemonic, operands |-> cmds[i].operands]]

\* Subroutine.instantiate
Instantiate(instrs, args) ==
  LET value(op) == IF op.kind = "template" THEN Immediate(args[op.template]) ELSE op
  IN  [i \in DOMAIN instrs |->
         [mnemonic |-> instrs[i].mnemonic,
          operands |-> [j \in DOMAIN instrs[i].operands |-> value(instrs[i].operands[j])]]]

\* What assemble_subroutine returns, when it does not raise.
Assembled(cmds) ==
  BuildSubroutine(AssignBranchLabels(FlattenSeq(ReplaceConstants(MakeArgsOperands(cmds)))))

CanAssemble(cmds) ==
  /\ EnoughRegisters(MakeArgsOperands(cmds)) /\ LabelsUnique(cmds)
  /\ CanBuild(AssignBranchLabels(FlattenSeq(ReplaceConstants(MakeArgsOperands(cmds)))))
=============================================================================
