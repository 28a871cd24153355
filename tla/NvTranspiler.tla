---------------------------- MODULE NvTranspiler ----------------------------
(***************************************************************************)
(* From the vanilla flavour to the gates of an NV centre:                  *)
(* NVSubroutineTranspiler in netqasm/sdk/transpile.py.  Virtual qubit 0 is *)
(* the electron, the only qubit with two-qubit gates; the others are       *)
(* carbons.  One pass over the instructions rewrites each gate, and knows  *)
(* of the Q registers what the set instructions before it, in the order of *)
(* the text, have put there.                                               *)
(***************************************************************************)
EXTENDS Instructions, TLC

NumQRegisters == 16

QRegister(i) == Register("Q", i)

Instr(mnemonic, operands) == [mnemonic |-> mnemonic, operands |-> operands]

\* All angles of the decompositions are multiples of pi / 2 ** 4.
Turned(mnemonic, r, n)      == Instr(mnemonic, << r, Immediate(n), Immediate(4) >>)
RX(r, n)                    == Turned("rot_x", r, n)
RY(r, n)                    == Turned("rot_y", r, n)
RZ(r, n)                    == Turned("rot_z", r, n)
CRX(electron, carbon, n)    == Instr("crot_x", << electron, carbon, Immediate(n), Immediate(4) >>)
CRY(electron, carbon, n)    == Instr("crot_y", << electron, carbon, Immediate(n), Immediate(4) >>)

BranchMnemonics == {"jmp", "bez", "bnz", "beq", "bne", "blt", "bge"}
SingleGates     == {"x", "y", "z", "h", "s", "k", "t"}
Rotations       == {"rot_x", "rot_y", "rot_z"}
TwoQubitGates   == {"cnot", "cphase", "mov"}

---------------------------------------------------------------------------
(* The circuits.                                                           *)

MapSingleGate(op, r) ==
  CASE op = "x" -> << RX(r, 16) >>
    [] op = "y" -> << RY(r, 16) >>
    [] op = "z" -> << RX(r, 24), RY(r, 16), RX(r, 8) >>
    [] op = "h" -> << RY(r, 8), RX(r, 16) >>
    [] op = "k" -> << RX(r, 24), RY(r, 16) >>
    [] op = "s" -> << RX(r, 24), RY(r, 24), RX(r, 8) >>
    [] op = "t" -> << RX(r, 24), RY(r, 28), RX(r, 8) >>

SwapStates(e, c) ==
  << CRX(e, c, 8), RX(e, 24), RY(e, 16), RZ(c, 24), CRX(e, c, 8), RX(e, 8), RY(e, 8),
     RX(c, 8), RZ(c, 8), CRX(e, c, 8), RY(e, 16), RZ(c, 16) >>

MoveElectronCarbon(e, c) == << RY(e, 8), CRY(e, c, 24), RX(e, 24), CRX(e, c, 8) >>
MoveCarbonElectron(c, e) == MoveElectronCarbon(e, c) \o << RY(e, 24), RZ(e, 24) >>

CnotElectronCarbon(e, c)   == << CRX(e, c, 8), RZ(e, 24), RX(c, 24) >>
CphaseElectronCarbon(e, c) == << RY(c, 8) >> \o CnotElectronCarbon(e, c) \o << RY(c, 24) >>
CnotCarbonElectron(c, e)   == MapSingleGate("h", e) \o CphaseElectronCarbon(e, c) \o MapSingleGate("h", e)

\* Through the electron: carbon a is swapped into it and back.
Lifted(e, a, circuit) ==
  << Instr("set", << e, Immediate(0) >>) >> \o SwapStates(e, a) \o circuit \o SwapStates(e, a)

---------------------------------------------------------------------------
(* One instruction.  values: what is known of the Q registers; used: the   *)
(* registers met so far.                                                   *)

get_unused_register(used) ==
  QRegister(CHOOSE i \in 0 .. NumQRegisters - 1 :
              QRegister(i) \notin used /\ \A j \in 0 .. i - 1 : QRegister(j) \in used)

HasUnusedRegister(used) == \E i \in 0 .. NumQRegisters - 1 : QRegister(i) \notin used

\* Registers of the instruction itself; those inside array operands are not looked at.
OperandRegisters(instr) == { op \in ToSet(instr.operands) : op.kind = "reg" }

LearnValues(values, instr) ==
  IF instr.mnemonic = "set" /\ instr.operands[1].name = "Q"
    THEN (instr.operands[1] :> instr.operands[2].value) @@ values
    ELSE values

Known(values, instr) == OperandRegisters(instr) \subseteq DOMAIN values

\* The assertions and errors of _handle_two_qubit_gate.
CanMapTwoQubitGate(values, used, instr) ==
  LET q0 == values[instr.operands[1]]
      q1 == values[instr.operands[2]]
  IN  IF ~ Known(values, instr) THEN instr.mnemonic = "mov"
      ELSE /\ q0 # q1
           /\ 0 \in {q0, q1} \/ (instr.mnemonic # "mov" /\ HasUnusedRegister(used))

MapTwoQubitGate(values, used, instr) ==
  LET r0 == instr.operands[1]
      r1 == instr.operands[2]
      e  == get_unused_register(used)
      op == instr.mnemonic
  IN  CASE ~ Known(values, instr) -> MoveElectronCarbon(r0, r1)
        [] Known(values, instr) /\ op = "mov" ->
             IF values[r0] = 0 THEN MoveElectronCarbon(r0, r1) ELSE MoveCarbonElectron(r0, r1)
        [] Known(values, instr) /\ op = "cnot" ->
             IF values[r0] = 0 THEN CnotElectronCarbon(r0, r1)
             ELSE IF values[r1] = 0 THEN CnotCarbonElectron(r0, r1)
             ELSE Lifted(e, r0, CnotElectronCarbon(e, r1))
        [] Known(values, instr) /\ op = "cphase" ->
             IF values[r0] = 0 THEN CphaseElectronCarbon(r0, r1)
             ELSE IF values[r1] = 0 THEN CphaseElectronCarbon(r1, r0)
             ELSE Lifted(e, r0, CphaseElectronCarbon(e, r1))

\* get_hardware_num_denom: the denominator the hardware has.
HardwareRotation(instr) ==
  LET num   == instr.operands[2].value
      denom == instr.operands[3].value
  IN  Instr(instr.mnemonic, << instr.operands[1], Immediate(num * 2 ^ (4 - denom)), Immediate(4) >>)

CanMapRotation(hardware, instr) ==
  hardware => /\ instr.operands[2].kind = "imm" /\ instr.operands[3].kind = "imm"
              /\ instr.operands[3].value \in 0 .. 4

CanMap(hardware, values, used, instr) ==
  CASE instr.mnemonic \in TwoQubitGates -> CanMapTwoQubitGate(values, used, instr)
    [] instr.mnemonic \in Rotations     -> CanMapRotation(hardware, instr)
    [] OTHER -> TRUE

MapInstruction(hardware, values, used, instr) ==
  CASE instr.mnemonic \in SingleGates   -> MapSingleGate(instr.mnemonic, instr.operands[1])
    [] instr.mnemonic \in Rotations     -> << IF hardware THEN HardwareRotation(instr) ELSE instr >>
    [] instr.mnemonic \in TwoQubitGates -> MapTwoQubitGate(values, used, instr)
    [] OTHER -> << instr >>

---------------------------------------------------------------------------
(* The pass.                                                               *)

\* What is known when instruction i is met, that instruction included.
KnownAt(instrs, i) == FoldLeft(LearnValues, << >>, SubSeq(instrs, 1, i))
UsedAt(instrs, i)  == UNION { OperandRegisters(instrs[k]) : k \in 1 .. i }

CanTranspile(hardware, instrs) ==
  \A i \in DOMAIN instrs : CanMap(hardware, KnownAt(instrs, i), UsedAt(instrs, i), instrs[i])

\* For each instruction, what replaces it.
MapInstructions(hardware, instrs) ==
  [i \in DOMAIN instrs |->
     MapInstruction(hardware, KnownAt(instrs, i), UsedAt(instrs, i), instrs[i])]

JumpTarget(instr) == instr.operands[Len(instr.operands)].value

\* A jump to the end needs an instruction to jump to.
NoOpAtEnd(instrs) ==
  IF \E i \in DOMAIN instrs : instrs[i].mnemonic \in BranchMnemonics /\ JumpTarget(instrs[i]) = Len(instrs)
    THEN << Instr("set", << Register("C", 15), Immediate(1337) >>) >>
    ELSE <<>>

\* A slip: the new line is noted when the instructions for the old one are already there.
IndexChangeAfter(mapped, line) ==
  IF line = Len(mapped) THEN Len(FlattenSeq(mapped)) ELSE Len(FlattenSeq(SubSeq(mapped, 1, line + 1)))

\* The lines of jumps, after the instructions between have become longer.
IndexChange(mapped, line) == Len(FlattenSeq(SubSeq(mapped, 1, line)))

Retarget(mapped, instr) ==
  IF instr.mnemonic \in BranchMnemonics
    THEN [instr EXCEPT !.operands[Len(instr.operands)] = Immediate(IndexChange(mapped, JumpTarget(instr)))]
    ELSE instr

Transpile(hardware, instrs) ==
  LET mapped == MapInstructions(hardware, instrs)
      flat   == FlattenSeq(mapped)
  IN  [k \in DOMAIN flat |-> Retarget(mapped, flat[k])] \o NoOpAtEnd(instrs)
=============================================================================
