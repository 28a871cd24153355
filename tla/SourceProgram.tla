---------------------------- MODULE SourceProgram ---------------------------
(***************************************************************************)
(* What a program in the NetQASM language means before it is assembled:    *)
(* its commands are done one after the other, a label names the command    *)
(* that follows it, a number as an operand is its value, and a template is *)
(* the argument given for it.                                              *)
(***************************************************************************)
EXTENDS Isa, PauliFrames

VARIABLES
  source,     \* the commands and branch labels of a ProtoSubroutine
  arguments,  \* values of the templates
  machine     \* the state of the machine; its pc is a position in source

IsLabel(cmd) == cmd.mnemonic = "label"

\* The command at or after position i, labels passed over.
NextCommand(cmds, i) ==
  IF \E j \in i .. Len(cmds) : ~ IsLabel(cmds[j])
    THEN CHOOSE j \in i .. Len(cmds) : ~ IsLabel(cmds[j]) /\ \A k \in i .. j - 1 : IsLabel(cmds[k])
    ELSE Len(cmds) + 1

LabelPosition(cmds, name) == CHOOSE i \in DOMAIN cmds : IsLabel(cmds[i]) /\ cmds[i].label = name

\* The operands of a command as the machine takes them.
Meaning(op) ==
  CASE op.kind = "label"    -> Immediate(NextCommand(source, LabelPosition(source, op.label)))
    [] op.kind = "template" -> Immediate(arguments[op.template])
    [] OTHER -> op

\* The arguments in brackets come before the other operands.
Command(i) ==
  LET operands == source[i].args \o source[i].operands
  IN  [mnemonic |-> source[i].mnemonic, operands |-> [j \in DOMAIN operands |-> Meaning(operands[j])]]

StepSource(m) ==
  IF m.pc > Len(source) THEN [m EXCEPT !.status = "done"]
  ELSE LET n == ExecuteCommand(m, Command(m.pc))
       IN  [n EXCEPT !.pc = IF n.status = "running" THEN NextCommand(source, n.pc) ELSE n.pc]

Init == machine.pc = NextCommand(source, 1) /\ machine.status = "running"

\* The state of qubit a is in b afterwards, if b was just reset.  Where it is |0>, an
\* operator and its product with the Z of b are the same.
Moved(f, g, a, b) ==
  LET same(p, q) == p \in {q, Times(q, Z(f, b))}
  IN  /\ f.log # <<>> /\ Last(f.log) = << "init", Z(f, b), X(f, b) >>
      /\ g.log = f.log
      /\ \A c \in Slots \ {a, b} : g.img[c] = f.img[c]
      /\ same(X(g, b), X(f, a)) /\ same(Z(g, b), Z(f, a))

\* What mov leaves in the qubit it moves from is not said.
IsMoved(m, n) ==
  LET c == Command(m.pc) IN
  /\ m.pc <= Len(source) /\ c.mnemonic = "mov" /\ StepSource(m).status = "running"
  /\ n = [StepSource(m) EXCEPT !.quantum = n.quantum]
  /\ Moved(m.quantum, n.quantum, Val(m, c.operands[1]), Val(m, c.operands[2]))

Next ==
  /\ machine.status = "running"
  /\ machine' = StepSource(machine) \/ IsMoved(machine, machine')
  /\ UNCHANGED << source, arguments >>

vars == << source, arguments, machine >>

Spec == Init /\ [][Next]_vars
=============================================================================
