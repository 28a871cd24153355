---------------------------- MODULE PauliFrames -----------------------------
(***************************************************************************)
(* What the gates of NetQASM do to qubits: the matrices of                 *)
(* netqasm/lang/instr/vanilla.py, nv.py and util/quantum_gates.py, up to   *)
(* global phase, without complex numbers.                                  *)
(*                                                                         *)
(* A Pauli operator i^phase * X^x * Z^z has the sets x and z of the qubits *)
(* where it has an X and a Z.  A frame describes all that was done to the  *)
(* qubits: the Clifford part by the images U'XU and U'ZU of the X and Z of *)
(* each qubit, and before it, oldest first in log, everything else: the    *)
(* measurements, resets and rotations by less than a quarter turn, each    *)
(* about the Pauli operator it acts on at the start.                       *)
(* Angles are counted in units of pi / 16, the finest the hardware has.    *)
(***************************************************************************)
EXTENDS Integers, Sequences, FiniteSets, TLC

CONSTANTS
  Places,      \* the places for qubits
  CrotYAxis    \* the axis crot_y turns about: "y" by its name, "x" by its matrix

ASSUME FramesAssumption == IsFiniteSet(Places) /\ CrotYAxis \in {"x", "y"}

FullTurn    == 32
QuarterTurn == 8

Pauli(phase, x, z) == [phase |-> phase % 4, x |-> x, z |-> z]

Xor(a, b) == (a \ b) \cup (b \ a)

\* Moving the X of b to the left of the Z of a gives a sign for every qubit they share.
Times(a, b) == Pauli(a.phase + b.phase + 2 * Cardinality(a.z \cap b.x), Xor(a.x, b.x), Xor(a.z, b.z))

TurnPhase(a, n) == Pauli(a.phase + n, a.x, a.z)

Anticommute(a, b) == (Cardinality(a.x \cap b.z) + Cardinality(a.z \cap b.x)) % 2 = 1

\* The same operator with sign +: one i for every Y.
Positive(a) == Pauli(Cardinality(a.x \cap a.z), a.x, a.z)

Frame0 == [img |-> [q \in Places |-> [x |-> Pauli(0, {q}, {}), z |-> Pauli(0, {}, {q})]],
           log |-> <<>>]

X(f, q) == f.img[q].x
Z(f, q) == f.img[q].z
Y(f, q) == TurnPhase(Times(X(f, q), Z(f, q)), 1)

Axis(f, q, axis) == CASE axis = "x" -> X(f, q) [] axis = "y" -> Y(f, q) [] axis = "z" -> Z(f, q)

Log(f, event) == [f EXCEPT !.log = Append(@, event)]

---------------------------------------------------------------------------
(* get_rotation_matrix: exp(-i angle/2 axis), for a product of Paulis.     *)

TurnQuarters(f, axis, k) ==
  LET turned(g) == IF k = 0 \/ ~ Anticommute(g, axis) THEN g
                   ELSE CASE k = 1 -> TurnPhase(Times(g, axis), 3)
                          [] k = 2 -> TurnPhase(g, 2)
                          [] k = 3 -> TurnPhase(Times(g, axis), 1)
  IN  [f EXCEPT !.img = [q \in Places |-> [x |-> turned(@[q].x), z |-> turned(@[q].z)]]]

Turn(f, axis, angle) ==
  LET a    == (IF axis = Positive(axis) THEN angle ELSE - angle) % FullTurn
      p    == Positive(axis)
      rest == a % QuarterTurn
      g    == IF rest = 0 THEN f ELSE Log(f, << "turn", p, rest >>)
  IN  TurnQuarters(g, p, a \div QuarterTurn)

\* An angle is num * pi / 2 ** denom.
Angle(num, denom) == num * (16 \div 2 ^ denom)

Rot(f, axis, q, angle) == Turn(f, Axis(f, q, axis), angle)

\* get_controlled_rotation_matrix: one way for 0, the other way for 1.
ControlledRot(f, axis, control, target, angle) ==
  Turn(f, Times(Z(f, control), Axis(f, target, axis)), angle)

SetImages(f, q, x, z) == [f EXCEPT !.img[q] = [x |-> x, z |-> z]]

Hadamard(f, q) == SetImages(f, q, Z(f, q), X(f, q))
KGate(f, q)    == SetImages(f, q, TurnPhase(X(f, q), 2), Y(f, q))

Cnot(f, c, t) ==
  SetImages(SetImages(f, c, Times(X(f, c), X(f, t)), Z(f, c)), t, X(f, t), Times(Z(f, c), Z(f, t)))

Cphase(f, c, t) ==
  SetImages(SetImages(f, c, Times(X(f, c), Z(f, t)), Z(f, c)), t, Times(Z(f, c), X(f, t)), Z(f, t))

Swap(f, a, b) == SetImages(SetImages(f, a, X(f, b), Z(f, b)), b, X(f, a), Z(f, a))

---------------------------------------------------------------------------
(* The instructions, by mnemonic.                                          *)

SingleQubitGate(f, op, q) ==
  CASE op = "x" -> Rot(f, "x", q, 16)
    [] op = "y" -> Rot(f, "y", q, 16)
    [] op = "z" -> Rot(f, "z", q, 16)
    [] op = "s" -> Rot(f, "z", q, 8)
    [] op = "t" -> Rot(f, "z", q, 4)
    [] op = "h" -> Hadamard(f, q)
    [] op = "k" -> KGate(f, q)

RotationGate(f, op, q, num, denom) ==
  Rot(f, CASE op = "rot_x" -> "x" [] op = "rot_y" -> "y" [] op = "rot_z" -> "z", q, Angle(num, denom))

\* mov is represented as a full swap.
TwoQubitGate(f, op, a, b) ==
  CASE op = "cnot"   -> Cnot(f, a, b)
    [] op = "cphase" -> Cphase(f, a, b)
    [] op = "mov"    -> Swap(f, a, b)

ControlledRotationGate(f, op, a, b, num, denom) ==
  ControlledRot(f, IF op = "crot_x" THEN "x" ELSE CrotYAxis, a, b, Angle(num, denom))

\* A reset to |0> is a measurement of Z and, after a 1, an X.
InitQubit(f, q) == Log(f, << "init", Z(f, q), X(f, q) >>)

MeasureQubit(f, q) == Log(f, << "meas", Z(f, q) >>)

FreeQubit(f, q) == Log(f, << "qfree", Z(f, q), X(f, q) >>)

\* The hook of module Isa for a processor whose qubits are described by a frame.
FrameHook(f, e) ==
  CASE e.op = "init"  -> InitQubit(f, e.at[1])
    [] e.op = "meas"  -> MeasureQubit(f, e.at[1])
    [] e.op = "qfree" -> FreeQubit(f, e.at[1])
    [] e.op \in {"x", "y", "z", "h", "s", "k", "t"} -> SingleQubitGate(f, e.op, e.at[1])
    [] e.op \in {"rot_x", "rot_y", "rot_z"} -> RotationGate(f, e.op, e.at[1], e.num, e.denom)
    [] e.op \in {"cnot", "cphase", "mov"} -> TwoQubitGate(f, e.op, e.at[1], e.at[2])
    [] e.op \in {"crot_x", "crot_y"} -> ControlledRotationGate(f, e.op, e.at[1], e.at[2], e.num, e.denom)
=============================================================================
