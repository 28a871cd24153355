----------------------------- MODULE MCAssembler ----------------------------
(***************************************************************************)
(* Small programs for Assembler: every way to fill a few frames with       *)
(* commands that have constants, labels, templates and array indices.      *)
(***************************************************************************)
EXTENDS Assembler

CONSTANT Shape  \* "plain", or what goes wrong: "phase" for s and t, "stale" for the place of
                \* a qubit that is read from memory

R(i) == Register("R", i)
I(v) == Immediate(v)
Entry(i) == ArrayEntry(0, i)
LabelLine(name) == [mnemonic |-> "label", label |-> name]
Bracket(mnemonic, args, operands) == [mnemonic |-> mnemonic, args |-> args, operands |-> operands]

Straight ==
  { Cmd("set", << R(0), I(-1) >>), Cmd("add", << R(0), R(0), I(1) >>),
    Cmd("subm", << R(1), I(2), I(3), I(2) >>), Bracket("store", << I(7) >>, << Entry(I(1)) >>),
    Cmd("store", << R(0), Entry(R(1)) >>), Cmd("load", << R(0), Entry(I(-1)) >>),
    Cmd("undef", << Entry(R(1)) >>), Cmd("ret_arr", << Address(0) >>),
    Cmd("wait_all", << ArraySlice(0, I(0), I(1)) >>), Cmd("array", << I(1), Address(0) >>),
    Cmd("meas", << I(0), Register("M", 0) >>),
    Cmd("rot_x", << Register("Q", 0), Template("n"), I(1) >>) }

Jumps ==
  { Cmd("jmp", << Label("A") >>), Cmd("bez", << R(0), Label("A") >>),
    Cmd("blt", << R(0), I(2), Label("A") >>), Cmd("bne", << I(0), R(1), Label("B") >>) }

SetR1 == Cmd("set", << R(1), I(0) >>)

Prologue ==
  << Cmd("array", << I(2), Address(0) >>), SetR1,
     Cmd("set", << Register("Q", 0), I(1) >>), Cmd("lea", << R(0), Address(0) >>) >>

\* A loop, a conditional and straight code, with labels before, between and after.
Frames(s) ==
  { Prologue \o << LabelLine("A"), a, b, j, LabelLine("B"), c >> :
      a \in s, b \in s, j \in Jumps, c \in { Cmd("add", << R(0), R(0), I(1) >>) } }
  \cup { Prologue \o << j, a, LabelLine("A"), LabelLine("B"), b, j >> : a \in s, b \in s, j \in Jumps }
  \cup { << Cmd("array", << I(2), Address(0) >>), a, SetR1, j, LabelLine("B"), LabelLine("A") >> :
           a \in s, j \in Jumps }
  \cup { << LabelLine("A"), a, LabelLine("A") >> : a \in s }

\* Qubits 0, 1 and 2 in registers Q0, Q1 and Q2, in some order.
Q(i) == Register("Q", i)
Gate(op, i) == Cmd(op, << Q(i) >>)
Gate2(op, i, j) == Cmd(op, << Q(i), Q(j) >>)
LoadQ(p) == << Cmd("set", << Q(0), I(p[1]) >>), Cmd("set", << Q(1), I(p[2]) >>) >>

OneGate ==
  { Gate(op, 0) : op \in {"x", "y", "z", "h", "k"} }
  \cup { Cmd(op, << Q(0), n, I(d) >>) : op \in {"rot_x", "rot_y", "rot_z"},
                                       n \in { I(1), Template("n"), I(31) }, d \in {0, 1, 4} }

\* A gate of two qubits in every pair of places, in a loop that runs twice.
Loops ==
  { LoadQ(p) \o << Cmd("set", << R(0), I(0) >>), Gate("k", 0), LabelLine("A"), Gate2(op, 0, 1), g,
                   Cmd("add", << R(0), R(0), I(1) >>), Cmd("bne", << R(0), I(2), Label("A") >>),
                   Cmd("meas", << Q(1), Register("M", 0) >>) >> :
      p \in { p \in (0 .. 2) \X (0 .. 2) : p[1] # p[2] }, op \in {"cnot", "cphase"}, g \in OneGate }

\* A gate that is done or not, and the end of the subroutine as a target of jumps.
Conditionals ==
  { LoadQ(p) \o << Cmd("meas", << Q(0), Register("M", 0) >>), g, Cmd("bez", << Register("M", 0), Label("A") >>),
                   Gate2("cnot", 0, 1), Gate("h", 1), LabelLine("A") >> :
      p \in { << 0, 1 >>, << 1, 0 >>, << 1, 2 >> }, g \in OneGate }

\* From the electron to a carbon and back, after gates that entangle them with the third.
Moves ==
  { LoadQ(p) \o << Cmd("set", << Q(2), I(3 - p[1] - p[2]) >>), g, Gate2("cnot", 0, 2), Gate("k", 0),
                   Gate("init", 1), Gate2("mov", 0, 1), Gate("init", 0), Gate2("mov", 1, 0), Gate2("cphase", 0, 2) >> :
      p \in { << 0, 1 >>, << 1, 0 >> }, g \in OneGate }

\* Of a qubit whose place is read from memory, which is taken for the electron.
Loaded ==
  { << Cmd("array", << I(1), Address(0) >>), Cmd("store", << I(v), Entry(I(0)) >>), Cmd("load", << Q(0), Entry(I(0)) >>),
       Cmd("set", << Q(1), I(2) >>), g, Gate("init", 1), Gate2("mov", 0, 1) >> : g \in OneGate, v \in {0} }

---------------------------------------------------------------------------
(* Programs that do not run as written.                                    *)

Phases == { << Cmd("set", << Q(0), I(1) >>), Gate(op, 0) >> : op \in {"s", "t"} }

\* Q0 is known to hold 1, and then the 0 in memory.
Stale ==
  { << Cmd("array", << I(1), Address(0) >>), Cmd("store", << I(0), Entry(I(0)) >>) >> \o LoadQ(<< 1, 2 >>)
      \o << Cmd("load", << Q(0), Entry(I(0)) >>), Gate2(op, 0, 1) >> : op \in {"cnot", "cphase"} }

MCSources ==
  CASE Shape = "plain"   -> Frames(Straight) \cup Loops \cup Conditionals \cup Moves \cup Loaded
    [] Shape = "phase"   -> Phases
    [] Shape = "stale"   -> Stale

\* What the theorem on the vanilla flavour asks of the sources holds for these.
ASSUME PlainSourcesAreWellWritten ==
  Shape = "plain" => SourcesAreWellWritten

MCArguments == { [n |-> 3] }
MCCoins == { << 1, 0, 1 >>, << 0, 1, 0 >> }
=============================================================================
