-------------------------------- MODULE Isa ---------------------------------
(***************************************************************************)
(* What the instructions of a subroutine do to the memory and the qubits   *)
(* of their application: the handlers of netqasm/backend/executor.py, one  *)
(* operator per handler, as functions of a machine state.  (Module         *)
(* Executor has the interleavings of several subroutines, and leaves       *)
(* these handlers out.)                                                    *)
(*                                                                         *)
(* A machine state is a record:                                            *)
(*   regs     register -> value, only the registers that have one          *)
(*   arrays   address -> sequence of values, None for an undefined entry   *)
(*   shared   address -> the array the host sees                           *)
(*   live     the addresses whose shared array is the executor's own list  *)
(*   returned register -> value the host sees                              *)
(*   unit     the virtual qubits that are allocated                        *)
(*   coins    the outcomes of the measurements to come                     *)
(*   quantum  what was done to the qubits, as Hook says                    *)
(*   requests the requests for entanglement that still lack pairs          *)
(*   pairs    how many pairs the network has delivered                     *)
(*   pc, status                                                            *)
(* An operand that is a number stands for itself: source programs and      *)
(* assembled ones run on the same machine.                                 *)
(***************************************************************************)
EXTENDS Instructions

CONSTANTS
  None,        \* the value of an undefined register or array entry
  MaxQubits,   \* size of the unit module
  Quantum0,    \* the state of the quantum processor at the start
  Hook(_, _)   \* that state after an operation at some places

ASSUME IsaAssumption == None \notin Int /\ MaxQubits \in Nat

Slots == 0 .. MaxQubits - 1

At(op, places) == [op |-> op, at |-> places, num |-> 0, denom |-> 0]

Turning(op, places, num, denom) == [op |-> op, at |-> places, num |-> num, denom |-> denom]

Machine0(coins) ==
  [regs |-> <<>>, arrays |-> <<>>, shared |-> <<>>, live |-> {}, returned |-> <<>>,
   unit |-> {}, coins |-> coins, quantum |-> Quantum0,
   requests |-> <<>>, pairs |-> 0, pc |-> 0, status |-> "running"]

---------------------------------------------------------------------------
(* Reading and writing.                                                    *)

GetRegister(m, r) == IF r \in DOMAIN m.regs THEN m.regs[r] ELSE None

\* A dictionary or a group of registers in which k has the value v.
SetItem(d, k, v) == [x \in DOMAIN d \cup {k} |-> IF x = k THEN v ELSE d[x]]

SetRegister(m, r, v) == [m EXCEPT !.regs = SetItem(@, r, v)]

\* The value of an operand: a register's, or the number itself.
Val(m, op) == IF op.kind = "reg" THEN GetRegister(m, op) ELSE op.value

Raise(m) == [m EXCEPT !.status = "raised"]

inc_program_counter(m) == IF m.status = "running" THEN [m EXCEPT !.pc = @ + 1] ELSE m

\* Indices are those of a Python list: from -n, which is the first entry again, to n - 1.
Position(list, i) == (IF i < 0 THEN i + Len(list) ELSE i) + 1

InArray(m, addr, i) ==
  addr \in DOMAIN m.arrays /\ i # None /\ Position(m.arrays[addr], i) \in DOMAIN m.arrays[addr]

\* list[s:t]: out of range ends are cut off.
Slice(list, s, t) ==
  { list[i] : i \in { j \in DOMAIN list : Position(list, s) <= j /\ j < Position(list, t) } }

GetArrayEntry(m, e) ==
  LET i == Val(m, e.index)
  IN  IF InArray(m, e.addr, i) THEN m.arrays[e.addr][Position(m.arrays[e.addr], i)] ELSE None

\* A returned array is shared with the host: what is stored later shows there too.
PutArray(m, addr, list) ==
  [m EXCEPT !.arrays = SetItem(@, addr, list),
            !.shared = IF addr \in m.live THEN SetItem(@, addr, list) ELSE @]

SetArrayEntry(m, e, v) ==
  LET i == Val(m, e.index)
  IN  IF InArray(m, e.addr, i)
        THEN PutArray(m, e.addr, [m.arrays[e.addr] EXCEPT ![Position(m.arrays[e.addr], i)] = v])
        ELSE Raise(m)

---------------------------------------------------------------------------
(* Classical instructions.                                                 *)

InstrSet(m, o) == SetRegister(m, o[1], o[2].value)

InstrStore(m, o) == IF Val(m, o[1]) = None THEN Raise(m)
                                           ELSE SetArrayEntry(m, o[2], Val(m, o[1]))

InstrLoad(m, o) ==
  LET v == GetArrayEntry(m, o[2])
  IN  IF v = None THEN Raise(m) ELSE SetRegister(m, o[1], v)

InstrUndef(m, o) == SetArrayEntry(m, o[1], None)

InstrLea(m, o) == SetRegister(m, o[1], o[2].value)

\* A new list: the host keeps the old one, if it was given to it.
InstrArray(m, o) ==
  IF Val(m, o[1]) = None THEN Raise(m)
  ELSE [m EXCEPT !.arrays = SetItem(@, o[2].value, [i \in 1 .. Val(m, o[1]) |-> None]),
                 !.live = @ \ {o[2].value}]

CheckCondition(op, a, b) ==
  CASE op = "jmp" -> TRUE
    [] op \in {"bez", "beq"} -> a = b
    [] op \in {"bnz", "bne"} -> a # b
    [] op = "blt" -> a < b
    [] op = "bge" -> a >= b

\* An undefined value equals no number, and is not ordered.
BranchInstr(m, op, o) ==
  LET a == IF op = "jmp" THEN 0 ELSE Val(m, o[1])
      b == IF op \in {"jmp", "bez", "bnz"} THEN 0 ELSE Val(m, o[2])
  IN  IF op \in {"blt", "bge"} /\ None \in {a, b} THEN Raise(m)
      ELSE [m EXCEPT !.pc = IF CheckCondition(op, a, b) THEN o[Len(o)].value ELSE @ + 1]

ComputeBinaryClassical(op, a, b, mod) ==
  CASE op = "add"  -> a + b
    [] op = "addm" -> (a + b) % mod
    [] op = "sub"  -> a - b
    [] op = "subm" -> (a - b) % mod

BinaryClassicalInstr(m, op, o) ==
  LET a   == Val(m, o[2])
      b   == Val(m, o[3])
      mod == IF op \in {"addm", "subm"} THEN Val(m, o[4]) ELSE 1
  IN  IF None \in {a, b, mod} THEN Raise(m)
      ELSE IF mod < 1 THEN Raise(m)
      ELSE SetRegister(m, o[1], ComputeBinaryClassical(op, a, b, mod))

\* wait_all, wait_any and wait_single: poll while the entries are undefined.
WaitSlice(m, op, slice) ==
  LET s == Val(m, slice.start)
      t == Val(m, slice.stop)
  IN  IF None \in {s, t} \/ slice.addr \notin DOMAIN m.arrays THEN Raise(m)
      ELSE IF (IF op = "wait_any" THEN Slice(m.arrays[slice.addr], s, t) \subseteq {None}
                                  ELSE None \in Slice(m.arrays[slice.addr], s, t))
        THEN [m EXCEPT !.status = "waiting"]
        ELSE m

WaitSingle(m, entry) ==
  LET i == Val(m, entry.index)
  IN  IF i = None \/ (entry.addr \in DOMAIN m.arrays /\ ~ InArray(m, entry.addr, i)) THEN Raise(m)
      ELSE IF GetArrayEntry(m, entry) = None THEN [m EXCEPT !.status = "waiting"] ELSE m

InstrRetReg(m, o) ==
  IF Val(m, o[1]) = None THEN Raise(m)
  ELSE [m EXCEPT !.returned = SetItem(@, o[1], Val(m, o[1]))]

InstrRetArr(m, o) ==
  LET addr == o[1].value
  IN  IF addr \notin DOMAIN m.arrays THEN Raise(m)
      ELSE [m EXCEPT !.shared = SetItem(@, addr, m.arrays[addr]), !.live = @ \cup {addr}]

---------------------------------------------------------------------------
(* Quantum instructions.  The hooks they call belong to the quantum        *)
(* processor, here the constant Hook.                                      *)

InstrQAlloc(m, o) ==
  LET q == Val(m, o[1])
  IN  IF q = None THEN Raise(m)
      ELSE IF q >= MaxQubits \/ q \in m.unit THEN Raise(m)
      ELSE [m EXCEPT !.unit = @ \cup {q}]

InstrQFree(m, o) ==
  LET q == Val(m, o[1])
  IN  IF q \notin m.unit THEN Raise(m)
      ELSE [m EXCEPT !.unit = @ \ {q}, !.quantum = Hook(@, At("qfree", << q >>))]

\* The handlers look no qubit up in the unit module: a gate works on a place of the
\* processor, allocated or not.  The hook of one that has no such place raises.
SingleQubitInstr(m, op, o) ==
  LET q == Val(m, o[1])
  IN  IF q \notin Slots THEN Raise(m)
      ELSE [m EXCEPT !.quantum = Hook(@, At(op, << q >>))]

RotationInstr(m, op, o) ==
  LET q == Val(m, o[1])
  IN  IF q \notin Slots THEN Raise(m)
      ELSE [m EXCEPT !.quantum = Hook(@, Turning(op, << q >>, o[2].value, o[3].value))]

TwoQubitInstr(m, op, o) ==
  LET a == Val(m, o[1])
      b == Val(m, o[2])
  IN  IF ~ ({a, b} \subseteq Slots) \/ a = b THEN Raise(m)
      ELSE [m EXCEPT !.quantum = Hook(@, At(op, << a, b >>))]

ControlledRotationInstr(m, op, o) ==
  LET a == Val(m, o[1])
      b == Val(m, o[2])
  IN  IF ~ ({a, b} \subseteq Slots) \/ a = b THEN Raise(m)
      ELSE [m EXCEPT !.quantum = Hook(@, Turning(op, << a, b >>, o[3].value, o[4].value))]

InstrMeas(m, o) ==
  LET q == Val(m, o[1])
  IN  IF q \notin Slots THEN Raise(m)
      ELSE SetRegister([m EXCEPT !.coins = IF @ = <<>> THEN @ ELSE Tail(@),
                                 !.quantum = Hook(@, At("meas", << q >>))],
                       o[2], IF m.coins = <<>> THEN 0 ELSE Head(m.coins))

---------------------------------------------------------------------------
(* Entanglement: requests, and the pairs of the network stack.             *)

OK_FIELDS       == 10
SER_CREATE_LEN  == 20
TypeK           == 0
IDX_TYPE        == 1
IDX_NUMBER      == 2

Request(kind, qids, results, number) ==
  [kind |-> kind, qids |-> qids, results |-> results, tot |-> number, left |-> number]

\* Operands: remote node, EPR socket, qubit IDs, arguments, results.  Only a request
\* to keep the pairs needs the qubit IDs.
InstrCreateEpr(m, o) ==
  LET v(i) == Val(m, o[i])
      args == m.arrays[v(4)]
  IN  IF None \in {v(1), v(2), v(4), v(5)} \/ v(4) \notin DOMAIN m.arrays THEN Raise(m)
      ELSE IF Len(args) # SER_CREATE_LEN THEN Raise(m)
      ELSE IF args[IDX_TYPE] = TypeK /\ (v(3) \notin DOMAIN m.arrays \/ Len(m.arrays[v(3)]) # args[IDX_NUMBER])
        THEN Raise(m)
        ELSE [m EXCEPT !.requests = Append(@, Request(args[IDX_TYPE], v(3), v(5), args[IDX_NUMBER]))]

\* The number of pairs is that of the blocks in the results array; whether they are
\* kept is up to the creator, who asks for the kind the receiver expects.
InstrRecvEpr(m, o) ==
  LET v(i) == Val(m, o[i])
  IN  IF None \in {v(1), v(2), v(4)} \/ v(4) \notin DOMAIN m.arrays THEN Raise(m)
      ELSE [m EXCEPT !.requests = Append(@,
              Request(IF v(3) = None THEN 1 ELSE TypeK, v(3), v(4), Len(m.arrays[v(4)]) \div OK_FIELDS))]

\* The next pair, with the fields of its response: a kept one is mapped to a virtual
\* qubit, if that is free; otherwise the response waits, and the machine with it.
DeliverPair(m, info) ==
  LET r == Head(m.requests)
      i == r.tot - r.left
      q == m.arrays[r.qids][i + 1]
      list   == m.arrays[r.results]
      stored == [j \in DOMAIN list |-> IF j - 1 - i * OK_FIELDS \in 0 .. OK_FIELDS - 1
                                          THEN info[j - i * OK_FIELDS] ELSE list[j]]
      left   == IF r.left = 1 THEN Tail(m.requests) ELSE << [r EXCEPT !.left = @ - 1] >> \o Tail(m.requests)
      next   == [PutArray(m, r.results, stored) EXCEPT
                   !.requests = left, !.pairs = @ + 1, !.status = "running"]
  IN  IF m.requests = <<>> THEN [m EXCEPT !.status = "stuck"]
      ELSE IF r.kind # TypeK THEN next
      ELSE IF q \in m.unit THEN [m EXCEPT !.status = "stuck"]
      ELSE IF q \notin Slots THEN Raise(m)
      ELSE [next EXCEPT !.unit = @ \cup {q},
                        !.quantum = Hook(@, Turning("epr", << q >>, m.pairs + 1, 0))]

---------------------------------------------------------------------------
(* One instruction: the dispatch by mnemonic and class.                    *)

Handle(m, op, o) ==
  CASE op = "set"    -> InstrSet(m, o)
    [] op = "store"  -> InstrStore(m, o)
    [] op = "load"   -> InstrLoad(m, o)
    [] op = "undef"  -> InstrUndef(m, o)
    [] op = "lea"    -> InstrLea(m, o)
    [] op = "array"  -> InstrArray(m, o)
    [] op \in {"add", "sub", "addm", "subm"} -> BinaryClassicalInstr(m, op, o)
    [] op \in {"wait_all", "wait_any"} -> WaitSlice(m, op, o[1])
    [] op = "wait_single" -> WaitSingle(m, o[1])
    [] op = "ret_reg" -> InstrRetReg(m, o)
    [] op = "ret_arr" -> InstrRetArr(m, o)
    [] op = "qalloc" -> InstrQAlloc(m, o)
    [] op = "qfree"  -> InstrQFree(m, o)
    [] op = "meas"   -> InstrMeas(m, o)
    [] op \in {"init", "x", "y", "z", "h", "s", "k", "t"} -> SingleQubitInstr(m, op, o)
    [] op \in {"rot_x", "rot_y", "rot_z"} -> RotationInstr(m, op, o)
    [] op \in {"cnot", "cphase", "mov"} -> TwoQubitInstr(m, op, o)
    [] op \in {"crot_x", "crot_y"} -> ControlledRotationInstr(m, op, o)
    [] op = "create_epr" -> InstrCreateEpr(m, o)
    [] op = "recv_epr"   -> InstrRecvEpr(m, o)
    [] op = "breakpoint" -> m
    [] OTHER -> Raise(m)

Branches == {"jmp", "bez", "bnz", "beq", "bne", "blt", "bge"}

ExecuteCommand(m, command) ==
  IF command.mnemonic \in Branches
    THEN BranchInstr(m, command.mnemonic, command.operands)
    ELSE inc_program_counter(Handle(m, command.mnemonic, command.operands))

\* _execute_commands: one turn of the loop; the pc of a subroutine counts from 0.
StepCommands(m, commands) ==
  IF m.pc < Len(commands) THEN ExecuteCommand(m, commands[m.pc + 1])
                          ELSE [m EXCEPT !.status = "done"]
=============================================================================
