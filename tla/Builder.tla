------------------------------ MODULE Builder -------------------------------
(***************************************************************************)
(* How the calls of an application become the commands of a subroutine:    *)
(* netqasm/sdk/builder.py, with the registers, addresses and qubit IDs     *)
(* that memmgr.py hands out, the commands of a Future (futures.py) and     *)
(* those of a Qubit (qubit.py).                                            *)
(*                                                                         *)
(* A builder is a record:                                                  *)
(*   hardware  "generic", or "nv": one communication qubit, at ID 0        *)
(*   pending   the commands since they were last popped                    *)
(*   saved     the commands before each open context, the outermost first  *)
(*   active    the registers R in use                                      *)
(*   meas      the registers M in use                                      *)
(*   toReturn  the registers whose values the host will get                *)
(*   arrays    the arrays of this subroutine, with their initial values    *)
(*   lengths   of the array at each address handed out so far              *)
(*   qubits    the active Qubit objects, oldest first                      *)
(*   ids       of each Qubit object, its virtual ID: a number or a Future  *)
(*   regs      of each RegFuture object, its register                      *)
(*   labels    how many labels there are                                   *)
(*   raised    whether a call raised                                       *)
(* A value an application can name is a number, a RegFuture or a Future,   *)
(* whose index is such a value.                                            *)
(***************************************************************************)
EXTENDS TextAssembler, Isa, FiniteSets

Future(addr, index) == [kind |-> "future", addr |-> addr, index |-> index]
RegFuture(id)       == [kind |-> "regfuture", id |-> id]

Builder0(hardware) ==
  [hardware |-> hardware, pending |-> <<>>, saved |-> <<>>, active |-> {}, meas |-> {},
   toReturn |-> <<>>, arrays |-> <<>>, lengths |-> <<>>, qubits |-> <<>>, ids |-> <<>>,
   regs |-> <<>>, labels |-> 0, raised |-> FALSE]

LabelLine(name) == [mnemonic |-> "label", label |-> name]

Emit(b, cmds) == [b EXCEPT !.pending = @ \o cmds]

RaiseIf(b, condition) == [b EXCEPT !.raised = @ \/ condition]

---------------------------------------------------------------------------
(* memmgr.py                                                               *)

\* The register after the last one means that there is none.
get_inactive_register(b) ==
  Register("R", Min({ i \in 0 .. NumRegisters : Register("R", i) \notin b.active }))

Activate(b, r) ==
  RaiseIf([b EXCEPT !.active = @ \cup {r}], r \in b.active \/ r.index = NumRegisters)

Deactivate(b, r) == RaiseIf([b EXCEPT !.active = @ \ {r}], r \notin b.active)

\* A register for what Body does, given back after it.
WithRegister(b, Body(_, _)) ==
  LET r == get_inactive_register(b) IN Deactivate(Body(Activate(b, r), r), r)

get_new_meas_outcome_register(b) ==
  Register("M", Min({ i \in 0 .. NumRegisters : Register("M", i) \notin b.meas }))

UseMeasRegister(b, r) == RaiseIf([b EXCEPT !.meas = @ \cup {r}], r.index = NumRegisters)

\* Comparing an ID that is a Future looks for its value, which is not there yet.
AnyFutureId(b) == \E i \in DOMAIN b.qubits : b.ids[b.qubits[i]].kind = "future"

UsedIds(b) == { b.ids[b.qubits[i]].value : i \in { j \in DOMAIN b.qubits : b.ids[b.qubits[j]].kind = "imm" } }

get_new_qubit_address(b) == Min((0 .. Len(b.qubits)) \ UsedIds(b))

AllocArray(b, init) ==
  [b EXCEPT !.arrays = Append(@, [addr |-> Len(b.lengths), init |-> init]),
            !.lengths = Append(@, Len(init))]

NextAddress(b) == Len(b.lengths)

Undefined(length) == [i \in 1 .. length |-> None]

NewRegFuture(b, r) == [b EXCEPT !.regs = Append(@, r)]

ReturnRegister(b, r) == [b EXCEPT !.toReturn = Append(@, r)]

\* After a subroutine was committed.
Reset(b) == [b EXCEPT !.arrays = <<>>, !.toReturn = <<>>, !.meas = {}]

---------------------------------------------------------------------------
(* Futures.                                                                *)

\* A number or a register as an operand.
OperandOf(b, v) == IF v.kind = "regfuture" THEN b.regs[v.id] ELSE v

\* load or store an entry of an array; an index that is a Future is loaded first.
RECURSIVE AccessCommands(_, _, _, _)
AccessCommands(b, op, f, r) ==
  IF f.index.kind = "future"
    THEN LET tmp == get_inactive_register(b)
         IN  AccessCommands(Activate(b, tmp), "load", f.index, tmp)
               \o << Cmd(op, << r, ArrayEntry(f.addr, tmp) >>) >>
    ELSE << Cmd(op, << r, ArrayEntry(f.addr, OperandOf(b, f.index)) >>) >>

AddCommand(r, other, mod) ==
  IF mod = None THEN Cmd("add", << r, r, other >>) ELSE Cmd("addm", << r, r, other, Immediate(mod) >>)

\* A RegFuture is also an int, of value 0, and is taken for one.
OtherOperand(b, v) == IF v.kind = "regfuture" THEN Immediate(0) ELSE v

\* The other addend is loaded, and stored back unchanged.
AddFuture(b, r, f, mod, store) ==
  LET Body(c, tmp) == Emit(c, AccessCommands(c, "load", f, tmp) \o << AddCommand(r, tmp, mod) >>
                                \o store \o AccessCommands(c, "store", f, tmp))
  IN  WithRegister(b, Body)

RegFutureAdd(b, r, other, mod) ==
  IF other.kind = "future" THEN AddFuture(b, r, other, mod, <<>>)
                           ELSE Emit(b, << AddCommand(r, OtherOperand(b, other), mod) >>)

FutureAdd(b, f, other, mod) ==
  LET Stored(c, r, store) ==
        IF other.kind = "future" THEN AddFuture(c, r, other, mod, store)
                                 ELSE Emit(c, << AddCommand(r, OtherOperand(c, other), mod) >> \o store)
      Body(c, r) == Stored(Emit(c, AccessCommands(c, "load", f, r)), r, AccessCommands(c, "store", f, r))
  IN  WithRegister(b, Body)

\* add of a BaseFuture
Add(b, v, other, mod) ==
  IF v.kind = "future" THEN FutureAdd(b, v, other, mod) ELSE RegFutureAdd(b, b.regs[v.id], other, mod)

new_register(b, init) ==
  LET r == get_inactive_register(b)
  IN  NewRegFuture(ReturnRegister(Emit(Activate(b, r), << Cmd("set", << r, init >>) >>), r), r)

---------------------------------------------------------------------------
(* Loops and conditions.  The commands of the body are pending; pre are    *)
(* those before.                                                           *)

BuildLoop(b, pre, r, start, stop, step) ==
  LET entry == Label(b.labels + 1)
      exit  == Label(b.labels + 2)
  IN  IF b.pending = <<>> THEN [b EXCEPT !.pending = pre]
      ELSE [b EXCEPT
              !.labels = @ + 2,
              !.pending = pre
                \o << Cmd("set", << r, start >>), LabelLine(entry.label), Cmd("beq", << r, stop, exit >>) >>
                \o @
                \o << Cmd("add", << r, r, step >>), Cmd("jmp", << entry >>), LabelLine(exit.label) >>]

\* _build_cmds_loop_body, for a body given as a routine.
LoopBody(b, Body(_), r, stop) ==
  LET already == r \in b.active
      opened  == [(IF already THEN b ELSE Activate(b, r)) EXCEPT !.pending = <<>>]
      closed  == BuildLoop(Body(opened), b.pending, r, Immediate(0), stop, Immediate(1))
  IN  IF already THEN closed ELSE Deactivate(closed, r)

flip_branch_instr(op) ==
  CASE op = "bez" -> "bnz" [] op = "bnz" -> "bez" [] op = "beq" -> "bne" [] op = "bne" -> "beq"
    [] op = "blt" -> "bge" [] op = "bge" -> "blt"

\* A Future is loaded into a register; if its index is a Future too, that counts as a 0.
NeedsRegister(v) == v.kind = "future"

AddressEntry(b, f) ==
  ArrayEntry(f.addr, IF f.index.kind = "future" THEN Immediate(0) ELSE OperandOf(b, f.index))

ConditionOperand(b, v) == IF NeedsRegister(v) THEN get_inactive_register(b) ELSE OperandOf(b, v)

WithConditionOperand(b, v) == IF NeedsRegister(v) THEN Activate(b, ConditionOperand(b, v)) ELSE b

ConditionLoad(b, v) ==
  IF NeedsRegister(v) THEN << Cmd("load", << ConditionOperand(b, v), AddressEntry(b, v) >>) >> ELSE <<>>

Released(b, v, r) == IF NeedsRegister(v) THEN Deactivate(b, r) ELSE b

\* _build_cmds_condition: jump over the body if the condition does not hold.  Only the
\* conditions of two operands give their registers back.
BuildCondition(b, pre, op, v, w) ==
  LET exit == Label(b.labels + 1)
      n    == [b EXCEPT !.labels = @ + 1]
      x    == ConditionOperand(n, v)
      c    == WithConditionOperand(n, v)
      y    == ConditionOperand(c, w)
      d    == WithConditionOperand(c, w)
      skip == flip_branch_instr(op)
      jump(cmds, e) == [e EXCEPT !.pending = pre \o cmds \o @ \o << LabelLine(exit.label) >>]
  IN  CASE b.pending = <<>> -> [b EXCEPT !.pending = pre]
        [] b.pending # <<>> /\ op \in {"bez", "bnz"} ->
             jump(ConditionLoad(n, v) \o << Cmd(skip, << x, exit >>) >>, c)
        [] OTHER ->
             jump(ConditionLoad(n, v) \o ConditionLoad(c, w) \o << Cmd(skip, << x, y, exit >>) >>,
                  Released(Released(d, v, x), w, y))

\* with v.if_eq(w): cmds
IfEq(b, v, w, cmds) == BuildCondition([b EXCEPT !.pending = cmds], b.pending, "beq", v, w)

\* _build_cmds_loop_until: one condition to leave the loop early, and what is done when
\* it stays.  The registers are not given back.
BuildLoopUntil(b, pre, r, max, future, value, Cleanup(_)) ==
  LET entry == Label(b.labels + 1)
      exit  == Label(b.labels + 2)
      n     == [b EXCEPT !.labels = @ + 2]
      x     == ConditionOperand(n, future)
      clean == Cleanup([WithConditionOperand(n, future) EXCEPT !.pending = <<>>])
  IN  IF b.pending = <<>> THEN [b EXCEPT !.pending = pre]
      ELSE [clean EXCEPT !.pending =
              pre \o << Cmd("set", << r, Immediate(0) >>), LabelLine(entry.label), Cmd("beq", << r, max, exit >>) >>
                  \o b.pending
                  \o ConditionLoad(n, future) \o << Cmd("blt", << x, value, exit >>) >>
                  \o @
                  \o << Cmd("add", << r, r, Immediate(1) >>), Cmd("jmp", << entry >>), LabelLine(exit.label) >>]

\* A with statement: the pending commands wait until it ends.
OpenContext(b) == [b EXCEPT !.saved = Append(@, b.pending), !.pending = <<>>]

CloseContext(b) == [b EXCEPT !.saved = Front(@)]

LoopRegister(b) == get_inactive_register(b)

OpenLoop(b) == LET r == LoopRegister(b) IN NewRegFuture(Activate(OpenContext(b), r), r)

CloseLoop(b, id, stop) ==
  Deactivate(BuildLoop(CloseContext(b), Last(b.saved), b.regs[id], Immediate(0), Immediate(stop), Immediate(1)),
             b.regs[id])

\* The handle of the loop register stays in use.
CloseLoopUntil(b, id, max, future, value, Cleanup(_)) ==
  BuildLoopUntil(CloseContext(b), Last(b.saved), b.regs[id], Immediate(max), future, Immediate(value), Cleanup)

CloseIf(b, op, v, w) == BuildCondition(CloseContext(b), Last(b.saved), op, v, w)

---------------------------------------------------------------------------
(* Qubits.                                                                 *)

QubitRegister(i) == Register("Q", i)

SetRegisterValue(b, r, v) ==
  Emit(b, IF v.kind = "future" THEN AccessCommands(b, "load", v, r) ELSE << Cmd("set", << r, v >>) >>)

\* The commands of a gate on one qubit, after a set of its ID.
SingleQubit(b, v, cmds) == Emit(SetRegisterValue(b, QubitRegister(0), v), cmds)

OnQubit(op) == Cmd(op, << QubitRegister(0) >>)

NewQubitCommands(b, v) == SingleQubit(b, v, << OnQubit("qalloc"), OnQubit("init") >>)

\* Mutant: a qubit that is given up stays allocated.
QFreeForgotten(b, v) == b

QFree(b, v) == SingleQubit(b, v, << OnQubit("qfree") >>)

TwoQubit(b, op, v, w) ==
  Emit(SetRegisterValue(SetRegisterValue(b, QubitRegister(0), v), QubitRegister(1), w),
       << Cmd(op, << QubitRegister(0), QubitRegister(1) >>) >>)

MoveQubit(b, source, target) ==
  QFree(TwoQubit(NewQubitCommands(RaiseIf(b, target.value \in UsedIds(b)), target), "mov", source, target), source)

\* Are the last commands those of a new qubit?
JustInitialised(cmds) ==
  /\ Len(cmds) >= 3
  /\ \A i \in 0 .. 2 : cmds[Len(cmds) - i].mnemonic = << "init", "qalloc", "set" >>[i + 1]

\* Whoever is at an ID gets another one: if it was just initialised, by changing where.
FreeUp(b, id) ==
  LET step(c, q) ==
        LET new == Immediate(get_new_qubit_address(c))
            changed == IF JustInitialised(c.pending)
                         THEN [c EXCEPT !.pending[Len(c.pending) - 2].operands[2] = new]
                         ELSE MoveQubit(c, id, new)
        IN  IF c.ids[q] # id THEN c ELSE [changed EXCEPT !.ids[q] = new]
  IN  IF b.hardware # "nv" THEN b ELSE FoldLeft(step, RaiseIf(b, AnyFutureId(b)), b.qubits)

\* A Qubit object, and whether the qubit is new.
NewQubitObject(b, v, addNewCommand) ==
  [(IF addNewCommand THEN NewQubitCommands(b, v) ELSE b) EXCEPT
     !.ids = Append(@, v), !.qubits = Append(@, Len(b.ids) + 1)]

\* Qubit(conn)
NewQubit(b) == NewQubitObject(RaiseIf(b, AnyFutureId(b)), Immediate(get_new_qubit_address(b)), TRUE)

FreedToMeasure(b, id) ==
  IF b.hardware = "nv" /\ id.kind # "future" /\ id # Immediate(0) THEN FreeUp(b, Immediate(0)) ELSE b

\* Mutant: a measured qubit stays allocated.
MeasureOnly(r, inplace) == << Cmd("meas", << QubitRegister(0), r >>) >>

MeasureCommands(r, inplace) ==
  << Cmd("meas", << QubitRegister(0), r >>) >> \o (IF inplace THEN <<>> ELSE << OnQubit("qfree") >>)

\* The outcome goes to an array entry, or stays in its register, of which it becomes the
\* RegFuture.
KeepOutcome(b, r, future) ==
  IF future.kind = "future"
    THEN [Emit(b, AccessCommands(b, "store", future, r)) EXCEPT !.meas = @ \ {r}]
    ELSE NewRegFuture(ReturnRegister(b, r), r)

MeasureInRegister(b, r, id, future, inplace) ==
  KeepOutcome(SingleQubit(UseMeasRegister(b, r), id, MeasureCommands(r, inplace)), r, future)

MeasureFreed(b, id, future, inplace) ==
  MeasureInRegister(b, get_new_meas_outcome_register(b), id, future, inplace)

Measure(b, q, future, inplace) ==
  LET c == MeasureFreed(FreedToMeasure(b, b.ids[q]), b.ids[q], future, inplace)
  IN  [c EXCEPT !.qubits = IF inplace THEN @ ELSE SelectSeq(@, LAMBDA p : p # q)]

---------------------------------------------------------------------------
(* Arrays, and the end of a subroutine.                                    *)

StoreCommand(value, addr, index) == [mnemonic |-> "store", args |-> <<>>, operands |-> << value, ArrayEntry(addr, index) >>]

InitArray(b, array) ==
  LET init   == array.init
      create == Cmd("array", << Immediate(Len(init)), Address(array.addr) >>)
      r      == get_inactive_register(b)
      Body(c) == Emit(c, << StoreCommand(Immediate(init[1]), array.addr, r) >>)
      known  == SelectSeq([i \in DOMAIN init |-> i], LAMBDA i : init[i] # None)
      all    == LoopBody(b, Body, r, Immediate(Len(init)))
  IN  IF Len(init) > 1 /\ ToSet(init) = {init[1]} /\ init[1] # None
        THEN [all EXCEPT !.pending = << create >> \o @]
        ELSE Emit(b, << create >> \o [k \in DOMAIN known |->
               StoreCommand(Immediate(init[known[k]]), array.addr, Immediate(known[k] - 1))])

\* Mutant: the last entry stays.
UndefineAllButLast(b, addr) ==
  LET r == get_inactive_register(b)
      Body(c) == Emit(c, << Cmd("undef", << ArrayEntry(addr, r) >>) >>)
  IN  LoopBody(b, Body, r, Immediate(b.lengths[addr + 1] - 1))

UndefineArray(b, addr) ==
  LET r == get_inactive_register(b)
      Body(c) == Emit(c, << Cmd("undef", << ArrayEntry(addr, r) >>) >>)
  IN  LoopBody(b, Body, r, Immediate(b.lengths[addr + 1]))

\* subrt_pop_pending_subroutine: the arrays first, and last what the host gets.
Subroutine(b) ==
  LET arrays == FoldLeft(InitArray, [b EXCEPT !.pending = <<>>], b.arrays)
  IN  [arrays EXCEPT !.pending =
         @ \o b.pending
           \o [i \in DOMAIN b.arrays |-> Cmd("ret_arr", << Address(b.arrays[i].addr) >>)]
           \o [i \in DOMAIN b.toReturn |-> Cmd("ret_reg", << b.toReturn[i] >>)]]
=============================================================================
