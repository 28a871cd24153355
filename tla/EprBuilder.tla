----------------------------- MODULE EprBuilder -----------------------------
(***************************************************************************)
(* Entanglement in netqasm/sdk/builder.py: the commands of the calls of an *)
(* EPRSocket, with the array of a request (build_epr.py).  The pairs come  *)
(* one by one while the subroutine waits; with one communication qubit     *)
(* each is moved away before the next, and a receiver turns each into the  *)
(* Bell state it expects.                                                  *)
(*                                                                         *)
(* The parameters p of a request are a record: role, number, sequential,   *)
(* expectPhiPlus, and outcomes, the array the post routine measures each   *)
(* pair into, or None if there is no post routine.                         *)
(***************************************************************************)
EXTENDS Builder

TypeM == 1
TypeR == 2

IDX_GENERATION_DURATION == 7
IDX_BELL_STATE          == 9

RemoteNode == Immediate(1)
EprSocket  == Immediate(0)

\* Bell states by the Pauli gates that turn them into Phi+.
PHI_PLUS  == 0
PSI_PLUS  == 1
PSI_MINUS == 2
PHI_MINUS == 3

---------------------------------------------------------------------------
(* Waiting, and corrections.                                               *)

\* k times an addition.
AddTimes(b, r, other, stop) ==
  LET Body(c) == Emit(c, << Cmd("add", << r, r, other >>) >>)
  IN  LoopBody(b, Body, get_inactive_register(b), stop)

\* Three registers.
WithRegisters(b, Body(_, _, _, _)) ==
  LET First(c, r) ==
        LET Second(d, s) == LET Third(e, t) == Body(e, r, s, t) IN WithRegister(d, Third) IN WithRegister(c, Second)
  IN  WithRegister(b, First)

\* Wait for the fields of a pair: the slice from 10 * pair to 10 * (pair + 1).
WaitForEntInfo(b, results, pair) ==
  LET Compute(c, start, tmp, stop) ==
        Emit(AddTimes(Emit(AddTimes(Emit(c, << Cmd("set", << start, Immediate(0) >>), Cmd("set", << tmp, Immediate(0) >>),
                                               Cmd("set", << stop, Immediate(0) >>) >>),
                                    start, pair, Immediate(OK_FIELDS)),
                           << Cmd("add", << tmp, pair, Immediate(1) >>) >>),
                      stop, tmp, Immediate(OK_FIELDS)),
             << Cmd("wait_all", << ArraySlice(results, start, stop) >>) >>)
  IN  WithRegisters(b, Compute)

\* Mutant: always that of the first pair.
GetFirstBellState(b, results, pair, target) ==
  Emit(b, << Cmd("load", << target, ArrayEntry(results, Immediate(IDX_BELL_STATE)) >>) >>)

GetRawBellState(b, results, pair, target) ==
  LET Body(c, index) ==
        Emit(AddTimes(Emit(c, << Cmd("set", << index, Immediate(IDX_BELL_STATE) >>) >>), index, Immediate(OK_FIELDS), pair),
             << Cmd("load", << target, ArrayEntry(results, index) >>) >>)
  IN  WithRegister(b, Body)

HalfTurn(op, r) == Cmd(op, << r, Immediate(16), Immediate(4) >>)

CorrectPair(b, bell, q) ==
  LET flip == << HalfTurn("rot_z", q) >>
      swap == << HalfTurn("rot_x", q) >>
  IN  IfEq(IfEq(IfEq(b, bell, Immediate(PHI_MINUS), flip), bell, Immediate(PSI_PLUS), swap),
           bell, Immediate(PSI_MINUS), swap \o flip)

\* The register of the qubit to correct is set to 0 in any case.
CorrectQubit(b, results, pair, q, bell) ==
  CorrectPair(Emit(GetRawBellState(b, results, pair, bell), << Cmd("set", << q, Immediate(0) >>) >>), bell, q)

\* After all pairs have come.
KeepCorrections(b, qids, results, p) ==
  LET All(c, q, bell, pair) ==
        LET Each(e) == CorrectQubit(Emit(e, AccessCommands(e, "load", Future(qids, pair), q)), results, pair, q, bell)
        IN  LoopBody(c, Each, pair, Immediate(p.number))
  IN  WithRegisters(b, All)

\* In the loop over the pairs, when it has come.
PairCorrections(b, results, p, pair, q, bell) ==
  IF p.expectPhiPlus /\ p.role = "recv" THEN CorrectQubit(b, results, pair, q, bell) ELSE b

\* A loop over the pairs; three registers are in use meanwhile.
ForEachPair(b, p, Body(_, _, _, _)) ==
  LET All(c, pair, q, bell) ==
        LET Each(e) == Body(e, pair, q, bell) IN LoopBody(c, Each, pair, Immediate(p.number))
  IN  WithRegisters(b, All)

\* if pair # last: the pair goes from 0 to its place.
MovePair(b, p, pair) ==
  LET last == Immediate(p.number - 1)
      Outer(c, r0) ==
        LET Inner(d, r1) == [d EXCEPT !.pending = << Cmd("sub", << r0, last, pair >>), Cmd("set", << r1, Immediate(0) >>),
                                                     Cmd("mov", << r1, r0 >>), Cmd("qfree", << r1 >>) >>]
        IN  WithRegister(c, Inner)
  IN  BuildCondition(WithRegister(b, Outer), b.pending, "bne", pair, last)

\* _build_cmds_wait_move_epr_to_mem
WaitMoveToMem(b, p, results) ==
  LET Body(c, pair, q, bell) ==
        MovePair(PairCorrections(WaitForEntInfo(c, results, pair), results, p, pair, q, bell), p, pair)
  IN  ForEachPair(b, p, Body)

\* A FutureQubit: its ID is read from the array of IDs when the subroutine runs.
FutureQubit(b, qids, pair) == NewQubitObject(b, Future(qids, pair), FALSE)

\* The post routine, as in the examples: measure the pair into its place in an array.
PostRoutine(b, p, qids, pair) ==
  Measure(FutureQubit(b, qids, pair), Len(b.ids) + 1, Future(p.outcomes, pair), FALSE)

\* _build_cmds_post_epr
PostEpr(b, p, results, qids) ==
  LET Body(c, pair, q, bell) ==
        PostRoutine(PairCorrections(WaitForEntInfo(c, results, pair), results, p, pair, q, bell), p, qids, pair)
  IN  ForEachPair(b, p, Body)

---------------------------------------------------------------------------
(* Requests.                                                               *)

\* serialize_request, of which the type and the number of pairs matter.
RequestArray(type, p) ==
  [i \in 1 .. SER_CREATE_LEN |-> CASE i = IDX_TYPE -> type [] i = IDX_NUMBER -> p.number [] OTHER -> None]

\* create_epr or recv_epr with the addresses it needs.
EprCommand(b, p, qids, args, results) ==
  Emit(b, << [mnemonic |-> IF p.role = "create" THEN "create_epr" ELSE "recv_epr",
              args     |-> << RemoteNode, EprSocket >>,
              operands |-> << qids >> \o args \o << Immediate(results) >>] >>)

\* The creator's request is in an array of its own.
RequestCommands(b, p, type, qids, results) ==
  IF p.role = "create"
    THEN LET args == NextAddress(b)
         IN  EprCommand(AllocArray(b, RequestArray(type, p)), p, qids, << Immediate(args) >>, results)
    ELSE EprCommand(b, p, qids, <<>>, results)

WaitAll(b, results) ==
  Emit(b, << Cmd("wait_all", << ArraySlice(results, Immediate(0), Immediate(b.lengths[results + 1])) >>) >>)

TooManyPairs(p) == ~ p.sequential /\ p.number > MaxQubits

\* _check_epr_args: only a request of type K is held to the number of qubits.
EprArgsBad(p, type) ==
  \/ p.sequential /\ p.number > 1 /\ p.outcomes = None
  \/ type = TypeK /\ TooManyPairs(p)

\* _create_ent_qubits: with one communication qubit, the pairs end up at n - 1, ..., 0, and
\* all but the last are moved there, so that those places are allocated first.
CreateEntQubits(b, p) ==
  LET free == FreeUp(b, Immediate(0))
      nvAt(c, i) == LET id == p.number - i IN
        NewQubitObject(RaiseIf(c, id # 0 /\ id \in UsedIds(c)), Immediate(id), id # 0)
      one  == get_new_qubit_address(b)
      numbers == [i \in 1 .. p.number |-> i]
  IN  IF b.hardware = "nv"
        THEN IF p.sequential
               THEN FoldLeft(LAMBDA c, i : NewQubitObject(c, Immediate(0), FALSE), free, numbers)
               ELSE FoldLeft(nvAt, free, numbers)
        ELSE FoldLeft(LAMBDA c, i : NewQubitObject(c, Immediate(IF p.sequential THEN one ELSE get_new_qubit_address(c)), FALSE),
                      RaiseIf(b, AnyFutureId(b)), numbers)

\* The Qubit objects of a request.
NewQubits(b, p) == [i \in 1 .. p.number |-> Len(b.ids) + i]

\* The arrays of the results and of the qubit IDs, which comes after it, and the qubits.
EntArrays(b, p, at0) ==
  LET WithIds(c) ==
        AllocArray(c, [i \in 1 .. p.number |-> IF at0 THEN 0 ELSE c.ids[Len(c.ids) - p.number + i].value])
  IN  WithIds(CreateEntQubits(AllocArray(b, Undefined(OK_FIELDS * p.number)), p))

RequestKeep(b, p, at0, resetResults) ==
  LET results == NextAddress(b)
      WithReset(c) == IF resetResults THEN UndefineArray(c, results) ELSE c
  IN  RequestCommands(WithReset(EntArrays(b, p, at0)), p, TypeK, Immediate(results + 1), results)

Corrected(b, p, results) ==
  IF p.role = "recv" /\ p.expectPhiPlus THEN KeepCorrections(b, results + 1, results, p) ELSE b

PairsCome(b, p, results) ==
  CASE p.outcomes # None -> PostEpr(b, p, results, results + 1)
    [] p.outcomes = None /\ b.hardware = "nv" -> WaitMoveToMem(b, p, results)
    [] OTHER -> Corrected(WaitAll(b, results), p, results)

\* sdk_epr_keep
EprKeep(b, p, resetResults) ==
  IF EprArgsBad(p, TypeK) THEN RaiseIf(b, TRUE)
  ELSE PairsCome(RequestKeep(b, p, b.hardware = "nv", resetResults), p, NextAddress(b))

\* sdk_epr_measure, sdk_epr_rsp_create: register C0 stands for the qubit IDs, which nobody reads.
EprMeasure(b, p, type) ==
  LET results == NextAddress(b)
      c == RequestCommands(AllocArray(b, Undefined(OK_FIELDS * p.number)), p, type, Register("C", 0), results)
  IN  IF EprArgsBad(p, type) THEN RaiseIf(b, TRUE) ELSE WaitAll(c, results)

\* sdk_epr_rsp_recv: pairs that the other side has measured are kept.
EprRspRecv(b, p) ==
  IF EprArgsBad(p, TypeR) THEN RaiseIf(b, TRUE)
  ELSE Corrected(WaitAll(RequestKeep(b, p, FALSE, FALSE), NextAddress(b)), p, NextAddress(b))

\* Up to max tries for all pairs within a time; a failed try frees them.
EprKeepUntil(b, p, tries, maxTime) ==
  LET results == NextAddress(b)
      qubits  == NewQubits(b, p)
      duration == Future(results, Immediate(OK_FIELDS * (p.number - 1) + IDX_GENERATION_DURATION))
      Cleanup(c) == IF p.sequential THEN UndefineArray(c, results)
                    ELSE FoldLeft(LAMBDA d, q : QFree(d, d.ids[q]), UndefineArray(c, results), qubits)
  IN  CloseLoopUntil(EprKeep(OpenLoop(b), p, TRUE), Len(b.regs) + 1, tries, duration, maxTime, Cleanup)

\* with create_context: the body is the post routine, and runs for each pair as it comes.
OpenEprContext(b, p) ==
  LET WithFuture(c) == FutureQubit(c, NextAddress(b) + 1, Last(c.regs))
  IN  WithFuture(OpenLoop(RequestKeep(RaiseIf(b, TooManyPairs(p)), p, FALSE, FALSE)))

CloseEprContext(b, p, id, results) ==
  LET wait == WaitForEntInfo([b EXCEPT !.pending = <<>>], results, b.regs[id])
  IN  CloseLoop([wait EXCEPT !.pending = @ \o b.pending], id, p.number)
=============================================================================
