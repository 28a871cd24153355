-------------------------------- MODULE Sdk ---------------------------------
(***************************************************************************)
(* An application that uses the SDK: its calls go to the builder, flush    *)
(* assembles what is pending and gives it to the node controller, whose    *)
(* machine runs it, and the host reads the results from shared memory      *)
(* (netqasm/sdk: connection.py, builder.py, futures.py, qubit.py,          *)
(* memmgr.py, epr_socket.py).  Beside the machine a world goes by what the *)
(* calls mean.                                                             *)
(*                                                                         *)
(* The transpiler is left out: module Assembler has it.  An application    *)
(* here keeps some rules; those the SDK does not state, and whose breach   *)
(* shows a fault of it, can be lifted one by one with Lifted.              *)
(***************************************************************************)
EXTENDS SdkMeaning

CONSTANTS
  Profiles,   \* kinds of applications: hardware, calls it may make, how many, and what
              \* the pairs are like that it will get
  Coins,      \* measurement outcomes
  Lifted,     \* the rules an application does not keep
  Patience    \* bound: a subroutine runs for at most 2 ^ Patience turns

VARIABLES
  profile,
  app,       \* the application: its open with statements, qubits, arrays and RegFutures
  builder,   \* of module Builder
  machine,   \* the node controller, of module Isa
  world,     \* of module SdkMeaning
  answers    \* the RegFutures of the last subroutine, with the values the host reads

vars == << profile, app, builder, machine, world, answers >>

---------------------------------------------------------------------------
(* The qubits of the machine: which one is where, and what was done.       *)

JunkToken == << "junk", 0 >>

TokenQuantum0 == [at |-> [p \in Slots |-> JunkToken], fresh |-> 0, trace |-> <<>>]

TokenHook(s, e) ==
  CASE e.op = "init"  -> [s EXCEPT !.at[e.at[1]] = NewToken(s.fresh + 1), !.fresh = @ + 1]
    [] e.op = "epr"   -> [s EXCEPT !.at[e.at[1]] = PairToken(e.num)]
    [] e.op = "qfree" -> [s EXCEPT !.at[e.at[1]] = JunkToken]
    [] e.op = "mov"   -> [s EXCEPT !.at = [@ EXCEPT ![e.at[2]] = s.at[e.at[1]], ![e.at[1]] = JunkToken]]
    [] OTHER -> [s EXCEPT !.trace = Append(@, Event(e.op, [i \in DOMAIN e.at |-> s.at[e.at[i]]], e.num, e.denom))]

---------------------------------------------------------------------------
(* The application.                                                        *)

Block(call) == [call |-> call, body |-> <<>>, qubits |-> {}]

App0 ==
  [blocks |-> << Block([op |-> "main"]) >>, alive |-> {}, arrays |-> <<>>, registers |-> {}, calls |-> 0]

Innermost == Last(app.blocks)

network == profile.network

Outermost == Len(app.blocks) = 1

May(call) ==
  /\ call \in profile.menu /\ app.calls < profile.calls
  /\ ~ builder.raised /\ machine.status = "done" /\ world.defined

Keeps(rule, condition) == rule \in Lifted \/ condition

Count(a) == [a EXCEPT !.calls = @ + 1]

Write(a, call) == Count([a EXCEPT !.blocks[Len(a.blocks)].body = Append(@, call)])

AddQubits(a, qubits) ==
  [a EXCEPT !.alive = @ \cup qubits, !.blocks[Len(a.blocks)].qubits = @ \cup qubits]

Enter(a, call) == Count([a EXCEPT !.blocks = Append(@, Block(call))])

Leave(a) ==
  LET block == Last(a.blocks)
      outer == [a EXCEPT !.blocks = Front(@)]
  IN  [outer EXCEPT !.blocks[Len(outer.blocks)].body = Append(@, [body |-> block.body] @@ block.call)]

\* What the SDK puts in the memory of the application, with its initial values.
WithArrays(w, b) ==
  [w EXCEPT !.arrays = FoldLeft(LAMBDA f, a : IF a.addr \in DOMAIN f THEN f ELSE (a.addr :> a.init) @@ f, @, b.arrays)]

Calls(a, b) ==
  /\ app' = a /\ builder' = b
  /\ world' = WithArrays(world, b)
  /\ UNCHANGED << profile, machine, answers >>

OpenLoopIds == { app.blocks[i].call.id : i \in { j \in DOMAIN app.blocks : app.blocks[j].call.op \in {"loop", "epr_context"} } }

\* Entries of the application's arrays: the first, the one of a turn of the loop, and the
\* one whose index is in another array.
Futures ==
  LET addresses == ToSet(app.arrays) IN
  { Future(a, Immediate(0)) : a \in addresses }
  \cup { Future(a, RegFuture(id)) : a \in addresses, id \in OpenLoopIds }
  \cup { Future(a, Future(i, Immediate(0))) : a \in addresses, i \in addresses }

Nested(v) == v.kind = "future" /\ v.index.kind = "future"

Registers == { RegFuture(id) : id \in app.registers }

---------------------------------------------------------------------------
(* Calls for qubits.                                                       *)

OnNv == profile.hardware = "nv"

\* A qubit on an NV centre is moved once and for all where the SDK says so, be it in a
\* body that is run twice, or not at all.
MayMove ==
  /\ Keeps("moves", OnNv /\ ~ Outermost => \A q \in app.alive : q \in Innermost.qubits)
  /\ Keeps("leftovers", OnNv => ToSet(builder.qubits) \subseteq app.alive)

\* Where place 0 is needed, whoever is there must have a place to go to; and if a new qubit
\* is all that was made last, it must be the one that is in the way.
MayFreeUp ==
  OnNv /\ 0 \in UsedIds(builder) =>
    /\ Keeps("room", get_new_qubit_address(builder) < MaxQubits)
    /\ Keeps("patches", JustInitialised(builder.pending) => builder.ids[Len(builder.ids)] = Immediate(0))

\* No new qubit while there is one whose ID is not known yet.
NoFutureIds == Keeps("future IDs", ~ AnyFutureId(builder))

CreateQubit ==
  /\ May("qubit") /\ get_new_qubit_address(builder) < MaxQubits /\ MayMove /\ NoFutureIds
  /\ LET q == Len(builder.ids) + 1
     IN  Calls(AddQubits(Write(app, [op |-> "qubit", qubit |-> q]), {q}), NewQubit(builder))

GateCall(gate, qubits, num, denom) == [op |-> "gate", gate |-> gate, qubits |-> qubits, num |-> num, denom |-> denom]

ApplyGate(q) ==
  /\ May("gate")
  /\ \/ Calls(Write(app, GateCall("x", << q >>, 0, 0)), SingleQubit(builder, builder.ids[q], << OnQubit("x") >>))
     \/ Calls(Write(app, GateCall("rot_z", << q >>, 1, 2)),
              SingleQubit(builder, builder.ids[q],
                          << Cmd("rot_z", << QubitRegister(0), Immediate(1), Immediate(2) >>) >>))

ApplyTwoQubitGate(q, r) ==
  /\ May("gate2") /\ q # r
  /\ Calls(Write(app, GateCall("cnot", << q, r >>, 0, 0)), TwoQubit(builder, "cnot", builder.ids[q], builder.ids[r]))

MeasureCall(q, future, inplace) == [op |-> "measure", qubit |-> q, future |-> future, inplace |-> inplace]

Measured(a, q, inplace) == IF inplace THEN a ELSE [a EXCEPT !.alive = @ \ {q}]

MeasureInto(a, b, q, future, inplace) ==
  Calls(Measured(Write(a, MeasureCall(q, future, inplace)), q, inplace), Measure(b, q, future, inplace))

\* Only in the body where it was made may a qubit be given up.
MeasureQubit(q) ==
  /\ MayMove /\ (builder.ids[q] # Immediate(0) => MayFreeUp)
  /\ \E inplace \in {FALSE} \cup (IF May("inplace") THEN {TRUE} ELSE {}) :
       /\ inplace \/ q \in Innermost.qubits
       /\ \/ /\ May("measure")
             /\ MeasureInto(app, AllocArray(builder, << None >>), q,
                            Future(NextAddress(builder), Immediate(0)), inplace)
          \/ /\ May("measure_reg") /\ Keeps("registers", Outermost)
             /\ LET id == Len(builder.regs) + 1
                IN  MeasureInto([app EXCEPT !.registers = @ \cup {id}], builder, q, RegFuture(id), inplace)
          \/ May("measure_into") /\ \E f \in Futures : MeasureInto(app, builder, q, f, inplace)

---------------------------------------------------------------------------
(* Calls for values.                                                       *)

InitialValues == { << 0, 0 >>, << 1, None, 1 >>, << 1 >> }

NewArray ==
  /\ May("array") /\ Len(app.arrays) < 2
  /\ \E init \in InitialValues :
       Calls([Count(app) EXCEPT !.arrays = Append(@, NextAddress(builder))], AllocArray(builder, init))

NewRegister ==
  /\ May("register") /\ Outermost
  /\ LET id == Len(builder.regs) + 1
     IN  Calls([Write(app, [op |-> "register", id |-> id, init |-> 1]) EXCEPT !.registers = @ \cup {id}],
               new_register(builder, Immediate(1)))

\* The arrays that say where a value is.
ArraysOf(v) == {v.addr} \cup (IF v.index.kind = "future" THEN {v.index.addr} ELSE {})

AddValue ==
  /\ May("add")
  /\ \E v \in Futures \cup Registers, other \in Futures \cup Registers \cup {Immediate(1)}, mod \in {None, 2} :
       /\ Keeps("nested addends", ~ (Nested(v) /\ other.kind = "future"))
       /\ Keeps("addends in one array",
                v.kind = "future" /\ other.kind = "future" => v.addr \notin ArraysOf(other))
       /\ Keeps("register addends", other.kind # "regfuture")
       /\ Calls(Write(app, [op |-> "add", value |-> v, other |-> other, mod |-> mod]), Add(builder, v, other, mod))

UndefineValues ==
  /\ May("undefine")
  /\ \E addr \in ToSet(app.arrays) :
       Calls(Write(app, [op |-> "undefine", addr |-> addr]), UndefineArray(builder, addr))

---------------------------------------------------------------------------
(* with statements.                                                        *)

EnterLoop ==
  /\ Len(app.blocks) < 3
  /\ \E number \in (IF May("loop") THEN {2} ELSE {})
               \cup (IF May("foreach") THEN { builder.lengths[a + 1] : a \in ToSet(app.arrays) } ELSE {}) :
       Calls(Enter(app, [op |-> "loop", id |-> Len(builder.regs) + 1, number |-> number]), OpenLoop(builder))

Conditions == {"bez", "bnz", "beq", "bne", "blt", "bge"}

EnterIf ==
  /\ May("if") /\ Len(app.blocks) < 3
  /\ \E cond \in Conditions, v \in Futures \cup Registers, other \in Futures \cup {Immediate(1)} :
       /\ cond \in {"bez", "bnz"} => other = Immediate(1)
       /\ Keeps("nested conditions", ~ Nested(v) /\ ~ Nested(other))
       /\ Calls(Enter(app, [op |-> "if", cond |-> cond, value |-> v, other |-> other]), OpenContext(builder))

\* Until an entry is below a limit, at most twice.
EnterUntil ==
  /\ May("until") /\ Len(app.blocks) < 3
  /\ \E a \in ToSet(app.arrays) :
       Calls(Enter(app, [op |-> "until", id |-> Len(builder.regs) + 1, tries |-> 2,
                         future |-> Future(a, Immediate(0)), limit |-> 0]), OpenLoop(builder))

\* ValueAtMostConstraint means less than its value.
BelowLimit(limit) == IF "at most" \in Lifted THEN limit ELSE limit + 1

Closed(b, call) ==
  CASE call.op = "loop" -> CloseLoop(b, call.id, call.number)
    [] call.op = "if"   -> CloseIf(b, call.cond, call.value, call.other)
    [] call.op = "epr_context" -> CloseEprContext(b, call.p, call.id, call.results)
    [] call.op = "until" ->
         CloseLoopUntil(b, call.id, call.tries, call.future, BelowLimit(call.limit), LAMBDA c : c)

LeaveBlock ==
  /\ ~ Outermost /\ Innermost.body # <<>> /\ Innermost.qubits \cap app.alive = {} /\ ~ builder.raised
  /\ Calls(Leave(app), Closed(builder, Innermost.call))

---------------------------------------------------------------------------
(* Entanglement.                                                           *)

Parameters(role, number, sequential, outcomes) ==
  [role |-> role, number |-> number, sequential |-> sequential, expectPhiPlus |-> TRUE, outcomes |-> outcomes]

Requests == { Parameters(role, number, FALSE, None) : role \in {"create", "recv"}, number \in {1, 2} }

\* A receiver corrects the qubit at 0, whichever it got.
MayReceive(p) ==
  Keeps("corrections",
        p.role = "recv" /\ ~ OnNv =>
          \/ \A n \in DOMAIN network : network[n].bell = PHI_PLUS
          \/ p.number = 1 /\ get_new_qubit_address(builder) = 0)

\* Qubits for the pairs; on an NV centre the places where they end up must be free.
MayKeep(p) ==
  /\ MayMove /\ MayFreeUp /\ MayReceive(p) /\ NoFutureIds
  /\ Cardinality(UsedIds(builder)) + p.number <= MaxQubits
  /\ Keeps("occupied", OnNv /\ p.number > 1 => UsedIds(builder) = {})

Kept(p) == [op |-> "keep", p |-> p, qubits |-> NewQubits(builder, p), results |-> NextAddress(builder)]

Keep ==
  /\ May("keep")
  /\ \E p \in Requests :
       /\ MayKeep(p)
       /\ Calls(AddQubits(Write(app, Kept(p)), ToSet(NewQubits(builder, p))), EprKeep(builder, p, FALSE))

ReceiveRsp ==
  /\ May("rsp") /\ ~ OnNv
  /\ \E p \in { r \in Requests : r.role = "recv" } :
       /\ MayKeep(p)
       /\ Calls(AddQubits(Write(app, Kept(p)), ToSet(NewQubits(builder, p))), EprRspRecv(builder, p))

\* The Qubit objects that a request with a post routine returns stand for nothing.
KeepPost ==
  /\ May("keep_post") /\ Outermost
  /\ \E role \in {"create", "recv"}, sequential \in BOOLEAN, a \in ToSet(app.arrays) :
       LET p == Parameters(role, 2, sequential, a)
       IN  /\ MayKeep(p)
           /\ Keeps("leftovers", builder.ids = <<>>)
           /\ Keeps("not sequential", ~ (OnNv /\ ~ sequential))
           /\ Calls(Write(app, [op |-> "keep_post", p |-> p, qubits |-> NewQubits(builder, p),
                                results |-> NextAddress(builder)]),
                    EprKeep(builder, p, FALSE))

\* A pair that must not take longer than a limit, in at most two tries.
KeepUntil ==
  /\ May("keep_until") /\ Outermost
  /\ \E role \in {"create", "recv"}, number \in {1, 2} :
       LET p == Parameters(role, number, FALSE, None)
           call == [op |-> "keep_until", p |-> p, qubits |-> NewQubits(builder, p), results |-> NextAddress(builder),
                    tries |-> 2, limit |-> 5,
                    future |-> Future(NextAddress(builder), Immediate(OK_FIELDS * (number - 1) + IDX_GENERATION_DURATION))]
       IN  /\ MayKeep(p) /\ Keeps("moves", OnNv => app.alive = {})
           /\ Calls(AddQubits(Write(app, call), ToSet(NewQubits(builder, p))),
                    EprKeepUntil(builder, p, 2, BelowLimit(5)))

EnterEprContext ==
  /\ May("epr_context") /\ Outermost /\ Keeps("leftovers", builder.ids = <<>>)
  /\ \E sequential \in BOOLEAN :
       LET p == Parameters("create", 2, sequential, None)
           opened == OpenEprContext(builder, p)
           call == [op |-> "epr_context", p |-> p, id |-> Len(opened.regs), qubit |-> Len(opened.ids),
                    results |-> NextAddress(builder)]
       IN  /\ MayKeep(p) /\ Keeps("not sequential", ~ (OnNv /\ ~ sequential))
           /\ Calls(AddQubits(Enter(app, call), {Len(opened.ids)}), opened)

MeasurePairs ==
  /\ May("epr_measure")
  /\ \E role \in {"create", "recv"}, type \in {TypeM, TypeR}, number \in {1, 2} :
       /\ role = "recv" => type = TypeM
       /\ Calls(Write(app, [op |-> "epr_measure", number |-> number, results |-> NextAddress(builder)]),
                EprMeasure(builder, Parameters(role, number, FALSE, None), type))

---------------------------------------------------------------------------
(* flush                                                                   *)

\* One turn of the node controller: an instruction, or a pair it waits for.
Turn(m, code) ==
  IF m.status = "waiting"
    THEN IF m.pairs < Len(network) THEN DeliverPair(m, EntInfo(network, m.pairs + 1)) ELSE [m EXCEPT !.status = "stuck"]
    ELSE StepCommands(m, code)

RECURSIVE Turns(_, _, _)
Turns(m, code, k) ==
  IF m.status \notin {"running", "waiting"} THEN m
  ELSE IF k = 0 THEN Turn(m, code) ELSE Turns(Turns(m, code, k - 1), code, k - 1)

\* execute_subroutine, of an application that was there before.
Execute(m, code) == Turns([m EXCEPT !.pc = 0, !.status = "running"], code, Patience)

Answers(m) ==
  [id \in app.registers |->
     IF builder.regs[id] \in DOMAIN m.returned THEN m.returned[builder.regs[id]] ELSE None]

\* subrt_pop_pending_subroutine, commit_protosubroutine and _reset.
Flush ==
  /\ Outermost /\ ~ builder.raised /\ machine.status = "done" /\ world.defined
  /\ Innermost.body # <<>> \/ builder.arrays # <<>>
  /\ LET done == Subroutine(builder)
         m    == Execute(machine, Assembled(done.pending))
     IN  /\ builder' = RaiseIf(Reset([done EXCEPT !.pending = <<>>]), ~ CanAssemble(done.pending))
         /\ machine' = IF CanAssemble(done.pending) THEN m ELSE machine
         /\ answers' = Answers(machine')
         /\ world' = Run(world, network, Innermost.body)
         /\ app' = [app EXCEPT !.blocks = App0.blocks, !.registers = {},
                               !.blocks[1].qubits = app.alive]
         /\ UNCHANGED profile

---------------------------------------------------------------------------

Init ==
  /\ profile \in Profiles
  /\ app = App0 /\ builder = Builder0(profile.hardware) /\ answers = <<>>
  /\ \E coins \in Coins :
       machine = [Machine0(coins) EXCEPT !.status = "done"] /\ world = World0(coins)

Next ==
  \/ CreateQubit
  \/ \E q \in app.alive : ApplyGate(q) \/ MeasureQubit(q)
  \/ \E q, r \in app.alive : ApplyTwoQubitGate(q, r)
  \/ NewArray \/ NewRegister \/ AddValue \/ UndefineValues
  \/ EnterLoop \/ EnterIf \/ EnterUntil \/ LeaveBlock
  \/ Keep \/ ReceiveRsp \/ KeepPost \/ KeepUntil \/ EnterEprContext \/ MeasurePairs
  \/ Flush

Spec == Init /\ [][Next]_vars

---------------------------------------------------------------------------
(* What the SDK promises, after every flush.                               *)

Idle == Outermost /\ Innermost.body = <<>> /\ builder.arrays = <<>> /\ machine.status = "done"

\* What was done to the qubits, and at last, which qubit each object stands for.
Told(trace, holds) == trace \o [i \in DOMAIN holds |-> Event("holds", << holds[i] >>, 0, 0)]

Objects == SelectSeq([q \in DOMAIN builder.ids |-> q], LAMBDA q : q \in DOMAIN world.qubits)

Place(q) == builder.ids[q].value

DoneToQubits == Told(machine.quantum.trace, [i \in DOMAIN Objects |-> machine.quantum.at[Place(Objects[i])]])

MeantForQubits == Told(world.trace, [i \in DOMAIN Objects |-> world.qubits[Objects[i]]])

Operation(e) == << e.op, Len(e.on), e.num, e.denom >>

Operands(trace) == FlattenSeq([i \in DOMAIN trace |-> trace[i].on])

\* The same operations on the same qubits, whatever the new ones are called.
SameTrace(s, t) ==
  LET a == Operands(s)
      b == Operands(t)
  IN  /\ [i \in DOMAIN s |-> Operation(s[i])] = [i \in DOMAIN t |-> Operation(t[i])]
      /\ \A i \in DOMAIN a :
           /\ a[i][1] = b[i][1] /\ (a[i][1] = "pair" => a[i] = b[i])
           /\ \A j \in 1 .. i : a[i] = a[j] <=> b[i] = b[j]

\* Gates, measurements and corrections reach the qubits they were called for, in the
\* order of the program, however the qubits were moved and the virtual IDs reused
\* (builder.py, qubit.py, memmgr.py).
QuantumAsWritten == Idle /\ world.defined => SameTrace(DoneToQubits, MeantForQubits)

\* Every array of the application holds for the host what the program meant, and so do
\* the RegFutures of the subroutine: no temporary register, loop register or register of
\* an outcome is overwritten while it is needed (futures.py, builder.py, memmgr.py).
ValuesAsWritten ==
  Idle /\ world.defined =>
    /\ machine.shared = world.arrays
    /\ \A id \in DOMAIN answers : answers[id] = world.regs[id]

\* A program that is right is built, assembled and run to its end: no call raises, no
\* instruction does, and no wait is for ever; only reading a value that is not there raises.
RunsToItsEnd == ~ builder.raised /\ machine.status = (IF world.defined THEN "done" ELSE "raised")

\* The virtual IDs the host thinks are in use are those the node controller has
\* allocated, and no two objects share one.
HostKnowsAllocation ==
  Idle /\ world.defined =>
    /\ machine.unit = { Place(q) : q \in DOMAIN world.qubits }
    /\ \A p, q \in DOMAIN world.qubits : Place(p) = Place(q) => p = q
=============================================================================
