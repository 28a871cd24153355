# A formal model of NetQASM

NetQASM lets a *host* program drive a quantum network node: the SDK turns Python into
subroutines of NetQASM instructions, a *quantum node controller* executes them, and a
*network stack* delivers entangled (EPR) pairs. This directory holds TLA+ specifications of
the stateful parts of the repository, TLC configurations that check them on small instances,
and proofs checked by TLAPS. Paths below are relative to `src/netqasm/`.

## 1. Inventory

| component | state it keeps | operations | talks to |
|---|---|---|---|
| Executor (`backend/executor.py`) | unit modules, registers, arrays and shared memories per application; used physical qubits; subroutines and their program counters; create and receive request lists; pending responses | register and stop an application, execute a subroutine (a generator), handle a response | network stack (`put`, and the call back `_handle_epr_response`), shared memory, node controller |
| QNodeController (`backend/qnodeos.py`) | active application IDs, `finished` | one handler per message type | host (messages), executor |
| Network stack (`backend/network_stack.py`) | external, abstract here | `put`, `setup_epr_socket`, `get_purpose_id` | executor, remote node |
| Shared memory (`sdk/shared_memory.py`) | process-wide table of memories | create, get, reset; registers and arrays | executor writes, connection and futures read |
| Connection (`sdk/connection.py`) | application IDs in use (class-wide), cached shared memory, builder | open, flush, close | node controller, builder |
| Builder, memory manager, qubits, futures (`sdk/builder.py`, `sdk/memmgr.py`, `sdk/qubit.py`, `sdk/futures.py`, `sdk/build_epr.py`) | active qubits, active registers, array addresses, pending commands | one method per SDK operation, contexts for loops, conditions and retries, reset on flush | connection |
| Classical sockets (`sdk/classical_communication/thread_socket/`) | one hub per process: open and remote sockets, messages, weak callbacks, a lock | connect, disconnect, send, recv | two host threads |
| Broadcast channel (`sdk/classical_communication/broadcast_channel.py`) | its sockets | send to all, receive from any | sockets |
| Assembler (`lang/parsing/text.py`, `lang/ir.py`) | none | labels, macros, constants to registers | SDK |
| Transpiler (`sdk/transpile.py`) | register values it has seen | gate by gate translation to another instruction set | SDK |
| Encoding and messages (`lang/encoding.py`, `lang/instr/`, `backend/messages.py`) | none | to and from bytes | host, node controller |
| Runtime, logging, command line | files | | |

Which behaviours are hard:

* **Interleaving.** Every instruction handler is a generator that a simulator may suspend;
  subroutines of several applications, the clearing of a stopped application (which yields
  between two qubits) and the call backs of the network stack interleave freely.
* **Ordering.** Responses are matched with requests by position, not by an identifier; a
  response that cannot be handled yet is passed over, and later ones are tried.
* **Partial failure.** A scan changes counters, tables and the qubit mapping before it does
  things that can raise; an exception leaves the scan and keeps the response.
* **Stale state.** Sockets are known to the hub by key, not by object, and are disconnected
  by the garbage collector; shared memories outlive their application; IDs are given back
  before the application is gone.
* **Waiting.** `wait_all` and its relatives poll; `connect` and `recv` poll with a timeout.
* **Code that writes code.** The builder hands out registers, addresses and virtual qubits
  when a call is made, the commands run later, perhaps twice or not at all; the assembler
  takes registers of its own, and the transpiler believes what it last saw in a register.
* **Rules nobody enforces.** App IDs, shared memories and the STOP signal rely on what
  applications do; `Lifecycle` and `Sdk` name each of these rules.

What makes each part correct: for the executor, no physical qubit is shared, leaked or handed
out twice, every pair is credited to its own request once, and who waits for entanglement gets
it; for the sockets, messages are neither duplicated nor reordered, none is lost but one that meets the
closing of its receiver, and no side waits for ever; for connections, an application never sees another one's memory or qubits; for the
builder, what is allocated is returned on every path and emitted code does what the Python
block says; for the assembler, transpiler and encoding, that the program means the same
afterwards.

## 2. Modules

| module | what it is |
|---|---|
| `EprPairs` | abstract: per channel, a queue of pairs owed to requests and a queue of pairs reported; a pair is credited from the front of both |
| `Executor` | the executor, its applications and interleaved subroutines, and an external network stack; implements `EprPairs` |
| `SocketHub` | the hub and the socket objects of two hosts |
| `Tenancy` | abstract: app IDs are let to one application at a time, which finds its own memory |
| `Lifecycle` | connections, node controller and shared memories of one node; implements `Tenancy` |
| `Instructions` | operands, instruction layouts, flavours, and their bytes |
| `Isa` | the instruction handlers of the executor, as functions of a machine record |
| `PauliFrames` | what gates, measurements and resets do to qubits, without complex numbers |
| `TextAssembler` | the passes of `assemble_subroutine` |
| `NvTranspiler` | `NVSubroutineTranspiler` |
| `SourceProgram` | abstract: a program does what its text says, command by command |
| `Assembler` | text, assembler, transpiler, templates, bytes, machine; implements `SourceProgram` |
| `Builder`, `EprBuilder` | from the calls of an application to commands; the part about entanglement |
| `SdkMeaning` | abstract: what the calls of an application mean, whatever the builder does |
| `Sdk` | application, builder, assembler and machine over several flushes, beside the meaning |
| `MCExecutor`, `MCSocketHub`, `MCLifecycle`, `MCAssembler`, `MCSdk` | instances for TLC |
| `ExecutorProofs`, `PairProofs`, `RequestProofs` | theorems about `Executor`: alone, with `EprPairs`, and on hosts that wait |
| `SocketHubProofs`, `LifecycleProofs`, `InstructionsProofs` | theorems about the modules of that name |
| `AssemblerProofs` | `Assembler`, for the vanilla flavour, implements `SourceProgram` |
| `SequenceLemmas` | what these proofs use of sequences: induction, and joining by `FlattenSeq` |

What builds on what: `Instructions` <- `Isa`, `TextAssembler`, `NvTranspiler`; these and `PauliFrames`
<- `Assembler`; `TextAssembler` and `Isa` <- `Builder` <- `EprBuilder` <- `SdkMeaning` <- `Sdk`.
`Executor` and `Isa` share the code of `executor.py` between them: `Executor` has what
interleaves (subroutines, applications, responses) and `Isa` what one subroutine computes.

### Executor

State. `modules`, `arrays`, `shared`, `used`, `reqs` and `pending` are the dictionaries, set
and lists of the class, `memories` the keys of `SharedMemoryManager`. A subroutine is a record
in `subs`; its ID is its index, as `_get_new_subroutine_id` counts. `clearing` is a generator
of `stop_application` that is suspended: what is left of the unit module it has popped.
`scanning` says that `_handle_pending_epr_responses` is running. `net`, `issued` and `errors`
belong to the stack, `raised` is a history variable.

Steps. One instruction is one action, since that is what lies between two points where the
generators may be suspended. A scan is several actions, one per response that it handles, but
nothing else can happen while `scanning` is set, so together they are one step of the
code. A wait that is not over is not a step: it polls. `Rescan` is the hook
`_wait_to_handle_epr_responses`, which subclasses turn into a pause.

Errors. Every early exception is a disjunct of its own (`Fail`, `Raise`, the `KeyError` of
`ReleaseFrom`, the failing last step of `InitApplication`), with what was assigned before it.
A failed subroutine keeps its entry, as in the code; a finished one loses it.

Data. A register operand is the value the subroutine has loaded in it; programs are straight
lines of instructions. The ten fields of an OK response are one array entry, the create ID,
and an array for n pairs has n entries; `Sizes` bounds the length of arrays and the
number of pairs of a request. The information about a request and its pairs that
the abstract level talks about (`tag`) is carried along but never consulted by the actions.

External stack. It works on the requests of a channel in order, reports each pair by
`_handle_epr_response`, and takes a qubit for a pair to keep as `_get_unused_physical_qubit`
does, so that it and the executor share one pool of physical addresses. The code needs this
assumption: it does not mark the qubit of a response that waits, and a stack with a pool of its own
could see the qubit given away by a `qalloc`. `RemotePlan` gives the requests of the remote
node. Pairs of the remote node may arrive before the matching `recv_epr`.

`HostBlocks` selects the kind of host: one that waits for each subroutine and for the stop of its
application before it goes on (the default `block=True` of `Connection`), or one that does
neither, so that subroutines of one application run concurrently, and an application is
stopped while its subroutines run and registered again while its stop is under way. Neither kind
registers an application that is registered. `init_new_application` does not check this: it would replace the
unit module and forget the qubits in it. It is an assumption about hosts, which `Connection` meets by taking
a free ID; what happens when the IDs of two names meet is in `Lifecycle` (rule *names*).

### SocketHub

All sockets that share an application pair and socket ID have the same key per host, which is
the host in the model. A host runs in one thread, which executes one call of the hub at a time; a step is what
it does between two accesses to the tables. Sockets are objects with a life:
`opening`, `up`, `failed` (the constructor raised a `TimeoutError`), `gone` (collected).
Closing is two steps with the lock held in between, since the call back of the other
side runs there. `ResetHub` replaces all tables; it is called between runs of the hosts, when
no call is in progress, and what still waits in a queue is thrown away with them: the books of messages
begin anew. A message is its number in the order of sending.

The books (`sent`, `delivered`, `dropped`, `cut`) are history. `send` looks a callback up and then calls
it; in between the receiving socket may be collected, and the message goes nowhere, even if a newer socket of
the same key is up by then. `dropped` has the messages to which this happened. `cut` has
those that had been sent and had not arrived when a socket of the receiver closed.
`LossNeedsAClose` allows no other loss: only such a message is dropped, and only at a host with
callbacks.

### Lifecycle and Tenancy

A connection is its number in the order of construction, and the memory that its registration
creates has the same number. `appIds` is the class-wide `_app_ids`, `memories` the table of
`SharedMemoryManager` for the node, `active` is `_active_app_ids` of the controller, `modules` and
`shared` are the tables of the executor, `inbox` what the controller has not handled yet.

The constructor is three steps: `PickId` finds a free ID, `Construct` puts it in the
list, looks up the memory, which need not exist yet, and sends the message; `FinishConstruct` looks the memory
up again and raises if there is none. They are apart because other threads may run between them,
and because the answer of the node controller lies between the last two. `Close` gives the ID
back and only then sends the stop message, as `close` does. The handler of that message
yields for every qubit: `HandleStop`, `FinishStop`. A handler that raises leaves the host without
an answer: the connection is `hung`.

The code relies on rules it does not enforce. `Lifted = {}` obeys all of them; each can be
lifted, and TLC then shows what it protects:

| rule | why an application may be expected to keep it | what fails without it |
|---|---|---|
| names: the connections alive on a node in one process have one application name | one application runs per node (`runtime/application.py`); IDs are counted per name | `OwnMemory`, `HangsOnStaleMemoryOnly` |
| thread: constructing and closing are done by one thread | an application is one thread | `OwnMemory`, `HangsOnStaleMemoryOnly`, `EveryCloseEnds` |
| last: only the last connection stops the controller | `stop_backend` exists for this, but the context manager's default is to stop | `EveryCloseEnds` |
| sockets: no EPR socket with oneself | `ValueError`, raised after the application was registered | `HangsOnStaleMemoryOnly`, `NothingLeftBehind`, `OneTenant` |
| reset: memories are reset only when no connection is alive | `reset_memories` is called between runs | `OwnMemory`, `HangsOnStaleMemoryOnly`, `NothingLeftBehind`, `OneTenant` |

The documentation of `app_id` promises an ID "unique among possible other applications that were
registered before" (`sdk/connection.py:118-121`): the IDs are unique per name only, which is what
rule *names* hides. With every rule obeyed, one fault is left in the run itself, and
`HangsOnStaleMemoryOnly` says that it is the only one: nothing removes the memory of an application
that has stopped, so the next application with its ID hangs, unless the memories were reset.

### Instructions, Isa, Assembler, NvTranspiler, SourceProgram

`Assembler` starts from what the lexical part of the parser returns (`source`), makes the
passes of `assemble_subroutine`, transpiles for the targets `nv` and `nv_hardware`, fills the
templates in, writes bytes, reads them back, and lets the machine of `Isa` run the
result. `Compile` is one action, as nothing else can see its parts; `Execute` is
one instruction. `origin` records which command of the source an instruction came from, and `seen` the
machine when it was last between two commands.

The refinement mapping to `SourceProgram` gives it `seen`, with the position in the text
instead of the program counter and without the registers the program does not name: what the
assembler puts in those is its own affair. `RunsAsWritten` then says that every
stretch of instructions is one command. The quantum part of the machine is a Pauli frame: two
sequences of gates are equal if they turn every Pauli operator the same way, and rotations by
less than a quarter turn are equal if they turn about the same operator by the same angle. So a
decomposition into rotations of the NV centre is compared with the matrix of its gate
exactly, up to global phase.

Programs (`MCAssembler`): every way to fill frames of three commands between labels and
jumps with twelve commands that have constants, array indices or templates (`Frames`);
every two-qubit gate in every pair of places with every kind of single-qubit gate, in loops
(`Loops`), under conditions (`Conditionals`), moves from the electron to a carbon and back
(`Moves`), and qubits whose place is read from memory (`Loaded`). `NumRegisters` is 5, so that
the registers for constants run out in some of them, which the assembler rejects.
`CrotYAxis` is "y", the axis by the name of the gate: `to_matrix` of `crot_y` in `nv.py:107` uses
the x axis. With `Shape = "stale"` (not a run of its own) `RunsAsWritten` fails: the
transpiler takes the last `set` of a register for its value, also after a `load`.

### Builder, EprBuilder, Sdk, SdkMeaning

`builder` holds what `Builder` and `MemoryManager` keep: pending commands, contexts, active
registers, arrays, qubits. An action of `Sdk` is a call of the application: it writes the call down in
`app`, for `SdkMeaning`, and passes it to the builder. `Flush` pops the
subroutine, assembles it with `TextAssembler`, runs it on the machine of `Isa` with the pairs of
`profile.network`, lets the host read registers and arrays, and lets `SdkMeaning` run the calls
that were written. The two then have to agree on four things, one property each: what was done to the qubits (`QuantumAsWritten`),
what the values are (`ValuesAsWritten`), that nothing raised or waits for ever (`RunsToItsEnd`), and
which virtual qubits are allocated (`HostKnowsAllocation`).

In the machine, a place holds a token: a new qubit, half of a pair, or junk. The trace of
operations on tokens is compared with that of the meaning, where an operation names a `Qubit` object.
So it does not matter where a qubit is, but it does matter which one it is.

A bug of the SDK that a program of the run would meet is a rule of the application, so
that everything beyond it is still covered. Each rule can be lifted:

| rule | the code | what fails without it |
|---|---|---|
| corrections: a receiver of imperfect pairs asks for one pair, into qubit 0 | `builder.py:1393` sets the register of the qubit to 0 | `QuantumAsWritten` (run `sdk_corrections`) |
| at most: limits are meant to be one lower | a constraint "at most" becomes a `blt` to the exit (`builder.py:934`) | `QuantumAsWritten` |
| moves: on an NV centre, a body only moves qubits made in it | qubits are moved, and their IDs changed, at build time, while the body may run twice or not at all | `RunsToItsEnd` |
| leftovers: no object is left active by a post routine or context | its `Qubit` objects stay active after their qubits are gone | `RunsToItsEnd` |
| room: there is a free place when qubit 0 is needed | with all in use, measuring another qubit needs one more | `RunsToItsEnd` |
| patches: the last three commands do not initialise another qubit | freeing qubit 0 rewrites the last three commands (`builder.py:1314-1333`) | `RunsToItsEnd` |
| occupied: several pairs at once only with all qubits free | an assertion (`builder.py:721`) | `RunsToItsEnd` |
| future IDs: no new qubit inside a context over pairs | comparing the ID of a `FutureQubit` raises | `RunsToItsEnd` |
| registers: outcomes in registers only outside bodies | the register is returned although it may never be set | `RunsToItsEnd` |
| nested conditions: no condition on an entry whose index is an entry | entry 0 is tested | `RunsToItsEnd` |
| nested addends, addends in one array, register addends | `futures.py:301`: the other addend is stored back after the result, its register is overwritten, or 0 is added | `ValuesAsWritten` |
| not sequential: an NV centre takes pairs one by one in contexts | IDs are allocated that are never used | `HostKnowsAllocation` |

Further disagreements that were met while writing the modules, outside their programs: the register of
`new_register` is known to the builder that made it only until the flush, so that constants
of a later subroutine overwrite it; `if_ez` and `if_nz` on a `Future`, and `loop_until`, do not return
a register; registers M run out after 16 outcomes in one subroutine; a cached value of a
future is never read again; `sdk_try_context` ignores its number of tries; an explicit `loop_register`
raises when the loop ends; `compile` does not reset the builder; `meas_basis` and vanilla `mov` have the same
opcode, 41, and the executor has no handler for the former.

## 3. Runs

| run | shows | bounds |
|---|---|---|
| `executor_blocking` | type correctness; no qubit shared or leaked (`NoSharedQubit`, `NoQubitLeak`); a request in a table has a running subroutine; the executor and the stack agree on every pair owed (`PairsConserved`); `Executor` implements `EprPairs` (`CreditsInOrder`) | 2 applications, 2 subroutines in all, drawn from 4 programs, 2 virtual qubits each, 2 channels |
| `executor_free` | `QubitsSafe` and `OldestRequestFirst` with hosts that do not wait, early ends and errors | 2 applications, 2 subroutines from 3 programs, 1 virtual qubit, 1 error |
| `executor_live` | `SubroutinesEnd` | 2 applications, 2 subroutines from 2 programs, the remote node asks for enough pairs |
| `executor_overtake` | a violation of `CreditsOwnPair`, see below | 2 subroutines, kept and measured pairs on one channel |
| `executor_error` | a violation of `FailedGenerationIsRepeated` | 1 subroutine, 1 error |
| `socket_hub` | `TypeOK`; no stale entries (`NoGhosts`); messages are in one place each and in order (`MessagesInOrder`); only closing a socket with callbacks loses one, and only one on its way (`LossNeedsAClose`); `ConnectReturns` | 2 hosts, 2 sockets and 2 messages each |
| `socket_hub_callback` | a violation of `CallbackIsCalled` | 1 socket, 1 message each |
| `lifecycle` | `TypeOK`; IDs and memories are one application's own (`OwnMemory`); a hang has one cause (`HangsOnStaleMemoryOnly`); nothing stays registered (`NothingLeftBehind`); `EveryCloseEnds`; `Lifecycle` implements `Tenancy` (`OneTenant`) | 2 names, 2 IDs, 4 connections |
| `assembler` | `RunsAsWritten` | the programs above, 3 targets, 2 sequences of outcomes, 120 instructions |
| `assembler_phase` | a violation of `RunsAsWritten` by the gates s and t | one gate |
| `sdk` | `QuantumAsWritten`, `ValuesAsWritten`, `RunsToItsEnd`, `HostKnowsAllocation` | 11 kinds of applications of 2 to 5 calls, 3 qubits, 6 pairs, generic hardware and NV |
| `sdk_corrections` | a violation of `QuantumAsWritten` | applications of 3 calls with pairs in any Bell state |

Why the bounds are enough. What can go wrong in the executor is between two parties: two
subroutines of one or two applications that compete for a virtual address, a physical
qubit, a place in a request list, or a response. The programs contain the shapes that meet there:
a pair that is reported while its virtual qubit is in use, a request of two pairs, a retry into
the same array, qubits left allocated at the end. `Phys` is larger than the number of
qubits that can ever be in use (pairs in flight included), so that allocation is never
cut short by the bound: the code counts without one. Two sockets of
one host are what it takes for an old object to disconnect a newer one. Four connections over two
IDs let an ID be used three times, with another connection beside it. A fault of the assembler needs a
constant or a label in a bad place next to one other command; a fault of the builder
two or three calls that share a register, a place or a body, and a flush in between: five calls
cover that for qubits, four for bodies. `MaxSteps` and `Patience` (2 to the power 12 turns) end
what would loop for ever: programs of `Assembler` may loop, and are checked up to there; an `Sdk` subroutine that used its
turns up would violate `RunsToItsEnd`. One sequence of outcomes is enough in `Sdk`,
since a different outcome is a condition with the opposite sense, which is tried.

`CHECK_DEADLOCK FALSE` is set everywhere: the hosts may stop, and the number of
subroutines, sockets, messages, connections and calls is bounded.

Disagreements found:

* A measured pair that is reported behind a kept pair of the same remote node and purpose, which
  is held up since its virtual qubit is in use, is credited to the request of the kept
  pair (`executor_overtake`). The programs of `executor_blocking` use one type of request per
  channel, and there the executor does implement `EprPairs`.
* An error of the network stack does not make the node controller run the subroutine again,
  as the documentation of `max_time` says (`executor_error`).
* A message sent between two steps of `connect` goes to the queue although the receiver
  uses callbacks (`socket_hub_callback`).
* The gates s and t, compiled for an NV centre, become their inverses (`assembler_phase`).
* The corrections of received pairs are applied to virtual qubit 0, whichever qubit
  the pair is in (`sdk_corrections`).

Fairness. `executor_live` assumes weak fairness of every running generator (the scheduler of a
simulator runs them all), of the stack on each channel, of the scan and of its repetition
(subclasses repeat it on a timer). The host is not assumed to do anything. `socket_hub` assumes that
a thread which has started to connect, send, receive or close goes on; whether it
starts, or gives up at a timeout, is free. `lifecycle` assumes weak fairness of the handling of each
connection's messages, since the controller takes every message in turn; hosts may stop
anywhere, so that `EveryCloseEnds` is about the controller alone.

## 4. Proofs

The proofs hold for every value of the constants that satisfies the `ConstantsAssumption` of the module.

**`ExecutorProofs`** (any applications, keys, programs, bounds, either kind of host):

* `TypeCorrect`: `Spec => []TypeOK`. `TypeOK` is inductive: the part about requests (at
  least one pair left, no more than asked for, a known subroutine) is what makes the
  array indices and the removal of a served request well defined.
* `QubitsAreSafe`: `Spec => []QubitsSafe`. `QubitsSafe` speaks of the set of holders of a
  qubit and is not convenient for induction; the invariant `QubitsApart` says the same pairwise:
  virtual addresses of unit modules, of unit modules being cleared and pending responses
  hold distinct qubits, and all of them are marked as used, until a response has been lost
  half-way (`"late" \in raised`). The marking is what makes it inductive: a qubit that is
  taken was not marked, hence not held. A response that is mapped moves its qubit from the
  list to the unit module. `QubitsKept`, inductive together with it, is the converse: a qubit
  that is marked is held. It rests on the scan, which passes over a response whose virtual
  address has a qubit already, so that no mapping overwrites one. Each action has a lemma for each invariant,
  and `ApartIsSafe` leads back.
* `QubitsAccounted`: the same as the two invariants that `executor_blocking` checks for hosts that
  wait, `NoSharedQubit` and `NoQubitLeak`, here without that condition.
* `RequestsServedInOrder`: `Spec => []OldestRequestFirst`, inductive with `TypeOK`: only the
  head of a list is counted down, and it leaves the list at its last pair.

**`PairProofs`** (any programs and plans of the remote node, either kind of host). The theorems
`PairsAgree`, `ImplementsPairs` and `RequestsGetTheirPairs` say that pairs are credited to
the requests they were generated for: `[]PairsConserved`, the refinement of `EprPairs`, and
the action property `CreditsOwnPair`. The code matches by position only, so this needs conditions, and each is
where the code can be made to fail:

* `OneTypePerChannel`: a channel has requests to keep or to measure, not both. Without it a measured
  pair overtakes a kept one (`executor_overtake`).
* `Untroubled`, all along: no error of the stack (the request of a failed generation stays in
  the list and takes the pairs of the next one), no response lost half-way, and
  `ReceivesWhatIsSent`: who receives asks for as many pairs as the remote request brings, which two
  applications have to agree on, and nothing checks.

The inductive invariant `PairInv` has three parts. `Balanced`: on each channel, the pairs owed,
followed by those nobody has asked to receive, are those reported, followed by those to be
generated, followed by a rest (what is received beyond the remote node's plan). It is stronger than `PairsConserved`, which speaks of
prefixes: to append a request one has to know what follows it. `TypedAs`: what the stack works on and reports on
a channel has its type; from it follows that of two responses of a channel the first is ready
if the second is, so that a scan takes the front (`Ready`). `StackSound`: the stack has given a request
fewer pairs than it asks for. A step changes one of the four sequences of a channel, each a join of
the sequences of its requests or responses; what that does to the join is in `SequenceLemmas`. In the refinement,
`Enqueue` is `Ask`, `GeneratePair` is `Report`, `ScanHandle` is `Credit`, all else stutters.

**`RequestProofs`** (hosts that wait, any programs that wait). `NoRequestIsOrphaned`, `NoQubitIsShared`,
`NoQubitIsLeaked`: the invariants `executor_blocking` checks, for all applications, keys and
bounds. `PairsOnBlockingHosts` adds what `PairProofs` gives. The conditions:

* `ProgramsWait`, about the text of the programs: before a request its result array is made, its last entry
  is undefined, and after it comes a `wait_all` of the array or a `wait_single` for the last entry,
  with nothing in between that writes to it. The builder writes such subroutines (it
  undefines the array when it asks again). TLC evaluates `ProgramsWait` and `OneTypePerChannel` for the programs
  of `executor_blocking` (`BlockingProgramsWait` in `MCExecutor`).
* `NoFailureWithRequests`: a subroutine does not end with an exception between a request and its wait. If
  it does, the code leaves the request in the table. `NoOrphanRequest` implies it, so the run shows
  that its programs satisfy it; the theorem gives the rest: that such a subroutine has neither
  finished nor been cleared with its application.

Why a wait keeps requests from being orphaned takes an induction over what the subroutine has done so far, `RequestInv`:
`Hosts` (one subroutine of an application runs at a time, its application is registered and not
being cleared), `Arrayed` (the result arrays of requests still to be made exist as the text has made them), `AllOpen`
(the subroutine of a request runs, stands between the request and its wait, and the entry
of the last pair is still undefined) and `DistinctResults` (requests of a subroutine have
different arrays, so that storing the result of one ends no wait of another). The entry of the last pair is
defined by the response that also removes the request: the wait can only be over when the request has left the table. Since the
subroutine runs, its application and array are there when a response comes: no
response is lost half-way, and the theorems of `ExecutorProofs` hold without their condition.

**`SequenceLemmas`** is where induction is. Facts of the form "for every n" are proved from the
least number that fails (`LeastNatural`, `SetInduction`: the property is a set, which the provers can instantiate);
`FlattenSeq`, defined by a fold over a set of indices, is first shown to be the last member of the sequence of
partial results (`FlattenJoins`), about which induction is easy; that it takes a concatenation apart (`SplitsAll`) follows.

**`LifecycleProofs`** (any names, IDs and number of connections, with every rule obeyed:
`Lifted = {}`): `LifecycleTypes`, `MemoriesApart`, `HandlersRaiseOnReuseOnly`, `NothingIsLeftBehind`, and
the refinement `AppsAreTenants`. The inductive invariant `IInv` adds to `TypeOK` what the rules give
(`OneName`: connections alive have one name; `OneMoves`: at most one is being constructed or closed), that no two connections alive
have an ID in common (`IdsApart`) and the list of IDs is theirs (`IdsListed`), where each
connection is registered at each stage of its life (`Phase`), and that what the node knows
belongs to somebody (`NodeKnows`). `OneMoves` is needed since `close` gives the ID back before
the application is stopped: only because nobody else is constructing can the ID
not be taken in between. Under the refinement mapping, the answered `HandleInit` is `MoveIn`,
`FinishConstruct` is `FindMemory`, `FinishStop` is `MoveOut`, and every other step stutters.

**`SocketHubProofs`** (any two hosts, with or without callbacks, any number of sockets and
messages): `HubTypes`, `HubHasNoGhosts`, `HubKeepsMessages`, `HubLosesOnlyWhatAClosureMet`. The invariant has three parts for each
host. `Phase`: a host in the middle of `connect` is in the open sockets with its own socket, which
is still being opened, and only hosts with callbacks register one or are called. `Account`: the *books* of
one direction. Messages delivered, queued, dropped, and on the way are pairwise
disjoint and are together 1 to the number sent; nothing is delivered twice; the
queue is increasing, and without callbacks what was delivered comes before what is queued. Each thing that can happen to
a message is a lemma about books (`BookSend`, `BookDeliver`, `BookQueue`, `BookTake`, ...) that knows
nothing of sockets, and each action is one of them. `BookCount` turns the partition into the sum of `MessagesInOrder`.
`Excused`: what was dropped is in `cut`, and so is a message on its way to the callback of a socket that is
gone. The second half is what makes it inductive: the socket that a send has looked up was up then, so if it is
gone when the callback is to be called, it was closed while the message was on its way.

**`InstructionsProofs`** (any operands that fit). `Fitting` says what fits a field; the code does
not check it, and `ctypes` cuts off what does not.

* `FieldsAreReadBack`: an operand is read back from the bytes of its field, whatever bytes
  follow; 32-bit integers are in two's complement, registers in two and four bits of a byte.
* `CommandsAreReadBack`, `SubroutinesAreReadBack`: so are whole commands and subroutines. The reader
  has to find the class by its opcode (`ClassesAreFound`: opcodes differ within the
  core and within each flavour, and a flavour hides only opcode 41 of the core) and every field behind those before it
  (`OffsetIs`: what `FieldOffset` folds up is the number of bytes of the fields before;
  `CommandFields` cuts the command there). One instruction is excepted, and
  `MeasBasisIsReadAsMov` says why: the vanilla `mov` took the opcode of `meas_basis`.
* `CommandsHaveOneSize`: every command has `COMMAND_BYTES` bytes. The model keeps the commands of a
  message apart; the code cuts the message into pieces of that size, which by this is the same.

**`AssemblerProofs`** (any programs, arguments, outcomes and number of registers, the vanilla flavour).
`VanillaRunsAsWritten` is the refinement `RunsAsWritten`: what `assemble_subroutine` makes of a program,
sent as bytes and read back, does command for command what the program says. Its hypothesis is
`SourcesAreWellWritten` (the last section of `Assembler`), rules that a program has to keep and no line of the assembler checks:

* a register that indexes an array also occurs as an operand: `get_current_registers` looks at
  operands only, and a register it does not see may be taken for a constant;
* the last operand of a branch is a label and no other operand is one: a number would be a
  place in the code, which is not the place in the text;
* what a command writes is a register: for a number there, too, the assembler finds one;
* operands fit their fields, since `ctypes` cuts off what does not, and `meas_basis` is not used, whose bytes are those of a `mov`.

TLC evaluates it for the programs of the run `assembler` (`PlainSourcesAreWellWritten` in `MCAssembler`).
The argument has four stages, the first three of which are about data and have no time in them:

* *Layout.* `AssembledFacts`: there is a function `off` that says how many instructions come before each line
  (`Laid`); the instructions of a command are one behind the other from there, sets of registers that the program does
  not name, pairwise distinct, then the command with those registers in the place of its constants; and a label has become the place of the
  command after it (`InPlace`). `OriginsFacts` and `NextIsPlaced` say which command an instruction is of,
  and that where a line is, there is the next command, or the end.
* *Bytes.* `CodeIsReadBack`, from `InstructionsProofs`.
* *Machine.* `Mirror(N, pc, q, m, v)`: `v` is the machine `m` without the registers outside `N`, at `q` where `m` is
  at `pc`. Every handler of `Isa` that is given operands which mean the same to both (`Agreed`) keeps that
  (`CommandMirrors`: one lemma per handler, and `BranchMirrors` for the targets). `BodyAgrees`:
  the instruction of a command, with the constants loaded, has such operands.
* *Simulation.* `Simulated`: the machine is some number of instructions into a command and mirrors the machine at that command's start,
  with as many constants loaded (`Inside`), or it has stopped. `StepSimulates`: the next instruction loads another
  constant, which nobody sees, or it is the command. `AssemblerInv` is this with what `Compile` has
  done, and is inductive; under the mapping, `Compile` and the loading of constants stutter, the last
  instruction of a command is `Program!Next`.

Only model-checked: the liveness properties (`SubroutinesEnd`, `ConnectReturns`, `EveryCloseEnds`: fairness
and ENABLED are out of the prover's reach); `RunsAsWritten` for the targets `nv` and `nv_hardware`, where
the theorem would have to say what sequences of rotations do to Pauli frames, a finite but large
calculation that TLC does for every gate and place; and the four
properties of `Sdk`: what an application means and how long a subroutine runs is computed there by recursion, with RECURSIVE
operators, and what a recursive definition computes for every input needs an induction that
takes the property as a parameter. Every other invariant that a passing run checks is a theorem.

## 5. Not modelled

* Executor: `setup_epr_socket` (forwarded to the stack); measurement bases and fidelities of requests; responses
  of type R (their handler raises `NotImplementedError`); arrays and requests of length
  zero; a stack that answers within `put`. Recursion of `_wait_to_handle_epr_responses` without a subclass has no bound
  in the code and is a pause in the model.
* Sockets: `conn_lost_callback`, code of the user that runs under the lock of the hub; several
  threads that share one socket; the collector running `__del__` in a thread that holds the lock; structured messages and logging.
* The broadcast channel: a loop over sockets, without state of its own. Its order is that of each
  sender, and a socket that is not connected stops `send` half-way. Its sockets are constructed one after the other, and
  each waits for its other side, so nodes that list each other in a cyclic order wait for ever.
  `recv(block=False)` never looks at a socket and always raises.
* Connection: callbacks of non-blocking commits, precompiled subroutines, `tomography` and
  `test_preparation`, logging.
* Builder: rotations of state preparation and of measurement bases, `get_future_slice`, the variants of
  `if` that call the same code with another condition.
* Parser: preamble, macros, splitting of lines (strings). Encoding: the byte layout of messages.
* Numerical helpers (`sdk/toolbox`, `util`), the runtime, command line and log files: input and
  output, with no state whose evolution is of interest.

## 6. What could follow

1. The broadcast channel over several keys of `SocketHub`, with `conn_lost_callback` running under the lock.
2. A stack that answers within `put`, and requests of zero pairs, in `Executor`.
3. `ReceivesWhatIsSent` from the text of programs and plan, as `ProgramsWait` is.
4. The byte layout of messages.
5. Measurement bases and precompiled subroutines in `Builder`.
6. The transpiler in `AssemblerProofs`: that each mapping of a gate is that gate on Pauli frames, after
   which layout and simulation are those of the vanilla flavour.
