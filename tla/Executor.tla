------------------------------ MODULE Executor ------------------------------
(***************************************************************************)
(* The executor of a quantum node controller                               *)
(* (netqasm/backend/executor.py): applications are registered and stopped, *)
(* their subroutines run interleaved as generators, virtual qubits are     *)
(* mapped to physical ones, and the responses of the network stack are     *)
(* matched with the EPR requests of the subroutines.                       *)
(*                                                                         *)
(* Every instruction is one step: the handlers are generators, and the     *)
(* subclasses of Executor may yield in each of them.  What the code does   *)
(* without a yield in between is done while `scanning' is set, and blocks  *)
(* every other step.  Register operands are abstracted to the values a     *)
(* subroutine has loaded in them.                                          *)
(***************************************************************************)
EXTENDS Naturals, Sequences, FiniteSets, SequencesExt

CONSTANTS
  AppIds,         \* app IDs
  Keys,           \* (remote node ID, purpose ID), the keys of the request tables
  Addrs,          \* array addresses
  Phys,           \* bound: the physical qubit addresses (the code counts from 0)
  MaxQubits,      \* size of a unit module, InitNewAppMessage.max_qubits
  Sizes,          \* bound: the lengths of arrays and the numbers of pairs asked for
  Programs,       \* the bodies of the subroutines, by name
  RemotePlan,     \* per key, the requests the remote node makes, oldest first
  MaxSubroutines, \* bound: subroutines over the whole run
  MaxErrors,      \* bound: requests the network stack answers with an error
  HostBlocks,     \* does the host wait for a subroutine before its next message?
  None

VAddrs   == 0 .. MaxQubits - 1
Roles    == {"create", "recv"}
Channels == Roles \X Keys
Pos      == Nat \ {0}
Tags     == [id : Pos, pair : Pos]
Values   == Nat \cup {None}
Modules  == [VAddrs -> Phys \cup {None}]
Failures == {"error", "failure", "leak", "late"}

Instructions ==
  [op : {"array"}, addr : Addrs, len : Sizes]
    \cup [op : {"store"}, addr : Addrs, idx : Pos, val : Nat]
    \cup [op : {"undef", "wait_single"}, addr : Addrs, idx : Pos]
    \cup [op : {"wait_all", "wait_any", "ret_arr"}, addr : Addrs]
    \cup [op : {"qalloc", "qfree"}, vaddr : Nat]
    \cup [op : {"create_epr"}, key : Keys, type : {"K", "M"}, num : Sizes,
          qarr : Addrs \cup {None}, res : Addrs]
    \cup [op : {"recv_epr"}, key : Keys, qarr : Addrs \cup {None}, res : Addrs]

ASSUME ConstantsAssumption ==
  /\ Phys \subseteq Nat
  /\ MaxQubits \in Nat
  /\ Sizes \subseteq Pos
  /\ \A p \in DOMAIN Programs : Programs[p] \in Seq(Instructions)
  /\ RemotePlan \in [Keys -> Seq([type : {"K", "M"}, num : Sizes])]
  /\ MaxSubroutines \in Nat
  /\ MaxErrors \in Nat
  /\ HostBlocks \in BOOLEAN
  /\ None \notin Nat \cup Addrs

VARIABLES
  modules,   \* _qubit_unit_modules: app ID -> unit module
  arrays,    \* _app_arrays (and _registers): app ID -> address -> values
  shared,    \* _shared_memories: app ID -> addresses of the returned arrays
  memories,  \* keys of SharedMemoryManager._MEMORIES, for this node
  used,      \* _used_physical_qubit_addresses
  clearing,  \* generators of stop_application: app ID -> what is left to clear
  subs,      \* _subroutines, _program_counters; a subroutine ID is an index here
  reqs,      \* _epr_create_requests and _epr_recv_requests, by channel
  pending,   \* _pending_epr_responses
  scanning,  \* is _handle_pending_epr_responses running?
  raised,    \* history: what _handle_epr_response has raised so far
  net,       \* network stack: per channel, the requests it is working on
  issued,    \* history: number of requests made on a channel
  errors     \* number of errors the network stack has reported

appVars == <<modules, arrays, shared, memories, clearing>>
eprVars == <<reqs, pending, scanning, raised>>
netVars == <<net, issued, errors>>
vars    == <<appVars, used, subs, eprVars, netVars>>

Arrays      == {q \in Seq(Values) : Len(q) \in Sizes}
Subroutines == [app : AppIds, prog : DOMAIN Programs, pc : Pos,
                st : {"running", "failed", "cleared"}]
Commands  == [sub : Pos, id : Pos, qarr : Addrs \cup {None}, res : Addrs,
              tot : Pos, left : Pos]
Responses == [type : {"K", "M", "ERR"}, ch : Channels, tag : Tags,
              phys : Phys \cup {None}]
Requests  == [id : Pos, type : {"K", "M"}, num : Pos, done : Nat]

-----------------------------------------------------------------------------
(* Dictionaries: d[k] = v, and d.pop(k, None).                             *)
Put(d, k, v) == [x \in DOMAIN d \cup {k} |-> IF x = k THEN v ELSE d[x]]
Drop(d, k)   == [x \in DOMAIN d \ {k} |-> d[x]]

Unallocated == [v \in VAddrs |-> None]

Init ==
  /\ modules  = <<>>
  /\ arrays   = <<>>
  /\ shared   = <<>>
  /\ memories = {}
  /\ used     = {}
  /\ clearing = <<>>
  /\ subs     = <<>>
  /\ reqs     = [ch \in Channels |-> <<>>]
  /\ pending  = <<>>
  /\ scanning = FALSE
  /\ raised   = {}
  /\ net      = [ch \in Channels |->
                   IF ch[1] = "create" THEN <<>>
                   ELSE [i \in DOMAIN RemotePlan[ch[2]] |->
                           [id |-> i, type |-> RemotePlan[ch[2]][i].type,
                            num |-> RemotePlan[ch[2]][i].num, done |-> 0]]]
  /\ issued   = [ch \in Channels |-> 0]
  /\ errors   = 0

-----------------------------------------------------------------------------
(* Applications.                                                           *)

Running(a) == \E s \in DOMAIN subs : subs[s].app = a /\ subs[s].st = "running"

\* The host registers an application.  That it is not registered is an assumption about
\* hosts: the code does not check it, and would overwrite the unit module and forget its
\* qubits, but a connection takes an ID that is free (_get_new_app_id).  The shared memory
\* of an earlier application with this ID is never removed from the manager, and makes the
\* last of the four steps of the code raise.
InitApplication(a) ==
  /\ ~scanning
  /\ a \notin DOMAIN modules
  /\ HostBlocks => a \notin DOMAIN clearing
  /\ modules'  = Put(modules, a, Unallocated)
  /\ arrays'   = Put(arrays, a, <<>>)
  /\ shared'   = IF a \in memories THEN shared ELSE Put(shared, a, {})
  /\ memories' = memories \cup {a}
  /\ UNCHANGED <<clearing, used, subs, eprVars, netVars>>

\* stop_application from one yield to the next: m is what is left of the unit module.
\* The registers, arrays and shared memory go when no qubit is left.
ReleaseFrom(a, m) ==
  LET held == {v \in VAddrs : m[v] # None}
  IN \/ /\ held = {}
        /\ clearing' = Drop(clearing, a)
        /\ arrays'   = Drop(arrays, a)
        /\ shared'   = Drop(shared, a)
        /\ UNCHANGED used
     \/ \E v \in held :
          /\ \A w \in held : v <= w
          /\ m[v] \in used
          /\ used' = used \ {m[v]}
          /\ clearing' = Put(clearing, a, [m EXCEPT ![v] = None])
          /\ UNCHANGED <<arrays, shared>>
     \/ \E v \in held :        \* KeyError: the generator ends here
          /\ \A w \in held : v <= w
          /\ m[v] \notin used
          /\ clearing' = Drop(clearing, a)
          /\ UNCHANGED <<arrays, shared, used>>

\* Bound: the host does not stop an app ID anew while a stop of it is still waiting.
StopApplication(a) ==
  /\ ~scanning
  /\ a \in DOMAIN modules \ DOMAIN clearing
  /\ HostBlocks => ~Running(a)
  /\ ReleaseFrom(a, modules[a])
  /\ modules' = Drop(modules, a)
  /\ UNCHANGED <<memories, subs, eprVars, netVars>>

ResumeStop(a) ==
  /\ ~scanning
  /\ a \in DOMAIN clearing
  /\ ReleaseFrom(a, clearing[a])
  /\ UNCHANGED <<modules, memories, subs, eprVars, netVars>>

-----------------------------------------------------------------------------
(* Subroutines.                                                            *)

\* execute_subroutine up to its first instruction.
StartSubroutine(a) ==
  /\ ~scanning
  /\ Len(subs) < MaxSubroutines
  /\ a \in DOMAIN modules
  /\ HostBlocks => ~Running(a)
  /\ \E p \in DOMAIN Programs :
       subs' = Append(subs, [app |-> a, prog |-> p, pc |-> 1, st |-> "running"])
  /\ UNCHANGED <<appVars, used, eprVars, netVars>>

App(s)   == subs[s].app
Body(s)  == Programs[subs[s].prog]
Instr(s) == Body(s)[subs[s].pc]

\* The end of execute_subroutine: the entry of the subroutine is cleared.
FinishSubroutine(s) ==
  /\ ~scanning
  /\ subs[s].st = "running"
  /\ subs[s].pc > Len(Body(s))
  /\ subs' = [subs EXCEPT ![s].st = "cleared"]
  /\ UNCHANGED <<appVars, used, eprVars, netVars>>

AtInstr(s, ops) ==
  /\ ~scanning
  /\ subs[s].st = "running"
  /\ subs[s].pc \in DOMAIN Body(s)
  /\ Instr(s).op \in ops

\* inc_program_counter, and an exception: the entry of the subroutine is then kept.
Advance(s) == subs' = [subs EXCEPT ![s].pc = @ + 1]
Fail(s)    == subs' = [subs EXCEPT ![s].st = "failed"]

HasArray(a, addr)      == a \in DOMAIN arrays /\ addr \in DOMAIN arrays[a]
HasEntry(a, addr, idx) == HasArray(a, addr) /\ idx \in DOMAIN arrays[a][addr]

\* An array instruction replaces an array of that address.
ArrayInstr(s) ==
  /\ AtInstr(s, {"array"})
  /\ \/ /\ App(s) \in DOMAIN arrays
        /\ arrays' = [arrays EXCEPT ![App(s)] =
                        Put(@, Instr(s).addr, [i \in 1 .. Instr(s).len |-> None])]
        /\ Advance(s)
     \/ /\ App(s) \notin DOMAIN arrays
        /\ Fail(s)
        /\ UNCHANGED arrays
  /\ UNCHANGED <<modules, shared, memories, clearing, used, eprVars, netVars>>

EntryInstr(s) ==
  /\ AtInstr(s, {"store", "undef"})
  /\ LET i == Instr(s)
     IN \/ /\ HasEntry(App(s), i.addr, i.idx)
           /\ arrays' = [arrays EXCEPT ![App(s)][i.addr][i.idx] =
                           IF i.op = "store" THEN i.val ELSE None]
           /\ Advance(s)
        \/ /\ ~HasEntry(App(s), i.addr, i.idx)
           /\ Fail(s)
           /\ UNCHANGED arrays
  /\ UNCHANGED <<modules, shared, memories, clearing, used, eprVars, netVars>>

\* The qubit operand of an instruction: the application's registers and its unit
\* module are there, and the address lies in it.
Addressable(s) ==
  /\ App(s) \in DOMAIN arrays \cap DOMAIN modules
  /\ Instr(s).vaddr \in VAddrs

\* Mutant: the allocated qubit is not marked as used.
QAllocUnmarked(s) ==
  /\ AtInstr(s, {"qalloc"})
  /\ Addressable(s)
  /\ modules[App(s)][Instr(s).vaddr] = None
  /\ \E p \in Phys \ used : modules' = [modules EXCEPT ![App(s)][Instr(s).vaddr] = p]
  /\ Advance(s)
  /\ UNCHANGED <<used, arrays, shared, memories, clearing, eprVars, netVars>>

QAlloc(s) ==
  /\ AtInstr(s, {"qalloc"})
  /\ LET a == App(s)
         v == Instr(s).vaddr
         free == Addressable(s) /\ modules[a][v] = None
     IN \/ /\ free
           /\ \E p \in Phys \ used :     \* _get_unused_physical_qubit
                /\ \A q \in Phys \ used : p <= q
                /\ used' = used \cup {p}
                /\ modules' = [modules EXCEPT ![a][v] = p]
           /\ Advance(s)
        \/ ~free /\ Fail(s) /\ UNCHANGED <<used, modules>>
  /\ UNCHANGED <<arrays, shared, memories, clearing, eprVars, netVars>>

\* Mutant: the virtual address keeps its qubit.
QFreeKeepsAddress(s) ==
  /\ AtInstr(s, {"qfree"})
  /\ Addressable(s)
  /\ modules[App(s)][Instr(s).vaddr] # None
  /\ used' = used \ {modules[App(s)][Instr(s).vaddr]}
  /\ Advance(s)
  /\ UNCHANGED <<appVars, eprVars, netVars>>

\* The virtual address is given up before the physical one, which may raise.
QFree(s) ==
  /\ AtInstr(s, {"qfree"})
  /\ LET a == App(s)
         v == Instr(s).vaddr
         held == Addressable(s) /\ modules[a][v] # None
     IN \/ /\ held
           /\ modules' = [modules EXCEPT ![a][v] = None]
           /\ used' = used \ {modules[a][v]}
           /\ IF modules[a][v] \in used THEN Advance(s) ELSE Fail(s)
        \/ ~held /\ Fail(s) /\ UNCHANGED <<used, modules>>
  /\ UNCHANGED <<arrays, shared, memories, clearing, eprVars, netVars>>

-----------------------------------------------------------------------------
(* EPR instructions.                                                       *)

\* Mutant: the newest request comes first.
EnqueueFirst(s, ch, n) ==
  /\ issued' = [issued EXCEPT ![ch] = @ + 1]
  /\ reqs' = [reqs EXCEPT ![ch] =
                <<[sub |-> s, id |-> issued[ch] + 1, qarr |-> Instr(s).qarr,
                   res |-> Instr(s).res, tot |-> n, left |-> n]>> \o @]

Enqueue(s, ch, n) ==
  /\ issued' = [issued EXCEPT ![ch] = @ + 1]
  /\ reqs' = [reqs EXCEPT ![ch] = Append(@,
                [sub |-> s, id |-> issued[ch] + 1, qarr |-> Instr(s).qarr,
                 res |-> Instr(s).res, tot |-> n, left |-> n])]

\* A request to keep qubits needs as many virtual addresses as pairs.
CreateEpr(s) ==
  /\ AtInstr(s, {"create_epr"})
  /\ LET i  == Instr(s)
         ch == <<"create", i.key>>
         valid == /\ App(s) \in DOMAIN arrays
                  /\ i.type = "K" => /\ HasArray(App(s), i.qarr)
                                     /\ Len(arrays[App(s)][i.qarr]) = i.num
     IN \/ /\ valid
           /\ net' = [net EXCEPT ![ch] = Append(@,      \* network_stack.put
                        [id |-> issued[ch] + 1, type |-> i.type, num |-> i.num,
                         done |-> 0])]
           /\ Enqueue(s, ch, i.num)
           /\ Advance(s)
        \/ ~valid /\ Fail(s) /\ UNCHANGED <<net, reqs, issued>>
  /\ UNCHANGED <<appVars, used, pending, scanning, raised, errors>>

\* The number of pairs is the room in the array for the results.
RecvEpr(s) ==
  /\ AtInstr(s, {"recv_epr"})
  /\ LET i == Instr(s)
     IN \/ /\ HasArray(App(s), i.res)
           /\ Enqueue(s, <<"recv", i.key>>, Len(arrays[App(s)][i.res]))
           /\ Advance(s)
        \/ ~HasArray(App(s), i.res) /\ Fail(s) /\ UNCHANGED <<reqs, issued>>
  /\ UNCHANGED <<appVars, used, pending, scanning, raised, net, errors>>

Defined(a, addr) == {i \in DOMAIN arrays[a][addr] : arrays[a][addr][i] # None}

\* Mutant: the wait for all entries is over with the first one.
WaitAllStopsAtFirst(s) ==
  /\ AtInstr(s, {"wait_all"})
  /\ HasArray(App(s), Instr(s).addr)
  /\ Defined(App(s), Instr(s).addr) # {}
  /\ Advance(s)
  /\ UNCHANGED <<appVars, used, eprVars, netVars>>

\* The waits spin until their entries are defined: a wait that is not over is no step.
WaitAll(s) ==
  /\ AtInstr(s, {"wait_all"})
  /\ LET a == App(s)
         x == Instr(s).addr
     IN \/ HasArray(a, x) /\ Defined(a, x) = DOMAIN arrays[a][x] /\ Advance(s)
        \/ ~HasArray(a, x) /\ Fail(s)
  /\ UNCHANGED <<appVars, used, eprVars, netVars>>

WaitAny(s) ==
  /\ AtInstr(s, {"wait_any"})
  /\ LET a == App(s)
         x == Instr(s).addr
     IN \/ HasArray(a, x) /\ Defined(a, x) # {} /\ Advance(s)
        \/ ~HasArray(a, x) /\ Fail(s)
  /\ UNCHANGED <<appVars, used, eprVars, netVars>>

\* An entry of an array that does not exist reads as undefined: the wait spins.
WaitSingle(s) ==
  /\ AtInstr(s, {"wait_single"})
  /\ LET a == App(s)
         x == Instr(s).addr
         i == Instr(s).idx
     IN \/ HasEntry(a, x, i) /\ arrays[a][x][i] # None /\ Advance(s)
        \/ HasArray(a, x) /\ ~HasEntry(a, x, i) /\ Fail(s)
        \/ a \notin DOMAIN arrays /\ Fail(s)
  /\ UNCHANGED <<appVars, used, eprVars, netVars>>

RetArr(s) ==
  /\ AtInstr(s, {"ret_arr"})
  /\ LET a == App(s)
         x == Instr(s).addr
         valid == HasArray(a, x) /\ a \in DOMAIN shared
     IN \/ valid /\ shared' = [shared EXCEPT ![a] = @ \cup {x}] /\ Advance(s)
        \/ ~valid /\ Fail(s) /\ UNCHANGED shared
  /\ UNCHANGED <<modules, arrays, memories, clearing, used, eprVars, netVars>>

SubroutineStep(s) ==
  \/ ArrayInstr(s) \/ EntryInstr(s) \/ QAlloc(s) \/ QFree(s)
  \/ CreateEpr(s) \/ RecvEpr(s) \/ WaitAll(s) \/ WaitAny(s) \/ WaitSingle(s)
  \/ RetArr(s) \/ FinishSubroutine(s)

-----------------------------------------------------------------------------
(* The network stack (external).  It works on the requests of a channel in *)
(* order, takes a qubit for a pair to keep as _get_unused_physical_qubit   *)
(* does, and calls _handle_epr_response with every pair it generates.      *)

Report(r) ==
  /\ pending'  = Append(pending, r)
  /\ scanning' = TRUE
  /\ UNCHANGED <<appVars, subs, reqs, raised, issued>>

GeneratePair(ch) ==
  /\ ~scanning
  /\ net[ch] # <<>>
  /\ LET r    == Head(net[ch])
         tag  == [id |-> r.id, pair |-> r.done + 1]
         rest == IF r.done + 1 = r.num THEN Tail(net[ch])
                 ELSE [net[ch] EXCEPT ![1].done = @ + 1]
     IN /\ \/ /\ r.type = "M"
              /\ Report([type |-> "M", ch |-> ch, tag |-> tag, phys |-> None])
              /\ UNCHANGED used
           \/ /\ r.type = "K"
              /\ \E p \in Phys \ used :
                   /\ \A q \in Phys \ used : p <= q
                   /\ Report([type |-> "K", ch |-> ch, tag |-> tag, phys |-> p])
                   /\ used' = used \cup {p}
        /\ net' = [net EXCEPT ![ch] = rest]
  /\ UNCHANGED errors

\* The stack gives a request of this node up.
ReportError(ch) ==
  /\ ~scanning
  /\ errors < MaxErrors
  /\ ch[1] = "create"
  /\ net[ch] # <<>>
  /\ Report([type |-> "ERR", ch |-> ch, phys |-> None,
             tag |-> [id |-> Head(net[ch]).id, pair |-> Head(net[ch]).done + 1]])
  /\ net' = [net EXCEPT ![ch] = Tail(@)]
  /\ errors' = errors + 1
  /\ UNCHANGED used

-----------------------------------------------------------------------------
(* _handle_pending_epr_responses.  It looks for the first response that    *)
(* can be handled, handles it, and starts anew; a response is credited to  *)
(* the oldest request of its channel.                                      *)

Request(r)   == Head(reqs[r.ch])
PairIndex(c) == c.tot - c.left + 1
Owner(c)     == subs[c.sub].app
Known(c)     == subs[c.sub].st # "cleared"

\* The virtual address for the next pair of c can be read from its array,
HasTarget(c) ==
  /\ Known(c)
  /\ HasEntry(Owner(c), c.qarr, PairIndex(c))
  /\ arrays[Owner(c)][c.qarr][PairIndex(c)] # None
Target(c) == arrays[Owner(c)][c.qarr][PairIndex(c)]

\* Mutant: an address in use is taken for free.
TargetNeverInUse(c) == FALSE

\* it is in use (_has_virtual_address),
TargetInUse(c) ==
  /\ Owner(c) \in DOMAIN modules
  /\ Target(c) \in VAddrs
  /\ modules[Owner(c)][Target(c)] # None

\* and there is room for the information about the pair.
HasRoom(c) == Known(c) /\ HasEntry(Owner(c), c.res, PairIndex(c))

\* The responses that a scan passes over.
MustWait(r) ==
  /\ r.type # "ERR"
  /\ \/ reqs[r.ch] = <<>>
     \/ r.type = "K" /\ HasTarget(Request(r)) /\ TargetInUse(Request(r))

\* Mutant: any response that can be handled is, not the first one.
ReadyInAnyOrder == {i \in DOMAIN pending : ~MustWait(pending[i])}

Ready == {i \in DOMAIN pending :
            ~MustWait(pending[i]) /\ \A j \in 1 .. i - 1 : MustWait(pending[j])}

\* An exception leaves the scan, and the response stays in the list.
Raise(kind) ==
  /\ raised' = raised \cup {kind}
  /\ scanning' = FALSE
  /\ UNCHANGED pending

ScanError(i) ==
  /\ pending[i].type = "ERR"
  /\ Raise("error")
  /\ UNCHANGED <<appVars, used, subs, reqs, netVars>>

ScanNoTarget(i) ==
  /\ pending[i].type = "K"
  /\ ~HasTarget(Request(pending[i]))
  /\ Raise("failure")
  /\ UNCHANGED <<appVars, used, subs, reqs, netVars>>

\* The physical qubit is marked before the mapping is found to be impossible.
ScanNoModule(i) ==
  /\ pending[i].type = "K"
  /\ LET c == Request(pending[i])
     IN /\ HasTarget(c)
        /\ Owner(c) \notin DOMAIN modules \/ Target(c) \notin VAddrs
  /\ used' = used \cup {pending[i].phys}
  /\ Raise("leak")
  /\ UNCHANGED <<appVars, subs, reqs, netVars>>

\* The qubit of a pair to keep is mapped, a pair to measure needs none.
MapQubit(r, c) ==
  \/ /\ r.type = "M"
     /\ UNCHANGED <<modules, used>>
  \/ /\ r.type = "K"
     /\ HasTarget(c)
     /\ Owner(c) \in DOMAIN modules
     /\ Target(c) \in VAddrs
     /\ modules' = [modules EXCEPT ![Owner(c)][Target(c)] = r.phys]
     /\ used' = used \cup {r.phys}

\* Mutants: the last pair is only noticed when one more comes; the newest request is
\* counted down.
CountPairLate(ch) ==
  reqs' = [reqs EXCEPT ![ch] = IF Head(@).left = 0 THEN Tail(@)
                               ELSE [@ EXCEPT ![1].left = @ - 1]]
CountPairNewest(ch) ==
  reqs' = [reqs EXCEPT ![ch] = IF Last(@).left = 1 THEN Front(@)
                               ELSE [@ EXCEPT ![Len(@)].left = @ - 1]]

\* The request loses a pair before the information is stored, and its place in the
\* table with the last one.
CountPair(ch) ==
  LET c == Head(reqs[ch])
  IN reqs' = [reqs EXCEPT ![ch] = IF c.left = 1 THEN Tail(@)
                                  ELSE [@ EXCEPT ![1] = [c EXCEPT !.left = c.left - 1]]]

\* Of the ten fields of a response the array is given, one stands for all: create_id.
ScanHandle(i) ==
  LET r == pending[i]
      c == Request(r)
  IN /\ r.type # "ERR"
     /\ MapQubit(r, c)
     /\ CountPair(r.ch)
     /\ \/ /\ HasRoom(c)
           /\ arrays' = [arrays EXCEPT ![Owner(c)][c.res][PairIndex(c)] = r.tag.id]
           /\ pending' = RemoveAt(pending, i)
           /\ UNCHANGED <<scanning, raised>>
        \/ ~HasRoom(c) /\ Raise("late") /\ UNCHANGED arrays
     /\ UNCHANGED <<shared, memories, clearing, subs, netVars>>

ScanEnd ==
  /\ scanning
  /\ Ready = {}
  /\ scanning' = FALSE
  /\ UNCHANGED <<appVars, used, subs, reqs, pending, raised, netVars>>

Scan ==
  \/ /\ scanning
     /\ \E i \in Ready : ScanError(i) \/ ScanNoTarget(i) \/ ScanNoModule(i) \/ ScanHandle(i)
  \/ ScanEnd

\* Mutant: a response that had to wait is not looked at again.
NoRescan == FALSE

\* _wait_to_handle_epr_responses: the scan is repeated later.  One that would find
\* nothing to handle changes nothing.
Rescan ==
  /\ ~scanning
  /\ Ready # {}
  /\ scanning' = TRUE
  /\ UNCHANGED <<appVars, used, subs, reqs, pending, raised, netVars>>

-----------------------------------------------------------------------------
Next ==
  \/ \E a \in AppIds : \/ InitApplication(a) \/ StopApplication(a) \/ ResumeStop(a)
                       \/ StartSubroutine(a)
  \/ \E s \in DOMAIN subs : SubroutineStep(s)
  \/ \E ch \in Channels : GeneratePair(ch) \/ ReportError(ch)
  \/ Scan
  \/ Rescan

Spec == Init /\ [][Next]_vars

\* The scheduler of the simulator runs every generator and every event handler; the
\* host is free to do nothing.
Fairness ==
  /\ \A a \in AppIds : WF_vars(ResumeStop(a))
  /\ \A s \in 1 .. MaxSubroutines : WF_vars(s \in DOMAIN subs /\ SubroutineStep(s))
  /\ \A ch \in Channels : WF_vars(GeneratePair(ch))
  /\ WF_vars(Scan)
  /\ WF_vars(Rescan)

FairSpec == Spec /\ Fairness

-----------------------------------------------------------------------------
(* Properties.                                                             *)

Dict(d, K, V) == DOMAIN d \subseteq K /\ \A k \in DOMAIN d : d[k] \in V

AppTypes ==
  /\ Dict(modules, AppIds, Modules)
  /\ Dict(clearing, AppIds, Modules)
  /\ Dict(shared, AppIds, SUBSET Addrs)
  /\ DOMAIN arrays \subseteq AppIds
  /\ \A a \in DOMAIN arrays : Dict(arrays[a], Addrs, Arrays)
  /\ memories \subseteq AppIds
  /\ used \subseteq Phys

SubTypes == subs \in Seq(Subroutines)

\* What is left of a request that is still in its table is at least one pair, and no more
\* than it asked for; its subroutine has been started.
ReqTypes ==
  /\ reqs \in [Channels -> Seq(Commands)]
  /\ \A ch \in Channels : \A i \in DOMAIN reqs[ch] :
       /\ reqs[ch][i].sub \in DOMAIN subs
       /\ reqs[ch][i].left <= reqs[ch][i].tot

EprTypes ==
  /\ pending \in Seq(Responses)
  /\ \A i \in DOMAIN pending : pending[i].type = "K" <=> pending[i].phys # None
  /\ scanning \in BOOLEAN
  /\ raised \subseteq Failures

NetTypes ==
  /\ net \in [Channels -> Seq(Requests)]
  /\ issued \in [Channels -> Nat]
  /\ errors \in Nat

\* Every table has the shape the code gives it.
TypeOK == AppTypes /\ SubTypes /\ ReqTypes /\ EprTypes /\ NetTypes

\* The places that refer to a physical qubit: a unit module, a unit module that is being
\* cleared, and a reported pair that waits to be handled.
Holders(p) ==
  {h \in {"mapped"} \X (DOMAIN modules) \X VAddrs : modules[h[2]][h[3]] = p}
    \cup {h \in {"clearing"} \X (DOMAIN clearing) \X VAddrs : clearing[h[2]][h[3]] = p}
    \cup {h \in {"reported"} \X (DOMAIN pending) \X {0} : pending[h[2]].phys = p}

\* No physical qubit has two holders: two virtual qubits of one or of two applications are
\* never the same qubit, and a qubit that holds a pair is not given away.  It takes the
\* allocation, the freeing, the mapping of EPR pairs and the stopping of applications in
\* any order to break it (_allocate_physical_qubit, _handle_epr_ok_k_response).
NoSharedQubit == \A p \in Phys : \A g, h \in Holders(p) : g = h

\* The qubits in use are those that have a holder: none is leaked by a freed address, a
\* stopped application or a handled response, and none in use can be allocated again
\* (_used_physical_qubit_addresses).
NoQubitLeak == used = {p \in Phys : Holders(p) # {}}

\* While no response was lost half-way (see ScanHandle), and for hosts that do not register
\* an application twice (see InitApplication), a qubit with a holder has one holder, and the
\* qubits with a holder are those marked as used: hosts that do not wait, stops at any yield,
\* early ends and errors of the stack neither share nor leak one.
QubitsSafe ==
  "late" \notin raised =>
    \A p \in Phys : /\ \A g, h \in Holders(p) : g = h
                    /\ Holders(p) # {} <=> p \in used

\* A request in the tables belongs to a subroutine that still runs, which is what makes
\* it safe to look up the application and its arrays when a response comes
\* (_get_app_id in _store_ent_info).
NoOrphanRequest ==
  \A ch \in Channels : \A i \in DOMAIN reqs[ch] : subs[reqs[ch][i].sub].st = "running"

\* Pairs are given to the requests of a channel strictly in order: only the oldest may have
\* some of its pairs (_extract_epr_info, _handle_last_epr_pair).
OldestRequestFirst ==
  \A ch \in Channels : \A i \in DOMAIN reqs[ch] :
    i > 1 => reqs[ch][i].left = reqs[ch][i].tot

\* The n pairs of a request that come after the first k.
PairsAfter(k, n, id) == [j \in 1 .. n |-> [id |-> id, pair |-> k + j]]

\* The pairs that a sequence of requests still waits for, and the pairs reported on a
\* channel, oldest first: what module EprPairs calls owed and inFlight.
OwedTo(c) == PairsAfter(c.tot - c.left, c.left, c.id)
Owed == [ch \in Channels |-> FlattenSeq([i \in DOMAIN reqs[ch] |-> OwedTo(reqs[ch][i])])]

ReportedOn(ch, r) == IF r.ch = ch THEN <<r.tag>> ELSE <<>>
InFlight ==
  [ch \in Channels |-> FlattenSeq([i \in DOMAIN pending |-> ReportedOn(ch, pending[i])])]

\* The pairs the stack has still to generate, and those of the remote node's requests that
\* no application has asked to receive yet.
ToCome(r) == PairsAfter(r.done, r.num - r.done, r.id)
ToGenerate == [ch \in Channels |-> FlattenSeq([i \in DOMAIN net[ch] |-> ToCome(net[ch][i])])]

Announced == [ch \in Channels |-> IF ch[1] = "create" THEN 0 ELSE Len(RemotePlan[ch[2]])]
PlanTags(k, i) == PairsAfter(0, RemotePlan[k][i].num, i)
Unasked ==
  [k \in Keys |-> LET n == issued[<<"recv", k>>]
                  IN FlattenSeq([i \in 1 .. Len(RemotePlan[k]) - n |-> PlanTags(k, n + i)])]

\* The executor and the network stack agree on every pair.  What is owed to the requests of
\* this node is what is reported or still to be generated, in that order; what the remote
\* node's requests bring is first what is owed to those who receive, and then what nobody
\* has asked for (_extract_epr_info counts pairs, and never looks whose they are).
PairsConserved ==
  \A k \in Keys :
    /\ LET ch == <<"create", k>> IN Owed[ch] = InFlight[ch] \o ToGenerate[ch]
    /\ LET ch == <<"recv", k>>
       IN IsPrefix(InFlight[ch] \o ToGenerate[ch], Owed[ch] \o Unasked[k])

\* On a channel all requests keep their qubits, or all measure them: a response is then never
\* held up by anything that would let a later one of its channel pass.
OneType(t) ==
  /\ \A p \in DOMAIN Programs : \A i \in DOMAIN Programs[p] :
       LET instr == Programs[p][i]
       IN instr.op = "create_epr" => instr.type = t[<<"create", instr.key>>]
  /\ \A k \in Keys : \A i \in DOMAIN RemotePlan[k] :
       RemotePlan[k][i].type = t[<<"recv", k>>]
OneTypePerChannel == \E t \in [Channels -> {"K", "M"}] : OneType(t)

\* Who receives expects as many pairs as the remote node's request brings.
ReceivesWhatIsSent ==
  \A k \in Keys : \A i \in DOMAIN reqs[<<"recv", k>>] :
    LET c == reqs[<<"recv", k>>][i]
    IN c.id <= Len(RemotePlan[k]) => c.tot = RemotePlan[k][c.id].num

\* A subroutine waits for what it asks: the result array x of a request is made before it by
\* instruction j, and is fresh since instruction f, which makes it or undefines the entry n
\* of the last pair; after the request it is left alone up to an instruction w that waits
\* for that entry.
Asks(body) == {k \in DOMAIN body : body[k].op \in {"create_epr", "recv_epr"}}
Touches(i, x) ==
  \/ i.op \in {"array", "store", "undef"} /\ i.addr = x
  \/ i.op \in {"create_epr", "recv_epr"} /\ i.res = x
Makes(i, x) == i.op = "array" /\ i.addr = x

PreparedBy(body, k, j, f, n) ==
  LET x == body[k].res
  IN /\ j \in 1 .. k - 1
     /\ Makes(body[j], x)
     /\ \A m \in j + 1 .. k - 1 : ~Makes(body[m], x)
     /\ n <= body[j].len
     /\ n = IF body[k].op = "create_epr" THEN body[k].num ELSE body[j].len
     /\ f \in j .. k - 1
     /\ f # j => body[f].op = "undef" /\ body[f].addr = x /\ body[f].idx = n
     /\ \A m \in f + 1 .. k - 1 : ~Touches(body[m], x)

AwaitedBy(body, k, w, n) ==
  LET x == body[k].res
  IN /\ k < w
     /\ \/ body[w].op = "wait_all" /\ body[w].addr = x
        \/ body[w].op = "wait_single" /\ body[w].addr = x /\ body[w].idx = n
     /\ \A m \in k + 1 .. w - 1 : ~Touches(body[m], x)

WaitsForPairs(body) ==
  \A k \in Asks(body) : \E j, f, w \in DOMAIN body, n \in Sizes :
    PreparedBy(body, k, j, f, n) /\ AwaitedBy(body, k, w, n)
ProgramsWait == \A p \in DOMAIN Programs : WaitsForPairs(Programs[p])

\* A subroutine does not end with an error while a request of it is open.
NoFailureWithRequests ==
  \A ch \in Channels : \A i \in DOMAIN reqs[ch] : subs[reqs[ch][i].sub].st # "failed"

\* The executor implements module EprPairs: pairs are credited to the requests they were
\* generated for, one at a time and in order.
Pairs == INSTANCE EprPairs WITH asked <- issued, owed <- Owed, inFlight <- InFlight
CreditsInOrder == Pairs!Spec

\* A request is only ever credited with the next of its own pairs, so that the array it
\* names holds the information about its own entanglement (_store_ent_info).
CreditsOwnPair ==
  [][\A ch \in Channels :
       Len(Owed'[ch]) < Len(Owed[ch]) =>
         /\ InFlight[ch] # <<>>
         /\ Head(InFlight[ch]) = Head(Owed[ch])
         /\ InFlight'[ch] \in {Tail(InFlight[ch]), InFlight[ch]}]_vars

\* A subroutine that waits for entanglement does not wait forever.
SubroutinesEnd ==
  \A s \in 1 .. MaxSubroutines :
    (s \in DOMAIN subs /\ subs[s].st = "running")
      ~> (s \in DOMAIN subs /\ subs[s].st # "running")

\* If generation does not succeed in time, the whole subroutine that the request is part of
\* is reset and run again (documentation of max_time in netqasm/sdk/epr_socket.py).
FailedGenerationIsRepeated ==
  \A s \in 1 .. MaxSubroutines :
    (\E i \in DOMAIN pending :
       /\ pending[i].type = "ERR"
       /\ \E j \in DOMAIN reqs[pending[i].ch] :
            /\ reqs[pending[i].ch][j].id = pending[i].tag.id
            /\ reqs[pending[i].ch][j].sub = s)
      ~> (s \in DOMAIN subs /\ (subs[s].st = "running" => subs[s].pc = 1))

=============================================================================
