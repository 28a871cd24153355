------------------------------ MODULE Lifecycle ------------------------------
(***************************************************************************)
(* The connections of the applications on one node, from their             *)
(* construction to their end (netqasm/sdk/connection.py), the messages     *)
(* they exchange with the node controller (netqasm/backend/qnodeos.py),    *)
(* and the shared memories of the process (netqasm/sdk/shared_memory.py).  *)
(*                                                                         *)
(* A connection is its number, in the order of construction, and so is the *)
(* memory that its registration creates.  A host waits for the answer to   *)
(* each of its messages but the last.                                      *)
(*                                                                         *)
(* The code relies on rules that it does not enforce.  A rule is obeyed    *)
(* unless it is in Lifted:                                                 *)
(*   names    connections that are alive have the same application name    *)
(*   thread   one connection at a time is being constructed or closed      *)
(*   last     only the last connection stops the node controller           *)
(*   sockets  no EPR socket is set up with the application itself          *)
(*   reset    memories are reset when no connection is alive               *)
(***************************************************************************)
EXTENDS Naturals, Sequences, FiniteSets

CONSTANTS
  Names,      \* the names of the applications on this node
  Ids,        \* bound: the app IDs (the code counts from 0)
  MaxConns,   \* bound: connections over the whole run
  Lifted      \* the rules that need not be obeyed

Rules == {"names", "thread", "last", "sockets", "reset"}

ASSUME ConstantsAssumption ==
  /\ Ids \subseteq Nat
  /\ MaxConns \in Nat
  /\ Lifted \subseteq Rules

VARIABLES
  appIds,    \* _app_ids, class-wide: how often an ID is in the list of a name
  conns,     \* the connections
  memories,  \* SharedMemoryManager._MEMORIES of the node: ID -> memory
  active,    \* _active_app_ids of the node controller
  modules,   \* _qubit_unit_modules (_registers, _app_arrays): ID -> connection, as history
  shared,    \* _shared_memories of the executor: ID -> memory
  inbox,     \* messages that the node controller has not handled
  clearing,  \* connections whose application is being stopped, after the first yield
  finished   \* _finished: the node controller has stopped

nodeVars == <<active, modules, shared, clearing, finished>>
vars     == <<appIds, conns, memories, nodeVars, inbox>>

Obeyed(rule) == rule \notin Lifted
Put(d, k, v) == [x \in DOMAIN d \cup {k} |-> IF x = k THEN v ELSE d[x]]
Drop(d, k)   == [x \in DOMAIN d \ {k} |-> d[x]]

Conns  == DOMAIN conns
St(c)  == conns[c].st
Id(c)  == conns[c].id
Msg(c, type)  == [conn |-> c, type |-> type]
Becomes(c, s) == conns' = [conns EXCEPT ![c].st = s]

InUse   == {"ready", "busy"}
Gone    == {"closed", "refused"}
Settled == InUse \cup Gone
States  == Settled \cup {"picked", "opening", "answered", "closing", "hung"}
Alive   == {c \in Conns : St(c) \notin Gone}

NoStop == ~finished /\ \A c \in Conns : Msg(c, "signal") \notin inbox

Init ==
  /\ appIds   = [n \in Names |-> [i \in Ids |-> 0]]
  /\ conns    = <<>>
  /\ memories = <<>>
  /\ active   = {}
  /\ modules  = <<>>
  /\ shared   = <<>>
  /\ inbox    = {}
  /\ clearing = {}
  /\ finished = FALSE

-----------------------------------------------------------------------------
(* The constructor of a connection.                                        *)

\* Mutant: IDs in use are not looked at.
AnyId(n, i)  == TRUE

FreeId(n, i) == appIds[n][i] = 0

\* _get_new_app_id finds an ID: the first free one, or the one the host asks for if it is free
\* (a ValueError otherwise, which changes nothing).
PickId(n) ==
  /\ Len(conns) < MaxConns
  /\ Obeyed("thread") => \A c \in Conns : St(c) \in Settled
  /\ Obeyed("names")  => \A c \in Alive : conns[c].name = n
  /\ Obeyed("last")   => NoStop
  /\ \E i \in Ids :
       /\ FreeId(n, i)
       /\ conns' = Append(conns, [name |-> n, id |-> i, st |-> "picked", memory |-> 0,
                                  stops |-> FALSE])
  /\ UNCHANGED <<appIds, memories, nodeVars, inbox>>

\* The ID enters the list, the memory is looked up, which need not exist yet, and
\* _init_new_app sends its message.
Construct(c) ==
  /\ St(c) = "picked"
  /\ appIds' = [appIds EXCEPT ![conns[c].name][Id(c)] = @ + 1]
  /\ conns'  = [conns EXCEPT ![c].st = "opening",
                             ![c].memory = IF Id(c) \in DOMAIN memories THEN memories[Id(c)] ELSE 0]
  /\ inbox'  = inbox \cup {Msg(c, "init")}
  /\ UNCHANGED <<memories, nodeVars>>

\* The end of _init_new_app: the memory is looked up unless one is cached, and a RuntimeError
\* says that there is none.  _setup_epr_sockets can raise too, with the application registered.
FinishConstruct(c) ==
  /\ St(c) = "answered"
  /\ \/ /\ conns[c].memory # 0
        /\ Becomes(c, "ready")
     \/ /\ conns[c].memory = 0
        /\ Id(c) \in DOMAIN memories
        /\ conns' = [conns EXCEPT ![c].st = "ready", ![c].memory = memories[Id(c)]]
     \/ /\ conns[c].memory = 0 /\ Id(c) \notin DOMAIN memories
        /\ Becomes(c, "refused")
     \/ /\ ~Obeyed("sockets")
        /\ Becomes(c, "refused")
  /\ UNCHANGED <<appIds, memories, nodeVars, inbox>>

-----------------------------------------------------------------------------
(* flush and close.                                                        *)

Flush(c) ==
  /\ St(c) = "ready"
  /\ Becomes(c, "busy")
  /\ inbox' = inbox \cup {Msg(c, "subroutine")}
  /\ UNCHANGED <<appIds, memories, nodeVars>>

\* close after its flush (or without one, when the context ends by an exception): the ID is
\* given back before the node controller is told.
Close(c) ==
  /\ St(c) = "ready"
  /\ Obeyed("thread") => \A d \in Conns : St(d) \in Settled
  /\ appIds' = [appIds EXCEPT ![conns[c].name][Id(c)] = IF @ = 0 THEN 0 ELSE @ - 1]
  /\ inbox'  = inbox \cup {Msg(c, "stop")}
  /\ \E stops \in BOOLEAN :
       /\ Obeyed("last") => (stops => Alive = {c})
       /\ conns' = [conns EXCEPT ![c].st = "closing", ![c].stops = stops]
  /\ UNCHANGED <<memories, nodeVars>>

ResetMemories ==
  /\ Obeyed("reset") => Alive = {}
  /\ memories # <<>>
  /\ memories' = <<>>
  /\ UNCHANGED <<appIds, conns, nodeVars, inbox>>

-----------------------------------------------------------------------------
(* The node controller.  A handler that raises leaves the message without  *)
(* an answer: its connection hangs.                                        *)

Take(c, type) ==
  /\ ~finished
  /\ Msg(c, type) \in inbox
  /\ inbox' = inbox \ {Msg(c, type)}

\* Mutant: a memory that exists is used again.
HandleInitSharing(c) ==
  /\ Take(c, "init")
  /\ active'   = active \cup {Id(c)}
  /\ modules'  = Put(modules, Id(c), c)
  /\ memories' = IF Id(c) \in DOMAIN memories THEN memories ELSE Put(memories, Id(c), c)
  /\ shared'   = Put(shared, Id(c), memories'[Id(c)])
  /\ Becomes(c, "answered")
  /\ UNCHANGED <<appIds, clearing, finished>>

\* create_shared_memory raises if there is a memory, and nothing ever removes one but a reset.
HandleInit(c) ==
  /\ Take(c, "init")
  /\ active'  = active \cup {Id(c)}
  /\ modules' = Put(modules, Id(c), c)
  /\ \/ /\ Id(c) \notin DOMAIN memories
        /\ memories' = Put(memories, Id(c), c)
        /\ shared'   = Put(shared, Id(c), c)
        /\ Becomes(c, "answered")
     \/ /\ Id(c) \in DOMAIN memories
        /\ Becomes(c, "hung")
        /\ UNCHANGED <<memories, shared>>
  /\ UNCHANGED <<appIds, clearing, finished>>

\* The subroutine, up to what it returns to the shared memory.
HandleSubroutine(c) ==
  /\ Take(c, "subroutine")
  /\ Becomes(c, IF Id(c) \in DOMAIN shared THEN "ready" ELSE "hung")
  /\ UNCHANGED <<appIds, memories, nodeVars>>

\* _handle_stop_app up to the first yield of _clear_qubits.
HandleStop(c) ==
  /\ Take(c, "stop")
  /\ active' = active \ {Id(c)}
  /\ \/ /\ Id(c) \in active \cap DOMAIN modules
        /\ modules'  = Drop(modules, Id(c))
        /\ clearing' = clearing \cup {c}
        /\ UNCHANGED conns
     \/ /\ Id(c) \notin active \cap DOMAIN modules
        /\ Becomes(c, "hung")
        /\ UNCHANGED <<modules, clearing>>
  /\ UNCHANGED <<appIds, memories, shared, finished>>

\* Mutants: the memory of the application stays; every connection stops the controller.
FinishStopKeepsMemory(c) ==
  /\ ~finished
  /\ c \in clearing
  /\ clearing' = clearing \ {c}
  /\ Becomes(c, "closed")
  /\ inbox' = IF conns[c].stops THEN inbox \cup {Msg(c, "signal")} ELSE inbox
  /\ UNCHANGED <<appIds, memories, active, modules, shared, finished>>

FinishStopAndSignal(c) ==
  /\ ~finished
  /\ c \in clearing
  /\ clearing' = clearing \ {c}
  /\ shared'   = Drop(shared, Id(c))
  /\ Becomes(c, "closed")
  /\ inbox'    = inbox \cup {Msg(c, "signal")}
  /\ UNCHANGED <<appIds, memories, active, modules, finished>>

\* The rest of stop_application; the host then sends the signal to stop, and does not wait.
FinishStop(c) ==
  /\ ~finished
  /\ c \in clearing
  /\ clearing' = clearing \ {c}
  /\ \/ /\ Id(c) \in DOMAIN shared
        /\ shared' = Drop(shared, Id(c))
        /\ Becomes(c, "closed")
        /\ inbox' = IF conns[c].stops THEN inbox \cup {Msg(c, "signal")} ELSE inbox
     \/ /\ Id(c) \notin DOMAIN shared
        /\ Becomes(c, "hung")
        /\ UNCHANGED <<shared, inbox>>
  /\ UNCHANGED <<appIds, memories, active, modules, finished>>

\* _handle_signal asks for no active application; _handle_message then calls stop.
HandleSignal(c) ==
  /\ Take(c, "signal")
  /\ finished' = TRUE
  /\ UNCHANGED <<appIds, conns, memories, active, modules, shared, clearing>>

-----------------------------------------------------------------------------
HandleMessage(c) ==
  HandleInit(c) \/ HandleSubroutine(c) \/ HandleStop(c) \/ FinishStop(c) \/ HandleSignal(c)

Next ==
  \/ \E n \in Names : PickId(n)
  \/ \E c \in Conns :
       Construct(c) \/ FinishConstruct(c) \/ Flush(c) \/ Close(c) \/ HandleMessage(c)
  \/ ResetMemories

Spec == Init /\ [][Next]_vars

\* The loop of the node controller handles every message; the hosts do what they like.
FairSpec == Spec /\ \A c \in 1 .. MaxConns : WF_vars(c \in Conns /\ HandleMessage(c))

-----------------------------------------------------------------------------
(* Properties.                                                             *)

\* What a message tells of its sender.
Tells(m) ==
  \/ m.type = "init" /\ St(m.conn) = "opening"
  \/ m.type = "subroutine" /\ St(m.conn) = "busy"
  \/ m.type = "stop" /\ St(m.conn) = "closing"
  \/ m.type = "signal" /\ St(m.conn) = "closed" /\ conns[m.conn].stops

\* Types; a message that waits, or an application that is being stopped, is the business its
\* connection is waiting for, so no message comes from a connection that has gone on, and
\* the signal to stop comes only from a host that asked for it.
TypeOK ==
  /\ appIds \in [Names -> [Ids -> Nat]]
  /\ conns \in Seq([name : Names, id : Ids, st : States, memory : Nat, stops : BOOLEAN])
  /\ Conns \subseteq 1 .. MaxConns
  /\ \A i \in DOMAIN memories : i \in Ids /\ memories[i] \in Conns
  /\ \A i \in DOMAIN modules : i \in Ids /\ modules[i] \in Conns
  /\ \A i \in DOMAIN shared : i \in Ids /\ shared[i] \in Conns
  /\ active \subseteq Ids
  /\ inbox \subseteq [conn : Conns, type : {"init", "subroutine", "stop", "signal"}]
  /\ \A m \in inbox : Tells(m)
  /\ clearing \subseteq {c \in Conns : St(c) = "closing"}
  /\ finished \in BOOLEAN

\* An application in use is registered, the memory its host reads is the one that was made for
\* it and the one its subroutines write to: nothing is read of an application
\* that had the ID before, or has it under another name.
OwnMemory ==
  \A c \in Conns : St(c) \in InUse =>
    /\ Id(c) \in active \cap DOMAIN modules \cap DOMAIN shared
    /\ modules[Id(c)] = c /\ shared[Id(c)] = c
    /\ conns[c].memory = c

\* A connection hangs for one reason only: the memory of an earlier application with its ID
\* is still in the process.  No handler meets an ID that is registered twice, stopped
\* twice or not registered.
HangsOnStaleMemoryOnly ==
  \A c \in Conns : St(c) = "hung" =>
    /\ Id(c) \in DOMAIN memories
    /\ memories[Id(c)] # c /\ St(memories[Id(c)]) = "closed"

\* When the last connection is gone, no ID is taken and the node controller and the executor
\* know no application (has_active_apps).
NothingLeftBehind ==
  Alive = {} =>
    /\ active = {} /\ DOMAIN modules = {} /\ DOMAIN shared = {} /\ clearing = {}
    /\ \A n \in Names, i \in Ids : appIds[n][i] = 0

\* Whoever closes is answered: the controller is not stopped under another application.
EveryCloseEnds ==
  \A c \in 1 .. MaxConns :
    (c \in Conns /\ St(c) = "closing") ~> (c \in Conns /\ St(c) = "closed")

\* The memory that the host of a connection reads, once it has found one.
Having == InUse \cup {"closing", "closed"}
Reader == [c \in {d \in Conns : St(d) \in Having} |-> conns[c].memory]

Tenants == INSTANCE Tenancy WITH Apps <- 1 .. MaxConns, tenant <- shared, reader <- Reader

\* Applications have their app ID and their memory to themselves.
OneTenant == Tenants!TSpec
=============================================================================
