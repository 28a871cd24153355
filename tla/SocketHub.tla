----------------------------- MODULE SocketHub -----------------------------
(***************************************************************************)
(* The hub that connects the classical sockets of two hosts which run in   *)
(* two threads of one process (netqasm/sdk/classical_communication/        *)
(* thread_socket).  A host may open several sockets after one another, or  *)
(* a new one before it gives up an old one: all have the same key, which   *)
(* is the host here, since the socket ID and the pair of names are fixed.  *)
(*                                                                         *)
(* A step is what a thread does between two accesses to the hub.  The hub  *)
(* reads and writes its tables one at a time, and locks only some of them. *)
(***************************************************************************)
EXTENDS Naturals, Sequences, FiniteSets, SequencesExt

CONSTANTS
  Ends,           \* the two hosts
  CallbackEnds,   \* the hosts whose sockets have use_callbacks set
  MaxSockets,     \* bound: sockets that a host opens
  MaxMessages,    \* bound: messages that a host sends
  None

ASSUME ConstantsAssumption ==
  /\ IsFiniteSet(Ends) /\ Cardinality(Ends) = 2
  /\ CallbackEnds \subseteq Ends
  /\ MaxSockets \in Nat
  /\ MaxMessages \in Nat
  /\ None \notin Ends

VARIABLES
  open,       \* _open_sockets
  remote,     \* _remote_sockets
  messages,   \* _messages, by the key of the receiver; a message is its number
  recvCb,     \* _recv_callbacks: the socket whose method is registered, 0 for none
  lock,       \* _lock: the thread that holds it
  sock,       \* the socket objects of a host, in the order of their creation
  thread,     \* what the thread of a host is doing
  sent,       \* number of messages that a host has started to send
  delivered,  \* history: the messages a host received, from the queue or by callback
  dropped,    \* history: the messages for a host whose callback was gone when it was called
  cut,        \* history: the messages that were on their way to a host as it closed a socket
  met         \* history: has the other host opened a socket during this connect?

tables  == <<open, remote, messages, recvCb>>
traffic == <<sent, delivered, dropped, cut>>
vars    == <<tables, lock, sock, thread, traffic, met>>

Connecting == {"opened", "tracked", "poll", "poll_remote"}
Sending    == {"send", "call", "append"}
Pcs        == {"idle", "recv", "closing"} \cup Connecting \cup Sending

Other(e) == CHOOSE o \in Ends : o # e
Idle     == [pc |-> "idle", obj |-> 0, cb |-> 0]

Init ==
  /\ open      = {}
  /\ remote    = {}
  /\ messages  = [e \in Ends |-> <<>>]
  /\ recvCb    = [e \in Ends |-> 0]
  /\ lock      = None
  /\ sock      = [e \in Ends |-> <<>>]
  /\ thread    = [e \in Ends |-> Idle]
  /\ sent      = [e \in Ends |-> 0]
  /\ delivered = [e \in Ends |-> <<>>]
  /\ dropped   = [e \in Ends |-> {}]
  /\ cut       = [e \in Ends |-> {}]
  /\ met       = [e \in Ends |-> FALSE]

At(e, pc)   == thread[e].pc = pc
GoTo(e, pc) == thread' = [thread EXCEPT ![e].pc = pc]
Return(e)   == thread' = [thread EXCEPT ![e] = Idle]

InSending(e) == IF thread[e].pc \in Sending THEN {sent[e]} ELSE {}

-----------------------------------------------------------------------------
(* ThreadSocket.__init__ and connect.                                      *)

OpenSocket(e) ==
  /\ At(e, "idle")
  /\ Len(sock[e]) < MaxSockets
  /\ sock'   = [sock EXCEPT ![e] = Append(@, "opening")]
  /\ open'   = open \cup {e}
  /\ thread' = [thread EXCEPT ![e] = [@ EXCEPT !.pc = "opened", !.obj = Len(sock[e]) + 1]]
  /\ met'    = [met EXCEPT ![Other(e)] = thread[Other(e)].pc \in Connecting]
  /\ UNCHANGED <<remote, messages, recvCb, lock, traffic>>

Track(e) ==
  /\ At(e, "opened")
  /\ remote' = remote \cup {e}
  /\ GoTo(e, "tracked")
  /\ UNCHANGED <<open, messages, recvCb, lock, sock, traffic, met>>

AddCallbacks(e) ==
  /\ At(e, "tracked")
  /\ recvCb' = IF e \in CallbackEnds THEN [recvCb EXCEPT ![e] = thread[e].obj] ELSE recvCb
  /\ GoTo(e, "poll")
  /\ UNCHANGED <<open, remote, messages, lock, sock, traffic, met>>

\* connect is over: the socket can be used, or its constructor has raised.
Connected(e, st) ==
  /\ sock' = [sock EXCEPT ![e][thread[e].obj] = st]
  /\ met'  = [met EXCEPT ![e] = FALSE]
  /\ Return(e)

PollOpen(e) ==
  /\ At(e, "poll")
  /\ \/ Other(e) \in open /\ Connected(e, "up")
     \/ Other(e) \notin open /\ GoTo(e, "poll_remote") /\ UNCHANGED <<sock, met>>
  /\ UNCHANGED <<tables, lock, traffic>>

\* Was the remote socket open, and is closed again?
PollRemote(e) ==
  /\ At(e, "poll_remote")
  /\ \/ Other(e) \in remote /\ Connected(e, "up")
     \/ Other(e) \notin remote /\ GoTo(e, "poll") /\ UNCHANGED <<sock, met>>
  /\ UNCHANGED <<tables, lock, traffic>>

ConnectTimeout(e) ==
  /\ At(e, "poll_remote")
  /\ Other(e) \notin remote
  /\ Connected(e, "failed")
  /\ UNCHANGED <<tables, lock, traffic>>

-----------------------------------------------------------------------------
(* send.  A socket that is not connected raises, which changes nothing.    *)

StartSend(e) ==
  /\ At(e, "idle")
  /\ \E n \in DOMAIN sock[e] :
       /\ sock[e][n] = "up"
       /\ thread' = [thread EXCEPT ![e] = [@ EXCEPT !.pc = "send", !.obj = n]]
  /\ {e, Other(e)} \subseteq open
  /\ sent[e] < MaxMessages
  /\ sent' = [sent EXCEPT ![e] = @ + 1]
  /\ UNCHANGED <<tables, lock, sock, delivered, dropped, cut, met>>

\* The method is looked up as a weak reference, and called later.  If its socket has been
\* collected by then the message is dropped, also when a newer socket of the key is up.
LookUpCallback(e) ==
  /\ At(e, "send")
  /\ LET cb == recvCb[Other(e)]
     IN thread' = [thread EXCEPT ![e] = [@ EXCEPT !.pc = IF cb # 0 THEN "call" ELSE "append",
                                                  !.cb = cb]]
  /\ UNCHANGED <<tables, lock, sock, traffic, met>>

CallCallback(e) ==
  /\ At(e, "call")
  /\ LET o == Other(e)
     IN \/ /\ sock[o][thread[e].cb] # "gone"
           /\ delivered' = [delivered EXCEPT ![o] = Append(@, sent[e])]
           /\ UNCHANGED dropped
        \/ /\ sock[o][thread[e].cb] = "gone"
           /\ dropped' = [dropped EXCEPT ![o] = @ \cup {sent[e]}]
           /\ UNCHANGED delivered
  /\ Return(e)
  /\ UNCHANGED <<tables, lock, sock, sent, cut, met>>

AppendMessage(e) ==
  /\ At(e, "append")
  /\ lock = None
  /\ messages' = [messages EXCEPT ![Other(e)] = Append(@, sent[e])]
  /\ Return(e)
  /\ UNCHANGED <<open, remote, recvCb, lock, sock, traffic, met>>

-----------------------------------------------------------------------------
(* recv.  It does not ask whether the socket is connected.                 *)

StartReceive(e) ==
  /\ At(e, "idle")
  /\ \E n \in DOMAIN sock[e] :
       /\ sock[e][n] = "up"
       /\ thread' = [thread EXCEPT ![e] = [@ EXCEPT !.pc = "recv", !.obj = n]]
  /\ UNCHANGED <<tables, lock, sock, traffic, met>>

\* Mutant: the newest message is taken.
ReceiveLast(e) ==
  /\ At(e, "recv")
  /\ lock = None
  /\ messages[e] # <<>>
  /\ delivered' = [delivered EXCEPT ![e] = Append(@, Last(messages[e]))]
  /\ messages'  = [messages EXCEPT ![e] = Front(@)]
  /\ Return(e)
  /\ UNCHANGED <<open, remote, recvCb, lock, sock, sent, dropped, cut, met>>

\* The thread is the only one that takes messages of this host out.
Receive(e) ==
  /\ At(e, "recv")
  /\ lock = None
  /\ messages[e] # <<>>
  /\ delivered' = [delivered EXCEPT ![e] = Append(@, Head(messages[e]))]
  /\ messages'  = [messages EXCEPT ![e] = Tail(@)]
  /\ Return(e)
  /\ UNCHANGED <<open, remote, recvCb, lock, sock, sent, dropped, cut, met>>

\* A timeout, or a recv that does not block: RuntimeError or TimeoutError.
GiveUpReceive(e) ==
  /\ At(e, "recv")
  /\ messages[e] = <<>>
  /\ Return(e)
  /\ UNCHANGED <<tables, lock, sock, traffic, met>>

-----------------------------------------------------------------------------
(* __del__ and disconnect.  The lock is held while conn_lost_callback of   *)
(* the remote socket, code of the user, runs.                              *)

StartClose(e) ==
  /\ At(e, "idle")
  /\ lock = None
  /\ \E n \in DOMAIN sock[e] :
       /\ sock[e][n] \in {"up", "failed"}
       /\ thread' = [thread EXCEPT ![e] = [@ EXCEPT !.pc = "closing", !.obj = n]]
  /\ lock' = e
  /\ UNCHANGED <<tables, sock, traffic, met>>

\* The socket is gone, while a message for its host may be on its way.
Collect(e) ==
  /\ sock' = [sock EXCEPT ![e][thread[e].obj] = "gone"]
  /\ cut'  = [cut EXCEPT ![e] = @ \cup InSending(Other(e))]
  /\ Return(e)
  /\ UNCHANGED <<sent, delivered, dropped>>

\* Mutants: only a connected socket is disconnected; the lock is kept; the socket also
\* takes itself out of the sockets tracked for the other end; its callback stays.
CloseIfConnected(e) ==
  /\ At(e, "closing")
  /\ IF {e, Other(e)} \subseteq open
     THEN /\ open'   = open \ {e}
          /\ remote' = remote \ {Other(e)}
          /\ recvCb' = [recvCb EXCEPT ![e] = 0]
     ELSE UNCHANGED <<open, remote, recvCb>>
  /\ lock' = None
  /\ Collect(e)
  /\ UNCHANGED <<messages, met>>

CloseKeepsLock(e) ==
  /\ At(e, "closing")
  /\ open'   = open \ {e}
  /\ remote' = remote \ {Other(e)}
  /\ recvCb' = [recvCb EXCEPT ![e] = 0]
  /\ Collect(e)
  /\ UNCHANGED <<messages, lock, met>>

CloseEverywhere(e) ==
  /\ At(e, "closing")
  /\ open'   = open \ {e}
  /\ remote' = remote \ {e, Other(e)}
  /\ recvCb' = [recvCb EXCEPT ![e] = 0]
  /\ lock'   = None
  /\ Collect(e)
  /\ UNCHANGED <<messages, met>>

CloseKeepsCallback(e) ==
  /\ At(e, "closing")
  /\ open'   = open \ {e}
  /\ remote' = remote \ {Other(e)}
  /\ lock'   = None
  /\ Collect(e)
  /\ UNCHANGED <<messages, recvCb, met>>

Close(e) ==
  /\ At(e, "closing")
  /\ open'   = open \ {e}
  /\ remote' = remote \ {Other(e)}
  /\ recvCb' = [recvCb EXCEPT ![e] = 0]
  /\ lock'   = None
  /\ Collect(e)
  /\ UNCHANGED <<messages, met>>

\* reset_socket_hub, between two runs of the hosts.  The hub is a new one: what waited in the
\* old one is thrown away, whatever sockets are up, and the books of messages begin anew.
ResetHub ==
  /\ \A e \in Ends : At(e, "idle")
  /\ open'     = {}
  /\ remote'   = {}
  /\ messages' = [e \in Ends |-> <<>>]
  /\ recvCb'   = [e \in Ends |-> 0]
  /\ lock'     = None
  /\ sent'      = [e \in Ends |-> 0]
  /\ delivered' = [e \in Ends |-> <<>>]
  /\ dropped'   = [e \in Ends |-> {}]
  /\ cut'       = [e \in Ends |-> {}]
  /\ UNCHANGED <<sock, thread, met>>

-----------------------------------------------------------------------------
\* What a thread that has started to connect, send, receive or close does next.
Continue(e) ==
  \/ Track(e) \/ AddCallbacks(e) \/ PollOpen(e) \/ PollRemote(e)
  \/ LookUpCallback(e) \/ CallCallback(e) \/ AppendMessage(e)
  \/ Receive(e) \/ Close(e)

Next ==
  \/ \E e \in Ends :
       \/ OpenSocket(e) \/ StartSend(e) \/ StartReceive(e) \/ StartClose(e)
       \/ ConnectTimeout(e) \/ GiveUpReceive(e)
       \/ Continue(e)
  \/ ResetHub

Spec == Init /\ [][Next]_vars

\* Every thread runs; what it starts, and whether it gives up, is up to the host.
FairSpec == Spec /\ \A e \in Ends : WF_vars(Continue(e))

-----------------------------------------------------------------------------
(* Properties.                                                             *)

\* Types; the thread that holds the lock is the one that closes a socket.
TypeOK ==
  /\ open \subseteq Ends
  /\ remote \subseteq Ends
  /\ messages \in [Ends -> Seq(Nat)]
  /\ recvCb \in [Ends -> Nat]
  /\ lock \in Ends \cup {None}
  /\ \A e \in Ends : At(e, "closing") <=> lock = e
  /\ sock \in [Ends -> Seq({"opening", "up", "failed", "gone"})]
  /\ thread \in [Ends -> [pc : Pcs, obj : Nat, cb : Nat]]
  /\ sent \in [Ends -> Nat]
  /\ delivered \in [Ends -> Seq(Nat)]
  /\ dropped \in [Ends -> SUBSET Nat]
  /\ cut \in [Ends -> SUBSET Nat]
  /\ met \in [Ends -> BOOLEAN]

Alive(e, n) == n \in DOMAIN sock[e] /\ sock[e][n] # "gone"

\* The tables of the hub hold no ghosts: while a host is in the open sockets it has a socket
\* that lives, so that a socket is never connected to nobody, and a registered callback
\* belongs to a socket that is alive and open.  Sockets of one key come and go in
\* any order, and the tables are changed outside the lock by connect.
NoGhosts ==
  \A e \in Ends :
    /\ e \in open => \E n \in DOMAIN sock[e] : Alive(e, n)
    /\ recvCb[e] # 0 => e \in open /\ Alive(e, recvCb[e])

Increasing(s) == \A i, j \in DOMAIN s : i < j => s[i] < s[j]

\* From one reset of the hub to the next, every message is in one place: it was received once,
\* waits once, is on its way, or was dropped; what waits in the queue waits in order, and a
\* host without callbacks receives in the order of sending, across all sockets of its key
\* (send, recv).  When a message may be dropped is for LossNeedsAClose to say.
MessagesInOrder ==
  \A e \in Ends :
    LET o   == Other(e)
        all == delivered[e] \o messages[e]
    IN /\ ToSet(all) \cup dropped[e] \cup InSending(o) = 1 .. sent[o]
       /\ Len(all) + Cardinality(dropped[e]) + Cardinality(InSending(o)) = sent[o]
       /\ Increasing(messages[e])
       /\ Increasing(delivered[e]) \/ e \in CallbackEnds
       /\ Increasing(all) \/ e \in CallbackEnds

\* A message is dropped only if the host it is for closed a socket while that very message was
\* on its way, and has callbacks: closing costs the one message that races it, no message
\* that is sent before or after, and none of those that wait in the queue.  The message is
\* lost even when a newer socket of the key is up (send, disconnect, _recv_callbacks).
LossNeedsAClose ==
  \A e \in Ends : dropped[e] \subseteq cut[e] /\ (dropped[e] = {} \/ e \in CallbackEnds)

\* A host that is connecting when the other one opens a socket gets an answer, even if
\* that socket is closed again before the host looks (the note in _SocketHub.__init__: the
\* sockets are tracked twice so that no side waits for ever).
ConnectReturns == \A e \in Ends : met[e] ~> ~met[e]

\* With use_callbacks, recv_callback is called when a message is received: no message is
\* left in the queue of such a host, where only recv would find it.
CallbackIsCalled == \A e \in CallbackEnds : messages[e] = <<>>
=============================================================================
