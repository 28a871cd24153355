------------------------------ MODULE EprPairs ------------------------------
(***************************************************************************)
(* What a quantum node controller promises about entanglement: on every    *)
(* channel (a role, a remote node and a purpose ID) the pairs that the     *)
(* network stack reports are credited to the requests in the order in      *)
(* which the requests were made, one pair at a time and each exactly once. *)
(* Module Executor implements this specification.                          *)
(***************************************************************************)
EXTENDS Naturals, Sequences

CONSTANTS
  Channels,     \* the channels on which pairs are requested
  Announced,    \* per channel, how many requests the remote node makes on it
  Sizes         \* the numbers of pairs that a request may ask for

VARIABLES
  asked,        \* per channel, how many requests this node has made
  owed,         \* per channel, the pairs still owed to requests, oldest first
  inFlight      \* per channel, the pairs reported and not yet credited

vars == <<asked, owed, inFlight>>

Pair(i, j) == [id |-> i, pair |-> j]

Init ==
  /\ asked    = [c \in Channels |-> 0]
  /\ owed     = [c \in Channels |-> <<>>]
  /\ inFlight = [c \in Channels |-> <<>>]

\* The next request on c is made, for n pairs.
Ask(c) ==
  /\ asked' = [asked EXCEPT ![c] = @ + 1]
  /\ \E n \in Sizes :
       owed' = [owed EXCEPT ![c] = @ \o [j \in 1 .. n |-> Pair(asked[c] + 1, j)]]
  /\ UNCHANGED inFlight

\* The network stack reports a pair of a request that was made, here or at the remote node.
Report(c) ==
  /\ \E i \in (1 .. asked[c]) \cup (1 .. Announced[c]), n \in Sizes : \E j \in 1 .. n :
       inFlight' = [inFlight EXCEPT ![c] = Append(@, Pair(i, j))]
  /\ UNCHANGED <<asked, owed>>

\* The oldest reported pair is credited, and only to the request it belongs to.
Credit(c) ==
  /\ inFlight[c] # <<>>
  /\ owed[c] # <<>>
  /\ Head(inFlight[c]) = Head(owed[c])
  /\ inFlight' = [inFlight EXCEPT ![c] = Tail(@)]
  /\ owed'     = [owed EXCEPT ![c] = Tail(@)]
  /\ UNCHANGED asked

Next == \E c \in Channels : Ask(c) \/ Report(c) \/ Credit(c)

Spec == Init /\ [][Next]_vars
=============================================================================
