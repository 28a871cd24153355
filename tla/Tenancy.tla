------------------------------- MODULE Tenancy -------------------------------
(***************************************************************************)
(* What app IDs and shared memory promise to the applications of a node.   *)
(* An ID is let to one application at a time, an application that has left *)
(* does not come back, and what an application reads is its own memory.    *)
(***************************************************************************)
CONSTANTS Ids, Apps

VARIABLES
  tenant,  \* the application registered under an ID, for the IDs that are let
  reader   \* applications that have found their memory: whose memory it is

TInit ==
  /\ tenant = <<>>
  /\ reader = <<>>

Tenants == {tenant[i] : i \in DOMAIN tenant}

MoveIn(a, i) ==
  /\ i \notin DOMAIN tenant
  /\ a \notin Tenants \cup DOMAIN reader
  /\ tenant' = [j \in DOMAIN tenant \cup {i} |-> IF j = i THEN a ELSE tenant[j]]
  /\ UNCHANGED reader

FindMemory(a) ==
  /\ a \in Tenants
  /\ a \notin DOMAIN reader
  /\ reader' = [b \in DOMAIN reader \cup {a} |-> IF b = a THEN a ELSE reader[b]]
  /\ UNCHANGED tenant

MoveOut(i) ==
  /\ i \in DOMAIN tenant
  /\ tenant' = [j \in DOMAIN tenant \ {i} |-> tenant[j]]
  /\ UNCHANGED reader

TNext ==
  \/ \E a \in Apps, i \in Ids : MoveIn(a, i)
  \/ \E a \in Apps : FindMemory(a)
  \/ \E i \in Ids : MoveOut(i)

TSpec == TInit /\ [][TNext]_<<tenant, reader>>
=============================================================================
