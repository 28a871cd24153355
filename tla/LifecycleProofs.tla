--------------------------- MODULE LifecycleProofs ---------------------------
(***************************************************************************)
(* Theorems about module Lifecycle, for any names, app IDs and number of   *)
(* connections, when all the rules are obeyed.                             *)
(***************************************************************************)
EXTENDS Lifecycle, SequenceTheorems, TLAPS

-----------------------------------------------------------------------------
(* The inductive invariant.                                                *)

Held  == {"opening", "answered", "ready", "busy", "hung"}  \* its ID is in the list
Known == {"answered", "ready", "busy", "closing"}          \* it may be registered

OneName == \A c, d \in Alive : conns[c].name = conns[d].name

OneMoves == \A c, d \in Conns : St(c) \notin Settled /\ St(d) \notin Settled => c = d

IdsApart == \A c, d \in Alive : Id(c) = Id(d) => c = d

IdsListed ==
  /\ \A c \in Conns : St(c) \in Held => appIds[conns[c].name][Id(c)] = 1
  /\ \A n \in Names, i \in Ids : appIds[n][i] # 0 =>
       \E c \in Conns : conns[c].name = n /\ Id(c) = i /\ St(c) \in Held

Registered(c) ==
  /\ Id(c) \in active /\ Id(c) \in DOMAIN modules /\ Id(c) \in DOMAIN shared
  /\ modules[Id(c)] = c /\ shared[Id(c)] = c

\* Where a connection is in its life tells what the node knows of it.
Phase(c) ==
  /\ St(c) \in {"picked", "opening"} =>
       Id(c) \notin active /\ Id(c) \notin DOMAIN modules /\ Id(c) \notin DOMAIN shared
  /\ St(c) = "opening" =>
       conns[c].memory = IF Id(c) \in DOMAIN memories THEN memories[Id(c)] ELSE 0
  /\ St(c) = "opening" /\ Id(c) \in DOMAIN memories => St(memories[Id(c)]) = "closed"
  /\ St(c) = "answered" =>
       Registered(c) /\ conns[c].memory = 0 /\ Id(c) \in DOMAIN memories /\ memories[Id(c)] = c
  /\ St(c) \in InUse => Registered(c)
  /\ St(c) \in InUse \cup {"closing", "closed"} => conns[c].memory = c
  /\ Msg(c, "stop") \in inbox => Registered(c) /\ c \notin clearing
  /\ c \in clearing =>
       /\ Id(c) \notin active /\ Id(c) \notin DOMAIN modules
       /\ Id(c) \in DOMAIN shared /\ shared[Id(c)] = c
  /\ St(c) = "hung" => Id(c) \in DOMAIN memories /\ St(memories[Id(c)]) = "closed"
  /\ St(c) # "refused"

\* What the node knows belongs to a connection that is not gone.
NodeKnows ==
  /\ \A i \in active : \E c \in Conns : Id(c) = i /\ St(c) \in Known \cup {"hung"}
  /\ \A i \in DOMAIN modules : Id(modules[i]) = i /\ St(modules[i]) \in Known \cup {"hung"}
  /\ \A i \in DOMAIN shared : Id(shared[i]) = i /\ St(shared[i]) \in Known
  /\ \A i \in DOMAIN memories : Id(memories[i]) = i /\ St(memories[i]) \in Known \cup {"closed"}

IInv ==
  /\ TypeOK
  /\ OneName
  /\ OneMoves
  /\ IdsApart
  /\ IdsListed
  /\ \A c \in Conns : Phase(c)
  /\ NodeKnows

Record == [name : Names, id : Ids, st : States, memory : Nat, stops : BOOLEAN]

\* The connections are numbered from 1.
LEMMA ConnFacts ==
  ASSUME TypeOK
  PROVE  /\ Len(conns) \in Nat
         /\ Conns = 1 .. Len(conns)
         /\ \A c \in Conns : /\ conns[c] \in Record
                             /\ conns[c].name \in Names /\ Id(c) \in Ids /\ St(c) \in States
                             /\ conns[c].memory \in Nat /\ c # 0
<1>1. conns \in Seq(Record)
  BY DEF TypeOK, Record
<1>2. /\ Len(conns) \in Nat
      /\ Conns = 1 .. Len(conns)
      /\ \A c \in Conns : conns[c] \in Record /\ c # 0
  BY <1>1 DEF Conns
<1>3. QED
  BY <1>2 DEF Record, Id, St

\* A step changes one connection, which keeps its name and ID.
Changes(c, s, m, b) ==
  /\ Conns' = Conns
  /\ conns' \in Seq(Record)
  /\ \A d \in Conns :
       /\ St(d)' = IF d = c THEN s ELSE St(d)
       /\ Id(d)' = Id(d)
       /\ (conns[d].name)' = conns[d].name
       /\ (conns[d].memory)' = IF d = c THEN m ELSE conns[d].memory
       /\ (conns[d].stops)' = IF d = c THEN b ELSE conns[d].stops

LEMMA ChangeFacts ==
  ASSUME TypeOK, NEW c \in Conns, NEW s \in States, NEW m \in Nat, NEW b \in BOOLEAN,
         conns' = [conns EXCEPT ![c].st = s, ![c].memory = m, ![c].stops = b]
  PROVE  Changes(c, s, m, b)
<1>1. /\ conns \in Seq(Record)
      /\ \A d \in Conns : conns[d] \in Record
  BY ConnFacts DEF TypeOK, Record
<1> DEFINE rec == [conns[c] EXCEPT !.st = s, !.memory = m, !.stops = b]
<1>2. /\ rec \in Record
      /\ rec.st = s /\ rec.memory = m /\ rec.stops = b
      /\ rec.id = conns[c].id /\ rec.name = conns[c].name
  BY <1>1 DEF Record
<1>3. conns' = [conns EXCEPT ![c] = rec]
  OBVIOUS
<1> HIDE DEF rec
<1>4. /\ conns' \in Seq(Record)
      /\ DOMAIN conns' = DOMAIN conns
      /\ \A d \in Conns : conns'[d] = IF d = c THEN rec ELSE conns[d]
  BY <1>1, <1>2, <1>3 DEF Conns
<1>5. QED
  BY <1>2, <1>4 DEF Changes, Conns, St, Id

\* A connection that only goes on to another state.
LEMMA BecomesFacts ==
  ASSUME TypeOK, NEW c \in Conns, NEW s \in States, Becomes(c, s)
  PROVE  \E m \in Nat, b \in BOOLEAN :
           m = conns[c].memory /\ b = conns[c].stops /\ Changes(c, s, m, b)
<1>1. conns[c] \in Record
  BY ConnFacts
<1>2. PICK m \in Nat, b \in BOOLEAN : m = conns[c].memory /\ b = conns[c].stops
  BY <1>1 DEF Record
<1>3. [conns[c] EXCEPT !.st = s] = [conns[c] EXCEPT !.st = s, !.memory = m, !.stops = b]
  BY <1>1, <1>2 DEF Record
<1>4. conns' = [conns EXCEPT ![c].st = s, ![c].memory = m, ![c].stops = b]
  <2>1. conns' = [conns EXCEPT ![c] = [conns[c] EXCEPT !.st = s]]
    BY DEF Becomes
  <2>2. QED
    BY <2>1, <1>3
<1>5. Changes(c, s, m, b)
  BY <1>4, ChangeFacts
<1>6. QED
  BY <1>2, <1>5

-----------------------------------------------------------------------------
(* The beginning.                                                          *)

LEMMA InitInv == Init => IInv
<1> SUFFICES ASSUME Init PROVE IInv
  OBVIOUS
<1>1. Conns = {} /\ Alive = {} /\ DOMAIN <<>> = {}
  BY DEF Init, Conns, Alive
<1>2. TypeOK
  <2>1. appIds \in [Names -> [Ids -> Nat]]
    BY DEF Init
  <2>2. conns \in Seq(Record)
    BY DEF Init
  <2>3. DOMAIN memories = {} /\ DOMAIN modules = {} /\ DOMAIN shared = {}
    BY <1>1 DEF Init
  <2>4. active = {} /\ inbox = {} /\ clearing = {} /\ finished \in BOOLEAN
    BY DEF Init
  <2>5. QED
    BY <1>1, <2>1, <2>2, <2>3, <2>4 DEF TypeOK, Record
<1>3. OneName /\ OneMoves /\ IdsApart
  BY <1>1 DEF OneName, OneMoves, IdsApart
<1>4. IdsListed
  BY <1>1 DEF IdsListed, Init
<1>5. NodeKnows
  BY <1>1 DEF NodeKnows, Init
<1>6. QED
  BY <1>1, <1>2, <1>3, <1>4, <1>5 DEF IInv

-----------------------------------------------------------------------------
(* What a step of one connection leaves as it is.                          *)

\* Connections stay apart when one that is alive goes on, if it is the only one on the move.
LEMMA StayApart ==
  ASSUME OneName, OneMoves, IdsApart,
         NEW c \in Alive, NEW s, NEW m, NEW b, Changes(c, s, m, b),
         \/ s \in Settled
         \/ \A d \in Conns : d # c => St(d) \in Settled
  PROVE  OneName' /\ OneMoves' /\ IdsApart'
<1>1. c \in Conns /\ Alive' \subseteq Alive /\ Alive \subseteq Conns
  BY DEF Alive, Changes
<1>2. OneName'
  BY <1>1 DEF OneName, Changes
<1>3. OneMoves'
  BY DEF OneMoves, Changes
<1>4. IdsApart'
  BY <1>1 DEF IdsApart, Changes
<1>5. QED
  BY <1>2, <1>3, <1>4

\* One count in the lists of IDs changes.
Counts(n, i, k) ==
  /\ appIds' \in [Names -> [Ids -> Nat]]
  /\ appIds'[n][i] = k
  /\ \A m \in Names, j \in Ids : m # n \/ j # i => appIds'[m][j] = appIds[m][j]

LEMMA CountFacts ==
  ASSUME TypeOK, NEW n \in Names, NEW i \in Ids, NEW k \in Nat,
         appIds' = [appIds EXCEPT ![n][i] = k]
  PROVE  Counts(n, i, k)
<1>1. appIds \in [Names -> [Ids -> Nat]]
  BY DEF TypeOK
<1>2. [appIds[n] EXCEPT ![i] = k] \in [Ids -> Nat]
  BY <1>1
<1>3. appIds' = [appIds EXCEPT ![n] = [appIds[n] EXCEPT ![i] = k]]
  OBVIOUS
<1>4. QED
  BY <1>1, <1>2, <1>3 DEF Counts

\* A connection that is neither settled nor the one that moves does not exist.
LEMMA OthersSettled ==
  ASSUME OneMoves, NEW c \in Conns, St(c) \notin Settled
  PROVE  \A d \in Conns : d # c => St(d) \in Settled
  BY DEF OneMoves

\* What is said of the connections and the lists alone.
LEMMA SameConnections ==
  ASSUME OneName, OneMoves, IdsApart, IdsListed, UNCHANGED <<appIds, conns>>
  PROVE  OneName' /\ OneMoves' /\ IdsApart' /\ IdsListed'
<1>1. Conns' = Conns /\ Alive' = Alive
      /\ \A c : St(c)' = St(c) /\ Id(c)' = Id(c) /\ conns'[c] = conns[c]
  BY DEF Conns, Alive, St, Id
<1>2. OneName'
  BY <1>1 DEF OneName
<1>3. OneMoves'
  BY <1>1 DEF OneMoves
<1>4. IdsApart'
  BY <1>1 DEF IdsApart
<1>5. IdsListed'
  BY <1>1 DEF IdsListed
<1>6. QED
  BY <1>2, <1>3, <1>4, <1>5

\* The tables of the node and the memories hold connections.
LEMMA TableFacts ==
  ASSUME TypeOK
  PROVE  /\ \A i \in DOMAIN memories : i \in Ids /\ memories[i] \in Conns
         /\ \A i \in DOMAIN modules : i \in Ids /\ modules[i] \in Conns
         /\ \A i \in DOMAIN shared : i \in Ids /\ shared[i] \in Conns
         /\ active \subseteq Ids
         /\ inbox \subseteq [conn : Conns, type : {"init", "subroutine", "stop", "signal"}]
         /\ \A m \in inbox : m.conn \in Conns /\ Tells(m)
         /\ clearing \subseteq Conns /\ \A c \in clearing : St(c) = "closing"
         /\ \A c : Msg(c, "stop") \in inbox => St(c) = "closing"
<1>1. inbox \subseteq [conn : Conns, type : {"init", "subroutine", "stop", "signal"}]
      /\ \A m \in inbox : Tells(m)
  BY DEF TypeOK
<1>2. \A c : Msg(c, "stop") \in inbox => St(c) = "closing"
  BY <1>1 DEF Tells, Msg
<1>3. QED
  BY <1>1, <1>2 DEF TypeOK

-----------------------------------------------------------------------------
(* Construction.                                                           *)

LEMMA PickIdInv ==
  ASSUME IInv, Lifted = {}, NEW n \in Names, PickId(n)
  PROVE  IInv'
<1>1. PICK i \in Ids :
        /\ FreeId(n, i)
        /\ conns' = Append(conns, [name |-> n, id |-> i, st |-> "picked", memory |-> 0,
                                   stops |-> FALSE])
  BY DEF PickId
<1> DEFINE rec == [name |-> n, id |-> i, st |-> "picked", memory |-> 0, stops |-> FALSE]
<1>2. TypeOK /\ OneName /\ OneMoves /\ IdsApart /\ IdsListed /\ NodeKnows
      /\ \A c \in Conns : Phase(c)
  BY DEF IInv
<1>3. /\ Len(conns) \in Nat /\ Conns = 1 .. Len(conns)
      /\ \A c \in Conns : /\ conns[c].name \in Names /\ Id(c) \in Ids /\ St(c) \in States
  BY <1>2, ConnFacts
<1>4. rec \in Record
  BY DEF Record, States
<1>new. PICK new \in Nat : new = Len(conns) + 1
  BY <1>3
<1>5. /\ conns' \in Seq(Record)
      /\ Conns' = Conns \cup {new} /\ new \notin Conns
      /\ conns'[new] = rec
      /\ \A c \in Conns : conns'[c] = conns[c]
  <2>1. conns \in Seq(Record)
    BY <1>2 DEF TypeOK, Record
  <2>2. QED
    BY <2>1, <1>1, <1>3, <1>4, <1>new DEF Conns
<1>6. /\ \A c \in Conns : /\ St(c)' = St(c) /\ Id(c)' = Id(c)
                          /\ (conns[c].name)' = conns[c].name
                          /\ (conns[c].memory)' = conns[c].memory
                          /\ (conns[c].stops)' = conns[c].stops
      /\ St(new)' = "picked" /\ Id(new)' = i /\ conns'[new].name = n
  BY <1>5 DEF St, Id
<1> HIDE DEF rec
<1>7. UNCHANGED <<appIds, memories, active, modules, shared, clearing, finished, inbox>>
  BY DEF PickId, nodeVars
<1>8. /\ \A c \in Conns : St(c) \in Settled
      /\ \A c \in Alive : conns[c].name = n
  BY DEF PickId, Obeyed
<1>9. Alive' = Alive \cup {new} /\ Alive \subseteq Conns
  BY <1>5, <1>6 DEF Alive, Gone
\* A connection that is alive is in use and has its ID in the list.
<1>10. \A c \in Alive : St(c) \in InUse /\ Id(c) # i
  <2> SUFFICES ASSUME NEW c \in Alive PROVE St(c) \in InUse /\ Id(c) # i
    OBVIOUS
  <2>1. c \in Conns /\ St(c) \in InUse
    BY <1>8 DEF Alive, Settled
  <2>2. appIds[conns[c].name][Id(c)] = 1
    BY <2>1, <1>2 DEF IdsListed, InUse, Held
  <2>3. QED
    BY <2>1, <2>2, <1>1, <1>8 DEF FreeId
<1>11. i \notin active /\ i \notin DOMAIN modules /\ i \notin DOMAIN shared
  <2>1. \A c \in Conns : St(c) \in Known \cup {"hung"} => c \in Alive
    BY DEF Known, Alive, Gone
  <2>2. \A j \in DOMAIN modules : modules[j] \in Conns
    BY <1>2 DEF TypeOK
  <2>3. \A j \in DOMAIN shared : shared[j] \in Conns
    BY <1>2 DEF TypeOK
  <2>4. QED
    BY <2>1, <2>2, <2>3, <1>2, <1>10 DEF NodeKnows
<1>12. TypeOK'
  <2>1. \A m \in inbox : Tells(m)'
    <3> SUFFICES ASSUME NEW m \in inbox PROVE Tells(m)'
      OBVIOUS
    <3>1. m.conn \in Conns /\ Tells(m)
      BY <1>2 DEF TypeOK
    <3>2. QED
      BY <3>1, <1>6 DEF Tells
  <2>2. inbox \subseteq [conn : Conns', type : {"init", "subroutine", "stop", "signal"}]
    BY <1>2, <1>5 DEF TypeOK
  <2>3. clearing \subseteq {c \in Conns' : St(c)' = "closing"}
    BY <1>2, <1>5, <1>6 DEF TypeOK
  <2>4. Conns' \subseteq 1 .. MaxConns
    <3>1. Len(conns) < MaxConns
      BY DEF PickId
    <3>2. new \in 1 .. MaxConns
      BY <3>1, <1>3, <1>new, ConstantsAssumption
    <3>3. Conns \subseteq 1 .. MaxConns
      BY <1>2 DEF TypeOK
    <3>4. QED
      BY <3>2, <3>3, <1>5
  <2>5. QED
    BY <2>1, <2>2, <2>3, <2>4, <1>2, <1>5, <1>7 DEF TypeOK, Record
<1>13. OneName'
  BY <1>2, <1>6, <1>8, <1>9 DEF OneName
<1>14. OneMoves'
  BY <1>5, <1>6, <1>8 DEF OneMoves
<1>15. IdsApart'
  BY <1>2, <1>6, <1>9, <1>10 DEF IdsApart
<1>16. IdsListed'
  BY <1>2, <1>5, <1>6, <1>7 DEF IdsListed, Held
<1>17. \A c \in Conns' : Phase(c)'
  <2>1. Phase(new)'
    <3>1. new \notin clearing /\ Msg(new, "stop") \notin inbox
      BY <1>2, <1>5 DEF TypeOK, Msg
    <3>2. QED
      BY <3>1, <1>6, <1>7, <1>11 DEF Phase, Registered, InUse, Msg
  <2>2. ASSUME NEW c \in Conns PROVE Phase(c)'
    <3>1. Phase(c)
      BY <1>2
    <3>2. \A j \in DOMAIN memories : memories[j] \in Conns
      BY <1>2 DEF TypeOK
    <3>3. QED
      BY <3>1, <3>2, <1>6, <1>7 DEF Phase, Registered, Msg
  <2>3. QED
    BY <2>1, <2>2, <1>5
<1>18. NodeKnows'
  <2>1. /\ \A j \in DOMAIN modules : modules[j] \in Conns
        /\ \A j \in DOMAIN shared : shared[j] \in Conns
        /\ \A j \in DOMAIN memories : memories[j] \in Conns
    BY <1>2 DEF TypeOK
  <2>2. QED
    BY <2>1, <1>2, <1>5, <1>6, <1>7 DEF NodeKnows
<1>19. QED
  BY <1>12, <1>13, <1>14, <1>15, <1>16, <1>17, <1>18 DEF IInv

LEMMA ConstructInv ==
  ASSUME IInv, Lifted = {}, NEW c \in Conns, Construct(c)
  PROVE  IInv'
<1>1. /\ TypeOK /\ OneName /\ OneMoves /\ IdsApart /\ IdsListed /\ NodeKnows
      /\ \A d \in Conns : Phase(d)
  BY DEF IInv
<1>2. St(c) = "picked" /\ c \in Alive
  BY DEF Construct, Alive, Gone
<1>3. /\ \A d \in Conns : conns[d].name \in Names /\ Id(d) \in Ids /\ St(d) \in States
                          /\ conns[d] \in Record /\ d \in Nat
  BY <1>1, ConnFacts
<1>4. PICK m \in Nat, b \in BOOLEAN :
        /\ m = IF Id(c) \in DOMAIN memories THEN memories[Id(c)] ELSE 0
        /\ b = conns[c].stops
  BY <1>1, <1>3, TableFacts DEF Record
<1>5. Changes(c, "opening", m, b)
  <2>1. conns' = [conns EXCEPT ![c].st = "opening", ![c].memory = m]
    BY <1>4 DEF Construct
  <2>2. [conns[c] EXCEPT !.st = "opening", !.memory = m]
          = [conns[c] EXCEPT !.st = "opening", !.memory = m, !.stops = b]
    BY <1>3, <1>4 DEF Record
  <2>3. conns' = [conns EXCEPT ![c].st = "opening", ![c].memory = m, ![c].stops = b]
    BY <2>1, <2>2
  <2>4. QED
    BY <2>3, <1>1, ChangeFacts DEF States
<1>6. /\ appIds' = [appIds EXCEPT ![conns[c].name][Id(c)] = @ + 1]
      /\ inbox' = inbox \cup {Msg(c, "init")}
      /\ UNCHANGED <<memories, active, modules, shared, clearing, finished>>
  BY DEF Construct, nodeVars
<1>7. \A d \in Conns : d # c => St(d) \in Settled
  BY <1>1, <1>2, OthersSettled DEF Settled, InUse, Gone
<1>8. OneName' /\ OneMoves' /\ IdsApart'
  BY <1>1, <1>2, <1>5, <1>7, StayApart
<1>10. /\ appIds' \in [Names -> [Ids -> Nat]]
       /\ appIds'[conns[c].name][Id(c)] = appIds[conns[c].name][Id(c)] + 1
       /\ \A n \in Names, i \in Ids :
            n # conns[c].name \/ i # Id(c) => appIds'[n][i] = appIds[n][i]
  <2>1. PICK n \in Names, i \in Ids : n = conns[c].name /\ i = Id(c)
    BY <1>3
  <2>2. PICK k \in Nat : k = appIds[n][i] + 1
    BY <1>1 DEF TypeOK
  <2>3. appIds' = [appIds EXCEPT ![n][i] = k]
    BY <2>1, <2>2, <1>6
  <2>4. Counts(n, i, k)
    BY <2>3, <1>1, CountFacts
  <2>5. QED
    BY <2>1, <2>2, <2>4 DEF Counts
<1>9. TypeOK'
  <2>1. \A n \in inbox' : Tells(n)'
    BY <1>1, <1>2, <1>5, <1>6, TableFacts DEF Tells, Changes, Msg
  <2>2. inbox' \subseteq [conn : Conns', type : {"init", "subroutine", "stop", "signal"}]
    BY <1>1, <1>5, <1>6, TableFacts DEF Changes, Msg
  <2>3. clearing' \subseteq {d \in Conns' : St(d)' = "closing"}
    BY <1>1, <1>2, <1>5, <1>6, TableFacts DEF Changes
  <2>4. appIds' \in [Names -> [Ids -> Nat]]
    BY <1>10
  <2>5. QED
    BY <2>1, <2>2, <2>3, <2>4, <1>1, <1>5, <1>6 DEF TypeOK, Record, Changes
<1>11. IdsListed'
  <2>1. appIds[conns[c].name][Id(c)] = 0
    <3>1. ASSUME NEW d \in Conns, conns[d].name = conns[c].name, Id(d) = Id(c), St(d) \in Held
          PROVE  FALSE
      <4>1. d \in Alive /\ d # c
        BY <3>1, <1>2 DEF Alive, Gone, Held
      <4>2. QED
        BY <4>1, <3>1, <1>1, <1>2 DEF IdsApart
    <3>2. QED
      BY <3>1, <1>1, <1>3 DEF IdsListed
  <2>2. /\ appIds'[conns[c].name][Id(c)] = 1
        /\ \A n \in Names, i \in Ids :
             n # conns[c].name \/ i # Id(c) => appIds'[n][i] = appIds[n][i]
    BY <2>1, <1>10
  <2>3. ASSUME NEW d \in Conns, St(d)' \in Held
        PROVE  appIds'[(conns[d].name)'][Id(d)'] = 1
    <3>1. CASE d = c
      BY <3>1, <2>2, <1>5 DEF Changes
    <3>2. CASE d # c
      <4>1. d \in Alive /\ Id(d) # Id(c) /\ St(d) \in Held
        BY <3>2, <2>3, <1>1, <1>2, <1>5 DEF IdsApart, Alive, Gone, Held, Changes
      <4>2. QED
        BY <4>1, <2>2, <1>1, <1>3, <1>5 DEF IdsListed, Changes
    <3>3. QED
      BY <3>1, <3>2
  <2>4. ASSUME NEW n \in Names, NEW i \in Ids, appIds'[n][i] # 0
        PROVE  \E d \in Conns' : (conns[d].name)' = n /\ Id(d)' = i /\ St(d)' \in Held
    <3>1. CASE n = conns[c].name /\ i = Id(c)
      BY <3>1, <1>5 DEF Held, Changes
    <3>2. CASE ~(n = conns[c].name /\ i = Id(c))
      BY <3>2, <2>2, <2>4, <1>1, <1>2, <1>5 DEF IdsListed, Held, Changes
    <3>3. QED
      BY <3>1, <3>2
  <2>5. QED
    BY <2>3, <2>4, <1>5 DEF IdsListed, Changes
<1>12. ASSUME NEW d \in Conns PROVE Phase(d)'
  <2>1. Phase(d)
    BY <1>1
  <2>2. CASE d = c
    <3>1. Id(c) \in DOMAIN memories => St(memories[Id(c)]) = "closed" /\ memories[Id(c)] # c
      BY <1>1, <1>2, TableFacts DEF NodeKnows, IdsApart, Known, Alive, Gone
    <3>2. Msg(c, "stop") \notin inbox' /\ c \notin clearing'
      BY <1>1, <1>2, <1>6, TableFacts DEF Msg
    <3>3. QED
      BY <2>1, <2>2, <3>1, <3>2, <1>1, <1>2, <1>4, <1>5, <1>6, TableFacts
      DEF Phase, Changes, InUse
  <2>3. CASE d # c
    <3>1. Msg(d, "stop") \in inbox' <=> Msg(d, "stop") \in inbox
      BY <1>6 DEF Msg
    <3>2. \A i \in DOMAIN memories : St(memories[i]) = "closed" => St(memories[i])' = "closed"
      BY <1>1, <1>2, <1>5, <1>6, TableFacts DEF Changes
    <3>3. QED
      BY <2>1, <2>3, <3>1, <3>2, <1>5, <1>6 DEF Phase, Registered, Changes
  <2>4. QED
    BY <2>2, <2>3
<1>13. NodeKnows'
  BY <1>1, <1>2, <1>5, <1>6, TableFacts DEF NodeKnows, Changes, Known
<1>14. QED
  BY <1>5, <1>8, <1>9, <1>11, <1>12, <1>13 DEF IInv, Changes

LEMMA FinishConstructInv ==
  ASSUME IInv, Lifted = {}, NEW c \in Conns, FinishConstruct(c)
  PROVE  IInv'
<1>1. /\ TypeOK /\ OneName /\ OneMoves /\ IdsApart /\ IdsListed /\ NodeKnows
      /\ \A d \in Conns : Phase(d)
  BY DEF IInv
<1>2. St(c) = "answered" /\ c \in Alive
  BY DEF FinishConstruct, Alive, Gone
<1>3. /\ Registered(c) /\ conns[c].memory = 0
      /\ Id(c) \in DOMAIN memories /\ memories[Id(c)] = c
  BY <1>1, <1>2 DEF Phase
<1>4. conns[c] \in Record /\ c \in Nat
  BY <1>1, ConnFacts
<1>5. PICK b \in BOOLEAN : b = conns[c].stops /\ Changes(c, "ready", c, b)
  <2>1. PICK b \in BOOLEAN : b = conns[c].stops
    BY <1>4 DEF Record
  <2>2. conns' = [conns EXCEPT ![c].st = "ready", ![c].memory = c]
    BY <1>3 DEF FinishConstruct, Obeyed
  <2>3. [conns[c] EXCEPT !.st = "ready", !.memory = c]
          = [conns[c] EXCEPT !.st = "ready", !.memory = c, !.stops = b]
    BY <1>4, <2>1 DEF Record
  <2>4. conns' = [conns EXCEPT ![c].st = "ready", ![c].memory = c, ![c].stops = b]
    BY <2>2, <2>3
  <2>5. Changes(c, "ready", c, b)
    BY <2>4, <1>1, <1>4, ChangeFacts DEF States, Settled, InUse
  <2>6. QED
    BY <2>1, <2>5
<1>6. UNCHANGED <<appIds, memories, active, modules, shared, clearing, finished, inbox>>
  BY DEF FinishConstruct, nodeVars
<1>7. OneName' /\ OneMoves' /\ IdsApart'
  BY <1>1, <1>2, <1>5, StayApart DEF Settled, InUse
<1>8. TypeOK'
  <2>1. \A n \in inbox' : Tells(n)'
    BY <1>1, <1>2, <1>5, <1>6, TableFacts DEF Tells, Changes, Msg
  <2>2. clearing' \subseteq {d \in Conns' : St(d)' = "closing"}
    BY <1>1, <1>2, <1>5, <1>6, TableFacts DEF Changes
  <2>3. QED
    BY <2>1, <2>2, <1>1, <1>5, <1>6 DEF TypeOK, Record, Changes
<1>9. IdsListed'
  BY <1>1, <1>2, <1>5, <1>6 DEF IdsListed, Held, Changes
<1>10. ASSUME NEW d \in Conns PROVE Phase(d)'
  <2>1. Phase(d)
    BY <1>1
  <2>2. CASE d = c
    <3>1. Msg(c, "stop") \notin inbox' /\ c \notin clearing'
      BY <1>1, <1>2, <1>6, TableFacts DEF Msg
    <3>2. QED
      BY <2>2, <3>1, <1>3, <1>5, <1>6 DEF Phase, Changes, InUse, Registered
  <2>3. CASE d # c
    BY <2>1, <2>3, <1>1, <1>2, <1>5, <1>6, TableFacts DEF Phase, Registered, Changes, Msg
  <2>4. QED
    BY <2>2, <2>3
<1>11. NodeKnows'
  BY <1>1, <1>2, <1>5, <1>6, TableFacts DEF NodeKnows, Changes, Known
<1>12. QED
  BY <1>5, <1>7, <1>8, <1>9, <1>10, <1>11 DEF IInv, Changes

-----------------------------------------------------------------------------
(* The host.                                                               *)

LEMMA FlushInv ==
  ASSUME IInv, NEW c \in Conns, Flush(c)
  PROVE  IInv'
<1>1. /\ TypeOK /\ OneName /\ OneMoves /\ IdsApart /\ IdsListed /\ NodeKnows
      /\ \A d \in Conns : Phase(d)
  BY DEF IInv
<1>2. St(c) = "ready" /\ c \in Alive
  BY DEF Flush, Alive, Gone
<1>3. PICK m \in Nat, b \in BOOLEAN :
        m = conns[c].memory /\ b = conns[c].stops /\ Changes(c, "busy", m, b)
  BY <1>1, BecomesFacts DEF Flush, States, Settled, InUse
<1>4. /\ inbox' = inbox \cup {Msg(c, "subroutine")}
      /\ UNCHANGED <<appIds, memories, active, modules, shared, clearing, finished>>
  BY DEF Flush, nodeVars
<1>5. OneName' /\ OneMoves' /\ IdsApart'
  BY <1>1, <1>2, <1>3, StayApart DEF Settled, InUse
<1>6. TypeOK'
  <2>1. \A n \in inbox' : Tells(n)'
    BY <1>1, <1>2, <1>3, <1>4, TableFacts DEF Tells, Changes, Msg
  <2>2. inbox' \subseteq [conn : Conns', type : {"init", "subroutine", "stop", "signal"}]
    BY <1>1, <1>3, <1>4, TableFacts DEF Changes, Msg
  <2>3. clearing' \subseteq {d \in Conns' : St(d)' = "closing"}
    BY <1>1, <1>2, <1>3, <1>4, TableFacts DEF Changes
  <2>4. QED
    BY <2>1, <2>2, <2>3, <1>1, <1>3, <1>4 DEF TypeOK, Record, Changes
<1>7. IdsListed'
  BY <1>1, <1>2, <1>3, <1>4 DEF IdsListed, Held, Changes
<1>8. ASSUME NEW d \in Conns PROVE Phase(d)'
  <2>1. Phase(d) /\ (Msg(d, "stop") \in inbox' <=> Msg(d, "stop") \in inbox)
    BY <1>1, <1>4 DEF Msg
  <2>2. QED
    BY <2>1, <1>1, <1>2, <1>3, <1>4, TableFacts DEF Phase, Registered, Changes, InUse
<1>9. NodeKnows'
  BY <1>1, <1>2, <1>3, <1>4, TableFacts DEF NodeKnows, Changes, Known
<1>10. QED
  BY <1>3, <1>5, <1>6, <1>7, <1>8, <1>9 DEF IInv, Changes

LEMMA CloseInv ==
  ASSUME IInv, Lifted = {}, NEW c \in Conns, Close(c)
  PROVE  IInv'
<1>1. /\ TypeOK /\ OneName /\ OneMoves /\ IdsApart /\ IdsListed /\ NodeKnows
      /\ \A d \in Conns : Phase(d)
  BY DEF IInv
<1>2. St(c) = "ready" /\ c \in Alive /\ \A d \in Conns : St(d) \in Settled
  BY DEF Close, Alive, Gone, Obeyed
<1>3. conns[c] \in Record
  BY <1>1, ConnFacts
<1>4. PICK m \in Nat, b \in BOOLEAN : m = conns[c].memory /\ Changes(c, "closing", m, b)
  <2>1. PICK m \in Nat, b \in BOOLEAN :
          m = conns[c].memory /\ conns' = [conns EXCEPT ![c].st = "closing", ![c].stops = b]
    BY <1>3 DEF Close, Record
  <2>2. [conns[c] EXCEPT !.st = "closing", !.stops = b]
          = [conns[c] EXCEPT !.st = "closing", !.memory = m, !.stops = b]
    BY <1>3, <2>1 DEF Record
  <2>3. conns' = [conns EXCEPT ![c].st = "closing", ![c].memory = m, ![c].stops = b]
    BY <2>1, <2>2
  <2>4. Changes(c, "closing", m, b)
    BY <2>3, <1>1, ChangeFacts DEF States
  <2>5. QED
    BY <2>1, <2>4
<1>5. /\ inbox' = inbox \cup {Msg(c, "stop")}
      /\ UNCHANGED <<memories, active, modules, shared, clearing, finished>>
  BY DEF Close, nodeVars
<1>6. OneName' /\ OneMoves' /\ IdsApart'
  BY <1>1, <1>2, <1>4, StayApart
<1>7. PICK n \in Names, i \in Ids :
        n = conns[c].name /\ i = Id(c) /\ appIds[n][i] = 1 /\ Counts(n, i, 0)
  <2>1. PICK n \in Names, i \in Ids : n = conns[c].name /\ i = Id(c)
    BY <1>1, ConnFacts
  <2>2. appIds[n][i] = 1
    BY <2>1, <1>1, <1>2 DEF IdsListed, Held
  <2>3. appIds' = [appIds EXCEPT ![n][i] = 0]
    BY <2>1, <2>2 DEF Close
  <2>4. Counts(n, i, 0)
    BY <2>3, <1>1, CountFacts
  <2>5. QED
    BY <2>1, <2>2, <2>4
<1>8. TypeOK'
  <2>1. \A k \in inbox' : Tells(k)'
    BY <1>1, <1>2, <1>4, <1>5, TableFacts DEF Tells, Changes, Msg
  <2>2. inbox' \subseteq [conn : Conns', type : {"init", "subroutine", "stop", "signal"}]
    BY <1>1, <1>4, <1>5, TableFacts DEF Changes, Msg
  <2>3. clearing' \subseteq {d \in Conns' : St(d)' = "closing"}
    BY <1>1, <1>2, <1>4, <1>5, TableFacts DEF Changes
  <2>4. QED
    BY <2>1, <2>2, <2>3, <1>1, <1>4, <1>5, <1>7 DEF TypeOK, Record, Changes, Counts
<1>9. IdsListed'
  <2>1. ASSUME NEW d \in Conns, St(d)' \in Held
        PROVE  appIds'[(conns[d].name)'][Id(d)'] = 1
    <3>1. d # c /\ d \in Alive /\ Id(d) # Id(c) /\ St(d) \in Held
      BY <2>1, <1>1, <1>2, <1>4 DEF IdsApart, Alive, Gone, Held, Changes
    <3>2. PICK k \in Names, j \in Ids : k = conns[d].name /\ j = Id(d)
      BY <1>1, ConnFacts
    <3>3. appIds[k][j] = 1 /\ j # i
      BY <3>1, <3>2, <1>1, <1>7 DEF IdsListed
    <3>4. appIds'[k][j] = 1
      BY <3>3, <1>7 DEF Counts
    <3>5. (conns[d].name)' = k /\ Id(d)' = j
      BY <3>2, <1>4 DEF Changes
    <3>6. QED
      BY <3>4, <3>5
  <2>2. ASSUME NEW k \in Names, NEW j \in Ids, appIds'[k][j] # 0
        PROVE  \E d \in Conns' : (conns[d].name)' = k /\ Id(d)' = j /\ St(d)' \in Held
    <3>1. (k # n \/ j # i) /\ appIds[k][j] # 0
      BY <2>2, <1>7 DEF Counts
    <3>2. PICK d \in Conns : conns[d].name = k /\ Id(d) = j /\ St(d) \in Held
      BY <3>1, <1>1 DEF IdsListed
    <3>3. QED
      BY <3>1, <3>2, <1>4, <1>7 DEF Changes
  <2>3. QED
    BY <2>1, <2>2, <1>4 DEF IdsListed, Changes
<1>10. ASSUME NEW d \in Conns PROVE Phase(d)'
  <2>1. Phase(d) /\ c \notin clearing
    BY <1>1, <1>2, TableFacts
  <2>2. CASE d = c
    BY <2>1, <2>2, <1>2, <1>4, <1>5 DEF Phase, Registered, Changes, InUse
  <2>3. CASE d # c
    <3>1. Msg(d, "stop") \in inbox' <=> Msg(d, "stop") \in inbox
      BY <2>3, <1>5 DEF Msg
    <3>2. QED
      BY <2>1, <2>3, <3>1, <1>1, <1>2, <1>4, <1>5, TableFacts DEF Phase, Registered, Changes
  <2>4. QED
    BY <2>2, <2>3
<1>11. NodeKnows'
  BY <1>1, <1>2, <1>4, <1>5, TableFacts DEF NodeKnows, Changes, Known
<1>12. QED
  BY <1>4, <1>6, <1>8, <1>9, <1>10, <1>11 DEF IInv, Changes

LEMMA ResetInv ==
  ASSUME IInv, Lifted = {}, ResetMemories
  PROVE  IInv'
<1>1. /\ TypeOK /\ OneName /\ OneMoves /\ IdsApart /\ IdsListed /\ NodeKnows
      /\ \A d \in Conns : Phase(d)
  BY DEF IInv
<1>2. Alive = {} /\ memories' = <<>>
      /\ UNCHANGED <<appIds, conns, active, modules, shared, clearing, finished, inbox>>
  BY DEF ResetMemories, Obeyed, nodeVars
<1>3. Conns' = Conns /\ Alive' = Alive
      /\ \A d \in Conns : St(d)' = St(d) /\ Id(d)' = Id(d)
  BY <1>2 DEF Conns, Alive, St, Id
<1>4. \A d \in Conns : St(d) = "closed"
  BY <1>1, <1>2 DEF Alive, Gone, Phase
<1>5. \A k \in inbox : Tells(k)'
  BY <1>1, <1>2, <1>3, TableFacts DEF Tells
<1>6. TypeOK'
  <2>1. \A j \in DOMAIN memories' : j \in Ids /\ memories'[j] \in Conns'
    BY <1>2
  <2>2. clearing' \subseteq {d \in Conns' : St(d)' = "closing"}
    BY <1>1, <1>2, <1>3 DEF TypeOK
  <2>3. QED
    BY <2>1, <2>2, <1>1, <1>2, <1>3, <1>5 DEF TypeOK
<1>7. OneName' /\ OneMoves' /\ IdsApart'
  BY <1>1, <1>2, <1>3 DEF OneName, OneMoves, IdsApart
<1>8. IdsListed'
  BY <1>1, <1>2, <1>3 DEF IdsListed
<1>9. ASSUME NEW d \in Conns PROVE Phase(d)'
  BY <1>1, <1>2, <1>3, <1>4, TableFacts DEF Phase, InUse, Registered, Msg
<1>10. NodeKnows'
  BY <1>1, <1>2, <1>3, TableFacts DEF NodeKnows
<1>11. QED
  BY <1>3, <1>6, <1>7, <1>8, <1>9, <1>10 DEF IInv

-----------------------------------------------------------------------------
(* The node controller.                                                    *)

\* A message that is handled tells what its connection waits for.
LEMMA TakeFacts ==
  ASSUME TypeOK, NEW c, NEW type, Take(c, type)
  PROVE  /\ c \in Conns /\ Msg(c, type) \in inbox
         /\ type = "init" => St(c) = "opening"
         /\ type = "subroutine" => St(c) = "busy"
         /\ type = "stop" => St(c) = "closing"
         /\ inbox' = inbox \ {Msg(c, type)}
<1>1. Msg(c, type) \in inbox /\ inbox' = inbox \ {Msg(c, type)}
  BY DEF Take
<1>2. Msg(c, type).conn = c /\ Msg(c, type).type = type
  BY DEF Msg
<1>3. c \in Conns /\ Tells(Msg(c, type))
  BY <1>1, <1>2, TableFacts
<1>4. QED
  BY <1>1, <1>2, <1>3 DEF Tells

LEMMA HandleInitInv ==
  ASSUME IInv, NEW c, HandleInit(c)
  PROVE  IInv'
<1>1. /\ TypeOK /\ OneName /\ OneMoves /\ IdsApart /\ IdsListed /\ NodeKnows
      /\ \A d \in Conns : Phase(d)
  BY DEF IInv
<1>2. /\ c \in Conns /\ St(c) = "opening" /\ c \in Alive
      /\ inbox' = inbox \ {Msg(c, "init")}
  BY <1>1, TakeFacts DEF HandleInit, Alive, Gone
<1>3. /\ active' = active \cup {Id(c)} /\ modules' = Put(modules, Id(c), c)
      /\ UNCHANGED <<appIds, clearing, finished>>
  BY DEF HandleInit
<1>4. PICK s \in {"answered", "hung"}, m \in Nat, b \in BOOLEAN :
        /\ Changes(c, s, m, b)
        /\ m = conns[c].memory
        /\ s = "answered" =>
             /\ Id(c) \notin DOMAIN memories
             /\ memories' = Put(memories, Id(c), c) /\ shared' = Put(shared, Id(c), c)
        /\ s = "hung" =>
             Id(c) \in DOMAIN memories /\ UNCHANGED <<memories, shared>>
  <2>1. CASE Id(c) \notin DOMAIN memories
    <3>1. Becomes(c, "answered") /\ memories' = Put(memories, Id(c), c)
          /\ shared' = Put(shared, Id(c), c)
      BY <2>1 DEF HandleInit
    <3>2. QED
      BY <2>1, <3>1, <1>1, <1>2, BecomesFacts DEF States
  <2>2. CASE Id(c) \in DOMAIN memories
    <3>1. Becomes(c, "hung") /\ UNCHANGED <<memories, shared>>
      BY <2>2 DEF HandleInit
    <3>2. QED
      BY <2>2, <3>1, <1>1, <1>2, BecomesFacts DEF States
  <2>3. QED
    BY <2>1, <2>2
<1>5. \A d \in Conns : d # c => St(d) \in Settled
  BY <1>1, <1>2, OthersSettled DEF Settled, InUse, Gone
<1>6. OneName' /\ OneMoves' /\ IdsApart'
  BY <1>1, <1>2, <1>4, <1>5, StayApart
\* Nobody else has this ID.
<1>7. /\ Id(c) \notin active /\ Id(c) \notin DOMAIN modules /\ Id(c) \notin DOMAIN shared
      /\ Id(c) \in DOMAIN memories => St(memories[Id(c)]) = "closed"
      /\ conns[c].memory = IF Id(c) \in DOMAIN memories THEN memories[Id(c)] ELSE 0
  BY <1>1, <1>2 DEF Phase
<1>8. /\ DOMAIN modules' = DOMAIN modules \cup {Id(c)} /\ modules'[Id(c)] = c
      /\ \A i \in DOMAIN modules : modules'[i] = modules[i]
  BY <1>3, <1>7 DEF Put
<1>9. \/ /\ s = "answered" /\ Id(c) \notin DOMAIN memories
         /\ DOMAIN memories' = DOMAIN memories \cup {Id(c)} /\ memories'[Id(c)] = c
         /\ \A i \in DOMAIN memories : memories'[i] = memories[i]
         /\ DOMAIN shared' = DOMAIN shared \cup {Id(c)} /\ shared'[Id(c)] = c
         /\ \A i \in DOMAIN shared : shared'[i] = shared[i]
      \/ s = "hung" /\ Id(c) \in DOMAIN memories /\ memories' = memories /\ shared' = shared
  <2>1. CASE s = "answered"
    BY <2>1, <1>4, <1>7 DEF Put
  <2>2. CASE s = "hung"
    BY <2>2, <1>4
  <2>3. QED
    BY <2>1, <2>2, <1>4
<1>10. Id(c) \in Ids /\ c \in Nat
  BY <1>1, <1>2, ConnFacts
<1>11. TypeOK'
  <2>1. \A k \in inbox' : Tells(k)'
    BY <1>1, <1>2, <1>4, TableFacts DEF Tells, Changes, Msg
  <2>2. inbox' \subseteq [conn : Conns', type : {"init", "subroutine", "stop", "signal"}]
    BY <1>1, <1>2, <1>4, TableFacts DEF Changes
  <2>3. clearing' \subseteq {d \in Conns' : St(d)' = "closing"}
    BY <1>1, <1>2, <1>3, <1>4, TableFacts DEF Changes
  <2>4. \A i \in DOMAIN modules' : i \in Ids /\ modules'[i] \in Conns'
    BY <1>1, <1>2, <1>4, <1>8, <1>10, TableFacts DEF Changes
  <2>5. /\ \A i \in DOMAIN memories' : i \in Ids /\ memories'[i] \in Conns'
        /\ \A i \in DOMAIN shared' : i \in Ids /\ shared'[i] \in Conns'
    BY <1>1, <1>2, <1>4, <1>9, <1>10, TableFacts DEF Changes
  <2>6. active' \subseteq Ids /\ finished' \in BOOLEAN /\ appIds' \in [Names -> [Ids -> Nat]]
    BY <1>1, <1>3, <1>10 DEF TypeOK
  <2>7. conns' \in Seq(Record)
    BY <1>4 DEF Changes
  <2>8. Conns' \subseteq 1 .. MaxConns
    BY <1>1, <1>4 DEF TypeOK, Changes
  <2>9. QED
    BY <2>1, <2>2, <2>3, <2>4, <2>5, <2>6, <2>7, <2>8 DEF TypeOK, Record
<1>12. IdsListed'
  BY <1>1, <1>2, <1>3, <1>4 DEF IdsListed, Held, Changes
<1>13. ASSUME NEW d \in Conns PROVE Phase(d)'
  <2>1. Phase(d) /\ (Msg(d, "stop") \in inbox' <=> Msg(d, "stop") \in inbox)
    BY <1>1, <1>2 DEF Msg
  <2>2. CASE d = c
    <3>1. Msg(c, "stop") \notin inbox /\ c \notin clearing
      BY <1>1, <1>2, TableFacts
    <3>2. CASE s = "answered"
      BY <2>1, <2>2, <3>1, <3>2, <1>2, <1>3, <1>4, <1>7, <1>8, <1>9
      DEF Phase, Registered, Changes, InUse
    <3>3. CASE s = "hung"
      <4>1. memories[Id(c)] \in Conns /\ memories[Id(c)] # c /\ memories' = memories
            /\ Id(c) \in DOMAIN memories /\ St(memories[Id(c)])' = "closed"
        BY <3>3, <1>1, <1>2, <1>4, <1>7, <1>9, TableFacts DEF Changes
      <4>2. QED
        BY <2>2, <3>1, <3>3, <4>1, <2>1, <1>3, <1>4 DEF Phase, Changes, InUse
    <3>4. QED
      BY <3>2, <3>3, <1>4
  <2>3. CASE d # c
    <3>1. St(d) \in InUse \/ St(d) = "closed" \/ St(d) = "refused"
      BY <2>3, <1>5 DEF Settled, Gone
    <3>2. St(d) \in InUse => Id(d) # Id(c)
      BY <1>1, <1>2, <2>3 DEF IdsApart, Alive, InUse, Gone
    <3>3. Msg(d, "stop") \notin inbox /\ d \notin clearing
      BY <3>1, <1>1, TableFacts DEF InUse
    <3>4. St(d) \in InUse => Registered(d)'
      BY <2>1, <2>3, <3>2, <1>3, <1>4, <1>8, <1>9 DEF Phase, Registered, Changes
    <3>5. St(d)' = St(d) /\ (conns[d].memory)' = conns[d].memory /\ d \notin clearing'
      BY <2>3, <3>3, <1>3, <1>4 DEF Changes
    <3>6. QED
      BY <2>1, <3>1, <3>3, <3>4, <3>5 DEF Phase, InUse
  <2>4. QED
    BY <2>2, <2>3
<1>14. NodeKnows'
  <2>1. \A i \in active' : \E d \in Conns : Id(d)' = i /\ St(d)' \in Known \cup {"hung"}
    BY <1>1, <1>2, <1>3, <1>4 DEF NodeKnows, Known, Changes
  <2>2. \A i \in DOMAIN modules' :
          Id(modules[i])' = i /\ St(modules[i])' \in Known \cup {"hung"}
    BY <1>1, <1>2, <1>4, <1>8, TableFacts DEF NodeKnows, Known, Changes
  <2>3. \A i \in DOMAIN shared' : Id(shared[i])' = i /\ St(shared[i])' \in Known
    BY <1>1, <1>2, <1>4, <1>9, TableFacts DEF NodeKnows, Known, Changes
  <2>4. \A i \in DOMAIN memories' :
          Id(memories[i])' = i /\ St(memories[i])' \in Known \cup {"closed"}
    BY <1>1, <1>2, <1>4, <1>9, TableFacts DEF NodeKnows, Known, Changes
  <2>5. QED
    BY <2>1, <2>2, <2>3, <2>4, <1>4 DEF NodeKnows, Changes
<1>15. QED
  BY <1>4, <1>6, <1>11, <1>12, <1>13, <1>14 DEF IInv, Changes

LEMMA HandleSubroutineInv ==
  ASSUME IInv, NEW c, HandleSubroutine(c)
  PROVE  IInv'
<1>1. /\ TypeOK /\ OneName /\ OneMoves /\ IdsApart /\ IdsListed /\ NodeKnows
      /\ \A d \in Conns : Phase(d)
  BY DEF IInv
<1>2. /\ c \in Conns /\ St(c) = "busy" /\ c \in Alive
      /\ inbox' = inbox \ {Msg(c, "subroutine")}
      /\ UNCHANGED <<appIds, memories, active, modules, shared, clearing, finished>>
  BY <1>1, TakeFacts DEF HandleSubroutine, Alive, Gone, nodeVars
\* The application is registered, so that the subroutine runs.
<1>3. Becomes(c, "ready")
  BY <1>1, <1>2 DEF HandleSubroutine, Phase, Registered, InUse
<1>4. PICK m \in Nat, b \in BOOLEAN :
        m = conns[c].memory /\ b = conns[c].stops /\ Changes(c, "ready", m, b)
  BY <1>1, <1>2, <1>3, BecomesFacts DEF States, Settled, InUse
<1>5. OneName' /\ OneMoves' /\ IdsApart'
  BY <1>1, <1>2, <1>4, StayApart DEF Settled, InUse
<1>6. TypeOK'
  <2>1. \A k \in inbox' : Tells(k)'
    <3> SUFFICES ASSUME NEW k \in inbox' PROVE Tells(k)'
      OBVIOUS
    <3>1. k \in inbox /\ k # Msg(c, "subroutine")
      BY <1>2
    <3>2. k \in [conn : Conns, type : {"init", "subroutine", "stop", "signal"}] /\ Tells(k)
      BY <3>1, <1>1, TableFacts
    <3>3. k.conn # c
      BY <3>1, <3>2, <1>2 DEF Tells, Msg
    <3>4. QED
      BY <3>2, <3>3, <1>4 DEF Tells, Changes
  <2>2. inbox' \subseteq [conn : Conns', type : {"init", "subroutine", "stop", "signal"}]
    BY <1>1, <1>2, <1>4, TableFacts DEF Changes
  <2>3. clearing' \subseteq {d \in Conns' : St(d)' = "closing"}
    BY <1>1, <1>2, <1>4, TableFacts DEF Changes
  <2>4. QED
    BY <2>1, <2>2, <2>3, <1>1, <1>2, <1>4 DEF TypeOK, Record, Changes
<1>7. IdsListed'
  BY <1>1, <1>2, <1>4 DEF IdsListed, Held, Changes
<1>8. ASSUME NEW d \in Conns PROVE Phase(d)'
  <2>1. Phase(d) /\ (Msg(d, "stop") \in inbox' <=> Msg(d, "stop") \in inbox)
    BY <1>1, <1>2 DEF Msg
  <2>2. QED
    BY <2>1, <1>1, <1>2, <1>4, TableFacts DEF Phase, Registered, Changes, InUse
<1>9. NodeKnows'
  BY <1>1, <1>2, <1>4, TableFacts DEF NodeKnows, Changes, Known
<1>10. QED
  BY <1>4, <1>5, <1>6, <1>7, <1>8, <1>9 DEF IInv, Changes

LEMMA HandleStopInv ==
  ASSUME IInv, NEW c, HandleStop(c)
  PROVE  IInv'
<1>1. /\ TypeOK /\ OneName /\ OneMoves /\ IdsApart /\ IdsListed /\ NodeKnows
      /\ \A d \in Conns : Phase(d)
  BY DEF IInv
<1>2. /\ c \in Conns /\ St(c) = "closing" /\ c \in Alive
      /\ Msg(c, "stop") \in inbox /\ inbox' = inbox \ {Msg(c, "stop")}
  BY <1>1, TakeFacts DEF HandleStop, Alive, Gone
<1>3. Registered(c) /\ conns[c].memory = c
  BY <1>1, <1>2 DEF Phase
<1>4. /\ active' = active \ {Id(c)} /\ modules' = Drop(modules, Id(c))
      /\ clearing' = clearing \cup {c}
      /\ UNCHANGED <<appIds, conns, memories, shared, finished>>
  BY <1>3 DEF HandleStop, Registered
<1>5. /\ DOMAIN modules' = DOMAIN modules \ {Id(c)}
      /\ \A i \in DOMAIN modules' : modules'[i] = modules[i]
  BY <1>4 DEF Drop
<1>6. /\ Conns' = Conns /\ Alive' = Alive
      /\ \A d \in Conns : St(d)' = St(d) /\ Id(d)' = Id(d) /\ conns'[d] = conns[d]
  BY <1>4 DEF Conns, Alive, St, Id
<1>7. OneName' /\ OneMoves' /\ IdsApart' /\ IdsListed'
  BY <1>1, <1>4, SameConnections
<1>8. TypeOK'
  <2>1. \A k \in inbox' : Tells(k)'
    BY <1>1, <1>2, <1>4, <1>6, TableFacts DEF Tells
  <2>2. inbox' \subseteq [conn : Conns', type : {"init", "subroutine", "stop", "signal"}]
    BY <1>1, <1>2, <1>6, TableFacts
  <2>3. clearing' \subseteq {d \in Conns' : St(d)' = "closing"}
    BY <1>1, <1>2, <1>4, <1>6, TableFacts
  <2>4. \A i \in DOMAIN modules' : i \in Ids /\ modules'[i] \in Conns'
    BY <1>1, <1>5, <1>6, TableFacts
  <2>5. QED
    BY <2>1, <2>2, <2>3, <2>4, <1>1, <1>4, <1>6 DEF TypeOK
<1>9. ASSUME NEW d \in Conns PROVE Phase(d)'
  <2>1. Phase(d)
    BY <1>1
  <2>2. CASE d = c
    BY <2>2, <2>1, <1>2, <1>3, <1>4, <1>5, <1>6 DEF Phase, Registered, InUse, Msg
  <2>3. CASE d # c
    <3>1. Msg(d, "stop") \in inbox' <=> Msg(d, "stop") \in inbox
      BY <2>3, <1>2 DEF Msg
    <3>2. Registered(d) /\ d \in Alive => Registered(d)'
      BY <2>3, <1>1, <1>2, <1>4, <1>5, <1>6 DEF Registered, IdsApart
    <3>3. St(d) \in InUse \cup {"answered", "closing"} => d \in Alive
      BY DEF Alive, InUse, Gone
    <3>4. Msg(d, "stop") \in inbox => St(d) = "closing"
      BY <1>1, TableFacts
    <3>5. QED
      BY <2>1, <2>3, <3>1, <3>2, <3>3, <3>4, <1>1, <1>4, <1>5, <1>6, TableFacts
      DEF Phase
  <2>4. QED
    BY <2>2, <2>3
<1>10. NodeKnows'
  <2>1. \A i \in active' : \E d \in Conns : Id(d)' = i /\ St(d)' \in Known \cup {"hung"}
    BY <1>1, <1>4, <1>6 DEF NodeKnows
  <2>2. QED
    BY <2>1, <1>1, <1>4, <1>5, <1>6, TableFacts DEF NodeKnows
<1>11. QED
  BY <1>6, <1>7, <1>8, <1>9, <1>10 DEF IInv

LEMMA FinishStopInv ==
  ASSUME IInv, NEW c, FinishStop(c)
  PROVE  IInv'
<1>1. /\ TypeOK /\ OneName /\ OneMoves /\ IdsApart /\ IdsListed /\ NodeKnows
      /\ \A d \in Conns : Phase(d)
  BY DEF IInv
<1>2. c \in Conns /\ St(c) = "closing" /\ c \in Alive /\ c \in clearing
  BY <1>1, TableFacts DEF FinishStop, Alive, Gone
<1>3. /\ Id(c) \notin active /\ Id(c) \notin DOMAIN modules
      /\ Id(c) \in DOMAIN shared /\ shared[Id(c)] = c /\ conns[c].memory = c
      /\ Msg(c, "stop") \notin inbox
  BY <1>1, <1>2 DEF Phase
<1>4. /\ clearing' = clearing \ {c} /\ shared' = Drop(shared, Id(c)) /\ Becomes(c, "closed")
      /\ inbox' = IF conns[c].stops THEN inbox \cup {Msg(c, "signal")} ELSE inbox
      /\ UNCHANGED <<appIds, memories, active, modules, finished>>
  BY <1>3 DEF FinishStop
<1>5. PICK m \in Nat, b \in BOOLEAN :
        m = conns[c].memory /\ b = conns[c].stops /\ Changes(c, "closed", m, b)
  BY <1>1, <1>2, <1>4, BecomesFacts DEF States, Settled, Gone
<1>6. /\ DOMAIN shared' = DOMAIN shared \ {Id(c)}
      /\ \A i \in DOMAIN shared' : shared'[i] = shared[i]
  BY <1>4 DEF Drop
<1>7. OneName' /\ OneMoves' /\ IdsApart'
  BY <1>1, <1>2, <1>5, StayApart DEF Settled, Gone
<1>8. \A d \in Conns : Msg(d, "stop") \in inbox' <=> Msg(d, "stop") \in inbox
  BY <1>4 DEF Msg
<1>9. TypeOK'
  <2>1. \A k \in inbox' : Tells(k)'
    <3> SUFFICES ASSUME NEW k \in inbox' PROVE Tells(k)'
      OBVIOUS
    <3>1. CASE k \in inbox
      <4>1. k \in [conn : Conns, type : {"init", "subroutine", "stop", "signal"}] /\ Tells(k)
        BY <3>1, <1>1, TableFacts
      <4>2. k.conn # c
        <5>1. SUFFICES ASSUME k.conn = c PROVE FALSE
          OBVIOUS
        <5>2. k.type = "stop"
          BY <4>1, <5>1, <1>2 DEF Tells
        <5>3. k = Msg(c, "stop")
          BY <4>1, <5>1, <5>2 DEF Msg
        <5>4. QED
          BY <5>3, <3>1, <1>3
      <4>3. QED
        BY <4>1, <4>2, <1>5 DEF Tells, Changes
    <3>2. CASE k = Msg(c, "signal") /\ conns[c].stops
      BY <3>2, <1>2, <1>5 DEF Tells, Msg, Changes
    <3>3. QED
      BY <3>1, <3>2, <1>4
  <2>2. inbox' \subseteq [conn : Conns', type : {"init", "subroutine", "stop", "signal"}]
    BY <1>1, <1>2, <1>4, <1>5, TableFacts DEF Changes, Msg
  <2>3. clearing' \subseteq {d \in Conns' : St(d)' = "closing"}
    BY <1>1, <1>4, <1>5, TableFacts DEF Changes
  <2>4. \A i \in DOMAIN shared' : i \in Ids /\ shared'[i] \in Conns'
    BY <1>1, <1>5, <1>6, TableFacts DEF Changes
  <2>5. QED
    BY <2>1, <2>2, <2>3, <2>4, <1>1, <1>4, <1>5 DEF TypeOK, Record, Changes
<1>10. IdsListed'
  BY <1>1, <1>2, <1>4, <1>5 DEF IdsListed, Held, Changes
<1>11. ASSUME NEW d \in Conns PROVE Phase(d)'
  <2>1. Phase(d) /\ (Msg(d, "stop") \in inbox' <=> Msg(d, "stop") \in inbox)
    BY <1>1, <1>8
  <2>2. CASE d = c
    BY <2>1, <2>2, <1>3, <1>4, <1>5 DEF Phase, InUse, Changes
  <2>3. CASE d # c
    <3>1. /\ Registered(d) /\ d \in Alive => Registered(d)'
          /\ d \in Alive => Id(d) # Id(c)
      BY <2>3, <1>1, <1>2, <1>4, <1>5, <1>6 DEF Registered, IdsApart, Changes
    <3>2. St(d) \in InUse \cup {"answered", "closing"} => d \in Alive
      BY DEF Alive, InUse, Gone
    <3>3. /\ Msg(d, "stop") \in inbox => St(d) = "closing"
          /\ d \in clearing => St(d) = "closing"
      BY <1>1, TableFacts
    <3>4. \A i \in DOMAIN memories :
            memories' = memories /\ (St(memories[i]) = "closed" => St(memories[i])' = "closed")
      BY <1>1, <1>4, <1>5, TableFacts DEF Changes
    <3>5. QED
      BY <2>1, <2>3, <3>1, <3>2, <3>3, <3>4, <1>4, <1>5, <1>6 DEF Phase, Changes
  <2>4. QED
    BY <2>2, <2>3
<1>12. NodeKnows'
  <2>1. \A i \in active' : \E d \in Conns : Id(d)' = i /\ St(d)' \in Known \cup {"hung"}
    BY <1>1, <1>3, <1>4, <1>5 DEF NodeKnows, Changes
  <2>2. \A i \in DOMAIN modules' :
          Id(modules[i])' = i /\ St(modules[i])' \in Known \cup {"hung"}
    BY <1>1, <1>3, <1>4, <1>5, TableFacts DEF NodeKnows, Changes
  <2>3. \A i \in DOMAIN shared' : Id(shared[i])' = i /\ St(shared[i])' \in Known
    BY <1>1, <1>3, <1>4, <1>5, <1>6, TableFacts DEF NodeKnows, Changes
  <2>4. \A i \in DOMAIN memories' :
          Id(memories[i])' = i /\ St(memories[i])' \in Known \cup {"closed"}
    BY <1>1, <1>4, <1>5, TableFacts DEF NodeKnows, Changes
  <2>5. QED
    BY <2>1, <2>2, <2>3, <2>4, <1>5 DEF NodeKnows, Changes
<1>13. QED
  BY <1>5, <1>7, <1>9, <1>10, <1>11, <1>12 DEF IInv, Changes

LEMMA HandleSignalInv ==
  ASSUME IInv, NEW c, HandleSignal(c)
  PROVE  IInv'
<1>1. /\ TypeOK /\ OneName /\ OneMoves /\ IdsApart /\ IdsListed /\ NodeKnows
      /\ \A d \in Conns : Phase(d)
  BY DEF IInv
<1>2. /\ inbox' = inbox \ {Msg(c, "signal")} /\ finished' = TRUE
      /\ UNCHANGED <<appIds, conns, memories, active, modules, shared, clearing>>
  BY DEF HandleSignal, Take
<1>3. /\ Conns' = Conns /\ Alive' = Alive
      /\ \A d \in Conns : St(d)' = St(d) /\ Id(d)' = Id(d) /\ conns'[d] = conns[d]
  BY <1>2 DEF Conns, Alive, St, Id
<1>4. TypeOK'
  <2>1. \A k \in inbox' : Tells(k)'
    BY <1>1, <1>2, <1>3, TableFacts DEF Tells
  <2>2. QED
    BY <2>1, <1>1, <1>2, <1>3 DEF TypeOK
<1>5. OneName' /\ OneMoves' /\ IdsApart' /\ IdsListed'
  BY <1>1, <1>2, SameConnections
<1>6. ASSUME NEW d \in Conns PROVE Phase(d)'
  <2>1. Phase(d) /\ (Msg(d, "stop") \in inbox' <=> Msg(d, "stop") \in inbox)
    BY <1>1, <1>2 DEF Msg
  <2>2. QED
    BY <2>1, <1>1, <1>2, <1>3, TableFacts DEF Phase, Registered
<1>7. NodeKnows'
  BY <1>1, <1>2, <1>3, TableFacts DEF NodeKnows
<1>8. QED
  BY <1>3, <1>4, <1>5, <1>6, <1>7 DEF IInv

-----------------------------------------------------------------------------
(* The theorems.                                                           *)

LEMMA StepInv ==
  ASSUME Lifted = {}, IInv, [Next]_vars
  PROVE  IInv'
<1>1. CASE \E n \in Names : PickId(n)
  BY <1>1, PickIdInv
<1>2. ASSUME NEW c \in Conns,
             Construct(c) \/ FinishConstruct(c) \/ Flush(c) \/ Close(c) \/ HandleMessage(c)
      PROVE  IInv'
  BY <1>2, ConstructInv, FinishConstructInv, FlushInv, CloseInv, HandleInitInv,
     HandleSubroutineInv, HandleStopInv, FinishStopInv, HandleSignalInv DEF HandleMessage
<1>3. CASE ResetMemories
  BY <1>3, ResetInv
<1>4. CASE UNCHANGED vars
  <2>1. UNCHANGED <<appIds, conns, memories, active, modules, shared, clearing, finished, inbox>>
    BY <1>4 DEF vars, nodeVars
  <2>2. Conns' = Conns /\ \A c : St(c)' = St(c) /\ Id(c)' = Id(c)
    BY <2>1 DEF Conns, St, Id
  <2>3. OneName' /\ OneMoves' /\ IdsApart' /\ IdsListed'
    BY <2>1, SameConnections DEF IInv
  <2>4. TypeOK'
    BY <2>1, <2>2 DEF IInv, TypeOK, Tells
  <2>5. \A c \in Conns' : Phase(c)'
    BY <2>1, <2>2 DEF IInv, Phase, Registered
  <2>6. NodeKnows'
    BY <2>1, <2>2 DEF IInv, NodeKnows
  <2>7. QED
    BY <2>3, <2>4, <2>5, <2>6 DEF IInv
<1>5. QED
  BY <1>1, <1>2, <1>3, <1>4 DEF Next

LEMMA Invariance == ASSUME Lifted = {} PROVE Spec => []IInv
<1>1. Init => IInv
  BY InitInv
<1>2. IInv /\ [Next]_vars => IInv'
  BY StepInv
<1>3. QED
  BY <1>1, <1>2, PTL DEF Spec

\* The tables keep their types, and messages and stops under way are the business their
\* connection waits for (connection.py, qnodeos.py).
THEOREM LifecycleTypes == Lifted = {} => (Spec => []TypeOK)
<1> SUFFICES ASSUME Lifted = {} PROVE Spec => []TypeOK
  OBVIOUS
<1>1. IInv => TypeOK
  BY DEF IInv
<1>2. QED
  BY <1>1, Invariance, PTL

\* An application in use is registered under its ID, and the host and the node controller
\* use the memory that was made for it (connection.py:179, 407, executor.py:294).
THEOREM MemoriesApart == Lifted = {} => (Spec => []OwnMemory)
<1> SUFFICES ASSUME Lifted = {} PROVE Spec => []OwnMemory
  OBVIOUS
<1>1. IInv => OwnMemory
  BY DEF IInv, OwnMemory, Phase, Registered
<1>2. QED
  BY <1>1, Invariance, PTL

\* A handler raises only when the memory of an application that is closed is in the way
\* (shared_memory.py:295, qnodeos.py:161, executor.py:332).
THEOREM HandlersRaiseOnReuseOnly == Lifted = {} => (Spec => []HangsOnStaleMemoryOnly)
<1> SUFFICES ASSUME Lifted = {} PROVE Spec => []HangsOnStaleMemoryOnly
  OBVIOUS
<1>1. IInv => HangsOnStaleMemoryOnly
  BY DEF IInv, HangsOnStaleMemoryOnly, Phase
<1>2. QED
  BY <1>1, Invariance, PTL

\* When no connection is left, neither an ID nor an application is (connection.py:336,
\* qnodeos.py:107).
THEOREM NothingIsLeftBehind == Lifted = {} => (Spec => []NothingLeftBehind)
<1> SUFFICES ASSUME Lifted = {} PROVE Spec => []NothingLeftBehind
  OBVIOUS
<1>1. IInv => NothingLeftBehind
  <2> SUFFICES ASSUME IInv, Alive = {} 
               PROVE  /\ active = {} /\ DOMAIN modules = {} /\ DOMAIN shared = {} /\ clearing = {}
                      /\ \A n \in Names, i \in Ids : appIds[n][i] = 0
    BY DEF NothingLeftBehind
  <2>1. \A c \in Conns : St(c) \in Gone
    BY DEF Alive
  <2>2. TypeOK /\ NodeKnows /\ IdsListed
    BY DEF IInv
  <2>3. active = {}
    BY <2>1, <2>2 DEF NodeKnows, Known, Gone
  <2>4. DOMAIN modules = {} /\ DOMAIN shared = {} /\ clearing = {}
    BY <2>1, <2>2, TableFacts DEF NodeKnows, Known, Gone
  <2>5. \A n \in Names, i \in Ids : appIds[n][i] = 0
    BY <2>1, <2>2 DEF IdsListed, Held, Gone
  <2>6. QED
    BY <2>3, <2>4, <2>5
<1>2. QED
  BY <1>1, Invariance, PTL

-----------------------------------------------------------------------------
(* Refinement: the connections let their IDs and memories as Tenancy says. *)

\* A connection that keeps its memory, or has none before and after, leaves Reader as it is.
LEMMA ReaderKept ==
  ASSUME NEW c \in Conns, NEW s, NEW m, NEW b, Changes(c, s, m, b),
         s \in Having <=> St(c) \in Having,
         s \in Having => m = conns[c].memory
  PROVE  Reader' = Reader
<1>1. {d \in Conns : St(d) \in Having}' = {d \in Conns : St(d) \in Having}
  BY DEF Changes
<1>2. \A d \in {e \in Conns : St(e) \in Having} : (conns[d].memory)' = conns[d].memory
  BY DEF Changes
<1>3. QED
  BY <1>1, <1>2 DEF Reader

\* The same for a step that only tells a connection to go on.
LEMMA ReaderKeptByBecomes ==
  ASSUME TypeOK, NEW c \in Conns, NEW s \in States, Becomes(c, s),
         s \in Having <=> St(c) \in Having
  PROVE  Reader' = Reader
  BY BecomesFacts, ReaderKept

LEMMA PickIdReader ==
  ASSUME TypeOK, NEW n \in Names, PickId(n)
  PROVE  Reader' = Reader /\ shared' = shared
<1>1. PICK i \in Ids :
        conns' = Append(conns, [name |-> n, id |-> i, st |-> "picked", memory |-> 0,
                                stops |-> FALSE])
  BY DEF PickId
<1> DEFINE rec == [name |-> n, id |-> i, st |-> "picked", memory |-> 0, stops |-> FALSE]
<1>2. rec \in Record
  BY DEF Record, States
<1>3. /\ Conns' = Conns \cup {Len(conns) + 1} /\ Len(conns) + 1 \notin Conns
      /\ conns'[Len(conns) + 1] = rec
      /\ \A c \in Conns : conns'[c] = conns[c]
  <2>1. conns \in Seq(Record)
    BY DEF TypeOK, Record
  <2>2. QED
    BY <2>1, <1>1, <1>2, ConnFacts DEF Conns
<1>4. rec.st \notin Having
  BY DEF Having, InUse
<1> HIDE DEF rec
<1>5. {d \in Conns : St(d) \in Having}' = {d \in Conns : St(d) \in Having}
  BY <1>3, <1>4 DEF St
<1>6. QED
  BY <1>3, <1>5 DEF Reader, PickId, nodeVars

LEMMA ConstructReader ==
  ASSUME TypeOK, NEW c \in Conns, Construct(c)
  PROVE  Reader' = Reader /\ shared' = shared
<1>1. conns[c] \in Record
  BY ConnFacts
<1>2. PICK m : conns' = [conns EXCEPT ![c].st = "opening", ![c].memory = m]
  BY DEF Construct
<1>3. [conns[c] EXCEPT !.st = "opening", !.memory = m].st = "opening"
  BY <1>1 DEF Record
<1>4. /\ Conns' = Conns
      /\ \A d \in Conns : d # c => conns'[d] = conns[d]
      /\ conns'[c].st = "opening"
  BY <1>2, <1>3, ConnFacts DEF Conns, TypeOK
<1>5. St(c) = "picked"
  BY DEF Construct
<1>6. {d \in Conns : St(d) \in Having}' = {d \in Conns : St(d) \in Having}
  BY <1>4, <1>5 DEF St, Having, InUse
<1>7. \A d \in {e \in Conns : St(e) \in Having} : conns'[d].memory = conns[d].memory
  BY <1>4, <1>5 DEF Having, InUse
<1>8. Reader' = Reader
  BY <1>6, <1>7 DEF Reader
<1>9. QED
  BY <1>8 DEF Construct, nodeVars

LEMMA CloseReader ==
  ASSUME TypeOK, NEW c \in Conns, Close(c)
  PROVE  Reader' = Reader /\ shared' = shared
<1>1. conns[c] \in Record
  BY ConnFacts
<1>2. PICK b \in BOOLEAN : conns' = [conns EXCEPT ![c].st = "closing", ![c].stops = b]
  BY DEF Close
<1>3. /\ [conns[c] EXCEPT !.st = "closing", !.stops = b].st = "closing"
      /\ [conns[c] EXCEPT !.st = "closing", !.stops = b].memory = conns[c].memory
  BY <1>1 DEF Record
<1>4. /\ Conns' = Conns
      /\ \A d \in Conns : d # c => conns'[d] = conns[d]
      /\ conns'[c].st = "closing" /\ conns'[c].memory = conns[c].memory
  BY <1>2, <1>3, ConnFacts DEF Conns, TypeOK
<1>5. St(c) = "ready"
  BY DEF Close
<1>6. {d \in Conns : St(d) \in Having}' = {d \in Conns : St(d) \in Having}
  BY <1>4, <1>5 DEF St, Having, InUse
<1>7. \A d \in Conns : conns'[d].memory = conns[d].memory
  BY <1>4
<1>8. QED
  BY <1>6, <1>7 DEF Reader, Close, nodeVars

\* The host finds the memory: it is the one of its own application.
LEMMA FinishConstructFinds ==
  ASSUME Lifted = {}, IInv, NEW c \in Conns, FinishConstruct(c)
  PROVE  Tenants!FindMemory(c)
<1>1. TypeOK /\ Phase(c) /\ St(c) = "answered"
  BY DEF IInv, FinishConstruct
<1>2. /\ Registered(c) /\ conns[c].memory = 0
      /\ Id(c) \in DOMAIN memories /\ memories[Id(c)] = c
  BY <1>1 DEF Phase
<1>3. conns[c] \in Record
  BY <1>1, ConnFacts
<1>4. conns' = [conns EXCEPT ![c].st = "ready", ![c].memory = c]
  BY <1>2 DEF FinishConstruct, Obeyed, Rules
<1>5. /\ [conns[c] EXCEPT !.st = "ready", !.memory = c].st = "ready"
      /\ [conns[c] EXCEPT !.st = "ready", !.memory = c].memory = c
  BY <1>3 DEF Record
<1>6. /\ Conns' = Conns
      /\ \A d \in Conns : d # c => conns'[d] = conns[d]
      /\ conns'[c].st = "ready" /\ conns'[c].memory = c
  BY <1>1, <1>4, <1>5, ConnFacts DEF Conns, TypeOK
<1> DEFINE had == {d \in Conns : St(d) \in Having}
<1>7. c \notin had
  BY <1>1 DEF Having, InUse
<1>8. {d \in Conns : St(d) \in Having}' = had \cup {c}
  BY <1>6 DEF St, Having, InUse
<1>9. \A d \in had : conns'[d].memory = conns[d].memory
  BY <1>6, <1>7
<1>10. /\ DOMAIN Reader = had
       /\ \A d \in had : Reader[d] = conns[d].memory
  BY DEF Reader
<1>11. Reader' = [d \in had \cup {c} |-> IF d = c THEN c ELSE Reader[d]]
  <2>1. Reader' = [d \in had \cup {c} |-> conns'[d].memory]
    BY <1>8 DEF Reader
  <2>2. \A d \in had \cup {c} :
          conns'[d].memory = IF d = c THEN c ELSE Reader[d]
    BY <1>6, <1>9, <1>10
  <2> HIDE DEF had
  <2>3. QED
    BY <2>1, <2>2
<1>12. c \in Tenants!Tenants
  BY <1>2 DEF Registered, Tenants!Tenants
<1>13. shared' = shared
  BY DEF FinishConstruct, nodeVars
<1> HIDE DEF had
<1>14. QED
  BY <1>7, <1>10, <1>11, <1>12, <1>13 DEF Tenants!FindMemory

\* A registration that succeeds lets an ID that was free to a connection that had none.
LEMMA HandleInitMovesIn ==
  ASSUME Lifted = {}, IInv, NEW c \in Conns, HandleInit(c)
  PROVE  Tenants!MoveIn(c, Id(c)) \/ (Reader' = Reader /\ shared' = shared)
<1>1. /\ TypeOK /\ NodeKnows /\ Phase(c)
      /\ St(c) = "opening"
  <2>1. Msg(c, "init") \in inbox
    BY DEF HandleInit, Take
  <2>2. QED
    BY <2>1, TableFacts DEF IInv, Tells, Msg
<1>2. CASE Id(c) \in DOMAIN memories
  <2>1. Becomes(c, "hung") /\ shared' = shared
    BY <1>2 DEF HandleInit
  <2>2. QED
    BY <2>1, <1>1, ReaderKeptByBecomes DEF States, Having, InUse
<1>3. CASE Id(c) \notin DOMAIN memories
  <2>1. Becomes(c, "answered") /\ shared' = Put(shared, Id(c), c)
    BY <1>3 DEF HandleInit
  <2>2. Reader' = Reader
    BY <2>1, <1>1, ReaderKeptByBecomes DEF States, Having, InUse
  <2>3. Id(c) \notin DOMAIN shared
    BY <1>1 DEF Phase
  <2>4. c \notin Tenants!Tenants
    BY <1>1 DEF Tenants!Tenants, NodeKnows, Known
  <2>5. c \notin DOMAIN Reader
    BY <1>1 DEF Reader, Having, InUse
  <2>6. QED
    BY <2>1, <2>2, <2>3, <2>4, <2>5 DEF Tenants!MoveIn, Put
<1>4. QED
  BY <1>2, <1>3

\* A stop that ends frees the ID of its application, and no other.
LEMMA FinishStopMovesOut ==
  ASSUME Lifted = {}, IInv, NEW c \in Conns, FinishStop(c)
  PROVE  Tenants!MoveOut(Id(c))
<1>1. TypeOK /\ c \in clearing /\ St(c) = "closing" /\ Id(c) \in DOMAIN shared
  BY TableFacts DEF IInv, FinishStop, Phase
<1>2. shared' = Drop(shared, Id(c)) /\ Becomes(c, "closed")
  BY <1>1 DEF FinishStop
<1>3. Reader' = Reader
  BY <1>1, <1>2, ReaderKeptByBecomes DEF States, Settled, Gone, Having, InUse
<1>4. QED
  BY <1>1, <1>2, <1>3 DEF Tenants!MoveOut, Drop

LEMMA StepRefines ==
  ASSUME Lifted = {}, IInv, [Next]_vars
  PROVE  [Tenants!TNext]_<<shared, Reader>>
<1>1. TypeOK /\ \A c \in Conns : c \in 1 .. MaxConns /\ Id(c) \in Ids /\ Phase(c)
  BY ConnFacts DEF IInv, TypeOK
<1>2. CASE \E n \in Names : PickId(n)
  BY <1>1, <1>2, PickIdReader
<1>3. ASSUME NEW c \in Conns, Construct(c) PROVE UNCHANGED <<shared, Reader>>
  BY <1>1, <1>3, ConstructReader
<1>4. ASSUME NEW c \in Conns, FinishConstruct(c) PROVE Tenants!TNext
  BY <1>1, <1>4, FinishConstructFinds DEF Tenants!TNext
<1>5. ASSUME NEW c \in Conns, Flush(c) PROVE UNCHANGED <<shared, Reader>>
  BY <1>1, <1>5, ReaderKeptByBecomes
  DEF Flush, nodeVars, States, Settled, Having, InUse
<1>6. ASSUME NEW c \in Conns, Close(c) PROVE UNCHANGED <<shared, Reader>>
  BY <1>1, <1>6, CloseReader
<1>7. ASSUME NEW c \in Conns, HandleInit(c) PROVE [Tenants!TNext]_<<shared, Reader>>
  BY <1>1, <1>7, HandleInitMovesIn DEF Tenants!TNext
<1>8. ASSUME NEW c \in Conns, HandleSubroutine(c) PROVE UNCHANGED <<shared, Reader>>
  <2>1. St(c) = "busy"
    BY <1>1, <1>8, TableFacts DEF HandleSubroutine, Take, Tells, Msg
  <2>2. Id(c) \in DOMAIN shared
    BY <2>1, <1>1 DEF Phase, Registered, InUse
  <2>3. Becomes(c, "ready") /\ shared' = shared
    BY <2>2, <1>8 DEF HandleSubroutine, nodeVars
  <2>4. QED
    BY <2>1, <2>3, <1>1, ReaderKeptByBecomes DEF States, Settled, Having, InUse
<1>9. ASSUME NEW c \in Conns, HandleStop(c) PROVE UNCHANGED <<shared, Reader>>
  <2>1. Msg(c, "stop") \in inbox
    BY <1>9 DEF HandleStop, Take
  <2>2. Id(c) \in active \cap DOMAIN modules
    BY <2>1, <1>1 DEF Phase, Registered
  <2>3. UNCHANGED <<conns, shared>>
    BY <2>2, <1>9 DEF HandleStop
  <2>4. QED
    BY <2>3 DEF Reader, Conns, St
<1>10. ASSUME NEW c \in Conns, FinishStop(c) PROVE Tenants!TNext
  BY <1>1, <1>10, FinishStopMovesOut DEF Tenants!TNext
<1>11. ASSUME NEW c \in Conns, HandleSignal(c) PROVE UNCHANGED <<shared, Reader>>
  BY <1>11 DEF HandleSignal, Reader, Conns, St
<1>12. CASE ResetMemories
  BY <1>12 DEF ResetMemories, nodeVars, Reader, Conns, St
<1>13. CASE UNCHANGED vars
  BY <1>13 DEF vars, nodeVars, Reader, Conns, St
<1>14. QED
  BY <1>2, <1>3, <1>4, <1>5, <1>6, <1>7, <1>8, <1>9, <1>10, <1>11, <1>12, <1>13
  DEF Next, HandleMessage

\* Connections, node controller and shared memories implement Tenancy: an app ID is let to
\* one application at a time, which does not come back, and what its host reads is its own
\* memory (connection.py:314-422, qnodeos.py:134-188, shared_memory.py:288).
THEOREM AppsAreTenants == Lifted = {} => (Spec => OneTenant)
<1> SUFFICES ASSUME Lifted = {} PROVE Spec => OneTenant
  OBVIOUS
<1>1. Init => Tenants!TInit
  BY DEF Init, Reader, Conns, Tenants!TInit
<1>2. IInv /\ [Next]_vars => [Tenants!TNext]_<<shared, Reader>>
  BY StepRefines
<1>3. QED
  BY <1>1, <1>2, Invariance, PTL DEF Spec, OneTenant, Tenants!TSpec
=============================================================================
