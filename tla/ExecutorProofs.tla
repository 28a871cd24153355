--------------------------- MODULE ExecutorProofs ---------------------------
(***************************************************************************)
(* Theorems about module Executor, for all values of its constants.        *)
(***************************************************************************)
EXTENDS Executor, SequenceTheorems, TLAPS

-----------------------------------------------------------------------------
(* Sequences and instructions.                                             *)

\* A sequence is a function from the numbers up to its length.
LEMMA SeqFacts ==
  ASSUME NEW S, NEW q \in Seq(S)
  PROVE  /\ Len(q) \in Nat
         /\ DOMAIN q = 1 .. Len(q)
         /\ \A i \in DOMAIN q : q[i] \in S
         /\ q # <<>> => /\ 1 \in DOMAIN q
                        /\ Head(q) = q[1]
                        /\ Head(q) \in S
                        /\ Tail(q) \in Seq(S)
                        /\ Len(Tail(q)) = Len(q) - 1
                        /\ \A i \in DOMAIN Tail(q) : Tail(q)[i] = q[i + 1]
  OBVIOUS

\* Changing an element of a sequence.
LEMMA SeqExcept ==
  ASSUME NEW S, NEW q \in Seq(S), NEW i \in DOMAIN q, NEW e \in S
  PROVE  /\ [q EXCEPT ![i] = e] \in Seq(S)
         /\ DOMAIN [q EXCEPT ![i] = e] = DOMAIN q
         /\ Len([q EXCEPT ![i] = e]) = Len(q)
         /\ [q EXCEPT ![i] = e] # <<>>
  OBVIOUS

\* What is left of a sequence without its i-th element.
LEMMA RemoveAtFacts ==
  ASSUME NEW S, NEW q \in Seq(S), NEW i \in DOMAIN q
  PROVE  /\ RemoveAt(q, i) \in Seq(S)
         /\ Len(RemoveAt(q, i)) = Len(q) - 1
         /\ \A j \in DOMAIN RemoveAt(q, i) :
              RemoveAt(q, i)[j] = IF j < i THEN q[j] ELSE q[j + 1]
<1> DEFINE a == SubSeq(q, 1, i - 1)
           b == SubSeq(q, i + 1, Len(q))
<1>1. /\ Len(q) \in Nat /\ i \in 1 .. Len(q)
      /\ \A j \in 1 .. Len(q) : q[j] \in S
  OBVIOUS
<1>2. /\ a \in Seq(S) /\ Len(a) = i - 1
      /\ \A j \in 1 .. i - 1 : a[j] = q[j]
  BY <1>1, SubSeqProperties
<1>3. /\ b \in Seq(S) /\ Len(b) = Len(q) - i
      /\ \A j \in 1 .. Len(q) - i : b[j] = q[j + i]
  BY <1>1, SubSeqProperties
<1> HIDE DEF a, b
<1>4. /\ a \o b \in Seq(S)
      /\ Len(a \o b) = Len(q) - 1
      /\ \A j \in 1 .. Len(q) - 1 : (a \o b)[j] = IF j < i THEN q[j] ELSE q[j + 1]
  <2>1. /\ a \o b \in Seq(S)
        /\ Len(a \o b) = Len(a) + Len(b)
        /\ \A j \in 1 .. Len(a) + Len(b) :
             (a \o b)[j] = IF j <= Len(a) THEN a[j] ELSE b[j - Len(a)]
    BY <1>2, <1>3, ConcatProperties
  <2>2. Len(a) = i - 1 /\ Len(b) = Len(q) - i /\ i - 1 + (Len(q) - i) = Len(q) - 1
    BY <1>1, <1>2, <1>3
  <2>3. ASSUME NEW j \in 1 .. Len(q) - 1
        PROVE  (a \o b)[j] = IF j < i THEN q[j] ELSE q[j + 1]
    <3>1. (a \o b)[j] = IF j <= i - 1 THEN a[j] ELSE b[j - (i - 1)]
      BY <2>1, <2>2
    <3>2. CASE j < i
      BY <3>1, <3>2, <1>1, <1>2
    <3>3. CASE ~(j < i)
      <4>1. j - (i - 1) \in 1 .. Len(q) - i /\ j - (i - 1) + i = j + 1
        BY <3>3, <1>1
      <4>2. b[j - (i - 1)] = q[j + 1]
        BY <4>1, <1>3
      <4>3. QED
        BY <3>1, <3>3, <4>2, <1>1
    <3>4. QED
      BY <3>2, <3>3
  <2>4. QED
    BY <2>1, <2>2, <2>3
<1>5. RemoveAt(q, i) = a \o b
  BY DEF RemoveAt, a, b
<1>6. QED
  BY <1>4, <1>5

\* The instruction a subroutine has come to, with its operands.
LEMMA InstrTypes ==
  ASSUME SubTypes, NEW s \in DOMAIN subs, subs[s].pc \in DOMAIN Body(s)
  PROVE  /\ Instr(s) \in Instructions
         /\ Sizes \subseteq Pos
         /\ Instr(s).op = "array" => Instr(s).addr \in Addrs /\ Instr(s).len \in Sizes
         /\ Instr(s).op \in {"store", "undef", "wait_single"} =>
              Instr(s).addr \in Addrs /\ Instr(s).idx \in Pos
         /\ Instr(s).op = "store" => Instr(s).val \in Nat
         /\ Instr(s).op \in {"wait_all", "wait_any", "ret_arr"} => Instr(s).addr \in Addrs
         /\ Instr(s).op \in {"qalloc", "qfree"} => Instr(s).vaddr \in Nat
         /\ Instr(s).op = "create_epr" =>
              /\ Instr(s).key \in Keys
              /\ Instr(s).type \in {"K", "M"}
              /\ Instr(s).num \in Sizes /\ Instr(s).num \in Pos
         /\ Instr(s).op = "recv_epr" => Instr(s).key \in Keys
         /\ Instr(s).op \in {"create_epr", "recv_epr"} =>
              Instr(s).qarr \in Addrs \cup {None} /\ Instr(s).res \in Addrs
<1>1. subs[s] \in Subroutines
  BY SeqFacts DEF SubTypes
<1>2. Programs[subs[s].prog] \in Seq(Instructions)
  BY <1>1, ConstantsAssumption DEF Subroutines
<1>3. Instr(s) \in Instructions
  BY <1>2, SeqFacts DEF Instr, Body
<1>4. QED
  BY <1>3, ConstantsAssumption DEF Instructions

-----------------------------------------------------------------------------
(* Type correctness.                                                       *)

\* Changing a dictionary at a key.
LEMMA DictFacts ==
  ASSUME NEW K, NEW V, NEW d, Dict(d, K, V), NEW k \in K
  PROVE  /\ \A v \in V : Dict(Put(d, k, v), K, V)
         /\ Dict(Drop(d, k), K, V)
         /\ \A v \in V : Dict([d EXCEPT ![k] = v], K, V)
  BY DEF Dict, Put, Drop

\* The empty dictionary.
LEMMA EmptyDict == \A K, V : Dict(<<>>, K, V)
  BY DEF Dict

\* The empty sequence.
LEMMA NoElements == DOMAIN <<>> = {} /\ \A S : <<>> \in Seq(S)
  OBVIOUS

\* The tables are empty in the beginning.
LEMMA InitTypes == Init => TypeOK
<1> SUFFICES ASSUME Init PROVE TypeOK
  OBVIOUS
<1>1. AppTypes
  BY EmptyDict DEF Init, AppTypes
<1>2. SubTypes
  BY DEF Init, SubTypes
<1>3. ReqTypes
  BY NoElements DEF Init, ReqTypes
<1>4. EprTypes
  BY NoElements DEF Init, EprTypes
<1>5. NetTypes
  <2>1. ASSUME NEW ch \in Channels
        PROVE  net[ch] \in Seq(Requests)
    <3>1. CASE ch[1] = "create"
      BY <3>1 DEF Init
    <3>2. CASE ch[1] # "create"
      <4> DEFINE plan == RemotePlan[ch[2]]
      <4>1. plan \in Seq([type : {"K", "M"}, num : Sizes]) /\ Sizes \subseteq Pos
        BY ConstantsAssumption DEF Channels
      <4>2. net[ch] = [i \in DOMAIN plan |-> [id |-> i, type |-> plan[i].type,
                                              num |-> plan[i].num, done |-> 0]]
        BY <3>2 DEF Init
      <4> HIDE DEF plan
      <4>3. DOMAIN plan = 1 .. Len(plan) /\ Len(plan) \in Nat
        BY <4>1, SeqFacts
      <4>4. \A i \in DOMAIN plan : [id |-> i, type |-> plan[i].type, num |-> plan[i].num,
                                    done |-> 0] \in Requests
        <5> SUFFICES ASSUME NEW i \in DOMAIN plan
                     PROVE  [id |-> i, type |-> plan[i].type, num |-> plan[i].num,
                             done |-> 0] \in Requests
          OBVIOUS
        <5>1. plan[i] \in [type : {"K", "M"}, num : Sizes]
          BY <4>1, SeqFacts
        <5>2. i \in Pos
          BY <4>3 DEF Pos
        <5>3. QED
          BY <4>1, <5>1, <5>2 DEF Requests
      <4>5. net[ch] \in [1 .. Len(plan) -> Requests]
        BY <4>2, <4>3, <4>4
      <4>6. QED
        BY <4>3, <4>5, SeqDef
    <3>3. QED
      BY <3>1, <3>2
  <2>2. QED
    BY <2>1 DEF Init, NetTypes
<1>6. QED
  BY <1>1, <1>2, <1>3, <1>4, <1>5 DEF TypeOK

\* A step of stop_application leaves the tables of the applications in shape.
LEMMA ReleaseTypes ==
  ASSUME AppTypes, NEW a \in AppIds, NEW m \in Modules, ReleaseFrom(a, m),
         modules' = modules \/ modules' = Drop(modules, a),
         UNCHANGED memories
  PROVE  AppTypes'
<1>1. Dict(modules', AppIds, Modules)
  BY DictFacts DEF AppTypes
<1>2. Dict(clearing', AppIds, Modules)
  <2>1. \A v \in VAddrs : [m EXCEPT ![v] = None] \in Modules
    BY DEF Modules
  <2>2. \/ clearing' = Drop(clearing, a)
        \/ \E v \in VAddrs : clearing' = Put(clearing, a, [m EXCEPT ![v] = None])
    BY DEF ReleaseFrom
  <2>3. Dict(clearing, AppIds, Modules)
    BY DEF AppTypes
  <2>4. CASE clearing' = Drop(clearing, a)
    BY <2>3, <2>4, DictFacts
  <2>5. ASSUME NEW v \in VAddrs, clearing' = Put(clearing, a, [m EXCEPT ![v] = None])
        PROVE  Dict(clearing', AppIds, Modules)
    <3>1. \A x \in Modules : Dict(Put(clearing, a, x), AppIds, Modules)
      BY <2>3, DictFacts
    <3>2. QED
      BY <2>1, <2>5, <3>1
  <2>6. QED
    BY <2>2, <2>4, <2>5
<1>3. Dict(shared', AppIds, SUBSET Addrs)
  <2>1. shared' = Drop(shared, a) \/ shared' = shared
    BY DEF ReleaseFrom
  <2>2. Dict(shared, AppIds, SUBSET Addrs)
    BY DEF AppTypes
  <2>3. QED
    BY <2>1, <2>2, DictFacts
<1>4. /\ DOMAIN arrays' \subseteq AppIds
      /\ \A b \in DOMAIN arrays' : Dict(arrays'[b], Addrs, Arrays)
  BY DEF AppTypes, ReleaseFrom, Drop
<1>5. used' \subseteq Phys
  BY DEF AppTypes, ReleaseFrom
<1>6. QED
  BY <1>1, <1>2, <1>3, <1>4, <1>5 DEF AppTypes

\* Registering and stopping an application.
LEMMA ApplicationTypes ==
  ASSUME TypeOK, NEW a \in AppIds,
         InitApplication(a) \/ StopApplication(a) \/ ResumeStop(a)
  PROVE  TypeOK'
<1>1. AppTypes'
  <2>1. CASE InitApplication(a)
    <3>1. Unallocated \in Modules
      BY DEF Unallocated, Modules
    <3>2. Dict(modules', AppIds, Modules)
      BY <2>1, <3>1, DictFacts DEF TypeOK, AppTypes, InitApplication
    <3>3. Dict(shared', AppIds, SUBSET Addrs)
      BY <2>1, DictFacts DEF TypeOK, AppTypes, InitApplication
    <3>4. /\ DOMAIN arrays' \subseteq AppIds
          /\ \A b \in DOMAIN arrays' : Dict(arrays'[b], Addrs, Arrays)
      BY <2>1, EmptyDict DEF TypeOK, AppTypes, InitApplication, Put
    <3>5. QED
      BY <2>1, <3>2, <3>3, <3>4 DEF TypeOK, AppTypes, InitApplication
  <2>2. CASE StopApplication(a)
    <3>1. modules[a] \in Modules
      BY <2>2 DEF TypeOK, AppTypes, StopApplication, Dict
    <3>2. QED
      BY <2>2, <3>1, ReleaseTypes DEF TypeOK, StopApplication
  <2>3. CASE ResumeStop(a)
    <3>1. clearing[a] \in Modules
      BY <2>3 DEF TypeOK, AppTypes, ResumeStop, Dict
    <3>2. QED
      BY <2>3, <3>1, ReleaseTypes DEF TypeOK, ResumeStop
  <2>4. QED
    BY <2>1, <2>2, <2>3
<1>2. UNCHANGED <<subs, eprVars, netVars>>
  BY DEF InitApplication, StopApplication, ResumeStop
<1>3. SubTypes' /\ ReqTypes' /\ EprTypes' /\ NetTypes'
  BY <1>2 DEF TypeOK, SubTypes, ReqTypes, EprTypes, NetTypes, eprVars, netVars
<1>4. QED
  BY <1>1, <1>3 DEF TypeOK

\* A subroutine goes on, or ends.
LEMMA SubroutineTypes ==
  ASSUME SubTypes, NEW s \in DOMAIN subs,
         Advance(s) \/ Fail(s) \/ subs' = [subs EXCEPT ![s].st = "cleared"]
  PROVE  SubTypes' /\ DOMAIN subs' = DOMAIN subs
<1>1. subs[s] \in Subroutines
  BY SeqFacts DEF SubTypes
<1>2. PICK r \in Subroutines : subs' = [subs EXCEPT ![s] = r]
  <2>1. CASE Advance(s)
    <3>1. subs[s].pc + 1 \in Pos
      BY <1>1 DEF Subroutines, Pos
    <3>2. [subs[s] EXCEPT !.pc = @ + 1] \in Subroutines
      BY <1>1, <3>1 DEF Subroutines
    <3>3. QED
      BY <2>1, <3>2 DEF Advance
  <2>2. CASE Fail(s)
    <3>1. [subs[s] EXCEPT !.st = "failed"] \in Subroutines
      BY <1>1 DEF Subroutines
    <3>2. QED
      BY <2>2, <3>1 DEF Fail
  <2>3. CASE subs' = [subs EXCEPT ![s].st = "cleared"]
    <3>1. [subs[s] EXCEPT !.st = "cleared"] \in Subroutines
      BY <1>1 DEF Subroutines
    <3>2. QED
      BY <2>3, <3>1
  <2>4. QED
    BY <2>1, <2>2, <2>3
<1>3. QED
  BY <1>2, SeqExcept DEF SubTypes

\* The requests stay as they are, and no subroutine disappears.
LEMMA RequestsStay ==
  ASSUME ReqTypes, UNCHANGED reqs, DOMAIN subs \subseteq DOMAIN subs'
  PROVE  ReqTypes'
  BY DEF ReqTypes

\* A subroutine starts.
LEMMA StartTypes ==
  ASSUME TypeOK, NEW a \in AppIds, StartSubroutine(a)
  PROVE  TypeOK'
<1>1. PICK p \in DOMAIN Programs :
        subs' = Append(subs, [app |-> a, prog |-> p, pc |-> 1, st |-> "running"])
  BY DEF StartSubroutine
<1>2. [app |-> a, prog |-> p, pc |-> 1, st |-> "running"] \in Subroutines
  BY DEF Subroutines, Pos
<1>3. SubTypes' /\ DOMAIN subs \subseteq DOMAIN subs'
  <2>1. subs' \in Seq(Subroutines) /\ Len(subs') = Len(subs) + 1
    BY <1>1, <1>2, AppendProperties DEF TypeOK, SubTypes
  <2>2. QED
    BY <2>1, SeqFacts DEF TypeOK, SubTypes
<1>4. UNCHANGED <<appVars, used, eprVars, netVars>>
  BY DEF StartSubroutine
<1>5. ReqTypes'
  BY <1>3, <1>4, RequestsStay DEF TypeOK, eprVars
<1>6. AppTypes' /\ EprTypes' /\ NetTypes'
  BY <1>4 DEF TypeOK, AppTypes, EprTypes, NetTypes, appVars, eprVars, netVars
<1>7. QED
  BY <1>3, <1>5, <1>6 DEF TypeOK

\* Writing an entry of an array.
LEMMA SetEntry ==
  ASSUME AppTypes, NEW a, NEW x, NEW i, NEW v \in Values, HasEntry(a, x, i),
         arrays' = [arrays EXCEPT ![a][x][i] = v]
  PROVE  /\ DOMAIN arrays' \subseteq AppIds
         /\ \A b \in DOMAIN arrays' : Dict(arrays'[b], Addrs, Arrays)
<1>1. /\ a \in DOMAIN arrays /\ x \in DOMAIN arrays[a] /\ i \in DOMAIN arrays[a][x]
      /\ Dict(arrays[a], Addrs, Arrays)
  BY DEF HasEntry, HasArray, AppTypes
<1>2. x \in Addrs /\ arrays[a][x] \in Seq(Values) /\ Len(arrays[a][x]) \in Sizes
  BY <1>1 DEF Dict, Arrays
<1>3. [arrays[a][x] EXCEPT ![i] = v] \in Arrays
  BY <1>1, <1>2, SeqExcept DEF Arrays
<1>4. Dict([arrays[a] EXCEPT ![x] = [arrays[a][x] EXCEPT ![i] = v]], Addrs, Arrays)
  BY <1>1, <1>2, <1>3, DictFacts
<1>5. arrays' = [arrays EXCEPT ![a] = [arrays[a] EXCEPT ![x] = [arrays[a][x] EXCEPT ![i] = v]]]
  OBVIOUS
<1>6. QED
  BY <1>1, <1>4, <1>5 DEF AppTypes

\* The array instructions.
LEMMA ArrayTypes ==
  ASSUME TypeOK, NEW s \in DOMAIN subs, ArrayInstr(s) \/ EntryInstr(s) \/ RetArr(s)
  PROVE  AppTypes'
<1> USE DEF TypeOK
<1>1. CASE ArrayInstr(s)
  <2> DEFINE a == App(s)
             new == [i \in 1 .. Instr(s).len |-> None]
  <2>1. Instr(s).addr \in Addrs /\ Instr(s).len \in Sizes /\ Sizes \subseteq Pos
    BY <1>1, InstrTypes DEF ArrayInstr, AtInstr
  <2>2. new \in Arrays
    <3>1. Instr(s).len \in Nat
      BY <2>1 DEF Pos
    <3>2. new \in Seq(Values) /\ Len(new) = Instr(s).len
      BY <3>1 DEF Values
    <3>3. QED
      BY <2>1, <3>2 DEF Arrays
  <2>3. CASE UNCHANGED arrays
    BY <1>1, <2>3 DEF ArrayInstr, AppTypes
  <2>4. CASE a \in DOMAIN arrays /\ arrays' = [arrays EXCEPT ![a] = Put(arrays[a], Instr(s).addr, new)]
    <3>1. Dict(arrays[a], Addrs, Arrays)
      BY <2>4 DEF AppTypes
    <3>2. Dict(Put(arrays[a], Instr(s).addr, new), Addrs, Arrays)
      BY <2>1, <2>2, <3>1, DictFacts
    <3> HIDE DEF a, new
    <3>3. QED
      BY <1>1, <2>4, <3>2 DEF ArrayInstr, AppTypes
  <2>5. QED
    BY <1>1, <2>3, <2>4 DEF ArrayInstr
<1>2. CASE EntryInstr(s)
  <2>1. CASE UNCHANGED arrays
    BY <1>2, <2>1 DEF EntryInstr, AppTypes
  <2>2. CASE /\ HasEntry(App(s), Instr(s).addr, Instr(s).idx)
             /\ arrays' = [arrays EXCEPT ![App(s)][Instr(s).addr][Instr(s).idx] =
                             IF Instr(s).op = "store" THEN Instr(s).val ELSE None]
    <3>1. Instr(s).op = "store" => Instr(s).val \in Nat
      BY <1>2, InstrTypes DEF EntryInstr, AtInstr
    <3>2. (IF Instr(s).op = "store" THEN Instr(s).val ELSE None) \in Values
      BY <3>1 DEF Values
    <3>3. /\ DOMAIN arrays' \subseteq AppIds
          /\ \A b \in DOMAIN arrays' : Dict(arrays'[b], Addrs, Arrays)
      BY <2>2, <3>2, SetEntry
    <3>4. QED
      BY <1>2, <3>3 DEF EntryInstr, AppTypes
  <2>3. QED
    BY <1>2, <2>1, <2>2 DEF EntryInstr
<1>3. CASE RetArr(s)
  <2>1. Instr(s).addr \in Addrs
    BY <1>3, InstrTypes DEF RetArr, AtInstr
  <2>2. Dict(shared', AppIds, SUBSET Addrs)
    <3>1. CASE UNCHANGED shared
      BY <3>1 DEF AppTypes
    <3>2. CASE App(s) \in DOMAIN shared /\ shared' = [shared EXCEPT ![App(s)] = @ \cup {Instr(s).addr}]
      BY <2>1, <3>2 DEF AppTypes, Dict
    <3>3. QED
      BY <1>3, <3>1, <3>2 DEF RetArr
  <2>3. QED
    BY <1>3, <2>2 DEF RetArr, AppTypes
<1>4. QED
  BY <1>1, <1>2, <1>3

\* Allocating and freeing a qubit.
LEMMA QubitTypes ==
  ASSUME TypeOK, NEW s \in DOMAIN subs, QAlloc(s) \/ QFree(s)
  PROVE  AppTypes'
<1>1. Dict(modules', AppIds, Modules)
  <2>1. \/ UNCHANGED modules
        \/ \E p \in Phys \cup {None} :
             /\ App(s) \in DOMAIN modules
             /\ Instr(s).vaddr \in VAddrs
             /\ modules' = [modules EXCEPT ![App(s)][Instr(s).vaddr] = p]
    BY DEF QAlloc, QFree, Addressable
  <2>2. QED
    BY <2>1 DEF TypeOK, AppTypes, Dict, Modules
<1>2. used' \subseteq Phys
  BY DEF QAlloc, QFree, TypeOK, AppTypes
<1>3. UNCHANGED <<arrays, shared, memories, clearing>>
  BY DEF QAlloc, QFree
<1>4. QED
  BY <1>1, <1>2, <1>3 DEF TypeOK, AppTypes

\* A request is added to a channel.
LEMMA EnqueueTypes ==
  ASSUME TypeOK, NEW s \in DOMAIN subs, NEW ch \in Channels, NEW n \in Pos,
         Enqueue(s, ch, n), DOMAIN subs' = DOMAIN subs,
         Instr(s).qarr \in Addrs \cup {None}, Instr(s).res \in Addrs
  PROVE  ReqTypes' /\ issued' \in [Channels -> Nat]
<1> DEFINE c == [sub |-> s, id |-> issued[ch] + 1, qarr |-> Instr(s).qarr,
                 res |-> Instr(s).res, tot |-> n, left |-> n]
<1>1. s \in Pos /\ issued[ch] + 1 \in Pos
  BY SeqFacts DEF TypeOK, SubTypes, NetTypes, Pos
<1>2. c \in Commands
  BY <1>1 DEF Commands
<1>3. reqs[ch] \in Seq(Commands) /\ reqs' = [reqs EXCEPT ![ch] = Append(reqs[ch], c)]
  BY DEF TypeOK, ReqTypes, Enqueue
<1>4. c.sub \in DOMAIN subs /\ c.left <= c.tot
  BY DEF Pos
<1> HIDE DEF c
<1>5. /\ Append(reqs[ch], c) \in Seq(Commands)
      /\ Len(Append(reqs[ch], c)) = Len(reqs[ch]) + 1
      /\ \A i \in 1 .. Len(reqs[ch]) : Append(reqs[ch], c)[i] = reqs[ch][i]
      /\ Append(reqs[ch], c)[Len(reqs[ch]) + 1] = c
  BY <1>2, <1>3, AppendProperties
<1>6. DOMAIN reqs[ch] = 1 .. Len(reqs[ch]) /\ Len(reqs[ch]) \in Nat
  BY <1>3, SeqFacts
<1>7. DOMAIN Append(reqs[ch], c) = 1 .. Len(reqs[ch]) + 1
  BY <1>5, SeqFacts
<1>8. \A i \in DOMAIN Append(reqs[ch], c) :
        /\ Append(reqs[ch], c)[i].sub \in DOMAIN subs
        /\ Append(reqs[ch], c)[i].left <= Append(reqs[ch], c)[i].tot
  <2> TAKE i \in DOMAIN Append(reqs[ch], c)
  <2>1. CASE i = Len(reqs[ch]) + 1
    BY <2>1, <1>4, <1>5
  <2>2. CASE i \in DOMAIN reqs[ch]
    BY <2>2, <1>5, <1>6 DEF TypeOK, ReqTypes
  <2>3. QED
    BY <2>1, <2>2, <1>6, <1>7
<1>9. QED
  BY <1>3, <1>5, <1>8 DEF TypeOK, ReqTypes, NetTypes, Enqueue

\* The two instructions that ask for pairs.
LEMMA RequestTypes ==
  ASSUME TypeOK, NEW s \in DOMAIN subs, CreateEpr(s) \/ RecvEpr(s),
         DOMAIN subs' = DOMAIN subs
  PROVE  ReqTypes' /\ NetTypes'
<1>1. /\ Instr(s).key \in Keys
      /\ Instr(s).qarr \in Addrs \cup {None}
      /\ Instr(s).res \in Addrs
  BY InstrTypes DEF CreateEpr, RecvEpr, AtInstr, TypeOK
<1>2. CASE UNCHANGED <<net, reqs, issued, errors>>
  BY <1>2, RequestsStay DEF TypeOK, NetTypes
<1>3. CASE CreateEpr(s) /\ ~UNCHANGED <<net, reqs, issued, errors>>
  <2> DEFINE ch == <<"create", Instr(s).key>>
             r  == [id |-> issued[ch] + 1, type |-> Instr(s).type, num |-> Instr(s).num,
                    done |-> 0]
  <2>1. Instr(s).num \in Pos /\ Instr(s).type \in {"K", "M"}
    BY <1>3, InstrTypes DEF CreateEpr, AtInstr, TypeOK
  <2>2. ch \in Channels
    BY <1>1 DEF Channels, Roles
  <2>3. /\ net' = [net EXCEPT ![ch] = Append(net[ch], r)]
        /\ Enqueue(s, ch, Instr(s).num)
        /\ UNCHANGED errors
    BY <1>3 DEF CreateEpr
  <2>4. r \in Requests
    <3>1. issued[ch] \in Nat
      BY <2>2 DEF TypeOK, NetTypes
    <3>2. QED
      BY <2>1, <3>1 DEF Requests, Pos
  <2> HIDE DEF ch, r
  <2>5. ReqTypes' /\ issued' \in [Channels -> Nat]
    BY <1>1, <2>1, <2>2, <2>3, EnqueueTypes
  <2>6. net' \in [Channels -> Seq(Requests)]
    <3>1. Append(net[ch], r) \in Seq(Requests)
      BY <2>2, <2>4, AppendProperties DEF TypeOK, NetTypes
    <3>2. QED
      BY <2>3, <3>1 DEF TypeOK, NetTypes
  <2>7. QED
    BY <2>3, <2>5, <2>6 DEF TypeOK, NetTypes
<1>4. CASE RecvEpr(s) /\ ~UNCHANGED <<net, reqs, issued, errors>>
  <2> DEFINE ch == <<"recv", Instr(s).key>>
             x  == arrays[App(s)][Instr(s).res]
  <2>1. ch \in Channels
    BY <1>1 DEF Channels, Roles
  <2>2. HasArray(App(s), Instr(s).res) /\ Enqueue(s, ch, Len(x)) /\ UNCHANGED <<net, errors>>
    BY <1>4 DEF RecvEpr
  <2>3. Len(x) \in Pos
    <3>1. x \in Arrays
      BY <2>2 DEF HasArray, TypeOK, AppTypes, Dict
    <3>2. QED
      BY <3>1, ConstantsAssumption DEF Arrays
  <2> HIDE DEF ch, x
  <2>4. ReqTypes' /\ issued' \in [Channels -> Nat]
    BY <1>1, <2>1, <2>2, <2>3, EnqueueTypes
  <2>5. QED
    BY <2>2, <2>4 DEF TypeOK, NetTypes
<1>5. QED
  BY <1>2, <1>3, <1>4

\* One step of a subroutine.
LEMMA StepTypes ==
  ASSUME TypeOK, NEW s \in DOMAIN subs, SubroutineStep(s)
  PROVE  TypeOK'
<1>1. SubTypes' /\ DOMAIN subs' = DOMAIN subs
  <2>1. Advance(s) \/ Fail(s) \/ subs' = [subs EXCEPT ![s].st = "cleared"]
    BY DEF SubroutineStep, ArrayInstr, EntryInstr, QAlloc, QFree, CreateEpr, RecvEpr,
           WaitAll, WaitAny, WaitSingle, RetArr, FinishSubroutine
  <2>2. QED
    BY <2>1, SubroutineTypes DEF TypeOK
<1>2. AppTypes'
  <2>1. CASE ArrayInstr(s) \/ EntryInstr(s) \/ RetArr(s)
    BY <2>1, ArrayTypes
  <2>2. CASE QAlloc(s) \/ QFree(s)
    BY <2>2, QubitTypes
  <2>3. CASE UNCHANGED <<appVars, used>>
    BY <2>3 DEF TypeOK, AppTypes, appVars
  <2>4. QED
    BY <2>1, <2>2, <2>3 DEF SubroutineStep, CreateEpr, RecvEpr, WaitAll, WaitAny,
                            WaitSingle, FinishSubroutine
<1>3. ReqTypes' /\ NetTypes'
  <2>1. CASE CreateEpr(s) \/ RecvEpr(s)
    BY <1>1, <2>1, RequestTypes
  <2>2. CASE UNCHANGED <<reqs, netVars>>
    BY <1>1, <2>2, RequestsStay DEF TypeOK, NetTypes, netVars
  <2>3. QED
    BY <2>1, <2>2 DEF SubroutineStep, ArrayInstr, EntryInstr, QAlloc, QFree, WaitAll, WaitAny,
                      WaitSingle, RetArr, FinishSubroutine, eprVars
<1>4. EprTypes'
  <2>1. UNCHANGED <<pending, scanning, raised>>
    BY DEF SubroutineStep, ArrayInstr, EntryInstr, QAlloc, QFree, CreateEpr, RecvEpr,
           WaitAll, WaitAny, WaitSingle, RetArr, FinishSubroutine, eprVars
  <2>2. QED
    BY <2>1 DEF TypeOK, EprTypes
<1>5. QED
  BY <1>1, <1>2, <1>3, <1>4 DEF TypeOK

\* A response is added to the pending ones.
LEMMA ReportTypes ==
  ASSUME EprTypes, NEW r \in Responses, r.type = "K" <=> r.phys # None, Report(r)
  PROVE  EprTypes'
<1>1. /\ pending' \in Seq(Responses)
      /\ Len(pending') = Len(pending) + 1
      /\ \A i \in 1 .. Len(pending) : pending'[i] = pending[i]
      /\ pending'[Len(pending) + 1] = r
  BY AppendProperties DEF EprTypes, Report
<1>2. /\ DOMAIN pending = 1 .. Len(pending) /\ Len(pending) \in Nat
      /\ DOMAIN pending' = 1 .. Len(pending) + 1
  BY <1>1, SeqFacts DEF EprTypes
<1>3. ASSUME NEW i \in DOMAIN pending'
      PROVE  pending'[i].type = "K" <=> pending'[i].phys # None
  <2>1. i = Len(pending) + 1 \/ i \in DOMAIN pending
    BY <1>2
  <2>2. QED
    BY <1>1, <1>2, <2>1 DEF EprTypes
<1>4. QED
  BY <1>1, <1>3 DEF EprTypes, Report

\* The network stack reports a pair or an error.
LEMMA StackTypes ==
  ASSUME TypeOK, NEW ch \in Channels, GeneratePair(ch) \/ ReportError(ch)
  PROVE  TypeOK'
<1> DEFINE r   == Head(net[ch])
           tag == [id |-> r.id, pair |-> r.done + 1]
<1>1. /\ net[ch] \in Seq(Requests) /\ net[ch] # <<>>
      /\ r \in Requests /\ Tail(net[ch]) \in Seq(Requests) /\ 1 \in DOMAIN net[ch]
      /\ r = net[ch][1]
  <2>1. net[ch] \in Seq(Requests) /\ net[ch] # <<>>
    BY DEF TypeOK, NetTypes, GeneratePair, ReportError
  <2>2. QED
    BY <2>1, SeqFacts
<1>2. r.id \in Pos /\ r.done + 1 \in Pos /\ r.type \in {"K", "M"} /\ r.done \in Nat
  BY <1>1 DEF Requests, Pos
<1>3. tag \in Tags
  BY <1>2 DEF Tags
<1>4. [net[ch] EXCEPT ![1].done = @ + 1] \in Seq(Requests)
  <2>1. [r EXCEPT !.done = @ + 1] \in Requests
    BY <1>1, <1>2 DEF Requests
  <2>2. [net[ch] EXCEPT ![1].done = @ + 1] = [net[ch] EXCEPT ![1] = [r EXCEPT !.done = @ + 1]]
    BY <1>1
  <2>3. QED
    BY <1>1, <2>1, <2>2, SeqExcept
<1> HIDE DEF r
<1>5. NetTypes'
  <2>1. CASE GeneratePair(ch)
    <3>1. net' = [net EXCEPT ![ch] = Tail(net[ch])]
          \/ net' = [net EXCEPT ![ch] = [net[ch] EXCEPT ![1].done = @ + 1]]
      BY <2>1 DEF GeneratePair
    <3>2. UNCHANGED <<issued, errors>>
      BY <2>1 DEF GeneratePair, Report
    <3>3. QED
      BY <1>1, <1>4, <3>1, <3>2 DEF TypeOK, NetTypes
  <2>2. CASE ReportError(ch)
    BY <1>1, <2>2 DEF TypeOK, NetTypes, ReportError, Report
  <2>3. QED
    BY <2>1, <2>2
<1>6. EprTypes' /\ used' \subseteq Phys /\ UNCHANGED <<appVars, subs, reqs>>
  <2>1. CASE GeneratePair(ch) /\ r.type = "M"
    <3>1. Report([type |-> "M", ch |-> ch, tag |-> tag, phys |-> None]) /\ UNCHANGED used
      BY <2>1 DEF GeneratePair, r
    <3>2. [type |-> "M", ch |-> ch, tag |-> tag, phys |-> None] \in Responses
      BY <1>3 DEF Responses
    <3>3. EprTypes'
      BY <3>1, <3>2, ReportTypes DEF TypeOK
    <3>4. QED
      BY <3>1, <3>3 DEF TypeOK, AppTypes, Report
  <2>2. CASE GeneratePair(ch) /\ r.type = "K"
    <3>1. PICK p \in Phys : /\ Report([type |-> "K", ch |-> ch, tag |-> tag, phys |-> p])
                            /\ used' = used \cup {p}
      BY <2>2 DEF GeneratePair, r
    <3>2. [type |-> "K", ch |-> ch, tag |-> tag, phys |-> p] \in Responses
      BY <1>3 DEF Responses
    <3>3. p # None
      BY ConstantsAssumption
    <3>4. EprTypes'
      BY <3>1, <3>2, <3>3, ReportTypes DEF TypeOK
    <3>5. QED
      BY <3>1, <3>4 DEF TypeOK, AppTypes, Report
  <2>3. CASE ReportError(ch)
    <3>1. Report([type |-> "ERR", ch |-> ch, phys |-> None, tag |-> tag]) /\ UNCHANGED used
      BY <2>3 DEF ReportError, r
    <3>2. [type |-> "ERR", ch |-> ch, phys |-> None, tag |-> tag] \in Responses
      BY <1>3 DEF Responses
    <3>3. EprTypes'
      BY <3>1, <3>2, ReportTypes DEF TypeOK
    <3>4. QED
      BY <3>1, <3>3 DEF TypeOK, AppTypes, Report
  <2>4. QED
    BY <1>2, <2>1, <2>2, <2>3
<1>7. AppTypes' /\ SubTypes' /\ ReqTypes'
  BY <1>6 DEF TypeOK, AppTypes, SubTypes, ReqTypes, appVars
<1>8. QED
  BY <1>5, <1>6, <1>7 DEF TypeOK

\* What is known of a response that is ready, and of the request it is credited to.
LEMMA ReadyTypes ==
  ASSUME TypeOK, NEW i \in Ready
  PROVE  /\ i \in DOMAIN pending
         /\ pending[i] \in Responses
         /\ pending[i].ch \in Channels
         /\ pending[i].type = "K" <=> pending[i].phys # None
         /\ pending[i].type # "ERR" =>
              /\ reqs[pending[i].ch] \in Seq(Commands)
              /\ reqs[pending[i].ch] # <<>>
              /\ 1 \in DOMAIN reqs[pending[i].ch]
              /\ Request(pending[i]) = reqs[pending[i].ch][1]
              /\ Request(pending[i]) \in Commands
              /\ Request(pending[i]).sub \in DOMAIN subs
              /\ Request(pending[i]).left <= Request(pending[i]).tot
<1>1. i \in DOMAIN pending /\ ~MustWait(pending[i])
  BY DEF Ready
<1>2. pending[i] \in Responses
  BY <1>1, SeqFacts DEF TypeOK, EprTypes
<1>3. pending[i].ch \in Channels /\ (pending[i].type = "K" <=> pending[i].phys # None)
  BY <1>1, <1>2 DEF TypeOK, EprTypes, Responses
<1>4. ASSUME pending[i].type # "ERR"
      PROVE  /\ reqs[pending[i].ch] \in Seq(Commands)
             /\ reqs[pending[i].ch] # <<>>
             /\ 1 \in DOMAIN reqs[pending[i].ch]
             /\ Request(pending[i]) = reqs[pending[i].ch][1]
             /\ Request(pending[i]) \in Commands
  <2>1. reqs[pending[i].ch] \in Seq(Commands) /\ reqs[pending[i].ch] # <<>>
    BY <1>1, <1>3, <1>4 DEF TypeOK, ReqTypes, MustWait
  <2>2. QED
    BY <2>1, SeqFacts DEF Request
<1>5. QED
  BY <1>1, <1>2, <1>3, <1>4 DEF TypeOK, ReqTypes

\* The oldest request of a channel is counted down.
LEMMA CountPairTypes ==
  ASSUME TypeOK, NEW ch \in Channels, reqs[ch] # <<>>, CountPair(ch), UNCHANGED subs
  PROVE  ReqTypes'
<1> DEFINE c == Head(reqs[ch])
<1>1. /\ reqs[ch] \in Seq(Commands)
      /\ c \in Commands /\ c = reqs[ch][1] /\ 1 \in DOMAIN reqs[ch]
      /\ c.sub \in DOMAIN subs /\ c.left <= c.tot
  <2>1. reqs[ch] \in Seq(Commands)
    BY DEF TypeOK, ReqTypes
  <2>2. QED
    BY <2>1, SeqFacts DEF TypeOK, ReqTypes
<1> HIDE DEF c
<1>2. CASE reqs' = [reqs EXCEPT ![ch] = Tail(reqs[ch])]
  <2>1. /\ Tail(reqs[ch]) \in Seq(Commands)
        /\ \A i \in DOMAIN Tail(reqs[ch]) :
             i + 1 \in DOMAIN reqs[ch] /\ Tail(reqs[ch])[i] = reqs[ch][i + 1]
    <3>1. /\ Tail(reqs[ch]) \in Seq(Commands)
          /\ Len(Tail(reqs[ch])) = Len(reqs[ch]) - 1
          /\ \A i \in DOMAIN Tail(reqs[ch]) : Tail(reqs[ch])[i] = reqs[ch][i + 1]
          /\ Len(reqs[ch]) \in Nat /\ DOMAIN reqs[ch] = 1 .. Len(reqs[ch])
      BY <1>1, SeqFacts
    <3>2. DOMAIN Tail(reqs[ch]) = 1 .. Len(reqs[ch]) - 1
      BY <3>1, SeqFacts
    <3>3. QED
      BY <3>1, <3>2
  <2>2. QED
    BY <1>2, <2>1 DEF TypeOK, ReqTypes
<1>3. CASE /\ c.left # 1
           /\ reqs' = [reqs EXCEPT ![ch] =
                         [reqs[ch] EXCEPT ![1] = [c EXCEPT !.left = c.left - 1]]]
  <2> DEFINE d == [c EXCEPT !.left = c.left - 1]
  <2>1. d \in Commands /\ d.sub \in DOMAIN subs /\ d.left <= d.tot
    <3>1. c.left - 1 \in Pos /\ c.left - 1 <= c.tot
      BY <1>1, <1>3 DEF Commands, Pos
    <3>2. d.sub = c.sub /\ d.left = c.left - 1 /\ d.tot = c.tot
      BY <1>1 DEF Commands
    <3>3. d \in Commands
      BY <1>1, <3>1 DEF Commands
    <3>4. QED
      BY <1>1, <3>1, <3>2, <3>3
  <2>2. reqs' = [reqs EXCEPT ![ch] = [reqs[ch] EXCEPT ![1] = d]]
    BY <1>3
  <2> HIDE DEF d
  <2>3. /\ [reqs[ch] EXCEPT ![1] = d] \in Seq(Commands)
        /\ DOMAIN [reqs[ch] EXCEPT ![1] = d] = DOMAIN reqs[ch]
    BY <1>1, <2>1, SeqExcept
  <2>4. \A i \in DOMAIN reqs[ch] :
          [reqs[ch] EXCEPT ![1] = d][i] = IF i = 1 THEN d ELSE reqs[ch][i]
    BY <1>1
  <2>5. QED
    BY <2>1, <2>2, <2>3, <2>4 DEF TypeOK, ReqTypes
<1>4. QED
  BY <1>2, <1>3 DEF CountPair, c

\* A response is handled.
LEMMA HandleTypes ==
  ASSUME TypeOK, NEW i \in Ready, ScanHandle(i)
  PROVE  TypeOK'
<1> DEFINE r == pending[i]
           c == Request(r)
<1>1. /\ i \in DOMAIN pending /\ r \in Responses /\ r.ch \in Channels
      /\ r.type = "K" <=> r.phys # None
      /\ reqs[r.ch] # <<>> /\ c \in Commands /\ c.sub \in DOMAIN subs
  BY ReadyTypes DEF ScanHandle
<1> HIDE DEF r, c
<1>2. /\ MapQubit(r, c) /\ CountPair(r.ch)
      /\ UNCHANGED <<shared, memories, clearing, subs, netVars>>
  BY DEF ScanHandle, r, c
<1>3. ReqTypes'
  BY <1>1, <1>2, CountPairTypes
<1>4. Dict(modules', AppIds, Modules) /\ used' \subseteq Phys
  <2>1. CASE UNCHANGED <<modules, used>>
    BY <2>1 DEF TypeOK, AppTypes
  <2>2. CASE /\ r.type = "K"
             /\ Owner(c) \in DOMAIN modules
             /\ Target(c) \in VAddrs
             /\ modules' = [modules EXCEPT ![Owner(c)][Target(c)] = r.phys]
             /\ used' = used \cup {r.phys}
    <3>1. r.phys \in Phys
      BY <1>1, <2>2 DEF Responses
    <3>2. QED
      BY <2>2, <3>1 DEF TypeOK, AppTypes, Dict, Modules
  <2>3. QED
    BY <1>2, <2>1, <2>2 DEF MapQubit
<1>5. /\ DOMAIN arrays' \subseteq AppIds
      /\ \A b \in DOMAIN arrays' : Dict(arrays'[b], Addrs, Arrays)
  <2>1. CASE UNCHANGED arrays
    BY <2>1 DEF TypeOK, AppTypes
  <2>2. CASE HasRoom(c) /\ arrays' = [arrays EXCEPT ![Owner(c)][c.res][PairIndex(c)] = r.tag.id]
    <3>1. r.tag.id \in Values
      BY <1>1 DEF Responses, Tags, Values, Pos
    <3>2. HasEntry(Owner(c), c.res, PairIndex(c))
      BY <2>2 DEF HasRoom
    <3>3. QED
      BY <2>2, <3>1, <3>2, SetEntry DEF TypeOK
  <2>3. QED
    BY <2>1, <2>2 DEF ScanHandle, r, c
<1>6. EprTypes'
  <2>1. CASE /\ pending' = RemoveAt(pending, i)
             /\ UNCHANGED <<scanning, raised>>
    <3>1. /\ pending' \in Seq(Responses)
          /\ Len(pending') = Len(pending) - 1
          /\ \A j \in DOMAIN pending' :
               pending'[j] = IF j < i THEN pending[j] ELSE pending[j + 1]
      BY <1>1, <2>1, RemoveAtFacts DEF TypeOK, EprTypes
    <3>2. /\ DOMAIN pending = 1 .. Len(pending) /\ Len(pending) \in Nat
          /\ DOMAIN pending' = 1 .. Len(pending')
      BY <3>1, SeqFacts DEF TypeOK, EprTypes
    <3>3. \A j \in DOMAIN pending' : j \in DOMAIN pending /\ j + 1 \in DOMAIN pending
      BY <3>1, <3>2
    <3>4. \A j \in DOMAIN pending' : pending'[j].type = "K" <=> pending'[j].phys # None
      BY <3>1, <3>3 DEF TypeOK, EprTypes
    <3>5. QED
      BY <2>1, <3>1, <3>4 DEF TypeOK, EprTypes
  <2>2. CASE Raise("late")
    BY <2>2 DEF TypeOK, EprTypes, Raise, Failures
  <2>3. QED
    BY <2>1, <2>2 DEF ScanHandle
<1>7. QED
  BY <1>2, <1>3, <1>4, <1>5, <1>6 DEF TypeOK, AppTypes, SubTypes, NetTypes, netVars

\* The scan of the pending responses.
LEMMA ScanTypes ==
  ASSUME TypeOK, Scan \/ Rescan
  PROVE  TypeOK'
<1>1. ASSUME NEW i \in Ready, ScanError(i) \/ ScanNoTarget(i) \/ ScanNoModule(i)
      PROVE  TypeOK'
  <2>1. used' \subseteq Phys
    <3>1. pending[i].type = "K" => pending[i].phys \in Phys
      BY ReadyTypes DEF Responses
    <3>2. QED
      BY <1>1, <3>1 DEF TypeOK, AppTypes, ScanError, ScanNoTarget, ScanNoModule
  <2>2. EprTypes'
    BY <1>1 DEF TypeOK, EprTypes, ScanError, ScanNoTarget, ScanNoModule, Raise, Failures
  <2>3. UNCHANGED <<appVars, subs, reqs, netVars>>
    BY <1>1 DEF ScanError, ScanNoTarget, ScanNoModule
  <2>4. QED
    BY <2>1, <2>2, <2>3
    DEF TypeOK, AppTypes, SubTypes, ReqTypes, NetTypes, appVars, netVars
<1>2. ASSUME NEW i \in Ready, ScanHandle(i)
      PROVE  TypeOK'
  BY <1>2, HandleTypes
<1>3. CASE ScanEnd \/ Rescan
  <2>1. /\ UNCHANGED <<appVars, used, subs, reqs, pending, raised, netVars>>
        /\ scanning' \in BOOLEAN
    BY <1>3 DEF ScanEnd, Rescan
  <2>2. QED
    BY <2>1
    DEF TypeOK, AppTypes, SubTypes, ReqTypes, EprTypes, NetTypes, appVars, netVars
<1>4. QED
  BY <1>1, <1>2, <1>3 DEF Scan

\* Nothing happens.
LEMMA StutterTypes ==
  ASSUME TypeOK, UNCHANGED vars
  PROVE  TypeOK'
BY DEF TypeOK, AppTypes, SubTypes, ReqTypes, EprTypes, NetTypes, vars, appVars, eprVars, netVars

\* Every step keeps the types.
LEMMA NextTypes == TypeOK /\ [Next]_vars => TypeOK'
<1> SUFFICES ASSUME TypeOK, [Next]_vars PROVE TypeOK'
  OBVIOUS
<1>1. ASSUME NEW a \in AppIds,
             InitApplication(a) \/ StopApplication(a) \/ ResumeStop(a) \/ StartSubroutine(a)
      PROVE  TypeOK'
  BY <1>1, ApplicationTypes, StartTypes
<1>2. ASSUME NEW s \in DOMAIN subs, SubroutineStep(s)
      PROVE  TypeOK'
  BY <1>2, StepTypes
<1>3. ASSUME NEW ch \in Channels, GeneratePair(ch) \/ ReportError(ch)
      PROVE  TypeOK'
  BY <1>3, StackTypes
<1>4. CASE Scan \/ Rescan
  BY <1>4, ScanTypes
<1>5. CASE UNCHANGED vars
  BY <1>5, StutterTypes
<1>6. QED
  BY <1>1, <1>2, <1>3, <1>4, <1>5 DEF Next

\* The tables of the executor always have the shape the code gives them: in particular a request
\* in the tables has at least one pair left and belongs to a subroutine that was started.
THEOREM TypeCorrect == Spec => []TypeOK
<1>1. Init => TypeOK
  BY InitTypes
<1>2. TypeOK /\ [Next]_vars => TypeOK'
  BY NextTypes
<1>3. QED
  BY <1>1, <1>2, PTL DEF Spec

-----------------------------------------------------------------------------
(* No physical qubit has two holders.                                      *)

\* The qubits of the unit modules, of the unit modules being cleared and of the reported
\* pairs: within each, and between any two.
ModulesApart ==
  \A a, b \in DOMAIN modules : \A v, w \in VAddrs :
    modules[a][v] # None /\ modules[a][v] = modules[b][w] => a = b /\ v = w
ClearingApart ==
  \A a, b \in DOMAIN clearing : \A v, w \in VAddrs :
    clearing[a][v] # None /\ clearing[a][v] = clearing[b][w] => a = b /\ v = w
ReportedApart ==
  \A i, j \in DOMAIN pending :
    pending[i].phys # None /\ pending[i].phys = pending[j].phys => i = j
ModuleNotClearing ==
  \A a \in DOMAIN modules, b \in DOMAIN clearing : \A v, w \in VAddrs :
    modules[a][v] # None => modules[a][v] # clearing[b][w]
ModuleNotReported ==
  \A a \in DOMAIN modules, i \in DOMAIN pending : \A v \in VAddrs :
    modules[a][v] # None => modules[a][v] # pending[i].phys
ClearingNotReported ==
  \A a \in DOMAIN clearing, i \in DOMAIN pending : \A v \in VAddrs :
    clearing[a][v] # None => clearing[a][v] # pending[i].phys

Apart == /\ ModulesApart /\ ClearingApart /\ ReportedApart
         /\ ModuleNotClearing /\ ModuleNotReported /\ ClearingNotReported

AllInUse ==
  /\ \A a \in DOMAIN modules : \A v \in VAddrs : modules[a][v] \in used \cup {None}
  /\ \A a \in DOMAIN clearing : \A v \in VAddrs : clearing[a][v] \in used \cup {None}
  /\ \A i \in DOMAIN pending : pending[i].phys \in used \cup {None}

\* The inductive invariant.
QubitsApart == "late" \notin raised => Apart /\ AllInUse

\* A unit module, a unit module being cleared or a reported pair has the qubit.
Held(p) ==
  \/ \E a \in DOMAIN modules, v \in VAddrs : modules[a][v] = p
  \/ \E a \in DOMAIN clearing, v \in VAddrs : clearing[a][v] = p
  \/ \E i \in DOMAIN pending : pending[i].phys = p

\* With QubitsApart inductive as well: what is marked as used is held.
QubitsKept == "late" \notin raised => \A p \in used : Held(p)

\* Together they say what QubitsSafe says of the holders of a qubit.
LEMMA ApartIsSafe == TypeOK /\ QubitsApart /\ QubitsKept => QubitsSafe
<1> SUFFICES ASSUME TypeOK, QubitsApart, QubitsKept, "late" \notin raised, NEW p \in Phys
             PROVE  /\ \A g, h \in Holders(p) : g = h
                    /\ Holders(p) # {} <=> p \in used
  BY DEF QubitsSafe
<1> USE DEF QubitsApart
<1>1. p # None
  BY ConstantsAssumption
<1> DEFINE M == {h \in {"mapped"} \X (DOMAIN modules) \X VAddrs : modules[h[2]][h[3]] = p}
           C == {h \in {"clearing"} \X (DOMAIN clearing) \X VAddrs : clearing[h[2]][h[3]] = p}
           R == {h \in {"reported"} \X (DOMAIN pending) \X {0} : pending[h[2]].phys = p}
<1>2. Holders(p) = M \cup C \cup R
  BY DEF Holders
<1>3. \A g, h \in M : g = h
  BY <1>1 DEF Apart, ModulesApart
<1>4. \A g, h \in C : g = h
  BY <1>1 DEF Apart, ClearingApart
<1>5. \A g, h \in R : g = h
  BY <1>1 DEF Apart, ReportedApart
<1>6. \A g \in M, h \in C : FALSE
  BY <1>1 DEF Apart, ModuleNotClearing
<1>7. \A g \in M, h \in R : FALSE
  BY <1>1 DEF Apart, ModuleNotReported
<1>8. \A g \in C, h \in R : FALSE
  BY <1>1 DEF Apart, ClearingNotReported
<1>9. \A g \in M \cup C \cup R : p \in used
  BY <1>1 DEF AllInUse
<1>10. p \in used => M \cup C \cup R # {}
  <2>1. ASSUME NEW a \in DOMAIN modules, NEW v \in VAddrs, modules[a][v] = p
        PROVE  <<"mapped", a, v>> \in M
    BY <2>1
  <2>2. ASSUME NEW a \in DOMAIN clearing, NEW v \in VAddrs, clearing[a][v] = p
        PROVE  <<"clearing", a, v>> \in C
    BY <2>2
  <2>3. ASSUME NEW i \in DOMAIN pending, pending[i].phys = p
        PROVE  <<"reported", i, 0>> \in R
    BY <2>3
  <2> HIDE DEF M, C, R
  <2>4. QED
    BY <2>1, <2>2, <2>3 DEF QubitsKept, Held
<1> HIDE DEF M, C, R
<1>11. QED
  BY <1>2, <1>3, <1>4, <1>5, <1>6, <1>7, <1>8, <1>9, <1>10

\* There is no holder in the beginning.
LEMMA InitApart == Init => QubitsApart
  BY NoElements DEF Init, QubitsApart, Apart, AllInUse, ModulesApart, ClearingApart,
     ReportedApart, ModuleNotClearing, ModuleNotReported, ClearingNotReported

\* A new application has no qubits.
LEMMA InitApplicationApart ==
  ASSUME TypeOK, Apart, AllInUse, NEW a \in AppIds, InitApplication(a)
  PROVE  Apart' /\ AllInUse'
<1>1. /\ modules' = Put(modules, a, Unallocated)
      /\ UNCHANGED <<clearing, used, pending>>
  BY DEF InitApplication, eprVars
<1>2. \A b \in DOMAIN modules' : \A v \in VAddrs :
        modules'[b][v] # None => b \in DOMAIN modules /\ modules'[b][v] = modules[b][v]
  BY <1>1 DEF Put, Unallocated
<1>3. ModulesApart' /\ ModuleNotClearing' /\ ModuleNotReported'
  BY <1>1, <1>2 DEF Apart, ModulesApart, ModuleNotClearing, ModuleNotReported
<1>4. ClearingApart' /\ ReportedApart' /\ ClearingNotReported'
  BY <1>1 DEF Apart, ClearingApart, ReportedApart, ClearingNotReported
<1>5. AllInUse'
  BY <1>1, <1>2 DEF AllInUse
<1>6. QED
  BY <1>3, <1>4, <1>5 DEF Apart

\* What stop_application does from one yield to the next, if the qubits of m are apart from
\* all others and in use: they are released, or some of them go to the unit module that
\* is being cleared.
LEMMA ReleaseApart ==
  ASSUME TypeOK, Apart, AllInUse, NEW a \in AppIds, NEW m \in Modules, ReleaseFrom(a, m),
         UNCHANGED pending,
         \/ a \in DOMAIN modules \ DOMAIN clearing /\ m = modules[a] /\ modules' = Drop(modules, a)
         \/ a \in DOMAIN clearing /\ m = clearing[a] /\ UNCHANGED modules
  PROVE  Apart' /\ AllInUse'
<1>1. /\ \A b \in DOMAIN modules' : b \in DOMAIN modules /\ modules'[b] = modules[b]
      /\ \A b \in DOMAIN clearing' : b # a => b \in DOMAIN clearing /\ clearing'[b] = clearing[b]
      /\ used' \subseteq used
  BY DEF ReleaseFrom, Put, Drop
<1>2. /\ a \in DOMAIN clearing' =>
           \E u \in VAddrs : /\ m[u] # None
                             /\ clearing'[a] = [m EXCEPT ![u] = None]
                             /\ used' = used \ {m[u]}
      /\ a \notin DOMAIN clearing' => UNCHANGED used
  BY DEF ReleaseFrom, Put, Drop
<1>3. ASSUME NEW v \in VAddrs, m[v] # None
      PROVE  /\ \A w \in VAddrs : m[w] = m[v] => v = w
             /\ \A b \in DOMAIN modules', w \in VAddrs : modules'[b][w] # m[v]
             /\ \A b \in DOMAIN clearing \ {a}, w \in VAddrs : clearing[b][w] # m[v]
             /\ \A i \in DOMAIN pending : pending[i].phys # m[v]
             /\ m[v] \in used
  <2>1. CASE a \in DOMAIN modules \ DOMAIN clearing /\ m = modules[a] /\ modules' = Drop(modules, a)
    BY <1>3, <2>1
    DEF Drop, Apart, AllInUse, ModulesApart, ModuleNotClearing, ModuleNotReported
  <2>2. CASE a \in DOMAIN clearing /\ m = clearing[a] /\ UNCHANGED modules
    BY <1>3, <2>2
    DEF Apart, AllInUse, ClearingApart, ModuleNotClearing, ClearingNotReported
  <2>3. QED
    BY <2>1, <2>2
<1>4. \A v \in VAddrs : a \in DOMAIN clearing' /\ clearing'[a][v] # None =>
        clearing'[a][v] = m[v] /\ m[v] \in used'
  <2> SUFFICES ASSUME NEW v \in VAddrs, a \in DOMAIN clearing', clearing'[a][v] # None
               PROVE  clearing'[a][v] = m[v] /\ m[v] \in used'
    OBVIOUS
  <2>1. PICK u \in VAddrs : /\ m[u] # None
                            /\ clearing'[a] = [m EXCEPT ![u] = None]
                            /\ used' = used \ {m[u]}
    BY <1>2
  <2>2. v # u /\ clearing'[a][v] = m[v]
    BY <2>1 DEF Modules
  <2>3. QED
    BY <2>1, <2>2, <1>3
<1>5. ModulesApart' /\ ReportedApart' /\ ModuleNotReported'
  BY <1>1 DEF Apart, ModulesApart, ReportedApart, ModuleNotReported
<1>6. ClearingApart'
  BY <1>1, <1>3, <1>4 DEF Apart, ClearingApart
<1>7. ModuleNotClearing'
  BY <1>1, <1>3, <1>4 DEF Apart, ModuleNotClearing
<1>8. ClearingNotReported'
  BY <1>1, <1>3, <1>4 DEF Apart, ClearingNotReported
<1>9. AllInUse'
  <2>1. CASE a \notin DOMAIN clearing'
    BY <2>1, <1>1, <1>2 DEF AllInUse
  <2>2. CASE a \in DOMAIN clearing'
    <3>1. PICK u \in VAddrs : m[u] # None /\ used' = used \ {m[u]}
      BY <1>2, <2>2
    <3>2. \A b \in DOMAIN modules', w \in VAddrs : modules'[b][w] # m[u]
      BY <1>3, <3>1
    <3>3. \A b \in DOMAIN clearing \ {a}, w \in VAddrs : clearing[b][w] # m[u]
      BY <1>3, <3>1
    <3>4. \A i \in DOMAIN pending : pending[i].phys # m[u]
      BY <1>3, <3>1
    <3>5. QED
      BY <1>1, <1>4, <3>1, <3>2, <3>3, <3>4 DEF AllInUse
  <2>3. QED
    BY <2>1, <2>2
<1>10. QED
  BY <1>5, <1>6, <1>7, <1>8, <1>9 DEF Apart

\* A virtual address gets a qubit that nothing holds: one that is not in use, or that of a
\* reported pair which is reported no more.
LEMMA MapApart ==
  ASSUME TypeOK, Apart, AllInUse, NEW a \in DOMAIN modules, NEW v \in VAddrs, NEW p \in Phys,
         modules' = [modules EXCEPT ![a][v] = p],
         used' = used \cup {p},
         UNCHANGED clearing,
         \A b \in DOMAIN modules, w \in VAddrs : modules[b][w] # p,
         \A b \in DOMAIN clearing, w \in VAddrs : clearing[b][w] # p,
         \A i \in DOMAIN pending' : pending'[i].phys # p,
         \A i \in DOMAIN pending' : \E j \in DOMAIN pending : pending'[i] = pending[j],
         ReportedApart'
  PROVE  Apart' /\ AllInUse'
<1>1. /\ DOMAIN modules' = DOMAIN modules
      /\ \A b \in DOMAIN modules, w \in VAddrs :
           modules'[b][w] = IF b = a /\ w = v THEN p ELSE modules[b][w]
  BY DEF TypeOK, AppTypes, Dict, Modules
<1>2. p # None
  BY ConstantsAssumption
<1>3. ModulesApart'
  BY <1>1 DEF Apart, ModulesApart
<1>4. ClearingApart'
  BY DEF Apart, ClearingApart
<1>5. ModuleNotClearing'
  BY <1>1 DEF Apart, ModuleNotClearing
<1>6. ModuleNotReported'
  BY <1>1 DEF Apart, ModuleNotReported
<1>7. ClearingNotReported'
  BY DEF Apart, ClearingNotReported
<1>8. AllInUse'
  BY <1>1 DEF AllInUse
<1>9. QED
  BY <1>3, <1>4, <1>5, <1>6, <1>7, <1>8 DEF Apart

\* Allocating and freeing a qubit.
LEMMA QubitApart ==
  ASSUME TypeOK, Apart, AllInUse, NEW s \in DOMAIN subs, QAlloc(s) \/ QFree(s)
  PROVE  Apart' /\ AllInUse'
<1>1. UNCHANGED <<clearing, pending>>
  BY DEF QAlloc, QFree, eprVars
<1>2. ReportedApart'
  BY <1>1 DEF Apart, ReportedApart
<1>3. CASE UNCHANGED <<modules, used>>
  BY <1>1, <1>3
  DEF Apart, AllInUse, ModulesApart, ClearingApart, ReportedApart, ModuleNotClearing,
      ModuleNotReported, ClearingNotReported
<1>4. CASE QAlloc(s) /\ ~UNCHANGED <<modules, used>>
  <2>1. PICK p \in Phys \ used :
          /\ App(s) \in DOMAIN modules /\ Instr(s).vaddr \in VAddrs
          /\ modules' = [modules EXCEPT ![App(s)][Instr(s).vaddr] = p]
          /\ used' = used \cup {p}
    BY <1>4 DEF QAlloc, Addressable
  <2>2. p # None
    BY ConstantsAssumption
  <2>3. /\ \A b \in DOMAIN modules, w \in VAddrs : modules[b][w] # p
        /\ \A b \in DOMAIN clearing, w \in VAddrs : clearing[b][w] # p
        /\ \A i \in DOMAIN pending : pending[i].phys # p
    BY <2>1, <2>2 DEF AllInUse
  <2>4. QED
    BY <1>1, <1>2, <2>1, <2>3, MapApart
<1>5. CASE QFree(s) /\ ~UNCHANGED <<modules, used>>
  <2> DEFINE a == App(s)
             v == Instr(s).vaddr
  <2>1. /\ a \in DOMAIN modules /\ v \in VAddrs /\ modules[a][v] # None
        /\ modules' = [modules EXCEPT ![a][v] = None]
        /\ used' = used \ {modules[a][v]}
    BY <1>5 DEF QFree, Addressable
  <2> HIDE DEF a, v
  <2>2. /\ DOMAIN modules' = DOMAIN modules
        /\ \A b \in DOMAIN modules, w \in VAddrs :
             modules'[b][w] = IF b = a /\ w = v THEN None ELSE modules[b][w]
    BY <2>1 DEF TypeOK, AppTypes, Dict, Modules
  <2>3. Apart'
    BY <1>1, <1>2, <2>2
    DEF Apart, ModulesApart, ClearingApart, ModuleNotClearing, ModuleNotReported,
        ClearingNotReported
  <2>4. /\ \A b \in DOMAIN modules, w \in VAddrs : b # a \/ w # v => modules[b][w] # modules[a][v]
        /\ \A b \in DOMAIN clearing, w \in VAddrs : clearing[b][w] # modules[a][v]
        /\ \A i \in DOMAIN pending : pending[i].phys # modules[a][v]
    BY <2>1 DEF Apart, ModulesApart, ModuleNotClearing, ModuleNotReported
  <2>5. AllInUse'
    BY <1>1, <2>1, <2>2, <2>4 DEF AllInUse
  <2>6. QED
    BY <2>3, <2>5
<1>6. QED
  BY <1>3, <1>4, <1>5

\* The pair that the network stack reports holds a qubit that was not in use.
LEMMA StackApart ==
  ASSUME TypeOK, Apart, AllInUse, NEW ch \in Channels, GeneratePair(ch) \/ ReportError(ch)
  PROVE  Apart' /\ AllInUse'
<1>1. PICK r : /\ Report(r)
               /\ \/ r.phys = None /\ UNCHANGED used
                  \/ r.phys \in Phys \ used /\ used' = used \cup {r.phys}
  <2> DEFINE tag == [id |-> Head(net[ch]).id, pair |-> Head(net[ch]).done + 1]
  <2>1. CASE Report([type |-> "M", ch |-> ch, tag |-> tag, phys |-> None]) /\ UNCHANGED used
    BY <2>1
  <2>2. ASSUME NEW p \in Phys \ used,
               Report([type |-> "K", ch |-> ch, tag |-> tag, phys |-> p]),
               used' = used \cup {p}
        PROVE  \E r : Report(r) /\ r.phys \in Phys \ used /\ used' = used \cup {r.phys}
    BY <2>2
  <2>3. CASE Report([type |-> "ERR", ch |-> ch, phys |-> None, tag |-> tag]) /\ UNCHANGED used
    BY <2>3
  <2> HIDE DEF Report
  <2>4. QED
    BY <2>1, <2>2, <2>3 DEF GeneratePair, ReportError
<1>2. /\ pending' = Append(pending, r)
      /\ UNCHANGED <<modules, clearing>>
  BY <1>1 DEF Report, appVars
<1>3. /\ DOMAIN pending = 1 .. Len(pending) /\ Len(pending) \in Nat
      /\ DOMAIN pending' = 1 .. Len(pending) + 1
      /\ \A i \in DOMAIN pending : pending'[i] = pending[i]
      /\ pending'[Len(pending) + 1] = r
  BY <1>2 DEF TypeOK, EprTypes
<1>4. r.phys # None =>
        /\ \A a \in DOMAIN modules, v \in VAddrs : modules[a][v] # r.phys
        /\ \A a \in DOMAIN clearing, v \in VAddrs : clearing[a][v] # r.phys
        /\ \A i \in DOMAIN pending : pending[i].phys # r.phys
  BY <1>1 DEF AllInUse
<1>5. \A i \in DOMAIN pending' : i \in DOMAIN pending \/ i = Len(pending) + 1
  BY <1>3
<1>6. ModulesApart' /\ ClearingApart' /\ ModuleNotClearing'
  BY <1>2 DEF Apart, ModulesApart, ClearingApart, ModuleNotClearing
<1>7. ReportedApart'
  BY <1>3, <1>4, <1>5 DEF Apart, ReportedApart
<1>8. ModuleNotReported' /\ ClearingNotReported'
  BY <1>2, <1>3, <1>4, <1>5 DEF Apart, ModuleNotReported, ClearingNotReported
<1>9. AllInUse'
  BY <1>1, <1>2, <1>3, <1>5 DEF AllInUse
<1>10. QED
  BY <1>6, <1>7, <1>8, <1>9 DEF Apart

\* The qubit of a handled response goes over to a virtual address that had none.
LEMMA HandleApart ==
  ASSUME TypeOK, Apart, AllInUse, NEW i \in Ready, ScanHandle(i), "late" \notin raised'
  PROVE  Apart' /\ AllInUse'
<1> DEFINE r == pending[i]
           c == Request(r)
<1>1. i \in DOMAIN pending /\ r \in Responses /\ (r.type = "K" <=> r.phys # None)
  BY ReadyTypes
<1>2. MapQubit(r, c) /\ pending' = RemoveAt(pending, i) /\ UNCHANGED clearing
  BY DEF ScanHandle, Raise
<1>3. /\ \A j \in DOMAIN pending' : pending'[j] = IF j < i THEN pending[j] ELSE pending[j + 1]
      /\ \A j \in DOMAIN pending' : j \in DOMAIN pending /\ j + 1 \in DOMAIN pending
      /\ DOMAIN pending \subseteq Nat /\ DOMAIN pending' \subseteq Nat
  <2>1. /\ pending' \in Seq(Responses)
        /\ Len(pending') = Len(pending) - 1
        /\ \A j \in DOMAIN pending' : pending'[j] = IF j < i THEN pending[j] ELSE pending[j + 1]
    BY <1>1, <1>2, RemoveAtFacts DEF TypeOK, EprTypes
  <2>2. /\ DOMAIN pending = 1 .. Len(pending) /\ Len(pending) \in Nat
        /\ DOMAIN pending' = 1 .. Len(pending')
    BY <2>1, SeqFacts DEF TypeOK, EprTypes
  <2>3. QED
    BY <2>1, <2>2
<1> HIDE DEF c
<1>4. \A j \in DOMAIN pending' : \E k \in DOMAIN pending : k # i /\ pending'[j] = pending[k]
  <2> TAKE j \in DOMAIN pending'
  <2>1. CASE j < i
    BY <2>1, <1>3
  <2>2. CASE ~(j < i)
    <3>1. j + 1 # i /\ j + 1 \in DOMAIN pending /\ pending'[j] = pending[j + 1]
      BY <2>2, <1>1, <1>3
    <3>2. QED
      BY <3>1
  <2>3. QED
    BY <2>1, <2>2
<1>5. ReportedApart'
  BY <1>1, <1>3 DEF Apart, ReportedApart
<1>6. CASE r.type = "M" /\ UNCHANGED <<modules, used>>
  BY <1>2, <1>4, <1>5, <1>6
  DEF Apart, AllInUse, ModulesApart, ClearingApart, ModuleNotClearing, ModuleNotReported,
      ClearingNotReported
<1>7. CASE /\ r.type = "K"
           /\ Owner(c) \in DOMAIN modules /\ Target(c) \in VAddrs
           /\ modules' = [modules EXCEPT ![Owner(c)][Target(c)] = r.phys]
           /\ used' = used \cup {r.phys}
  <2>1. r.phys \in Phys /\ r.phys # None
    BY <1>1, <1>7 DEF Responses
  <2>2. /\ \A b \in DOMAIN modules, w \in VAddrs : modules[b][w] # r.phys
        /\ \A b \in DOMAIN clearing, w \in VAddrs : clearing[b][w] # r.phys
    BY <1>1, <2>1 DEF Apart, ModuleNotReported, ClearingNotReported
  <2>3. \A j \in DOMAIN pending' : pending'[j].phys # r.phys
    BY <1>1, <1>4, <2>1 DEF Apart, ReportedApart
  <2>4. \A j \in DOMAIN pending' : \E k \in DOMAIN pending : pending'[j] = pending[k]
    BY <1>4
  <2> HIDE DEF r
  <2>5. QED
    BY <1>2, <1>5, <1>7, <2>1, <2>2, <2>3, <2>4, MapApart
<1>8. QED
  BY <1>2, <1>6, <1>7 DEF MapQubit

\* The scan of the pending responses.
LEMMA ScanApart ==
  ASSUME TypeOK, Apart, AllInUse, Scan \/ Rescan, "late" \notin raised'
  PROVE  Apart' /\ AllInUse'
<1>1. ASSUME NEW i \in Ready, ScanHandle(i)
      PROVE  Apart' /\ AllInUse'
  BY <1>1, HandleApart
<1>2. CASE UNCHANGED <<modules, clearing, pending>> /\ used \subseteq used'
  BY <1>2
  DEF Apart, AllInUse, ModulesApart, ClearingApart, ReportedApart, ModuleNotClearing,
      ModuleNotReported, ClearingNotReported
<1>3. QED
  BY <1>1, <1>2
  DEF Scan, ScanError, ScanNoTarget, ScanNoModule, ScanEnd, Rescan, Raise, appVars

\* A failure is not forgotten.
LEMMA RaisedGrows == [Next]_vars => raised \subseteq raised'
  BY DEF Next, vars, eprVars, SubroutineStep, InitApplication, StopApplication, ResumeStop,
         StartSubroutine, ArrayInstr, EntryInstr, QAlloc, QFree, CreateEpr, RecvEpr, WaitAll,
         WaitAny, WaitSingle, RetArr, FinishSubroutine, GeneratePair, ReportError, Report,
         Scan, ScanError, ScanNoTarget, ScanNoModule, ScanHandle, ScanEnd, Rescan, Raise

\* Every step keeps the qubits apart.
LEMMA NextApart == TypeOK /\ QubitsApart /\ [Next]_vars => QubitsApart'
<1> SUFFICES ASSUME TypeOK, QubitsApart, [Next]_vars, "late" \notin raised'
             PROVE  Apart' /\ AllInUse'
  BY DEF QubitsApart
<1>1. raised \subseteq raised'
  BY RaisedGrows
<1>2. Apart /\ AllInUse
  BY <1>1 DEF QubitsApart
<1>3. ASSUME NEW a \in AppIds, InitApplication(a)
      PROVE  Apart' /\ AllInUse'
  BY <1>2, <1>3, InitApplicationApart
<1>4. ASSUME NEW a \in AppIds, StopApplication(a) \/ ResumeStop(a)
      PROVE  Apart' /\ AllInUse'
  <2>1. UNCHANGED pending
    BY <1>4 DEF StopApplication, ResumeStop, eprVars
  <2>2. CASE StopApplication(a)
    <3>1. modules[a] \in Modules
      BY <2>2 DEF TypeOK, AppTypes, StopApplication, Dict
    <3>2. QED
      BY <1>2, <2>1, <2>2, <3>1, ReleaseApart DEF StopApplication
  <2>3. CASE ResumeStop(a)
    <3>1. clearing[a] \in Modules
      BY <2>3 DEF TypeOK, AppTypes, ResumeStop, Dict
    <3>2. QED
      BY <1>2, <2>1, <2>3, <3>1, ReleaseApart DEF ResumeStop
  <2>4. QED
    BY <1>4, <2>2, <2>3
<1>5. ASSUME NEW s \in DOMAIN subs, QAlloc(s) \/ QFree(s)
      PROVE  Apart' /\ AllInUse'
  BY <1>2, <1>5, QubitApart
<1>6. ASSUME NEW ch \in Channels, GeneratePair(ch) \/ ReportError(ch)
      PROVE  Apart' /\ AllInUse'
  BY <1>2, <1>6, StackApart
<1>7. CASE Scan \/ Rescan
  BY <1>2, <1>7, ScanApart
<1>8. CASE UNCHANGED <<modules, clearing, pending, used>>
  BY <1>2, <1>8
  DEF Apart, AllInUse, ModulesApart, ClearingApart, ReportedApart, ModuleNotClearing,
      ModuleNotReported, ClearingNotReported
<1>9. \/ \E a \in AppIds : InitApplication(a) \/ StopApplication(a) \/ ResumeStop(a)
      \/ \E s \in DOMAIN subs : QAlloc(s) \/ QFree(s)
      \/ \E ch \in Channels : GeneratePair(ch) \/ ReportError(ch)
      \/ Scan \/ Rescan
      \/ UNCHANGED <<modules, clearing, pending, used>>
  BY DEF Next, vars, appVars, eprVars, SubroutineStep, StartSubroutine, ArrayInstr, EntryInstr,
         CreateEpr, RecvEpr, WaitAll, WaitAny, WaitSingle, RetArr, FinishSubroutine
<1>10. QED
  BY <1>3, <1>4, <1>5, <1>6, <1>7, <1>8, <1>9

-----------------------------------------------------------------------------
(* No physical qubit is lost.                                              *)

\* A new application takes nothing from the others.
LEMMA InitApplicationKept ==
  ASSUME NEW a \in AppIds, InitApplication(a), NEW p, Held(p)
  PROVE  Held(p)'
<1>1. /\ modules' = Put(modules, a, Unallocated) /\ a \notin DOMAIN modules
      /\ UNCHANGED <<clearing, pending>>
  BY DEF InitApplication, eprVars
<1>2. \A b \in DOMAIN modules : b \in DOMAIN modules' /\ modules'[b] = modules[b]
  BY <1>1 DEF Put
<1>3. QED
  BY <1>1, <1>2 DEF Held

\* What stop_application has taken out of the unit module, it clears or keeps for later; the
\* KeyError that would end it does not happen.
LEMMA ReleaseKept ==
  ASSUME TypeOK, AllInUse, \A q \in used : Held(q),
         NEW a \in AppIds, NEW m \in Modules, ReleaseFrom(a, m), UNCHANGED pending,
         \/ a \in DOMAIN modules \ DOMAIN clearing /\ m = modules[a] /\ modules' = Drop(modules, a)
         \/ a \in DOMAIN clearing /\ m = clearing[a] /\ UNCHANGED modules,
         NEW p \in used'
  PROVE  Held(p)'
<1>1. \A v \in VAddrs : m[v] # None => m[v] \in used
  BY DEF AllInUse
<1>2. p \in used /\ p # None /\ Held(p)
  <2>1. p \in used
    BY DEF ReleaseFrom
  <2>2. QED
    BY <2>1, ConstantsAssumption DEF TypeOK, AppTypes
<1>3. ASSUME NEW b \in DOMAIN modules, NEW w \in VAddrs, modules[b][w] = p, b # a \/ UNCHANGED modules
      PROVE  Held(p)'
  <2>1. b \in DOMAIN modules' /\ modules'[b] = modules[b]
    BY <1>3 DEF Drop
  <2>2. QED
    BY <1>3, <2>1 DEF Held
<1>4. ASSUME NEW b \in DOMAIN clearing, NEW w \in VAddrs, clearing[b][w] = p, b # a
      PROVE  Held(p)'
  <2>1. b \in DOMAIN clearing' /\ clearing'[b] = clearing[b]
    BY <1>4 DEF ReleaseFrom, Put, Drop
  <2>2. QED
    BY <1>4, <2>1 DEF Held
<1>5. ASSUME NEW w \in VAddrs, m[w] = p
      PROVE  Held(p)'
  <2>1. PICK v \in VAddrs : /\ m[v] # None
                            /\ used' = used \ {m[v]}
                            /\ clearing' = Put(clearing, a, [m EXCEPT ![v] = None])
    BY <1>1, <1>2, <1>5 DEF ReleaseFrom
  <2>2. w # v
    BY <1>5, <2>1
  <2>3. a \in DOMAIN clearing' /\ clearing'[a][w] = p
    BY <1>5, <2>1, <2>2 DEF Put, Modules
  <2>4. QED
    BY <2>3 DEF Held
<1>6. ASSUME NEW i \in DOMAIN pending, pending[i].phys = p
      PROVE  Held(p)'
  BY <1>6 DEF Held
<1>7. QED
  BY <1>2, <1>3, <1>4, <1>5, <1>6 DEF Held

\* A virtual address that had no qubit gets one.
LEMMA MapKept ==
  ASSUME TypeOK, NEW a \in DOMAIN modules, NEW v \in VAddrs, NEW p \in Phys,
         modules[a][v] = None, modules' = [modules EXCEPT ![a][v] = p], UNCHANGED clearing
  PROVE  /\ Held(p)'
         /\ \A q : q # None /\ (\E b \in DOMAIN modules, w \in VAddrs : modules[b][w] = q)
                 => Held(q)'
<1>1. /\ DOMAIN modules' = DOMAIN modules
      /\ \A b \in DOMAIN modules, w \in VAddrs :
           modules'[b][w] = IF b = a /\ w = v THEN p ELSE modules[b][w]
  BY DEF TypeOK, AppTypes, Dict, Modules
<1>2. Held(p)'
  BY <1>1 DEF Held
<1>3. ASSUME NEW q, q # None, \E b \in DOMAIN modules, w \in VAddrs : modules[b][w] = q
      PROVE  Held(q)'
  <2>1. \E b \in DOMAIN modules, w \in VAddrs : modules'[b][w] = q
    BY <1>1, <1>3
  <2>2. QED
    BY <1>1, <2>1 DEF Held
<1>4. QED
  BY <1>2, <1>3

\* Allocating and freeing a qubit.
LEMMA QubitKept ==
  ASSUME TypeOK, \A q \in used : Held(q), NEW s \in DOMAIN subs, QAlloc(s) \/ QFree(s), NEW p \in used'
  PROVE  Held(p)'
<1>1. UNCHANGED <<clearing, pending>> /\ None \notin used
  BY ConstantsAssumption DEF QAlloc, QFree, eprVars, TypeOK, AppTypes
<1>2. CASE UNCHANGED <<modules, used>>
  BY <1>1, <1>2 DEF Held
<1>3. CASE QAlloc(s) /\ ~UNCHANGED <<modules, used>>
  <2>1. PICK q \in Phys :
          /\ App(s) \in DOMAIN modules /\ Instr(s).vaddr \in VAddrs
          /\ modules[App(s)][Instr(s).vaddr] = None
          /\ modules' = [modules EXCEPT ![App(s)][Instr(s).vaddr] = q]
          /\ used' = used \cup {q}
    BY <1>3 DEF QAlloc, Addressable
  <2> DEFINE a == App(s)
             v == Instr(s).vaddr
  <2>2. /\ a \in DOMAIN modules /\ v \in VAddrs /\ modules[a][v] = None
        /\ modules' = [modules EXCEPT ![a][v] = q]
    BY <2>1
  <2> HIDE DEF a, v
  <2>3. /\ Held(q)'
        /\ \A o : o # None /\ (\E b \in DOMAIN modules, w \in VAddrs : modules[b][w] = o)
                => Held(o)'
    BY <1>1, <2>2, MapKept
  <2>4. CASE p = q
    BY <2>3, <2>4
  <2>5. CASE p # q
    <3>1. p \in used /\ p # None /\ Held(p)
      BY <1>1, <2>1, <2>5
    <3>2. CASE \/ \E i \in DOMAIN pending : pending[i].phys = p
               \/ \E b \in DOMAIN clearing, w \in VAddrs : clearing[b][w] = p
      BY <1>1, <3>2 DEF Held
    <3>3. CASE \E b \in DOMAIN modules, w \in VAddrs : modules[b][w] = p
      BY <2>3, <3>1, <3>3
    <3>4. QED
      BY <3>1, <3>2, <3>3 DEF Held
  <2>6. QED
    BY <2>4, <2>5
<1>4. CASE QFree(s) /\ ~UNCHANGED <<modules, used>>
  <2> DEFINE a == App(s)
             v == Instr(s).vaddr
  <2>1. /\ a \in DOMAIN modules /\ v \in VAddrs /\ modules[a][v] # None
        /\ modules' = [modules EXCEPT ![a][v] = None]
        /\ used' = used \ {modules[a][v]}
    BY <1>4 DEF QFree, Addressable
  <2> HIDE DEF a, v
  <2>2. /\ DOMAIN modules' = DOMAIN modules
        /\ \A b \in DOMAIN modules, w \in VAddrs :
             modules'[b][w] = IF b = a /\ w = v THEN None ELSE modules[b][w]
    BY <2>1 DEF TypeOK, AppTypes, Dict, Modules
  <2>3. Held(p) /\ p # modules[a][v]
    BY <2>1
  <2>4. ASSUME NEW b \in DOMAIN modules, NEW w \in VAddrs, modules[b][w] = p
        PROVE  Held(p)'
    <3>1. modules'[b][w] = p
      BY <2>2, <2>3, <2>4
    <3>2. QED
      BY <2>2, <3>1 DEF Held
  <2>5. QED
    BY <1>1, <2>3, <2>4 DEF Held
<1>5. QED
  BY <1>2, <1>3, <1>4

\* The qubit taken for a pair is that of a reported pair.
LEMMA StackKept ==
  ASSUME TypeOK, \A q \in used : Held(q), NEW ch \in Channels, GeneratePair(ch) \/ ReportError(ch),
         NEW p \in used'
  PROVE  Held(p)'
<1>1. PICK r : Report(r) /\ (UNCHANGED used \/ used' = used \cup {r.phys})
  <2> DEFINE tag == [id |-> Head(net[ch]).id, pair |-> Head(net[ch]).done + 1]
  <2>1. CASE Report([type |-> "M", ch |-> ch, tag |-> tag, phys |-> None]) /\ UNCHANGED used
    BY <2>1
  <2>2. ASSUME NEW q \in Phys \ used,
               Report([type |-> "K", ch |-> ch, tag |-> tag, phys |-> q]), used' = used \cup {q}
        PROVE  \E r : Report(r) /\ used' = used \cup {r.phys}
    BY <2>2
  <2>3. CASE Report([type |-> "ERR", ch |-> ch, phys |-> None, tag |-> tag]) /\ UNCHANGED used
    BY <2>3
  <2> HIDE DEF Report
  <2>4. QED
    BY <2>1, <2>2, <2>3 DEF GeneratePair, ReportError
<1>2. pending' = Append(pending, r) /\ UNCHANGED <<modules, clearing>>
  BY <1>1 DEF Report, appVars
<1>3. /\ \A i \in DOMAIN pending : i \in DOMAIN pending' /\ pending'[i] = pending[i]
      /\ \E i \in DOMAIN pending' : pending'[i] = r
  <2>1. /\ DOMAIN pending = 1 .. Len(pending) /\ Len(pending) \in Nat
        /\ DOMAIN pending' = 1 .. Len(pending) + 1
        /\ \A i \in DOMAIN pending : pending'[i] = pending[i]
        /\ pending'[Len(pending) + 1] = r
    BY <1>2 DEF TypeOK, EprTypes
  <2>2. QED
    BY <2>1
<1>4. p \in used => Held(p)'
  <2> SUFFICES ASSUME p \in used PROVE Held(p)'
    OBVIOUS
  <2>1. Held(p)
    OBVIOUS
  <2>2. QED
    BY <2>1, <1>2, <1>3 DEF Held
<1>5. p = r.phys => Held(p)'
  BY <1>3 DEF Held
<1>6. QED
  BY <1>1, <1>4, <1>5

\* The qubit of a response that is handled goes to a virtual address that was free, since
\* the scan passes over a response whose virtual address is in use.
LEMMA HandleKept ==
  ASSUME TypeOK, \A q \in used : Held(q), NEW i \in Ready, ScanHandle(i), "late" \notin raised', NEW p \in used'
  PROVE  Held(p)'
<1> DEFINE r == pending[i]
           c == Request(r)
<1>1. i \in DOMAIN pending /\ r \in Responses /\ (r.type = "K" <=> r.phys # None)
  BY ReadyTypes
<1>2. MapQubit(r, c) /\ pending' = RemoveAt(pending, i) /\ UNCHANGED clearing
  BY DEF ScanHandle, Raise
<1>3. \A k \in DOMAIN pending : k # i => \E j \in DOMAIN pending' : pending'[j] = pending[k]
  <2>1. /\ pending' \in Seq(Responses)
        /\ Len(pending') = Len(pending) - 1
        /\ \A j \in DOMAIN pending' : pending'[j] = IF j < i THEN pending[j] ELSE pending[j + 1]
    BY <1>1, <1>2, RemoveAtFacts DEF TypeOK, EprTypes
  <2>2. /\ DOMAIN pending = 1 .. Len(pending) /\ Len(pending) \in Nat
        /\ DOMAIN pending' = 1 .. Len(pending')
    BY <2>1, SeqFacts DEF TypeOK, EprTypes
  <2> TAKE k \in DOMAIN pending
  <2> HAVE k # i
  <2>3. CASE k < i
    <3>1. k \in DOMAIN pending' /\ pending'[k] = pending[k]
      BY <1>1, <2>1, <2>2, <2>3
    <3>2. QED
      BY <3>1
  <2>4. CASE k > i
    <3>1. k - 1 \in DOMAIN pending' /\ pending'[k - 1] = pending[k]
      BY <1>1, <2>1, <2>2, <2>4
    <3>2. QED
      BY <3>1
  <2>5. QED
    BY <1>1, <2>2, <2>3, <2>4
<1>4. None \notin used
  BY ConstantsAssumption DEF TypeOK, AppTypes
<1>5. ASSUME p \in used, p # r.phys,
             \A b \in DOMAIN modules, w \in VAddrs : modules[b][w] = p => Held(p)'
      PROVE  Held(p)'
  <2>1. Held(p)
    BY <1>5
  <2>2. CASE \E k \in DOMAIN pending : pending[k].phys = p
    <3>1. PICK k \in DOMAIN pending : pending[k].phys = p /\ k # i
      BY <1>5, <2>2
    <3>2. QED
      BY <1>3, <3>1 DEF Held
  <2>3. CASE \E b \in DOMAIN clearing, w \in VAddrs : clearing[b][w] = p
    BY <1>2, <2>3 DEF Held
  <2>4. QED
    BY <1>5, <2>1, <2>2, <2>3 DEF Held
<1>6. CASE r.type = "M" /\ UNCHANGED <<modules, used>>
  <2>1. p \in used /\ p # r.phys
    BY <1>1, <1>4, <1>6
  <2>2. QED
    BY <1>5, <1>6, <2>1 DEF Held
<1>7. CASE /\ r.type = "K" /\ HasTarget(c)
           /\ Owner(c) \in DOMAIN modules /\ Target(c) \in VAddrs
           /\ modules' = [modules EXCEPT ![Owner(c)][Target(c)] = r.phys]
           /\ used' = used \cup {r.phys}
  <2>1. modules[Owner(c)][Target(c)] = None
    BY <1>7 DEF Ready, MustWait, TargetInUse
  <2>2. r.phys \in Phys
    BY <1>1, <1>7 DEF Responses
  <2> HIDE DEF r, c
  <2> DEFINE a == Owner(c)
             v == Target(c)
  <2>3. /\ a \in DOMAIN modules /\ v \in VAddrs /\ modules[a][v] = None
        /\ modules' = [modules EXCEPT ![a][v] = r.phys]
    BY <1>7, <2>1
  <2> HIDE DEF a, v
  <2>4. PICK o \in Phys : o = r.phys
    BY <2>2
  <2>5. /\ Held(o)'
        /\ \A q : q # None /\ (\E b \in DOMAIN modules, w \in VAddrs : modules[b][w] = q)
                => Held(q)'
    BY <1>2, <2>3, <2>4, MapKept
  <2>6. CASE p = o
    BY <2>5, <2>6
  <2>7. CASE p # o
    <3>1. p \in used /\ p # None /\ p # r.phys
      BY <1>4, <1>7, <2>4, <2>7
    <3>2. \A b \in DOMAIN modules, w \in VAddrs : modules[b][w] = p => Held(p)'
      BY <2>5, <3>1
    <3>3. QED
      BY <1>5, <3>1, <3>2
  <2>8. QED
    BY <2>6, <2>7
<1>8. QED
  BY <1>2, <1>6, <1>7 DEF MapQubit

\* The scan of the pending responses.
LEMMA ScanKept ==
  ASSUME TypeOK, \A q \in used : Held(q), Scan \/ Rescan, "late" \notin raised', NEW p \in used'
  PROVE  Held(p)'
<1>1. ASSUME NEW i \in Ready, ScanHandle(i)
      PROVE  Held(p)'
  BY <1>1, HandleKept
<1>2. ASSUME NEW i \in Ready, ScanNoModule(i)
      PROVE  Held(p)'
  <2>1. UNCHANGED <<modules, clearing, pending>> /\ used' = used \cup {pending[i].phys} /\ i \in DOMAIN pending
    BY <1>2 DEF ScanNoModule, Raise, appVars, Ready
  <2>2. QED
    BY <2>1 DEF Held
<1>3. CASE UNCHANGED <<modules, clearing, pending, used>>
  BY <1>3 DEF Held
<1>4. QED
  BY <1>1, <1>2, <1>3 DEF Scan, ScanError, ScanNoTarget, ScanEnd, Rescan, Raise, appVars

\* Every step keeps the qubits that are in use.
LEMMA NextKept == TypeOK /\ QubitsApart /\ QubitsKept /\ [Next]_vars => QubitsKept'
<1> SUFFICES ASSUME TypeOK, QubitsApart, QubitsKept, [Next]_vars, "late" \notin raised', NEW p \in used'
             PROVE  Held(p)'
  BY DEF QubitsKept
<1>1. AllInUse /\ \A q \in used : Held(q)
  BY RaisedGrows DEF QubitsApart, QubitsKept
<1>2. ASSUME NEW a \in AppIds, InitApplication(a)
      PROVE  Held(p)'
  <2>1. p \in used
    BY <1>2 DEF InitApplication
  <2>2. QED
    BY <1>1, <1>2, <2>1, InitApplicationKept
<1>3. ASSUME NEW a \in AppIds, StopApplication(a) \/ ResumeStop(a)
      PROVE  Held(p)'
  <2>1. UNCHANGED pending
    BY <1>3 DEF StopApplication, ResumeStop, eprVars
  <2>2. CASE StopApplication(a)
    <3>1. modules[a] \in Modules
      BY <2>2 DEF TypeOK, AppTypes, StopApplication, Dict
    <3>2. QED
      BY <1>1, <2>1, <2>2, <3>1, ReleaseKept DEF StopApplication
  <2>3. CASE ResumeStop(a)
    <3>1. clearing[a] \in Modules
      BY <2>3 DEF TypeOK, AppTypes, ResumeStop, Dict
    <3>2. QED
      BY <1>1, <2>1, <2>3, <3>1, ReleaseKept DEF ResumeStop
  <2>4. QED
    BY <1>3, <2>2, <2>3
<1>4. ASSUME NEW s \in DOMAIN subs, QAlloc(s) \/ QFree(s)
      PROVE  Held(p)'
  BY <1>1, <1>4, QubitKept
<1>5. ASSUME NEW ch \in Channels, GeneratePair(ch) \/ ReportError(ch)
      PROVE  Held(p)'
  BY <1>1, <1>5, StackKept
<1>6. CASE Scan \/ Rescan
  BY <1>1, <1>6, ScanKept
<1>7. CASE UNCHANGED <<modules, clearing, pending, used>>
  BY <1>1, <1>7 DEF Held
<1>8. \/ \E a \in AppIds : InitApplication(a) \/ StopApplication(a) \/ ResumeStop(a)
      \/ \E s \in DOMAIN subs : QAlloc(s) \/ QFree(s)
      \/ \E ch \in Channels : GeneratePair(ch) \/ ReportError(ch)
      \/ Scan \/ Rescan
      \/ UNCHANGED <<modules, clearing, pending, used>>
  BY DEF Next, vars, appVars, eprVars, SubroutineStep, StartSubroutine, ArrayInstr, EntryInstr,
         CreateEpr, RecvEpr, WaitAll, WaitAny, WaitSingle, RetArr, FinishSubroutine
<1>9. QED
  BY <1>2, <1>3, <1>4, <1>5, <1>6, <1>7, <1>8

LEMMA QubitsAlways == Spec => [](TypeOK /\ QubitsSafe)
<1>1. Init => TypeOK /\ QubitsApart /\ QubitsKept
  BY InitTypes, InitApart DEF Init, QubitsKept
<1>2. TypeOK /\ QubitsApart /\ QubitsKept /\ [Next]_vars => TypeOK' /\ QubitsApart' /\ QubitsKept'
  BY NextTypes, NextApart, NextKept
<1>3. TypeOK /\ QubitsApart /\ QubitsKept => QubitsSafe
  BY ApartIsSafe
<1>4. QED
  BY <1>1, <1>2, <1>3, PTL DEF Spec

\* For hosts that wait or do not wait, but register no application that is registered
\* (see InitApplication), and whatever the network stack answers: as long as no response was
\* lost half-way no physical qubit has two holders, and those with a holder are the ones
\* marked as used: the executor never gives the qubit of one application to another, and
\* never forgets one.
THEOREM QubitsAreSafe == Spec => []QubitsSafe
  BY QubitsAlways, PTL

\* The two invariants of hosts that wait, NoSharedQubit and NoQubitLeak, hold for hosts that do
\* not wait as long as no response was lost half-way.
THEOREM QubitsAccounted == Spec => []("late" \notin raised => NoSharedQubit /\ NoQubitLeak)
<1>1. TypeOK /\ QubitsSafe => ("late" \notin raised => NoSharedQubit /\ NoQubitLeak)
  <2> SUFFICES ASSUME TypeOK, QubitsSafe, "late" \notin raised
               PROVE  NoSharedQubit /\ NoQubitLeak
    OBVIOUS
  <2>1. \A p \in Phys : (\A g, h \in Holders(p) : g = h) /\ (Holders(p) # {} <=> p \in used)
    BY DEF QubitsSafe
  <2>2. used \subseteq Phys
    BY DEF TypeOK, AppTypes
  <2>3. QED
    BY <2>1, <2>2 DEF NoSharedQubit, NoQubitLeak
<1>2. QED
  BY <1>1, QubitsAlways, PTL

-----------------------------------------------------------------------------
(* Pairs are given to the requests in order.                               *)

\* A new request has all its pairs before it.
LEMMA EnqueueOrder ==
  ASSUME TypeOK, OldestRequestFirst, NEW s, NEW ch \in Channels, NEW n, Enqueue(s, ch, n)
  PROVE  OldestRequestFirst'
<1> DEFINE c == [sub |-> s, id |-> issued[ch] + 1, qarr |-> Instr(s).qarr,
                 res |-> Instr(s).res, tot |-> n, left |-> n]
<1>1. reqs' = [reqs EXCEPT ![ch] = Append(reqs[ch], c)] /\ c.left = c.tot
  BY DEF Enqueue
<1>2. /\ DOMAIN reqs[ch] = 1 .. Len(reqs[ch]) /\ Len(reqs[ch]) \in Nat
      /\ reqs[ch] \in Seq(Commands) /\ DOMAIN reqs = Channels
  BY SeqFacts DEF TypeOK, ReqTypes
<1> HIDE DEF c
<1>3. /\ DOMAIN Append(reqs[ch], c) = 1 .. Len(reqs[ch]) + 1
      /\ \A i \in 1 .. Len(reqs[ch]) : Append(reqs[ch], c)[i] = reqs[ch][i]
      /\ Append(reqs[ch], c)[Len(reqs[ch]) + 1] = c
  BY <1>2
<1>4. \A i \in DOMAIN Append(reqs[ch], c) :
        i > 1 => Append(reqs[ch], c)[i].left = Append(reqs[ch], c)[i].tot
  <2> TAKE i \in DOMAIN Append(reqs[ch], c)
  <2>1. CASE i = Len(reqs[ch]) + 1
    BY <2>1, <1>1, <1>3
  <2>2. CASE i \in DOMAIN reqs[ch]
    BY <2>2, <1>2, <1>3 DEF OldestRequestFirst
  <2>3. QED
    BY <2>1, <2>2, <1>2, <1>3
<1>5. QED
  BY <1>1, <1>2, <1>4 DEF OldestRequestFirst

\* Only the oldest request is counted down.
LEMMA CountOrder ==
  ASSUME TypeOK, OldestRequestFirst, NEW ch \in Channels, reqs[ch] # <<>>, CountPair(ch)
  PROVE  OldestRequestFirst'
<1>1. /\ DOMAIN reqs[ch] = 1 .. Len(reqs[ch]) /\ Len(reqs[ch]) \in Nat
      /\ reqs[ch] \in Seq(Commands) /\ DOMAIN reqs = Channels
  BY SeqFacts DEF TypeOK, ReqTypes
<1>2. CASE reqs' = [reqs EXCEPT ![ch] = Tail(reqs[ch])]
  <2>1. /\ Tail(reqs[ch]) \in Seq(Commands)
        /\ Len(Tail(reqs[ch])) = Len(reqs[ch]) - 1
        /\ \A i \in DOMAIN Tail(reqs[ch]) : Tail(reqs[ch])[i] = reqs[ch][i + 1]
    BY <1>1, SeqFacts
  <2>2. DOMAIN Tail(reqs[ch]) = 1 .. Len(reqs[ch]) - 1
    BY <2>1, SeqFacts
  <2>3. \A i \in DOMAIN Tail(reqs[ch]) : i + 1 \in DOMAIN reqs[ch] /\ i + 1 > 1
    BY <1>1, <2>2
  <2>4. QED
    BY <1>1, <1>2, <2>1, <2>3 DEF OldestRequestFirst
<1>3. CASE \E d : reqs' = [reqs EXCEPT ![ch] = [reqs[ch] EXCEPT ![1] = d]]
  BY <1>1, <1>3 DEF OldestRequestFirst
<1>4. QED
  BY <1>2, <1>3 DEF CountPair

\* Every step keeps the order.
LEMMA NextOrder == TypeOK /\ OldestRequestFirst /\ [Next]_vars => OldestRequestFirst'
<1> SUFFICES ASSUME TypeOK, OldestRequestFirst, [Next]_vars PROVE OldestRequestFirst'
  OBVIOUS
<1>1. CASE UNCHANGED reqs
  BY <1>1 DEF OldestRequestFirst
<1>2. ASSUME NEW s \in DOMAIN subs, CreateEpr(s) \/ RecvEpr(s), ~UNCHANGED reqs
      PROVE  OldestRequestFirst'
  <2>1. Instr(s).key \in Keys
    BY <1>2, InstrTypes DEF CreateEpr, RecvEpr, AtInstr, TypeOK
  <2>2. <<"create", Instr(s).key>> \in Channels /\ <<"recv", Instr(s).key>> \in Channels
    BY <2>1 DEF Channels, Roles
  <2>3. \E ch \in Channels : \E n : Enqueue(s, ch, n)
    BY <1>2, <2>2 DEF CreateEpr, RecvEpr
  <2>4. QED
    BY <2>3, EnqueueOrder
<1>3. ASSUME NEW i \in Ready, ScanHandle(i)
      PROVE  OldestRequestFirst'
  <2>1. pending[i].ch \in Channels /\ reqs[pending[i].ch] # <<>> /\ CountPair(pending[i].ch)
    BY <1>3, ReadyTypes DEF ScanHandle
  <2>2. QED
    BY <2>1, CountOrder
<1>4. \/ UNCHANGED reqs
      \/ \E s \in DOMAIN subs : CreateEpr(s) \/ RecvEpr(s)
      \/ \E i \in Ready : ScanHandle(i)
  BY DEF Next, vars, eprVars, SubroutineStep, InitApplication, StopApplication, ResumeStop,
         StartSubroutine, ArrayInstr, EntryInstr, QAlloc, QFree, WaitAll,
         WaitAny, WaitSingle, RetArr, FinishSubroutine, GeneratePair, ReportError, Report,
         Scan, ScanError, ScanNoTarget, ScanNoModule, ScanEnd, Rescan
<1>5. QED
  BY <1>1, <1>2, <1>3, <1>4

\* On every channel only the oldest request may have some of its pairs: pairs are never spread
\* over two requests, in whatever order subroutines, responses and errors come.
THEOREM RequestsServedInOrder == Spec => []OldestRequestFirst
<1>1. Init => TypeOK /\ OldestRequestFirst
  BY InitTypes, NoElements DEF Init, OldestRequestFirst
<1>2. TypeOK /\ OldestRequestFirst /\ [Next]_vars => TypeOK' /\ OldestRequestFirst'
  BY NextTypes, NextOrder
<1>3. QED
  BY <1>1, <1>2, PTL DEF Spec
=============================================================================
