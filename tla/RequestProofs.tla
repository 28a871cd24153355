---------------------------- MODULE RequestProofs ----------------------------
(***************************************************************************)
(* Subroutines that wait for the pairs they ask for, on hosts that wait    *)
(* for their subroutines: no request outlives its subroutine, and no       *)
(* response is lost half-way, for all values of the other constants.       *)
(***************************************************************************)
EXTENDS PairProofs

-----------------------------------------------------------------------------
(* The inductive invariant.                                                *)

\* The array x of application a has l entries; its n-th is there and undefined.
Size(a, x, l)  == HasArray(a, x) /\ Len(arrays[a][x]) = l
Fresh(a, x, n) == HasEntry(a, x, n) /\ arrays[a][x][n] = None

\* At instruction p the arrays for the requests of body that are still to be made are ready,
\* as far as they have been prepared.
PreparedAt(a, body, p) ==
  \A k \in Asks(body), j, f \in DOMAIN body, n \in Sizes :
    PreparedBy(body, k, j, f, n) /\ p <= k =>
      /\ j < p => Size(a, body[k].res, body[j].len)
      /\ f < p => Fresh(a, body[k].res, n)

\* At instruction p a request for n pairs with result array x has been made, the wait for it
\* is not over, and the entry of its last pair is undefined.
OpenAt(a, body, p, x, n) ==
  /\ \E k \in Asks(body), w \in DOMAIN body :
       body[k].res = x /\ k < p /\ p <= w /\ AwaitedBy(body, k, w, n)
  /\ Fresh(a, x, n)

Runs(s)     == subs[s].st = "running"
Prepared(s) == PreparedAt(App(s), Body(s), subs[s].pc)
Open(c)     == Runs(c.sub) /\ OpenAt(Owner(c), Body(c.sub), subs[c.sub].pc, c.res, c.tot)

\* An application has at most one subroutine, is registered while that runs, and is not
\* registered while it is being cleared.
OneRuns           == \A r, s \in DOMAIN subs : Runs(r) /\ Runs(s) /\ App(r) = App(s) => r = s
RunningRegistered == \A s \in DOMAIN subs : Runs(s) => App(s) \in DOMAIN modules
ClearedApart      == DOMAIN modules \cap DOMAIN clearing = {}

\* The open requests of a subroutine have different result arrays.
DistinctResults ==
  \A c, d \in Channels : \A i \in DOMAIN reqs[c], j \in DOMAIN reqs[d] :
    reqs[c][i].sub = reqs[d][j].sub /\ reqs[c][i].res = reqs[d][j].res => c = d /\ i = j

Hosts    == OneRuns /\ RunningRegistered /\ ClearedApart
Arrayed  == \A s \in DOMAIN subs : Runs(s) => Prepared(s)
AllOpen  == \A ch \in Channels : \A i \in DOMAIN reqs[ch] : Open(reqs[ch][i])
RequestInv == Hosts /\ Arrayed /\ AllOpen /\ DistinctResults

-----------------------------------------------------------------------------
(* What an instruction does to the arrays of its application.              *)

\* A step leaves the array x of application a as it is, or leaves it as long as it is.
Same(a, x) == HasArray(a, x) => HasArray(a, x)' /\ arrays'[a][x] = arrays[a][x]
Kept(a, x) == HasArray(a, x) => HasArray(a, x)' /\ Len(arrays'[a][x]) = Len(arrays[a][x])

LEMMA SameKeeps ==
  ASSUME NEW a, NEW x, Same(a, x)
  PROVE  /\ \A l : Size(a, x, l) => Size(a, x, l)'
         /\ \A n : Fresh(a, x, n) => Fresh(a, x, n)'
BY DEF Same, Size, Fresh, HasEntry

LEMMA KeptKeeps ==
  ASSUME NEW a, NEW x, Kept(a, x)
  PROVE  \A l : Size(a, x, l) => Size(a, x, l)'
BY DEF Kept, Size

Effect(a, i) ==
  /\ \A x \in Addrs : ~Touches(i, x) => Same(a, x)
  /\ \A x \in Addrs : ~Makes(i, x) => Kept(a, x)
  /\ \A x \in Addrs : Makes(i, x) => Size(a, x, i.len)' /\ \A n \in 1 .. i.len : Fresh(a, x, n)'
  /\ i.op = "undef" => Fresh(a, i.addr, i.idx)'

\* A wait that is over.
Over(a, i) ==
  /\ i.op = "wait_all" => \A n : ~Fresh(a, i.addr, n)
  /\ i.op = "wait_single" => ~Fresh(a, i.addr, i.idx)

\* The instructions of a program.
LEMMA BodyFacts ==
  ASSUME NEW q \in DOMAIN Programs
  PROVE  LET body == Programs[q]
         IN /\ Len(body) \in Nat
            /\ DOMAIN body = 1 .. Len(body)
            /\ \A k \in Asks(body) : k \in DOMAIN body /\ body[k].res \in Addrs
<1> DEFINE body == Programs[q]
<1>1. body \in Seq(Instructions)
  BY ConstantsAssumption
<1>2. /\ Len(body) \in Nat /\ DOMAIN body = 1 .. Len(body)
      /\ \A k \in DOMAIN body : body[k] \in Instructions
  <2> HIDE DEF body
  <2>1. QED
    BY <1>1, SeqFacts
<1> HIDE DEF body
<1>3. ASSUME NEW k \in Asks(body)
      PROVE  k \in DOMAIN body /\ body[k].res \in Addrs
  <2>1. k \in DOMAIN body /\ body[k].op \in {"create_epr", "recv_epr"}
    BY DEF Asks
  <2>2. body[k] \in Instructions
    BY <1>2, <2>1
  <2>3. QED
    BY <2>1, <2>2 DEF Instructions
<1>4. QED
  BY <1>2, <1>3 DEF body

\* The preparations go on,
LEMMA PreparedMoves ==
  ASSUME NEW a, NEW q \in DOMAIN Programs, NEW p \in DOMAIN Programs[q],
         PreparedAt(a, Programs[q], p), Effect(a, Programs[q][p])
  PROVE  PreparedAt(a, Programs[q], p + 1)'
<1> DEFINE body == Programs[q]
<1>1. /\ Len(body) \in Nat /\ DOMAIN body = 1 .. Len(body)
      /\ \A k \in Asks(body) : k \in DOMAIN body /\ body[k].res \in Addrs
  BY BodyFacts
<1>2. p \in DOMAIN body /\ PreparedAt(a, body, p) /\ Effect(a, body[p])
  OBVIOUS
<1> HIDE DEF body
<1>3. ASSUME NEW k \in Asks(body), NEW j \in DOMAIN body, NEW f \in DOMAIN body, NEW n \in Sizes,
             PreparedBy(body, k, j, f, n), p + 1 <= k
      PROVE  /\ j < p + 1 => Size(a, body[k].res, body[j].len)'
             /\ f < p + 1 => Fresh(a, body[k].res, n)'
  <2> DEFINE x == body[k].res
  <2>1. /\ k \in Nat /\ j \in Nat /\ f \in Nat /\ p \in Nat /\ p <= k /\ x \in Addrs
        /\ n \in Pos
    BY <1>1, <1>2, <1>3, ConstantsAssumption
  <2>2. /\ j < p => Size(a, x, body[j].len)
        /\ f < p => Fresh(a, x, n)
    BY <1>2, <1>3, <2>1 DEF PreparedAt
  <2>3. /\ Makes(body[j], x) /\ n <= body[j].len
        /\ \A m \in j + 1 .. k - 1 : ~Makes(body[m], x)
        /\ f # j => body[f].op = "undef" /\ body[f].addr = x /\ body[f].idx = n
        /\ \A m \in f + 1 .. k - 1 : ~Touches(body[m], x)
    BY <1>3 DEF PreparedBy
  <2> HIDE DEF x
  <2>4. ASSUME j < p
        PROVE  Size(a, x, body[j].len)'
    <3>1. ~Makes(body[p], x)
      BY <1>3, <2>1, <2>3, <2>4
    <3>2. Kept(a, x)
      BY <1>2, <2>1, <3>1 DEF Effect
    <3>3. QED
      BY <2>2, <2>4, <3>2, KeptKeeps
  <2>5. ASSUME j = p
        PROVE  Size(a, x, body[j].len)'
    BY <1>2, <2>1, <2>3, <2>5 DEF Effect
  <2>6. ASSUME f < p
        PROVE  Fresh(a, x, n)'
    <3>1. ~Touches(body[p], x)
      BY <1>3, <2>1, <2>3, <2>6
    <3>2. Same(a, x)
      BY <1>2, <2>1, <3>1 DEF Effect
    <3>3. QED
      BY <2>2, <2>6, <3>2, SameKeeps
  <2>7. ASSUME f = p
        PROVE  Fresh(a, x, n)'
    <3>1. CASE f = j
      <4>1. Makes(body[p], x) /\ n <= body[p].len
        BY <2>3, <2>7, <3>1
      <4>2. body[p].len \in Nat
        <5>1. body \in Seq(Instructions)
          BY ConstantsAssumption DEF body
        <5>2. body[p] \in Instructions
          BY <1>2, <5>1, SeqFacts
        <5>3. QED
          BY <4>1, <5>2, ConstantsAssumption DEF Instructions, Makes, Pos
      <4>3. n \in 1 .. body[p].len
        BY <2>1, <4>1, <4>2 DEF Pos
      <4>4. QED
        BY <1>2, <2>1, <4>1, <4>3 DEF Effect
    <3>2. CASE f # j
      <4>1. body[p].op = "undef" /\ body[p].addr = x /\ body[p].idx = n
        BY <2>3, <2>7, <3>2
      <4>2. QED
        BY <1>2, <4>1 DEF Effect
    <3>3. QED
      BY <3>1, <3>2
  <2>8. QED
    BY <2>1, <2>4, <2>5, <2>6, <2>7 DEF x
<1>4. PreparedAt(a, body, p + 1)'
  BY <1>3 DEF PreparedAt
<1>5. QED
  BY <1>4 DEF body

\* and a request that is open stays so until the wait for it is over.
LEMMA OpenMoves ==
  ASSUME NEW a, NEW q \in DOMAIN Programs, NEW p \in DOMAIN Programs[q], NEW x, NEW n,
         OpenAt(a, Programs[q], p, x, n), Effect(a, Programs[q][p]), Over(a, Programs[q][p])
  PROVE  OpenAt(a, Programs[q], p + 1, x, n)'
<1> DEFINE body == Programs[q]
<1>1. /\ Len(body) \in Nat /\ DOMAIN body = 1 .. Len(body)
      /\ \A k \in Asks(body) : k \in DOMAIN body /\ body[k].res \in Addrs
  BY BodyFacts
<1>2. p \in DOMAIN body /\ OpenAt(a, body, p, x, n) /\ Effect(a, body[p]) /\ Over(a, body[p])
  OBVIOUS
<1> HIDE DEF body
<1>3. PICK k \in Asks(body), w \in DOMAIN body :
        body[k].res = x /\ k < p /\ p <= w /\ AwaitedBy(body, k, w, n)
  BY <1>2 DEF OpenAt
<1>4. Fresh(a, x, n) /\ x \in Addrs
  BY <1>1, <1>2, <1>3 DEF OpenAt
<1>5. k \in Nat /\ w \in Nat /\ p \in Nat
  BY <1>1, <1>2, <1>3
<1>6. /\ \/ body[w].op = "wait_all" /\ body[w].addr = x
         \/ body[w].op = "wait_single" /\ body[w].addr = x /\ body[w].idx = n
      /\ \A m \in k + 1 .. w - 1 : ~Touches(body[m], x)
  BY <1>3 DEF AwaitedBy
<1>7. p # w
  BY <1>2, <1>4, <1>6 DEF Over
<1>8. p + 1 <= w /\ k < p + 1 /\ ~Touches(body[p], x)
  BY <1>3, <1>5, <1>6, <1>7
<1>9. Fresh(a, x, n)'
  <2>1. Same(a, x)
    BY <1>2, <1>4, <1>8 DEF Effect
  <2>2. QED
    BY <1>4, <2>1, SameKeeps
<1>10. QED
  BY <1>3, <1>8, <1>9 DEF OpenAt, body

\* A new request needs an array of its own.
LEMMA OpenElsewhere ==
  ASSUME NEW a, NEW q \in DOMAIN Programs, NEW p \in Asks(Programs[q]), NEW x, NEW n,
         OpenAt(a, Programs[q], p, x, n)
  PROVE  Programs[q][p].res # x
<1> DEFINE body == Programs[q]
<1>1. /\ Len(body) \in Nat /\ DOMAIN body = 1 .. Len(body)
      /\ \A k \in Asks(body) : k \in DOMAIN body
  BY BodyFacts
<1>2. PICK k \in Asks(body), w \in DOMAIN body :
        body[k].res = x /\ k < p /\ p <= w /\ AwaitedBy(body, k, w, n)
  BY DEF OpenAt
<1>3. p \in Asks(body)
  OBVIOUS
<1> HIDE DEF body
<1>4. body[p].op \in {"create_epr", "recv_epr"}
  BY <1>3 DEF Asks
<1>5. /\ body[w].op \in {"wait_all", "wait_single"}
      /\ \A m \in k + 1 .. w - 1 : ~Touches(body[m], x)
  BY <1>2 DEF AwaitedBy
<1>6. p # w
  BY <1>4, <1>5
<1>7. k \in Nat /\ p \in Nat /\ w \in Nat
  BY <1>1, <1>2, <1>3
<1>8. ~Touches(body[p], x)
  BY <1>2, <1>5, <1>6, <1>7
<1>9. QED
  BY <1>4, <1>8 DEF Touches, body


\* The request that is made for arrays that are ready is open.
LEMMA AskOpens ==
  ASSUME NEW a, NEW q \in DOMAIN Programs, NEW p \in Asks(Programs[q]), WaitsForPairs(Programs[q]),
         PreparedAt(a, Programs[q], p), UNCHANGED arrays, NEW n,
         LET i == Programs[q][p]
         IN n = IF i.op = "create_epr" THEN i.num ELSE Len(arrays[a][i.res])
  PROVE  OpenAt(a, Programs[q], p + 1, Programs[q][p].res, n)'
<1> DEFINE body == Programs[q]
           i    == body[p]
<1>0. n = IF i.op = "create_epr" THEN i.num ELSE Len(arrays[a][i.res])
  OBVIOUS
<1>1. /\ Len(body) \in Nat /\ DOMAIN body = 1 .. Len(body)
      /\ \A k \in Asks(body) : k \in DOMAIN body
  BY BodyFacts
<1>2. p \in Asks(body) /\ WaitsForPairs(body) /\ PreparedAt(a, body, p)
  OBVIOUS
<1> HIDE DEF body
<1>3. PICK j \in DOMAIN body, f \in DOMAIN body, w \in DOMAIN body, m \in Sizes :
        PreparedBy(body, p, j, f, m) /\ AwaitedBy(body, p, w, m)
  BY <1>2 DEF WaitsForPairs
<1>4. p \in Nat /\ j \in Nat /\ f \in Nat /\ w \in Nat
  BY <1>1, <1>2
<1>5. j < p /\ f < p /\ p <= p /\ p < w
  BY <1>3, <1>4 DEF PreparedBy, AwaitedBy
<1>6. Size(a, i.res, body[j].len) /\ Fresh(a, i.res, m)
  BY <1>2, <1>3, <1>5 DEF PreparedAt
<1>7. m = n
  BY <1>0, <1>3, <1>6 DEF PreparedBy, Size
<1>8. Fresh(a, i.res, n)'
  BY <1>6, <1>7 DEF Fresh, HasEntry, HasArray
<1>9. p < p + 1 /\ p + 1 <= w
  BY <1>4, <1>5
<1>10. AwaitedBy(body, p, w, n)
  BY <1>3, <1>7
<1>11. OpenAt(a, body, p + 1, i.res, n)'
  BY <1>2, <1>8, <1>9, <1>10 DEF OpenAt
<1>12. QED
  BY <1>11 DEF body

-----------------------------------------------------------------------------
(* The steps of a subroutine.                                              *)

\* The arrays of the other applications.
OthersSame(a) == \A d : d # a => \A x : Same(d, x)

LEMMA ArraysSame ==
  ASSUME UNCHANGED arrays
  PROVE  \A a, x : Same(a, x) /\ Kept(a, x)
BY DEF Same, Kept, HasArray

LEMMA IdleEffect ==
  ASSUME UNCHANGED arrays, NEW i, i.op \notin {"array", "undef"}
  PROVE  \A a : Effect(a, i)
BY ArraysSame DEF Effect, Makes

\* An array instruction makes an array of undefined entries.
LEMMA ArrayEffect ==
  ASSUME NEW s \in DOMAIN subs, SubTypes, NEW a, a = App(s), NEW i, i = Instr(s),
         ArrayInstr(s), a \in DOMAIN arrays
  PROVE  Effect(a, i) /\ OthersSame(a) /\ Advance(s)
<1> DEFINE new == [n \in 1 .. i.len |-> None]
<1>1. i.op = "array" /\ i.addr \in Addrs /\ i.len \in Nat
  BY InstrTypes DEF ArrayInstr, AtInstr, Pos
<1>2. arrays' = [arrays EXCEPT ![a] = Put(arrays[a], i.addr, new)] /\ a \in DOMAIN arrays
      /\ Advance(s)
  BY DEF ArrayInstr
<1>3. Len(new) = i.len /\ DOMAIN new = 1 .. i.len /\ \A n \in 1 .. i.len : new[n] = None
  <2>1. new \in Seq({None})
    BY <1>1
  <2>2. QED
    BY <1>1, <2>1
<1> HIDE DEF new
<1>4. /\ DOMAIN arrays' = DOMAIN arrays
      /\ DOMAIN arrays'[a] = DOMAIN arrays[a] \cup {i.addr}
      /\ arrays'[a][i.addr] = new
      /\ \A x \in DOMAIN arrays[a] : x # i.addr => arrays'[a][x] = arrays[a][x]
      /\ \A d \in DOMAIN arrays : d # a => arrays'[d] = arrays[d]
  BY <1>2 DEF Put
<1>5. \A x : x # i.addr => Same(a, x) /\ Kept(a, x)
  BY <1>2, <1>4 DEF Same, Kept, HasArray
<1>6. Size(a, i.addr, i.len)' /\ \A n \in 1 .. i.len : Fresh(a, i.addr, n)'
  BY <1>2, <1>3, <1>4 DEF Size, Fresh, HasEntry, HasArray
<1>7. Effect(a, i)
  BY <1>1, <1>5, <1>6 DEF Effect, Touches, Makes
<1>8. OthersSame(a)
  BY <1>4 DEF OthersSame, Same, HasArray
<1>9. QED
  BY <1>2, <1>7, <1>8

\* An entry is given a value, or undefined.
LEMMA EntryEffect ==
  ASSUME NEW s \in DOMAIN subs, TypeOK, NEW a, a = App(s), NEW i, i = Instr(s),
         EntryInstr(s), HasEntry(a, i.addr, i.idx)
  PROVE  Effect(a, i) /\ OthersSame(a) /\ Advance(s)
<1> DEFINE v == IF i.op = "store" THEN i.val ELSE None
<1>1. i.op \in {"store", "undef"} /\ i.addr \in Addrs /\ (i.op = "undef" => v = None)
  BY InstrTypes DEF EntryInstr, AtInstr, TypeOK
<1>2. arrays' = [arrays EXCEPT ![a][i.addr][i.idx] = v] /\ HasEntry(a, i.addr, i.idx) /\ Advance(s)
  BY DEF EntryInstr
<1> DEFINE old == arrays[a][i.addr]
<1>3. old \in Seq(Values) /\ i.idx \in DOMAIN old
  BY <1>2 DEF TypeOK, AppTypes, Dict, Arrays, HasEntry, HasArray
<1>4. /\ DOMAIN arrays' = DOMAIN arrays
      /\ DOMAIN arrays'[a] = DOMAIN arrays[a]
      /\ arrays'[a][i.addr] = [old EXCEPT ![i.idx] = v]
      /\ \A x \in DOMAIN arrays[a] : x # i.addr => arrays'[a][x] = arrays[a][x]
      /\ \A d \in DOMAIN arrays : d # a => arrays'[d] = arrays[d]
  <2> HIDE DEF v
  <2>1. QED
    BY <1>2 DEF HasEntry, HasArray
<1>5. v \in Values
  BY InstrTypes DEF EntryInstr, AtInstr, TypeOK, Values
<1> HIDE DEF v, old
<1>6. /\ Len([old EXCEPT ![i.idx] = v]) = Len(old) /\ DOMAIN [old EXCEPT ![i.idx] = v] = DOMAIN old
      /\ [old EXCEPT ![i.idx] = v][i.idx] = v
  BY <1>3, <1>5, SeqExcept
<1>7. \A x : x # i.addr => Same(a, x)
  BY <1>2, <1>4 DEF Same, HasArray
<1>8. \A x : Kept(a, x)
  BY <1>2, <1>4, <1>6 DEF Kept, HasArray, HasEntry, old
<1>9. i.op = "undef" => Fresh(a, i.addr, i.idx)'
  BY <1>1, <1>2, <1>3, <1>4, <1>6 DEF Fresh, HasEntry, HasArray
<1>10. Effect(a, i)
  BY <1>1, <1>7, <1>8, <1>9 DEF Effect, Touches, Makes
<1>11. OthersSame(a)
  BY <1>4 DEF OthersSame, Same, HasArray
<1>12. QED
  BY <1>2, <1>10, <1>11


\* A subroutine ends, with or without an error; or it moves on, with what that does to the
\* arrays of its application, and perhaps makes a request.
Halts(s) ==
  /\ UNCHANGED <<arrays, reqs>>
  /\ \/ Fail(s)
     \/ subs[s].pc > Len(Body(s)) /\ subs' = [subs EXCEPT ![s].st = "cleared"]

Moves(s, a, i) ==
  /\ subs[s].pc \in DOMAIN Body(s)
  /\ Advance(s)
  /\ Effect(a, i) /\ OthersSame(a) /\ Over(a, i)

Requested(s, a, i) ==
  /\ i.op \in {"create_epr", "recv_epr"}
  /\ UNCHANGED arrays
  /\ \E ch \in Channels, n \in Pos :
       /\ n = IF i.op = "create_epr" THEN i.num ELSE Len(arrays[a][i.res])
       /\ Enqueue(s, ch, n)

LEMMA StepKinds ==
  ASSUME TypeOK, NEW s \in DOMAIN subs, SubroutineStep(s), NEW a, a = App(s), NEW i, i = Instr(s)
  PROVE  /\ Runs(s) /\ DOMAIN modules' = DOMAIN modules /\ UNCHANGED clearing
         /\ \/ Halts(s)
            \/ Moves(s, a, i) /\ (UNCHANGED reqs \/ Requested(s, a, i))
<1> DEFINE Goal == /\ Runs(s) /\ DOMAIN modules' = DOMAIN modules /\ UNCHANGED clearing
                   /\ \/ Halts(s)
                      \/ Moves(s, a, i) /\ (UNCHANGED reqs \/ Requested(s, a, i))
<1>0. SubTypes
  BY DEF TypeOK
<1>1. CASE ArrayInstr(s)
  <2>1. /\ Runs(s) /\ subs[s].pc \in DOMAIN Body(s) /\ i.op = "array"
        /\ UNCHANGED <<modules, clearing, reqs>>
    BY <1>1 DEF ArrayInstr, AtInstr, Runs, eprVars
  <2>2. CASE a \in DOMAIN arrays
    <3>1. Effect(a, i) /\ OthersSame(a) /\ Advance(s)
      BY <1>0, <1>1, <2>2, ArrayEffect
    <3>2. Over(a, i)
      BY <2>1 DEF Over
    <3>3. QED
      BY <2>1, <3>1, <3>2 DEF Moves
  <2>3. CASE a \notin DOMAIN arrays
    BY <1>1, <2>1, <2>3 DEF ArrayInstr, Halts
  <2>4. QED
    BY <2>2, <2>3
<1>2. CASE EntryInstr(s)
  <2>1. /\ Runs(s) /\ subs[s].pc \in DOMAIN Body(s) /\ i.op \in {"store", "undef"}
        /\ UNCHANGED <<modules, clearing, reqs>>
    BY <1>2 DEF EntryInstr, AtInstr, Runs, eprVars
  <2>2. CASE HasEntry(a, i.addr, i.idx)
    <3>1. Effect(a, i) /\ OthersSame(a) /\ Advance(s)
      BY <1>2, <2>2, EntryEffect
    <3>2. Over(a, i)
      BY <2>1 DEF Over
    <3>3. QED
      BY <2>1, <3>1, <3>2 DEF Moves
  <2>3. CASE ~HasEntry(a, i.addr, i.idx)
    BY <1>2, <2>1, <2>3 DEF EntryInstr, Halts
  <2>4. QED
    BY <2>2, <2>3
<1>3. ASSUME UNCHANGED <<arrays, clearing, reqs>>, DOMAIN modules' = DOMAIN modules,
             subs[s].st = "running", subs[s].pc \in DOMAIN Body(s), i.op \notin {"array", "undef"},
             Fail(s) \/ (Advance(s) /\ Over(a, i))
      PROVE  Goal
  <2>1. Effect(a, i) /\ OthersSame(a)
    BY <1>3, IdleEffect, ArraysSame DEF OthersSame
  <2>2. QED
    BY <1>3, <2>1 DEF Moves, Halts, Runs
<1>4. CASE QAlloc(s) \/ QFree(s)
  <2>1. i.op \in {"qalloc", "qfree"} /\ (Fail(s) \/ Advance(s))
    BY <1>4 DEF QAlloc, QFree, AtInstr
  <2>2. Over(a, i)
    BY <2>1 DEF Over
  <2>3. DOMAIN modules' = DOMAIN modules
    BY <1>4 DEF QAlloc, QFree
  <2>4. /\ UNCHANGED <<arrays, clearing, reqs>> /\ subs[s].st = "running"
        /\ subs[s].pc \in DOMAIN Body(s)
    BY <1>4 DEF QAlloc, QFree, AtInstr, eprVars
  <2>5. QED
    BY <1>3, <2>1, <2>2, <2>3, <2>4
<1>5. CASE WaitAll(s) \/ WaitAny(s) \/ WaitSingle(s)
  <2>1. /\ UNCHANGED <<arrays, clearing, reqs, modules>> /\ subs[s].st = "running"
        /\ subs[s].pc \in DOMAIN Body(s) /\ i.op \in {"wait_all", "wait_any", "wait_single"}
    BY <1>5 DEF WaitAll, WaitAny, WaitSingle, AtInstr, appVars, eprVars
  <2>2. Fail(s) \/ (Advance(s) /\ Over(a, i))
    <3>1. CASE WaitAll(s)
      BY <3>1 DEF WaitAll, AtInstr, Over, Defined, Fresh, HasEntry
    <3>2. CASE WaitAny(s)
      BY <3>2 DEF WaitAny, AtInstr, Over
    <3>3. CASE WaitSingle(s)
      BY <3>3 DEF WaitSingle, AtInstr, Over, Fresh
    <3>4. QED
      BY <1>5, <3>1, <3>2, <3>3
  <2>3. QED
    BY <1>3, <2>1, <2>2
<1>6. CASE RetArr(s)
  <2>1. /\ UNCHANGED <<arrays, clearing, reqs, modules>> /\ subs[s].st = "running"
        /\ subs[s].pc \in DOMAIN Body(s) /\ i.op = "ret_arr" /\ (Fail(s) \/ Advance(s))
    BY <1>6 DEF RetArr, AtInstr, eprVars
  <2>2. Over(a, i)
    BY <2>1 DEF Over
  <2>3. QED
    BY <1>3, <2>1, <2>2
<1>7. CASE CreateEpr(s) \/ RecvEpr(s)
  <2>1. /\ UNCHANGED <<arrays, clearing, modules>> /\ subs[s].st = "running" /\ Runs(s)
        /\ subs[s].pc \in DOMAIN Body(s) /\ i.op \in {"create_epr", "recv_epr"}
    BY <1>7 DEF CreateEpr, RecvEpr, AtInstr, appVars, Runs
  <2>2. Over(a, i) /\ Effect(a, i) /\ OthersSame(a)
    BY <2>1, IdleEffect, ArraysSame DEF Over, OthersSame
  <2>3. CASE UNCHANGED reqs /\ Fail(s)
    BY <2>1, <2>3 DEF Halts
  <2>4. ASSUME Advance(s), NEW ch \in Channels, NEW n \in Pos,
               n = IF i.op = "create_epr" THEN i.num ELSE Len(arrays[a][i.res]), Enqueue(s, ch, n)
        PROVE  Goal
    <3>1. Requested(s, a, i)
      BY <2>1, <2>4 DEF Requested
    <3>2. Moves(s, a, i)
      BY <2>1, <2>2, <2>4 DEF Moves
    <3>3. QED
      BY <2>1, <3>1, <3>2
  <2>5. CASE CreateEpr(s)
    <3>1. i.op = "create_epr" /\ i.key \in Keys /\ i.num \in Pos
      BY <1>0, <2>1, <2>5, InstrTypes DEF CreateEpr, AtInstr
    <3>2. <<"create", i.key>> \in Channels
      BY <3>1 DEF Channels, Roles
    <3>3. \/ UNCHANGED reqs /\ Fail(s)
          \/ Advance(s) /\ Enqueue(s, <<"create", i.key>>, i.num)
      BY <2>5 DEF CreateEpr
    <3>4. QED
      BY <2>3, <2>4, <3>1, <3>2, <3>3
  <2>6. CASE RecvEpr(s)
    <3>1. i.op = "recv_epr" /\ i.key \in Keys
      BY <1>0, <2>1, <2>6, InstrTypes DEF RecvEpr, AtInstr
    <3>2. <<"recv", i.key>> \in Channels
      BY <3>1 DEF Channels, Roles
    <3>3. \/ UNCHANGED reqs /\ Fail(s)
          \/ /\ HasArray(a, i.res) /\ Advance(s)
             /\ Enqueue(s, <<"recv", i.key>>, Len(arrays[a][i.res]))
      BY <2>6 DEF RecvEpr
    <3>4. HasArray(a, i.res) => Len(arrays[a][i.res]) \in Pos
      BY ConstantsAssumption DEF HasArray, TypeOK, AppTypes, Dict, Arrays
    <3>5. QED
      BY <2>3, <2>4, <3>1, <3>2, <3>3, <3>4
  <2>7. QED
    BY <1>7, <2>5, <2>6
<1>8. CASE FinishSubroutine(s)
  BY <1>8 DEF FinishSubroutine, Runs, Halts, appVars, eprVars
<1>9. QED
  BY <1>1, <1>2, <1>4, <1>5, <1>6, <1>7, <1>8 DEF SubroutineStep

-----------------------------------------------------------------------------
(* The subroutines in the table.                                           *)

LEMMA SubFacts ==
  ASSUME SubTypes, NEW s \in DOMAIN subs
  PROVE  /\ App(s) \in AppIds /\ subs[s].prog \in DOMAIN Programs /\ subs[s].pc \in Pos
         /\ Body(s) = Programs[subs[s].prog]
         /\ Instr(s) = Programs[subs[s].prog][subs[s].pc]
<1>1. subs[s] \in Subroutines
  BY SeqFacts DEF SubTypes
<1>2. QED
  BY <1>1 DEF Subroutines, App, Body, Instr

LEMMA SubsAdvanced ==
  ASSUME SubTypes, NEW s \in DOMAIN subs, Advance(s)
  PROVE  /\ DOMAIN subs' = DOMAIN subs
         /\ \A r \in DOMAIN subs : /\ subs'[r].app = subs[r].app
                                   /\ subs'[r].prog = subs[r].prog
                                   /\ subs'[r].st = subs[r].st
                                   /\ r # s => subs'[r].pc = subs[r].pc
         /\ subs'[s].pc = subs[s].pc + 1
<1> DEFINE new == [subs[s] EXCEPT !.pc = @ + 1]
<1>1. subs[s] \in Subroutines /\ subs \in Seq(Subroutines)
  BY SeqFacts DEF SubTypes
<1>2. /\ new.app = subs[s].app /\ new.prog = subs[s].prog /\ new.st = subs[s].st
      /\ new.pc = subs[s].pc + 1
  BY <1>1 DEF Subroutines
<1>3. subs' = [subs EXCEPT ![s] = new]
  BY DEF Advance
<1> HIDE DEF new
<1>4. DOMAIN subs' = DOMAIN subs /\ subs'[s] = new /\ \A r \in DOMAIN subs \ {s} : subs'[r] = subs[r]
  BY <1>3
<1>5. QED
  BY <1>2, <1>4

LEMMA SubsHalted ==
  ASSUME SubTypes, NEW s \in DOMAIN subs, NEW v, v \in {"failed", "cleared"},
         subs' = [subs EXCEPT ![s].st = v]
  PROVE  /\ DOMAIN subs' = DOMAIN subs
         /\ \A r \in DOMAIN subs \ {s} : subs'[r] = subs[r]
         /\ subs'[s].st = v
<1> DEFINE new == [subs[s] EXCEPT !.st = v]
<1>1. subs[s] \in Subroutines
  BY SeqFacts DEF SubTypes
<1>2. new.st = v
  BY <1>1 DEF Subroutines
<1>3. subs' = [subs EXCEPT ![s] = new]
  OBVIOUS
<1> HIDE DEF new
<1>4. DOMAIN subs' = DOMAIN subs /\ subs'[s] = new /\ \A r \in DOMAIN subs \ {s} : subs'[r] = subs[r]
  BY <1>3
<1>5. QED
  BY <1>2, <1>4
\* The invariant of a subroutine, and of a request, after a step.
LEMMA PreparedNext ==
  ASSUME NEW s, NEW a, NEW q, NEW p, PreparedAt(a, Programs[q], p)',
         subs'[s].app = a, subs'[s].prog = q, subs'[s].pc = p
  PROVE  Prepared(s)'
BY DEF Prepared, PreparedAt, App, Body, Size, Fresh, HasEntry, HasArray

LEMMA OpenNext ==
  ASSUME NEW c, NEW a, NEW q, NEW p, OpenAt(a, Programs[q], p, c.res, c.tot)',
         subs'[c.sub].app = a, subs'[c.sub].prog = q, subs'[c.sub].pc = p,
         subs'[c.sub].st = "running"
  PROVE  Open(c)'
BY DEF Open, Runs, OpenAt, Owner, Body, Fresh, HasEntry, HasArray

\* All requests are open after a step when each of them is.
LEMMA AllOpenNext ==
  ASSUME \A e \in Channels : \A j \in DOMAIN reqs'[e] : \E o : o = reqs'[e][j] /\ Open(o)'
  PROVE  AllOpen'
<1>1. ASSUME NEW o, Open(o)', NEW e, NEW j, o = reqs'[e][j]
      PROVE  Open(reqs[e][j])'
  BY <1>1 DEF Open, Runs, OpenAt, Owner, Body, Fresh, HasEntry, HasArray
<1>2. QED
  BY <1>1 DEF AllOpen

LEMMA PreparedStays ==
  ASSUME NEW a, NEW q \in DOMAIN Programs, NEW p, PreparedAt(a, Programs[q], p),
         \A x \in Addrs : Same(a, x)
  PROVE  PreparedAt(a, Programs[q], p)'
<1>1. \A k \in Asks(Programs[q]) : Programs[q][k].res \in Addrs
  BY BodyFacts
<1>2. QED
  BY <1>1, SameKeeps DEF PreparedAt

LEMMA OpenStays ==
  ASSUME NEW a, NEW q, NEW p, NEW x, NEW n, OpenAt(a, Programs[q], p, x, n), Same(a, x)
  PROVE  OpenAt(a, Programs[q], p, x, n)'
BY SameKeeps DEF OpenAt


-----------------------------------------------------------------------------
(* The steps of a subroutine keep the invariant.                           *)

LEMMA HostsStay ==
  ASSUME Hosts, DOMAIN modules' = DOMAIN modules, UNCHANGED clearing, DOMAIN subs' = DOMAIN subs,
         \A r \in DOMAIN subs : subs'[r].st = "running" =>
           subs[r].st = "running" /\ subs'[r].app = subs[r].app
  PROVE  Hosts'
BY DEF Hosts, OneRuns, RunningRegistered, ClearedApart, Runs, App

LEMMA MoveArrayed ==
  ASSUME TypeOK, OneRuns, Arrayed, NEW s \in DOMAIN subs, Runs(s), NEW a, a = App(s),
         NEW i, i = Instr(s), Moves(s, a, i)
  PROVE  Arrayed'
<1>1. SubTypes /\ Advance(s) /\ Effect(a, i) /\ OthersSame(a) /\ subs[s].pc \in DOMAIN Body(s)
  BY DEF TypeOK, Moves
<1> SUFFICES ASSUME NEW r \in DOMAIN subs, subs[r].st = "running"
             PROVE  Prepared(r)'
  BY <1>1, SubsAdvanced DEF Arrayed, Runs
<1>2. PICK b, q, p : b = App(r) /\ q = subs[r].prog /\ p = subs[r].pc
  OBVIOUS
<1>3. q \in DOMAIN Programs /\ PreparedAt(b, Programs[q], p)
  BY <1>1, <1>2, SubFacts DEF Arrayed, Prepared, Runs
<1>4. /\ subs'[r].app = b /\ subs'[r].prog = q
      /\ r # s => subs'[r].pc = p
      /\ r = s => subs'[r].pc = p + 1
  BY <1>1, <1>2, SubsAdvanced DEF App
<1>5. CASE r = s
  <2>1. p \in DOMAIN Programs[q] /\ i = Programs[q][p] /\ a = b
    BY <1>1, <1>2, <1>5, SubFacts
  <2>2. PreparedAt(b, Programs[q], p + 1)'
    BY <1>1, <1>3, <2>1, PreparedMoves
  <2>3. QED
    BY <1>4, <1>5, <2>2, PreparedNext
<1>6. CASE r # s
  <2>1. b # a
    BY <1>2, <1>6 DEF OneRuns, Runs
  <2>2. \A x \in Addrs : Same(b, x)
    BY <1>1, <2>1 DEF OthersSame
  <2>3. PreparedAt(b, Programs[q], p)'
    BY <1>3, <2>2, PreparedStays
  <2>4. QED
    BY <1>4, <1>6, <2>3, PreparedNext
<1>7. QED
  BY <1>5, <1>6

LEMMA MoveOpen ==
  ASSUME TypeOK, OneRuns, NEW s \in DOMAIN subs, Runs(s), NEW a, a = App(s),
         NEW i, i = Instr(s), Moves(s, a, i), NEW c, c.sub \in DOMAIN subs, Open(c)
  PROVE  Open(c)'
<1>1. /\ SubTypes /\ Advance(s) /\ Effect(a, i) /\ OthersSame(a) /\ Over(a, i)
      /\ subs[s].pc \in DOMAIN Body(s)
  BY DEF TypeOK, Moves
<1>2. PICK r, b, q, p :
        r \in DOMAIN subs /\ r = c.sub /\ b = App(r) /\ q = subs[r].prog /\ p = subs[r].pc
  OBVIOUS
<1>3. /\ q \in DOMAIN Programs /\ OpenAt(b, Programs[q], p, c.res, c.tot)
      /\ subs[r].st = "running"
  BY <1>1, <1>2, SubFacts DEF Open, Runs, Owner, App
<1>4. /\ subs'[r].app = b /\ subs'[r].prog = q /\ subs'[r].st = "running"
      /\ r # s => subs'[r].pc = p
      /\ r = s => subs'[r].pc = p + 1
  BY <1>1, <1>2, <1>3, SubsAdvanced DEF App
<1>5. CASE r = s
  <2>1. p \in DOMAIN Programs[q] /\ i = Programs[q][p] /\ a = b
    BY <1>1, <1>2, <1>5, SubFacts
  <2>2. OpenAt(b, Programs[q], p + 1, c.res, c.tot)'
    BY <1>1, <1>3, <2>1, OpenMoves
  <2>3. QED
    BY <1>2, <1>4, <1>5, <2>2, OpenNext
<1>6. CASE r # s
  <2>1. b # a
    BY <1>2, <1>3, <1>6 DEF OneRuns, Runs
  <2>2. Same(b, c.res)
    BY <1>1, <2>1 DEF OthersSame
  <2>3. OpenAt(b, Programs[q], p, c.res, c.tot)'
    BY <1>3, <2>2, OpenStays
  <2>4. QED
    BY <1>2, <1>4, <1>6, <2>3, OpenNext
<1>7. QED
  BY <1>5, <1>6

\* A request that is made is open, and its result array is no other request's.
LEMMA RequestOpens ==
  ASSUME TypeOK, RequestInv, ProgramsWait, NEW s \in DOMAIN subs, Runs(s), NEW a, a = App(s),
         NEW i, i = Instr(s), Moves(s, a, i), Requested(s, a, i)
  PROVE  AllOpen' /\ DistinctResults'
<1>1. PICK ch \in Channels, n \in Pos :
        /\ n = IF i.op = "create_epr" THEN i.num ELSE Len(arrays[a][i.res])
        /\ Enqueue(s, ch, n)
  BY DEF Requested
<1> DEFINE c == [sub |-> s, id |-> issued[ch] + 1, qarr |-> Instr(s).qarr,
                 res |-> Instr(s).res, tot |-> n, left |-> n]
<1>2. PICK d : d = c
  OBVIOUS
<1>3. d.sub = s /\ d.res = i.res /\ d.tot = n /\ reqs' = [reqs EXCEPT ![ch] = Append(@, d)]
  BY <1>1, <1>2 DEF Enqueue
<1> HIDE DEF c
<1>4. SubTypes /\ reqs \in [Channels -> Seq(Commands)]
      /\ \A e \in Channels : \A j \in DOMAIN reqs[e] : reqs[e][j].sub \in DOMAIN subs
  BY DEF TypeOK, ReqTypes
<1>5. PICK q, p : q = subs[s].prog /\ p = subs[s].pc
  OBVIOUS
<1>6. /\ q \in DOMAIN Programs /\ i = Programs[q][p] /\ p \in DOMAIN Programs[q]
      /\ subs'[s].app = a /\ subs'[s].prog = q /\ subs'[s].pc = p + 1
      /\ subs'[s].st = "running"
  <2>1. Advance(s) /\ subs[s].pc \in DOMAIN Body(s)
    BY DEF Moves
  <2>2. QED
    BY <1>4, <1>5, <2>1, SubFacts, SubsAdvanced DEF App, Runs
<1>7. p \in Asks(Programs[q]) /\ UNCHANGED arrays
  BY <1>6 DEF Asks, Requested
<1>8. PreparedAt(a, Programs[q], p) /\ WaitsForPairs(Programs[q])
  BY <1>4, <1>5, <1>6, SubFacts DEF RequestInv, Arrayed, Prepared, ProgramsWait
<1>9. OpenAt(a, Programs[q], p + 1, d.res, d.tot)'
  <2>1. n = IF Programs[q][p].op = "create_epr" THEN Programs[q][p].num
            ELSE Len(arrays[a][Programs[q][p].res])
    BY <1>1, <1>6
  <2>2. OpenAt(a, Programs[q], p + 1, Programs[q][p].res, n)'
    BY <1>6, <1>7, <1>8, <2>1, AskOpens
  <2>3. d.res = Programs[q][p].res /\ d.tot = n
    BY <1>3, <1>6
  <2>4. QED
    BY <2>2, <2>3
<1>10. Open(d)'
  BY <1>3, <1>6, <1>9, OpenNext
<1>11. ASSUME NEW e \in Channels, NEW j \in DOMAIN reqs[e]
       PROVE  Open(reqs[e][j]) /\ reqs[e][j].sub \in DOMAIN subs
  BY <1>4 DEF RequestInv, AllOpen
<1>12. ASSUME NEW e \in Channels, NEW j \in DOMAIN reqs[e], reqs[e][j].sub = s
       PROVE  reqs[e][j].res # d.res
  <2>1. PICK o : o = reqs[e][j]
    OBVIOUS
  <2>2. OpenAt(a, Programs[q], p, o.res, o.tot)
    BY <1>4, <1>5, <1>11, <1>12, <2>1, SubFacts DEF Open, Owner, App
  <2>3. QED
    BY <1>3, <1>6, <1>7, <2>1, <2>2, OpenElsewhere
<1>13. ASSUME NEW e \in Channels, NEW j \in DOMAIN reqs'[e]
       PROVE  \/ e = ch /\ j = Len(reqs[ch]) + 1 /\ reqs'[e][j] = d
              \/ j \in DOMAIN reqs[e] /\ reqs'[e][j] = reqs[e][j]
  <2>1. CASE e # ch
    BY <1>3, <1>4, <2>1
  <2>2. CASE e = ch
    <3>1. reqs'[e] = Append(reqs[ch], d) /\ reqs[ch] \in Seq(Commands)
      BY <1>3, <1>4, <2>2
    <3>2. QED
      BY <2>2, <3>1, AppendAny
  <2>3. QED
    BY <2>1, <2>2
<1>14. AllOpen'
  <2> SUFFICES ASSUME NEW e \in Channels, NEW j \in DOMAIN reqs'[e]
               PROVE  \E o : o = reqs'[e][j] /\ Open(o)'
    BY AllOpenNext
  <2>1. CASE reqs'[e][j] = d
    BY <1>10, <2>1
  <2>2. CASE j \in DOMAIN reqs[e] /\ reqs'[e][j] = reqs[e][j]
    <3>1. PICK o : o = reqs[e][j]
      OBVIOUS
    <3>2. Open(o) /\ o.sub \in DOMAIN subs
      BY <1>11, <2>2, <3>1
    <3>3. Open(o)'
      BY <3>2, MoveOpen DEF RequestInv, Hosts
    <3>4. QED
      BY <2>2, <3>1, <3>3
  <2>3. QED
    BY <1>13, <2>1, <2>2
<1>15. DistinctResults'
  <2> SUFFICES ASSUME NEW e \in Channels, NEW f \in Channels,
                      NEW j \in DOMAIN reqs'[e], NEW l \in DOMAIN reqs'[f],
                      reqs'[e][j].sub = reqs'[f][l].sub, reqs'[e][j].res = reqs'[f][l].res
               PROVE  e = f /\ j = l
    BY DEF DistinctResults
  <2>1. \/ e = ch /\ j = Len(reqs[ch]) + 1 /\ reqs'[e][j] = d
        \/ j \in DOMAIN reqs[e] /\ reqs'[e][j] = reqs[e][j]
    BY <1>13
  <2>2. \/ f = ch /\ l = Len(reqs[ch]) + 1 /\ reqs'[f][l] = d
        \/ l \in DOMAIN reqs[f] /\ reqs'[f][l] = reqs[f][l]
    BY <1>13
  <2>3. QED
    BY <1>3, <1>12, <2>1, <2>2 DEF RequestInv, DistinctResults
<1>16. QED
  BY <1>14, <1>15

LEMMA StepKeeps ==
  ASSUME TypeOK, RequestInv, ProgramsWait, NEW s \in DOMAIN subs, SubroutineStep(s),
         NoFailureWithRequests'
  PROVE  RequestInv'
<1>1. PICK a, i : a = App(s) /\ i = Instr(s)
  OBVIOUS
<1>2. /\ Runs(s) /\ DOMAIN modules' = DOMAIN modules /\ UNCHANGED clearing
      /\ \/ Halts(s)
         \/ Moves(s, a, i) /\ (UNCHANGED reqs \/ Requested(s, a, i))
  BY <1>1, StepKinds
<1>3. SubTypes /\ Hosts /\ OneRuns /\ Arrayed /\ AllOpen /\ DistinctResults
      /\ \A e \in Channels : \A j \in DOMAIN reqs[e] : reqs[e][j].sub \in DOMAIN subs
  BY DEF TypeOK, ReqTypes, RequestInv, Hosts
<1>4. CASE Halts(s)
  <2>1. PICK v \in {"failed", "cleared"} : subs' = [subs EXCEPT ![s].st = v]
    BY <1>4 DEF Halts, Fail
  <2>2. /\ DOMAIN subs' = DOMAIN subs /\ subs'[s].st = v
        /\ \A r \in DOMAIN subs \ {s} : subs'[r] = subs[r]
    BY <1>3, <2>1, SubsHalted
  <2>3. UNCHANGED <<arrays, reqs>>
    BY <1>4 DEF Halts
  <2>4. Hosts'
    BY <1>2, <1>3, <2>2, HostsStay
  <2>5. ASSUME NEW e \in Channels, NEW j \in DOMAIN reqs[e]
        PROVE  reqs[e][j].sub # s
    <3>1. PICK c : c = reqs[e][j]
      OBVIOUS
    <3>2. CASE Fail(s)
      <4>1. subs'[s].st = "failed"
        BY <1>3, <3>2, SubsHalted DEF Fail
      <4>2. QED
        BY <2>3, <4>1 DEF NoFailureWithRequests
    <3>3. CASE subs[s].pc > Len(Body(s))
      <4>1. ASSUME c.sub = s
            PROVE  FALSE
        <5>1. PICK w \in DOMAIN Body(s) : subs[s].pc <= w
          BY <1>3, <3>1, <4>1 DEF AllOpen, Open, OpenAt
        <5>2. /\ Len(Body(s)) \in Nat /\ DOMAIN Body(s) = 1 .. Len(Body(s)) /\ subs[s].pc \in Pos
          BY <1>3, SubFacts, BodyFacts
        <5>3. QED
          BY <3>3, <5>1, <5>2 DEF Pos
      <4>2. QED
        BY <3>1, <4>1
    <3>4. QED
      BY <1>4, <3>2, <3>3 DEF Halts
  <2>6. \A b, x : Same(b, x)
    BY <2>3, ArraysSame
  <2>7. Arrayed'
    <3> SUFFICES ASSUME NEW r \in DOMAIN subs, subs'[r].st = "running"
                 PROVE  Prepared(r)'
      BY <2>2 DEF Arrayed, Runs
    <3>1. subs'[r] = subs[r] /\ Prepared(r)
      BY <1>3, <2>1, <2>2 DEF Arrayed, Runs
    <3>2. PICK b, q, p : b = App(r) /\ q = subs[r].prog /\ p = subs[r].pc
      OBVIOUS
    <3>3. q \in DOMAIN Programs /\ PreparedAt(b, Programs[q], p)
      BY <1>3, <3>1, <3>2, SubFacts DEF Prepared
    <3>4. PreparedAt(b, Programs[q], p)'
      BY <2>6, <3>3, PreparedStays
    <3>5. QED
      BY <3>1, <3>2, <3>4, PreparedNext DEF App
  <2>8. AllOpen'
    <3> SUFFICES ASSUME NEW e \in Channels, NEW j \in DOMAIN reqs[e]
                 PROVE  \E o : o = reqs[e][j] /\ Open(o)'
      BY <2>3, AllOpenNext
    <3>1. PICK o : o = reqs[e][j]
      OBVIOUS
    <3>2. Open(o) /\ o.sub \in DOMAIN subs \ {s}
      BY <1>3, <2>5, <3>1 DEF AllOpen
    <3>3. PICK b, q, p : b = App(o.sub) /\ q = subs[o.sub].prog /\ p = subs[o.sub].pc
      OBVIOUS
    <3>4. OpenAt(b, Programs[q], p, o.res, o.tot) /\ subs[o.sub].st = "running"
      BY <1>3, <3>2, <3>3, SubFacts DEF Open, Runs, Owner, App
    <3>5. OpenAt(b, Programs[q], p, o.res, o.tot)'
      BY <2>6, <3>4, OpenStays
    <3>6. Open(o)'
      BY <2>2, <3>2, <3>3, <3>4, <3>5, OpenNext DEF App
    <3>7. QED
      BY <3>1, <3>6
  <2>9. DistinctResults'
    BY <1>3, <2>3 DEF DistinctResults
  <2>10. QED
    BY <2>4, <2>7, <2>8, <2>9 DEF RequestInv
<1>5. CASE Moves(s, a, i) /\ (UNCHANGED reqs \/ Requested(s, a, i))
  <2>1. Hosts'
    BY <1>2, <1>3, <1>5, SubsAdvanced, HostsStay DEF Moves
  <2>2. Arrayed'
    BY <1>1, <1>2, <1>3, <1>5, MoveArrayed
  <2>3. CASE Requested(s, a, i)
    BY <1>1, <1>2, <1>5, <2>1, <2>2, <2>3, RequestOpens DEF RequestInv
  <2>4. CASE UNCHANGED reqs
    <3>1. AllOpen'
      <4> SUFFICES ASSUME NEW e \in Channels, NEW j \in DOMAIN reqs[e]
                   PROVE  \E o : o = reqs[e][j] /\ Open(o)'
        BY <2>4, AllOpenNext
      <4>1. PICK o : o = reqs[e][j]
        OBVIOUS
      <4>2. Open(o) /\ o.sub \in DOMAIN subs
        BY <1>3, <4>1 DEF AllOpen
      <4>3. Open(o)'
        BY <1>1, <1>2, <1>3, <1>5, <4>2, MoveOpen
      <4>4. QED
        BY <4>1, <4>3
    <3>2. DistinctResults'
      BY <1>3, <2>4 DEF DistinctResults
    <3>3. QED
      BY <2>1, <2>2, <3>1, <3>2 DEF RequestInv
  <2>5. QED
    BY <1>5, <2>3, <2>4
<1>6. QED
  BY <1>2, <1>4, <1>5


-----------------------------------------------------------------------------
(* A pair is credited.                                                     *)

\* The arrays for the requests that are still to be made are not the result array of an
\* open request.
LEMMA PreparedCredit ==
  ASSUME NEW a, NEW q \in DOMAIN Programs, NEW p \in Pos, NEW y, NEW l,
         PreparedAt(a, Programs[q], p), OpenAt(a, Programs[q], p, y, l),
         \A x \in Addrs : Kept(a, x), \A x \in Addrs : x # y => Same(a, x)
  PROVE  PreparedAt(a, Programs[q], p)'
<1> DEFINE body == Programs[q]
<1>1. /\ Len(body) \in Nat /\ DOMAIN body = 1 .. Len(body) /\ p \in Nat
      /\ \A k \in Asks(body) : k \in DOMAIN body /\ body[k].res \in Addrs
  BY BodyFacts DEF Pos
<1>2. PreparedAt(a, body, p) /\ OpenAt(a, body, p, y, l)
  OBVIOUS
<1> HIDE DEF body
<1>3. PICK o \in Asks(body), w \in DOMAIN body :
        body[o].res = y /\ o < p /\ p <= w /\ AwaitedBy(body, o, w, l)
  BY <1>2 DEF OpenAt
<1>4. /\ body[o].op \in {"create_epr", "recv_epr"} /\ body[w].op \in {"wait_all", "wait_single"}
      /\ \A m \in o + 1 .. w - 1 : ~Touches(body[m], y)
      /\ o \in Nat /\ w \in Nat
  BY <1>1, <1>3 DEF Asks, AwaitedBy
<1>5. ASSUME NEW k \in Asks(body), NEW j \in DOMAIN body, NEW f \in DOMAIN body, NEW n \in Sizes,
             PreparedBy(body, k, j, f, n), p <= k
      PROVE  /\ j < p => Size(a, body[k].res, body[j].len)'
             /\ f < p => Fresh(a, body[k].res, n)'
  <2>1. /\ j < p => Size(a, body[k].res, body[j].len)
        /\ f < p => Fresh(a, body[k].res, n)
    BY <1>2, <1>5 DEF PreparedAt
  <2>2. j < p => Size(a, body[k].res, body[j].len)'
    BY <1>1, <2>1, KeptKeeps
  <2>3. CASE body[k].res # y
    <3>1. Same(a, body[k].res)
      BY <1>1, <2>3
    <3>2. QED
      BY <2>1, <2>2, <3>1, SameKeeps
  <2>4. CASE body[k].res = y
    <3>1. k \in Nat /\ f \in Nat /\ j \in Nat /\ body[k].op \in {"create_epr", "recv_epr"}
      BY <1>1 DEF Asks
    <3>2. /\ j <= f /\ f < k /\ \A m \in f + 1 .. k - 1 : ~Touches(body[m], y)
          /\ body[f].op \in {"array", "undef"} /\ body[f].addr = y
      BY <1>5, <2>4, <3>1 DEF PreparedBy, Makes
    <3>3. Touches(body[k], y) /\ Touches(body[f], y) /\ Touches(body[o], y)
      BY <1>3, <1>4, <2>4, <3>1, <3>2 DEF Touches
    <3>4. k >= w
      BY <1>1, <1>3, <1>4, <1>5, <3>1, <3>3
    <3>5. k > w
      <4>1. k # w
        BY <1>4, <3>1
      <4>2. QED
        BY <1>4, <3>1, <3>4, <4>1
    <3>6. o <= f
      BY <1>1, <1>3, <1>4, <3>1, <3>2, <3>3, <3>5
    <3>7. o < f
      <4>1. o # f
        BY <1>4, <3>2
      <4>2. QED
        BY <1>4, <3>1, <3>6, <4>1
    <3>8. w <= f
      BY <1>4, <3>1, <3>3, <3>7
    <3>9. ~(f < p)
      BY <1>1, <1>3, <1>4, <3>1, <3>8
    <3>10. QED
      BY <2>2, <3>9
  <2>5. QED
    BY <2>3, <2>4
<1>6. PreparedAt(a, body, p)'
  BY <1>5 DEF PreparedAt
<1>7. QED
  BY <1>6 DEF body

\* There is room for what an open request is credited with.
LEMMA OpenHasRoom ==
  ASSUME AppTypes, NEW c \in Commands, c.left <= c.tot, Open(c)
  PROVE  /\ HasRoom(c) /\ PairIndex(c) \in Pos /\ PairIndex(c) <= c.tot
         /\ PairIndex(c) = c.tot => c.left = 1
<1>1. c.left \in Nat \ {0} /\ c.tot \in Nat
  BY DEF Commands, Pos
<1>2. /\ PairIndex(c) \in Pos /\ PairIndex(c) <= c.tot
      /\ PairIndex(c) = c.tot => c.left = 1
  BY <1>1 DEF PairIndex, Pos
<1>3. Runs(c.sub) /\ HasEntry(Owner(c), c.res, c.tot)
  BY DEF Open, OpenAt, Fresh
<1>4. arrays[Owner(c)][c.res] \in Seq(Values)
  BY <1>3 DEF HasEntry, HasArray, AppTypes, Dict, Arrays
<1>5. HasEntry(Owner(c), c.res, PairIndex(c))
  BY <1>1, <1>2, <1>3, <1>4 DEF HasEntry, Pos
<1>6. QED
  BY <1>2, <1>3, <1>5 DEF HasRoom, Known, Runs


\* What a credit does to the array of the request.
LEMMA CreditArrays ==
  ASSUME AppTypes, NEW a, NEW y, NEW l, NEW v \in Values, HasEntry(a, y, l),
         arrays' = [arrays EXCEPT ![a][y][l] = v]
  PROVE  /\ OthersSame(a) /\ (\A x : Kept(a, x)) /\ (\A x : x # y => Same(a, x))
         /\ \A n : n # l /\ Fresh(a, y, n) => Fresh(a, y, n)'
<1> DEFINE old == arrays[a][y]
           new == [old EXCEPT ![l] = v]
<1>1. old \in Seq(Values) /\ l \in DOMAIN old
  BY DEF AppTypes, Dict, Arrays, HasEntry, HasArray
<1>2. Len(new) = Len(old) /\ DOMAIN new = DOMAIN old /\ \A n \in DOMAIN old : n # l => new[n] = old[n]
  <2> HIDE DEF old
  <2>1. QED
    BY <1>1, SeqExcept
<1>3. /\ DOMAIN arrays' = DOMAIN arrays
      /\ DOMAIN arrays'[a] = DOMAIN arrays[a]
      /\ arrays'[a][y] = new
      /\ \A x \in DOMAIN arrays[a] : x # y => arrays'[a][x] = arrays[a][x]
      /\ \A d \in DOMAIN arrays : d # a => arrays'[d] = arrays[d]
  BY DEF HasEntry, HasArray
<1> HIDE DEF new
<1>4. OthersSame(a)
  BY <1>3 DEF OthersSame, Same, HasArray
<1>5. \A x : x # y => Same(a, x)
  BY <1>3 DEF Same, HasArray, HasEntry
<1>6. \A x : Kept(a, x)
  BY <1>2, <1>3 DEF Kept, HasArray, HasEntry
<1>7. \A n : n # l /\ Fresh(a, y, n) => Fresh(a, y, n)'
  BY <1>2, <1>3 DEF Fresh, HasEntry, HasArray
<1>8. QED
  BY <1>4, <1>5, <1>6, <1>7

\* The requests after a credit are those before it, without the last pair of the oldest one
\* or without the oldest one.
LEMMA CountedFrom ==
  ASSUME ReqTypes, NEW ch \in Channels, reqs[ch] # <<>>, CountPair(ch),
         NEW e \in Channels, NEW j \in DOMAIN reqs'[e]
  PROVE  LET gone == Head(reqs[ch]).left = 1
             l    == IF e = ch /\ gone THEN j + 1 ELSE j
         IN /\ l \in DOMAIN reqs[e]
            /\ reqs'[e][j].sub = reqs[e][l].sub /\ reqs'[e][j].res = reqs[e][l].res
            /\ reqs'[e][j].tot = reqs[e][l].tot
            /\ j \in Nat
            /\ e = ch /\ l = 1 => ~gone
            /\ e # ch \/ l # 1 => reqs'[e][j] = reqs[e][l]
<1> DEFINE c == Head(reqs[ch])
           d == [c EXCEPT !.left = c.left - 1]
<1>1. /\ reqs \in [Channels -> Seq(Commands)]
  BY DEF ReqTypes
<1>2. PICK u : u = reqs[ch]
  OBVIOUS
<1>3. u \in Seq(Commands) /\ u # <<>> /\ 1 \in DOMAIN u /\ c = u[1] /\ c \in Commands
  BY <1>1, <1>2, SeqFacts
<1>4. d.sub = c.sub /\ d.res = c.res /\ d.tot = c.tot
  BY <1>3 DEF Commands
<1>5. reqs' = [reqs EXCEPT ![ch] = IF c.left = 1 THEN Tail(u) ELSE [u EXCEPT ![1] = d]]
  BY <1>2 DEF CountPair
<1> HIDE DEF c, d
<1>6. CASE e # ch
  <2>1. reqs'[e] = reqs[e] /\ reqs[e] \in Seq(Commands)
    BY <1>1, <1>5, <1>6
  <2>2. j \in Nat
    BY <2>1
  <2>3. QED
    BY <1>6, <2>1, <2>2
<1>7. CASE e = ch /\ c.left = 1
  <2>1. reqs'[e] = Tail(u)
    BY <1>1, <1>5, <1>7
  <2>2. j + 1 \in DOMAIN u /\ Tail(u)[j] = u[j + 1] /\ j \in Nat /\ j + 1 # 1
    BY <1>3, <2>1, SeqFacts
  <2>3. QED
    BY <1>2, <1>7, <2>1, <2>2 DEF c
<1>8. CASE e = ch /\ c.left # 1
  <2>1. reqs'[e] = [u EXCEPT ![1] = d]
    BY <1>1, <1>5, <1>8
  <2>2. j \in DOMAIN u /\ j \in Nat /\ reqs'[e][j] = IF j = 1 THEN d ELSE u[j]
    BY <1>3, <2>1
  <2>3. QED
    BY <1>2, <1>3, <1>4, <1>8, <2>2 DEF c
<1>9. QED
  BY <1>6, <1>7, <1>8


\* A response that can be handled is for an open request.
LEMMA HandledOpen ==
  ASSUME TypeOK, RequestInv, NEW i \in Ready, pending[i].type # "ERR"
  PROVE  LET ch == pending[i].ch
             c  == Request(pending[i])
         IN /\ ch \in Channels /\ reqs[ch] # <<>> /\ c = reqs[ch][1] /\ 1 \in DOMAIN reqs[ch]
            /\ c \in Commands /\ c.left <= c.tot /\ c.sub \in DOMAIN subs /\ Open(c)
            /\ pending[i].tag.id \in Values
<1>1. i \in DOMAIN pending /\ pending \in Seq(Responses) /\ ~MustWait(pending[i])
  BY DEF Ready, TypeOK, EprTypes
<1>2. PICK r : r = pending[i]
  OBVIOUS
<1>3. r \in Responses
  BY <1>1, <1>2, SeqFacts
<1>4. r.ch \in Channels /\ r.tag.id \in Values
  BY <1>3 DEF Responses, Tags, Pos, Values
<1>5. PICK ch \in Channels : ch = r.ch
  BY <1>4
<1>6. /\ reqs[ch] # <<>> /\ reqs[ch] \in Seq(Commands)
      /\ \A j \in DOMAIN reqs[ch] : reqs[ch][j].sub \in DOMAIN subs
                                    /\ reqs[ch][j].left <= reqs[ch][j].tot
  BY <1>1, <1>2, <1>5 DEF MustWait, TypeOK, ReqTypes
<1>7. 1 \in DOMAIN reqs[ch] /\ Head(reqs[ch]) = reqs[ch][1] /\ reqs[ch][1] \in Commands
  BY <1>6, SeqFacts
<1>8. Open(reqs[ch][1])
  BY <1>7 DEF RequestInv, AllOpen
<1>9. Request(pending[i]) = reqs[ch][1]
  BY <1>2, <1>5, <1>7 DEF Request
<1>10. QED
  BY <1>2, <1>4, <1>5, <1>6, <1>7, <1>8, <1>9

\* Handling it loses no response, and keeps the invariant.
LEMMA HandleKeeps ==
  ASSUME TypeOK, RequestInv, NEW i \in Ready, ScanHandle(i)
  PROVE  RequestInv' /\ UNCHANGED raised
<1>1. PICK ch, c, v : ch = pending[i].ch /\ c = Request(pending[i]) /\ v = pending[i].tag.id
  OBVIOUS
<1>2. pending[i].type # "ERR"
  BY DEF ScanHandle
<1>3. /\ ch \in Channels /\ reqs[ch] # <<>> /\ c = reqs[ch][1] /\ 1 \in DOMAIN reqs[ch]
      /\ c \in Commands /\ c.left <= c.tot /\ c.sub \in DOMAIN subs /\ Open(c)
      /\ v \in Values
  BY <1>1, <1>2, HandledOpen
<1>4. /\ HasRoom(c) /\ PairIndex(c) \in Pos /\ PairIndex(c) <= c.tot
      /\ PairIndex(c) = c.tot => c.left = 1
  BY <1>3, OpenHasRoom DEF TypeOK
<1>5. PICK a, y, l : a = Owner(c) /\ y = c.res /\ l = PairIndex(c)
  OBVIOUS
<1>6. /\ CountPair(ch)
      /\ arrays' = [arrays EXCEPT ![a][y][l] = v]
      /\ UNCHANGED <<raised, subs, clearing>>
  BY <1>1, <1>4, <1>5 DEF ScanHandle
<1>7. DOMAIN modules' = DOMAIN modules
  BY DEF ScanHandle, MapQubit
<1>8. /\ OthersSame(a) /\ (\A x : Kept(a, x)) /\ (\A x : x # y => Same(a, x))
      /\ \A n : n # l /\ Fresh(a, y, n) => Fresh(a, y, n)'
  <2>1. HasEntry(a, y, l) /\ AppTypes
    BY <1>4, <1>5 DEF HasRoom, TypeOK
  <2>2. QED
    BY <1>3, <1>6, <2>1, CreditArrays
<1>9. SubTypes /\ ReqTypes /\ Hosts /\ OneRuns /\ Arrayed /\ AllOpen /\ DistinctResults
      /\ \A e \in Channels : \A j \in DOMAIN reqs[e] : reqs[e][j].sub \in DOMAIN subs
  BY DEF TypeOK, ReqTypes, RequestInv, Hosts
<1>10. PICK t : t = c.sub
  OBVIOUS
<1>11. t \in DOMAIN subs /\ Runs(t) /\ App(t) = a
  BY <1>3, <1>5, <1>10 DEF Open, Owner, App
<1>12. Hosts'
  BY <1>6, <1>7, <1>9, HostsStay
<1>13. Arrayed'
  <2> SUFFICES ASSUME NEW r \in DOMAIN subs, subs[r].st = "running"
               PROVE  Prepared(r)'
    BY <1>6 DEF Arrayed, Runs
  <2>1. PICK b, q, p : b = App(r) /\ q = subs[r].prog /\ p = subs[r].pc
    OBVIOUS
  <2>2. /\ q \in DOMAIN Programs /\ p \in Pos /\ PreparedAt(b, Programs[q], p)
        /\ subs'[r].app = b /\ subs'[r].prog = q /\ subs'[r].pc = p
    BY <1>6, <1>9, <2>1, SubFacts DEF Arrayed, Runs, Prepared, App
  <2>3. CASE b # a
    <3>1. \A x \in Addrs : Same(b, x)
      BY <1>8, <2>3 DEF OthersSame
    <3>2. PreparedAt(b, Programs[q], p)'
      BY <2>2, <3>1, PreparedStays
    <3>3. QED
      BY <2>2, <3>2, PreparedNext
  <2>4. CASE b = a
    <3>1. r = t
      BY <1>9, <1>11, <2>1, <2>4 DEF OneRuns, Runs
    <3>2. OpenAt(a, Programs[q], p, y, c.tot)
      BY <1>3, <1>5, <1>9, <1>10, <1>11, <2>1, <3>1, SubFacts DEF Open
    <3>3. PreparedAt(a, Programs[q], p)'
      BY <1>8, <2>2, <2>4, <3>2, PreparedCredit
    <3>4. QED
      BY <2>2, <2>4, <3>3, PreparedNext
  <2>5. QED
    BY <2>3, <2>4
<1>14. ASSUME NEW e \in Channels, NEW j \in DOMAIN reqs'[e]
       PROVE  \E k \in DOMAIN reqs[e] :
                /\ k = IF e = ch /\ c.left = 1 THEN j + 1 ELSE j
                /\ reqs'[e][j].sub = reqs[e][k].sub /\ reqs'[e][j].res = reqs[e][k].res
                /\ reqs'[e][j].tot = reqs[e][k].tot /\ j \in Nat
                /\ e = ch /\ k = 1 => c.left # 1
  <2>1. Head(reqs[ch]) = c
    BY <1>1 DEF Request
  <2>2. QED
    BY <1>3, <1>6, <1>9, <2>1, CountedFrom
<1>15. AllOpen'
  <2> SUFFICES ASSUME NEW e \in Channels, NEW j \in DOMAIN reqs'[e]
               PROVE  \E o : o = reqs'[e][j] /\ Open(o)'
    BY AllOpenNext
  <2>1. PICK k \in DOMAIN reqs[e] :
          /\ reqs'[e][j].sub = reqs[e][k].sub /\ reqs'[e][j].res = reqs[e][k].res
          /\ reqs'[e][j].tot = reqs[e][k].tot
          /\ e = ch /\ k = 1 => c.left # 1
    BY <1>14
  <2>2. PICK o, g : o = reqs'[e][j] /\ g = reqs[e][k]
    OBVIOUS
  <2>3. o.sub = g.sub /\ o.res = g.res /\ o.tot = g.tot /\ Open(g) /\ g.sub \in DOMAIN subs
    BY <1>9, <2>1, <2>2 DEF AllOpen
  <2>4. PICK b, q, p : b = App(g.sub) /\ q = subs[g.sub].prog /\ p = subs[g.sub].pc
    OBVIOUS
  <2>5. /\ OpenAt(b, Programs[q], p, g.res, g.tot) /\ Runs(g.sub)
        /\ subs'[o.sub].app = b /\ subs'[o.sub].prog = q /\ subs'[o.sub].pc = p
        /\ subs'[o.sub].st = "running"
    BY <1>6, <1>9, <2>3, <2>4, SubFacts DEF Open, Runs, Owner, App
  <2>6. OpenAt(b, Programs[q], p, g.res, g.tot)'
    <3>1. CASE b # a
      <4>1. Same(b, g.res)
        BY <1>8, <3>1 DEF OthersSame
      <4>2. QED
        BY <2>5, <4>1, OpenStays
    <3>2. CASE b = a
      <4>1. g.sub = t
        BY <1>9, <1>11, <2>3, <2>4, <2>5, <3>2 DEF OneRuns
      <4>2. CASE g.res # y
        <5>1. Same(b, g.res)
          BY <1>8, <3>2, <4>2
        <5>2. QED
          BY <2>5, <5>1, OpenStays
      <4>3. CASE g.res = y
        <5>1. e = ch /\ k = 1
          BY <1>3, <1>5, <1>9, <1>10, <2>2, <4>1, <4>3 DEF DistinctResults
        <5>2. g.tot = c.tot /\ c.tot # l
          BY <1>3, <1>4, <1>5, <2>1, <2>2, <5>1
        <5>3. Fresh(a, y, g.tot)'
          BY <1>8, <2>5, <3>2, <4>3, <5>2 DEF OpenAt
        <5>4. QED
          BY <2>5, <3>2, <4>3, <5>3 DEF OpenAt
      <4>4. QED
        BY <4>2, <4>3
    <3>3. QED
      BY <3>1, <3>2
  <2>7. Open(o)'
    BY <2>3, <2>5, <2>6, OpenNext
  <2>8. QED
    BY <2>2, <2>7
<1>16. DistinctResults'
  <2> SUFFICES ASSUME NEW e \in Channels, NEW f \in Channels,
                      NEW j \in DOMAIN reqs'[e], NEW m \in DOMAIN reqs'[f],
                      reqs'[e][j].sub = reqs'[f][m].sub, reqs'[e][j].res = reqs'[f][m].res
               PROVE  e = f /\ j = m
    BY DEF DistinctResults
  <2>1. PICK k \in DOMAIN reqs[e] :
          /\ k = IF e = ch /\ c.left = 1 THEN j + 1 ELSE j
          /\ reqs'[e][j].sub = reqs[e][k].sub /\ reqs'[e][j].res = reqs[e][k].res /\ j \in Nat
    BY <1>14
  <2>2. PICK n \in DOMAIN reqs[f] :
          /\ n = IF f = ch /\ c.left = 1 THEN m + 1 ELSE m
          /\ reqs'[f][m].sub = reqs[f][n].sub /\ reqs'[f][m].res = reqs[f][n].res /\ m \in Nat
    BY <1>14
  <2>3. reqs[e][k].sub = reqs[f][n].sub /\ reqs[e][k].res = reqs[f][n].res
    BY <2>1, <2>2
  <2>4. DistinctResults
    BY <1>9
  <2>5. e = f /\ k = n
    BY <2>3, <2>4 DEF DistinctResults
  <2>6. QED
    BY <2>1, <2>2, <2>5
<1>17. QED
  BY <1>6, <1>12, <1>13, <1>15, <1>16 DEF RequestInv


-----------------------------------------------------------------------------
(* The other steps.                                                        *)

\* What neither makes a request nor changes an array of an application that has a running
\* subroutine keeps the invariant; a new subroutine has prepared nothing yet.
LEMMA FrameKeeps ==
  ASSUME TypeOK, RequestInv, Hosts', UNCHANGED reqs, DOMAIN subs \subseteq DOMAIN subs',
         \A r \in DOMAIN subs : subs'[r] = subs[r],
         \A r \in DOMAIN subs' \ DOMAIN subs : subs'[r].prog \in DOMAIN Programs /\ subs'[r].pc = 1,
         \A r \in DOMAIN subs : Runs(r) => \A x : Same(App(r), x)
  PROVE  RequestInv'
<1>1. SubTypes /\ Arrayed /\ AllOpen /\ DistinctResults
      /\ \A e \in Channels : \A j \in DOMAIN reqs[e] : reqs[e][j].sub \in DOMAIN subs
  BY DEF TypeOK, ReqTypes, RequestInv
<1>2. Arrayed'
  <2> SUFFICES ASSUME NEW r \in DOMAIN subs', subs'[r].st = "running"
               PROVE  Prepared(r)'
    BY DEF Arrayed, Runs
  <2>1. PICK b, q, p : b = subs'[r].app /\ q = subs'[r].prog /\ p = subs'[r].pc
    OBVIOUS
  <2>2. CASE r \in DOMAIN subs
    <3>1. /\ q \in DOMAIN Programs /\ PreparedAt(b, Programs[q], p)
          /\ \A x : Same(b, x)
      BY <1>1, <2>1, <2>2, SubFacts DEF Arrayed, Runs, Prepared, App
    <3>2. PreparedAt(b, Programs[q], p)'
      BY <3>1, PreparedStays
    <3>3. QED
      BY <2>1, <3>2, PreparedNext
  <2>3. CASE r \notin DOMAIN subs
    <3>1. q \in DOMAIN Programs /\ p = 1
      BY <2>1, <2>3
    <3>2. \A j \in DOMAIN Programs[q] : ~(j < p)
      BY <3>1, BodyFacts
    <3>3. PreparedAt(b, Programs[q], p)'
      BY <3>2 DEF PreparedAt
    <3>4. QED
      BY <2>1, <3>3, PreparedNext
  <2>4. QED
    BY <2>2, <2>3
<1>3. AllOpen'
  <2> SUFFICES ASSUME NEW e \in Channels, NEW j \in DOMAIN reqs[e]
               PROVE  \E o : o = reqs[e][j] /\ Open(o)'
    BY AllOpenNext
  <2>1. PICK o : o = reqs[e][j]
    OBVIOUS
  <2>2. Open(o) /\ o.sub \in DOMAIN subs
    BY <1>1, <2>1 DEF AllOpen
  <2>3. PICK b, q, p : b = App(o.sub) /\ q = subs[o.sub].prog /\ p = subs[o.sub].pc
    OBVIOUS
  <2>4. /\ OpenAt(b, Programs[q], p, o.res, o.tot) /\ Same(b, o.res)
        /\ subs'[o.sub].app = b /\ subs'[o.sub].prog = q /\ subs'[o.sub].pc = p
        /\ subs'[o.sub].st = "running"
    BY <1>1, <2>2, <2>3, SubFacts DEF Open, Runs, Owner, App
  <2>5. OpenAt(b, Programs[q], p, o.res, o.tot)'
    BY <2>4, OpenStays
  <2>6. Open(o)'
    BY <2>4, <2>5, OpenNext
  <2>7. QED
    BY <2>1, <2>6
<1>4. DistinctResults'
  BY <1>1 DEF DistinctResults
<1>5. QED
  BY <1>2, <1>3, <1>4 DEF RequestInv

\* A step that leaves the applications, the subroutines and the requests alone.
LEMMA UntouchedRequests ==
  ASSUME TypeOK, RequestInv, UNCHANGED <<appVars, subs, reqs>>
  PROVE  RequestInv'
<1>1. /\ UNCHANGED <<modules, clearing, arrays, subs, reqs>>
  BY DEF appVars
<1>2. Hosts'
  BY <1>1, HostsStay DEF RequestInv
<1>3. \A a, x : Same(a, x)
  BY <1>1, ArraysSame
<1>4. QED
  BY <1>1, <1>2, <1>3, FrameKeeps

\* An application is registered, stopped or cleared while no subroutine of it runs.
LEMMA ApplicationKeepsRequests ==
  ASSUME HostBlocks, TypeOK, RequestInv, NEW a \in AppIds,
         InitApplication(a) \/ StopApplication(a) \/ ResumeStop(a)
  PROVE  RequestInv'
<1>1. OneRuns /\ RunningRegistered /\ ClearedApart
  BY DEF RequestInv, Hosts
<1>2. UNCHANGED <<subs, reqs>>
  BY DEF InitApplication, StopApplication, ResumeStop, eprVars
<1>3. \A r \in DOMAIN subs : Runs(r) => App(r) # a
  <2>1. CASE InitApplication(a)
    BY <1>1, <2>1 DEF InitApplication, RunningRegistered
  <2>2. CASE StopApplication(a)
    BY <2>2 DEF StopApplication, Running, Runs, App
  <2>3. CASE ResumeStop(a)
    BY <1>1, <2>3 DEF ResumeStop, RunningRegistered, ClearedApart
  <2>4. QED
    BY <2>1, <2>2, <2>3
<1>4. \A d : d # a => \A x : Same(d, x)
  <2>1. CASE InitApplication(a)
    BY <2>1 DEF InitApplication, Put, Same, HasArray
  <2>2. CASE StopApplication(a) \/ ResumeStop(a)
    <3>1. arrays' = arrays \/ arrays' = Drop(arrays, a)
      BY <2>2 DEF StopApplication, ResumeStop, ReleaseFrom
    <3>2. QED
      BY <3>1 DEF Drop, Same, HasArray
  <2>3. QED
    BY <2>1, <2>2
<1>5. /\ \A d \in DOMAIN modules : d # a => d \in DOMAIN modules'
      /\ DOMAIN modules' \cap DOMAIN clearing' = {}
  <2>1. CASE InitApplication(a)
    <3>1. DOMAIN modules' = DOMAIN modules \cup {a} /\ clearing' = clearing
          /\ a \notin DOMAIN clearing
      BY <2>1 DEF InitApplication, Put
    <3>2. QED
      BY <1>1, <3>1 DEF ClearedApart
  <2>2. ASSUME NEW m, ReleaseFrom(a, m)
        PROVE  DOMAIN clearing' \subseteq DOMAIN clearing \cup {a}
    BY <2>2 DEF ReleaseFrom, Put, Drop
  <2>3. CASE StopApplication(a)
    <3>1. DOMAIN modules' = DOMAIN modules \ {a}
      BY <2>3 DEF StopApplication, Drop
    <3>2. DOMAIN clearing' \subseteq DOMAIN clearing \cup {a}
      BY <2>2, <2>3 DEF StopApplication
    <3>3. QED
      BY <1>1, <3>1, <3>2 DEF ClearedApart
  <2>4. CASE ResumeStop(a)
    <3>1. modules' = modules /\ a \in DOMAIN clearing
      BY <2>4 DEF ResumeStop
    <3>2. DOMAIN clearing' \subseteq DOMAIN clearing \cup {a}
      BY <2>2, <2>4 DEF ResumeStop
    <3>3. QED
      BY <1>1, <3>1, <3>2 DEF ClearedApart
  <2>5. QED
    BY <2>1, <2>3, <2>4
<1>6. Hosts'
  <2>1. OneRuns'
    BY <1>1, <1>2 DEF OneRuns, Runs, App
  <2>2. RunningRegistered'
    BY <1>1, <1>2, <1>3, <1>5 DEF RunningRegistered, Runs, App
  <2>3. QED
    BY <1>5, <2>1, <2>2 DEF Hosts, ClearedApart
<1>7. QED
  BY <1>2, <1>3, <1>4, <1>6, FrameKeeps

\* A subroutine is started when no other of its application runs.
LEMMA StartKeepsRequests ==
  ASSUME HostBlocks, TypeOK, RequestInv, NEW a \in AppIds, StartSubroutine(a)
  PROVE  RequestInv'
<1>1. PICK q \in DOMAIN Programs :
        subs' = Append(subs, [app |-> a, prog |-> q, pc |-> 1, st |-> "running"])
  BY DEF StartSubroutine
<1>2. PICK d : d = [app |-> a, prog |-> q, pc |-> 1, st |-> "running"]
  OBVIOUS
<1>3. d.app = a /\ d.prog = q /\ d.pc = 1 /\ d.st = "running" /\ subs' = Append(subs, d)
  BY <1>1, <1>2
<1>4. subs \in Seq(Subroutines)
  BY DEF TypeOK, SubTypes
<1>5. /\ DOMAIN subs' = DOMAIN subs \cup {Len(subs) + 1} /\ subs'[Len(subs) + 1] = d
      /\ \A r \in DOMAIN subs : subs'[r] = subs[r]
  BY <1>3, <1>4, AppendAny
<1>6. UNCHANGED <<modules, clearing, arrays, reqs>> /\ a \in DOMAIN modules
      /\ \A r \in DOMAIN subs : subs[r].st = "running" => subs[r].app # a
  BY DEF StartSubroutine, appVars, eprVars, Running
<1>7. Hosts'
  <2>1. OneRuns'
    BY <1>3, <1>5, <1>6 DEF RequestInv, Hosts, OneRuns, Runs, App
  <2>2. RunningRegistered'
    BY <1>3, <1>5, <1>6 DEF RequestInv, Hosts, RunningRegistered, Runs, App
  <2>3. ClearedApart'
    BY <1>6 DEF RequestInv, Hosts, ClearedApart
  <2>4. QED
    BY <2>1, <2>2, <2>3 DEF Hosts
<1>8. \A b, x : Same(b, x)
  BY <1>6, ArraysSame
<1>9. QED
  BY <1>3, <1>5, <1>6, <1>7, <1>8, FrameKeeps


-----------------------------------------------------------------------------
(* All steps.                                                              *)

LEMMA InitRequests == Init => RequestInv
<1> SUFFICES ASSUME Init
             PROVE  RequestInv
  OBVIOUS
<1>1. DOMAIN modules = {} /\ DOMAIN subs = {} /\ reqs = [ch \in Channels |-> <<>>]
  BY NoElements DEF Init
<1>2. \A ch \in Channels : DOMAIN reqs[ch] = {}
  BY <1>1, NoElements
<1>3. Hosts /\ Arrayed
  BY <1>1 DEF Hosts, OneRuns, RunningRegistered, ClearedApart, Arrayed
<1>4. AllOpen /\ DistinctResults
  BY <1>2 DEF AllOpen, DistinctResults
<1>5. QED
  BY <1>3, <1>4 DEF RequestInv

LEMMA NextRequests ==
  ASSUME HostBlocks, ProgramsWait, TypeOK, RequestInv, [Next]_vars, NoFailureWithRequests'
  PROVE  RequestInv' /\ ("late" \notin raised => "late" \notin raised')
<1> DEFINE Goal == RequestInv' /\ ("late" \notin raised => "late" \notin raised')
<1>1. ASSUME UNCHANGED <<appVars, subs, reqs>>, "late" \notin raised => "late" \notin raised'
      PROVE  Goal
  BY <1>1, UntouchedRequests
<1>2. CASE UNCHANGED vars
  BY <1>1, <1>2 DEF vars, eprVars
<1>3. ASSUME NEW a \in AppIds, InitApplication(a) \/ StopApplication(a) \/ ResumeStop(a)
      PROVE  Goal
  <2>1. UNCHANGED raised
    BY <1>3 DEF InitApplication, StopApplication, ResumeStop, eprVars
  <2>2. QED
    BY <1>3, <2>1, ApplicationKeepsRequests
<1>4. ASSUME NEW a \in AppIds, StartSubroutine(a)
      PROVE  Goal
  <2>1. UNCHANGED raised
    BY <1>4 DEF StartSubroutine, eprVars
  <2>2. QED
    BY <1>4, <2>1, StartKeepsRequests
<1>5. ASSUME NEW s \in DOMAIN subs, SubroutineStep(s)
      PROVE  Goal
  <2>1. UNCHANGED raised
    BY <1>5 DEF SubroutineStep, ArrayInstr, EntryInstr, QAlloc, QFree, CreateEpr, RecvEpr,
                WaitAll, WaitAny, WaitSingle, RetArr, FinishSubroutine, eprVars
  <2>2. QED
    BY <1>5, <2>1, StepKeeps
<1>6. ASSUME NEW ch \in Channels, GeneratePair(ch) \/ ReportError(ch)
      PROVE  Goal
  <2>1. UNCHANGED <<appVars, subs, reqs, raised>>
    BY <1>6 DEF GeneratePair, ReportError, Report
  <2>2. QED
    BY <1>1, <2>1
<1>7. ASSUME NEW i \in Ready, ScanHandle(i)
      PROVE  Goal
  BY <1>7, HandleKeeps
<1>8. ASSUME NEW i \in Ready, ScanError(i) \/ ScanNoTarget(i) \/ ScanNoModule(i)
      PROVE  Goal
  <2>1. UNCHANGED <<appVars, subs, reqs>>
    BY <1>8 DEF ScanError, ScanNoTarget, ScanNoModule
  <2>2. \E kind \in {"error", "failure", "leak"} : raised' = raised \cup {kind}
    BY <1>8 DEF ScanError, ScanNoTarget, ScanNoModule, Raise
  <2>3. QED
    BY <1>1, <2>1, <2>2
<1>9. CASE ScanEnd \/ Rescan
  BY <1>1, <1>9 DEF ScanEnd, Rescan
<1>10. CASE Scan \/ Rescan
  BY <1>7, <1>8, <1>9, <1>10 DEF Scan
<1>11. CASE Next
  <2>1. \/ \E a \in AppIds : InitApplication(a) \/ StopApplication(a) \/ ResumeStop(a)
                              \/ StartSubroutine(a)
        \/ \E s \in DOMAIN subs : SubroutineStep(s)
        \/ \E ch \in Channels : GeneratePair(ch) \/ ReportError(ch)
        \/ Scan \/ Rescan
    BY <1>11 DEF Next
  <2>2. CASE \E a \in AppIds : InitApplication(a) \/ StopApplication(a) \/ ResumeStop(a)
                               \/ StartSubroutine(a)
    BY <1>3, <1>4, <2>2
  <2>3. CASE \E s \in DOMAIN subs : SubroutineStep(s)
    BY <1>5, <2>3
  <2>4. CASE \E ch \in Channels : GeneratePair(ch) \/ ReportError(ch)
    BY <1>6, <2>4
  <2>5. QED
    BY <1>10, <2>1, <2>2, <2>3, <2>4
<1>12. QED
  BY <1>2, <1>11

LEMMA RequestsAlways ==
  ASSUME HostBlocks, ProgramsWait
  PROVE  Spec /\ []NoFailureWithRequests => [](RequestInv /\ "late" \notin raised)
<1>1. Init => RequestInv /\ "late" \notin raised
  BY InitRequests DEF Init
<1>2. /\ TypeOK /\ RequestInv /\ "late" \notin raised
      /\ [Next]_vars /\ NoFailureWithRequests'
      => (RequestInv /\ "late" \notin raised)'
  BY NextRequests
<1>3. QED
  BY <1>1, <1>2, TypeCorrect, PTL DEF Spec

-----------------------------------------------------------------------------
(* What follows for the requests, the qubits and the pairs.                *)

\* No request outlives its subroutine, and no response is lost half-way, when every
\* subroutine waits for what it asks, the host waits for its subroutines, and no subroutine
\* ends with an error while it has a request: what _store_ent_info looks up is there.
THEOREM NoRequestIsOrphaned ==
  ASSUME HostBlocks, ProgramsWait
  PROVE  Spec /\ []NoFailureWithRequests => []NoOrphanRequest /\ []("late" \notin raised)
<1>1. RequestInv => NoOrphanRequest
  BY DEF RequestInv, AllOpen, Open, Runs, NoOrphanRequest
<1>2. QED
  BY <1>1, RequestsAlways, PTL

\* On such hosts no two virtual qubits are the same physical one.
THEOREM NoQubitIsShared ==
  ASSUME HostBlocks, ProgramsWait
  PROVE  Spec /\ []NoFailureWithRequests => []NoSharedQubit
BY QubitsAccounted, RequestsAlways, PTL

\* On such hosts the physical qubits in use are those that have a holder.
THEOREM NoQubitIsLeaked ==
  ASSUME HostBlocks, ProgramsWait
  PROVE  Spec /\ []NoFailureWithRequests => []NoQubitLeak
BY QubitsAccounted, RequestsAlways, PTL

\* On such hosts, with channels of one type and no errors of the stack, the executor and the
\* stack agree on every pair, and pairs are credited to the requests they were generated for.
THEOREM PairsOnBlockingHosts ==
  ASSUME HostBlocks, ProgramsWait, OneTypePerChannel
  PROVE  Spec /\ []NoFailureWithRequests /\ [](errors = 0) /\ []ReceivesWhatIsSent
           => []PairsConserved /\ CreditsInOrder
<1>1. Spec /\ []NoFailureWithRequests /\ [](errors = 0) /\ []ReceivesWhatIsSent => []Untroubled
  <2>1. errors = 0 /\ "late" \notin raised /\ ReceivesWhatIsSent => Untroubled
    BY DEF Untroubled
  <2>2. QED
    BY <2>1, RequestsAlways, PTL
<1>2. QED
  BY <1>1, PairsAgree, ImplementsPairs, PTL
=============================================================================
