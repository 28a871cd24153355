----------------------------- MODULE PairProofs -----------------------------
(***************************************************************************)
(* The executor and the network stack agree on every pair, and module      *)
(* Executor implements module EprPairs, for all values of the constants.   *)
(***************************************************************************)
EXTENDS ExecutorProofs, SequenceLemmas

\* What is needed of a run: the stack reports no error, no response was lost half-way, and
\* those who receive expect what the remote node sends.
Untroubled == errors = 0 /\ "late" \notin raised /\ ReceivesWhatIsSent

-----------------------------------------------------------------------------
(* The sequences that Owed, InFlight and ToGenerate join.                  *)

OwedBy(q)         == [i \in DOMAIN q |-> OwedTo(q[i])]
ReportedIn(ch, q) == [i \in DOMAIN q |-> ReportedOn(ch, q[i])]
ComingFrom(q)     == [i \in DOMAIN q |-> ToCome(q[i])]
PlannedFrom(k, n) == [i \in 1 .. Len(RemotePlan[k]) - n |-> PlanTags(k, n + i)]

\* The four joined sequences of every channel, before and after a step.
LEMMA JoinedAre ==
  /\ Owed = [ch \in Channels |-> FlattenSeq(OwedBy(reqs[ch]))]
  /\ InFlight = [ch \in Channels |-> FlattenSeq(ReportedIn(ch, pending))]
  /\ ToGenerate = [ch \in Channels |-> FlattenSeq(ComingFrom(net[ch]))]
  /\ Unasked = [k \in Keys |-> FlattenSeq(PlannedFrom(k, issued[<<"recv", k>>]))]
<1>1. Owed = [ch \in Channels |-> FlattenSeq(OwedBy(reqs[ch]))]
  BY DEF Owed, OwedBy
<1>2. InFlight = [ch \in Channels |-> FlattenSeq(ReportedIn(ch, pending))]
  BY DEF InFlight, ReportedIn
<1>3. ToGenerate = [ch \in Channels |-> FlattenSeq(ComingFrom(net[ch]))]
  BY DEF ToGenerate, ComingFrom
<1>4. Unasked = [k \in Keys |-> FlattenSeq(PlannedFrom(k, issued[<<"recv", k>>]))]
  BY DEF Unasked, PlannedFrom
<1>5. QED
  BY <1>1, <1>2, <1>3, <1>4

LEMMA JoinedWillBe ==
  /\ Owed' = [ch \in Channels |-> FlattenSeq(OwedBy(reqs'[ch]))]
  /\ InFlight' = [ch \in Channels |-> FlattenSeq(ReportedIn(ch, pending'))]
  /\ ToGenerate' = [ch \in Channels |-> FlattenSeq(ComingFrom(net'[ch]))]
  /\ Unasked' = [k \in Keys |-> FlattenSeq(PlannedFrom(k, issued'[<<"recv", k>>]))]
<1>1. Owed' = [ch \in Channels |-> FlattenSeq(OwedBy(reqs'[ch]))]
  BY DEF Owed, OwedBy
<1>2. InFlight' = [ch \in Channels |-> FlattenSeq(ReportedIn(ch, pending'))]
  BY DEF InFlight, ReportedIn
<1>3. ToGenerate' = [ch \in Channels |-> FlattenSeq(ComingFrom(net'[ch]))]
  BY DEF ToGenerate, ComingFrom
<1>4. Unasked' = [k \in Keys |-> FlattenSeq(PlannedFrom(k, issued'[<<"recv", k>>]))]
  BY DEF Unasked, PlannedFrom
<1>5. QED
  BY <1>1, <1>2, <1>3, <1>4

\* A run of pairs.
LEMMA RunTyped ==
  ASSUME NEW k \in Nat, NEW n \in Nat, NEW id \in Pos
  PROVE  /\ PairsAfter(k, n, id) \in Seq(Tags)
         /\ Len(PairsAfter(k, n, id)) = n
         /\ \A j \in 1 .. n : PairsAfter(k, n, id)[j] = [id |-> id, pair |-> k + j]
<1>1. \A j \in 1 .. n : [id |-> id, pair |-> k + j] \in Tags
  BY DEF Tags, Pos
<1>2. QED
  BY <1>1 DEF PairsAfter

\* The first pair of a run, and the pairs after it.
LEMMA RunFirst ==
  ASSUME NEW k \in Nat, NEW n \in Nat, NEW id \in Pos
  PROVE  PairsAfter(k, n + 1, id) = Cat(<<[id |-> id, pair |-> k + 1]>>, PairsAfter(k + 1, n, id))
<1> DEFINE e == [id |-> id, pair |-> k + 1]
           o == <<e>>
           f == PairsAfter(k, n + 1, id)
           g == PairsAfter(k + 1, n, id)
<1>1. e \in Tags
  BY DEF Tags, Pos
<1>2. o \in Seq(Tags) /\ Len(o) = 1 /\ o[1] = e
  <2> HIDE DEF e
  <2>1. QED
    BY <1>1
<1>3. /\ f \in Seq(Tags) /\ Len(f) = n + 1
      /\ \A j \in 1 .. n + 1 : f[j] = [id |-> id, pair |-> k + j]
  <2>1. n + 1 \in Nat
    OBVIOUS
  <2>2. QED
    BY <2>1, RunTyped
<1>4. /\ g \in Seq(Tags) /\ Len(g) = n
      /\ \A j \in 1 .. n : g[j] = [id |-> id, pair |-> k + 1 + j]
  <2>1. k + 1 \in Nat
    OBVIOUS
  <2>2. QED
    BY <2>1, RunTyped
<1> DEFINE h == Cat(o, g)
<1> HIDE DEF e, o, f, g
<1>5. /\ h \in Seq(Tags) /\ Len(h) = Len(o) + Len(g)
      /\ \A j \in 1 .. Len(o) + Len(g) : h[j] = IF j <= Len(o) THEN o[j] ELSE g[j - Len(o)]
  BY <1>2, <1>4, CatMembers
<1> HIDE DEF h
<1>6. Len(f) = Len(h)
  BY <1>2, <1>3, <1>4, <1>5
<1>7. ASSUME NEW j \in 1 .. Len(f)
      PROVE  f[j] = h[j]
  <2>1. j \in 1 .. n + 1 /\ j \in 1 .. Len(o) + Len(g)
    BY <1>2, <1>3, <1>4
  <2>2. f[j] = [id |-> id, pair |-> k + j]
    BY <1>3, <2>1
  <2>3. h[j] = IF j <= 1 THEN o[j] ELSE g[j - 1]
    BY <1>2, <1>5, <2>1
  <2>4. CASE j = 1
    BY <1>2, <2>2, <2>3, <2>4 DEF e
  <2>5. CASE j # 1
    <3>1. j - 1 \in 1 .. n /\ ~(j <= 1) /\ k + 1 + (j - 1) = k + j
      BY <2>1, <2>5
    <3>2. g[j - 1] = [id |-> id, pair |-> k + j]
      BY <1>4, <3>1
    <3>3. QED
      BY <2>2, <2>3, <3>1, <3>2
  <2>6. QED
    BY <2>4, <2>5
<1>8. f = h
  BY <1>3, <1>5, <1>6, <1>7, SameMembers
<1>9. QED
  BY <1>8 DEF e, f, g, h, o

LEMMA OwedToTyped ==
  ASSUME NEW c \in Commands, c.left <= c.tot
  PROVE  OwedTo(c) \in Seq(Tags) /\ Len(OwedTo(c)) = c.left
<1>1. c.id \in Pos /\ c.left \in Nat /\ c.tot - c.left \in Nat
  BY DEF Commands, Pos
<1>2. QED
  BY <1>1, RunTyped DEF OwedTo

LEMMA ToComeTyped ==
  ASSUME NEW r \in Requests, r.done < r.num
  PROVE  ToCome(r) \in Seq(Tags)
<1>1. r.id \in Pos /\ r.num - r.done \in Nat /\ r.done \in Nat
  BY DEF Requests, Pos
<1>2. QED
  BY <1>1, RunTyped DEF ToCome

LEMMA PlanTyped ==
  ASSUME NEW k \in Keys, NEW i \in 1 .. Len(RemotePlan[k])
  PROVE  PlanTags(k, i) \in Seq(Tags)
<1>1. RemotePlan[k][i].num \in Nat
  <2> DEFINE P    == [type : {"K", "M"}, num : Sizes]
             plan == RemotePlan[k]
  <2>1. plan \in Seq(P) /\ Sizes \subseteq Nat
    BY ConstantsAssumption DEF Pos
  <2> HIDE DEF P
  <2>2. plan[i] \in P
    BY <2>1, SeqFacts
  <2>3. QED
    BY <2>1, <2>2 DEF P
<1>2. i \in Pos
  BY DEF Pos
<1>3. QED
  BY <1>1, <1>2, RunTyped DEF PlanTags

LEMMA ReportedTyped ==
  ASSUME NEW r \in Responses, NEW ch
  PROVE  ReportedOn(ch, r) \in Seq(Tags)
  BY DEF ReportedOn, Responses

\* What is owed to a table of requests: it grows at the end with a new request,
Sound(q) == q \in Seq(Commands) /\ \A i \in DOMAIN q : q[i].left <= q[i].tot

LEMMA OwedByTyped ==
  ASSUME NEW q, Sound(q)
  PROVE  OwedBy(q) \in Seq(Seq(Tags)) /\ Len(OwedBy(q)) = Len(q)
<1>1. DOMAIN q = 1 .. Len(q) /\ Len(q) \in Nat /\ \A i \in DOMAIN q : q[i] \in Commands
  BY SeqFacts DEF Sound
<1>2. \A i \in DOMAIN q : OwedTo(q[i]) \in Seq(Tags)
  BY <1>1, OwedToTyped DEF Sound
<1>3. OwedBy(q) \in [1 .. Len(q) -> Seq(Tags)]
  BY <1>1, <1>2 DEF OwedBy
<1>4. QED
  BY <1>1, <1>3

LEMMA OwedByAppend ==
  ASSUME NEW q, Sound(q), NEW c \in Commands, c.left <= c.tot
  PROVE  FlattenSeq(OwedBy(Append(q, c))) = Cat(FlattenSeq(OwedBy(q)), OwedTo(c))
<1>1. OwedBy(q) \in Seq(Seq(Tags)) /\ OwedTo(c) \in Seq(Tags)
  BY OwedByTyped, OwedToTyped
<1>2. OwedBy(Append(q, c)) = Append(OwedBy(q), OwedTo(c))
  <2>1. q \in Seq(Commands)
    BY DEF Sound
  <2>2. QED
    BY <2>1 DEF OwedBy
<1>3. QED
  BY <1>1, <1>2, CatFlattenAppend

\* and loses its first pair when one is credited.
NextOwed(c) == [id |-> c.id, pair |-> c.tot - c.left + 1]
AfterCredit(q) == IF Head(q).left = 1 THEN Tail(q)
                  ELSE [q EXCEPT ![1] = [Head(q) EXCEPT !.left = Head(q).left - 1]]

LEMMA OwedByCount ==
  ASSUME NEW q, Sound(q), q # <<>>
  PROVE  FlattenSeq(OwedBy(q)) = Cat(<<NextOwed(Head(q))>>, FlattenSeq(OwedBy(AfterCredit(q))))
<1> DEFINE c == Head(q)
           e == NextOwed(c)
           w == AfterCredit(q)
           d == [c EXCEPT !.left = c.left - 1]
           u == OwedBy(Tail(q))
<1>1. /\ q \in Seq(Commands) /\ c \in Commands /\ c.left <= c.tot /\ c = q[1]
      /\ Tail(q) \in Seq(Commands)
      /\ \A i \in DOMAIN Tail(q) : Tail(q)[i] = q[i + 1] /\ i + 1 \in DOMAIN q
  BY SeqFacts DEF Sound
<1>2. /\ c.id \in Pos /\ c.left \in Nat \ {0} /\ c.tot \in Nat /\ c.tot - c.left \in Nat
  BY <1>1 DEF Commands, Pos
<1>3. e \in Tags
  <2>1. c.tot - c.left + 1 \in Pos
    BY <1>2 DEF Pos
  <2>2. QED
    BY <1>2, <2>1 DEF Tags, NextOwed
<1>4. Sound(Tail(q))
  BY <1>1 DEF Sound
<1>5. u \in Seq(Seq(Tags)) /\ OwedTo(c) \in Seq(Tags)
  BY <1>1, <1>4, OwedByTyped, OwedToTyped
<1>6. FlattenSeq(OwedBy(q)) = Cat(OwedTo(c), FlattenSeq(u))
  <2>1. OwedBy(q) # <<>> /\ Head(OwedBy(q)) = OwedTo(c) /\ Tail(OwedBy(q)) = u
    BY <1>1 DEF OwedBy
  <2>2. OwedBy(q) \in Seq(Seq(Tags))
    BY OwedByTyped
  <2> HIDE DEF u
  <2>3. QED
    BY <2>1, <2>2, CatFlattenFirst
<1>7. CASE c.left = 1
  <2>1. OwedTo(c) = <<e>>
    BY <1>2, <1>7 DEF OwedTo, PairsAfter, NextOwed
  <2>2. QED
    BY <1>6, <1>7, <2>1 DEF AfterCredit
<1>8. CASE c.left # 1
  <2>1. d \in Commands /\ d.left <= d.tot /\ d.left = c.left - 1 /\ d.tot = c.tot /\ d.id = c.id
    <3>1. c.left - 1 \in Pos /\ c.left - 1 <= c.tot
      BY <1>1, <1>2, <1>8 DEF Pos
    <3>2. QED
      BY <1>1, <3>1 DEF Commands
  <2>2. OwedTo(c) = Cat(<<e>>, OwedTo(d))
    <3>1. /\ c.left - 1 \in Nat /\ c.left = c.left - 1 + 1
          /\ c.tot - (c.left - 1) = c.tot - c.left + 1
      BY <1>2
    <3>2. OwedTo(d) = PairsAfter(c.tot - c.left + 1, c.left - 1, c.id)
      BY <2>1, <3>1 DEF OwedTo
    <3>3. PairsAfter(c.tot - c.left, c.left - 1 + 1, c.id)
            = Cat(<<e>>, PairsAfter(c.tot - c.left + 1, c.left - 1, c.id))
      BY <1>2, <3>1, RunFirst DEF NextOwed
    <3>4. QED
      BY <3>1, <3>2, <3>3 DEF OwedTo
  <2>3. w = [q EXCEPT ![1] = d]
    BY <1>8 DEF AfterCredit
  <2>4. /\ w \in Seq(Commands) /\ w # <<>> /\ w[1] = d /\ Len(w) = Len(q)
        /\ DOMAIN w = DOMAIN q /\ \A i \in DOMAIN q : i # 1 => w[i] = q[i]
    BY <1>1, <2>1, <2>3
  <2>5. Sound(w)
    BY <1>1, <2>1, <2>4 DEF Sound
  <2>6. OwedBy(w) # <<>> /\ Head(OwedBy(w)) = OwedTo(d) /\ Tail(OwedBy(w)) = u
    BY <1>1, <2>4 DEF OwedBy
  <2>7. OwedBy(w) \in Seq(Seq(Tags))
    BY <2>5, OwedByTyped
  <2> HIDE DEF u, d
  <2>8. FlattenSeq(OwedBy(w)) = Cat(OwedTo(d), FlattenSeq(u))
    BY <2>6, <2>7, CatFlattenFirst
  <2>9. Cat(Cat(<<e>>, OwedTo(d)), FlattenSeq(u)) = Cat(<<e>>, Cat(OwedTo(d), FlattenSeq(u)))
    <3>1. OwedTo(d) \in Seq(Tags) /\ FlattenSeq(u) \in Seq(Tags)
      BY <1>5, <2>1, OwedToTyped, FlattenTyped
    <3>2. PICK o : o = <<e>>
      OBVIOUS
    <3>3. o \in Seq(Tags)
      BY <1>3, <3>2
    <3>4. Cat(Cat(o, OwedTo(d)), FlattenSeq(u)) = Cat(o, Cat(OwedTo(d), FlattenSeq(u)))
      BY <3>1, <3>3, CatAssociative
    <3>5. QED
      BY <3>2, <3>4
  <2>10. QED
    BY <1>6, <2>2, <2>8, <2>9
<1>9. QED
  BY <1>7, <1>8

\* What is reported on a channel grows at the end with a report on it,
LEMMA ReportedInTyped ==
  ASSUME NEW q \in Seq(Responses), NEW ch
  PROVE  ReportedIn(ch, q) \in Seq(Seq(Tags)) /\ Len(ReportedIn(ch, q)) = Len(q)
<1>1. DOMAIN q = 1 .. Len(q) /\ Len(q) \in Nat /\ \A i \in DOMAIN q : q[i] \in Responses
  BY SeqFacts
<1>2. \A i \in DOMAIN q : ReportedOn(ch, q[i]) \in Seq(Tags)
  BY <1>1, ReportedTyped
<1>3. ReportedIn(ch, q) \in [1 .. Len(q) -> Seq(Tags)]
  BY <1>1, <1>2 DEF ReportedIn
<1>4. QED
  BY <1>1, <1>3

LEMMA ReportedInAppend ==
  ASSUME NEW q \in Seq(Responses), NEW r \in Responses, NEW ch
  PROVE  FlattenSeq(ReportedIn(ch, Append(q, r))) =
           IF r.ch = ch THEN Append(FlattenSeq(ReportedIn(ch, q)), r.tag)
           ELSE FlattenSeq(ReportedIn(ch, q))
<1>1. ReportedIn(ch, q) \in Seq(Seq(Tags)) /\ ReportedOn(ch, r) \in Seq(Tags)
  BY ReportedInTyped, ReportedTyped
<1>2. ReportedIn(ch, Append(q, r)) = Append(ReportedIn(ch, q), ReportedOn(ch, r))
  BY DEF ReportedIn
<1> DEFINE f == FlattenSeq(ReportedIn(ch, q))
<1>3. f \in Seq(Tags) /\ FlattenSeq(ReportedIn(ch, Append(q, r))) = Cat(f, ReportedOn(ch, r))
  BY <1>1, <1>2, FlattenTyped, CatFlattenAppend
<1> HIDE DEF f
<1>4. CASE r.ch = ch
  <2>1. ReportedOn(ch, r) = <<r.tag>>
    BY <1>4 DEF ReportedOn
  <2>2. r.tag \in Tags
    BY DEF Responses
  <2>3. Cat(f, <<r.tag>>) = Append(f, r.tag)
    BY <1>3, <2>2 DEF Cat
  <2>4. QED
    BY <1>3, <1>4, <2>1, <2>3 DEF f
<1>5. CASE r.ch # ch
  <2>1. ReportedOn(ch, r) = <<>>
    BY <1>5 DEF ReportedOn
  <2>2. QED
    BY <1>3, <1>5, <2>1, CatEmpty DEF f
<1>6. QED
  BY <1>4, <1>5

\* and loses its first pair when the first response of the channel is handled.
LEMMA ReportedInRemove ==
  ASSUME NEW q \in Seq(Responses), NEW i \in DOMAIN q, NEW ch
  PROVE  /\ q[i].ch # ch =>
              FlattenSeq(ReportedIn(ch, RemoveAt(q, i))) = FlattenSeq(ReportedIn(ch, q))
         /\ q[i].ch = ch /\ (\A j \in 1 .. i - 1 : q[j].ch # ch) =>
              FlattenSeq(ReportedIn(ch, q)) =
                Cat(<<q[i].tag>>, FlattenSeq(ReportedIn(ch, RemoveAt(q, i))))
<1> DEFINE m == ReportedIn(ch, q)
           r == RemoveAt(q, i)
<1>1. Len(q) \in Nat /\ DOMAIN q = 1 .. Len(q) /\ i \in 1 .. Len(q)
  BY SeqFacts
<1>2. /\ m \in Seq(Seq(Tags)) /\ Len(m) = Len(q)
      /\ \A j \in 1 .. Len(q) : m[j] = ReportedOn(ch, q[j])
  BY <1>1, ReportedInTyped DEF ReportedIn
<1>3. /\ r \in Seq(Responses) /\ Len(r) = Len(q) - 1
      /\ \A j \in DOMAIN r : r[j] = IF j < i THEN q[j] ELSE q[j + 1]
  BY RemoveAtFacts
<1>4. ReportedIn(ch, r) \in Seq(Seq(Tags)) /\ Len(ReportedIn(ch, r)) = Len(q) - 1
  BY <1>3, ReportedInTyped
<1> HIDE DEF m, r
<1>5. ReportedIn(ch, r) = RemoveAt(m, i)
  <2>1. /\ RemoveAt(m, i) \in Seq(Seq(Tags)) /\ Len(RemoveAt(m, i)) = Len(q) - 1
        /\ \A j \in DOMAIN RemoveAt(m, i) : RemoveAt(m, i)[j] = IF j < i THEN m[j] ELSE m[j + 1]
    <3>1. i \in DOMAIN m
      BY <1>1, <1>2, SeqFacts
    <3>2. QED
      BY <1>2, <3>1, RemoveAtFacts
  <2>2. DOMAIN r = 1 .. Len(q) - 1 /\ DOMAIN RemoveAt(m, i) = 1 .. Len(q) - 1
    BY <1>3, <2>1, SeqFacts
  <2>3. ASSUME NEW j \in 1 .. Len(q) - 1
        PROVE  ReportedIn(ch, r)[j] = RemoveAt(m, i)[j]
    <3>1. ReportedIn(ch, r)[j] = ReportedOn(ch, r[j])
      BY <2>2 DEF ReportedIn
    <3>2. j \in 1 .. Len(q) /\ j + 1 \in 1 .. Len(q)
      BY <1>1
    <3>3. QED
      BY <1>2, <1>3, <2>1, <2>2, <3>1, <3>2
  <2>4. QED
    BY <1>4, <2>1, <2>3, SameMembers
<1>6. ASSUME q[i].ch # ch
      PROVE  FlattenSeq(ReportedIn(ch, r)) = FlattenSeq(m)
  <2>1. m[i] = <<>>
    BY <1>1, <1>2, <1>6 DEF ReportedOn
  <2>2. QED
    BY <1>1, <1>2, <1>5, <2>1, FlattenRemoveEmpty
<1>7. ASSUME q[i].ch = ch, \A j \in 1 .. i - 1 : q[j].ch # ch
      PROVE  FlattenSeq(m) = Cat(<<q[i].tag>>, FlattenSeq(ReportedIn(ch, r)))
  <2>1. m[i] = <<q[i].tag>>
    BY <1>1, <1>2, <1>7 DEF ReportedOn
  <2>2. ASSUME NEW j \in 1 .. i - 1
        PROVE  m[j] = <<>>
    <3>1. j \in 1 .. Len(q) /\ q[j].ch # ch
      BY <1>1, <1>7
    <3>2. QED
      BY <1>2, <3>1 DEF ReportedOn
  <2>3. FlattenSeq(m) = Cat(m[i], FlattenSeq(RemoveAt(m, i)))
    BY <1>1, <1>2, <2>2, FlattenRemoveFirst
  <2>4. QED
    BY <1>5, <2>1, <2>3
<1>8. QED
  BY <1>6, <1>7 DEF m, r

\* What is to come from the requests the stack works on.
Working(q) == q \in Seq(Requests) /\ \A i \in DOMAIN q : q[i].done < q[i].num

LEMMA ComingTyped ==
  ASSUME NEW q, Working(q)
  PROVE  ComingFrom(q) \in Seq(Seq(Tags)) /\ Len(ComingFrom(q)) = Len(q)
<1>1. DOMAIN q = 1 .. Len(q) /\ Len(q) \in Nat /\ \A i \in DOMAIN q : q[i] \in Requests
  BY SeqFacts DEF Working
<1>2. \A i \in DOMAIN q : ToCome(q[i]) \in Seq(Tags)
  BY <1>1, ToComeTyped DEF Working
<1>3. ComingFrom(q) \in [1 .. Len(q) -> Seq(Tags)]
  BY <1>1, <1>2 DEF ComingFrom
<1>4. QED
  BY <1>1, <1>3

LEMMA ComingAppend ==
  ASSUME NEW q, Working(q), NEW r \in Requests, r.done < r.num
  PROVE  FlattenSeq(ComingFrom(Append(q, r))) = Cat(FlattenSeq(ComingFrom(q)), ToCome(r))
<1>1. ComingFrom(q) \in Seq(Seq(Tags)) /\ ToCome(r) \in Seq(Tags)
  BY ComingTyped, ToComeTyped
<1>2. ComingFrom(Append(q, r)) = Append(ComingFrom(q), ToCome(r))
  <2>1. q \in Seq(Requests)
    BY DEF Working
  <2>2. QED
    BY <2>1 DEF ComingFrom
<1>3. QED
  BY <1>1, <1>2, CatFlattenAppend

\* A pair is generated: the rest is what the stack goes on with.
NextPair(r) == [id |-> r.id, pair |-> r.done + 1]
AfterPair(q) == IF Head(q).done + 1 = Head(q).num THEN Tail(q) ELSE [q EXCEPT ![1].done = @ + 1]

LEMMA ComingGenerate ==
  ASSUME NEW q, Working(q), q # <<>>
  PROVE  /\ Working(AfterPair(q))
         /\ \A i \in DOMAIN AfterPair(q) : \E j \in DOMAIN q :
              /\ AfterPair(q)[i].type = q[j].type
              /\ AfterPair(q)[i].id = q[j].id
              /\ AfterPair(q)[i].num = q[j].num
         /\ FlattenSeq(ComingFrom(q))
              = Cat(<<NextPair(Head(q))>>, FlattenSeq(ComingFrom(AfterPair(q))))
<1> DEFINE r == Head(q)
           e == NextPair(r)
           w == AfterPair(q)
           d == [r EXCEPT !.done = r.done + 1]
           u == ComingFrom(Tail(q))
<1>1. /\ q \in Seq(Requests) /\ r \in Requests /\ r.done < r.num /\ r = q[1] /\ 1 \in DOMAIN q
      /\ Tail(q) \in Seq(Requests)
      /\ \A i \in DOMAIN Tail(q) : Tail(q)[i] = q[i + 1] /\ i + 1 \in DOMAIN q
  BY SeqFacts DEF Working
<1>2. r.id \in Pos /\ r.num \in Nat /\ r.done \in Nat
  BY <1>1 DEF Requests, Pos
<1>3. e \in Tags
  BY <1>2 DEF Tags, Pos, NextPair
<1>4. Working(Tail(q))
  BY <1>1 DEF Working
<1>5. u \in Seq(Seq(Tags)) /\ ToCome(r) \in Seq(Tags)
  BY <1>1, <1>4, ComingTyped, ToComeTyped
<1>6. FlattenSeq(ComingFrom(q)) = Cat(ToCome(r), FlattenSeq(u))
  <2>1. ComingFrom(q) # <<>> /\ Head(ComingFrom(q)) = ToCome(r) /\ Tail(ComingFrom(q)) = u
    BY <1>1 DEF ComingFrom
  <2>2. ComingFrom(q) \in Seq(Seq(Tags))
    BY ComingTyped
  <2> HIDE DEF u
  <2>3. QED
    BY <2>1, <2>2, CatFlattenFirst
<1>7. CASE r.done + 1 = r.num
  <2>1. ToCome(r) = <<e>>
    BY <1>2, <1>7 DEF ToCome, PairsAfter, NextPair
  <2>2. w = Tail(q)
    BY <1>7 DEF AfterPair
  <2>3. QED
    BY <1>1, <1>4, <1>6, <2>1, <2>2
<1>8. CASE r.done + 1 # r.num
  <2>1. /\ d \in Requests /\ d.done = r.done + 1 /\ d.num = r.num /\ d.id = r.id
        /\ d.type = r.type /\ d.done < d.num
    <3>1. r.done + 1 \in Nat /\ r.done + 1 < r.num
      BY <1>1, <1>2, <1>8
    <3>2. QED
      BY <1>1, <3>1 DEF Requests
  <2>2. w = [q EXCEPT ![1] = d]
    BY <1>1, <1>8 DEF AfterPair
  <2>3. /\ w \in Seq(Requests) /\ w # <<>> /\ w[1] = d /\ Len(w) = Len(q)
        /\ DOMAIN w = DOMAIN q /\ \A i \in DOMAIN q : i # 1 => w[i] = q[i]
    <3> HIDE DEF d
    <3>1. QED
      BY <1>1, <2>1, <2>2
  <2>4. Working(w)
    BY <2>1, <2>3 DEF Working
  <2>5. ASSUME NEW i \in DOMAIN w
        PROVE  w[i].type = q[i].type /\ w[i].id = q[i].id /\ w[i].num = q[i].num
    BY <1>1, <2>1, <2>3
  <2>6. ComingFrom(w) # <<>> /\ Head(ComingFrom(w)) = ToCome(d) /\ Tail(ComingFrom(w)) = u
    BY <1>1, <2>3 DEF ComingFrom
  <2>7. ComingFrom(w) \in Seq(Seq(Tags)) /\ ToCome(d) \in Seq(Tags)
    BY <2>1, <2>4, ComingTyped, ToComeTyped
  <2>8. ToCome(r) = Cat(<<e>>, ToCome(d))
    <3>1. r.num - (r.done + 1) \in Nat /\ r.num - r.done = r.num - (r.done + 1) + 1
      BY <1>1, <1>2, <1>8
    <3>2. PairsAfter(r.done, r.num - (r.done + 1) + 1, r.id)
            = Cat(<<e>>, PairsAfter(r.done + 1, r.num - (r.done + 1), r.id))
      BY <1>2, <3>1, RunFirst DEF NextPair
    <3>3. QED
      BY <2>1, <3>1, <3>2 DEF ToCome
  <2> HIDE DEF u, d
  <2>9. FlattenSeq(ComingFrom(w)) = Cat(ToCome(d), FlattenSeq(u))
    BY <2>6, <2>7, CatFlattenFirst
  <2>10. Cat(Cat(<<e>>, ToCome(d)), FlattenSeq(u)) = Cat(<<e>>, Cat(ToCome(d), FlattenSeq(u)))
    <3>1. FlattenSeq(u) \in Seq(Tags)
      BY <1>5, FlattenTyped
    <3>2. PICK o : o = <<e>>
      OBVIOUS
    <3>3. o \in Seq(Tags)
      BY <1>3, <3>2
    <3>4. Cat(Cat(o, ToCome(d)), FlattenSeq(u)) = Cat(o, Cat(ToCome(d), FlattenSeq(u)))
      BY <2>7, <3>1, <3>3, CatAssociative
    <3>5. QED
      BY <3>2, <3>4
  <2>11. QED
    BY <1>6, <2>3, <2>4, <2>5, <2>8, <2>9, <2>10
<1>9. QED
  BY <1>7, <1>8

-----------------------------------------------------------------------------
(* What the steps do to the pairs of a channel.                            *)

\* The requests the stack works on ask for a number of pairs that is not reached yet, and
\* have been made, by this node or by the remote one.
StackSound ==
  \A ch \in Channels :
    /\ Working(net[ch])
    /\ \A i \in DOMAIN net[ch] :
         /\ net[ch][i].num \in Sizes
         /\ net[ch][i].id \in (1 .. issued[ch]) \cup (1 .. Announced[ch])

\* Nothing happens to the pairs.
PairsUntouched == UNCHANGED <<reqs, pending, net, issued>>

LEMMA UntouchedEffect ==
  ASSUME PairsUntouched
  PROVE  UNCHANGED <<Owed, InFlight, ToGenerate, Unasked, issued>>
  BY JoinedAre, JoinedWillBe DEF PairsUntouched

\* A request of n pairs is entered in the table of a channel.
LEMMA EnqueueEffect ==
  ASSUME TypeOK, NEW s \in DOMAIN subs, NEW ch \in Channels, NEW n \in Pos,
         Instr(s).qarr \in Addrs \cup {None}, Instr(s).res \in Addrs, Enqueue(s, ch, n)
  PROVE  /\ Owed' = [Owed EXCEPT ![ch] = Cat(@, PairsAfter(0, n, issued[ch] + 1))]
         /\ issued' = [issued EXCEPT ![ch] = @ + 1]
         /\ \E c \in Commands : /\ reqs' = [reqs EXCEPT ![ch] = Append(@, c)]
                                /\ c.tot = n /\ c.id = issued[ch] + 1
<1> DEFINE c == [sub |-> s, id |-> issued[ch] + 1, qarr |-> Instr(s).qarr,
                 res |-> Instr(s).res, tot |-> n, left |-> n]
<1>1. c \in Commands /\ c.left <= c.tot /\ c.tot = n /\ c.id = issued[ch] + 1 /\ c.left = n
  <2>1. s \in Pos
    BY SeqFacts DEF TypeOK, SubTypes, Pos
  <2>2. issued[ch] + 1 \in Pos
    BY DEF TypeOK, NetTypes, Pos
  <2>3. QED
    BY <2>1, <2>2 DEF Commands, Pos
<1>2. /\ reqs' = [reqs EXCEPT ![ch] = Append(@, c)]
      /\ issued' = [issued EXCEPT ![ch] = @ + 1]
  BY DEF Enqueue
<1>3. OwedTo(c) = PairsAfter(0, n, issued[ch] + 1)
  <2>1. n - n = 0
    BY DEF Pos
  <2>2. QED
    BY <1>1, <2>1 DEF OwedTo
<1> HIDE DEF c
<1>4. Sound(reqs[ch]) /\ reqs \in [Channels -> Seq(Commands)]
  BY DEF TypeOK, ReqTypes, Sound
<1>5. FlattenSeq(OwedBy(Append(reqs[ch], c))) = Cat(FlattenSeq(OwedBy(reqs[ch])), OwedTo(c))
  BY <1>1, <1>4, OwedByAppend
<1>6. ASSUME NEW d \in Channels
      PROVE  reqs'[d] = IF d = ch THEN Append(reqs[ch], c) ELSE reqs[d]
  BY <1>2, <1>4
<1>7. Owed' = [Owed EXCEPT ![ch] = Cat(@, PairsAfter(0, n, issued[ch] + 1))]
  BY <1>3, <1>5, <1>6, JoinedAre, JoinedWillBe
<1>8. QED
  BY <1>1, <1>2, <1>7

\* create_epr makes a request of this node, of which the stack has everything to do.
LEMMA CreateEffect ==
  ASSUME TypeOK, StackSound, NEW s \in DOMAIN subs, CreateEpr(s), ~UNCHANGED issued
  PROVE  \E k \in Keys, n \in Sizes :
           LET ch == <<"create", k>>
               run == PairsAfter(0, n, issued[ch] + 1)
           IN /\ Instr(s).key = k
              /\ issued' = [issued EXCEPT ![ch] = @ + 1]
              /\ Owed' = [Owed EXCEPT ![ch] = Cat(@, run)]
              /\ ToGenerate' = [ToGenerate EXCEPT ![ch] = Cat(@, run)]
              /\ UNCHANGED <<InFlight, Unasked>>
              /\ net' = [net EXCEPT ![ch] =
                           Append(@, [id |-> issued[ch] + 1, type |-> Instr(s).type,
                                      num |-> n, done |-> 0])]
<1> DEFINE k == Instr(s).key
           n == Instr(s).num
           ch == <<"create", k>>
           r == [id |-> issued[ch] + 1, type |-> Instr(s).type, num |-> n, done |-> 0]
<1>1. /\ k \in Keys /\ n \in Sizes /\ n \in Pos /\ Instr(s).type \in {"K", "M"}
      /\ Instr(s).qarr \in Addrs \cup {None} /\ Instr(s).res \in Addrs
  <2>1. SubTypes /\ subs[s].pc \in DOMAIN Body(s) /\ Instr(s).op = "create_epr"
    BY DEF CreateEpr, AtInstr, TypeOK
  <2>2. QED
    BY <2>1, InstrTypes
<1>2. ch \in Channels
  BY <1>1 DEF Channels, Roles
<1>3. /\ Enqueue(s, ch, n) /\ net' = [net EXCEPT ![ch] = Append(@, r)]
      /\ UNCHANGED pending
  BY DEF CreateEpr
<1>4. r \in Requests /\ r.done < r.num /\ r.done = 0 /\ r.num = n /\ r.id = issued[ch] + 1
  BY <1>1, <1>2 DEF TypeOK, NetTypes, Requests, Pos
<1> HIDE DEF k, n, ch, r
<1>5. /\ Owed' = [Owed EXCEPT ![ch] = Cat(@, PairsAfter(0, n, issued[ch] + 1))]
      /\ issued' = [issued EXCEPT ![ch] = @ + 1]
  BY <1>1, <1>2, <1>3, EnqueueEffect
<1>6. ToCome(r) = PairsAfter(0, n, issued[ch] + 1)
  BY <1>1, <1>4 DEF ToCome, Pos
<1>7. ToGenerate' = [ToGenerate EXCEPT ![ch] = Cat(@, PairsAfter(0, n, issued[ch] + 1))]
  <2>1. Working(net[ch]) /\ net \in [Channels -> Seq(Requests)]
    BY <1>2 DEF StackSound, TypeOK, NetTypes
  <2>2. FlattenSeq(ComingFrom(Append(net[ch], r))) = Cat(FlattenSeq(ComingFrom(net[ch])), ToCome(r))
    BY <1>4, <2>1, ComingAppend
  <2>3. ASSUME NEW d \in Channels
        PROVE  net'[d] = IF d = ch THEN Append(net[ch], r) ELSE net[d]
    BY <1>2, <1>3, <2>1
  <2>4. QED
    BY <1>2, <1>6, <2>2, <2>3, JoinedAre, JoinedWillBe
<1>8. UNCHANGED InFlight
  BY <1>3, JoinedAre, JoinedWillBe
<1>9. UNCHANGED Unasked
  <2>1. \A j \in Keys : issued'[<<"recv", j>>] = issued[<<"recv", j>>]
    BY <1>2, <1>5 DEF ch, Channels, Roles, TypeOK, NetTypes
  <2>2. QED
    BY <2>1, JoinedAre, JoinedWillBe
<1>10. QED
  BY <1>1, <1>3, <1>5, <1>7, <1>8, <1>9 DEF k, n, ch, r

\* The requests of the remote node after the first m, or none.
LEMMA PlannedTyped ==
  ASSUME NEW k \in Keys, NEW m \in Nat
  PROVE  /\ PlannedFrom(k, m) \in Seq(Seq(Tags))
         /\ FlattenSeq(PlannedFrom(k, m)) \in Seq(Tags)
         /\ Len(RemotePlan[k]) \in Nat
         /\ m <= Len(RemotePlan[k]) => Len(PlannedFrom(k, m)) = Len(RemotePlan[k]) - m
         /\ m >= Len(RemotePlan[k]) => PlannedFrom(k, m) = <<>>
         /\ \A i \in 1 .. Len(RemotePlan[k]) - m : PlannedFrom(k, m)[i] = PlanTags(k, m + i)
<1> DEFINE L == Len(RemotePlan[k])
           p == PlannedFrom(k, m)
<1>1. L \in Nat
  <2> DEFINE P == [type : {"K", "M"}, num : Sizes]
  <2>1. RemotePlan[k] \in Seq(P)
    BY ConstantsAssumption
  <2> HIDE DEF P
  <2>2. QED
    BY <2>1
<1>2. \A i \in 1 .. L - m : m + i \in 1 .. L
  BY <1>1
<1>3. \A i \in 1 .. L - m : PlanTags(k, m + i) \in Seq(Tags)
  BY <1>2, PlanTyped
<1>4. p = [i \in 1 .. L - m |-> PlanTags(k, m + i)]
  BY DEF PlannedFrom
<1> HIDE DEF L, p
<1>5. CASE m <= L
  <2>1. L - m \in Nat /\ (m >= L => L - m = 0)
    BY <1>1, <1>5
  <2>2. p \in Seq(Seq(Tags)) /\ Len(p) = L - m /\ \A i \in 1 .. L - m : p[i] = PlanTags(k, m + i)
    BY <1>3, <1>4, <2>1
  <2>3. m >= L => p = <<>>
    BY <2>1, <2>2, EmptySeq
  <2>4. QED
    BY <1>1, <1>5, <2>2, <2>3, FlattenTyped DEF L, p
<1>6. CASE ~(m <= L)
  <2>1. 1 .. L - m = 1 .. 0 /\ \A i \in 1 .. L - m : FALSE
    BY <1>1, <1>6
  <2>2. p \in [1 .. 0 -> Seq(Tags)]
    BY <1>4, <2>1
  <2>3. p \in Seq(Seq(Tags)) /\ Len(p) = 0
    BY <2>2
  <2>4. p = <<>>
    BY <2>3, EmptySeq
  <2>5. QED
    BY <1>1, <1>6, <2>1, <2>3, <2>4, FlattenTyped DEF L, p
<1>7. QED
  BY <1>5, <1>6

\* The requests of the remote node that nobody has asked for lose their first.
LEMMA UnaskedFirst ==
  ASSUME NEW k \in Keys, NEW m \in Nat
  PROVE  /\ m + 1 <= Len(RemotePlan[k]) =>
              FlattenSeq(PlannedFrom(k, m))
                = Cat(PlanTags(k, m + 1), FlattenSeq(PlannedFrom(k, m + 1)))
         /\ m >= Len(RemotePlan[k]) => FlattenSeq(PlannedFrom(k, m)) = <<>>
<1> DEFINE L == Len(RemotePlan[k])
           p == PlannedFrom(k, m)
           u == PlannedFrom(k, m + 1)
<1>1. L \in Nat /\ m + 1 \in Nat
  BY PlannedTyped
<1>2. /\ p \in Seq(Seq(Tags))
      /\ m <= L => Len(p) = L - m
      /\ m >= L => p = <<>>
      /\ \A i \in 1 .. L - m : p[i] = PlanTags(k, m + i)
  BY PlannedTyped
<1>3. /\ u \in Seq(Seq(Tags))
      /\ m + 1 <= L => Len(u) = L - (m + 1)
      /\ \A i \in 1 .. L - (m + 1) : u[i] = PlanTags(k, m + 1 + i)
  BY <1>1, PlannedTyped
<1> HIDE DEF L, p, u
<1>4. ASSUME m + 1 <= L
      PROVE  FlattenSeq(p) = Cat(PlanTags(k, m + 1), FlattenSeq(u))
  <2>1. m <= L /\ 1 \in 1 .. L - m /\ Len(p) = L - m /\ Len(u) = L - (m + 1)
    BY <1>1, <1>2, <1>3, <1>4
  <2>2. p # <<>> /\ Head(p) = PlanTags(k, m + 1)
    BY <1>1, <1>2, <2>1
  <2>3. /\ Tail(p) \in Seq(Seq(Tags)) /\ Len(Tail(p)) = L - m - 1
        /\ DOMAIN Tail(p) = 1 .. Len(Tail(p))
        /\ \A i \in DOMAIN Tail(p) : Tail(p)[i] = p[i + 1]
    BY <1>2, <2>1, <2>2, SeqFacts
  <2>4. ASSUME NEW i \in 1 .. Len(Tail(p))
        PROVE  Tail(p)[i] = u[i]
    <3>1. i \in 1 .. L - (m + 1) /\ i + 1 \in 1 .. L - m /\ m + (i + 1) = m + 1 + i
      BY <1>1, <2>3
    <3>2. QED
      BY <1>2, <1>3, <2>3, <3>1
  <2>5. Len(Tail(p)) = Len(u)
    BY <1>1, <2>1, <2>3
  <2>6. Tail(p) = u
    BY <1>3, <2>3, <2>4, <2>5, SameMembers
  <2>7. FlattenSeq(p) = Cat(Head(p), FlattenSeq(Tail(p)))
    BY <1>2, <2>2, CatFlattenFirst
  <2>8. QED
    BY <2>2, <2>6, <2>7
<1>5. m >= L => FlattenSeq(p) = <<>>
  BY <1>2, FlattenEmpty
<1>6. QED
  BY <1>4, <1>5 DEF L, p, u

\* recv_epr makes a request for what the next of the remote node's requests brings.
LEMMA ReceiveEffect ==
  ASSUME TypeOK, NEW s \in DOMAIN subs, RecvEpr(s), ~UNCHANGED issued, ReceivesWhatIsSent'
  PROVE  \E k \in Keys, n \in Sizes :
           LET ch == <<"recv", k>>
               run == PairsAfter(0, n, issued[ch] + 1)
           IN /\ issued' = [issued EXCEPT ![ch] = @ + 1]
              /\ Owed' = [Owed EXCEPT ![ch] = Cat(@, run)]
              /\ UNCHANGED <<InFlight, ToGenerate, net>>
              /\ \A j \in Keys \ {k} : Unasked'[j] = Unasked[j]
              /\ \/ Unasked[k] = Cat(run, Unasked'[k])
                 \/ Unasked[k] = <<>> /\ Unasked'[k] = <<>>
<1> DEFINE k == Instr(s).key
           x == arrays[App(s)][Instr(s).res]
           n == Len(x)
           ch == <<"recv", k>>
           m == issued[ch]
<1>1. /\ k \in Keys /\ Instr(s).qarr \in Addrs \cup {None} /\ Instr(s).res \in Addrs
  <2>1. SubTypes /\ subs[s].pc \in DOMAIN Body(s) /\ Instr(s).op = "recv_epr"
    BY DEF RecvEpr, AtInstr, TypeOK
  <2>2. QED
    BY <2>1, InstrTypes
<1>2. ch \in Channels
  BY <1>1 DEF Channels, Roles
<1>3. /\ HasArray(App(s), Instr(s).res) /\ Enqueue(s, ch, n) /\ UNCHANGED <<net, pending>>
  BY DEF RecvEpr
<1>4. n \in Sizes /\ n \in Pos
  <2>1. x \in Arrays
    BY <1>3 DEF HasArray, TypeOK, AppTypes, Dict
  <2>2. QED
    BY <2>1, ConstantsAssumption DEF Arrays
<1>5. m \in Nat
  BY <1>2 DEF TypeOK, NetTypes
<1>6. Len(RemotePlan[k]) \in Nat
  <2> DEFINE P == [type : {"K", "M"}, num : Sizes]
  <2>1. RemotePlan[k] \in Seq(P)
    BY <1>1, ConstantsAssumption
  <2> HIDE DEF P, k
  <2>2. QED
    BY <2>1
<1>7. issued \in [Channels -> Nat] /\ reqs \in [Channels -> Seq(Commands)]
  BY DEF TypeOK, NetTypes, ReqTypes
<1>8. \A j \in Keys : <<"recv", j>> \in Channels
  BY DEF Channels, Roles
<1> HIDE DEF k, x, n
<1>9. /\ Owed' = [Owed EXCEPT ![ch] = Cat(@, PairsAfter(0, n, m + 1))]
      /\ issued' = [issued EXCEPT ![ch] = @ + 1]
      /\ \E c \in Commands : /\ reqs' = [reqs EXCEPT ![ch] = Append(@, c)]
                             /\ c.tot = n /\ c.id = m + 1
  BY <1>1, <1>2, <1>3, <1>4, EnqueueEffect
<1>10. UNCHANGED <<InFlight, ToGenerate>>
  BY <1>3, JoinedAre, JoinedWillBe
<1>11. issued'[ch] = m + 1 /\ \A j \in Keys \ {k} : issued'[<<"recv", j>>] = issued[<<"recv", j>>]
  BY <1>2, <1>7, <1>8, <1>9
<1>12. /\ Unasked[k] = FlattenSeq(PlannedFrom(k, m)) /\ Unasked'[k] = FlattenSeq(PlannedFrom(k, m + 1))
       /\ \A j \in Keys \ {k} : Unasked'[j] = Unasked[j]
  BY <1>1, <1>11, JoinedAre, JoinedWillBe
<1>13. CASE m + 1 <= Len(RemotePlan[k])
  <2>1. n = RemotePlan[k][m + 1].num
    <3>1. PICK c \in Commands : /\ reqs' = [reqs EXCEPT ![ch] = Append(@, c)]
                                /\ c.tot = n /\ c.id = m + 1
      BY <1>9
    <3>2. reqs'[ch] = Append(reqs[ch], c) /\ reqs[ch] \in Seq(Commands)
      BY <1>2, <1>7, <3>1
    <3>3. Len(reqs[ch]) + 1 \in DOMAIN reqs'[ch] /\ reqs'[ch][Len(reqs[ch]) + 1] = c
      BY <3>2
    <3>4. QED
      BY <1>1, <1>13, <3>1, <3>3 DEF ReceivesWhatIsSent
  <2>2. PlanTags(k, m + 1) = PairsAfter(0, n, m + 1)
    BY <2>1 DEF PlanTags
  <2>3. Unasked[k] = Cat(PairsAfter(0, n, m + 1), Unasked'[k])
    BY <1>1, <1>5, <1>12, <1>13, <2>2, UnaskedFirst
  <2>4. QED
    BY <1>1, <1>3, <1>4, <1>9, <1>10, <1>12, <2>3
<1>14. CASE ~(m + 1 <= Len(RemotePlan[k]))
  <2>1. m >= Len(RemotePlan[k]) /\ m + 1 >= Len(RemotePlan[k]) /\ m + 1 \in Nat
    BY <1>5, <1>6, <1>14
  <2>2. Unasked[k] = <<>> /\ Unasked'[k] = <<>>
    BY <1>1, <1>5, <1>12, <2>1, UnaskedFirst
  <2>3. QED
    BY <1>1, <1>3, <1>4, <1>9, <1>10, <1>12, <2>2
<1>15. QED
  BY <1>13, <1>14

\* The types of the pairs of a channel, in the stack and in the reports.
TypedAs(t) ==
  /\ \A ch \in Channels : \A i \in DOMAIN net[ch] : net[ch][i].type = t[ch]
  /\ \A i \in DOMAIN pending : pending[i].type = t[pending[i].ch]

\* A pair is generated and reported.
LEMMA GenerateEffect ==
  ASSUME TypeOK, StackSound, NEW ch \in Channels, GeneratePair(ch)
  PROVE  \E r, w :
           /\ r \in Responses
           /\ r.ch = ch /\ r.type = net[ch][1].type /\ pending' = Append(pending, r)
           /\ net' = [net EXCEPT ![ch] = w]
           /\ Working(w)
           /\ \A i \in DOMAIN w : \E j \in DOMAIN net[ch] :
                w[i].type = net[ch][j].type /\ w[i].id = net[ch][j].id /\ w[i].num = net[ch][j].num
           /\ \E n \in Sizes : r.tag.pair \in 1 .. n
           /\ r.tag.id \in (1 .. issued[ch]) \cup (1 .. Announced[ch])
           /\ InFlight' = [InFlight EXCEPT ![ch] = Append(@, r.tag)]
           /\ ToGenerate[ch] = Cat(<<r.tag>>, ToGenerate'[ch])
           /\ \A d \in Channels \ {ch} : ToGenerate'[d] = ToGenerate[d]
           /\ UNCHANGED <<Owed, Unasked, issued, reqs>>
<1> DEFINE q == net[ch]
           h == Head(q)
           tag == NextPair(h)
           w == AfterPair(q)
<1>1. /\ q # <<>> /\ net' = [net EXCEPT ![ch] = w] /\ UNCHANGED <<reqs, issued>>
      /\ \E r : /\ pending' = Append(pending, r) /\ r.ch = ch /\ r.tag = tag /\ r.type = h.type
                /\ \/ r = [type |-> "M", ch |-> ch, tag |-> tag, phys |-> None]
                   \/ \E p \in Phys : r = [type |-> "K", ch |-> ch, tag |-> tag, phys |-> p]
  BY DEF GeneratePair, Report, NextPair, AfterPair
<1>2. /\ Working(q) /\ net \in [Channels -> Seq(Requests)]
      /\ \A i \in DOMAIN q : /\ q[i].num \in Sizes
                             /\ q[i].id \in (1 .. issued[ch]) \cup (1 .. Announced[ch])
  BY DEF StackSound, TypeOK, NetTypes
<1>3. h = q[1] /\ 1 \in DOMAIN q /\ h \in Requests /\ h.done < h.num
  BY <1>1, <1>2, SeqFacts DEF Working
<1>4. tag \in Tags /\ h.num \in Sizes /\ tag.pair \in 1 .. h.num
  BY <1>2, <1>3 DEF Requests, Tags, Pos, NextPair
<1>5. PICK r : /\ pending' = Append(pending, r) /\ r.ch = ch /\ r.tag = tag /\ r.type = h.type
               /\ \/ r = [type |-> "M", ch |-> ch, tag |-> tag, phys |-> None]
                  \/ \E p \in Phys : r = [type |-> "K", ch |-> ch, tag |-> tag, phys |-> p]
  BY <1>1
<1>6. r \in Responses
  <2> HIDE DEF tag
  <2>1. QED
    BY <1>4, <1>5 DEF Responses
<1>8. tag.id = h.id
  BY DEF NextPair
<1>9. /\ Working(w)
      /\ \A i \in DOMAIN w : \E j \in DOMAIN q :
           w[i].type = q[j].type /\ w[i].id = q[j].id /\ w[i].num = q[j].num
      /\ FlattenSeq(ComingFrom(q)) = Cat(<<tag>>, FlattenSeq(ComingFrom(w)))
  BY <1>1, <1>2, ComingGenerate
<1> HIDE DEF tag, w, h, q
<1>10. InFlight' = [InFlight EXCEPT ![ch] = Append(@, tag)]
  <2>1. pending \in Seq(Responses)
    BY DEF TypeOK, EprTypes
  <2>2. \A d \in Channels : FlattenSeq(ReportedIn(d, Append(pending, r))) =
                              IF d = ch THEN Append(FlattenSeq(ReportedIn(d, pending)), tag)
                              ELSE FlattenSeq(ReportedIn(d, pending))
    BY <1>5, <1>6, <2>1, ReportedInAppend
  <2>3. QED
    BY <1>5, <2>2, JoinedAre, JoinedWillBe
<1>11. \A d \in Channels : net'[d] = IF d = ch THEN w ELSE net[d]
  BY <1>1, <1>2
<1>12. /\ ToGenerate[ch] = Cat(<<tag>>, ToGenerate'[ch])
       /\ \A d \in Channels \ {ch} : ToGenerate'[d] = ToGenerate[d]
  BY <1>9, <1>11, JoinedAre, JoinedWillBe DEF q
<1>13. UNCHANGED <<Owed, Unasked>>
  BY <1>1, JoinedAre, JoinedWillBe
<1>14. tag.id \in (1 .. issued[ch]) \cup (1 .. Announced[ch])
  BY <1>2, <1>3, <1>8
<1>15. QED
  BY <1>1, <1>3, <1>4, <1>5, <1>6, <1>9, <1>10, <1>12, <1>13, <1>14 DEF q

\* The response of a ready pair is the first of its channel.
LEMMA ReadyIsFirst ==
  ASSUME NEW t, TypedAs(t), NEW i \in Ready, pending \in Seq(Responses), pending[i].type # "ERR"
  PROVE  \A j \in 1 .. i - 1 : pending[j].ch # pending[i].ch
<1> SUFFICES ASSUME NEW j \in 1 .. i - 1, pending[j].ch = pending[i].ch
             PROVE  FALSE
  OBVIOUS
<1>1. i \in DOMAIN pending /\ j \in DOMAIN pending
  BY SeqFacts DEF Ready
<1>2. pending[j].type = pending[i].type
  BY <1>1 DEF TypedAs
<1>3. MustWait(pending[j]) /\ ~MustWait(pending[i])
  BY DEF Ready
<1>4. QED
  BY <1>2, <1>3 DEF MustWait, Request

\* A pair is credited.
LEMMA CreditEffect ==
  ASSUME TypeOK, NEW t, TypedAs(t), NEW i \in Ready, ScanHandle(i), "late" \notin raised'
  PROVE  LET ch == pending[i].ch
         IN \E h \in Tags, e \in Tags :
              /\ ch \in Channels
              /\ pending' = RemoveAt(pending, i)
              /\ Owed[ch] = Cat(<<h>>, Owed'[ch])
              /\ InFlight[ch] = Cat(<<e>>, InFlight'[ch])
              /\ \A d \in Channels \ {ch} : Owed'[d] = Owed[d] /\ InFlight'[d] = InFlight[d]
              /\ UNCHANGED <<ToGenerate, Unasked, net, issued>>
<1> DEFINE ch == pending[i].ch
           q == reqs[ch]
           c == Head(q)
           w == AfterCredit(q)
           h == NextOwed(c)
           e == pending[i].tag
<1>1. /\ pending[i].type # "ERR" /\ CountPair(ch) /\ pending' = RemoveAt(pending, i)
      /\ UNCHANGED <<net, issued>>
  BY DEF ScanHandle, Raise, netVars
<1>2. i \in DOMAIN pending /\ pending \in Seq(Responses) /\ pending[i] \in Responses
  BY SeqFacts DEF Ready, TypeOK, EprTypes
<1>3. ch \in Channels /\ e \in Tags
  BY <1>2 DEF Responses
<1>4. q # <<>>
  BY <1>1 DEF Ready, MustWait
<1>5. Sound(q) /\ reqs \in [Channels -> Seq(Commands)]
  BY <1>3 DEF TypeOK, ReqTypes, Sound
<1>6. reqs' = [reqs EXCEPT ![ch] = w]
  BY <1>1, <1>3, <1>5 DEF CountPair, AfterCredit
<1>7. h \in Tags
  <2>1. c \in Commands /\ c = q[1] /\ 1 \in DOMAIN q
    BY <1>4, <1>5, SeqFacts DEF Sound
  <2>2. c.left <= c.tot /\ c.left \in Nat /\ c.tot \in Nat /\ c.id \in Pos
    BY <1>5, <2>1 DEF Sound, Commands, Pos
  <2>3. c.tot - c.left + 1 \in Pos
    BY <2>2 DEF Pos
  <2>4. QED
    BY <2>2, <2>3 DEF Tags, NextOwed
<1>8. FlattenSeq(OwedBy(q)) = Cat(<<h>>, FlattenSeq(OwedBy(w)))
  BY <1>4, <1>5, OwedByCount
<1>9. FlattenSeq(ReportedIn(ch, pending)) = Cat(<<e>>, FlattenSeq(ReportedIn(ch, pending')))
  BY <1>1, <1>2, ReadyIsFirst, ReportedInRemove
<1>10. \A d \in Channels \ {ch} :
         FlattenSeq(ReportedIn(d, pending')) = FlattenSeq(ReportedIn(d, pending))
  BY <1>1, <1>2, ReportedInRemove
<1> HIDE DEF ch, q, c, w, h, e
<1>11. \A d \in Channels : reqs'[d] = IF d = ch THEN w ELSE reqs[d]
  BY <1>5, <1>6
<1>12. Owed[ch] = Cat(<<h>>, Owed'[ch]) /\ InFlight[ch] = Cat(<<e>>, InFlight'[ch])
  BY <1>3, <1>8, <1>9, <1>11, JoinedAre, JoinedWillBe DEF q
<1>13. \A d \in Channels \ {ch} : Owed'[d] = Owed[d] /\ InFlight'[d] = InFlight[d]
  BY <1>10, <1>11, JoinedAre, JoinedWillBe
<1>14. UNCHANGED <<ToGenerate, Unasked>>
  BY <1>1, JoinedAre, JoinedWillBe
<1>15. QED
  BY <1>1, <1>3, <1>7, <1>12, <1>13, <1>14 DEF ch

-----------------------------------------------------------------------------
(* The agreement about the pairs of a channel.                             *)

\* What is owed and not yet asked for is what is in flight, what is to come, and a rest.
Balance(o, u, f, g, r) == Cat(o, u) = Cat(Cat(f, g), r)

LEMMA BalanceAsked ==
  ASSUME NEW o \in Seq(Tags), NEW f \in Seq(Tags), NEW g \in Seq(Tags), NEW x \in Seq(Tags),
         Balance(o, <<>>, f, g, <<>>)
  PROVE  Balance(Cat(o, x), <<>>, f, Cat(g, x), <<>>)
<1>1. o = Cat(f, g)
  BY CatTyped, CatEmpty DEF Balance
<1>2. Cat(o, x) = Cat(f, Cat(g, x))
  BY <1>1, CatAssociative
<1>3. /\ Cat(o, x) \in Seq(Tags) /\ Cat(f, Cat(g, x)) \in Seq(Tags)
  BY CatTyped
<1>4. Cat(Cat(o, x), <<>>) = Cat(o, x) /\ Cat(Cat(f, Cat(g, x)), <<>>) = Cat(f, Cat(g, x))
  BY <1>3, CatEmpty
<1>5. QED
  BY <1>2, <1>4 DEF Balance

LEMMA BalanceReceived ==
  ASSUME NEW o \in Seq(Tags), NEW u \in Seq(Tags), NEW f \in Seq(Tags), NEW g \in Seq(Tags),
         NEW r \in Seq(Tags), NEW x \in Seq(Tags), NEW v \in Seq(Tags), Balance(o, u, f, g, r)
  PROVE  /\ u = Cat(x, v) => Balance(Cat(o, x), v, f, g, r)
         /\ u = <<>> => Balance(Cat(o, x), <<>>, f, g, Cat(r, x))
<1>1. ASSUME u = Cat(x, v)
      PROVE  Balance(Cat(o, x), v, f, g, r)
  BY <1>1, CatAssociative DEF Balance
<1>2. ASSUME u = <<>>
      PROVE  Balance(Cat(o, x), <<>>, f, g, Cat(r, x))
  <2>1. o = Cat(Cat(f, g), r)
    BY <1>2, CatEmpty DEF Balance
  <2>2. Cat(f, g) \in Seq(Tags)
    BY CatTyped
  <2>3. Cat(o, x) = Cat(Cat(f, g), Cat(r, x))
    BY <2>1, <2>2, CatAssociative
  <2>4. Cat(Cat(o, x), <<>>) = Cat(o, x)
    BY CatTyped, CatEmpty
  <2>5. QED
    BY <2>3, <2>4 DEF Balance
<1>3. QED
  BY <1>1, <1>2

LEMMA BalanceGenerated ==
  ASSUME NEW o, NEW u, NEW f \in Seq(Tags), NEW g \in Seq(Tags), NEW r, NEW e \in Tags,
         Balance(o, u, f, Cat(<<e>>, g), r)
  PROVE  Balance(o, u, Append(f, e), g, r)
<1>1. PICK p \in Seq(Tags) : p = <<e>>
  BY Single
<1>2. Append(f, e) = Cat(f, p)
  BY <1>1 DEF Cat
<1>3. Cat(Cat(f, p), g) = Cat(f, Cat(p, g))
  BY CatAssociative
<1>4. QED
  BY <1>1, <1>2, <1>3 DEF Balance

LEMMA BalanceCredited ==
  ASSUME NEW o \in Seq(Tags), NEW u \in Seq(Tags), NEW f \in Seq(Tags), NEW g \in Seq(Tags),
         NEW r \in Seq(Tags), NEW h \in Tags, NEW e \in Tags,
         Balance(Cat(<<h>>, o), u, Cat(<<e>>, f), g, r)
  PROVE  h = e /\ Balance(o, u, f, g, r)
<1>1. PICK p \in Seq(Tags) : p = <<h>>
  BY Single
<1>2. PICK q \in Seq(Tags) : q = <<e>>
  BY Single
<1>3. Cat(Cat(p, o), u) = Cat(p, Cat(o, u))
  BY CatAssociative
<1>4. Cat(Cat(q, f), g) = Cat(q, Cat(f, g)) /\ Cat(f, g) \in Seq(Tags)
  BY CatAssociative, CatTyped
<1>5. Cat(Cat(q, Cat(f, g)), r) = Cat(q, Cat(Cat(f, g), r))
  BY <1>4, CatAssociative
<1>6. Cat(<<h>>, Cat(o, u)) = Cat(<<e>>, Cat(Cat(f, g), r))
  BY <1>1, <1>2, <1>3, <1>4, <1>5 DEF Balance
<1>7. Cat(o, u) \in Seq(Tags) /\ Cat(Cat(f, g), r) \in Seq(Tags)
  BY <1>4, CatTyped
<1>8. h = e /\ Cat(o, u) = Cat(Cat(f, g), r)
  BY <1>6, <1>7, CatCancel
<1>9. QED
  BY <1>8 DEF Balance

UnaskedOn(ch) == IF ch[1] = "create" THEN <<>> ELSE Unasked[ch[2]]

Balanced(ch) ==
  \E rest \in Seq(Tags) :
    /\ Balance(Owed[ch], UnaskedOn(ch), InFlight[ch], ToGenerate[ch], rest)
    /\ ch[1] = "create" => rest = <<>>

\* The inductive invariant, for the types t of the channels.
PairInv(t) == StackSound /\ TypedAs(t) /\ \A ch \in Channels : Balanced(ch)

\* What is joined consists of pairs.
LEMMA JoinedTyped ==
  ASSUME TypeOK, StackSound, NEW ch \in Channels
  PROVE  /\ Owed[ch] \in Seq(Tags) /\ InFlight[ch] \in Seq(Tags)
         /\ ToGenerate[ch] \in Seq(Tags) /\ UnaskedOn(ch) \in Seq(Tags)
<1>1. Owed[ch] \in Seq(Tags)
  <2>1. Sound(reqs[ch])
    BY DEF TypeOK, ReqTypes, Sound
  <2>2. OwedBy(reqs[ch]) \in Seq(Seq(Tags))
    BY <2>1, OwedByTyped
  <2>3. QED
    BY <2>2, FlattenTyped, JoinedAre
<1>2. InFlight[ch] \in Seq(Tags)
  <2>1. ReportedIn(ch, pending) \in Seq(Seq(Tags))
    BY ReportedInTyped DEF TypeOK, EprTypes
  <2>2. QED
    BY <2>1, FlattenTyped, JoinedAre
<1>3. ToGenerate[ch] \in Seq(Tags)
  <2>1. ComingFrom(net[ch]) \in Seq(Seq(Tags))
    BY ComingTyped DEF StackSound
  <2>2. QED
    BY <2>1, FlattenTyped, JoinedAre
<1>4. UnaskedOn(ch) \in Seq(Tags)
  <2>1. CASE ch[1] = "create"
    BY <2>1, NoElements DEF UnaskedOn
  <2>2. CASE ch[1] # "create"
    <3>1. PICK k \in Keys : ch = <<"recv", k>>
      BY <2>2 DEF Channels, Roles
    <3>2. FlattenSeq(PlannedFrom(k, issued[ch])) \in Seq(Tags)
      BY PlannedTyped DEF TypeOK, NetTypes
    <3>3. QED
      BY <2>2, <3>1, <3>2, JoinedAre DEF UnaskedOn
  <2>3. QED
    BY <2>1, <2>2
<1>5. QED
  BY <1>1, <1>2, <1>3, <1>4

\* After a step, too.
LEMMA JoinedTypedNext ==
  ASSUME TypeOK', NEW ch \in Channels
  PROVE  Owed'[ch] \in Seq(Tags) /\ InFlight'[ch] \in Seq(Tags)
<1>1. Sound(reqs'[ch]) /\ pending' \in Seq(Responses)
  BY DEF TypeOK, ReqTypes, EprTypes, Sound
<1>2. OwedBy(reqs'[ch]) \in Seq(Seq(Tags)) /\ ReportedIn(ch, pending') \in Seq(Seq(Tags))
  BY <1>1, OwedByTyped, ReportedInTyped
<1>3. QED
  BY <1>2, FlattenTyped, JoinedWillBe

-----------------------------------------------------------------------------
(* Every step keeps the agreement.                                         *)

\* What a step of an untroubled run does to the pairs.
LEMMA StepEffects ==
  ASSUME TypeOK, [Next]_vars, errors' = 0
  PROVE  \/ PairsUntouched
         \/ \E s \in DOMAIN subs : CreateEpr(s) /\ ~UNCHANGED issued
         \/ \E s \in DOMAIN subs : RecvEpr(s) /\ ~UNCHANGED issued
         \/ \E ch \in Channels : GeneratePair(ch)
         \/ \E i \in Ready : ScanHandle(i)
<1>1. CASE UNCHANGED vars
  BY <1>1 DEF vars, eprVars, netVars, PairsUntouched
<1>2. ASSUME NEW a \in AppIds,
             InitApplication(a) \/ StopApplication(a) \/ ResumeStop(a) \/ StartSubroutine(a)
      PROVE  PairsUntouched
  BY <1>2 DEF InitApplication, StopApplication, ResumeStop, StartSubroutine, eprVars, netVars,
              PairsUntouched
<1>3. ASSUME NEW s \in DOMAIN subs, SubroutineStep(s)
      PROVE  \/ PairsUntouched
             \/ CreateEpr(s) /\ ~UNCHANGED issued
             \/ RecvEpr(s) /\ ~UNCHANGED issued
  <2>1. CASE ArrayInstr(s) \/ EntryInstr(s) \/ RetArr(s)
    BY <2>1 DEF ArrayInstr, EntryInstr, RetArr, eprVars, netVars, PairsUntouched
  <2>2. CASE QAlloc(s) \/ QFree(s)
    BY <2>2 DEF QAlloc, QFree, eprVars, netVars, PairsUntouched
  <2>3. CASE WaitAll(s) \/ WaitAny(s) \/ WaitSingle(s) \/ FinishSubroutine(s)
    BY <2>3 DEF WaitAll, WaitAny, WaitSingle, FinishSubroutine, eprVars, netVars, PairsUntouched
  <2>4. CASE CreateEpr(s)
    <3>1. CASE UNCHANGED <<net, reqs, issued>>
      BY <2>4, <3>1 DEF CreateEpr, PairsUntouched
    <3>2. CASE Enqueue(s, <<"create", Instr(s).key>>, Instr(s).num)
      <4>1. Instr(s).key \in Keys
        <5>1. SubTypes /\ subs[s].pc \in DOMAIN Body(s) /\ Instr(s).op = "create_epr"
          BY <2>4 DEF CreateEpr, AtInstr, TypeOK
        <5>2. QED
          BY <5>1, InstrTypes
      <4>2. <<"create", Instr(s).key>> \in Channels /\ issued \in [Channels -> Nat]
        BY <4>1 DEF Channels, Roles, TypeOK, NetTypes
      <4>3. ~UNCHANGED issued
        BY <3>2, <4>2 DEF Enqueue
      <4>4. QED
        BY <2>4, <4>3
    <3>3. QED
      BY <2>4, <3>1, <3>2 DEF CreateEpr
  <2>5. CASE RecvEpr(s)
    <3>1. CASE UNCHANGED <<reqs, issued>>
      BY <2>5, <3>1 DEF RecvEpr, PairsUntouched
    <3>2. CASE Enqueue(s, <<"recv", Instr(s).key>>, Len(arrays[App(s)][Instr(s).res]))
      <4>1. Instr(s).key \in Keys
        <5>1. SubTypes /\ subs[s].pc \in DOMAIN Body(s) /\ Instr(s).op = "recv_epr"
          BY <2>5 DEF RecvEpr, AtInstr, TypeOK
        <5>2. QED
          BY <5>1, InstrTypes
      <4>2. <<"recv", Instr(s).key>> \in Channels /\ issued \in [Channels -> Nat]
        BY <4>1 DEF Channels, Roles, TypeOK, NetTypes
      <4>3. ~UNCHANGED issued
        BY <3>2, <4>2 DEF Enqueue
      <4>4. QED
        BY <2>5, <4>3
    <3>3. QED
      BY <2>5, <3>1, <3>2 DEF RecvEpr
  <2>6. QED
    BY <1>3, <2>1, <2>2, <2>3, <2>4, <2>5 DEF SubroutineStep
<1>4. ASSUME NEW ch \in Channels, ReportError(ch)
      PROVE  FALSE
  BY <1>4 DEF ReportError, TypeOK, NetTypes
<1>5. CASE Scan
  <2>1. CASE ScanEnd
    BY <2>1 DEF ScanEnd, netVars, PairsUntouched
  <2>2. ASSUME NEW i \in Ready, ScanError(i) \/ ScanNoTarget(i) \/ ScanNoModule(i)
        PROVE  PairsUntouched
    BY <2>2 DEF ScanError, ScanNoTarget, ScanNoModule, Raise, netVars, PairsUntouched
  <2>3. QED
    BY <1>5, <2>1, <2>2 DEF Scan
<1>6. CASE Rescan
  BY <1>6 DEF Rescan, netVars, PairsUntouched
<1>7. QED
  BY <1>1, <1>2, <1>3, <1>4, <1>5, <1>6 DEF Next

\* In the beginning nothing is owed and nothing in flight,
LEMMA InitNothing ==
  ASSUME NEW ch \in Channels, Init
  PROVE  Owed[ch] = <<>> /\ InFlight[ch] = <<>>
<1>1. OwedBy(<<>>) = <<>> /\ ReportedIn(ch, <<>>) = <<>>
  <2>1. Sound(<<>>) /\ <<>> \in Seq(Responses) /\ Len(<<>>) = 0
    BY DEF Sound
  <2>2. /\ OwedBy(<<>>) \in Seq(Seq(Tags)) /\ Len(OwedBy(<<>>)) = 0
        /\ ReportedIn(ch, <<>>) \in Seq(Seq(Tags)) /\ Len(ReportedIn(ch, <<>>)) = 0
    BY <2>1, OwedByTyped, ReportedInTyped
  <2>3. QED
    BY <2>2, EmptySeq
<1>2. reqs[ch] = <<>> /\ pending = <<>>
  BY DEF Init
<1>3. QED
  BY <1>1, <1>2, FlattenEmpty, JoinedAre

\* and everything the remote node sends is to come.
LEMMA InitPairs ==
  ASSUME NEW t \in [Channels -> {"K", "M"}], OneType(t), Init
  PROVE  PairInv(t)
<1>1. TypeOK
  BY InitTypes
<1>2. \A ch \in Channels : ch[1] # "create" => \E k \in Keys : ch = <<"recv", k>>
  BY DEF Channels, Roles
<1>3. ASSUME NEW ch \in Channels, ch[1] = "create"
      PROVE  net[ch] = <<>>
  BY <1>3 DEF Init
<1>4. ASSUME NEW k \in Keys, NEW ch, ch = <<"recv", k>>
      PROVE  /\ ch \in Channels /\ Announced[ch] = Len(RemotePlan[k]) /\ issued[ch] = 0
             /\ Len(RemotePlan[k]) \in Nat /\ Len(net[ch]) = Len(RemotePlan[k])
             /\ DOMAIN net[ch] = 1 .. Len(RemotePlan[k])
             /\ \A i \in 1 .. Len(RemotePlan[k]) :
                  net[ch][i] = [id |-> i, type |-> RemotePlan[k][i].type,
                                num |-> RemotePlan[k][i].num, done |-> 0]
  <2>1. ch \in Channels /\ ch[1] = "recv" /\ ch[2] = k /\ Len(RemotePlan[k]) \in Nat
    BY <1>4, PlannedTyped DEF Channels, Roles
  <2> DEFINE P    == [type : {"K", "M"}, num : Sizes]
             plan == RemotePlan[k]
  <2>2. plan \in Seq(P)
    BY ConstantsAssumption
  <2>3. net[ch] = [i \in DOMAIN plan |-> [id |-> i, type |-> plan[i].type,
                                          num |-> plan[i].num, done |-> 0]]
    BY <2>1 DEF Init
  <2>4. Announced[ch] = Len(plan) /\ issued[ch] = 0
    BY <2>1 DEF Init, Announced
  <2>5. net[ch] \in Seq(Requests)
    BY <1>1, <2>1 DEF TypeOK, NetTypes
  <2> HIDE DEF P, plan
  <2>6. DOMAIN plan = 1 .. Len(plan) /\ DOMAIN net[ch] = 1 .. Len(net[ch])
    BY <2>2, <2>5, SeqFacts
  <2>7. Len(net[ch]) = Len(plan)
    BY <2>2, <2>3, <2>5, <2>6, SeqFacts
  <2>8. QED
    BY <2>1, <2>3, <2>4, <2>6, <2>7 DEF plan
<1>5. ASSUME NEW k \in Keys, NEW i \in 1 .. Len(RemotePlan[k])
      PROVE  /\ RemotePlan[k][i].type = t[<<"recv", k>>] /\ RemotePlan[k][i].num \in Sizes
             /\ RemotePlan[k][i].num \in Pos
  <2> DEFINE P    == [type : {"K", "M"}, num : Sizes]
             plan == RemotePlan[k]
  <2>1. plan \in Seq(P) /\ Sizes \subseteq Pos
    BY ConstantsAssumption
  <2> HIDE DEF P
  <2>2. i \in DOMAIN plan /\ plan[i] \in P
    BY <2>1, SeqFacts
  <2>3. plan[i].type = t[<<"recv", k>>]
    BY <2>2 DEF OneType
  <2>4. QED
    BY <2>1, <2>2, <2>3 DEF P
<1>6. StackSound
  <2> SUFFICES ASSUME NEW ch \in Channels
               PROVE  /\ Working(net[ch])
                      /\ \A i \in DOMAIN net[ch] :
                           /\ net[ch][i].num \in Sizes
                           /\ net[ch][i].id \in (1 .. issued[ch]) \cup (1 .. Announced[ch])
    BY DEF StackSound
  <2>1. net[ch] \in Seq(Requests)
    BY <1>1 DEF TypeOK, NetTypes
  <2>2. CASE ch[1] = "create"
    BY <1>3, <2>1, <2>2, NoElements DEF Working
  <2>3. CASE ch[1] # "create"
    <3>1. PICK k \in Keys : ch = <<"recv", k>>
      BY <1>2, <2>3
    <3>2. /\ Announced[ch] = Len(RemotePlan[k]) /\ Len(RemotePlan[k]) \in Nat
          /\ DOMAIN net[ch] = 1 .. Len(RemotePlan[k])
      BY <1>4, <3>1
    <3>3. ASSUME NEW i \in DOMAIN net[ch]
          PROVE  /\ net[ch][i].num \in Sizes /\ net[ch][i].done < net[ch][i].num
                 /\ net[ch][i].id \in 1 .. Announced[ch]
      <4>1. i \in 1 .. Len(RemotePlan[k])
        BY <3>2
      <4>2. net[ch][i] = [id |-> i, type |-> RemotePlan[k][i].type,
                          num |-> RemotePlan[k][i].num, done |-> 0]
        BY <1>4, <3>1, <4>1
      <4>3. RemotePlan[k][i].num \in Sizes /\ RemotePlan[k][i].num \in Pos
        BY <1>5, <4>1
      <4>4. QED
        BY <3>2, <4>1, <4>2, <4>3 DEF Pos
    <3>4. QED
      BY <2>1, <3>3 DEF Working
  <2>4. QED
    BY <2>2, <2>3
<1>7. TypedAs(t)
  <2>1. ASSUME NEW ch \in Channels, NEW i \in DOMAIN net[ch]
        PROVE  net[ch][i].type = t[ch]
    <3>1. CASE ch[1] = "create"
      BY <1>3, <3>1, NoElements
    <3>2. CASE ch[1] # "create"
      <4>1. PICK k \in Keys : ch = <<"recv", k>>
        BY <1>2, <3>2
      <4>2. i \in 1 .. Len(RemotePlan[k])
        BY <1>4, <4>1
      <4>3. net[ch][i].type = RemotePlan[k][i].type
        <5>1. net[ch][i] = [id |-> i, type |-> RemotePlan[k][i].type,
                            num |-> RemotePlan[k][i].num, done |-> 0]
          BY <1>4, <4>1, <4>2
        <5>2. QED
          BY <5>1
      <4>4. RemotePlan[k][i].type = t[<<"recv", k>>]
        BY <1>5, <4>2
      <4>5. QED
        BY <4>1, <4>3, <4>4
    <3>3. QED
      BY <3>1, <3>2
  <2>2. DOMAIN pending = {}
    BY NoElements DEF Init
  <2>3. QED
    BY <2>1, <2>2 DEF TypedAs
<1>8. ASSUME NEW ch \in Channels
      PROVE  Balanced(ch)
  <2>1. Owed[ch] = <<>> /\ InFlight[ch] = <<>>
    BY InitNothing
  <2>2. UnaskedOn(ch) = ToGenerate[ch]
    <3>1. CASE ch[1] = "create"
      <4>1. ComingFrom(<<>>) = <<>>
        <5>1. Working(<<>>) /\ Len(<<>>) = 0
          BY DEF Working
        <5>2. ComingFrom(<<>>) \in Seq(Seq(Tags)) /\ Len(ComingFrom(<<>>)) = 0
          BY <5>1, ComingTyped
        <5>3. QED
          BY <5>2, EmptySeq
      <4>2. QED
        BY <1>3, <3>1, <4>1, FlattenEmpty, JoinedAre DEF UnaskedOn
    <3>2. CASE ch[1] # "create"
      <4>1. PICK k \in Keys : ch = <<"recv", k>>
        BY <1>2, <3>2
      <4> DEFINE L == Len(RemotePlan[k])
                 p == PlannedFrom(k, 0)
                 c == ComingFrom(net[ch])
      <4>2. L \in Nat /\ p \in Seq(Seq(Tags)) /\ Len(p) = L
            /\ \A i \in 1 .. L : p[i] = PlanTags(k, i)
        <5>1. /\ L \in Nat /\ p \in Seq(Seq(Tags)) /\ (0 <= L => Len(p) = L - 0)
              /\ \A i \in 1 .. L - 0 : p[i] = PlanTags(k, 0 + i)
          BY PlannedTyped
        <5> HIDE DEF L, p
        <5>2. QED
          BY <5>1
      <4>3. /\ Len(net[ch]) = L /\ DOMAIN net[ch] = 1 .. L
            /\ \A i \in 1 .. L :
                 net[ch][i] = [id |-> i, type |-> RemotePlan[k][i].type,
                               num |-> RemotePlan[k][i].num, done |-> 0]
        BY <1>4, <4>1
      <4>4. c \in Seq(Seq(Tags)) /\ Len(c) = L
        BY <1>6, <4>3, ComingTyped DEF StackSound
      <4>5. ASSUME NEW i \in 1 .. L
            PROVE  c[i] = p[i]
        <5>1. c[i] = ToCome(net[ch][i])
          BY <4>3 DEF ComingFrom
        <5>2. RemotePlan[k][i].num - 0 = RemotePlan[k][i].num
          <6>1. RemotePlan[k][i].num \in Pos
            BY <1>5
          <6>2. QED
            BY <6>1 DEF Pos
        <5>3. ToCome(net[ch][i]) = PlanTags(k, i)
          <6>1. net[ch][i] = [id |-> i, type |-> RemotePlan[k][i].type,
                              num |-> RemotePlan[k][i].num, done |-> 0]
            BY <4>3
          <6>2. QED
            BY <5>2, <6>1 DEF ToCome, PlanTags
        <5>4. QED
          BY <4>2, <5>1, <5>3
      <4> HIDE DEF L, p, c
      <4>6. c = p
        BY <4>2, <4>4, <4>5, SameMembers
      <4>7. issued[ch] = 0
        BY <1>4, <4>1
      <4>8. QED
        BY <3>2, <4>1, <4>6, <4>7, JoinedAre DEF UnaskedOn, c, p
    <3>3. QED
      BY <3>1, <3>2
  <2>3. Balance(<<>>, UnaskedOn(ch), <<>>, ToGenerate[ch], <<>>)
    <3>1. ToGenerate[ch] \in Seq(Tags)
      BY <1>1, <1>6, JoinedTyped
    <3>2. QED
      BY <2>2, <3>1, CatEmpty DEF Balance
  <2>4. QED
    BY <2>1, <2>3, NoElements DEF Balanced
<1>9. QED
  BY <1>6, <1>7, <1>8 DEF PairInv

\* What the channels other than ch have is the same, and their types are.
LEMMA OtherChannels ==
  ASSUME TypeOK, NEW t, PairInv(t), NEW ch \in Channels,
         \A d \in Channels \ {ch} : /\ Owed'[d] = Owed[d] /\ InFlight'[d] = InFlight[d]
                                    /\ ToGenerate'[d] = ToGenerate[d]
                                    /\ UnaskedOn(d)' = UnaskedOn(d),
         Balanced(ch)'
  PROVE  \A d \in Channels : Balanced(d)'
<1> SUFFICES ASSUME NEW d \in Channels, d # ch
             PROVE  Balanced(d)'
  OBVIOUS
<1>1. Balanced(d)
  BY DEF PairInv
<1>2. QED
  BY <1>1 DEF Balanced

LEMMA CreateKeeps ==
  ASSUME TypeOK, NEW t, OneType(t), PairInv(t), NEW s \in DOMAIN subs, CreateEpr(s),
         ~UNCHANGED issued
  PROVE  PairInv(t)'
<1>1. StackSound
  BY DEF PairInv
<1>2. PICK k \in Keys, n \in Sizes :
        LET ch == <<"create", k>>
            run == PairsAfter(0, n, issued[ch] + 1)
        IN /\ Instr(s).key = k
           /\ issued' = [issued EXCEPT ![ch] = @ + 1]
           /\ Owed' = [Owed EXCEPT ![ch] = Cat(@, run)]
           /\ ToGenerate' = [ToGenerate EXCEPT ![ch] = Cat(@, run)]
           /\ UNCHANGED <<InFlight, Unasked>>
           /\ net' = [net EXCEPT ![ch] =
                        Append(@, [id |-> issued[ch] + 1, type |-> Instr(s).type,
                                   num |-> n, done |-> 0])]
  BY <1>1, CreateEffect
<1> DEFINE ch == <<"create", k>>
           m == issued[ch]
           run == PairsAfter(0, n, m + 1)
           r == [id |-> m + 1, type |-> Instr(s).type, num |-> n, done |-> 0]
<1>3. /\ issued' = [issued EXCEPT ![ch] = m + 1]
      /\ Owed' = [Owed EXCEPT ![ch] = Cat(@, run)]
      /\ ToGenerate' = [ToGenerate EXCEPT ![ch] = Cat(@, run)]
      /\ UNCHANGED <<InFlight, Unasked>>
      /\ net' = [net EXCEPT ![ch] = Append(@, r)]
  BY <1>2
<1>4. ch \in Channels /\ ch[1] = "create"
  BY DEF Channels, Roles
<1>5. m \in Nat /\ n \in Pos /\ issued \in [Channels -> Nat] /\ net \in [Channels -> Seq(Requests)]
  BY <1>4, ConstantsAssumption DEF TypeOK, NetTypes
<1>6. Instr(s).type = t[ch] /\ Instr(s).type \in {"K", "M"}
  <2>1. SubTypes /\ subs[s].pc \in DOMAIN Body(s) /\ Instr(s).op = "create_epr"
    BY DEF CreateEpr, AtInstr, TypeOK
  <2>2. subs[s] \in Subroutines
    BY <2>1, SeqFacts DEF SubTypes
  <2>3. subs[s].prog \in DOMAIN Programs
    BY <2>2 DEF Subroutines
  <2>4. Instr(s).type = t[<<"create", Instr(s).key>>]
    BY <2>1, <2>3 DEF OneType, Instr, Body
  <2>5. Instr(s).type \in {"K", "M"}
    BY <2>1, InstrTypes
  <2>6. QED
    BY <1>2, <2>4, <2>5
<1>7. /\ r \in Requests /\ r.done < r.num /\ r.num \in Sizes /\ r.id = m + 1 /\ r.type = t[ch]
  BY <1>5, <1>6 DEF Requests, Pos
<1>8. run \in Seq(Tags)
  <2>1. m + 1 \in Pos /\ n \in Nat
    BY <1>5 DEF Pos
  <2>2. QED
    BY <2>1, RunTyped
<1> HIDE DEF ch, m, run, r
<1>9. \A d \in Channels : net'[d] = IF d = ch THEN Append(net[ch], r) ELSE net[d]
  BY <1>3, <1>5
<1>10. \A d \in Channels : 1 .. issued[d] \subseteq 1 .. issued'[d]
  BY <1>3, <1>5 DEF m
<1>11. /\ Append(net[ch], r) \in Seq(Requests)
       /\ \A i \in DOMAIN Append(net[ch], r) :
            Append(net[ch], r)[i] = r \/ (i \in DOMAIN net[ch] /\ Append(net[ch], r)[i] = net[ch][i])
  <2>1. net[ch] \in Seq(Requests)
    BY <1>4, <1>5
  <2>2. QED
    BY <1>7, <2>1, AppendMembers
<1>12. m + 1 \in 1 .. issued'[ch]
  BY <1>3, <1>4, <1>5
<1>13. StackSound'
  <2> SUFFICES ASSUME NEW d \in Channels
               PROVE  /\ Working(net'[d])
                      /\ \A i \in DOMAIN net'[d] :
                           /\ net'[d][i].num \in Sizes
                           /\ net'[d][i].id \in (1 .. issued'[d]) \cup (1 .. Announced[d])
    BY DEF StackSound, Announced
  <2>1. CASE d = ch
    <3>1. net'[d] = Append(net[ch], r) /\ Working(net[ch])
      BY <1>1, <1>4, <1>9, <2>1 DEF StackSound
    <3>2. ASSUME NEW i \in DOMAIN Append(net[ch], r)
          PROVE  LET e == Append(net[ch], r)[i]
                 IN /\ e.done < e.num /\ e.num \in Sizes
                    /\ e.id \in (1 .. issued'[ch]) \cup (1 .. Announced[ch])
      <4>1. CASE Append(net[ch], r)[i] = r
        BY <1>7, <1>12, <4>1
      <4>2. CASE i \in DOMAIN net[ch] /\ Append(net[ch], r)[i] = net[ch][i]
        <5>1. net[ch][i].done < net[ch][i].num
          BY <3>1, <4>2 DEF Working
        <5>2. /\ net[ch][i].num \in Sizes
              /\ net[ch][i].id \in (1 .. issued[ch]) \cup (1 .. Announced[ch])
          BY <1>1, <1>4, <4>2 DEF StackSound
        <5>3. 1 .. issued[ch] \subseteq 1 .. issued'[ch]
          BY <1>4, <1>10
        <5>4. QED
          BY <4>2, <5>1, <5>2, <5>3
      <4>3. QED
        BY <1>11, <4>1, <4>2
    <3>3. QED
      BY <1>11, <2>1, <3>1, <3>2 DEF Working
  <2>2. CASE d # ch
    BY <1>1, <1>9, <1>10, <2>2 DEF StackSound
  <2>3. QED
    BY <2>1, <2>2
<1>14. TypedAs(t)'
  <2>1. ASSUME NEW d \in Channels, NEW i \in DOMAIN net'[d]
        PROVE  net'[d][i].type = t[d]
    <3>1. \A j \in DOMAIN net[d] : net[d][j].type = t[d]
      BY DEF PairInv, TypedAs
    <3>2. CASE d = ch
      <4>1. net'[d] = Append(net[ch], r)
        BY <1>9, <3>2
      <4>2. net'[d][i] = r \/ (i \in DOMAIN net[ch] /\ net'[d][i] = net[ch][i])
        BY <1>11, <4>1
      <4>3. QED
        BY <1>7, <3>1, <3>2, <4>2
    <3>3. CASE d # ch
      BY <1>9, <3>1, <3>3
    <3>4. QED
      BY <3>2, <3>3
  <2>2. UNCHANGED pending
    BY DEF CreateEpr
  <2>3. QED
    BY <2>1, <2>2 DEF PairInv, TypedAs
<1>15. Balanced(ch)'
  <2>1. Balance(Owed[ch], <<>>, InFlight[ch], ToGenerate[ch], <<>>)
    <3>1. Balanced(ch)
      BY <1>4 DEF PairInv
    <3>2. PICK rest : /\ Balance(Owed[ch], UnaskedOn(ch), InFlight[ch], ToGenerate[ch], rest)
                      /\ ch[1] = "create" => rest = <<>>
      BY <3>1 DEF Balanced
    <3>3. UnaskedOn(ch) = <<>> /\ rest = <<>>
      BY <1>4, <3>2 DEF UnaskedOn
    <3>4. QED
      BY <3>2, <3>3
  <2>2. Balance(Cat(Owed[ch], run), <<>>, InFlight[ch], Cat(ToGenerate[ch], run), <<>>)
    BY <1>1, <1>4, <1>8, <2>1, JoinedTyped, BalanceAsked
  <2>3. Owed'[ch] = Cat(Owed[ch], run) /\ ToGenerate'[ch] = Cat(ToGenerate[ch], run)
    BY <1>3, <1>4, JoinedAre
  <2>4. UnaskedOn(ch)' = <<>>
    BY <1>4 DEF UnaskedOn
  <2>5. QED
    BY <1>3, <2>2, <2>3, <2>4, NoElements DEF Balanced
<1>16. \A d \in Channels : Balanced(d)'
  <2>1. \A d \in Channels \ {ch} : Owed'[d] = Owed[d] /\ ToGenerate'[d] = ToGenerate[d]
    BY <1>3, JoinedAre
  <2>2. \A d \in Channels : UnaskedOn(d)' = UnaskedOn(d)
    BY <1>3 DEF UnaskedOn
  <2>3. QED
    BY <1>3, <1>4, <1>15, <2>1, <2>2, OtherChannels
<1>17. QED
  BY <1>13, <1>14, <1>16 DEF PairInv

LEMMA ReceiveKeeps ==
  ASSUME TypeOK, NEW t, PairInv(t), NEW s \in DOMAIN subs, RecvEpr(s), ~UNCHANGED issued,
         ReceivesWhatIsSent'
  PROVE  PairInv(t)'
<1>1. StackSound
  BY DEF PairInv
<1>2. PICK k \in Keys, n \in Sizes :
        LET ch == <<"recv", k>>
            run == PairsAfter(0, n, issued[ch] + 1)
        IN /\ issued' = [issued EXCEPT ![ch] = @ + 1]
           /\ Owed' = [Owed EXCEPT ![ch] = Cat(@, run)]
           /\ UNCHANGED <<InFlight, ToGenerate, net>>
           /\ \A j \in Keys \ {k} : Unasked'[j] = Unasked[j]
           /\ \/ Unasked[k] = Cat(run, Unasked'[k])
              \/ Unasked[k] = <<>> /\ Unasked'[k] = <<>>
  BY <1>1, ReceiveEffect
<1> DEFINE ch == <<"recv", k>>
           m == issued[ch]
           run == PairsAfter(0, n, m + 1)
<1>3. /\ issued' = [issued EXCEPT ![ch] = m + 1]
      /\ Owed' = [Owed EXCEPT ![ch] = Cat(@, run)]
      /\ UNCHANGED <<InFlight, ToGenerate, net>>
      /\ \A j \in Keys \ {k} : Unasked'[j] = Unasked[j]
      /\ \/ Unasked[k] = Cat(run, Unasked'[k])
         \/ Unasked[k] = <<>> /\ Unasked'[k] = <<>>
  BY <1>2
<1>4. ch \in Channels /\ ch[1] # "create" /\ ch[2] = k
  BY DEF Channels, Roles
<1>5. m \in Nat /\ n \in Pos /\ issued \in [Channels -> Nat]
  BY <1>4, ConstantsAssumption DEF TypeOK, NetTypes
<1>6. run \in Seq(Tags)
  <2>1. m + 1 \in Pos /\ n \in Nat
    BY <1>5 DEF Pos
  <2>2. QED
    BY <2>1, RunTyped
<1>7. \A d \in Channels \ {ch} : UnaskedOn(d)' = UnaskedOn(d)
  <2> SUFFICES ASSUME NEW d \in Channels \ {ch}
               PROVE  UnaskedOn(d)' = UnaskedOn(d)
    OBVIOUS
  <2>1. CASE d[1] = "create"
    BY <2>1 DEF UnaskedOn
  <2>2. CASE d[1] # "create"
    <3>1. d[2] \in Keys \ {k}
      BY <2>2 DEF Channels, Roles
    <3>2. QED
      BY <1>3, <2>2, <3>1 DEF UnaskedOn
  <2>3. QED
    BY <2>1, <2>2
<1>8. UnaskedOn(ch) = Unasked[k] /\ UnaskedOn(ch)' = Unasked'[k]
  BY <1>4 DEF UnaskedOn
<1> HIDE DEF ch, m, run
<1>9. Unasked'[k] \in Seq(Tags)
  <2>1. Unasked'[k] = FlattenSeq(PlannedFrom(k, issued'[ch]))
    BY <1>4, JoinedWillBe DEF ch
  <2>2. issued'[ch] \in Nat
    BY <1>3, <1>4, <1>5
  <2>3. QED
    BY <2>1, <2>2, PlannedTyped
<1>10. \A d \in Channels : 1 .. issued[d] \subseteq 1 .. issued'[d]
  BY <1>3, <1>5 DEF m
<1>11. StackSound'
  BY <1>1, <1>3, <1>10 DEF StackSound, Announced
<1>12. TypedAs(t)'
  <2>1. UNCHANGED pending
    BY DEF RecvEpr
  <2>2. QED
    BY <1>3, <2>1 DEF PairInv, TypedAs
<1>13. Balanced(ch)'
  <2>1. PICK rest \in Seq(Tags) :
          Balance(Owed[ch], UnaskedOn(ch), InFlight[ch], ToGenerate[ch], rest)
    BY <1>4 DEF PairInv, Balanced
  <2>2. /\ Owed[ch] \in Seq(Tags) /\ InFlight[ch] \in Seq(Tags)
        /\ ToGenerate[ch] \in Seq(Tags) /\ UnaskedOn(ch) \in Seq(Tags)
    BY <1>1, <1>4, JoinedTyped
  <2>3. Owed'[ch] = Cat(Owed[ch], run)
    BY <1>3, <1>4, JoinedAre
  <2>4. ASSUME UnaskedOn(ch) = Cat(run, Unasked'[k])
        PROVE  Balance(Owed'[ch], UnaskedOn(ch)', InFlight'[ch], ToGenerate'[ch], rest)
    <3>1. Balance(Cat(Owed[ch], run), Unasked'[k], InFlight[ch], ToGenerate[ch], rest)
      BY <1>6, <1>9, <2>1, <2>2, <2>4, BalanceReceived
    <3>2. QED
      BY <1>3, <1>8, <2>3, <3>1
  <2>5. ASSUME UnaskedOn(ch) = <<>>, Unasked'[k] = <<>>
        PROVE  Balance(Owed'[ch], UnaskedOn(ch)', InFlight'[ch], ToGenerate'[ch], Cat(rest, run))
    <3>1. Balance(Cat(Owed[ch], run), <<>>, InFlight[ch], ToGenerate[ch], Cat(rest, run))
      BY <1>6, <1>9, <2>1, <2>2, <2>5, BalanceReceived
    <3>2. QED
      BY <1>3, <1>8, <2>3, <2>5, <3>1
  <2>6. Cat(rest, run) \in Seq(Tags)
    BY <1>6, CatTyped
  <2>7. CASE Unasked[k] = Cat(run, Unasked'[k])
    BY <1>4, <1>8, <2>4, <2>7 DEF Balanced
  <2>8. CASE Unasked[k] = <<>> /\ Unasked'[k] = <<>>
    BY <1>4, <1>8, <2>5, <2>6, <2>8 DEF Balanced
  <2>9. QED
    BY <1>3, <2>7, <2>8
<1>14. \A d \in Channels : Balanced(d)'
  <2>1. \A d \in Channels \ {ch} : Owed'[d] = Owed[d]
    BY <1>3, JoinedAre
  <2>2. QED
    BY <1>3, <1>4, <1>7, <1>13, <2>1, OtherChannels
<1>15. QED
  BY <1>11, <1>12, <1>14 DEF PairInv

LEMMA GenerateKeeps ==
  ASSUME TypeOK, NEW t, PairInv(t), NEW ch \in Channels, GeneratePair(ch)
  PROVE  PairInv(t)'
<1>1. StackSound
  BY DEF PairInv
<1>2. PICK r, w :
        /\ r \in Responses
        /\ r.ch = ch /\ r.type = net[ch][1].type /\ pending' = Append(pending, r)
        /\ net' = [net EXCEPT ![ch] = w]
        /\ Working(w)
        /\ \A i \in DOMAIN w : \E j \in DOMAIN net[ch] :
             w[i].type = net[ch][j].type /\ w[i].id = net[ch][j].id /\ w[i].num = net[ch][j].num
        /\ InFlight' = [InFlight EXCEPT ![ch] = Append(@, r.tag)]
        /\ ToGenerate[ch] = Cat(<<r.tag>>, ToGenerate'[ch])
        /\ \A d \in Channels \ {ch} : ToGenerate'[d] = ToGenerate[d]
        /\ UNCHANGED <<Owed, Unasked, issued, reqs>>
  BY <1>1, GenerateEffect
<1>3. r.tag \in Tags
  BY <1>2 DEF Responses
<1>4. net \in [Channels -> Seq(Requests)] /\ pending \in Seq(Responses)
  BY DEF TypeOK, NetTypes, EprTypes
<1>5. \A d \in Channels : net'[d] = IF d = ch THEN w ELSE net[d]
  BY <1>2, <1>4
<1>6. 1 \in DOMAIN net[ch]
  <2>1. net[ch] # <<>> /\ net[ch] \in Seq(Requests)
    BY <1>4 DEF GeneratePair
  <2>2. QED
    BY <2>1, SeqFacts
<1>7. StackSound'
  <2> SUFFICES ASSUME NEW d \in Channels
               PROVE  /\ Working(net'[d])
                      /\ \A i \in DOMAIN net'[d] :
                           /\ net'[d][i].num \in Sizes
                           /\ net'[d][i].id \in (1 .. issued'[d]) \cup (1 .. Announced[d])
    BY DEF StackSound, Announced
  <2>1. \A i \in DOMAIN net[d] : /\ net[d][i].num \in Sizes
                                 /\ net[d][i].id \in (1 .. issued[d]) \cup (1 .. Announced[d])
    BY <1>1 DEF StackSound
  <2>2. CASE d = ch
    <3>1. net'[d] = w
      BY <1>5, <2>2
    <3>2. ASSUME NEW i \in DOMAIN w
          PROVE  /\ w[i].num \in Sizes
                 /\ w[i].id \in (1 .. issued'[d]) \cup (1 .. Announced[d])
      BY <1>2, <2>1, <2>2
    <3>3. QED
      BY <1>2, <3>1, <3>2
  <2>3. CASE d # ch
    BY <1>1, <1>2, <1>5, <2>1, <2>3 DEF StackSound
  <2>4. QED
    BY <2>2, <2>3
<1>8. TypedAs(t)'
  <2>1. /\ \A d \in Channels : \A i \in DOMAIN net[d] : net[d][i].type = t[d]
        /\ \A i \in DOMAIN pending : pending[i].type = t[pending[i].ch]
    BY DEF PairInv, TypedAs
  <2>2. ASSUME NEW d \in Channels, NEW i \in DOMAIN net'[d]
        PROVE  net'[d][i].type = t[d]
    <3>1. CASE d = ch
      BY <1>2, <1>5, <2>1, <3>1
    <3>2. CASE d # ch
      BY <1>5, <2>1, <3>2
    <3>3. QED
      BY <3>1, <3>2
  <2>3. ASSUME NEW i \in DOMAIN pending'
        PROVE  pending'[i].type = t[pending'[i].ch]
    <3>1. pending'[i] = r \/ (i \in DOMAIN pending /\ pending'[i] = pending[i])
      BY <1>2, <1>4, AppendMembers
    <3>2. r.type = t[r.ch]
      BY <1>2, <1>6, <2>1
    <3>3. QED
      BY <2>1, <3>1, <3>2
  <2>4. QED
    BY <2>2, <2>3 DEF TypedAs
<1>9. Balanced(ch)'
  <2>1. PICK rest \in Seq(Tags) :
          /\ Balance(Owed[ch], UnaskedOn(ch), InFlight[ch], ToGenerate[ch], rest)
          /\ ch[1] = "create" => rest = <<>>
    BY DEF PairInv, Balanced
  <2>2. InFlight[ch] \in Seq(Tags) /\ ToGenerate'[ch] \in Seq(Tags)
    <3>1. ToGenerate'[ch] = FlattenSeq(ComingFrom(w))
      BY <1>5, JoinedWillBe
    <3>2. ComingFrom(w) \in Seq(Seq(Tags))
      BY <1>2, ComingTyped
    <3>3. FlattenSeq(ComingFrom(w)) \in Seq(Tags)
      BY <3>2, FlattenTyped
    <3>4. QED
      BY <1>1, <3>1, <3>3, JoinedTyped
  <2>3. Balance(Owed[ch], UnaskedOn(ch), InFlight[ch], Cat(<<r.tag>>, ToGenerate'[ch]), rest)
    BY <1>2, <2>1
  <2>4. Balance(Owed[ch], UnaskedOn(ch), Append(InFlight[ch], r.tag), ToGenerate'[ch], rest)
    BY <1>3, <2>2, <2>3, BalanceGenerated
  <2>5. InFlight'[ch] = Append(InFlight[ch], r.tag)
    BY <1>2, JoinedAre
  <2>6. UnaskedOn(ch)' = UnaskedOn(ch) /\ Owed'[ch] = Owed[ch]
    BY <1>2 DEF UnaskedOn
  <2>7. Balance(Owed'[ch], UnaskedOn(ch)', InFlight'[ch], ToGenerate'[ch], rest)
    BY <2>4, <2>5, <2>6
  <2>8. QED
    BY <2>1, <2>7 DEF Balanced
<1>10. \A d \in Channels : Balanced(d)'
  <2>1. \A d \in Channels \ {ch} : InFlight'[d] = InFlight[d]
    BY <1>2, JoinedAre
  <2>2. \A d \in Channels : UnaskedOn(d)' = UnaskedOn(d)
    BY <1>2 DEF UnaskedOn
  <2>3. QED
    BY <1>2, <1>9, <2>1, <2>2, OtherChannels
<1>11. QED
  BY <1>7, <1>8, <1>10 DEF PairInv

\* The pair that is credited is the one the request waits for.
LEMMA CreditKeeps ==
  ASSUME TypeOK, TypeOK', NEW t, PairInv(t), NEW i \in Ready, ScanHandle(i),
         "late" \notin raised'
  PROVE  /\ PairInv(t)'
         /\ LET ch == pending[i].ch
            IN \E e \in Tags :
                 /\ ch \in Channels
                 /\ Owed[ch] = Cat(<<e>>, Owed'[ch])
                 /\ InFlight[ch] = Cat(<<e>>, InFlight'[ch])
                 /\ \A d \in Channels \ {ch} : Owed'[d] = Owed[d] /\ InFlight'[d] = InFlight[d]
                 /\ UNCHANGED issued
<1>0. i \in DOMAIN pending /\ pending \in Seq(Responses) /\ pending[i] \in Responses
  BY SeqFacts DEF Ready, TypeOK, EprTypes
<1> PICK ch \in Channels : ch = pending[i].ch
  BY <1>0 DEF Responses
<1>1. StackSound /\ TypedAs(t)
  BY DEF PairInv
<1>2. PICK h \in Tags, e \in Tags :
        /\ pending' = RemoveAt(pending, i)
        /\ Owed[ch] = Cat(<<h>>, Owed'[ch])
        /\ InFlight[ch] = Cat(<<e>>, InFlight'[ch])
        /\ \A d \in Channels \ {ch} : Owed'[d] = Owed[d] /\ InFlight'[d] = InFlight[d]
        /\ UNCHANGED <<ToGenerate, Unasked, net, issued>>
  BY <1>1, CreditEffect
<1>3. StackSound'
  BY <1>1, <1>2 DEF StackSound, Announced
<1>4. TypedAs(t)'
  <2>1. ASSUME NEW j \in DOMAIN pending'
        PROVE  \E l \in DOMAIN pending : pending'[j] = pending[l]
    <3>1. /\ RemoveAt(pending, i) \in Seq(Responses)
          /\ Len(RemoveAt(pending, i)) = Len(pending) - 1
          /\ RemoveAt(pending, i)[j] = IF j < i THEN pending[j] ELSE pending[j + 1]
      BY <1>0, <1>2, RemoveAtFacts
    <3>2. DOMAIN pending = 1 .. Len(pending) /\ Len(pending) \in Nat
      BY <1>0, SeqFacts
    <3>3. j \in 1 .. Len(pending) - 1
      BY <1>2, <3>1, <3>2, SeqFacts
    <3>4. j \in DOMAIN pending /\ j + 1 \in DOMAIN pending
      BY <3>2, <3>3
    <3>5. QED
      BY <1>2, <3>1, <3>4
  <2>2. QED
    BY <1>1, <1>2, <2>1 DEF TypedAs
<1>5. h = e /\ Balanced(ch)'
  <2>1. PICK rest \in Seq(Tags) :
          /\ Balance(Owed[ch], UnaskedOn(ch), InFlight[ch], ToGenerate[ch], rest)
          /\ ch[1] = "create" => rest = <<>>
    BY <1>2 DEF PairInv, Balanced
  <2>2. /\ Owed'[ch] \in Seq(Tags) /\ InFlight'[ch] \in Seq(Tags)
        /\ ToGenerate[ch] \in Seq(Tags) /\ UnaskedOn(ch) \in Seq(Tags)
    <3>1. Owed'[ch] \in Seq(Tags) /\ InFlight'[ch] \in Seq(Tags)
      BY JoinedTypedNext
    <3>2. QED
      BY <1>1, <1>2, <3>1, JoinedTyped
  <2>3. Balance(Cat(<<h>>, Owed'[ch]), UnaskedOn(ch), Cat(<<e>>, InFlight'[ch]), ToGenerate[ch], rest)
    BY <1>2, <2>1
  <2>4. h = e /\ Balance(Owed'[ch], UnaskedOn(ch), InFlight'[ch], ToGenerate[ch], rest)
    BY <2>2, <2>3, BalanceCredited
  <2>5. UnaskedOn(ch)' = UnaskedOn(ch) /\ ToGenerate'[ch] = ToGenerate[ch]
    BY <1>2 DEF UnaskedOn
  <2>6. Balance(Owed'[ch], UnaskedOn(ch)', InFlight'[ch], ToGenerate'[ch], rest)
    BY <2>4, <2>5
  <2>7. QED
    BY <2>1, <2>4, <2>6 DEF Balanced
<1>6. \A d \in Channels : Balanced(d)'
  <2>1. \A d \in Channels : UnaskedOn(d)' = UnaskedOn(d) /\ ToGenerate'[d] = ToGenerate[d]
    BY <1>2 DEF UnaskedOn
  <2>2. QED
    BY <1>2, <1>5, <2>1, OtherChannels
<1>7. QED
  BY <1>2, <1>3, <1>4, <1>5, <1>6 DEF PairInv

LEMMA UntouchedKeeps ==
  ASSUME NEW t, PairInv(t), PairsUntouched
  PROVE  PairInv(t)'
<1>1. UNCHANGED <<Owed, InFlight, ToGenerate, Unasked, issued, net, pending>>
  BY UntouchedEffect DEF PairsUntouched
<1>2. StackSound' /\ TypedAs(t)'
  BY <1>1 DEF PairInv, StackSound, TypedAs, Announced
<1>3. \A ch \in Channels : UnaskedOn(ch)' = UnaskedOn(ch)
  BY <1>1 DEF UnaskedOn
<1>4. ASSUME NEW ch \in Channels
      PROVE  Balanced(ch)'
  BY <1>1, <1>3 DEF PairInv, Balanced
<1>5. QED
  BY <1>2, <1>4 DEF PairInv

LEMMA NextPairs ==
  ASSUME TypeOK, NEW t, OneType(t), PairInv(t), [Next]_vars, Untroubled'
  PROVE  PairInv(t)'
<1>1. errors' = 0 /\ "late" \notin raised' /\ ReceivesWhatIsSent'
  BY DEF Untroubled
<1>2. TypeOK'
  BY NextTypes
<1>3. QED
  BY <1>1, <1>2, StepEffects, UntouchedKeeps, CreateKeeps, ReceiveKeeps, GenerateKeeps, CreditKeeps


-----------------------------------------------------------------------------
(* What follows for the pairs.                                             *)

LEMMA BalancedConserves ==
  ASSUME TypeOK, NEW t, PairInv(t)
  PROVE  PairsConserved
<1>1. StackSound
  BY DEF PairInv
<1> SUFFICES ASSUME NEW k \in Keys
             PROVE  /\ LET ch == <<"create", k>> IN Owed[ch] = InFlight[ch] \o ToGenerate[ch]
                    /\ LET ch == <<"recv", k>>
                       IN IsPrefix(InFlight[ch] \o ToGenerate[ch], Owed[ch] \o Unasked[k])
  BY DEF PairsConserved
<1>2. ASSUME NEW ch \in Channels
      PROVE  \E rest \in Seq(Tags) :
               /\ Owed[ch] \in Seq(Tags) /\ InFlight[ch] \in Seq(Tags)
               /\ ToGenerate[ch] \in Seq(Tags) /\ UnaskedOn(ch) \in Seq(Tags)
               /\ Cat(Owed[ch], UnaskedOn(ch)) = Cat(Cat(InFlight[ch], ToGenerate[ch]), rest)
               /\ ch[1] = "create" => rest = <<>>
  BY <1>1, JoinedTyped DEF PairInv, Balanced, Balance
<1>3. Owed[<<"create", k>>] = Cat(InFlight[<<"create", k>>], ToGenerate[<<"create", k>>])
  <2> DEFINE ch == <<"create", k>>
  <2>1. ch \in Channels /\ ch[1] = "create" /\ UnaskedOn(ch) = <<>>
    BY DEF Channels, Roles, UnaskedOn
  <2> HIDE DEF ch
  <2>2. /\ Owed[ch] \in Seq(Tags) /\ InFlight[ch] \in Seq(Tags) /\ ToGenerate[ch] \in Seq(Tags)
        /\ Cat(Owed[ch], <<>>) = Cat(Cat(InFlight[ch], ToGenerate[ch]), <<>>)
    BY <1>2, <2>1
  <2>3. Cat(InFlight[ch], ToGenerate[ch]) \in Seq(Tags)
    BY <2>2, CatTyped
  <2>4. QED
    BY <2>2, <2>3, CatEmpty DEF ch
<1>4. IsPrefix(Cat(InFlight[<<"recv", k>>], ToGenerate[<<"recv", k>>]),
               Cat(Owed[<<"recv", k>>], Unasked[k]))
  <2> DEFINE ch == <<"recv", k>>
  <2>1. ch \in Channels /\ UnaskedOn(ch) = Unasked[k]
    BY DEF Channels, Roles, UnaskedOn
  <2> HIDE DEF ch
  <2>2. PICK rest \in Seq(Tags) :
          /\ InFlight[ch] \in Seq(Tags) /\ ToGenerate[ch] \in Seq(Tags)
          /\ Cat(Owed[ch], Unasked[k]) = Cat(Cat(InFlight[ch], ToGenerate[ch]), rest)
    BY <1>2, <2>1
  <2>3. Cat(InFlight[ch], ToGenerate[ch]) \in Seq(Tags)
    BY <2>2, CatTyped
  <2>4. QED
    BY <2>2, <2>3, CatPrefix DEF ch
<1>5. QED
  BY <1>3, <1>4 DEF Cat

\* Along a run the inductive invariant holds, for the types of its channels.
LEMMA PairsAlways ==
  ASSUME NEW t \in [Channels -> {"K", "M"}], OneType(t)
  PROVE  Spec /\ []Untroubled => []PairInv(t)
<1>1. Init => PairInv(t)
  BY InitPairs
<1>2. TypeOK /\ PairInv(t) /\ [Next]_vars /\ Untroubled' => PairInv(t)'
  BY NextPairs
<1>3. QED
  BY <1>1, <1>2, TypeCorrect, PTL DEF Spec

\* The executor and the network stack agree on every pair, when all requests of a channel
\* keep their pairs or all measure them: what is owed is what was reported and what is to
\* come, in that order (_extract_epr_info, _handle_last_epr_pair).
THEOREM PairsAgree ==
  ASSUME OneTypePerChannel
  PROVE  Spec /\ []Untroubled => []PairsConserved
<1>1. PICK t \in [Channels -> {"K", "M"}] : OneType(t)
  BY DEF OneTypePerChannel
<1>2. TypeOK /\ PairInv(t) => PairsConserved
  BY BalancedConserves
<1>3. Spec /\ []Untroubled => []PairInv(t)
  BY <1>1, PairsAlways
<1>4. QED
  BY <1>2, <1>3, TypeCorrect, PTL


-----------------------------------------------------------------------------
(* The executor implements module EprPairs.                                *)

\* A request of n pairs for the specification.
LEMMA AskedPairs ==
  ASSUME NEW n \in Nat, NEW id
  PROVE  PairsAfter(0, n, id) = [j \in 1 .. n |-> Pairs!Pair(id, j)]
<1>1. \A j \in 1 .. n : 0 + j = j
  OBVIOUS
<1>2. QED
  BY <1>1 DEF PairsAfter, Pairs!Pair

\* In the beginning no pair is asked for.
LEMMA InitRefines ==
  ASSUME NEW t \in [Channels -> {"K", "M"}], OneType(t), Init
  PROVE  Pairs!Init
<1>1. issued = [ch \in Channels |-> 0]
  BY DEF Init
<1>2. \A ch \in Channels : Owed[ch] = <<>> /\ InFlight[ch] = <<>>
  BY InitNothing
<1>3. Owed = [ch \in Channels |-> <<>>] /\ InFlight = [ch \in Channels |-> <<>>]
  BY <1>2, JoinedAre
<1>4. QED
  BY <1>1, <1>3 DEF Pairs!Init

\* Every step makes a request, reports a pair, credits one, or leaves the pairs alone.
LEMMA NextRefines ==
  ASSUME TypeOK, TypeOK', NEW t, OneType(t), PairInv(t), [Next]_vars, Untroubled'
  PROVE  [Pairs!Next]_Pairs!vars
<1>1. StackSound
  BY DEF PairInv
<1>2. errors' = 0 /\ "late" \notin raised' /\ ReceivesWhatIsSent'
  BY DEF Untroubled
<1>3. ASSUME NEW ch \in Channels, NEW n \in Sizes, issued' = [issued EXCEPT ![ch] = @ + 1],
             Owed' = [Owed EXCEPT ![ch] = Cat(@, PairsAfter(0, n, issued[ch] + 1))],
             UNCHANGED InFlight
      PROVE  Pairs!Next
  <2>1. n \in Nat
    BY ConstantsAssumption DEF Pos
  <2>2. PairsAfter(0, n, issued[ch] + 1) = [j \in 1 .. n |-> Pairs!Pair(issued[ch] + 1, j)]
    BY <2>1, AskedPairs
  <2>3. Owed' = [Owed EXCEPT ![ch] = @ \o [j \in 1 .. n |-> Pairs!Pair(issued[ch] + 1, j)]]
    BY <1>3, <2>2 DEF Cat
  <2>4. Pairs!Ask(ch)
    BY <1>3, <2>3 DEF Pairs!Ask
  <2>5. QED
    BY <2>4 DEF Pairs!Next
<1>4. ASSUME PairsUntouched
      PROVE  UNCHANGED Pairs!vars
  BY <1>4, UntouchedEffect DEF Pairs!vars
<1>5. ASSUME NEW s \in DOMAIN subs, CreateEpr(s), ~UNCHANGED issued
      PROVE  Pairs!Next
  <2>1. PICK k \in Keys, n \in Sizes :
          LET ch == <<"create", k>>
          IN /\ issued' = [issued EXCEPT ![ch] = @ + 1]
             /\ Owed' = [Owed EXCEPT ![ch] = Cat(@, PairsAfter(0, n, issued[ch] + 1))]
             /\ UNCHANGED InFlight
    BY <1>1, <1>5, CreateEffect
  <2>2. <<"create", k>> \in Channels
    BY DEF Channels, Roles
  <2>3. QED
    BY <1>3, <2>1, <2>2
<1>6. ASSUME NEW s \in DOMAIN subs, RecvEpr(s), ~UNCHANGED issued
      PROVE  Pairs!Next
  <2>1. PICK k \in Keys, n \in Sizes :
          LET ch == <<"recv", k>>
          IN /\ issued' = [issued EXCEPT ![ch] = @ + 1]
             /\ Owed' = [Owed EXCEPT ![ch] = Cat(@, PairsAfter(0, n, issued[ch] + 1))]
             /\ UNCHANGED InFlight
    BY <1>1, <1>2, <1>6, ReceiveEffect
  <2>2. <<"recv", k>> \in Channels
    BY DEF Channels, Roles
  <2>3. QED
    BY <1>3, <2>1, <2>2
<1>7. ASSUME NEW ch \in Channels, GeneratePair(ch)
      PROVE  Pairs!Next
  <2>1. PICK r \in Responses :
          /\ \E n \in Sizes : r.tag.pair \in 1 .. n
          /\ r.tag.id \in (1 .. issued[ch]) \cup (1 .. Announced[ch])
          /\ InFlight' = [InFlight EXCEPT ![ch] = Append(@, r.tag)]
          /\ UNCHANGED <<Owed, issued>>
    BY <1>1, <1>7, GenerateEffect
  <2>2. r.tag = Pairs!Pair(r.tag.id, r.tag.pair)
    BY DEF Responses, Tags, Pairs!Pair
  <2>3. Pairs!Report(ch)
    BY <2>1, <2>2 DEF Pairs!Report
  <2>4. QED
    BY <2>3 DEF Pairs!Next
<1>8. ASSUME NEW i \in Ready, ScanHandle(i)
      PROVE  Pairs!Next
  <2>1. PICK ch \in Channels, e \in Tags :
          /\ Owed[ch] = Cat(<<e>>, Owed'[ch])
          /\ InFlight[ch] = Cat(<<e>>, InFlight'[ch])
          /\ \A d \in Channels \ {ch} : Owed'[d] = Owed[d] /\ InFlight'[d] = InFlight[d]
          /\ UNCHANGED issued
    BY <1>2, <1>8, CreditKeeps
  <2>2. Owed'[ch] \in Seq(Tags) /\ InFlight'[ch] \in Seq(Tags)
    BY JoinedTypedNext
  <2>3. /\ Owed[ch] # <<>> /\ Head(Owed[ch]) = e /\ Tail(Owed[ch]) = Owed'[ch]
        /\ InFlight[ch] # <<>> /\ Head(InFlight[ch]) = e /\ Tail(InFlight[ch]) = InFlight'[ch]
    BY <2>1, <2>2, CatFirst
  <2>4. /\ Owed' = [Owed EXCEPT ![ch] = Tail(@)]
        /\ InFlight' = [InFlight EXCEPT ![ch] = Tail(@)]
    BY <2>1, <2>3, JoinedAre, JoinedWillBe
  <2>5. Pairs!Credit(ch)
    BY <2>1, <2>3, <2>4 DEF Pairs!Credit
  <2>6. QED
    BY <2>5 DEF Pairs!Next
<1>9. QED
  BY <1>2, <1>4, <1>5, <1>6, <1>7, <1>8, StepEffects

\* The pairs are credited to the requests they were generated for, one at a time and in the
\* order of the requests, when all requests of a channel keep their pairs or all measure
\* them: the detailed specification implements the abstract one.
THEOREM ImplementsPairs ==
  ASSUME OneTypePerChannel
  PROVE  Spec /\ []Untroubled => CreditsInOrder
<1>1. PICK t \in [Channels -> {"K", "M"}] : OneType(t)
  BY DEF OneTypePerChannel
<1>2. Init => Pairs!Init
  BY <1>1, InitRefines
<1>3. TypeOK /\ TypeOK' /\ PairInv(t) /\ [Next]_vars /\ Untroubled' => [Pairs!Next]_Pairs!vars
  BY <1>1, NextRefines
<1>4. Spec /\ []Untroubled => []PairInv(t)
  BY <1>1, PairsAlways
<1>5. QED
  BY <1>2, <1>3, <1>4, TypeCorrect, PTL DEF Spec, CreditsInOrder, Pairs!Spec

-----------------------------------------------------------------------------
(* A request is credited with its own pairs.                               *)

OwnPairs ==
  \A ch \in Channels :
    Len(Owed'[ch]) < Len(Owed[ch]) =>
      /\ InFlight[ch] # <<>>
      /\ Head(InFlight[ch]) = Head(Owed[ch])
      /\ InFlight'[ch] \in {Tail(InFlight[ch]), InFlight[ch]}

LEMMA NextOwnPairs ==
  ASSUME TypeOK, TypeOK', StackSound, [Pairs!Next]_Pairs!vars
  PROVE  OwnPairs
<1>1. /\ Owed = [ch \in Channels |-> Owed[ch]] /\ InFlight = [ch \in Channels |-> InFlight[ch]]
      /\ \A ch \in Channels : Len(Owed[ch]) \in Nat /\ Owed[ch] \in Seq(Tags)
  BY JoinedTyped, JoinedAre
<1>2. CASE UNCHANGED Pairs!vars
  BY <1>1, <1>2 DEF Pairs!vars, OwnPairs
<1>3. ASSUME NEW c \in Channels, Pairs!Ask(c)
      PROVE  OwnPairs
  <2>1. PICK n \in Sizes :
          Owed' = [Owed EXCEPT ![c] = @ \o [j \in 1 .. n |-> Pairs!Pair(issued[c] + 1, j)]]
    BY <1>3 DEF Pairs!Ask
  <2>2. n \in Nat /\ issued[c] + 1 \in Pos
    BY ConstantsAssumption DEF Pos, TypeOK, NetTypes
  <2> DEFINE run == PairsAfter(0, n, issued[c] + 1)
  <2>3. run = [j \in 1 .. n |-> Pairs!Pair(issued[c] + 1, j)]
    BY <2>2, AskedPairs
  <2>4. run \in Seq(Tags) /\ Len(run) = n
    BY <2>2, RunTyped
  <2>5. Owed' = [Owed EXCEPT ![c] = Cat(@, run)]
    BY <2>1, <2>3 DEF Cat
  <2> HIDE DEF run
  <2>6. Len(Cat(Owed[c], run)) = Len(Owed[c]) + n
    BY <1>1, <2>4, CatMembers
  <2>7. ASSUME NEW ch \in Channels
        PROVE  ~(Len(Owed'[ch]) < Len(Owed[ch]))
    <3>1. Owed'[ch] = IF ch = c THEN Cat(Owed[c], run) ELSE Owed[ch]
      BY <1>1, <2>5
    <3>2. QED
      BY <1>1, <2>2, <2>6, <3>1
  <2>8. QED
    BY <2>7 DEF OwnPairs
<1>4. ASSUME NEW c \in Channels, Pairs!Report(c)
      PROVE  OwnPairs
  <2>1. UNCHANGED Owed
    BY <1>4 DEF Pairs!Report
  <2>2. QED
    BY <1>1, <2>1 DEF OwnPairs
<1>5. ASSUME NEW c \in Channels, Pairs!Credit(c)
      PROVE  OwnPairs
  <2>1. /\ InFlight[c] # <<>> /\ Head(InFlight[c]) = Head(Owed[c])
        /\ InFlight' = [InFlight EXCEPT ![c] = Tail(@)]
        /\ Owed' = [Owed EXCEPT ![c] = Tail(@)]
    BY <1>5 DEF Pairs!Credit
  <2>2. InFlight'[c] = Tail(InFlight[c]) /\ \A ch \in Channels \ {c} : Owed'[ch] = Owed[ch]
    BY <1>1, <2>1
  <2>3. QED
    BY <1>1, <2>1, <2>2 DEF OwnPairs
<1>6. QED
  BY <1>2, <1>3, <1>4, <1>5 DEF Pairs!Next

\* A request is only ever credited with the next of its own pairs, on channels of one type:
\* what the run with pairs to keep and to measure on one channel refutes needs that mixture.
THEOREM RequestsGetTheirPairs ==
  ASSUME OneTypePerChannel
  PROVE  Spec /\ []Untroubled => CreditsOwnPair
<1>1. PICK t \in [Channels -> {"K", "M"}] : OneType(t)
  BY DEF OneTypePerChannel
<1>2. TypeOK /\ TypeOK' /\ PairInv(t) /\ [Next]_vars /\ Untroubled' => OwnPairs
  BY <1>1, NextRefines, NextOwnPairs DEF PairInv
<1>3. Spec /\ []Untroubled => []PairInv(t)
  BY <1>1, PairsAlways
<1>4. OwnPairs => [OwnPairs]_vars
  OBVIOUS
<1>5. Spec /\ []Untroubled => [][OwnPairs]_vars
  BY <1>2, <1>3, <1>4, TypeCorrect, PTL DEF Spec
<1>6. QED
  BY <1>5 DEF CreditsOwnPair, OwnPairs
=============================================================================
