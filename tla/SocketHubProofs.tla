--------------------------- MODULE SocketHubProofs ---------------------------
(***************************************************************************)
(* Theorems about module SocketHub, for any two hosts, any of them with    *)
(* callbacks, and any number of sockets and messages.                      *)
(***************************************************************************)
EXTENDS SocketHub, FiniteSetTheorems, SequenceTheorems, TLAPS

Stages  == {"opening", "up", "failed", "gone"}
Threads == [pc : Pcs, obj : Nat, cb : Nat]

-----------------------------------------------------------------------------
(* The two hosts.                                                          *)

LEMMA OtherFacts ==
  ASSUME NEW e \in Ends
  PROVE  /\ Other(e) \in Ends
         /\ Other(e) # e
         /\ Other(Other(e)) = e
         /\ \A d \in Ends : d = e \/ d = Other(e)
<1>1. IsFiniteSet(Ends) /\ Cardinality(Ends) = 2
  BY ConstantsAssumption
<1>2. PICK f \in Bijection(1 .. 2, Ends) : TRUE
  BY <1>1, FS_CardinalityType DEF ExistsBijection
<1>3. Ends = {f[1], f[2]} /\ f[1] # f[2]
  <2>1. /\ f \in [1 .. 2 -> Ends]
        /\ \A x \in Ends : \E i \in 1 .. 2 : f[i] = x
        /\ \A i, j \in 1 .. 2 : f[i] = f[j] => i = j
    BY <1>2 DEF Bijection, Injection, Surjection, IsInjective
  <2>2. 1 \in 1 .. 2 /\ 2 \in 1 .. 2 /\ \A i \in 1 .. 2 : i = 1 \/ i = 2
    OBVIOUS
  <2>3. QED
    BY <2>1, <2>2
<1>4. \A d \in Ends : Other(d) \in Ends /\ Other(d) # d
  BY <1>3 DEF Other
<1>5. QED
  BY <1>3, <1>4

-----------------------------------------------------------------------------
(* What a step does to the thread of a host, and to one of its sockets.    *)

Moves(e, pc, obj, cb) ==
  /\ thread' \in [Ends -> Threads]
  /\ thread'[e].pc = pc /\ thread'[e].obj = obj /\ thread'[e].cb = cb
  /\ \A d \in Ends : d # e => thread'[d] = thread[d]

LEMMA MoveFacts ==
  ASSUME TypeOK, NEW e \in Ends, NEW t \in Threads, thread' = [thread EXCEPT ![e] = t]
  PROVE  Moves(e, t.pc, t.obj, t.cb)
  BY DEF TypeOK, Threads, Moves

\* The forms in which the actions say it.
LEMMA GoFacts ==
  ASSUME TypeOK, NEW e \in Ends, NEW pc \in Pcs
  PROVE  /\ thread[e].obj \in Nat /\ thread[e].cb \in Nat
         /\ GoTo(e, pc) => Moves(e, pc, thread[e].obj, thread[e].cb)
         /\ Return(e) => Moves(e, "idle", 0, 0)
         /\ \A n \in Nat :
              thread' = [thread EXCEPT ![e] = [@ EXCEPT !.pc = pc, !.obj = n]]
                => Moves(e, pc, n, thread[e].cb)
         /\ \A n \in Nat :
              thread' = [thread EXCEPT ![e] = [@ EXCEPT !.pc = pc, !.cb = n]]
                => Moves(e, pc, thread[e].obj, n)
<1>1. thread \in [Ends -> Threads]
  BY DEF TypeOK, Threads
<1>2. thread[e] \in Threads /\ thread[e].obj \in Nat /\ thread[e].cb \in Nat
  BY <1>1 DEF Threads
<1>3. GoTo(e, pc) => Moves(e, pc, thread[e].obj, thread[e].cb)
  <2> DEFINE t == [thread[e] EXCEPT !.pc = pc]
  <2>1. t \in Threads /\ t.pc = pc /\ t.obj = thread[e].obj /\ t.cb = thread[e].cb
    BY <1>2 DEF Threads
  <2>2. GoTo(e, pc) => thread' = [thread EXCEPT ![e] = t]
    BY DEF GoTo
  <2> HIDE DEF t
  <2>3. QED
    BY <2>1, <2>2, MoveFacts
<1>4. Return(e) => Moves(e, "idle", 0, 0)
  <2>1. Idle \in Threads /\ Idle.pc = "idle" /\ Idle.obj = 0 /\ Idle.cb = 0
    BY DEF Idle, Threads, Pcs
  <2>2. QED
    BY <2>1, MoveFacts DEF Return
<1>5. ASSUME NEW n \in Nat,
             thread' = [thread EXCEPT ![e] = [@ EXCEPT !.pc = pc, !.obj = n]]
      PROVE  Moves(e, pc, n, thread[e].cb)
  <2> DEFINE t == [thread[e] EXCEPT !.pc = pc, !.obj = n]
  <2>1. t \in Threads /\ t.pc = pc /\ t.obj = n /\ t.cb = thread[e].cb
    BY <1>2 DEF Threads
  <2>2. thread' = [thread EXCEPT ![e] = t]
    BY <1>5
  <2> HIDE DEF t
  <2>3. QED
    BY <2>1, <2>2, MoveFacts
<1>6. ASSUME NEW n \in Nat,
             thread' = [thread EXCEPT ![e] = [@ EXCEPT !.pc = pc, !.cb = n]]
      PROVE  Moves(e, pc, thread[e].obj, n)
  <2> DEFINE t == [thread[e] EXCEPT !.pc = pc, !.cb = n]
  <2>1. t \in Threads /\ t.pc = pc /\ t.obj = thread[e].obj /\ t.cb = n
    BY <1>2 DEF Threads
  <2>2. thread' = [thread EXCEPT ![e] = t]
    BY <1>6
  <2> HIDE DEF t
  <2>3. QED
    BY <2>1, <2>2, MoveFacts
<1>7. QED
  BY <1>2, <1>3, <1>4, <1>5, <1>6

\* The socket n of a host, if there is one, becomes st.
Marks(e, n, st) ==
  /\ sock' \in [Ends -> Seq(Stages)]
  /\ \A d \in Ends : DOMAIN sock'[d] = DOMAIN sock[d]
  /\ \A d \in Ends : \A k \in DOMAIN sock[d] :
       sock'[d][k] = IF d = e /\ k = n THEN st ELSE sock[d][k]

LEMMA MarkFacts ==
  ASSUME TypeOK, NEW e \in Ends, NEW n, NEW st \in Stages,
         sock' = [sock EXCEPT ![e][n] = st]
  PROVE  Marks(e, n, st)
<1>1. sock \in [Ends -> Seq(Stages)]
  BY DEF TypeOK, Stages
<1> DEFINE s == [sock[e] EXCEPT ![n] = st]
<1>2. /\ s \in Seq(Stages)
      /\ DOMAIN s = DOMAIN sock[e]
      /\ \A k \in DOMAIN sock[e] : s[k] = IF k = n THEN st ELSE sock[e][k]
  <2>1. sock[e] \in Seq(Stages)
    BY <1>1
  <2>2. /\ Len(sock[e]) \in Nat
        /\ sock[e] \in [1 .. Len(sock[e]) -> Stages]
    BY <2>1
  <2>3. s \in [1 .. Len(sock[e]) -> Stages]
    BY <2>2
  <2>4. s \in Seq(Stages)
    BY <2>2, <2>3, SeqDef
  <2>5. QED
    BY <2>2, <2>3, <2>4
<1>3. sock' = [sock EXCEPT ![e] = s]
  OBVIOUS
<1> HIDE DEF s
<1>4. QED
  BY <1>1, <1>2, <1>3 DEF Marks

-----------------------------------------------------------------------------
(* The books of one direction: n messages have been sent, of which D were  *)
(* delivered, M wait in the queue, X are lost and those of S are on the way. *)

Distinct(s) == \A i, j \in DOMAIN s : s[i] = s[j] => i = j

Books(D, M, X, S, n) ==
  /\ ToSet(D) \cup ToSet(M) \cup X \cup S = 1 .. n
  /\ ToSet(D) \cap ToSet(M) = {}
  /\ (ToSet(D) \cup ToSet(M)) \cap (X \cup S) = {}
  /\ X \cap S = {}
  /\ Distinct(D)
  /\ Increasing(M)

\* What a host without callbacks received comes before what waits for it.
InTurn(D, M) == Increasing(D) /\ \A x \in ToSet(D), y \in ToSet(M) : x < y

LEMMA AppendFacts ==
  ASSUME NEW s \in Seq(Nat), NEW x \in Nat
  PROVE  /\ Append(s, x) \in Seq(Nat)
         /\ ToSet(Append(s, x)) = ToSet(s) \cup {x}
         /\ Distinct(s) /\ x \notin ToSet(s) => Distinct(Append(s, x))
         /\ Increasing(s) /\ (\A y \in ToSet(s) : y < x) => Increasing(Append(s, x))
<1> DEFINE t == Append(s, x)
           n == Len(s)
<1>1. /\ n \in Nat /\ DOMAIN s = 1 .. n
      /\ t \in Seq(Nat) /\ DOMAIN t = 1 .. n + 1 /\ t[n + 1] = x
      /\ \A i \in 1 .. n : t[i] = s[i] /\ s[i] \in Nat
  OBVIOUS
<1> HIDE DEF t, n
<1>2. ToSet(t) = ToSet(s) \cup {x}
  <2>1. 1 .. n + 1 = (1 .. n) \cup {n + 1}
    BY <1>1
  <2>2. QED
    BY <1>1, <2>1 DEF ToSet
<1>3. \A i \in 1 .. n : s[i] \in ToSet(s)
  BY <1>1 DEF ToSet
<1>4. ASSUME Distinct(s), x \notin ToSet(s) PROVE Distinct(t)
  <2> SUFFICES ASSUME NEW i \in 1 .. n + 1, NEW j \in 1 .. n + 1, t[i] = t[j] PROVE i = j
    BY <1>1 DEF Distinct
  <2>1. CASE i = n + 1
    BY <1>1, <1>3, <1>4, <2>1
  <2>2. CASE j = n + 1
    BY <1>1, <1>3, <1>4, <2>2
  <2>3. CASE i # n + 1 /\ j # n + 1
    <3>1. i \in 1 .. n /\ j \in 1 .. n
      BY <1>1, <2>3
    <3>2. QED
      BY <1>1, <1>4, <3>1 DEF Distinct
  <2>4. QED
    BY <2>1, <2>2, <2>3
<1>5. ASSUME Increasing(s), \A y \in ToSet(s) : y < x PROVE Increasing(t)
  <2> SUFFICES ASSUME NEW i \in 1 .. n + 1, NEW j \in 1 .. n + 1, i < j PROVE t[i] < t[j]
    BY <1>1 DEF Increasing
  <2>1. i \in 1 .. n
    BY <1>1
  <2>2. CASE j = n + 1
    BY <1>1, <1>3, <1>5, <2>1, <2>2
  <2>3. CASE j # n + 1
    <3>1. j \in 1 .. n
      BY <1>1, <2>3
    <3>2. QED
      BY <1>1, <1>5, <2>1, <3>1 DEF Increasing
  <2>4. QED
    BY <2>2, <2>3
<1>6. QED
  BY <1>1, <1>2, <1>4, <1>5 DEF t

LEMMA TailFacts ==
  ASSUME NEW s \in Seq(Nat), s # <<>>, Increasing(s)
  PROVE  /\ Head(s) \in Nat /\ Tail(s) \in Seq(Nat)
         /\ ToSet(s) = ToSet(Tail(s)) \cup {Head(s)}
         /\ \A y \in ToSet(Tail(s)) : Head(s) < y
         /\ Increasing(Tail(s))
<1> DEFINE t == Tail(s)
           n == Len(s)
<1>1. /\ n \in Nat /\ n > 0 /\ DOMAIN s = 1 .. n /\ Head(s) = s[1]
      /\ t \in Seq(Nat) /\ DOMAIN t = 1 .. n - 1
      /\ \A i \in 1 .. n - 1 : t[i] = s[i + 1]
      /\ \A i \in 1 .. n : s[i] \in Nat
  <2>1. n \in Nat /\ n > 0 /\ DOMAIN s = 1 .. n /\ Head(s) = s[1] /\ s \in [1 .. n -> Nat]
    OBVIOUS
  <2>2. /\ t \in Seq(Nat) /\ Len(t) = n - 1
        /\ \A i \in 1 .. Len(t) : t[i] = s[i + 1]
    BY HeadTailProperties
  <2>3. DOMAIN t = 1 .. Len(t)
    BY <2>2
  <2>4. QED
    BY <2>1, <2>2, <2>3
<1> HIDE DEF t, n
<1>2. ToSet(s) = ToSet(t) \cup {s[1]}
  <2>1. \A i \in 1 .. n : i = 1 \/ (i - 1 \in 1 .. n - 1 /\ s[i] = t[i - 1])
    BY <1>1
  <2>2. \A i \in 1 .. n - 1 : i + 1 \in 1 .. n
    BY <1>1
  <2>3. 1 \in 1 .. n
    BY <1>1
  <2>4. ToSet(s) = {s[i] : i \in 1 .. n} /\ ToSet(t) = {t[i] : i \in 1 .. n - 1}
    BY <1>1 DEF ToSet
  <2>5. \A i \in 1 .. n : s[i] \in ToSet(t) \cup {s[1]}
    BY <2>1, <2>4
  <2>6. \A i \in 1 .. n - 1 : t[i] \in ToSet(s)
    BY <1>1, <2>2, <2>4
  <2>7. QED
    BY <2>3, <2>4, <2>5, <2>6
<1>3. \A y \in ToSet(t) : s[1] < y
  <2>1. ASSUME NEW i \in 1 .. n - 1 PROVE s[1] < s[i + 1]
    <3>1. 1 \in 1 .. n /\ i + 1 \in 1 .. n /\ 1 < i + 1
      BY <1>1
    <3>2. QED
      BY <1>1, <3>1 DEF Increasing
  <2>2. QED
    BY <1>1, <2>1 DEF ToSet
<1>4. Increasing(t)
  <2> SUFFICES ASSUME NEW i \in 1 .. n - 1, NEW j \in 1 .. n - 1, i < j PROVE t[i] < t[j]
    BY <1>1 DEF Increasing
  <2>1. i + 1 \in 1 .. n /\ j + 1 \in 1 .. n /\ i + 1 < j + 1
    BY <1>1
  <2>2. QED
    BY <1>1, <2>1 DEF Increasing
<1>5. QED
  BY <1>1, <1>2, <1>3, <1>4 DEF t

LEMMA EmptyBooks == Books(<<>>, <<>>, {}, {}, 0) /\ InTurn(<<>>, <<>>)
<1>1. /\ ToSet(<<>>) = {} /\ Distinct(<<>>) /\ Increasing(<<>>) /\ DOMAIN <<>> = {}
      /\ 1 .. 0 = {}
  BY DEF ToSet, Distinct, Increasing
<1>2. QED
  BY <1>1 DEF Books, InTurn

\* A message is sent, called into a socket, lost, queued, taken.
LEMMA BookSend ==
  ASSUME NEW D, NEW M, NEW X, NEW n \in Nat, Books(D, M, X, {}, n)
  PROVE  Books(D, M, X, {n + 1}, n + 1)
<1>1. 1 .. n + 1 = (1 .. n) \cup {n + 1} /\ n + 1 \notin 1 .. n
  OBVIOUS
<1>2. QED
  BY <1>1 DEF Books

LEMMA BookDeliver ==
  ASSUME NEW D \in Seq(Nat), NEW M, NEW X, NEW n \in Nat, Books(D, M, X, {n}, n)
  PROVE  Books(Append(D, n), M, X, {}, n)
<1>1. ToSet(Append(D, n)) = ToSet(D) \cup {n}
  BY AppendFacts
<1>2. n \notin ToSet(D) /\ n \notin ToSet(M) /\ n \notin X
  BY DEF Books
<1>3. Distinct(Append(D, n))
  BY <1>2, AppendFacts DEF Books
<1>4. QED
  BY <1>1, <1>2, <1>3 DEF Books

LEMMA BookLose ==
  ASSUME NEW D, NEW M, NEW X, NEW n, Books(D, M, X, {n}, n)
  PROVE  Books(D, M, X \cup {n}, {}, n)
  BY DEF Books

LEMMA BookQueue ==
  ASSUME NEW D, NEW M \in Seq(Nat), NEW X, NEW n \in Nat, Books(D, M, X, {n}, n)
  PROVE  /\ Books(D, Append(M, n), X, {}, n)
         /\ InTurn(D, M) => InTurn(D, Append(M, n))
<1>1. ToSet(Append(M, n)) = ToSet(M) \cup {n}
  BY AppendFacts
<1>2. n \notin ToSet(D) /\ n \notin ToSet(M) /\ n \notin X
  BY DEF Books
<1>3. \A x \in ToSet(D) \cup ToSet(M) : x < n
  <2>1. \A x \in ToSet(D) \cup ToSet(M) : x \in 1 .. n /\ x # n
    BY <1>2 DEF Books
  <2>2. QED
    BY <2>1
<1>4. Increasing(Append(M, n))
  BY <1>3, AppendFacts DEF Books
<1>5. Books(D, Append(M, n), X, {}, n)
  BY <1>1, <1>2, <1>4 DEF Books
<1>6. InTurn(D, M) => InTurn(D, Append(M, n))
  BY <1>1, <1>3 DEF InTurn
<1>7. QED
  BY <1>5, <1>6

LEMMA BookTake ==
  ASSUME NEW D \in Seq(Nat), NEW M \in Seq(Nat), M # <<>>,
         NEW X, NEW S, NEW n, Books(D, M, X, S, n)
  PROVE  /\ Books(Append(D, Head(M)), Tail(M), X, S, n)
         /\ InTurn(D, M) => InTurn(Append(D, Head(M)), Tail(M))
<1>1. Increasing(M)
  BY DEF Books
<1> DEFINE m == Head(M)
           R == Tail(M)
<1>2. /\ m \in Nat /\ R \in Seq(Nat)
      /\ ToSet(M) = ToSet(R) \cup {m}
      /\ \A y \in ToSet(R) : m < y
      /\ Increasing(R)
  BY <1>1, TailFacts
<1> HIDE DEF m, R
<1>3. m \notin ToSet(R)
  BY <1>2
<1>4. m \notin ToSet(D)
  BY <1>2 DEF Books
<1>5. ToSet(Append(D, m)) = ToSet(D) \cup {m} /\ (Distinct(D) => Distinct(Append(D, m)))
  BY <1>2, <1>4, AppendFacts
<1>6. Books(Append(D, m), R, X, S, n)
  <2>1. Distinct(Append(D, m))
    BY <1>5 DEF Books
  <2>2. QED
    BY <1>2, <1>3, <1>4, <1>5, <2>1 DEF Books
<1>7. ASSUME InTurn(D, M) PROVE InTurn(Append(D, m), R)
  <2>1. \A x \in ToSet(D) : x < m
    BY <1>2, <1>7 DEF InTurn
  <2>2. Increasing(Append(D, m))
    BY <1>2, <1>7, <2>1, AppendFacts DEF InTurn
  <2>3. \A x \in ToSet(Append(D, m)), y \in ToSet(R) : x < y
    BY <1>2, <1>5, <1>7 DEF InTurn
  <2>4. QED
    BY <2>2, <2>3 DEF InTurn
<1>8. QED
  BY <1>6, <1>7 DEF m, R

LEMMA DisjointUnion ==
  ASSUME NEW S, NEW T, IsFiniteSet(S), IsFiniteSet(T), S \cap T = {}
  PROVE  /\ IsFiniteSet(S \cup T)
         /\ Cardinality(S \cup T) = Cardinality(S) + Cardinality(T)
<1>1. /\ IsFiniteSet(S \cup T)
      /\ Cardinality(S \cup T) = Cardinality(S) + Cardinality(T) - Cardinality(S \cap T)
  BY FS_Union
<1>2. Cardinality(S \cap T) = 0
  BY FS_EmptySet
<1>3. Cardinality(S) \in Nat /\ Cardinality(T) \in Nat
  BY FS_CardinalityType
<1>4. QED
  BY <1>1, <1>2, <1>3

\* The books in numbers: what was received and waits, as one sequence.
LEMMA BookCount ==
  ASSUME NEW D \in Seq(Nat), NEW M \in Seq(Nat), NEW X, NEW S, NEW n \in Nat,
         Books(D, M, X, S, n)
  PROVE  /\ ToSet(D \o M) \cup X \cup S = 1 .. n
         /\ Len(D \o M) + Cardinality(X) + Cardinality(S) = n
         /\ InTurn(D, M) => Increasing(D \o M)
<1> DEFINE A == D \o M
           d == Len(D)
           k == Len(D) + Len(M)
<1>1. /\ d \in Nat /\ k \in Nat /\ d <= k
      /\ A \in Seq(Nat) /\ Len(A) = k /\ DOMAIN A = 1 .. k
      /\ DOMAIN D = 1 .. d /\ DOMAIN M = 1 .. k - d
      /\ \A i \in 1 .. d : A[i] = D[i] /\ D[i] \in ToSet(D) /\ D[i] \in Nat
      /\ \A i \in 1 .. k - d : A[i + d] = M[i] /\ M[i] \in ToSet(M) /\ M[i] \in Nat
  <2>1. /\ D \in [1 .. Len(D) -> Nat] /\ M \in [1 .. Len(M) -> Nat]
        /\ Len(D) \in Nat /\ Len(M) \in Nat
    OBVIOUS
  <2>2. /\ A \in Seq(Nat) /\ Len(A) = k
        /\ \A i \in 1 .. k : A[i] = IF i <= d THEN D[i] ELSE M[i - d]
    BY ConcatProperties
  <2>3. DOMAIN A = 1 .. k
    BY <2>2
  <2>4. \A i \in 1 .. d : D[i] \in ToSet(D)
    BY <2>1 DEF ToSet
  <2>5. \A i \in 1 .. k - d : M[i] \in ToSet(M)
    <3>1. k - d = Len(M)
      BY <2>1
    <3>2. QED
      BY <2>1, <3>1 DEF ToSet
  <2>6. \A i \in 1 .. d : A[i] = D[i]
    BY <2>1, <2>2
  <2>7. \A i \in 1 .. k - d : A[i + d] = M[i]
    BY <2>1, <2>2
  <2>8. QED
    BY <2>1, <2>2, <2>3, <2>4, <2>5, <2>6, <2>7
<1> HIDE DEF A, d, k
<1>2. \A i \in 1 .. k : i \notin 1 .. d => \E p \in 1 .. k - d : i = p + d /\ A[i] = M[p]
  <2> SUFFICES ASSUME NEW i \in 1 .. k, i \notin 1 .. d
               PROVE  \E p \in 1 .. k - d : i = p + d /\ A[i] = M[p]
    OBVIOUS
  <2>1. i - d \in 1 .. k - d /\ i = (i - d) + d
    BY <1>1
  <2>2. QED
    BY <1>1, <2>1
<1>3. ToSet(A) = ToSet(D) \cup ToSet(M)
  <2>1. /\ ToSet(A) = {A[i] : i \in 1 .. k} /\ ToSet(D) = {D[i] : i \in 1 .. d}
        /\ ToSet(M) = {M[i] : i \in 1 .. k - d}
    BY <1>1 DEF ToSet
  <2>2. \A i \in 1 .. d : i \in 1 .. k
    BY <1>1
  <2>3. \A i \in 1 .. k - d : i + d \in 1 .. k
    BY <1>1
  <2>4. \A i \in 1 .. k : A[i] \in ToSet(D) \cup ToSet(M)
    BY <1>1, <1>2
  <2>5. \A i \in 1 .. d : D[i] \in ToSet(A)
    BY <1>1, <2>1, <2>2
  <2>6. \A i \in 1 .. k - d : M[i] \in ToSet(A)
    BY <1>1, <2>1, <2>3
  <2>7. QED
    BY <2>1, <2>4, <2>5, <2>6
<1>4. Distinct(A)
  <2>1. ASSUME NEW i \in 1 .. k - d, NEW j \in 1 .. k - d, M[i] = M[j] PROVE i = j
    <3>1. i < j => M[i] < M[j]
      BY <1>1 DEF Books, Increasing
    <3>2. j < i => M[j] < M[i]
      BY <1>1 DEF Books, Increasing
    <3>3. i \in Int /\ j \in Int /\ M[i] \in Nat /\ M[j] \in Nat
      BY <1>1
    <3>4. QED
      BY <2>1, <3>1, <3>2, <3>3
  <2>2. \A i, j \in 1 .. d : D[i] = D[j] => i = j
    BY <1>1 DEF Books, Distinct
  <2>3. \A i \in 1 .. d, j \in 1 .. k - d : D[i] # M[j]
    BY <1>1 DEF Books
  <2> SUFFICES ASSUME NEW i \in 1 .. k, NEW j \in 1 .. k, A[i] = A[j] PROVE i = j
    BY <1>1 DEF Distinct
  <2>4. CASE i \in 1 .. d /\ j \in 1 .. d
    BY <1>1, <2>2, <2>4
  <2>5. CASE i \in 1 .. d /\ j \notin 1 .. d
    BY <1>1, <1>2, <2>3, <2>5
  <2>6. CASE i \notin 1 .. d /\ j \in 1 .. d
    BY <1>1, <1>2, <2>3, <2>6
  <2>7. CASE i \notin 1 .. d /\ j \notin 1 .. d
    <3>1. PICK p \in 1 .. k - d : i = p + d /\ A[i] = M[p]
      BY <1>2, <2>7
    <3>2. PICK q \in 1 .. k - d : j = q + d /\ A[j] = M[q]
      BY <1>2, <2>7
    <3>3. QED
      BY <2>1, <3>1, <3>2
  <2>8. QED
    BY <2>4, <2>5, <2>6, <2>7
<1>5. IsFiniteSet(ToSet(A)) /\ Cardinality(ToSet(A)) = k
  <2>1. A \in [1 .. k -> ToSet(A)]
    BY <1>1 DEF ToSet
  <2>2. A \in Bijection(1 .. k, ToSet(A))
    BY <1>1, <1>4, <2>1 DEF Bijection, Injection, Surjection, IsInjective, Distinct, ToSet
  <2>3. ExistsBijection(1 .. k, ToSet(A))
    BY <2>2 DEF ExistsBijection
  <2>4. QED
    BY <1>1, <2>3, FS_CountingElements, FS_NatBijection
<1>6. IsFiniteSet(X) /\ IsFiniteSet(S) /\ Cardinality(X) \in Nat /\ Cardinality(S) \in Nat
  <2>1. IsFiniteSet(1 .. n)
    BY FS_Interval
  <2>2. X \in SUBSET (1 .. n) /\ S \in SUBSET (1 .. n)
    BY DEF Books
  <2>3. QED
    BY <2>1, <2>2, FS_Subset, FS_CardinalityType
<1>7. Cardinality(X \cup S) = Cardinality(X) + Cardinality(S) /\ IsFiniteSet(X \cup S)
  <2>1. X \cap S = {}
    BY DEF Books
  <2>2. QED
    BY <1>6, <2>1, DisjointUnion
<1>8. Cardinality(ToSet(A) \cup (X \cup S)) = k + Cardinality(X) + Cardinality(S)
  <2>1. ToSet(A) \cap (X \cup S) = {}
    BY <1>3 DEF Books
  <2>2. Cardinality(ToSet(A) \cup (X \cup S)) = k + Cardinality(X \cup S)
    BY <1>5, <1>7, <2>1, DisjointUnion
  <2>3. QED
    BY <1>1, <1>6, <1>7, <2>2
<1>9. ToSet(A) \cup (X \cup S) = 1 .. n /\ ToSet(A) \cup X \cup S = 1 .. n
  BY <1>3 DEF Books
<1>10. Cardinality(1 .. n) = n
  BY FS_Interval
<1>11. ASSUME InTurn(D, M) PROVE Increasing(A)
  <2> SUFFICES ASSUME NEW i \in 1 .. k, NEW j \in 1 .. k, i < j PROVE A[i] < A[j]
    BY <1>1 DEF Increasing
  <2>1. CASE i \in 1 .. d /\ j \in 1 .. d
    BY <1>1, <1>11, <2>1 DEF InTurn, Increasing
  <2>2. CASE i \in 1 .. d /\ j \notin 1 .. d
    BY <1>1, <1>2, <1>11, <2>2 DEF InTurn
  <2>3. CASE i \notin 1 .. d
    <3>1. PICK p \in 1 .. k - d : i = p + d /\ A[i] = M[p]
      BY <1>2, <2>3
    <3>2. j \notin 1 .. d
      BY <1>1, <2>3
    <3>3. PICK q \in 1 .. k - d : j = q + d /\ A[j] = M[q]
      BY <1>2, <3>2
    <3>4. p < q
      BY <1>1, <3>1, <3>3
    <3>5. QED
      BY <1>1, <3>1, <3>3, <3>4 DEF Books, Increasing
  <2>4. QED
    BY <2>1, <2>2, <2>3
<1>12. Len(A) + Cardinality(X) + Cardinality(S) = n
  BY <1>1, <1>8, <1>9, <1>10
<1>13. QED
  BY <1>9, <1>11, <1>12 DEF A

-----------------------------------------------------------------------------
(* The inductive invariant.                                                *)

\* A host that connects is in the open sockets, with a socket of its own; only a host
\* with callbacks has one registered, and only for such a host one is called.
Phase(e) ==
  /\ thread[e].pc \in Connecting =>
       e \in open /\ thread[e].obj \in DOMAIN sock[e] /\ sock[e][thread[e].obj] = "opening"
  /\ recvCb[e] # 0 => e \in CallbackEnds
  /\ thread[e].pc = "call" => Other(e) \in CallbackEnds

Account(e) ==
  /\ Books(delivered[e], messages[e], dropped[e], InSending(Other(e)), sent[Other(e)])
  /\ e \in CallbackEnds \/ InTurn(delivered[e], messages[e])

\* What was lost was cut off; and a socket that is about to be called lives, or the message
\* was cut off as it went.
Excused(e) ==
  /\ dropped[e] \subseteq cut[e]
  /\ dropped[e] = {} \/ e \in CallbackEnds
  /\ thread[e].pc = "call" => Alive(Other(e), thread[e].cb) \/ sent[e] \in cut[Other(e)]

IInv ==
  /\ TypeOK
  /\ NoGhosts
  /\ \A e \in Ends : Phase(e)
  /\ \A e \in Ends : Account(e)
  /\ \A e \in Ends : Excused(e)

LEMMA InitInv == Init => IInv
<1> SUFFICES ASSUME Init PROVE IInv
  OBVIOUS
<1>1. Books(<<>>, <<>>, {}, {}, 0) /\ InTurn(<<>>, <<>>)
  BY EmptyBooks
<1>2. Idle \in Threads /\ Idle.pc = "idle"
  BY DEF Idle, Threads, Pcs
<1>3. TypeOK
  <2>1. thread \in [Ends -> Threads] /\ \A e \in Ends : thread[e].pc = "idle"
    BY <1>2 DEF Init
  <2>2. lock \in Ends \cup {None} /\ \A e \in Ends : ~ At(e, "closing") /\ lock # e
    BY <2>1, ConstantsAssumption DEF Init, At
  <2>3. /\ messages \in [Ends -> Seq(Nat)] /\ delivered \in [Ends -> Seq(Nat)]
        /\ sock \in [Ends -> Seq(Stages)]
    BY DEF Init
  <2>4. /\ open \subseteq Ends /\ remote \subseteq Ends /\ recvCb \in [Ends -> Nat]
        /\ sent \in [Ends -> Nat] /\ dropped \in [Ends -> SUBSET Nat]
        /\ cut \in [Ends -> SUBSET Nat] /\ met \in [Ends -> BOOLEAN]
    BY DEF Init
  <2>5. QED
    BY <2>1, <2>2, <2>3, <2>4 DEF TypeOK, Threads, Stages
<1>4. NoGhosts
  BY DEF Init, NoGhosts
<1>5. \A e \in Ends : Phase(e)
  BY <1>2 DEF Init, Phase, Connecting
<1>6. \A e \in Ends : Account(e)
  <2> SUFFICES ASSUME NEW e \in Ends PROVE Account(e)
    OBVIOUS
  <2>1. InSending(Other(e)) = {} /\ sent[Other(e)] = 0
    BY <1>2, OtherFacts DEF Init, InSending, Sending
  <2>2. delivered[e] = <<>> /\ messages[e] = <<>> /\ dropped[e] = {}
    BY DEF Init
  <2>3. QED
    BY <1>1, <2>1, <2>2 DEF Account
<1>7. \A e \in Ends : Excused(e)
  BY <1>2 DEF Init, Excused
<1>8. QED
  BY <1>3, <1>4, <1>5, <1>6, <1>7 DEF IInv

-----------------------------------------------------------------------------
(* What a step leaves as it is.                                            *)

LEMMA SameBooks ==
  ASSUME \A d \in Ends : Account(d), UNCHANGED <<messages, traffic>>,
         \A d \in Ends : InSending(d)' = InSending(d)
  PROVE  \A d \in Ends : Account(d)'
  BY OtherFacts DEF Account, traffic

\* A thread that is not about to send, or stays about to.
LEMMA SameSending ==
  ASSUME NEW e \in Ends, NEW pc, NEW obj, NEW cb, Moves(e, pc, obj, cb),
         pc \in Sending <=> thread[e].pc \in Sending, UNCHANGED sent
  PROVE  \A d \in Ends : InSending(d)' = InSending(d)
  BY DEF Moves, InSending

\* Nobody begins or ends to close.
LEMMA SameLock ==
  ASSUME TypeOK, NEW e \in Ends, NEW pc, NEW obj, NEW cb, Moves(e, pc, obj, cb),
         pc # "closing", ~ At(e, "closing"), UNCHANGED lock
  PROVE  /\ lock' \in Ends \cup {None}
         /\ \A d \in Ends : At(d, "closing")' <=> lock' = d
  BY DEF TypeOK, Moves, At

LEMMA SameGhosts ==
  ASSUME NoGhosts, UNCHANGED <<open, recvCb, sock>>
  PROVE  NoGhosts'
  BY DEF NoGhosts, Alive

\* No message is lost, the sockets that lived live, and a call that is new is into one of them.
LEMMA SameExcuse ==
  ASSUME \A d \in Ends : Excused(d), UNCHANGED <<dropped, cut>>,
         \A d \in Ends : \A k : Alive(d, k) => Alive(d, k)',
         \A d \in Ends : thread'[d].pc = "call" =>
           \/ thread'[d] = thread[d] /\ sent'[d] = sent[d]
           \/ Alive(Other(d), thread'[d].cb)
  PROVE  \A d \in Ends : Excused(d)'
<1> SUFFICES ASSUME NEW d \in Ends PROVE Excused(d)'
  OBVIOUS
<1>1. Excused(d) /\ Other(d) \in Ends
  BY OtherFacts
<1>k. PICK k : k = thread'[d].cb
  OBVIOUS
<1>o. PICK o \in Ends : o = Other(d)
  BY <1>1
<1>2. thread'[d].pc = "call" => Alive(o, k)' \/ sent'[d] \in cut'[o]
  <2>1. CASE thread'[d] = thread[d] /\ sent'[d] = sent[d]
    <3>1. thread'[d].pc = "call" => Alive(o, k) \/ sent'[d] \in cut[o]
      BY <1>1, <1>k, <1>o, <2>1 DEF Excused
    <3>2. QED
      BY <3>1
  <2>2. CASE Alive(o, k)
    BY <2>2
  <2>3. QED
    BY <1>k, <1>o, <2>1, <2>2
<1>3. QED
  BY <1>1, <1>k, <1>o, <1>2 DEF Excused

\* The thread that moves does not come to call, and the sockets stay as they are.
LEMMA QuietExcuse ==
  ASSUME \A d \in Ends : Excused(d), NEW e \in Ends, NEW pc, NEW obj, NEW cb,
         Moves(e, pc, obj, cb), pc # "call", UNCHANGED <<dropped, cut>>,
         \A d \in Ends : \A k : Alive(d, k) => Alive(d, k)',
         \A d \in Ends : d # e => sent'[d] = sent[d]
  PROVE  \A d \in Ends : Excused(d)'
<1>1. \A d \in Ends : thread'[d].pc = "call" => thread'[d] = thread[d] /\ sent'[d] = sent[d]
  BY DEF Moves
<1>2. QED
  BY <1>1, SameExcuse

\* A step of a thread that touches neither the tables nor the sockets.
LEMMA QuietInv ==
  ASSUME IInv, NEW e \in Ends, NEW pc \in Pcs, NEW obj, NEW cb, Moves(e, pc, obj, cb),
         UNCHANGED <<tables, lock, sock, traffic, met>>,
         pc \in Sending <=> thread[e].pc \in Sending,
         pc # "closing", ~ At(e, "closing"),
         pc \in Connecting => thread[e].pc \in Connecting /\ obj = thread[e].obj,
         pc = "call" => Other(e) \in CallbackEnds /\ Alive(Other(e), cb)
  PROVE  IInv'
<1>1. /\ TypeOK /\ NoGhosts /\ (\A d \in Ends : Phase(d)) /\ (\A d \in Ends : Account(d))
      /\ \A d \in Ends : Excused(d)
  BY DEF IInv
<1>2. TypeOK'
  <2>1. thread' \in [Ends -> Threads]
    BY DEF Moves
  <2>2. /\ lock' \in Ends \cup {None}
        /\ \A d \in Ends : At(d, "closing")' <=> lock' = d
    BY <1>1, SameLock
  <2>3. QED
    BY <1>1, <2>1, <2>2 DEF TypeOK, Threads, tables, traffic
<1>3. NoGhosts'
  BY <1>1, SameGhosts DEF tables
<1>4. \A d \in Ends : Phase(d)'
  BY <1>1 DEF Phase, Moves, tables
<1>5. \A d \in Ends : Account(d)'
  <2>1. UNCHANGED <<messages, traffic, sent>>
    BY DEF tables, traffic
  <2>2. QED
    BY <1>1, <2>1, SameSending, SameBooks
<1>6. \A d \in Ends : Excused(d)'
  <2>1. \A d \in Ends : \A k : Alive(d, k) => Alive(d, k)'
    BY DEF Alive
  <2>2. \A d \in Ends : thread'[d].pc = "call" => \/ thread'[d] = thread[d] /\ sent'[d] = sent[d]
                                                  \/ Alive(Other(d), thread'[d].cb)
    BY DEF Moves, traffic
  <2>3. QED
    BY <1>1, <2>1, <2>2, SameExcuse DEF traffic
<1>7. QED
  BY <1>2, <1>3, <1>4, <1>5, <1>6 DEF IInv

\* connect is over.
LEMMA ConnectedInv ==
  ASSUME IInv, NEW e \in Ends, thread[e].pc \in Connecting, NEW st \in {"up", "failed"},
         Connected(e, st), UNCHANGED <<tables, lock, traffic>>
  PROVE  IInv'
<1>1. /\ TypeOK /\ NoGhosts /\ (\A d \in Ends : Phase(d)) /\ (\A d \in Ends : Account(d))
      /\ \A d \in Ends : Excused(d)
  BY DEF IInv
<1>2. Moves(e, "idle", 0, 0)
  BY <1>1, GoFacts DEF Connected, Pcs
<1>3. Marks(e, thread[e].obj, st)
  BY <1>1, MarkFacts DEF Connected, Stages
<1>4. "idle" \notin Connecting /\ "idle" \notin Sending /\ thread[e].pc \notin Sending
      /\ ~ At(e, "closing")
  BY DEF Connecting, Sending, At
<1>5. TypeOK'
  <2>1. thread' \in [Ends -> Threads]
    BY <1>2 DEF Moves
  <2>2. /\ lock' \in Ends \cup {None}
        /\ \A d \in Ends : At(d, "closing")' <=> lock' = d
    BY <1>1, <1>2, <1>4, SameLock
  <2>3. sock' \in [Ends -> Seq(Stages)]
    BY <1>3 DEF Marks
  <2>4. met' \in [Ends -> BOOLEAN]
    BY <1>1 DEF TypeOK, Connected
  <2>5. QED
    BY <1>1, <2>1, <2>2, <2>3, <2>4 DEF TypeOK, Threads, Stages, tables, traffic
<1>6. NoGhosts'
  <2>1. \A d \in Ends : \A n : Alive(d, n) => Alive(d, n)'
    BY <1>3 DEF Alive, Marks
  <2>2. QED
    BY <1>1, <1>3, <2>1 DEF NoGhosts, Marks, tables
<1>7. \A d \in Ends : Phase(d)'
  <2> SUFFICES ASSUME NEW d \in Ends PROVE Phase(d)'
    OBVIOUS
  <2>1. CASE d = e
    BY <1>1, <1>2, <1>4, <2>1 DEF Phase, Moves, tables
  <2>2. CASE d # e
    <3>1. /\ thread'[d] = thread[d] /\ recvCb' = recvCb /\ open' = open
          /\ DOMAIN sock'[d] = DOMAIN sock[d]
          /\ \A k \in DOMAIN sock[d] : sock'[d][k] = sock[d][k]
      BY <1>2, <1>3, <2>2 DEF Moves, Marks, tables
    <3>2. QED
      BY <1>1, <3>1 DEF Phase
  <2>3. QED
    BY <2>1, <2>2
<1>8. \A d \in Ends : Account(d)'
  <2>1. UNCHANGED <<messages, traffic, sent>>
    BY DEF tables, traffic
  <2>2. QED
    BY <1>1, <1>2, <1>4, <2>1, SameSending, SameBooks
<1>9. \A d \in Ends : Excused(d)'
  <2>1. \A d \in Ends : \A k : Alive(d, k) => Alive(d, k)'
    BY <1>3 DEF Alive, Marks
  <2>2. UNCHANGED <<dropped, cut, sent>>
    BY DEF traffic
  <2>3. QED
    BY <1>1, <1>2, <2>1, <2>2, QuietExcuse
<1>10. QED
  BY <1>5, <1>6, <1>7, <1>8, <1>9 DEF IInv

-----------------------------------------------------------------------------
(* Connecting.                                                             *)

LEMMA OpenInv ==
  ASSUME IInv, NEW e \in Ends, OpenSocket(e)
  PROVE  IInv'
<1>1. /\ TypeOK /\ NoGhosts /\ (\A d \in Ends : Phase(d)) /\ (\A d \in Ends : Account(d))
      /\ \A d \in Ends : Excused(d)
  BY DEF IInv
<1>2. /\ sock[e] \in Seq(Stages) /\ Len(sock[e]) \in Nat
      /\ DOMAIN sock[e] = 1 .. Len(sock[e])
  BY <1>1 DEF TypeOK, Stages
<1>n. PICK n \in Nat : n = Len(sock[e]) + 1
  BY <1>2
<1>3. /\ sock'[e] = Append(sock[e], "opening")
      /\ \A d \in Ends : d # e => sock'[d] = sock[d]
      /\ sock' \in [Ends -> Seq(Stages)]
  <2>1. Append(sock[e], "opening") \in Seq(Stages)
    BY <1>2 DEF Stages
  <2>2. sock \in [Ends -> Seq(Stages)]
    BY <1>1 DEF TypeOK, Stages
  <2>3. QED
    BY <2>1, <2>2 DEF OpenSocket
<1>4. /\ DOMAIN sock'[e] = DOMAIN sock[e] \cup {n} /\ sock'[e][n] = "opening"
      /\ \A k \in DOMAIN sock[e] : sock'[e][k] = sock[e][k]
  <2>1. DOMAIN sock'[e] = 1 .. n
    BY <1>2, <1>3, <1>n
  <2>2. QED
    BY <1>2, <1>3, <1>n, <2>1
<1>5. Moves(e, "opened", n, thread[e].cb)
  <2>1. thread' = [thread EXCEPT ![e] = [@ EXCEPT !.pc = "opened", !.obj = n]]
    BY <1>n DEF OpenSocket
  <2>2. QED
    BY <1>1, <2>1, GoFacts DEF Pcs, Connecting
<1>6. /\ thread[e].pc = "idle" /\ ~ At(e, "closing")
      /\ "opened" \notin Sending /\ "idle" \notin Sending
  BY DEF OpenSocket, At, Sending
<1>7. open' = open \cup {e} /\ UNCHANGED <<remote, messages, recvCb, lock, traffic, sent>>
  BY DEF OpenSocket, traffic
<1>8. TypeOK'
  <2>1. thread' \in [Ends -> Threads]
    BY <1>5 DEF Moves
  <2>2. /\ lock' \in Ends \cup {None}
        /\ \A d \in Ends : At(d, "closing")' <=> lock' = d
    BY <1>1, <1>5, <1>6, <1>7, SameLock
  <2>3. met' \in [Ends -> BOOLEAN]
    <3>1. (thread[Other(e)].pc \in Connecting) \in BOOLEAN
      OBVIOUS
    <3>2. met \in [Ends -> BOOLEAN]
          /\ met' = [met EXCEPT ![Other(e)] = thread[Other(e)].pc \in Connecting]
      BY <1>1 DEF TypeOK, OpenSocket
    <3>3. QED
      BY <3>1, <3>2, Zenon
  <2>4. QED
    BY <1>1, <1>3, <1>7, <2>1, <2>2, <2>3 DEF TypeOK, Threads, Stages, traffic
<1>9. NoGhosts'
  <2>1. \A d \in Ends : \A k : Alive(d, k) => Alive(d, k)'
    BY <1>3, <1>4 DEF Alive
  <2>2. Alive(e, n)'
    BY <1>4 DEF Alive
  <2>3. \A d \in Ends : d \in open' => \E k \in DOMAIN sock'[d] : Alive(d, k)'
    BY <1>1, <1>7, <2>1, <2>2 DEF NoGhosts, Alive
  <2>4. QED
    BY <1>1, <1>7, <2>1, <2>3 DEF NoGhosts
<1>10. \A d \in Ends : Phase(d)'
  <2> SUFFICES ASSUME NEW d \in Ends PROVE Phase(d)'
    OBVIOUS
  <2>1. CASE d = e
    BY <1>1, <1>4, <1>5, <1>7, <2>1 DEF Phase, Moves
  <2>2. CASE d # e
    BY <1>1, <1>3, <1>5, <1>7, <2>2 DEF Phase, Moves
  <2>3. QED
    BY <2>1, <2>2
<1>11. \A d \in Ends : Account(d)'
  BY <1>1, <1>5, <1>6, <1>7, SameSending, SameBooks
<1>12. \A d \in Ends : Excused(d)'
  <2>1. \A d \in Ends : \A k : Alive(d, k) => Alive(d, k)'
    BY <1>3, <1>4 DEF Alive
  <2>2. UNCHANGED <<dropped, cut, sent>>
    BY <1>7 DEF traffic
  <2>3. QED
    BY <1>1, <1>5, <2>1, <2>2, QuietExcuse
<1>13. QED
  BY <1>8, <1>9, <1>10, <1>11, <1>12 DEF IInv

LEMMA TrackInv ==
  ASSUME IInv, NEW e \in Ends, Track(e)
  PROVE  IInv'
<1>1. /\ TypeOK /\ NoGhosts /\ (\A d \in Ends : Phase(d)) /\ (\A d \in Ends : Account(d))
      /\ \A d \in Ends : Excused(d)
  BY DEF IInv
<1>2. Moves(e, "tracked", thread[e].obj, thread[e].cb)
  BY <1>1, GoFacts DEF Track, Pcs, Connecting
<1>3. /\ thread[e].pc = "opened" /\ ~ At(e, "closing")
      /\ "opened" \in Connecting /\ "tracked" \notin Sending /\ "opened" \notin Sending
  BY DEF Track, At, Sending, Connecting
<1>4. /\ remote' = remote \cup {e}
      /\ UNCHANGED <<open, messages, recvCb, lock, sock, traffic, sent, met>>
  BY DEF Track, traffic
<1>5. TypeOK'
  <2>1. thread' \in [Ends -> Threads]
    BY <1>2 DEF Moves
  <2>2. /\ lock' \in Ends \cup {None}
        /\ \A d \in Ends : At(d, "closing")' <=> lock' = d
    BY <1>1, <1>2, <1>3, <1>4, SameLock
  <2>3. QED
    BY <1>1, <1>4, <2>1, <2>2 DEF TypeOK, Threads, traffic
<1>6. NoGhosts'
  BY <1>1, <1>4, SameGhosts
<1>7. \A d \in Ends : Phase(d)'
  BY <1>1, <1>2, <1>3, <1>4 DEF Phase, Moves
<1>8. \A d \in Ends : Account(d)'
  BY <1>1, <1>2, <1>3, <1>4, SameSending, SameBooks
<1>9. \A d \in Ends : Excused(d)'
  <2>1. \A d \in Ends : \A k : Alive(d, k) => Alive(d, k)'
    BY <1>4 DEF Alive
  <2>2. UNCHANGED <<dropped, cut, sent>>
    BY <1>4 DEF traffic
  <2>3. QED
    BY <1>1, <1>2, <2>1, <2>2, QuietExcuse
<1>10. QED
  BY <1>5, <1>6, <1>7, <1>8, <1>9 DEF IInv

\* The callback that is registered belongs to the socket which connects, and so lives.
LEMMA CallbacksInv ==
  ASSUME IInv, NEW e \in Ends, AddCallbacks(e)
  PROVE  IInv'
<1>1. /\ TypeOK /\ NoGhosts /\ (\A d \in Ends : Phase(d)) /\ (\A d \in Ends : Account(d))
      /\ \A d \in Ends : Excused(d)
  BY DEF IInv
<1>2. Moves(e, "poll", thread[e].obj, thread[e].cb) /\ thread[e].obj \in Nat
  BY <1>1, GoFacts DEF AddCallbacks, Pcs, Connecting
<1>3. /\ thread[e].pc = "tracked" /\ ~ At(e, "closing")
      /\ "tracked" \in Connecting /\ "poll" \notin Sending /\ "tracked" \notin Sending
  BY DEF AddCallbacks, At, Sending, Connecting
<1>4. UNCHANGED <<open, remote, messages, lock, sock, traffic, sent, met>>
  BY DEF AddCallbacks, traffic
<1>5. /\ recvCb' \in [Ends -> Nat]
      /\ \A d \in Ends : \/ recvCb'[d] = recvCb[d]
                         \/ (d = e /\ e \in CallbackEnds /\ recvCb'[d] = thread[e].obj)
  <2>1. CASE e \in CallbackEnds
    <3>1. recvCb' = [recvCb EXCEPT ![e] = thread[e].obj] /\ recvCb \in [Ends -> Nat]
      BY <1>1, <2>1 DEF TypeOK, AddCallbacks
    <3>2. QED
      BY <1>2, <2>1, <3>1
  <2>2. CASE e \notin CallbackEnds
    BY <1>1, <2>2 DEF TypeOK, AddCallbacks
  <2>3. QED
    BY <2>1, <2>2
<1>6. e \in open /\ Alive(e, thread[e].obj)
  BY <1>1, <1>3 DEF Phase, Alive
<1>7. TypeOK'
  <2>1. thread' \in [Ends -> Threads]
    BY <1>2 DEF Moves
  <2>2. /\ lock' \in Ends \cup {None}
        /\ \A d \in Ends : At(d, "closing")' <=> lock' = d
    BY <1>1, <1>2, <1>3, <1>4, SameLock
  <2>3. QED
    BY <1>1, <1>4, <1>5, <2>1, <2>2 DEF TypeOK, Threads, traffic
<1>8. NoGhosts'
  <2>1. \A d \in Ends : \A k : Alive(d, k)' <=> Alive(d, k)
    BY <1>4 DEF Alive
  <2>2. \A d \in Ends : recvCb'[d] # 0 => d \in open /\ Alive(d, recvCb'[d])
    BY <1>1, <1>5, <1>6 DEF NoGhosts
  <2>3. QED
    BY <1>1, <1>4, <2>1, <2>2 DEF NoGhosts
<1>9. \A d \in Ends : Phase(d)'
  BY <1>1, <1>2, <1>3, <1>4, <1>5 DEF Phase, Moves
<1>10. \A d \in Ends : Account(d)'
  BY <1>1, <1>2, <1>3, <1>4, SameSending, SameBooks
<1>11. \A d \in Ends : Excused(d)'
  <2>1. \A d \in Ends : \A k : Alive(d, k) => Alive(d, k)'
    BY <1>4 DEF Alive
  <2>2. UNCHANGED <<dropped, cut, sent>>
    BY <1>4 DEF traffic
  <2>3. QED
    BY <1>1, <1>2, <2>1, <2>2, QuietExcuse
<1>12. QED
  BY <1>7, <1>8, <1>9, <1>10, <1>11 DEF IInv

LEMMA PollInv ==
  ASSUME IInv, NEW e \in Ends, PollOpen(e) \/ PollRemote(e) \/ ConnectTimeout(e)
  PROVE  IInv'
<1>1. TypeOK
  BY DEF IInv
<1>2. thread[e].pc \in Connecting /\ thread[e].pc \notin Sending /\ ~ At(e, "closing")
  BY DEF PollOpen, PollRemote, ConnectTimeout, At, Connecting, Sending
<1>3. UNCHANGED <<tables, lock, traffic>>
  BY DEF PollOpen, PollRemote, ConnectTimeout
<1>4. CASE \E st \in {"up", "failed"} : Connected(e, st)
  BY <1>2, <1>3, <1>4, ConnectedInv
<1>5. CASE \E pc \in {"poll", "poll_remote"} : GoTo(e, pc) /\ UNCHANGED <<sock, met>>
  <2>1. PICK pc \in {"poll", "poll_remote"} : GoTo(e, pc) /\ UNCHANGED <<sock, met>>
    BY <1>5
  <2>2. pc \in Pcs /\ pc \in Connecting /\ pc \notin Sending /\ pc # "closing" /\ pc # "call"
    BY DEF Pcs, Connecting, Sending
  <2>3. Moves(e, pc, thread[e].obj, thread[e].cb)
    BY <1>1, <2>1, <2>2, GoFacts
  <2>4. QED
    BY <1>2, <1>3, <2>1, <2>2, <2>3, QuietInv
<1>6. QED
  BY <1>4, <1>5 DEF PollOpen, PollRemote, ConnectTimeout

-----------------------------------------------------------------------------
(* Sending and receiving.                                                  *)

\* A step that moves messages and nothing else: the tables of sockets stay as they are.
LEMMA TrafficInv ==
  ASSUME IInv, NEW e \in Ends, NEW pc \in Pcs, NEW obj, NEW cb, Moves(e, pc, obj, cb),
         UNCHANGED <<open, remote, recvCb, lock, sock, cut, met>>,
         pc \notin Connecting, pc # "closing", pc # "call", ~ At(e, "closing"),
         messages' \in [Ends -> Seq(Nat)], sent' \in [Ends -> Nat],
         delivered' \in [Ends -> Seq(Nat)], dropped' \in [Ends -> SUBSET Nat],
         \A d \in Ends : Account(d)', \A d \in Ends : Excused(d)'
  PROVE  IInv'
<1>1. TypeOK /\ NoGhosts /\ (\A d \in Ends : Phase(d))
  BY DEF IInv
<1>2. TypeOK'
  <2>1. thread' \in [Ends -> Threads]
    BY DEF Moves
  <2>2. /\ lock' \in Ends \cup {None}
        /\ \A d \in Ends : At(d, "closing")' <=> lock' = d
    BY <1>1, SameLock
  <2>3. QED
    BY <1>1, <2>1, <2>2 DEF TypeOK, Threads
<1>3. NoGhosts'
  BY <1>1, SameGhosts
<1>4. \A d \in Ends : Phase(d)'
  BY <1>1 DEF Phase, Moves
<1>5. QED
  BY <1>2, <1>3, <1>4 DEF IInv

LEMMA StartSendInv ==
  ASSUME IInv, NEW e \in Ends, StartSend(e)
  PROVE  IInv'
<1>1. TypeOK /\ \A d \in Ends : Account(d)
  BY DEF IInv
<1>2. PICK n \in DOMAIN sock[e] :
        thread' = [thread EXCEPT ![e] = [@ EXCEPT !.pc = "send", !.obj = n]]
  BY DEF StartSend
<1>3. n \in Nat
  <2>1. sock[e] \in Seq(Stages)
    BY <1>1 DEF TypeOK, Stages
  <2>2. QED
    BY <2>1
<1>4. "send" \in Pcs /\ "send" \in Sending /\ "send" \notin Connecting /\ "idle" \notin Sending
  BY DEF Pcs, Sending, Connecting
<1>5. Moves(e, "send", n, thread[e].cb)
  BY <1>1, <1>2, <1>3, <1>4, GoFacts
<1>6. thread[e].pc = "idle" /\ ~ At(e, "closing")
  BY DEF StartSend, At
<1>7. /\ sent \in [Ends -> Nat]
      /\ sent' = [sent EXCEPT ![e] = @ + 1]
      /\ UNCHANGED <<open, remote, messages, recvCb, lock, sock, delivered, dropped, cut, met>>
  BY <1>1 DEF StartSend, tables, TypeOK
<1>8. ASSUME NEW d \in Ends PROVE Account(d)'
  <2>1. Other(d) \in Ends /\ d # Other(d)
    BY OtherFacts
  <2>2. CASE Other(d) = e
    <3>1. InSending(e) = {} /\ InSending(e)' = {sent[e] + 1} /\ sent'[e] = sent[e] + 1
      BY <1>4, <1>5, <1>6, <1>7 DEF InSending, Moves
    <3>2. Books(delivered[d], messages[d], dropped[d], {}, sent[e])
      BY <1>1, <2>2, <3>1 DEF Account
    <3>3. Books(delivered[d], messages[d], dropped[d], {sent[e] + 1}, sent[e] + 1)
      BY <1>7, <3>2, BookSend
    <3>4. QED
      BY <1>1, <1>7, <2>2, <3>1, <3>3 DEF Account
  <2>3. CASE Other(d) # e
    <3>1. InSending(Other(d))' = InSending(Other(d)) /\ sent'[Other(d)] = sent[Other(d)]
      BY <1>5, <1>7, <2>1, <2>3 DEF InSending, Moves
    <3>2. QED
      BY <1>1, <1>7, <3>1 DEF Account
  <2>4. QED
    BY <2>2, <2>3
<1>9. /\ messages' \in [Ends -> Seq(Nat)] /\ sent' \in [Ends -> Nat]
      /\ delivered' \in [Ends -> Seq(Nat)] /\ dropped' \in [Ends -> SUBSET Nat]
  <2>1. sent' \in [Ends -> Nat]
    <3>1. sent[e] + 1 \in Nat
      BY <1>7
    <3>2. QED
      BY <1>7, <3>1
  <2>2. QED
    BY <1>1, <1>7, <2>1 DEF TypeOK
<1>10. UNCHANGED <<open, remote, recvCb, lock, sock, cut, met>>
  BY <1>7
<1>11. \A d \in Ends : Excused(d)'
  <2>1. (\A d \in Ends : Excused(d)) /\ \A d \in Ends : \A k : Alive(d, k) => Alive(d, k)'
    BY <1>7 DEF IInv, Alive
  <2>2. QED
    BY <1>5, <1>7, <2>1, QuietExcuse
<1>12. QED
  BY <1>4, <1>5, <1>6, <1>8, <1>9, <1>10, <1>11, TrafficInv

\* A callback is looked up for a host with callbacks only.
LEMMA LookUpInv ==
  ASSUME IInv, NEW e \in Ends, LookUpCallback(e)
  PROVE  IInv'
<1>1. TypeOK /\ NoGhosts /\ \A d \in Ends : Phase(d)
  BY DEF IInv
<1>2. Other(e) \in Ends
  BY OtherFacts
<1>3. PICK cb \in Nat : cb = recvCb[Other(e)]
  BY <1>1, <1>2 DEF TypeOK
<1>4. PICK pc \in {"call", "append"} :
        /\ pc = IF cb # 0 THEN "call" ELSE "append"
        /\ thread' = [thread EXCEPT ![e] = [@ EXCEPT !.pc = pc, !.cb = cb]]
  <2>1. (IF cb # 0 THEN "call" ELSE "append") \in {"call", "append"}
    OBVIOUS
  <2>2. thread' = [thread EXCEPT ![e] = [@ EXCEPT !.pc = IF cb # 0 THEN "call" ELSE "append",
                                                  !.cb = cb]]
    BY <1>3 DEF LookUpCallback
  <2>3. QED
    BY <2>1, <2>2
<1>5. pc \in Pcs /\ pc \in Sending /\ pc \notin Connecting /\ pc # "closing"
  BY DEF Pcs, Sending, Connecting
<1>6. Moves(e, pc, thread[e].obj, cb)
  BY <1>1, <1>4, <1>5, GoFacts
<1>7. thread[e].pc \in Sending /\ ~ At(e, "closing")
  BY DEF LookUpCallback, At, Sending
<1>8. UNCHANGED <<tables, lock, sock, traffic, met>>
  BY DEF LookUpCallback
<1>9. pc = "call" => Other(e) \in CallbackEnds /\ Alive(Other(e), cb)
  BY <1>1, <1>2, <1>3, <1>4 DEF Phase, NoGhosts
<1>10. QED
  BY <1>5, <1>6, <1>7, <1>8, <1>9, QuietInv

\* What a thread that sends leaves behind: the books of its own host do not change.
LEMMA SenderBooks ==
  ASSUME IInv, NEW e \in Ends, thread[e].pc \in Sending, Moves(e, "idle", 0, 0),
         UNCHANGED sent,
         UNCHANGED <<delivered[e], messages[e], dropped[e]>>,
         LET o == Other(e)
         IN /\ Books(delivered[o], messages[o], dropped[o], {sent[e]}, sent[e])
              => Books(delivered[o], messages[o], dropped[o], {}, sent[e])'
            /\ Books(delivered[o], messages[o], dropped[o], {sent[e]}, sent[e])
               /\ InTurn(delivered[o], messages[o])
                 => o \in CallbackEnds \/ InTurn(delivered[o], messages[o])'
  PROVE  \A d \in Ends : Account(d)'
<1>1. \A d \in Ends : Account(d)
  BY DEF IInv
<1>2. /\ Other(e) \in Ends /\ Other(e) # e /\ Other(Other(e)) = e
      /\ \A d \in Ends : d = e \/ d = Other(e)
  BY OtherFacts
<1>3. InSending(e) = {sent[e]} /\ InSending(e)' = {} /\ sent'[e] = sent[e]
  BY DEF InSending, Moves, Sending
<1>4. InSending(Other(e))' = InSending(Other(e)) /\ sent'[Other(e)] = sent[Other(e)]
  BY <1>2 DEF InSending, Moves
<1>5. Account(e)'
  BY <1>1, <1>4 DEF Account
<1>6. Account(Other(e))'
  BY <1>1, <1>2, <1>3 DEF Account
<1>7. QED
  BY <1>2, <1>5, <1>6

LEMMA CallInv ==
  ASSUME IInv, NEW e \in Ends, CallCallback(e)
  PROVE  IInv'
<1>1. TypeOK /\ (\A d \in Ends : Account(d)) /\ Phase(e) /\ (\A d \in Ends : Excused(d))
  BY DEF IInv
<1>2. Other(e) \in Ends /\ Other(e) # e
  BY OtherFacts
<1>3. PICK o \in Ends : o = Other(e)
  BY <1>2
<1>4. /\ "idle" \in Pcs /\ "idle" \notin Connecting /\ "call" \in Sending
      /\ thread[e].pc = "call" /\ ~ At(e, "closing")
  BY DEF CallCallback, At, Pcs, Sending, Connecting
<1>5. Moves(e, "idle", 0, 0)
  BY <1>1, <1>4, GoFacts DEF CallCallback
<1>6. UNCHANGED <<open, remote, messages, recvCb, lock, sock, sent, cut, met>>
  BY DEF CallCallback, tables
<1>7. /\ sent[e] \in Nat /\ messages \in [Ends -> Seq(Nat)] /\ sent \in [Ends -> Nat]
      /\ delivered \in [Ends -> Seq(Nat)] /\ dropped \in [Ends -> SUBSET Nat]
  BY <1>1 DEF TypeOK
<1>8. o \in CallbackEnds
  BY <1>1, <1>3, <1>4 DEF Phase
<1>9. CASE delivered' = [delivered EXCEPT ![o] = Append(@, sent[e])] /\ UNCHANGED dropped
  <2>1. /\ delivered'[o] = Append(delivered[o], sent[e])
        /\ delivered' \in [Ends -> Seq(Nat)]
        /\ delivered'[e] = delivered[e]
    BY <1>2, <1>3, <1>7, <1>9, AppendFacts
  <2>2. Books(delivered[o], messages[o], dropped[o], {sent[e]}, sent[e])
          => Books(delivered[o], messages[o], dropped[o], {}, sent[e])'
    BY <1>6, <1>7, <1>9, <2>1, BookDeliver
  <2>3. \A d \in Ends : Account(d)'
    BY <1>3, <1>4, <1>5, <1>6, <1>8, <1>9, <2>1, <2>2, SenderBooks
  <2>4. \A d \in Ends : Excused(d)'
    <3>1. \A d \in Ends : \A k : Alive(d, k) => Alive(d, k)'
      BY <1>6 DEF Alive
    <3>2. QED
      BY <1>1, <1>4, <1>5, <1>6, <1>9, <3>1, QuietExcuse
  <2>5. QED
    BY <1>4, <1>5, <1>6, <1>7, <1>9, <2>1, <2>3, <2>4, TrafficInv
<1>10. CASE /\ sock[o][thread[e].cb] = "gone"
            /\ dropped' = [dropped EXCEPT ![o] = @ \cup {sent[e]}] /\ UNCHANGED delivered
  <2>1. /\ dropped'[o] = dropped[o] \cup {sent[e]}
        /\ dropped' \in [Ends -> SUBSET Nat]
        /\ dropped'[e] = dropped[e]
    BY <1>2, <1>3, <1>7, <1>10
  <2>2. Books(delivered[o], messages[o], dropped[o], {sent[e]}, sent[e])
          => Books(delivered[o], messages[o], dropped[o], {}, sent[e])'
    BY <1>6, <1>7, <1>10, <2>1, BookLose
  <2>3. \A d \in Ends : Account(d)'
    BY <1>3, <1>4, <1>5, <1>6, <1>8, <1>10, <2>1, <2>2, SenderBooks
  <2>4. sent[e] \in cut[o]
    BY <1>1, <1>3, <1>4, <1>10 DEF Excused, Alive
  <2>5. ASSUME NEW d \in Ends PROVE Excused(d)'
    <3>1. dropped'[d] \subseteq cut[d] /\ (dropped'[d] = {} \/ d \in CallbackEnds)
      BY <1>1, <1>7, <1>8, <1>10, <2>4 DEF Excused
    <3>2. CASE d = e
      BY <1>5, <1>6, <3>1, <3>2 DEF Excused, Moves
    <3>3. CASE d # e
      <4>1. thread'[d] = thread[d] /\ \A f, k : Alive(f, k)' <=> Alive(f, k)
        BY <1>5, <1>6, <3>3 DEF Moves, Alive
      <4>2. QED
        BY <1>1, <1>6, <3>1, <4>1 DEF Excused
    <3>4. QED
      BY <3>2, <3>3
  <2>6. QED
    BY <1>4, <1>5, <1>6, <1>7, <1>10, <2>1, <2>3, <2>5, TrafficInv
<1>11. QED
  BY <1>3, <1>9, <1>10 DEF CallCallback

LEMMA AppendInv ==
  ASSUME IInv, NEW e \in Ends, AppendMessage(e)
  PROVE  IInv'
<1>1. TypeOK /\ \A d \in Ends : Account(d)
  BY DEF IInv
<1>2. PICK o \in Ends : o = Other(e) /\ o # e
  BY OtherFacts
<1>3. /\ "idle" \in Pcs /\ "idle" \notin Connecting /\ "append" \in Sending
      /\ thread[e].pc = "append" /\ ~ At(e, "closing")
  BY DEF AppendMessage, At, Pcs, Sending, Connecting
<1>4. Moves(e, "idle", 0, 0)
  BY <1>1, <1>3, GoFacts DEF AppendMessage
<1>5. UNCHANGED <<open, remote, recvCb, lock, sock, sent, delivered, dropped, cut, met>>
  BY DEF AppendMessage, traffic
<1>6. /\ sent[e] \in Nat /\ messages \in [Ends -> Seq(Nat)] /\ sent \in [Ends -> Nat]
      /\ delivered \in [Ends -> Seq(Nat)] /\ dropped \in [Ends -> SUBSET Nat]
  BY <1>1 DEF TypeOK
<1>7. /\ messages'[o] = Append(messages[o], sent[e])
      /\ messages' \in [Ends -> Seq(Nat)]
      /\ messages'[e] = messages[e]
  BY <1>2, <1>6, AppendFacts DEF AppendMessage
<1>8. /\ Books(delivered[o], messages[o], dropped[o], {sent[e]}, sent[e])
           => Books(delivered[o], messages[o], dropped[o], {}, sent[e])'
      /\ Books(delivered[o], messages[o], dropped[o], {sent[e]}, sent[e])
         /\ InTurn(delivered[o], messages[o])
           => InTurn(delivered[o], messages[o])'
  BY <1>5, <1>6, <1>7, BookQueue
<1>9. \A d \in Ends : Account(d)'
  BY <1>2, <1>3, <1>4, <1>5, <1>7, <1>8, SenderBooks
<1>10. \A d \in Ends : Excused(d)'
  <2>1. (\A d \in Ends : Excused(d)) /\ \A d \in Ends : \A k : Alive(d, k) => Alive(d, k)'
    BY <1>5 DEF IInv, Alive
  <2>2. QED
    BY <1>4, <1>5, <2>1, QuietExcuse
<1>11. QED
  BY <1>3, <1>4, <1>5, <1>6, <1>7, <1>9, <1>10, TrafficInv

LEMMA ReceiveInv ==
  ASSUME IInv, NEW e \in Ends, Receive(e)
  PROVE  IInv'
<1>1. TypeOK /\ \A d \in Ends : Account(d)
  BY DEF IInv
<1>2. /\ "idle" \in Pcs /\ "idle" \notin Connecting /\ "idle" \notin Sending
      /\ thread[e].pc = "recv" /\ "recv" \notin Sending /\ ~ At(e, "closing")
  BY DEF Receive, At, Pcs, Sending, Connecting
<1>3. Moves(e, "idle", 0, 0)
  BY <1>1, <1>2, GoFacts DEF Receive
<1>4. UNCHANGED <<open, remote, recvCb, lock, sock, sent, dropped, cut, met>>
  BY DEF Receive
<1>5. /\ messages \in [Ends -> Seq(Nat)] /\ sent \in [Ends -> Nat] /\ messages[e] # <<>>
      /\ delivered \in [Ends -> Seq(Nat)] /\ dropped \in [Ends -> SUBSET Nat]
  BY <1>1 DEF TypeOK, Receive
<1>6. Head(messages[e]) \in Nat /\ Tail(messages[e]) \in Seq(Nat)
  BY <1>5, HeadTailProperties
<1>7. /\ delivered' \in [Ends -> Seq(Nat)] /\ messages' \in [Ends -> Seq(Nat)]
      /\ delivered'[e] = Append(delivered[e], Head(messages[e]))
      /\ messages'[e] = Tail(messages[e])
      /\ \A d \in Ends : d # e => delivered'[d] = delivered[d] /\ messages'[d] = messages[d]
  <2>1. Append(delivered[e], Head(messages[e])) \in Seq(Nat)
    BY <1>5, <1>6, AppendFacts
  <2>2. QED
    BY <1>5, <1>6, <2>1 DEF Receive
<1>8. \A d \in Ends : InSending(d)' = InSending(d)
  BY <1>2, <1>3, <1>4, SameSending
<1>9. ASSUME NEW d \in Ends PROVE Account(d)'
  <2>1. Other(d) \in Ends
    BY OtherFacts
  <2>2. InSending(Other(d))' = InSending(Other(d)) /\ sent' = sent /\ dropped' = dropped
    BY <1>4, <1>8, <2>1
  <2>3. CASE d = e
    <3>1. /\ Books(delivered[e], messages[e], dropped[e], InSending(Other(e)), sent[Other(e)])
          /\ e \in CallbackEnds \/ InTurn(delivered[e], messages[e])
      BY <1>1 DEF Account
    <3>2. /\ Books(delivered'[e], messages'[e], dropped[e], InSending(Other(e)), sent[Other(e)])
          /\ e \in CallbackEnds \/ InTurn(delivered'[e], messages'[e])
      BY <1>5, <1>7, <3>1, BookTake
    <3>3. QED
      BY <2>2, <2>3, <3>2 DEF Account
  <2>4. CASE d # e
    BY <1>1, <1>7, <2>2, <2>4 DEF Account
  <2>5. QED
    BY <2>3, <2>4
<1>10. \A d \in Ends : Excused(d)'
  <2>1. (\A d \in Ends : Excused(d)) /\ \A d \in Ends : \A k : Alive(d, k) => Alive(d, k)'
    BY <1>4 DEF IInv, Alive
  <2>2. QED
    BY <1>3, <1>4, <2>1, QuietExcuse
<1>11. QED
  BY <1>2, <1>3, <1>4, <1>5, <1>7, <1>9, <1>10, TrafficInv

\* recv begins, or ends without a message.
LEMMA QuietReceiveInv ==
  ASSUME IInv, NEW e \in Ends, StartReceive(e) \/ GiveUpReceive(e)
  PROVE  IInv'
<1>1. TypeOK
  BY DEF IInv
<1>2. /\ "idle" \in Pcs /\ "idle" \notin Connecting /\ "idle" \notin Sending
      /\ "recv" \in Pcs /\ "recv" \notin Connecting /\ "recv" \notin Sending
  BY DEF Pcs, Connecting, Sending
<1>3. CASE StartReceive(e)
  <2>1. PICK n \in DOMAIN sock[e] :
          thread' = [thread EXCEPT ![e] = [@ EXCEPT !.pc = "recv", !.obj = n]]
    BY <1>3 DEF StartReceive
  <2>2. n \in Nat
    <3>1. sock[e] \in Seq(Stages)
      BY <1>1 DEF TypeOK, Stages
    <3>2. QED
      BY <3>1
  <2>3. Moves(e, "recv", n, thread[e].cb)
    BY <1>1, <1>2, <2>1, <2>2, GoFacts
  <2>4. thread[e].pc = "idle" /\ ~ At(e, "closing")
        /\ UNCHANGED <<tables, lock, sock, traffic, met>>
    BY <1>3 DEF StartReceive, At
  <2>5. QED
    BY <1>2, <2>3, <2>4, QuietInv
<1>4. CASE GiveUpReceive(e)
  <2>1. Moves(e, "idle", 0, 0)
    BY <1>1, <1>2, <1>4, GoFacts DEF GiveUpReceive
  <2>2. thread[e].pc = "recv" /\ ~ At(e, "closing")
        /\ UNCHANGED <<tables, lock, sock, traffic, met>>
    BY <1>4 DEF GiveUpReceive, At
  <2>3. QED
    BY <1>2, <2>1, <2>2, QuietInv
<1>5. QED
  BY <1>3, <1>4

-----------------------------------------------------------------------------
(* Closing, and starting anew.                                             *)

LEMMA StartCloseInv ==
  ASSUME IInv, NEW e \in Ends, StartClose(e)
  PROVE  IInv'
<1>1. /\ TypeOK /\ NoGhosts /\ (\A d \in Ends : Phase(d)) /\ (\A d \in Ends : Account(d))
      /\ \A d \in Ends : Excused(d)
  BY DEF IInv
<1>2. PICK n \in DOMAIN sock[e] :
        thread' = [thread EXCEPT ![e] = [@ EXCEPT !.pc = "closing", !.obj = n]]
  BY DEF StartClose
<1>3. n \in Nat
  <2>1. sock[e] \in Seq(Stages)
    BY <1>1 DEF TypeOK, Stages
  <2>2. QED
    BY <2>1
<1>4. /\ "closing" \in Pcs /\ "closing" \notin Connecting /\ "closing" \notin Sending
      /\ "idle" \notin Sending /\ thread[e].pc = "idle"
  BY DEF StartClose, At, Pcs, Connecting, Sending
<1>5. Moves(e, "closing", n, thread[e].cb)
  BY <1>1, <1>2, <1>3, <1>4, GoFacts
<1>6. /\ lock = None /\ lock' = e
      /\ UNCHANGED <<open, remote, messages, recvCb, sock, traffic, sent, met>>
  BY DEF StartClose, tables, traffic
<1>7. TypeOK'
  <2>1. thread' \in [Ends -> Threads]
    BY <1>5 DEF Moves
  <2>2. \A d \in Ends : At(d, "closing")' <=> lock' = d
    <3>1. \A d \in Ends : thread[d].pc # "closing"
      BY <1>1, <1>6, ConstantsAssumption DEF TypeOK, At
    <3>2. \A d \in Ends : thread'[d].pc = "closing" <=> d = e
      BY <1>5, <3>1 DEF Moves
    <3>3. QED
      BY <1>6, <3>2 DEF At
  <2>3. QED
    BY <1>1, <1>6, <2>1, <2>2 DEF TypeOK, Threads, traffic
<1>8. NoGhosts'
  BY <1>1, <1>6, SameGhosts
<1>9. ASSUME NEW d \in Ends PROVE Phase(d)'
  <2>1. CASE d = e
    <3>1. thread'[d].pc = "closing"
      BY <1>5, <2>1 DEF Moves
    <3>2. QED
      BY <1>1, <1>4, <1>6, <3>1 DEF Phase
  <2>2. CASE d # e
    <3>1. thread'[d] = thread[d]
      BY <1>5, <2>2 DEF Moves
    <3>2. QED
      BY <1>1, <1>6, <3>1 DEF Phase
  <2>3. QED
    BY <2>1, <2>2
<1>10. \A d \in Ends : Account(d)'
  BY <1>1, <1>4, <1>5, <1>6, SameSending, SameBooks
<1>11. \A d \in Ends : Excused(d)'
  <2>1. \A d \in Ends : \A k : Alive(d, k) => Alive(d, k)'
    BY <1>6 DEF Alive
  <2>2. UNCHANGED <<dropped, cut, sent>>
    BY <1>6 DEF traffic
  <2>3. QED
    BY <1>1, <1>5, <2>1, <2>2, QuietExcuse
<1>12. QED
  BY <1>7, <1>8, <1>9, <1>10, <1>11 DEF IInv

\* The socket that goes takes the key of its host out of the tables, whoever put it there.
LEMMA CloseInv ==
  ASSUME IInv, NEW e \in Ends, Close(e)
  PROVE  IInv'
<1>1. /\ TypeOK /\ NoGhosts /\ (\A d \in Ends : Phase(d)) /\ (\A d \in Ends : Account(d))
      /\ \A d \in Ends : Excused(d)
  BY DEF IInv
<1>2. /\ "idle" \in Pcs /\ "idle" \notin Connecting /\ "idle" \notin Sending
      /\ thread[e].pc = "closing" /\ "closing" \notin Sending
  BY DEF Close, At, Pcs, Connecting, Sending
<1>3. Moves(e, "idle", 0, 0)
  BY <1>1, <1>2, GoFacts DEF Close, Collect
<1>4. Marks(e, thread[e].obj, "gone")
  BY <1>1, MarkFacts DEF Close, Collect, Stages
<1>5. /\ open' = open \ {e} /\ remote' = remote \ {Other(e)} /\ lock' = None
      /\ UNCHANGED <<messages, sent, delivered, dropped, met>>
  BY DEF Close, Collect
<1>6. /\ recvCb' \in [Ends -> Nat] /\ recvCb'[e] = 0
      /\ \A d \in Ends : d # e => recvCb'[d] = recvCb[d]
  BY <1>1 DEF TypeOK, Close
<1>7. \A d \in Ends : d # e => /\ thread'[d] = thread[d]
                               /\ DOMAIN sock'[d] = DOMAIN sock[d]
                               /\ \A k \in DOMAIN sock[d] : sock'[d][k] = sock[d][k]
  BY <1>3, <1>4 DEF Moves, Marks
<1>c. /\ cut' \in [Ends -> SUBSET Nat]
      /\ \A d \in Ends : cut[d] \subseteq cut'[d]
      /\ cut'[e] = cut[e] \cup InSending(Other(e))
  <2>1. cut \in [Ends -> SUBSET Nat] /\ cut' = [cut EXCEPT ![e] = @ \cup InSending(Other(e))]
    BY <1>1 DEF TypeOK, Close, Collect
  <2>2. InSending(Other(e)) \subseteq Nat
    BY <1>1, OtherFacts DEF TypeOK, InSending
  <2>3. QED
    BY <2>1, <2>2
<1>8. TypeOK'
  <2>1. thread' \in [Ends -> Threads]
    BY <1>3 DEF Moves
  <2>2. \A d \in Ends : At(d, "closing")' <=> lock' = d
    BY <1>1, <1>2, <1>3, <1>5, ConstantsAssumption DEF TypeOK, Moves, At
  <2>3. sock' \in [Ends -> Seq(Stages)]
    BY <1>4 DEF Marks
  <2>4. QED
    BY <1>1, <1>5, <1>6, <1>c, <2>1, <2>2, <2>3 DEF TypeOK, Threads, Stages
<1>9. NoGhosts'
  <2>1. \A d \in Ends : d # e => \A k : Alive(d, k) => Alive(d, k)'
    BY <1>7 DEF Alive
  <2>2. QED
    BY <1>1, <1>5, <1>6, <1>7, <2>1 DEF NoGhosts
<1>10. \A d \in Ends : Phase(d)'
  <2> SUFFICES ASSUME NEW d \in Ends PROVE Phase(d)'
    OBVIOUS
  <2>1. CASE d = e
    BY <1>2, <1>3, <1>6, <2>1 DEF Phase, Moves
  <2>2. CASE d # e
    BY <1>1, <1>5, <1>6, <1>7, <2>2 DEF Phase
  <2>3. QED
    BY <2>1, <2>2
<1>11. \A d \in Ends : Account(d)'
  <2>1. \A d \in Ends : InSending(d)' = InSending(d)
    BY <1>2, <1>3, <1>5, SameSending
  <2>2. QED
    BY <1>1, <1>5, <2>1, OtherFacts DEF Account
<1>12. ASSUME NEW d \in Ends PROVE Excused(d)'
  <2>1. Excused(d) /\ Other(d) \in Ends /\ (d # e => Other(d) = e) /\ (d # e => d = Other(e))
    BY <1>1, OtherFacts
  <2>2. dropped'[d] \subseteq cut'[d] /\ (dropped'[d] = {} \/ d \in CallbackEnds)
    BY <1>5, <1>c, <2>1 DEF Excused
  <2>3. thread'[d].pc = "call" => sent'[d] \in cut'[Other(d)]
    <3>1. CASE d = e
      BY <1>2, <1>3, <3>1 DEF Moves
    <3>2. CASE d # e
      <4>1. thread[d].pc = "call" => sent[d] \in InSending(d)
        BY DEF InSending, Sending
      <4>2. QED
        BY <1>5, <1>7, <1>c, <2>1, <3>2, <4>1
    <3>3. QED
      BY <3>1, <3>2
  <2>4. QED
    BY <2>2, <2>3 DEF Excused
<1>13. QED
  BY <1>8, <1>9, <1>10, <1>11, <1>12 DEF IInv

LEMMA ResetInv ==
  ASSUME IInv, ResetHub
  PROVE  IInv'
<1>1. TypeOK
  BY DEF IInv
<1>2. \A d \in Ends : thread[d].pc = "idle"
  BY DEF ResetHub, At
<1>3. /\ open' = {} /\ remote' = {} /\ lock' = None
      /\ messages' = [e \in Ends |-> <<>>] /\ recvCb' = [e \in Ends |-> 0]
      /\ sent' = [e \in Ends |-> 0] /\ delivered' = [e \in Ends |-> <<>>]
      /\ dropped' = [e \in Ends |-> {}] /\ cut' = [e \in Ends |-> {}]
      /\ UNCHANGED <<sock, thread, met>>
  BY DEF ResetHub
<1>4. TypeOK'
  <2>1. /\ messages' \in [Ends -> Seq(Nat)] /\ recvCb' \in [Ends -> Nat]
        /\ sent' \in [Ends -> Nat] /\ delivered' \in [Ends -> Seq(Nat)]
        /\ dropped' \in [Ends -> SUBSET Nat] /\ cut' \in [Ends -> SUBSET Nat]
    BY <1>3
  <2>2. \A d \in Ends : At(d, "closing")' <=> lock' = d
    BY <1>2, <1>3, ConstantsAssumption DEF At
  <2>3. QED
    BY <1>1, <1>3, <2>1, <2>2 DEF TypeOK
<1>5. NoGhosts'
  BY <1>3 DEF NoGhosts
<1>6. \A d \in Ends : Phase(d)'
  BY <1>2, <1>3 DEF Phase, Connecting
<1>7. ASSUME NEW d \in Ends PROVE Account(d)'
  <2>1. InSending(Other(d))' = {} /\ sent'[Other(d)] = 0
    BY <1>2, <1>3, OtherFacts DEF InSending, Sending
  <2>2. delivered'[d] = <<>> /\ messages'[d] = <<>> /\ dropped'[d] = {}
    BY <1>3
  <2>3. Books(<<>>, <<>>, {}, {}, 0) /\ InTurn(<<>>, <<>>)
    BY EmptyBooks
  <2>4. QED
    BY <2>1, <2>2, <2>3 DEF Account
<1>8. \A d \in Ends : Excused(d)'
  BY <1>2, <1>3 DEF Excused
<1>9. QED
  BY <1>4, <1>5, <1>6, <1>7, <1>8 DEF IInv

-----------------------------------------------------------------------------
(* The theorems.                                                           *)

LEMMA StepInv == IInv /\ [Next]_vars => IInv'
<1> SUFFICES ASSUME IInv, [Next]_vars PROVE IInv'
  OBVIOUS
<1>1. ASSUME NEW e \in Ends,
             \/ OpenSocket(e) \/ StartSend(e) \/ StartReceive(e) \/ StartClose(e)
             \/ ConnectTimeout(e) \/ GiveUpReceive(e)
             \/ Continue(e)
      PROVE  IInv'
  <2>1. CASE OpenSocket(e) \/ Track(e) \/ AddCallbacks(e)
    BY <2>1, OpenInv, TrackInv, CallbacksInv
  <2>2. CASE PollOpen(e) \/ PollRemote(e) \/ ConnectTimeout(e)
    BY <2>2, PollInv
  <2>3. CASE StartSend(e) \/ LookUpCallback(e) \/ CallCallback(e) \/ AppendMessage(e)
    BY <2>3, StartSendInv, LookUpInv, CallInv, AppendInv
  <2>4. CASE StartReceive(e) \/ Receive(e) \/ GiveUpReceive(e)
    BY <2>4, QuietReceiveInv, ReceiveInv
  <2>5. CASE StartClose(e) \/ Close(e)
    BY <2>5, StartCloseInv, CloseInv
  <2>6. QED
    BY <1>1, <2>1, <2>2, <2>3, <2>4, <2>5 DEF Continue
<1>2. CASE UNCHANGED vars
  <2>1. UNCHANGED <<open, remote, messages, recvCb, lock, sock, thread, sent, delivered,
                    dropped, cut, met>>
    BY <1>2 DEF vars, tables, traffic
  <2>2. TypeOK' /\ NoGhosts'
    BY <2>1 DEF IInv, TypeOK, NoGhosts, At, Alive
  <2>3. (\A e \in Ends : Phase(e)') /\ (\A e \in Ends : Account(e)')
    BY <2>1 DEF IInv, Phase, Account, InSending
  <2>4. \A e \in Ends : Excused(e)'
    BY <2>1 DEF IInv, Excused, Alive
  <2>5. QED
    BY <2>2, <2>3, <2>4 DEF IInv
<1>3. QED
  BY <1>1, <1>2, ResetInv DEF Next

LEMMA InvAlways == Spec => []IInv
<1>1. QED
  BY InitInv, StepInv, PTL DEF Spec

\* The tables, threads and histories have their types, and the thread that holds the lock is
\* the one that closes a socket (_SocketHub, disconnect).
THEOREM HubTypes == Spec => []TypeOK
<1>1. IInv => TypeOK
  BY DEF IInv
<1>2. QED
  BY <1>1, InvAlways, PTL

\* The tables hold no ghosts: a host in the open sockets has a socket that lives, and a
\* callback belongs to a socket that is open and lives, whatever the order in which the
\* sockets of a key are made, fail, and are collected (connect, disconnect).
THEOREM HubHasNoGhosts == Spec => []NoGhosts
<1>1. IInv => NoGhosts
  BY DEF IInv
<1>2. QED
  BY <1>1, InvAlways, PTL

LEMMA InvGivesOrder == IInv => MessagesInOrder
<1> SUFFICES ASSUME IInv, NEW e \in Ends
             PROVE  LET o   == Other(e)
                        all == delivered[e] \o messages[e]
                    IN /\ ToSet(all) \cup dropped[e] \cup InSending(o) = 1 .. sent[o]
                       /\ Len(all) + Cardinality(dropped[e]) + Cardinality(InSending(o))
                            = sent[o]
                       /\ Increasing(messages[e])
                       /\ Increasing(delivered[e]) \/ e \in CallbackEnds
                       /\ Increasing(all) \/ e \in CallbackEnds
  BY DEF MessagesInOrder
<1>1. /\ Books(delivered[e], messages[e], dropped[e], InSending(Other(e)), sent[Other(e)])
      /\ e \in CallbackEnds \/ InTurn(delivered[e], messages[e])
  BY DEF IInv, Account
<1>2. delivered[e] \in Seq(Nat) /\ messages[e] \in Seq(Nat) /\ sent[Other(e)] \in Nat
  BY OtherFacts DEF IInv, TypeOK
<1>3. Increasing(messages[e]) /\ (Increasing(delivered[e]) \/ e \in CallbackEnds)
  BY <1>1 DEF Books, InTurn
<1>4. QED
  BY <1>1, <1>2, <1>3, BookCount

\* From one reset of the hub to the next, every message was received once, waits once, is on
\* its way or was dropped; a host without callbacks receives in the order of sending,
\* across all the sockets of its key (send, recv).
THEOREM HubKeepsMessages == Spec => []MessagesInOrder
<1>1. QED
  BY InvGivesOrder, InvAlways, PTL

\* Only a host with callbacks loses a message, and only one that was on its way to it as it
\* closed a socket: a method that is registered belongs to a socket that lives, so that the
\* socket which is gone when it is called went after the look-up (send, disconnect).
THEOREM HubLosesOnlyWhatAClosureMet == Spec => []LossNeedsAClose
<1>1. IInv => LossNeedsAClose
  BY DEF IInv, Excused, LossNeedsAClose
<1>2. QED
  BY <1>1, InvAlways, PTL
=============================================================================
