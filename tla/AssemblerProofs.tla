--------------------------- MODULE AssemblerProofs --------------------------
(***************************************************************************)
(* A program that is assembled for the vanilla flavour runs as it is       *)
(* written: Assembler implements SourceProgram.                            *)
(***************************************************************************)
EXTENDS Assembler, InstructionsProofs

-----------------------------------------------------------------------------
(* Where the members of the parts are in what FlattenSeq joins.            *)

\* off holds the length of what is joined before each part.
Offsets(s, off) ==
  /\ off \in [0 .. Len(s) -> Nat] /\ off[0] = 0
  /\ \A i \in 1 .. Len(s) : off[i] = off[i - 1] + Len(s[i])

PlacedBy(s, joined, off) ==
  /\ Offsets(s, off)
  /\ Len(joined) = off[Len(s)]
  /\ \A i \in 1 .. Len(s) : \A j \in 1 .. Len(s[i]) : joined[off[i - 1] + j] = s[i][j]

LEMMA FlattenPlaces ==
  ASSUME NEW S, NEW s \in Seq(Seq(S))
  PROVE  \E off : PlacedBy(s, FlattenSeq(s), off)
<1>1. PICK f : Joins(s, f)
  BY JoinsExists
<1>2. FlattenSeq(s) = f[Len(s)]
  BY <1>1, FlattenJoins
<1>3. PICK joined : joined = FlattenSeq(s)
  OBVIOUS
<1>4. Len(s) \in Nat /\ \A i \in 1 .. Len(s) : s[i] \in Seq(S) /\ Len(s[i]) \in Nat
  OBVIOUS
<1>5. \A i \in 0 .. Len(s) : f[i] \in Seq(S) /\ Len(f[i]) \in Nat
  BY <1>1, JoinsTyped
<1>6. /\ f[0] = <<>>
      /\ \A i \in 1 .. Len(s) : f[i] = Cat(f[i - 1], s[i])
  BY <1>1 DEF Joins, JoinsUpTo, Cat
<1>7. \A i \in 1 .. Len(s) : i - 1 \in 0 .. Len(s) /\ i \in 0 .. Len(s)
  BY <1>4
<1>8. \A i \in 1 .. Len(s) : Len(f[i]) = Len(f[i - 1]) + Len(s[i])
  BY <1>4, <1>5, <1>6, <1>7, LenOfCat
<1> DEFINE off == [i \in 0 .. Len(s) |-> Len(f[i])]
<1>9. Offsets(s, off)
  <2>1. off[0] = 0
    BY <1>4, <1>6
  <2>2. off \in [0 .. Len(s) -> Nat]
    BY <1>5
  <2>3. QED
    BY <2>1, <2>2, <1>7, <1>8 DEF Offsets
<1>10. Len(joined) = off[Len(s)]
  BY <1>2, <1>3, <1>4
<1>11. \A i \in 0 .. Len(s) : off[i] = Len(f[i])
  OBVIOUS
<1> HIDE DEF off
<1>12. ASSUME NEW i \in 1 .. Len(s), NEW j \in 1 .. Len(s[i])
       PROVE  joined[off[i - 1] + j] = s[i][j]
  <2>1. PICK t \in Seq(S) : f[Len(s)] = Cat(f[i], t)
    BY <1>1, <1>7, JoinsRest
  <2>2. PICK a \in Seq(S), b \in Seq(S) : a = f[i - 1] /\ b = s[i] /\ f[i] = Cat(a, b)
    BY <1>4, <1>5, <1>6, <1>7
  <2>3. /\ Len(a) \in Nat /\ Len(b) \in Nat /\ Len(t) \in Nat /\ j \in 1 .. Len(b)
        /\ off[i - 1] = Len(a)
    BY <1>7, <1>11, <2>2
  <2>4. Cat(a, b) \in Seq(S) /\ Len(Cat(a, b)) = Len(a) + Len(b)
        /\ Cat(a, b)[Len(a) + j] = b[j]
    <3>1. Len(a) + j \in 1 .. Len(a) + Len(b) /\ ~(Len(a) + j <= Len(a)) /\ (Len(a) + j) - Len(a) = j
      BY <2>3
    <3>2. /\ Cat(a, b) \in Seq(S) /\ Len(Cat(a, b)) = Len(a) + Len(b)
          /\ \A p \in 1 .. Len(a) + Len(b) : Cat(a, b)[p] = IF p <= Len(a) THEN a[p] ELSE b[p - Len(a)]
      BY CatMembers
    <3>3. QED
      BY <3>1, <3>2
  <2>5. PICK c \in Seq(S) : c = Cat(a, b)
    BY <2>4
  <2>6. Cat(c, t)[Len(a) + j] = c[Len(a) + j]
    <3>1. Len(c) = Len(a) + Len(b)
      BY <2>4, <2>5
    <3>2. Len(a) + j \in 1 .. Len(c) + Len(t) /\ Len(a) + j <= Len(c)
      BY ONLY <2>3, <3>1
    <3>3. QED
      BY <3>2, CatMembers
  <2>7. joined = Cat(c, t)
    BY <1>2, <1>3, <2>1, <2>2, <2>5
  <2>8. joined[Len(a) + j] = b[j]
    BY <2>4, <2>5, <2>6, <2>7
  <2>9. QED
    BY <2>2, <2>3, <2>8
<1>13. QED
  BY <1>3, <1>9, <1>10, <1>12 DEF PlacedBy

Parts(s) == Len(s) \in Nat /\ \A i \in 1 .. Len(s) : Len(s[i]) \in Nat

LEMMA OffsetsGrow ==
  ASSUME NEW s, Parts(s), NEW off, Offsets(s, off),
         NEW i \in 0 .. Len(s), NEW j \in 0 .. Len(s), i <= j
  PROVE  off[i] <= off[j]
<1> USE DEF Parts
<1> DEFINE T == {n \in Nat : i + n <= Len(s) => off[i] <= off[i + n]}
<1>1. 0 \in T
  BY DEF Offsets
<1>2. ASSUME NEW n \in Nat, n \in T
      PROVE  n + 1 \in T
  <2> SUFFICES ASSUME i + (n + 1) <= Len(s)
               PROVE  off[i] <= off[i + (n + 1)]
    OBVIOUS
  <2>1. i + (n + 1) \in 1 .. Len(s) /\ (i + (n + 1)) - 1 = i + n /\ i + n \in 0 .. Len(s) /\ i + n <= Len(s)
    OBVIOUS
  <2>2. off[i + (n + 1)] = off[i + n] + Len(s[i + (n + 1)]) /\ Len(s[i + (n + 1)]) \in Nat
    BY <2>1 DEF Offsets
  <2>3. off[i] \in Nat /\ off[i + n] \in Nat
    BY <2>1 DEF Offsets
  <2>4. QED
    BY <1>2, <2>1, <2>2, <2>3
<1> HIDE DEF T
<1>3. j - i \in Nat /\ i + (j - i) = j
  OBVIOUS
<1>4. j - i \in T
  BY <1>1, <1>2, <1>3, SetInduction
<1>5. QED
  BY <1>3, <1>4 DEF T

\* Every place is in one of the parts.
LEMMA OffsetsCover ==
  ASSUME NEW s, Parts(s), NEW off, Offsets(s, off), NEW k \in 1 .. off[Len(s)]
  PROVE  \E i \in 1 .. Len(s) : \E j \in 1 .. Len(s[i]) : k = off[i - 1] + j
<1> USE DEF Parts
<1> DEFINE T == {i \in 0 .. Len(s) : k <= off[i]}
<1>1. Len(s) \in T /\ T \subseteq Nat
  BY DEF Offsets
<1>2. PICK i \in T : \A y \in T : i <= y
  BY <1>1, LeastNatural
<1>3. off[0] = 0 /\ \A x \in 0 .. Len(s) : off[x] \in Nat
  BY DEF Offsets
<1>4. i \in 1 .. Len(s)
  BY <1>2, <1>3
<1>5. i - 1 \in 0 .. Len(s) /\ i - 1 \notin T
  BY <1>2, <1>4
<1>6. off[i] = off[i - 1] + Len(s[i]) /\ Len(s[i]) \in Nat /\ off[i - 1] \in Nat
  BY <1>3, <1>4, <1>5 DEF Offsets
<1>7. off[i - 1] < k /\ k <= off[i]
  BY <1>2, <1>3, <1>5
<1>8. k - off[i - 1] \in 1 .. Len(s[i]) /\ k = off[i - 1] + (k - off[i - 1])
  BY <1>6, <1>7
<1>9. QED
  BY <1>4, <1>8

-----------------------------------------------------------------------------
(* The lines without the labels.                                           *)

\* off holds how many of the lines before each are commands.
Counts(q, n, off) ==
  /\ off \in [0 .. n -> Nat] /\ off[0] = 0
  /\ \A p \in 1 .. n : off[p] = off[p - 1] + (IF IsLabel(q[p]) THEN 0 ELSE 1)

LEMMA CountsAgree ==
  ASSUME NEW q, NEW n \in Nat, NEW off, Counts(q, n, off),
         NEW r, NEW m \in Nat, NEW oth, Counts(r, m, oth),
         NEW k \in Nat, k <= n, k <= m, \A p \in 1 .. k : IsLabel(q[p]) <=> IsLabel(r[p])
  PROVE  off[k] = oth[k]
<1> DEFINE T == {l \in Nat : l <= k => off[l] = oth[l]}
<1>1. 0 \in T
  BY DEF Counts
<1>2. ASSUME NEW l \in Nat, l \in T
      PROVE  l + 1 \in T
  <2> SUFFICES ASSUME l + 1 <= k
               PROVE  off[l + 1] = oth[l + 1]
    OBVIOUS
  <2>1. /\ l + 1 \in 1 .. n /\ l + 1 \in 1 .. m /\ l + 1 \in 1 .. k /\ (l + 1) - 1 = l
        /\ off[l] = oth[l]
    BY <1>2
  <2>2. /\ off[l + 1] = off[l] + (IF IsLabel(q[l + 1]) THEN 0 ELSE 1)
        /\ oth[l + 1] = oth[l] + (IF IsLabel(r[l + 1]) THEN 0 ELSE 1)
    BY <2>1 DEF Counts
  <2>3. QED
    BY <2>1, <2>2
<1> HIDE DEF T
<1>3. k \in T
  BY <1>1, <1>2, SetInduction
<1>4. QED
  BY <1>3 DEF T

LEMMA CommandsCounted ==
  ASSUME NEW S, NEW q \in Seq(S)
  PROVE  \E off : /\ Counts(q, Len(q), off)
                  /\ Len(WithoutLabels(q)) = off[Len(q)]
                  /\ \A p \in 1 .. Len(q) :
                       ~ IsLabel(q[p]) => WithoutLabels(q)[off[p - 1] + 1] = q[p]
<1>1. Len(q) \in Nat /\ DOMAIN q = 1 .. Len(q) /\ \A p \in 1 .. Len(q) : q[p] \in S
  OBVIOUS
<1>2. PICK part : part = [p \in 1 .. Len(q) |-> IF IsLabel(q[p]) THEN <<>> ELSE << q[p] >>]
  OBVIOUS
<1>3. WithoutLabels(q) = FlattenSeq(part)
  BY <1>1, <1>2 DEF WithoutLabels
<1>4. \A p \in 1 .. Len(q) : /\ IsLabel(q[p]) => part[p] = <<>>
                             /\ ~ IsLabel(q[p]) => part[p] = << q[p] >>
  BY <1>2
<1>5. ASSUME NEW p \in 1 .. Len(q)
      PROVE  part[p] \in Seq(S)
  <2>1. << q[p] >> \in Seq(S) /\ <<>> \in Seq(S)
    BY <1>1
  <2>2. QED
    BY <1>4, <2>1
<1>6. part \in Seq(Seq(S)) /\ Len(part) = Len(q)
  BY <1>1, <1>2, <1>5
<1>7. PICK off : PlacedBy(part, FlattenSeq(part), off)
  BY <1>6, FlattenPlaces
<1>8. ASSUME NEW p \in 1 .. Len(q)
      PROVE  /\ IsLabel(q[p]) => Len(part[p]) = 0
             /\ ~ IsLabel(q[p]) => Len(part[p]) = 1 /\ part[p][1] = q[p] /\ 1 \in 1 .. Len(part[p])
  <2>1. Len(<< q[p] >>) = 1 /\ << q[p] >>[1] = q[p] /\ 1 \in 1 .. 1 /\ Len(<<>>) = 0
    OBVIOUS
  <2>2. CASE IsLabel(q[p])
    <3>1. part[p] = <<>>
      BY <1>4, <2>2
    <3>2. QED
      BY <2>2, <3>1
  <2>3. CASE ~ IsLabel(q[p])
    <3>1. part[p] = << q[p] >>
      BY <1>4, <2>3
    <3>2. QED
      BY <2>1, <2>3, <3>1
  <2>4. QED
    BY <2>2, <2>3
<1>9. Counts(q, Len(q), off)
  <2>1. \A p \in 1 .. Len(q) : Len(part[p]) = IF IsLabel(q[p]) THEN 0 ELSE 1
    BY <1>8
  <2>2. /\ off \in [0 .. Len(q) -> Nat] /\ off[0] = 0
        /\ \A p \in 1 .. Len(q) : off[p] = off[p - 1] + Len(part[p])
    BY <1>6, <1>7 DEF PlacedBy, Offsets
  <2>3. \A p \in 1 .. Len(q) : off[p] = off[p - 1] + (IF IsLabel(q[p]) THEN 0 ELSE 1)
    BY <2>1, <2>2
  <2>4. QED
    BY <2>2, <2>3 DEF Counts
<1>10. Len(FlattenSeq(part)) = off[Len(q)]
  BY <1>6, <1>7 DEF PlacedBy
<1>11. ASSUME NEW p \in 1 .. Len(q), ~ IsLabel(q[p])
       PROVE  FlattenSeq(part)[off[p - 1] + 1] = q[p]
  <2>1. \A i \in 1 .. Len(q) : \A j \in 1 .. Len(part[i]) : FlattenSeq(part)[off[i - 1] + j] = part[i][j]
    BY <1>6, <1>7 DEF PlacedBy
  <2>2. Len(part[p]) = 1 /\ part[p][1] = q[p] /\ 1 \in 1 .. Len(part[p])
    BY <1>8, <1>11
  <2>3. QED
    BY <2>1, <2>2
<1>12. QED
  BY <1>3, <1>9, <1>10, <1>11

\* So many commands are before a line.
LEMMA CommandsBefore ==
  ASSUME NEW S, NEW q \in Seq(S), NEW off, Counts(q, Len(q), off), NEW p \in 1 .. Len(q)
  PROVE  Len(WithoutLabels(SubSeq(q, 1, p - 1))) = off[p - 1]
<1>1. PICK r : r = SubSeq(q, 1, p - 1)
  OBVIOUS
<1>2. r \in Seq(S) /\ Len(r) = p - 1 /\ \A k \in 1 .. p - 1 : r[k] = q[k]
  BY <1>1
<1>3. PICK oth : Counts(r, Len(r), oth) /\ Len(WithoutLabels(r)) = oth[Len(r)]
  BY <1>2, CommandsCounted
<1>4. /\ Len(q) \in Nat /\ Len(r) \in Nat /\ p - 1 <= Len(q) /\ p - 1 <= Len(r) /\ p - 1 \in Nat
      /\ \A k \in 1 .. p - 1 : IsLabel(q[k]) <=> IsLabel(r[k])
  BY <1>2
<1>5. off[p - 1] = oth[p - 1]
  BY <1>3, <1>4, CountsAgree
<1>6. QED
  BY <1>1, <1>2, <1>3, <1>5

-----------------------------------------------------------------------------
(* The registers and the constants of a command.                           *)

LEMMA SequenceFacts ==
  ASSUME NEW s, IsSequence(s)
  PROVE  /\ Len(s) \in Nat /\ DOMAIN s = 1 .. Len(s) /\ s \in Seq(ToSet(s))
         /\ \A i \in 1 .. Len(s) : s[i] \in ToSet(s)
BY DEF IsSequence, ToSet

LEMMA SequenceOfAny ==
  ASSUME NEW S, NEW s \in Seq(S)
  PROVE  IsSequence(s)
<1>1. Len(s) \in Nat /\ DOMAIN s = 1 .. Len(s) /\ s = [i \in 1 .. Len(s) |-> s[i]]
  OBVIOUS
<1>2. \A i \in 1 .. Len(s) : s[i] \in ToSet(s)
  BY <1>1 DEF ToSet
<1>3. s \in [1 .. Len(s) -> ToSet(s)]
  BY <1>1, <1>2
<1>4. QED
  BY <1>1, <1>3 DEF IsSequence

LEMMA SequenceByPlaces ==
  ASSUME NEW n \in Nat, NEW s, DOMAIN s = 1 .. n, s = [i \in 1 .. n |-> s[i]]
  PROVE  IsSequence(s) /\ Len(s) = n
<1>1. \A i \in 1 .. n : s[i] \in ToSet(s)
  BY DEF ToSet
<1>2. s \in [1 .. n -> ToSet(s)]
  BY <1>1
<1>3. s \in Seq(ToSet(s))
  BY <1>2
<1>4. Len(s) = n
  BY <1>3
<1>5. QED
  BY <1>3, <1>4 DEF IsSequence

LEMMA Joined ==
  ASSUME NEW s, NEW t, IsSequence(s), IsSequence(t)
  PROVE  IsSequence(s \o t)
<1>1. PICK S : S = ToSet(s) \cup ToSet(t)
  OBVIOUS
<1>2. s \in Seq(S) /\ t \in Seq(S)
  BY <1>1 DEF IsSequence
<1>3. s \o t \in Seq(S)
  BY <1>2
<1>4. QED
  BY <1>3, SequenceOfAny

\* The registers that the assembler may use.
Spare(cmds, r) == r.kind = "reg" /\ r \notin CurrentRegisters(cmds)

LEMMA FreeFacts ==
  ASSUME NEW cmds
  PROVE  LET free == FreeRegisters(cmds)
         IN /\ IsSequence(free)
            /\ \A k \in 1 .. Len(free) : Spare(cmds, free[k])
            /\ \A k, l \in 1 .. Len(free) : free[k] = free[l] => k = l
<1>1. PICK cur : cur = CurrentRegisters(cmds)
  OBVIOUS
<1>2. PICK n : n = NumRegisters
  OBVIOUS
<1>3. n \in Nat
  BY <1>2, RegistersAssumption
<1>4. PICK part : part = [i \in 1 .. n |-> IF Register("R", i - 1) \in cur THEN <<>>
                                           ELSE << Register("R", i - 1) >>]
  OBVIOUS
<1>5. PICK free : free = FlattenSeq(part)
  OBVIOUS
<1>6. FreeRegisters(cmds) = free
  BY <1>1, <1>2, <1>4, <1>5 DEF FreeRegisters
<1>7. PICK reg : reg = [i \in 1 .. n |-> Register("R", i - 1)]
  OBVIOUS
<1>8. /\ \A i \in 1 .. n : reg[i].kind = "reg" /\ reg[i].index = i - 1 /\ reg[i] = Register("R", i - 1)
      /\ \A i, j \in 1 .. n : reg[i] = reg[j] => i = j
  <2>1. \A i \in 1 .. n : reg[i].kind = "reg" /\ reg[i].index = i - 1 /\ reg[i] = Register("R", i - 1)
    BY <1>7 DEF Register
  <2>2. ASSUME NEW i \in 1 .. n, NEW j \in 1 .. n, reg[i] = reg[j]
        PROVE  i = j
    <3>1. i - 1 = j - 1
      BY <2>1, <2>2
    <3>2. QED
      BY <3>1
  <2>3. QED
    BY <2>1, <2>2
<1>9. PICK S : S = {reg[i] : i \in 1 .. n}
  OBVIOUS
<1>10. /\ \A i \in 1 .. n : reg[i] \in cur => part[i] = <<>>
       /\ \A i \in 1 .. n : reg[i] \notin cur => part[i] = << reg[i] >>
       /\ DOMAIN part = 1 .. n
  BY <1>4, <1>8
<1>11. ASSUME NEW i \in 1 .. n
       PROVE  part[i] \in Seq(S) /\ \A j \in 1 .. Len(part[i]) :
                j = 1 /\ part[i][j] = reg[i] /\ reg[i] \notin cur
  <2>1. << reg[i] >> \in Seq(S) /\ Len(<< reg[i] >>) = 1 /\ << reg[i] >>[1] = reg[i]
        /\ <<>> \in Seq(S) /\ Len(<<>>) = 0
    BY <1>9
  <2>2. CASE reg[i] \in cur
    <3>1. part[i] = <<>>
      BY <1>10, <2>2
    <3>2. QED
      BY <2>1, <3>1
  <2>3. CASE reg[i] \notin cur
    <3>1. part[i] = << reg[i] >>
      BY <1>10, <2>3
    <3>2. QED
      BY <2>1, <2>3, <3>1
  <2>4. QED
    BY <2>2, <2>3
<1>12. part \in Seq(Seq(S)) /\ Len(part) = n
  <2>1. part \in [1 .. n -> Seq(S)]
    BY <1>4, <1>10, <1>11
  <2>2. QED
    BY <2>1, <1>3
<1>13. PICK off : PlacedBy(part, free, off)
  BY <1>5, <1>12, FlattenPlaces
<1>14. free \in Seq(S)
  BY <1>5, <1>12, FlattenTyped
<1>15. ASSUME NEW k \in 1 .. Len(free)
       PROVE  \E i \in 1 .. n : k = off[i - 1] + 1 /\ free[k] = reg[i] /\ reg[i] \notin cur
  <2>1. Offsets(part, off) /\ k \in 1 .. off[Len(part)]
    BY <1>13, <1>15 DEF PlacedBy
  <2>2. Parts(part)
    BY <1>3, <1>12 DEF Parts
  <2>3. PICK i \in 1 .. Len(part) : \E j \in 1 .. Len(part[i]) : k = off[i - 1] + j
    BY <2>1, <2>2, OffsetsCover
  <2>4. PICK j \in 1 .. Len(part[i]) : k = off[i - 1] + j
    BY <2>3
  <2>5. free[k] = part[i][j]
    BY <1>13, <2>4 DEF PlacedBy
  <2>6. i \in 1 .. n /\ j = 1 /\ part[i][j] = reg[i] /\ reg[i] \notin cur
    BY <1>11, <1>12, <2>4
  <2>7. QED
    BY <2>4, <2>5, <2>6
<1>16. \A k \in 1 .. Len(free) : Spare(cmds, free[k])
  BY <1>1, <1>8, <1>15 DEF Spare
<1>17. ASSUME NEW k \in 1 .. Len(free), NEW l \in 1 .. Len(free), free[k] = free[l]
       PROVE  k = l
  <2>1. PICK i \in 1 .. n : k = off[i - 1] + 1 /\ free[k] = reg[i]
    BY <1>15
  <2>2. PICK j \in 1 .. n : l = off[j - 1] + 1 /\ free[l] = reg[j]
    BY <1>15
  <2>3. i = j
    BY <2>1, <2>2, <1>8, <1>17
  <2>4. QED
    BY <2>1, <2>2, <2>3
<1>18. IsSequence(free)
  BY <1>14, SequenceOfAny
<1>19. QED
  BY <1>6, <1>16, <1>17, <1>18

\* A constant of a command that needs a register.
IsSlot(cmd, x) ==
  \E j \in DOMAIN cmd.operands :
    \/ x = << j, "self" >> /\ cmd.operands[j].kind = "imm" /\ ~ KeepsConstant(cmd.mnemonic, j)
    \/ x = << j, "index" >> /\ cmd.operands[j].kind = "entry" /\ cmd.operands[j].index.kind = "imm"
    \/ x = << j, "start" >> /\ cmd.operands[j].kind = "slice" /\ cmd.operands[j].start.kind = "imm"
    \/ x = << j, "stop" >> /\ cmd.operands[j].kind = "slice" /\ cmd.operands[j].stop.kind = "imm"

LEMMA SlotFacts ==
  ASSUME NEW cmd, IsSequence(cmd.operands)
  PROVE  LET slots == ConstantSlots(cmd)
         IN IsSequence(slots) /\ \A k \in 1 .. Len(slots) : IsSlot(cmd, slots[k])
<1>1. PICK ops : ops = cmd.operands
  OBVIOUS
<1>2. PICK n \in Nat : n = Len(ops) /\ DOMAIN ops = 1 .. n
  BY <1>1, SequenceFacts
<1>3. PICK Pairs : Pairs = {x \in (1 .. n) \X {"self", "index", "start", "stop"} : IsSlot(cmd, x)}
  OBVIOUS
<1> DEFINE Slot(j, attr, op) == IF op.kind = "imm" THEN << << j, attr >> >> ELSE <<>>
           Part(j) == CASE ops[j].kind = "entry" -> Slot(j, "index", ops[j].index)
                        [] ops[j].kind = "slice" -> Slot(j, "start", ops[j].start) \o Slot(j, "stop", ops[j].stop)
                        [] OTHER -> IF KeepsConstant(cmd.mnemonic, j) THEN <<>> ELSE Slot(j, "self", ops[j])
<1>4. ASSUME NEW j \in 1 .. n, NEW attr \in {"self", "index", "start", "stop"}, NEW op,
             op.kind = "imm" => IsSlot(cmd, << j, attr >>)
      PROVE  Slot(j, attr, op) \in Seq(Pairs)
  <2>1. CASE op.kind = "imm"
    <3>1. << j, attr >> \in Pairs
      BY <1>3, <1>4, <2>1
    <3>2. << << j, attr >> >> \in Seq(Pairs)
      BY <3>1
    <3>3. QED
      BY <2>1, <3>2
  <2>2. CASE op.kind # "imm"
    BY <2>2
  <2>3. QED
    BY <2>1, <2>2
<1>5. ASSUME NEW j \in 1 .. n
      PROVE  Part(j) \in Seq(Pairs)
  <2>1. CASE ops[j].kind = "entry"
    <3>1. ops[j].index.kind = "imm" => IsSlot(cmd, << j, "index" >>)
      BY <1>1, <1>2, <2>1 DEF IsSlot
    <3>2. Slot(j, "index", ops[j].index) \in Seq(Pairs)
      BY <1>4, <3>1
    <3>3. Part(j) = Slot(j, "index", ops[j].index)
      BY <2>1
    <3>4. QED
      BY <3>2, <3>3
  <2>2. CASE ops[j].kind = "slice"
    <3>1. ops[j].start.kind = "imm" => IsSlot(cmd, << j, "start" >>)
      BY <1>1, <1>2, <2>2 DEF IsSlot
    <3>2. ops[j].stop.kind = "imm" => IsSlot(cmd, << j, "stop" >>)
      BY <1>1, <1>2, <2>2 DEF IsSlot
    <3>3. Slot(j, "start", ops[j].start) \in Seq(Pairs) /\ Slot(j, "stop", ops[j].stop) \in Seq(Pairs)
      BY <1>4, <3>1, <3>2
    <3>4. Part(j) = Slot(j, "start", ops[j].start) \o Slot(j, "stop", ops[j].stop)
      BY <2>2
    <3> HIDE DEF Slot, Part
    <3>5. QED
      BY <3>3, <3>4
  <2>3. CASE ops[j].kind \notin {"entry", "slice"} /\ KeepsConstant(cmd.mnemonic, j)
    <3>1. Part(j) = <<>>
      BY <2>3
    <3>2. <<>> \in Seq(Pairs)
      OBVIOUS
    <3>3. QED
      BY <3>1, <3>2
  <2>4. CASE ops[j].kind \notin {"entry", "slice"} /\ ~ KeepsConstant(cmd.mnemonic, j)
    <3>1. ops[j].kind = "imm" => IsSlot(cmd, << j, "self" >>)
      BY <1>1, <1>2, <2>4 DEF IsSlot
    <3>2. Slot(j, "self", ops[j]) \in Seq(Pairs)
      BY <1>4, <3>1
    <3>3. Part(j) = Slot(j, "self", ops[j])
      BY <2>4
    <3>4. QED
      BY <3>2, <3>3
  <2>5. QED
    BY <2>1, <2>2, <2>3, <2>4
<1>6. PICK parts : parts = [j \in 1 .. n |-> Part(j)]
  OBVIOUS
<1>7. ConstantSlots(cmd) = FlattenSeq(parts)
  BY <1>1, <1>2, <1>6 DEF ConstantSlots
<1> HIDE DEF Slot, Part
<1>8. parts \in Seq(Seq(Pairs))
  <2>1. parts \in [1 .. n -> Seq(Pairs)]
    BY <1>5, <1>6
  <2>2. QED
    BY <2>1, <1>2
<1>9. PICK slots : slots = FlattenSeq(parts)
  OBVIOUS
<1>10. slots \in Seq(Pairs)
  BY <1>8, <1>9, FlattenTyped
<1>11. \A k \in 1 .. Len(slots) : IsSlot(cmd, slots[k])
  BY <1>10, <1>3
<1>12. QED
  BY <1>7, <1>9, <1>10, <1>11, SequenceOfAny

\* The registers of the constants of a command, and what it is expanded to.
Temporary(cmd, free) ==
  LET slots == ConstantSlots(cmd)
  IN  [slot \in ToSet(slots) |-> free[CHOOSE k \in DOMAIN slots : slots[k] = slot]]

SetSlot(cmd, free, k) ==
  Cmd("set", << Temporary(cmd, free)[ConstantSlots(cmd)[k]], SlotValue(cmd, ConstantSlots(cmd)[k]) >>)

Body(cmd, free) ==
  Cmd(cmd.mnemonic, [j \in DOMAIN cmd.operands |-> FillSlots(j, cmd.operands[j], Temporary(cmd, free))])

LEMMA TemporaryFacts ==
  ASSUME NEW cmds, NEW cmd, IsSequence(cmd.operands),
         Len(ConstantSlots(cmd)) <= Len(FreeRegisters(cmds))
  PROVE  LET tmp   == Temporary(cmd, FreeRegisters(cmds))
             slots == ConstantSlots(cmd)
         IN /\ DOMAIN tmp = {slots[k] : k \in 1 .. Len(slots)}
            /\ \A x \in DOMAIN tmp : IsSlot(cmd, x) /\ Spare(cmds, tmp[x])
            /\ \A x, y \in DOMAIN tmp : tmp[x] = tmp[y] => x = y
<1>1. PICK slots : slots = ConstantSlots(cmd)
  OBVIOUS
<1>2. PICK free : free = FreeRegisters(cmds)
  OBVIOUS
<1>3. PICK tmp : tmp = [slot \in ToSet(slots) |-> free[CHOOSE k \in DOMAIN slots : slots[k] = slot]]
  OBVIOUS
<1>4. tmp = Temporary(cmd, free)
  BY <1>1, <1>3 DEF Temporary
<1>5. IsSequence(slots) /\ \A k \in 1 .. Len(slots) : IsSlot(cmd, slots[k])
  BY <1>1, SlotFacts
<1>6. Len(slots) \in Nat /\ DOMAIN slots = 1 .. Len(slots)
  BY <1>5, SequenceFacts
<1>7. /\ \A k \in 1 .. Len(free) : Spare(cmds, free[k])
      /\ \A k, l \in 1 .. Len(free) : free[k] = free[l] => k = l
      /\ IsSequence(free)
  BY <1>2, FreeFacts
<1>8. Len(free) \in Nat /\ Len(slots) <= Len(free)
  BY <1>1, <1>2, <1>7, SequenceFacts
<1>9. DOMAIN tmp = {slots[k] : k \in 1 .. Len(slots)}
  BY <1>3, <1>6 DEF ToSet
<1>10. ASSUME NEW x \in DOMAIN tmp
       PROVE  \E k \in 1 .. Len(slots) : slots[k] = x /\ tmp[x] = free[k] /\ k \in 1 .. Len(free)
  <2>1. \E k \in DOMAIN slots : slots[k] = x
    BY <1>6, <1>9
  <2>2. PICK k : k = CHOOSE l \in DOMAIN slots : slots[l] = x
    OBVIOUS
  <2>3. k \in DOMAIN slots /\ slots[k] = x
    BY <2>1, <2>2
  <2>4. tmp[x] = free[k]
    BY <1>3, <2>2
  <2>5. k \in 1 .. Len(slots) /\ k \in 1 .. Len(free)
    BY <2>3, <1>6, <1>8
  <2>6. QED
    BY <2>3, <2>4, <2>5
<1>11. \A x \in DOMAIN tmp : IsSlot(cmd, x) /\ Spare(cmds, tmp[x])
  BY <1>5, <1>7, <1>10
<1>12. ASSUME NEW x \in DOMAIN tmp, NEW y \in DOMAIN tmp, tmp[x] = tmp[y]
       PROVE  x = y
  <2>1. PICK k \in 1 .. Len(slots) : slots[k] = x /\ tmp[x] = free[k] /\ k \in 1 .. Len(free)
    BY <1>10
  <2>2. PICK l \in 1 .. Len(slots) : slots[l] = y /\ tmp[y] = free[l] /\ l \in 1 .. Len(free)
    BY <1>10
  <2>3. QED
    BY <2>1, <2>2, <1>7, <1>12
<1>13. QED
  BY <1>1, <1>2, <1>4, <1>9, <1>11, <1>12

LEMMA ExpansionFacts ==
  ASSUME NEW cmd, IsSequence(cmd.operands), ~ IsLabel(cmd), NEW free
  PROVE  LET e == ExpandCommand(cmd, free)
             n == Len(ConstantSlots(cmd))
         IN /\ n \in Nat /\ IsSequence(e) /\ Len(e) = n + 1
            /\ \A k \in 1 .. n : e[k] = SetSlot(cmd, free, k)
            /\ e[n + 1] = Body(cmd, free)
<1>1. PICK slots : slots = ConstantSlots(cmd)
  OBVIOUS
<1>2. IsSequence(slots)
  BY <1>1, SlotFacts
<1>3. PICK n \in Nat : n = Len(slots) /\ DOMAIN slots = 1 .. n
  BY <1>2, SequenceFacts
<1>4. PICK sets : sets = [k \in 1 .. n |-> SetSlot(cmd, free, k)]
  OBVIOUS
<1>5. PICK body : body = Body(cmd, free)
  OBVIOUS
<1>6. PICK S : S = {sets[k] : k \in 1 .. n} \cup {body}
  OBVIOUS
<1>7. sets \in Seq(S) /\ Len(sets) = n
  <2>1. sets \in [1 .. n -> S]
    BY <1>4, <1>6
  <2>2. QED
    BY <2>1
<1>8. PICK last \in Seq(S) : last = << body >> /\ Len(last) = 1 /\ last[1] = body
  BY <1>6, Single
<1>9. PICK e : e = Cat(sets, last)
  OBVIOUS
<1>10. ExpandCommand(cmd, free) = e
  BY <1>1, <1>3, <1>4, <1>5, <1>8, <1>9
     DEF ExpandCommand, SetSlot, Body, Temporary, Cat
<1>11. /\ e \in Seq(S) /\ Len(e) = n + 1
       /\ \A j \in 1 .. n + 1 : e[j] = IF j <= n THEN sets[j] ELSE last[j - n]
  <2>1. /\ Cat(sets, last) \in Seq(S) /\ Len(Cat(sets, last)) = Len(sets) + Len(last)
        /\ \A j \in 1 .. Len(sets) + Len(last) :
             Cat(sets, last)[j] = IF j <= Len(sets) THEN sets[j] ELSE last[j - Len(sets)]
    BY <1>7, CatMembers
  <2>2. QED
    BY <1>7, <1>8, <1>9, <2>1
<1>12. \A k \in 1 .. n : e[k] = SetSlot(cmd, free, k)
  <2>1. \A k \in 1 .. n : k \in 1 .. n + 1 /\ k <= n /\ sets[k] = SetSlot(cmd, free, k)
    BY <1>4
  <2>2. QED
    BY <1>11, <2>1
<1>13. e[n + 1] = body
  <2>1. n + 1 \in 1 .. n + 1 /\ ~(n + 1 <= n) /\ (n + 1) - n = 1
    OBVIOUS
  <2>2. QED
    BY <1>8, <1>11, <2>1
<1>14. IsSequence(e)
  BY <1>11, SequenceOfAny
<1>15. QED
  BY <1>1, <1>3, <1>5, <1>10, <1>11, <1>12, <1>13, <1>14

-----------------------------------------------------------------------------
(* Which line of the subroutine each command becomes, and each label names. *)

Labels(q) == { i \in DOMAIN q : IsLabel(q[i]) }

\* An operand with its label replaced, where off counts the commands before each line of q.
Updated(q, off, op) ==
  IF op.kind = "label" /\ \E i \in Labels(q) : q[i].label = op.label
    THEN Immediate(off[(CHOOSE i \in Labels(q) : q[i].label = op.label) - 1])
    ELSE op

AssignedBy(q, n, asm, off) ==
  /\ Counts(q, n, off) /\ IsSequence(asm) /\ Len(asm) = off[n]
  /\ \A p \in 1 .. n : ~ IsLabel(q[p]) => asm[off[p - 1] + 1]
       = Cmd(q[p].mnemonic, [j \in DOMAIN q[p].operands |-> Updated(q, off, q[p].operands[j])])

LEMMA AssignedFacts ==
  ASSUME NEW q, IsSequence(q)
  PROVE  \E off : AssignedBy(q, Len(q), AssignBranchLabels(q), off)
<1>1. PICK n \in Nat : n = Len(q) /\ DOMAIN q = 1 .. n /\ q \in Seq(ToSet(q))
  BY SequenceFacts
<1>2. PICK off : Counts(q, n, off)
  BY <1>1, CommandsCounted
<1>3. \A p \in 1 .. n : Len(WithoutLabels(SubSeq(q, 1, p - 1))) = off[p - 1]
  BY <1>1, <1>2, CommandsBefore
<1> DEFINE line(i) == Len(WithoutLabels(SubSeq(q, 1, i - 1)))
           labels  == { i \in DOMAIN q : IsLabel(q[i]) }
           update(op) ==
             IF op.kind = "label" /\ \E i \in labels : q[i].label = op.label
               THEN Immediate(line(CHOOSE i \in labels : q[i].label = op.label))
               ELSE op
           updated(c) == IF IsLabel(c) THEN c
                         ELSE Cmd(c.mnemonic, [j \in DOMAIN c.operands |-> update(c.operands[j])])
<1>4. ASSUME NEW op
      PROVE  update(op) = Updated(q, off, op)
  <2>1. labels = Labels(q)
    BY DEF Labels
  <2>2. CASE op.kind = "label" /\ \E i \in labels : q[i].label = op.label
    <3>1. PICK c : c = CHOOSE i \in labels : q[i].label = op.label
      OBVIOUS
    <3>2. c \in 1 .. n
      BY <1>1, <2>2, <3>1
    <3>3. line(c) = off[c - 1]
      BY <1>3, <3>2
    <3> HIDE DEF line, labels
    <3>4. update(op) = Immediate(line(c))
      BY <2>2, <3>1
    <3>5. Updated(q, off, op) = Immediate(off[c - 1])
      BY <2>1, <2>2, <3>1 DEF Updated
    <3>6. QED
      BY <3>3, <3>4, <3>5
  <2> HIDE DEF line, labels
  <2>3. CASE ~(op.kind = "label" /\ \E i \in labels : q[i].label = op.label)
    <3>1. update(op) = op
      BY <2>3
    <3>2. Updated(q, off, op) = op
      BY <2>1, <2>3 DEF Updated
    <3>3. QED
      BY <3>1, <3>2
  <2>4. QED
    BY <2>2, <2>3
<1>5. PICK r : r = [i \in 1 .. n |-> updated(q[i])]
  OBVIOUS
<1>6. AssignBranchLabels(q) = WithoutLabels(r)
  BY <1>1, <1>5 DEF AssignBranchLabels
<1>7. ASSUME NEW p \in 1 .. n
      PROVE  /\ IsLabel(q[p]) <=> IsLabel(r[p])
             /\ ~ IsLabel(q[p]) =>
                  r[p] = Cmd(q[p].mnemonic, [j \in DOMAIN q[p].operands |-> Updated(q, off, q[p].operands[j])])
  <2>1. r[p] = updated(q[p])
    BY <1>5
  <2>2. CASE IsLabel(q[p])
    BY <2>1, <2>2
  <2>3. CASE ~ IsLabel(q[p])
    <3>1. r[p] = Cmd(q[p].mnemonic, [j \in DOMAIN q[p].operands |-> update(q[p].operands[j])])
      BY <2>1, <2>3
    <3> HIDE DEF update
    <3>2. [j \in DOMAIN q[p].operands |-> update(q[p].operands[j])]
            = [j \in DOMAIN q[p].operands |-> Updated(q, off, q[p].operands[j])]
      BY <1>4
    <3>3. r[p].mnemonic = q[p].mnemonic
      BY <3>1 DEF Cmd
    <3>4. ~ IsLabel(r[p])
      BY <2>3, <3>3 DEF IsLabel
    <3>5. QED
      BY <2>3, <3>1, <3>2, <3>4
  <2>4. QED
    BY <2>2, <2>3
<1> HIDE DEF updated, update, line, labels
<1>8. IsSequence(r) /\ Len(r) = n
  <2>1. DOMAIN r = 1 .. n /\ r = [i \in 1 .. n |-> r[i]]
    BY <1>5
  <2>2. QED
    BY <2>1, SequenceByPlaces
<1>9. r \in Seq(ToSet(r))
  BY <1>8, SequenceFacts
<1>10. PICK oth : /\ Counts(r, n, oth) /\ Len(WithoutLabels(r)) = oth[n]
                  /\ \A p \in 1 .. n : ~ IsLabel(r[p]) => WithoutLabels(r)[oth[p - 1] + 1] = r[p]
  BY <1>8, <1>9, CommandsCounted
<1>11. \A k \in 0 .. n : off[k] = oth[k]
  <2>1. \A k \in 0 .. n : k \in Nat /\ k <= n /\ \A p \in 1 .. k : p \in 1 .. n
    BY <1>1
  <2>2. ASSUME NEW k \in 0 .. n
        PROVE  off[k] = oth[k]
    <3>1. \A p \in 1 .. k : IsLabel(q[p]) <=> IsLabel(r[p])
      BY <1>7, <2>1
    <3>2. n \in Nat /\ k \in Nat /\ k <= n /\ Counts(q, n, off) /\ Counts(r, n, oth)
      BY <1>2, <1>10, <2>1
    <3> HIDE DEF updated, update, line, labels
    <3>3. QED
      BY ONLY <3>1, <3>2, CountsAgree
  <2>3. QED
    BY <2>2
<1>12. ASSUME NEW p \in 1 .. n, ~ IsLabel(q[p])
       PROVE  WithoutLabels(r)[off[p - 1] + 1]
                = Cmd(q[p].mnemonic, [j \in DOMAIN q[p].operands |-> Updated(q, off, q[p].operands[j])])
  <2>1. p - 1 \in 0 .. n
    BY <1>1
  <2>2. QED
    BY <2>1, <1>7, <1>10, <1>11, <1>12
<1>13. Len(WithoutLabels(r)) = off[n]
  BY <1>1, <1>10, <1>11
<1>14. IsSequence(WithoutLabels(r))
  <2>1. PICK S : S = ToSet(r)
    OBVIOUS
  <2>2. PICK part : part = [i \in 1 .. n |-> IF IsLabel(r[i]) THEN <<>> ELSE << r[i] >>]
    OBVIOUS
  <2>3. r \in Seq(S) /\ DOMAIN r = 1 .. n /\ \A i \in 1 .. n : r[i] \in S
    BY <1>8, <1>9, <2>1, SequenceFacts
  <2>4. \A i \in 1 .. n : << r[i] >> \in Seq(S) /\ <<>> \in Seq(S)
    BY <2>3
  <2>5. \A i \in 1 .. n : part[i] \in Seq(S)
    BY <2>2, <2>4
  <2>6. part \in [1 .. n -> Seq(S)]
    BY <2>2, <2>5
  <2>7. part \in Seq(Seq(S))
    BY <2>6, <1>1
  <2>8. WithoutLabels(r) = FlattenSeq(part)
    BY <2>2, <2>3 DEF WithoutLabels
  <2>9. QED
    BY <2>7, <2>8, FlattenTyped, SequenceOfAny
<1>15. AssignedBy(q, n, AssignBranchLabels(q), off)
  BY <1>2, <1>6, <1>12, <1>13, <1>14 DEF AssignedBy
<1>16. QED
  BY <1>1, <1>15


-----------------------------------------------------------------------------
(* Where the instructions of each command are.                             *)

Plain(cmd) == Cmd(cmd.mnemonic, Operands(cmd))

\* How many instructions a command becomes.
Size(cmd) == IF IsLabel(cmd) THEN 0 ELSE Len(ConstantSlots(Plain(cmd))) + 1

\* off holds how many instructions come before the end of each line.
Laid(s, off) ==
  /\ off \in [0 .. Len(s) -> Nat] /\ off[0] = 0
  /\ \A i \in 1 .. Len(s) : off[i] = off[i - 1] + Size(s[i])

Expanded(s, i) == ExpandCommand(Plain(s[i]), FreeRegisters(MakeArgsOperands(s)))

LEMMA PlainFacts ==
  ASSUME NEW cmd, ~ IsLabel(cmd), IsSequence(cmd.args), IsSequence(cmd.operands)
  PROVE  /\ IsSequence(Plain(cmd).operands) /\ Plain(cmd).operands = Operands(cmd)
         /\ Plain(cmd).mnemonic = cmd.mnemonic /\ ~ IsLabel(Plain(cmd))
<1>1. Plain(cmd).operands = Operands(cmd) /\ Plain(cmd).mnemonic = cmd.mnemonic
  BY DEF Plain, Cmd
<1>2. IsSequence(Operands(cmd))
  BY Joined DEF Operands
<1>3. QED
  BY <1>1, <1>2 DEF IsLabel

LEMMA ExpandedFacts ==
  ASSUME NEW s, Parsed(s), NEW i \in 1 .. Len(s), ~ IsLabel(s[i])
  PROVE  LET e == Expanded(s, i)
             free == FreeRegisters(MakeArgsOperands(s))
         IN /\ Size(s[i]) \in Nat \ {0} /\ IsSequence(e) /\ Len(e) = Size(s[i])
            /\ \A k \in 1 .. Size(s[i]) - 1 : e[k] = SetSlot(Plain(s[i]), free, k)
            /\ e[Size(s[i])] = Body(Plain(s[i]), free)
            /\ \A k \in 1 .. Size(s[i]) : ~ IsLabel(e[k])
<1>1. DOMAIN s = 1 .. Len(s)
  BY SequenceFacts DEF Parsed
<1>2. PICK cmd : cmd = Plain(s[i])
  OBVIOUS
<1>3. IsSequence(cmd.operands) /\ ~ IsLabel(cmd) /\ cmd.mnemonic # "label"
  BY <1>1, <1>2, PlainFacts DEF Parsed, IsLabel
<1>4. PICK free : free = FreeRegisters(MakeArgsOperands(s))
  OBVIOUS
<1>5. PICK e : e = Expanded(s, i)
  OBVIOUS
<1>6. PICK n \in Nat : /\ n = Len(ConstantSlots(cmd))
                       /\ IsSequence(e) /\ Len(e) = n + 1
                       /\ \A k \in 1 .. n : e[k] = SetSlot(cmd, free, k)
                       /\ e[n + 1] = Body(cmd, free)
  BY <1>2, <1>3, <1>4, <1>5, ExpansionFacts DEF Expanded
<1>7. Size(s[i]) = n + 1
  BY <1>2, <1>6 DEF Size
<1>8. ASSUME NEW k \in 1 .. n + 1
      PROVE  ~ IsLabel(e[k])
  <2>1. CASE k \in 1 .. n
    <3>1. SetSlot(cmd, free, k).mnemonic = "set"
      BY DEF SetSlot, Cmd
    <3>2. e[k].mnemonic = "set"
      BY <1>6, <2>1, <3>1
    <3>3. QED
      BY <3>2 DEF IsLabel
  <2>2. CASE k = n + 1
    <3>1. e[k].mnemonic = cmd.mnemonic
      BY <1>6, <2>2 DEF Body, Cmd
    <3>2. QED
      BY <3>1, <1>3 DEF IsLabel
  <2>3. QED
    BY <2>1, <2>2
<1>9. Size(s[i]) - 1 = n /\ Size(s[i]) \in Nat \ {0}
  BY <1>7
<1>10. /\ IsSequence(e) /\ Len(e) = Size(s[i])
       /\ \A k \in 1 .. Size(s[i]) - 1 : e[k] = SetSlot(cmd, free, k)
       /\ e[Size(s[i])] = Body(cmd, free)
       /\ \A k \in 1 .. Size(s[i]) : ~ IsLabel(e[k])
  BY <1>6, <1>7, <1>8, <1>9
<1>11. QED
  BY <1>2, <1>4, <1>5, <1>9, <1>10

LEMMA ReplacedFacts ==
  ASSUME NEW s, Parsed(s)
  PROVE  LET r == ReplaceConstants(MakeArgsOperands(s))
         IN /\ DOMAIN r = 1 .. Len(s) /\ Len(s) \in Nat /\ r = [i \in 1 .. Len(s) |-> r[i]]
            /\ \A i \in 1 .. Len(s) : /\ IsLabel(s[i]) => r[i] = << s[i] >>
                                      /\ ~ IsLabel(s[i]) => r[i] = Expanded(s, i)
                                      /\ IsSequence(r[i])
<1>1. DOMAIN s = 1 .. Len(s) /\ Len(s) \in Nat
  BY SequenceFacts DEF Parsed
<1>2. PICK cmds : cmds = MakeArgsOperands(s)
  OBVIOUS
<1>3. PICK free : free = FreeRegisters(cmds)
  OBVIOUS
<1>4. PICK r : r = ReplaceConstants(cmds)
  OBVIOUS
<1>5. /\ DOMAIN cmds = 1 .. Len(s)
      /\ \A i \in 1 .. Len(s) : /\ IsLabel(s[i]) => cmds[i] = s[i]
                                /\ ~ IsLabel(s[i]) => cmds[i] = Plain(s[i])
  BY <1>1, <1>2 DEF MakeArgsOperands, Plain, Operands
<1>6. r = [i \in 1 .. Len(s) |-> ExpandCommand(cmds[i], free)]
  BY <1>3, <1>4, <1>5 DEF ReplaceConstants
<1>7. ASSUME NEW i \in 1 .. Len(s)
      PROVE  /\ IsLabel(s[i]) => r[i] = << s[i] >>
             /\ ~ IsLabel(s[i]) => r[i] = Expanded(s, i)
             /\ IsSequence(r[i])
  <2>1. r[i] = ExpandCommand(cmds[i], free)
    BY <1>6
  <2>2. CASE IsLabel(s[i])
    <3>1. r[i] = << s[i] >>
      BY <1>5, <2>1, <2>2 DEF ExpandCommand
    <3>2. << s[i] >> \in Seq({s[i]})
      OBVIOUS
    <3>3. QED
      BY <2>2, <3>1, <3>2, SequenceOfAny
  <2>3. CASE ~ IsLabel(s[i])
    <3>1. r[i] = Expanded(s, i)
      BY <1>2, <1>3, <1>5, <2>1, <2>3 DEF Expanded
    <3>2. QED
      BY <2>3, <3>1, ExpandedFacts
  <2>4. QED
    BY <2>2, <2>3
<1>8. DOMAIN r = 1 .. Len(s) /\ r = [i \in 1 .. Len(s) |-> r[i]]
  BY <1>6
<1>9. QED
  BY <1>1, <1>2, <1>4, <1>7, <1>8


PlaceOf(s, joined, off, i) ==
  /\ off[i] = off[i - 1] + Len(s[i]) /\ off[i - 1] \in Nat /\ off[i] \in 0 .. Len(joined)
  /\ \A j \in 1 .. Len(s[i]) : off[i - 1] + j \in 1 .. Len(joined) /\ joined[off[i - 1] + j] = s[i][j]

LEMMA PlacesWithin ==
  ASSUME NEW s, Parts(s), NEW joined, NEW off, PlacedBy(s, joined, off), NEW i \in 1 .. Len(s)
  PROVE  PlaceOf(s, joined, off, i)
<1>1. Offsets(s, off) /\ Len(joined) = off[Len(s)]
  BY DEF PlacedBy
<1>2. i - 1 \in 0 .. Len(s) /\ i \in 0 .. Len(s) /\ Len(s) \in 0 .. Len(s) /\ i <= Len(s)
  BY DEF Parts
<1>3. off[i] = off[i - 1] + Len(s[i]) /\ off[i - 1] \in Nat /\ off[i] \in Nat /\ off[Len(s)] \in Nat
      /\ Len(s[i]) \in Nat
  BY <1>1, <1>2 DEF Offsets, Parts
<1>4. off[i] <= off[Len(s)]
  BY <1>1, <1>2, OffsetsGrow
<1>5. off[i] \in 0 .. Len(joined)
  BY <1>1, <1>3, <1>4
<1>6. \A j \in 1 .. Len(s[i]) : off[i - 1] + j \in 1 .. Len(joined)
  BY <1>1, <1>3, <1>4
<1>7. \A j \in 1 .. Len(s[i]) : joined[off[i - 1] + j] = s[i][j]
  BY DEF PlacedBy
<1>8. QED
  BY <1>3, <1>5, <1>6, <1>7 DEF PlaceOf

\* The same step for every line that is not a label.
Straight(q, a, l) == \A k \in 1 .. l : ~ IsLabel(q[a + k])

LEMMA CountsStraight ==
  ASSUME NEW q, NEW n \in Nat, NEW cnt, Counts(q, n, cnt), NEW a \in Nat, NEW l \in Nat, a + l <= n,
         Straight(q, a, l), NEW k \in 0 .. l
  PROVE  cnt[a + k] = cnt[a] + k
<1> DEFINE T == {x \in Nat : x <= l => cnt[a + x] = cnt[a] + x}
<1>0. cnt[a] \in Nat
  BY DEF Counts
<1>1. 0 \in T
  BY <1>0
<1>2. ASSUME NEW x \in Nat, x \in T
      PROVE  x + 1 \in T
  <2> SUFFICES ASSUME x + 1 <= l
               PROVE  cnt[a + (x + 1)] = cnt[a] + (x + 1)
    OBVIOUS
  <2>1. cnt[a + x] = cnt[a] + x
    BY <1>2
  <2>2. a + (x + 1) \in 1 .. n /\ x + 1 \in 1 .. l /\ (a + (x + 1)) - 1 = a + x
    OBVIOUS
  <2>3. cnt[a + (x + 1)] = cnt[a + x] + 1
    BY <2>2 DEF Counts, Straight
  <2>4. QED
    BY <1>0, <2>1, <2>3
<1> HIDE DEF T
<1>3. k \in T
  BY <1>1, <1>2, SetInduction
<1>4. QED
  BY <1>3 DEF T

LEMMA CountsGrow ==
  ASSUME NEW q, NEW n \in Nat, NEW cnt, Counts(q, n, cnt), NEW a \in 0 .. n
  PROVE  cnt[a] <= cnt[n]
<1> DEFINE T == {x \in Nat : a + x <= n => cnt[a] <= cnt[a + x]}
<1>1. 0 \in T
  BY DEF Counts
<1>2. ASSUME NEW x \in Nat, x \in T
      PROVE  x + 1 \in T
  <2> SUFFICES ASSUME a + (x + 1) <= n
               PROVE  cnt[a] <= cnt[a + (x + 1)]
    OBVIOUS
  <2>1. a + (x + 1) \in 1 .. n /\ a + x \in 0 .. n /\ (a + (x + 1)) - 1 = a + x /\ a + x <= n
    OBVIOUS
  <2>2. cnt[a] <= cnt[a + x]
    BY <1>2, <2>1
  <2>3. cnt[a + (x + 1)] = cnt[a + x] + (IF IsLabel(q[a + (x + 1)]) THEN 0 ELSE 1)
    BY <2>1 DEF Counts
  <2>4. cnt[a] \in Nat /\ cnt[a + x] \in Nat
    BY <2>1 DEF Counts
  <2>5. QED
    BY <2>2, <2>3, <2>4
<1> HIDE DEF T
<1>3. n - a \in Nat /\ a + (n - a) = n
  OBVIOUS
<1>4. n - a \in T
  BY <1>1, <1>2, <1>3, SetInduction
<1>5. QED
  BY <1>3, <1>4 DEF T

\* The subroutine has the instructions of each command where off says, with its labels replaced.
InPlace(s, off) ==
  /\ Laid(s, off) /\ IsSequence(Assembled(s)) /\ Len(Assembled(s)) = off[Len(s)]
  /\ \A i \in 1 .. Len(s) : ~ IsLabel(s[i]) => \A k \in 1 .. Size(s[i]) :
       LET c == Expanded(s, i)[k]
       IN  /\ off[i - 1] + k \in 1 .. Len(Assembled(s))
           /\ Assembled(s)[off[i - 1] + k]
                = [mnemonic |-> c.mnemonic,
                   operands |-> [j \in DOMAIN c.operands |-> Updated(s, off, c.operands[j])]]

\* assemble_subroutine lays the instructions of the commands one behind the other, and a
\* label becomes the place of the command after it (text.py, _replace_constants and
\* _assign_branch_labels, which both move lines while they walk over them).
THEOREM AssembledFacts ==
  ASSUME NEW s, Parsed(s), LabelsUnique(s)
  PROVE  \E off : InPlace(s, off)
<1>1. PICK n \in Nat : n = Len(s) /\ DOMAIN s = 1 .. n
  BY SequenceFacts DEF Parsed
<1>2. PICK r : r = ReplaceConstants(MakeArgsOperands(s))
  OBVIOUS
<1>3. /\ DOMAIN r = 1 .. n /\ r = [i \in 1 .. n |-> r[i]]
      /\ \A i \in 1 .. n : IsLabel(s[i]) => r[i] = << s[i] >>
      /\ \A i \in 1 .. n : ~ IsLabel(s[i]) => r[i] = Expanded(s, i)
      /\ \A i \in 1 .. n : IsSequence(r[i])
  BY <1>1, <1>2, ReplacedFacts
<1>4. PICK S : S = UNION {ToSet(r[i]) : i \in 1 .. n}
  OBVIOUS
<1>5. r \in Seq(Seq(S)) /\ Len(r) = n
  <2>1. ASSUME NEW i \in 1 .. n
        PROVE  r[i] \in Seq(S)
    <3>1. r[i] \in Seq(ToSet(r[i])) /\ ToSet(r[i]) \subseteq S
      BY <1>3, <1>4 DEF IsSequence
    <3> HIDE DEF ToSet
    <3>2. PICK P : P = ToSet(r[i])
      OBVIOUS
    <3>3. QED
      BY <3>1, <3>2
  <2>2. r \in [1 .. n -> Seq(S)]
    BY <1>3, <2>1
  <2>3. QED
    BY <2>2
<1>6. PICK f : f = FlattenSeq(r)
  OBVIOUS
<1>7. f \in Seq(S) /\ IsSequence(f)
  BY <1>5, <1>6, FlattenTyped, SequenceOfAny
<1>8. PICK one : PlacedBy(r, f, one)
  BY <1>5, <1>6, FlattenPlaces
<1>9. PICK m \in Nat : m = Len(f) /\ DOMAIN f = 1 .. m
  BY <1>7
<1>10. PICK asm : asm = AssignBranchLabels(f)
  OBVIOUS
<1>11. PICK cnt : /\ Counts(f, m, cnt) /\ IsSequence(asm) /\ Len(asm) = cnt[m]
                  /\ \A p \in 1 .. m : ~ IsLabel(f[p]) => asm[cnt[p - 1] + 1]
                       = Cmd(f[p].mnemonic, [j \in DOMAIN f[p].operands |-> Updated(f, cnt, f[p].operands[j])])
  <2>1. PICK x : AssignedBy(f, m, asm, x)
    BY <1>7, <1>9, <1>10, AssignedFacts
  <2>2. QED
    BY ONLY <2>1 DEF AssignedBy
<1>12. /\ cnt \in [0 .. m -> Nat] /\ cnt[0] = 0
       /\ \A p \in 1 .. m : cnt[p] = cnt[p - 1] + (IF IsLabel(f[p]) THEN 0 ELSE 1)
  BY <1>11 DEF Counts
<1>13. one[0] = 0 /\ one[n] = m /\ one \in [0 .. n -> Nat]
  BY <1>5, <1>8, <1>9 DEF PlacedBy, Offsets
<1>14. PICK off : off = [i \in 0 .. n |-> cnt[one[i]]]
  OBVIOUS
<1>15. ASSUME NEW i \in 1 .. n
       PROVE  /\ one[i] = one[i - 1] + Len(r[i]) /\ one[i - 1] \in Nat /\ one[i] \in 0 .. m
              /\ \A j \in 1 .. Len(r[i]) : one[i - 1] + j \in 1 .. m /\ f[one[i - 1] + j] = r[i][j]
              /\ Len(r[i]) \in Nat
              /\ off[i - 1] = cnt[one[i - 1]] /\ off[i] = cnt[one[i]]
  <2>1. Len(r) \in Nat /\ \A x \in 1 .. Len(r) : Len(r[x]) \in Nat
    BY <1>5
  <2>2. off[i - 1] = cnt[one[i - 1]] /\ off[i] = cnt[one[i]]
    BY <1>14
  <2>3. i \in 1 .. Len(r) /\ PlacedBy(r, f, one) /\ Parts(r)
    BY <1>5, <1>8, <2>1 DEF Parts
  <2>4. /\ one[i] = one[i - 1] + Len(r[i]) /\ one[i - 1] \in Nat /\ one[i] \in 0 .. Len(f)
        /\ \A j \in 1 .. Len(r[i]) : one[i - 1] + j \in 1 .. Len(f) /\ f[one[i - 1] + j] = r[i][j]
    <3>1. PlaceOf(r, f, one, i)
      BY ONLY <2>3, PlacesWithin
    <3>2. QED
      BY ONLY <3>1 DEF PlaceOf
  <2>5. QED
    BY <2>1, <2>2, <2>3, <2>4, <1>9
<1>16. ASSUME NEW i \in 1 .. n, IsLabel(s[i])
       PROVE  /\ one[i - 1] + 1 \in 1 .. m /\ f[one[i - 1] + 1] = s[i]
              /\ off[i] = off[i - 1] /\ Size(s[i]) = 0
  <2>1. r[i] = << s[i] >>
    BY <1>3, <1>16
  <2>2. Len(r[i]) = 1 /\ r[i][1] = s[i] /\ 1 \in 1 .. Len(r[i])
    BY <2>1
  <2>3. /\ one[i] = one[i - 1] + 1 /\ one[i - 1] \in Nat
        /\ one[i - 1] + 1 \in 1 .. m /\ f[one[i - 1] + 1] = s[i]
    BY <1>15, <2>2
  <2>4. cnt[one[i]] = cnt[one[i - 1]] + 0
    BY <1>12, <1>16, <2>3
  <2>5. cnt[one[i - 1]] \in Nat
    BY <1>12, <2>3
  <2>6. QED
    BY <1>15, <1>16, <2>3, <2>4, <2>5 DEF Size
<1>17. ASSUME NEW i \in 1 .. n, ~ IsLabel(s[i])
       PROVE  /\ Len(r[i]) = Size(s[i]) /\ Size(s[i]) \in Nat
              /\ \A k \in 1 .. Size(s[i]) : ~ IsLabel(r[i][k])
              /\ \A k \in 0 .. Size(s[i]) : cnt[one[i - 1] + k] = off[i - 1] + k
              /\ off[i] = off[i - 1] + Size(s[i])
  <2>1. PICK l \in Nat : l = Size(s[i]) /\ Len(r[i]) = l /\ \A k \in 1 .. l : ~ IsLabel(r[i][k])
    BY <1>1, <1>3, <1>17, ExpandedFacts
  <2>2. PICK a \in Nat : a = one[i - 1] /\ a + l <= m /\ one[i] = a + l
    BY <1>15, <2>1
  <2>3. Straight(f, a, l)
    BY <1>15, <2>1, <2>2 DEF Straight
  <2>4. ASSUME NEW k \in 0 .. l
        PROVE  cnt[a + k] = cnt[a] + k
    <3>1. Counts(f, m, cnt) /\ a + l <= m /\ m \in Nat /\ a \in Nat /\ l \in Nat /\ k \in 0 .. l
      BY <1>11, <2>2
    <3>2. QED
      BY ONLY <3>1, <2>3, CountsStraight
  <2>5. off[i - 1] = cnt[a] /\ off[i] = cnt[a + l]
    BY <1>15, <2>2
  <2>6. \A k \in 0 .. l : cnt[a + k] = off[i - 1] + k
    BY <2>4, <2>5
  <2>7. l \in 0 .. l
    OBVIOUS
  <2>8. off[i] = off[i - 1] + l
    BY <2>5, <2>6, <2>7
  <2>9. QED
    BY <2>1, <2>2, <2>6, <2>8
<1>18. Laid(s, off)
  <2>1. off \in [0 .. n -> Nat] /\ off[0] = 0
    <3>1. ASSUME NEW i \in 0 .. n
          PROVE  cnt[one[i]] \in Nat
      <4>1. one[i] \in 0 .. m
        <5>1. CASE i = 0
          BY <5>1, <1>13
        <5>2. CASE i \in 1 .. n
          BY <5>2, <1>15
        <5>3. QED
          BY <5>1, <5>2
      <4>2. QED
        BY <4>1, <1>12
    <3>2. QED
      BY <3>1, <1>12, <1>13, <1>14
  <2>2. ASSUME NEW i \in 1 .. n
        PROVE  off[i] = off[i - 1] + Size(s[i])
    <3>1. off[i - 1] \in Nat
      BY <2>1
    <3>2. CASE IsLabel(s[i])
      BY <1>16, <3>1, <3>2
    <3>3. CASE ~ IsLabel(s[i])
      BY <1>17, <3>3
    <3>4. QED
      BY <3>2, <3>3
  <2>3. QED
    BY <2>1, <2>2, <1>1 DEF Laid
<1>19. Len(asm) = off[n]
  BY <1>11, <1>13, <1>14
<1>20. ASSUME NEW op
       PROVE  Updated(f, cnt, op) = Updated(s, off, op)
  <2>1. ASSUME NEW p \in Labels(f)
        PROVE  \E i \in Labels(s) : p = one[i - 1] + 1 /\ f[p] = s[i]
    <3>1. p \in 1 .. one[Len(r)] /\ IsLabel(f[p])
      BY <2>1, <1>5, <1>9, <1>13 DEF Labels
    <3>2. Offsets(r, one) /\ Parts(r)
      BY <1>5, <1>8 DEF PlacedBy, Parts
    <3>3. PICK i \in 1 .. n : \E j \in 1 .. Len(r[i]) : p = one[i - 1] + j
      <4>1. \E i \in 1 .. Len(r) : \E j \in 1 .. Len(r[i]) : p = one[i - 1] + j
        BY ONLY <3>1, <3>2, OffsetsCover
      <4>2. QED
        BY <1>5, <4>1
    <3>4. PICK j \in 1 .. Len(r[i]) : p = one[i - 1] + j
      BY <3>3
    <3>5. f[p] = r[i][j]
      BY <1>15, <3>4
    <3>6. IsLabel(s[i])
      BY <1>17, <3>1, <3>4, <3>5
    <3>7. j = 1
      <4>1. r[i] = << s[i] >>
        BY <1>3, <3>6
      <4>2. Len(r[i]) = 1
        BY <4>1
      <4>3. QED
        BY <4>2
    <3>8. QED
      BY <1>1, <1>16, <3>4, <3>6, <3>7 DEF Labels
  <2>2. ASSUME NEW i \in Labels(s)
        PROVE  one[i - 1] + 1 \in Labels(f) /\ f[one[i - 1] + 1] = s[i]
    BY <2>2, <1>1, <1>9, <1>16 DEF Labels
  <2>3. CASE op.kind = "label" /\ \E i \in Labels(s) : s[i].label = op.label
    <3>1. PICK c : c = CHOOSE i \in Labels(s) : s[i].label = op.label
      OBVIOUS
    <3>2. c \in Labels(s) /\ s[c].label = op.label
      BY <2>3, <3>1
    <3>3. \E p \in Labels(f) : f[p].label = op.label
      BY <2>2, <3>2
    <3>4. PICK d : d = CHOOSE p \in Labels(f) : f[p].label = op.label
      OBVIOUS
    <3>5. d \in Labels(f) /\ f[d].label = op.label
      BY <3>3, <3>4
    <3>6. PICK i \in Labels(s) : d = one[i - 1] + 1 /\ f[d] = s[i]
      BY <2>1, <3>5
    <3>7. i = c /\ i \in 1 .. n
      BY <1>1, <3>2, <3>5, <3>6 DEF LabelsUnique, Labels
    <3>8. cnt[d - 1] = off[c - 1]
      <4>1. one[c - 1] \in Nat /\ off[c - 1] = cnt[one[c - 1]]
        BY <1>15, <3>7
      <4>2. d - 1 = one[c - 1]
        BY <4>1, <3>6, <3>7
      <4>3. QED
        BY <4>1, <4>2
    <3>9. Updated(f, cnt, op) = Immediate(cnt[d - 1])
      BY <2>3, <3>3, <3>4 DEF Updated
    <3>10. Updated(s, off, op) = Immediate(off[c - 1])
      BY <2>3, <3>1 DEF Updated
    <3>11. QED
      BY <3>8, <3>9, <3>10
  <2>4. CASE ~(op.kind = "label" /\ \E i \in Labels(s) : s[i].label = op.label)
    <3>1. ~(op.kind = "label" /\ \E p \in Labels(f) : f[p].label = op.label)
      BY <2>1, <2>4
    <3>2. QED
      BY <2>4, <3>1 DEF Updated
  <2>5. QED
    BY <2>3, <2>4
<1>21. PICK out : out = Assembled(s)
  OBVIOUS
<1>22. out = [p \in DOMAIN asm |-> [mnemonic |-> asm[p].mnemonic, operands |-> asm[p].operands]]
  BY <1>2, <1>6, <1>10, <1>21 DEF Assembled, BuildSubroutine
<1>23. PICK l \in Nat : l = Len(asm) /\ DOMAIN asm = 1 .. l
  BY <1>11, SequenceFacts
<1>24. IsSequence(out) /\ Len(out) = l
  <2>1. DOMAIN out = 1 .. l /\ out = [p \in 1 .. l |-> out[p]]
    BY <1>22, <1>23
  <2>2. QED
    BY <2>1, SequenceByPlaces
<1>25. ASSUME NEW i \in 1 .. n, ~ IsLabel(s[i]), NEW k \in 1 .. Size(s[i])
       PROVE  LET c == Expanded(s, i)[k]
              IN  /\ off[i - 1] + k \in 1 .. l
                  /\ out[off[i - 1] + k]
                         = [mnemonic |-> c.mnemonic,
                            operands |-> [j \in DOMAIN c.operands |-> Updated(s, off, c.operands[j])]]
  <2>1. PICK c : c = Expanded(s, i)[k]
    OBVIOUS
  <2>2. PICK p : p = one[i - 1] + k
    OBVIOUS
  <2>3. Size(s[i]) \in Nat /\ Len(r[i]) = Size(s[i]) /\ ~ IsLabel(r[i][k]) /\ r[i][k] = c
    BY <1>3, <1>17, <1>25, <2>1
  <2>4. p \in 1 .. m /\ f[p] = c /\ one[i - 1] \in Nat
    BY <1>15, <2>2, <2>3
  <2>5. k - 1 \in 0 .. Size(s[i]) /\ one[i - 1] + (k - 1) = p - 1 /\ k \in 0 .. Size(s[i])
    <3>1. PICK z \in Nat : z = Size(s[i])
      BY <2>3
    <3>2. PICK b \in Nat : b = one[i - 1]
      BY <2>4
    <3>3. k \in 1 .. z /\ p = b + k
      BY <2>2, <3>1, <3>2
    <3>4. k - 1 \in 0 .. z /\ b + (k - 1) = p - 1 /\ k \in 0 .. z
      BY ONLY <3>3, z \in Nat, b \in Nat
    <3>5. QED
      BY ONLY <3>1, <3>2, <3>4
  <2>6. cnt[p - 1] = off[i - 1] + (k - 1) /\ cnt[p] = off[i - 1] + k
    BY <1>17, <1>25, <2>2, <2>5
  <2>7. off[i - 1] \in Nat /\ off[n] \in Nat
    BY <1>1, <1>18 DEF Laid
  <2>8. asm[off[i - 1] + k]
          = Cmd(c.mnemonic, [j \in DOMAIN c.operands |-> Updated(f, cnt, c.operands[j])])
    <3>1. cnt[p - 1] + 1 = off[i - 1] + k
      BY <2>6, <2>7
    <3>2. QED
      BY <3>1, <1>11, <2>3, <2>4
  <2>9. [j \in DOMAIN c.operands |-> Updated(f, cnt, c.operands[j])]
          = [j \in DOMAIN c.operands |-> Updated(s, off, c.operands[j])]
    BY <1>20
  <2>10. PICK ops : ops = [j \in DOMAIN c.operands |-> Updated(s, off, c.operands[j])]
    OBVIOUS
  <2>11. asm[off[i - 1] + k].mnemonic = c.mnemonic /\ asm[off[i - 1] + k].operands = ops
    BY <2>8, <2>9, <2>10 DEF Cmd
  <2>12. off[i - 1] + k \in 1 .. l
    <3>1. off[i - 1] + k <= off[i]
      BY <1>17, <1>25, <2>3, <2>7
    <3>2. off[i] <= off[n]
      <4>0. n \in 0 .. n
        OBVIOUS
      <4>1. one[i] \in 0 .. m /\ cnt[one[i]] = off[i] /\ cnt[m] = off[n]
        BY <4>0, <1>13, <1>14, <1>15
      <4>2. QED
        BY <4>1, <1>9, <1>12, <1>11, CountsGrow
    <3>3. QED
      BY <3>1, <3>2, <1>19, <1>23, <2>7, <1>17, <1>25
  <2>13. QED
    BY <1>22, <1>23, <2>1, <2>10, <2>11, <2>12
<1>26. InPlace(s, off)
  BY <1>1, <1>18, <1>19, <1>21, <1>23, <1>24, <1>25 DEF InPlace
<1>27. QED
  BY <1>26


LEMMA OffsetsAgree ==
  ASSUME NEW s, Len(s) \in Nat, NEW off, Offsets(s, off), NEW oth, Offsets(s, oth), NEW i \in 0 .. Len(s)
  PROVE  off[i] = oth[i]
<1> DEFINE T == {n \in Nat : n <= Len(s) => off[n] = oth[n]}
<1>1. 0 \in T
  BY DEF Offsets
<1>2. ASSUME NEW n \in Nat, n \in T
      PROVE  n + 1 \in T
  <2> SUFFICES ASSUME n + 1 <= Len(s)
               PROVE  off[n + 1] = oth[n + 1]
    OBVIOUS
  <2>1. n + 1 \in 1 .. Len(s) /\ (n + 1) - 1 = n /\ off[n] = oth[n]
    BY <1>2
  <2>2. off[n + 1] = off[n] + Len(s[n + 1]) /\ oth[n + 1] = oth[n] + Len(s[n + 1])
    BY <2>1 DEF Offsets
  <2>3. QED
    BY <2>1, <2>2
<1> HIDE DEF T
<1>3. Nat \subseteq T
  BY ONLY <1>1, <1>2, SetInduction
<1>4. i \in T
  BY <1>3
<1>5. QED
  BY <1>4 DEF T

\* The instructions of each command come from it, and every instruction is one of them.
Traced(s, off) ==
  /\ Len(Origins(s)) = off[Len(s)]
  /\ \A i \in 1 .. Len(s) : \A k \in 1 .. Size(s[i]) :
       off[i - 1] + k \in 1 .. off[Len(s)] /\ Origins(s)[off[i - 1] + k] = i
  /\ \A p \in 1 .. off[Len(s)] : \E i \in 1 .. Len(s) : \E k \in 1 .. Size(s[i]) : p = off[i - 1] + k
  /\ \A i \in 1 .. Len(s) : off[i] <= off[Len(s)]

LEMMA OriginsFacts ==
  ASSUME NEW s, Parsed(s), NEW off, Laid(s, off)
  PROVE  Traced(s, off)
<1>1. PICK n \in Nat : n = Len(s) /\ DOMAIN s = 1 .. n
  BY SequenceFacts DEF Parsed
<1>2. PICK r : r = ReplaceConstants(MakeArgsOperands(s))
  OBVIOUS
<1>3. PICK part : part = [i \in 1 .. n |-> IF IsLabel(s[i]) THEN <<>> ELSE [k \in DOMAIN r[i] |-> i]]
  OBVIOUS
<1>4. PICK out : out = FlattenSeq(part)
  OBVIOUS
<1>5. Origins(s) = out
  BY <1>1, <1>2, <1>3, <1>4 DEF Origins
<1>6. ASSUME NEW i \in 1 .. n
      PROVE  /\ part[i] \in Seq(1 .. n) /\ Size(s[i]) \in Nat /\ Len(part[i]) = Size(s[i])
             /\ \A k \in 1 .. Size(s[i]) : part[i][k] = i
  <2>1. CASE IsLabel(s[i])
    <3>1. part[i] = <<>> /\ Size(s[i]) = 0
      BY <1>3, <2>1 DEF Size
    <3>2. QED
      BY <3>1
  <2>2. CASE ~ IsLabel(s[i])
    <3>1. part[i] = [k \in DOMAIN r[i] |-> i]
      BY <1>3, <2>2
    <3>2. r[i] = Expanded(s, i)
      BY <1>1, <1>2, <2>2, ReplacedFacts
    <3>3. PICK l \in Nat : l = Size(s[i]) /\ IsSequence(r[i]) /\ Len(r[i]) = l
      BY <1>1, <2>2, <3>2, ExpandedFacts
    <3>4. part[i] = [k \in 1 .. l |-> i]
      BY <3>1, <3>3, SequenceFacts
    <3>5. QED
      BY <3>3, <3>4
  <2>3. QED
    BY <2>1, <2>2
<1>7. part \in Seq(Seq(1 .. n)) /\ Len(part) = n
  <2>1. part \in [1 .. n -> Seq(1 .. n)]
    BY <1>3, <1>6
  <2>2. QED
    BY <2>1
<1>8. PICK oth : PlacedBy(part, out, oth)
  BY <1>4, <1>7, FlattenPlaces
<1>9. Offsets(part, oth) /\ Len(part) \in Nat /\ Parts(part)
  BY <1>6, <1>7, <1>8 DEF PlacedBy, Parts
<1>10. Offsets(part, off)
  BY <1>1, <1>6, <1>7 DEF Laid, Offsets
<1>11. \A i \in 0 .. n : oth[i] = off[i]
  BY <1>7, <1>9, <1>10, OffsetsAgree
<1>12. n \in 0 .. n /\ \A i \in 1 .. n : i \in 0 .. n /\ i - 1 \in 0 .. n
  OBVIOUS
<1>13. Len(out) = off[n]
  BY <1>7, <1>8, <1>11, <1>12 DEF PlacedBy
<1>14. ASSUME NEW i \in 1 .. n, NEW k \in 1 .. Size(s[i])
       PROVE  off[i - 1] + k \in 1 .. off[n] /\ out[off[i - 1] + k] = i
  <2>1. i \in 1 .. Len(part) /\ k \in 1 .. Len(part[i]) /\ part[i][k] = i /\ oth[i - 1] = off[i - 1]
    BY <1>6, <1>7, <1>11, <1>12
  <2>2. \A x \in 1 .. Len(part[i]) :
          oth[i - 1] + x \in 1 .. Len(out) /\ out[oth[i - 1] + x] = part[i][x]
    <3>1. i \in 1 .. Len(part) /\ PlacedBy(part, out, oth)
      BY <1>8, <2>1
    <3>2. PlaceOf(part, out, oth, i)
      BY <1>9, <3>1, PlacesWithin
    <3>3. QED
      BY <3>2 DEF PlaceOf
  <2>3. oth[i - 1] + k \in 1 .. Len(out) /\ out[oth[i - 1] + k] = part[i][k]
    BY <2>1, <2>2
  <2>4. QED
    BY <2>1, <2>3, <1>13
<1>15. ASSUME NEW p \in 1 .. off[n]
       PROVE  \E i \in 1 .. n : \E k \in 1 .. Size(s[i]) : p = off[i - 1] + k
  <2>1. p \in 1 .. off[Len(part)]
    BY <1>7
  <2>2. PICK i \in 1 .. Len(part) : \E k \in 1 .. Len(part[i]) : p = off[i - 1] + k
    BY <2>1, <1>9, <1>10, OffsetsCover
  <2>3. QED
    BY <2>2, <1>6, <1>7
<1>16. \A i \in 1 .. n : off[i] <= off[n]
  <2>1. ASSUME NEW i \in 1 .. n
        PROVE  off[i] <= off[n]
    <3>1. i \in 0 .. Len(part) /\ Len(part) \in 0 .. Len(part) /\ i <= Len(part)
      BY <1>7
    <3>2. off[i] <= off[Len(part)]
      BY <3>1, <1>9, <1>10, OffsetsGrow
    <3>3. QED
      BY <3>2, <1>7
  <2>2. QED
    BY <2>1
<1>17. QED
  BY <1>1, <1>5, <1>13, <1>14, <1>15, <1>16 DEF Traced

-----------------------------------------------------------------------------
(* From a line to the command that is done there.                          *)

LEMMA LabelsTakeNoPlace ==
  ASSUME NEW s, Len(s) \in Nat, NEW off, Laid(s, off), NEW i \in 1 .. Len(s) + 1,
         NEW j \in i .. Len(s) + 1, \A k \in i .. j - 1 : IsLabel(s[k])
  PROVE  off[j - 1] = off[i - 1]
<1> DEFINE T == {n \in Nat : i + n <= j => off[(i + n) - 1] = off[i - 1]}
<1>1. 0 \in T
  OBVIOUS
<1>2. ASSUME NEW n \in Nat, n \in T
      PROVE  n + 1 \in T
  <2> SUFFICES ASSUME i + (n + 1) <= j
               PROVE  off[(i + (n + 1)) - 1] = off[i - 1]
    OBVIOUS
  <2>1. (i + (n + 1)) - 1 = i + n /\ i + n \in i .. j - 1 /\ i + n \in 1 .. Len(s) /\ i + n <= j
    OBVIOUS
  <2>2. off[(i + n) - 1] = off[i - 1]
    BY <1>2, <2>1
  <2>3. off[i + n] = off[(i + n) - 1] + 0 /\ off[(i + n) - 1] \in Nat
    <3>1. off[i + n] = off[(i + n) - 1] + Size(s[i + n]) /\ off[(i + n) - 1] \in Nat
      BY <2>1 DEF Laid
    <3>2. Size(s[i + n]) = 0
      BY <2>1 DEF Size
    <3>3. QED
      BY <3>1, <3>2
  <2>4. QED
    BY <2>1, <2>2, <2>3
<1> HIDE DEF T
<1>3. j - i \in Nat /\ i + (j - i) = j
  OBVIOUS
<1>4. j - i \in T
  BY <1>1, <1>2, <1>3, SetInduction
<1>5. QED
  BY <1>3, <1>4 DEF T

LEMMA NextFacts ==
  ASSUME NEW s, Len(s) \in Nat, NEW i \in 1 .. Len(s) + 1
  PROVE  LET j == Program!NextCommand(s, i)
         IN /\ j \in i .. Len(s) + 1
            /\ j # Len(s) + 1 => j \in 1 .. Len(s) /\ ~ IsLabel(s[j])
            /\ \A k \in i .. j - 1 : IsLabel(s[k])
<1>1. PICK n \in Nat : n = Len(s)
  OBVIOUS
<1>2. PICK j : j = Program!NextCommand(s, i)
  OBVIOUS
<1>3. CASE \E l \in i .. n : ~ IsLabel(s[l])
  <2> DEFINE T == {l \in i .. n : ~ IsLabel(s[l])}
  <2>1. T \subseteq Nat /\ T # {}
    BY <1>3, <1>1
  <2>2. PICK l \in T : \A y \in T : l <= y
    BY <2>1, LeastNatural
  <2>3. \A k \in i .. l - 1 : IsLabel(s[k])
    BY <2>2, <1>1
  <2>4. \E x \in i .. n : ~ IsLabel(s[x]) /\ \A k \in i .. x - 1 : IsLabel(s[k])
    BY <2>2, <2>3
  <2>5. j = CHOOSE x \in i .. n : ~ IsLabel(s[x]) /\ \A k \in i .. x - 1 : IsLabel(s[k])
    BY <1>1, <1>2, <1>3 DEF Program!NextCommand, Program!IsLabel, IsLabel
  <2>6. j \in i .. n /\ ~ IsLabel(s[j]) /\ \A k \in i .. j - 1 : IsLabel(s[k])
    BY <2>4, <2>5
  <2>7. QED
    BY <1>1, <1>2, <2>6
<1>4. CASE \A l \in i .. n : IsLabel(s[l])
  <2>1. j = n + 1
    BY <1>1, <1>2, <1>4 DEF Program!NextCommand, Program!IsLabel, IsLabel
  <2>2. QED
    BY <1>1, <1>2, <1>4, <2>1
<1>5. QED
  BY <1>3, <1>4

\* The place of a line is that of the command after it, and no instruction of that
\* command comes before.
LEMMA NextIsPlaced ==
  ASSUME NEW s, Parsed(s), NEW off, Laid(s, off), NEW i \in 1 .. Len(s) + 1
  PROVE  LET j == Program!NextCommand(s, i)
             p == off[i - 1]
         IN /\ p \in 0 .. off[Len(s)] /\ off[j - 1] = p
            /\ p = off[Len(s)] => j = Len(s) + 1
            /\ p # off[Len(s)] => j \in 1 .. Len(s) /\ ~ IsLabel(s[j]) /\ Origins(s)[p + 1] = j
            /\ p # off[Len(s)] /\ p # 0 => Origins(s)[p] # Origins(s)[p + 1]
<1>1. PICK n \in Nat : n = Len(s) /\ DOMAIN s = 1 .. n
  BY SequenceFacts DEF Parsed
<1>2. PICK j : j = Program!NextCommand(s, i)
  OBVIOUS
<1>3. /\ j \in i .. n + 1
      /\ j # n + 1 => j \in 1 .. n /\ ~ IsLabel(s[j])
      /\ \A k \in i .. j - 1 : IsLabel(s[k])
  BY <1>1, <1>2, NextFacts
<1>4. off[j - 1] = off[i - 1]
  BY <1>1, <1>3, LabelsTakeNoPlace
<1>5. off \in [0 .. n -> Nat] /\ off[0] = 0 /\ \A l \in 1 .. n : off[l] = off[l - 1] + Size(s[l])
  BY <1>1 DEF Laid
<1>6. /\ \A l \in 1 .. n : \A k \in 1 .. Size(s[l]) :
            off[l - 1] + k \in 1 .. off[n] /\ Origins(s)[off[l - 1] + k] = l
      /\ \A p \in 1 .. off[n] : \E l \in 1 .. n : \E k \in 1 .. Size(s[l]) : p = off[l - 1] + k
      /\ \A l \in 1 .. n : off[l] <= off[n]
  <2>1. Traced(s, off)
    BY OriginsFacts
  <2>2. QED
    BY <1>1, <2>1 DEF Traced
<1>7. PICK p : p = off[i - 1]
  OBVIOUS
<1>8. i - 1 \in 0 .. n /\ p \in Nat /\ off[n] \in Nat
  BY <1>1, <1>5, <1>7
<1>9. p <= off[n]
  <2>1. CASE i = 1
    BY <2>1, <1>5, <1>7, <1>8
  <2>2. CASE i # 1
    BY <2>2, <1>1, <1>6, <1>7
  <2>3. QED
    BY <2>1, <2>2
<1>10. ASSUME j \in 1 .. n, ~ IsLabel(s[j])
       PROVE  p + 1 \in 1 .. off[n] /\ Origins(s)[p + 1] = j
  <2>1. 1 \in 1 .. Size(s[j])
    BY <1>1, <1>10, ExpandedFacts
  <2>2. QED
    BY <2>1, <1>4, <1>6, <1>7, <1>10
<1>11. p = off[n] => j = n + 1
  BY <1>3, <1>8, <1>10
<1>12. ASSUME p # off[n], p # 0
       PROVE  Origins(s)[p] # Origins(s)[p + 1]
  <2>1. j \in 1 .. n /\ Origins(s)[p + 1] = j
    BY <1>3, <1>4, <1>7, <1>10, <1>12
  <2>2. p \in 1 .. off[n]
    BY <1>8, <1>9, <1>12
  <2>3. PICK l \in 1 .. n : \E k \in 1 .. Size(s[l]) : p = off[l - 1] + k
    BY <2>2, <1>6
  <2>4. PICK k \in 1 .. Size(s[l]) : p = off[l - 1] + k
    BY <2>3
  <2>5. Origins(s)[p] = l
    BY <2>4, <1>6
  <2>6. l # j
    <3>1. SUFFICES ASSUME l = j
                   PROVE  FALSE
      OBVIOUS
    <3>2. off[l - 1] = p /\ p \in Nat
      BY <3>1, <1>4, <1>7, <1>8
    <3>3. k \in Int /\ k >= 1
      BY <2>4
    <3>4. QED
      BY <3>2, <3>3, <2>4
  <2>7. QED
    BY <2>1, <2>5, <2>6
<1>13. p # off[n] => j \in 1 .. n /\ ~ IsLabel(s[j]) /\ Origins(s)[p + 1] = j
  BY <1>3, <1>4, <1>7, <1>10
<1>14. p \in 0 .. off[n]
  BY <1>8, <1>9
<1>15. QED
  BY <1>1, <1>2, <1>4, <1>7, <1>11, <1>12, <1>13, <1>14


-----------------------------------------------------------------------------
(* What the node controller reads is what was assembled.                   *)

LEMMA KeptFits ==
  ASSUME NEW field \in DOMAIN Fitting, NEW op, FieldKeeps(field, op)
  PROVE  op \in Fitting[field]
<1>1. \A r : KeepsRegister(r) => r \in Registers
  BY DEF KeepsRegister, Registers, Indices
<1>2. \A v : IsInt32(v) => v \in Int32
  BY SMT DEF IsInt32, Int32
<1>3. field \in {"reg", "imm", "int", "addr", "entry", "slice"}
  BY DEF Fitting
<1>4. CASE field = "reg"
  BY <1>1, <1>4, SMT DEF Fitting, FieldKeeps
<1>5. CASE field = "imm"
  BY <1>5, SMT DEF Fitting, FieldKeeps, Byte
<1>6. CASE field = "int"
  BY <1>2, <1>6, SMT DEF Fitting, FieldKeeps
<1>7. CASE field = "addr"
  BY <1>2, <1>7, SMT DEF Fitting, FieldKeeps
<1>8. CASE field = "entry"
  BY <1>1, <1>2, <1>8, SMT DEF Fitting, FieldKeeps
<1>9. CASE field = "slice"
  BY <1>1, <1>2, <1>9, SMT DEF Fitting, FieldKeeps
<1>10. QED
  BY <1>3, <1>4, <1>5, <1>6, <1>7, <1>8, <1>9

LEMMA BuiltFacts ==
  ASSUME NEW s, CanAssemble(s), NEW p \in DOMAIN Assembled(s)
  PROVE  /\ HasName(VanillaFlavour, Assembled(s)[p].mnemonic)
         /\ FromOperands(GetInstrByName(VanillaFlavour, Assembled(s)[p].mnemonic), Assembled(s)[p].operands)
<1>1. PICK asm : asm = AssignBranchLabels(FlattenSeq(ReplaceConstants(MakeArgsOperands(s))))
  OBVIOUS
<1>2. CanBuild(asm)
  BY <1>1 DEF CanAssemble
<1>3. Assembled(s) = [i \in DOMAIN asm |-> [mnemonic |-> asm[i].mnemonic, operands |-> asm[i].operands]]
  BY <1>1 DEF Assembled, BuildSubroutine
<1>4. p \in DOMAIN asm /\ Assembled(s)[p].mnemonic = asm[p].mnemonic
      /\ Assembled(s)[p].operands = asm[p].operands
  BY <1>3
<1>5. QED
  BY <1>2, <1>4 DEF CanBuild

LEMMA ExpandedOperands ==
  ASSUME NEW s, Parsed(s), NEW i \in 1 .. Len(s), ~ IsLabel(s[i]), NEW k \in 1 .. Size(s[i])
  PROVE  \E n \in Nat : DOMAIN Expanded(s, i)[k].operands = 1 .. n
<1>1. PICK cmd : cmd = Plain(s[i])
  OBVIOUS
<1>2. PICK free : free = FreeRegisters(MakeArgsOperands(s))
  OBVIOUS
<1>3. DOMAIN s = 1 .. Len(s)
  BY SequenceFacts DEF Parsed
<1>4. IsSequence(cmd.operands)
  BY <1>1, <1>3, PlainFacts DEF Parsed
<1>5. PICK e : e = Expanded(s, i)
  OBVIOUS
<1>6. PICK m \in Nat : /\ m = Size(s[i]) /\ \A x \in 1 .. m - 1 : e[x] = SetSlot(cmd, free, x)
                       /\ e[m] = Body(cmd, free)
  BY <1>1, <1>2, <1>5, ExpandedFacts
<1>7. CASE k = m
  <2>1. e[k].operands
          = [j \in DOMAIN cmd.operands |-> FillSlots(j, cmd.operands[j], Temporary(cmd, free))]
    BY <1>6, <1>7 DEF Body, Cmd
  <2>2. PICK n \in Nat : DOMAIN cmd.operands = 1 .. n
    BY <1>4, SequenceFacts
  <2>3. DOMAIN e[k].operands = 1 .. n
    BY <2>1, <2>2
  <2>4. QED
    BY <1>5, <2>3
<1>8. CASE k # m
  <2>1. e[k] = SetSlot(cmd, free, k)
    BY <1>6, <1>8
  <2>2. \E a, b : SetSlot(cmd, free, k).operands = << a, b >>
    BY DEF SetSlot, Cmd
  <2>3. PICK a, b : e[k].operands = << a, b >>
    BY <2>1, <2>2
  <2>4. DOMAIN e[k].operands = 1 .. 2
    BY <2>3
  <2>5. QED
    BY <1>5, <2>4
<1>9. QED
  BY <1>7, <1>8

LEMMA AssembledOperands ==
  ASSUME NEW s, Parsed(s), NEW off, InPlace(s, off), NEW p \in DOMAIN Assembled(s)
  PROVE  \E n \in Nat : DOMAIN Assembled(s)[p].operands = 1 .. n /\ Len(Assembled(s)[p].operands) = n
<1>1. Laid(s, off) /\ IsSequence(Assembled(s)) /\ Len(Assembled(s)) = off[Len(s)]
  BY DEF InPlace
<1>2. PICK out : out = Assembled(s)
  OBVIOUS
<1>3. p \in 1 .. off[Len(s)]
  BY <1>1, SequenceFacts
<1>4. Traced(s, off)
  BY <1>1, OriginsFacts
<1>5. PICK i \in 1 .. Len(s) : \E k \in 1 .. Size(s[i]) : p = off[i - 1] + k
  BY <1>3, <1>4 DEF Traced
<1>6. PICK k \in 1 .. Size(s[i]) : p = off[i - 1] + k
  BY <1>5
<1>7. ~ IsLabel(s[i])
  <2>1. SUFFICES ASSUME IsLabel(s[i])
                 PROVE  FALSE
    OBVIOUS
  <2>2. Size(s[i]) = 0
    BY <2>1 DEF Size
  <2>3. QED
    BY <1>6, <2>2
<1>8. PICK c : c = Expanded(s, i)[k]
  OBVIOUS
<1>9. out[p] = [mnemonic |-> c.mnemonic,
                operands |-> [j \in DOMAIN c.operands |-> Updated(s, off, c.operands[j])]]
  BY <1>2, <1>6, <1>7, <1>8 DEF InPlace
<1>10. PICK n \in Nat : DOMAIN c.operands = 1 .. n
  BY <1>7, <1>8, ExpandedOperands
<1>11. PICK ops : ops = [j \in 1 .. n |-> Updated(s, off, c.operands[j])]
  OBVIOUS
<1>12. out[p].operands = ops
  BY <1>9, <1>10, <1>11
<1>13. DOMAIN ops = 1 .. n /\ ops = [j \in 1 .. n |-> ops[j]]
  BY <1>11
<1>14. Len(ops) = n
  BY <1>13, SequenceByPlaces
<1>15. QED
  BY <1>2, <1>12, <1>13, <1>14

\* The node controller reads back the instructions that the host has sent: those of
\* assemble_subroutine, with their templates filled in (encoding.py, parsing/binary.py).
THEOREM CodeIsReadBack ==
  ASSUME SourcesAreWellWritten, NEW s \in Sources, NEW a \in Arguments, CanAssemble(s)
  PROVE  DeserializeSubroutine(VanillaFlavour, SubroutineBytes(VanillaFlavour, Instantiate(Assembled(s), a)))
           = Instantiate(Assembled(s), a)
<1>1. Parsed(s) /\ LabelsUnique(s)
  BY DEF SourcesAreWellWritten, CanAssemble
<1>2. PICK off : InPlace(s, off)
  BY <1>1, AssembledFacts
<1>3. PICK out : out = Assembled(s)
  OBVIOUS
<1>4. PICK ins : ins = Instantiate(out, a)
  OBVIOUS
<1> DEFINE value(op) == IF op.kind = "template" THEN Immediate(a[op.template]) ELSE op
<1>5. ins = [i \in DOMAIN out |->
              [mnemonic |-> out[i].mnemonic,
               operands |-> [j \in DOMAIN out[i].operands |-> value(out[i].operands[j])]]]
  BY <1>4 DEF Instantiate
<1> HIDE DEF value
<1>6. \A i \in DOMAIN out : FitsItsFields(ins[i])
  BY <1>3, <1>4 DEF SourcesAreWellWritten
<1>7. ASSUME NEW i \in DOMAIN ins
      PROVE  Encodable(VanillaFlavour, ins[i])
             /\ ins[i] = [mnemonic |-> ins[i].mnemonic, operands |-> ins[i].operands]
  <2>1. PICK ops : ops = ins[i].operands
    OBVIOUS
  <2>2. i \in DOMAIN out /\ ins[i].mnemonic = out[i].mnemonic
        /\ ops = [j \in DOMAIN out[i].operands |-> value(out[i].operands[j])]
    BY <1>5, <2>1
  <2>3. PICK n \in Nat : DOMAIN out[i].operands = 1 .. n /\ Len(out[i].operands) = n
    BY <1>1, <1>2, <1>3, <2>2, AssembledOperands
  <2>4. PICK layout : layout = GetInstrByName(VanillaFlavour, ins[i].mnemonic).layout
    OBVIOUS
  <2>5. HasName(VanillaFlavour, ins[i].mnemonic) /\ Len(layout) = n
    <3>1. /\ HasName(VanillaFlavour, out[i].mnemonic)
          /\ FromOperands(GetInstrByName(VanillaFlavour, out[i].mnemonic), out[i].operands)
      BY <1>3, <2>2, BuiltFacts
    <3>2. QED
      BY <3>1, <2>2, <2>3, <2>4 DEF FromOperands
  <2>6. ins[i].mnemonic # "meas_basis" /\ \A j \in DOMAIN layout : FieldKeeps(layout[j], ops[j])
    BY <1>6, <2>1, <2>2, <2>4 DEF FitsItsFields
  <2>7. layout \in Seq(DOMAIN Fitting) /\ DOMAIN layout = 1 .. n
    <3>1. layout \in Seq(DOMAIN Fitting)
      BY <2>4, <2>5, <2>6, ClassesAreFound
    <3>2. QED
      BY <3>1, <2>5
  <2>8. \A j \in 1 .. n : ops[j] \in Fitting[layout[j]] /\ layout[j] \in DOMAIN Fitting
    <3>1. \A j \in 1 .. n : layout[j] \in DOMAIN Fitting
      BY <2>7
    <3>2. QED
      BY <2>6, <2>7, <3>1, KeptFits
  <2>9. DOMAIN ops = 1 .. n /\ ops = [j \in 1 .. n |-> ops[j]]
    BY <2>2, <2>3
  <2>10. ops \in Seq(UNION { Fitting[field] : field \in DOMAIN Fitting })
    <3>1. PICK S : S = UNION { Fitting[field] : field \in DOMAIN Fitting }
      OBVIOUS
    <3>2. \A j \in 1 .. n : ops[j] \in S
      BY <2>8, <3>1
    <3>3. ops \in [1 .. n -> S]
      BY <2>9, <3>2
    <3>4. QED
      BY <3>1, <3>3
  <2>11. OperandsFit(layout, ops)
    BY <2>7, <2>8, <2>9, <2>10 DEF OperandsFit
  <2>12. QED
    BY <1>5, <2>1, <2>2, <2>4, <2>5, <2>6, <2>11 DEF Encodable
<1>8. DeserializeSubroutine(VanillaFlavour, SubroutineBytes(VanillaFlavour, ins))
        = [i \in DOMAIN ins |-> [mnemonic |-> ins[i].mnemonic, operands |-> ins[i].operands]]
  BY <1>7, SubroutinesAreReadBack
<1>9. ins = [i \in DOMAIN ins |-> ins[i]]
  BY <1>5
<1>10. ins = [i \in DOMAIN ins |-> [mnemonic |-> ins[i].mnemonic, operands |-> ins[i].operands]]
  BY <1>7, <1>9
<1>11. QED
  BY <1>3, <1>4, <1>8, <1>10



-----------------------------------------------------------------------------
(* A machine and what the source program sees of it.                       *)

Fields == {"regs", "arrays", "shared", "live", "returned", "unit", "coins", "quantum",
           "requests", "pairs", "pc", "status"}

IsMachine(m) == m = [x \in Fields |-> m[x]]

Kept(regs, N) == [r \in DOMAIN regs \cap N |-> regs[r]]

View(m, N, q) == [m EXCEPT !.pc = q, !.regs = [r \in DOMAIN @ \cap N |-> @[r]]]

\* v is m with the registers in N, where m is at pc and v is at q.
Mirror(N, pc, q, m, v) == IsMachine(m) /\ m.pc = pc /\ v = View(m, N, q)

LEMMA MirrorFields ==
  ASSUME NEW N, NEW pc, NEW q, NEW m, NEW v, Mirror(N, pc, q, m, v)
  PROVE  /\ IsMachine(m) /\ IsMachine(v) /\ m.pc = pc /\ v.pc = q /\ v.regs = Kept(m.regs, N)
         /\ v.arrays = m.arrays /\ v.shared = m.shared /\ v.live = m.live
         /\ v.returned = m.returned /\ v.unit = m.unit /\ v.coins = m.coins
         /\ v.quantum = m.quantum /\ v.requests = m.requests /\ v.pairs = m.pairs
         /\ v.status = m.status
BY DEF Mirror, View, Kept, IsMachine, Fields

LEMMA MirrorBy ==
  ASSUME NEW N, NEW m, NEW v, NEW pc, NEW q, m.pc = pc, v.pc = q,
         IsMachine(m), IsMachine(v), v.regs = Kept(m.regs, N),
         v.arrays = m.arrays, v.shared = m.shared, v.live = m.live,
         v.returned = m.returned, v.unit = m.unit, v.coins = m.coins,
         v.quantum = m.quantum, v.requests = m.requests, v.pairs = m.pairs,
         v.status = m.status
  PROVE  Mirror(N, pc, q, m, v)
<1>1. PICK w : w = View(m, N, q)
  OBVIOUS
<1>2. IsMachine(w) /\ w.pc = v.pc /\ w.regs = Kept(m.regs, N)
         /\ w.arrays = m.arrays /\ w.shared = m.shared /\ w.live = m.live
         /\ w.returned = m.returned /\ w.unit = m.unit /\ w.coins = m.coins
         /\ w.quantum = m.quantum /\ w.requests = m.requests /\ w.pairs = m.pairs
         /\ w.status = m.status
  BY <1>1 DEF View, Kept, IsMachine, Fields
<1>3. \A x \in Fields : v[x] = w[x]
  BY <1>2 DEF Fields
<1>4. v = [x \in Fields |-> v[x]] /\ w = [x \in Fields |-> w[x]]
  BY <1>2 DEF IsMachine
<1>5. v = w
  BY <1>3, <1>4
<1>6. QED
  BY <1>1, <1>5 DEF Mirror

LEMMA Machine0Typed ==
  ASSUME NEW c
  PROVE  IsMachine(Machine0(c)) /\ Machine0(c).pc = 0 /\ Machine0(c).status = "running"
         /\ Machine0(c).regs = <<>>
<1>1. PICK m : m = Machine0(c)
  OBVIOUS
<1>2. IsMachine(m)
  BY <1>1 DEF Machine0, IsMachine, Fields
<1>3. QED
  BY <1>1, <1>2 DEF Machine0

LEMMA StatusMirrors ==
  ASSUME NEW N, NEW pc, NEW q, NEW m, NEW v, Mirror(N, pc, q, m, v), NEW x
  PROVE  Mirror(N, pc, q, [m EXCEPT !.status = x], [v EXCEPT !.status = x])
<1>1. PICK h : h = [m EXCEPT !.status = x]
  OBVIOUS
<1>2. PICK g : g = [v EXCEPT !.status = x]
  OBVIOUS
<1>0. IsMachine(m) /\ m.pc = pc /\ IsMachine(v) /\ v.pc = q
  BY MirrorFields
<1>3. IsMachine(h) /\ h.pc = pc
  BY <1>0, <1>1 DEF IsMachine, Fields
<1>4. IsMachine(g) /\ g.pc = q
  BY <1>0, <1>2 DEF IsMachine, Fields
<1>5. /\ g.regs = Kept(h.regs, N)
      /\ g.arrays = h.arrays /\ g.shared = h.shared /\ g.live = h.live
      /\ g.returned = h.returned /\ g.unit = h.unit /\ g.coins = h.coins
      /\ g.quantum = h.quantum /\ g.requests = h.requests /\ g.pairs = h.pairs
      /\ g.status = h.status
  BY <1>1, <1>2, MirrorFields DEF IsMachine, Fields
<1>6. Mirror(N, pc, q, h, g)
  BY <1>3, <1>4, <1>5, MirrorBy
<1>7. QED
  BY <1>1, <1>2, <1>6

LEMMA ArraysMirror ==
  ASSUME NEW N, NEW pc, NEW q, NEW m, NEW v, Mirror(N, pc, q, m, v), NEW x, NEW y
  PROVE  Mirror(N, pc, q, [m EXCEPT !.arrays = x, !.shared = y], [v EXCEPT !.arrays = x, !.shared = y])
<1>1. PICK h : h = [m EXCEPT !.arrays = x, !.shared = y]
  OBVIOUS
<1>2. PICK g : g = [v EXCEPT !.arrays = x, !.shared = y]
  OBVIOUS
<1>0. IsMachine(m) /\ m.pc = pc /\ IsMachine(v) /\ v.pc = q
  BY MirrorFields
<1>3. IsMachine(h) /\ h.pc = pc
  BY <1>0, <1>1 DEF IsMachine, Fields
<1>4. IsMachine(g) /\ g.pc = q
  BY <1>0, <1>2 DEF IsMachine, Fields
<1>5. /\ g.regs = Kept(h.regs, N)
      /\ g.arrays = h.arrays /\ g.shared = h.shared /\ g.live = h.live
      /\ g.returned = h.returned /\ g.unit = h.unit /\ g.coins = h.coins
      /\ g.quantum = h.quantum /\ g.requests = h.requests /\ g.pairs = h.pairs
      /\ g.status = h.status
  BY <1>1, <1>2, MirrorFields DEF IsMachine, Fields
<1>6. Mirror(N, pc, q, h, g)
  BY <1>3, <1>4, <1>5, MirrorBy
<1>7. QED
  BY <1>1, <1>2, <1>6

LEMMA NewArrayMirrors ==
  ASSUME NEW N, NEW pc, NEW q, NEW m, NEW v, Mirror(N, pc, q, m, v), NEW x, NEW y
  PROVE  Mirror(N, pc, q, [m EXCEPT !.arrays = x, !.live = y], [v EXCEPT !.arrays = x, !.live = y])
<1>1. PICK h : h = [m EXCEPT !.arrays = x, !.live = y]
  OBVIOUS
<1>2. PICK g : g = [v EXCEPT !.arrays = x, !.live = y]
  OBVIOUS
<1>0. IsMachine(m) /\ m.pc = pc /\ IsMachine(v) /\ v.pc = q
  BY MirrorFields
<1>3. IsMachine(h) /\ h.pc = pc
  BY <1>0, <1>1 DEF IsMachine, Fields
<1>4. IsMachine(g) /\ g.pc = q
  BY <1>0, <1>2 DEF IsMachine, Fields
<1>5. /\ g.regs = Kept(h.regs, N)
      /\ g.arrays = h.arrays /\ g.shared = h.shared /\ g.live = h.live
      /\ g.returned = h.returned /\ g.unit = h.unit /\ g.coins = h.coins
      /\ g.quantum = h.quantum /\ g.requests = h.requests /\ g.pairs = h.pairs
      /\ g.status = h.status
  BY <1>1, <1>2, MirrorFields DEF IsMachine, Fields
<1>6. Mirror(N, pc, q, h, g)
  BY <1>3, <1>4, <1>5, MirrorBy
<1>7. QED
  BY <1>1, <1>2, <1>6

LEMMA SharedMirrors ==
  ASSUME NEW N, NEW pc, NEW q, NEW m, NEW v, Mirror(N, pc, q, m, v), NEW x, NEW y
  PROVE  Mirror(N, pc, q, [m EXCEPT !.shared = x, !.live = y], [v EXCEPT !.shared = x, !.live = y])
<1>1. PICK h : h = [m EXCEPT !.shared = x, !.live = y]
  OBVIOUS
<1>2. PICK g : g = [v EXCEPT !.shared = x, !.live = y]
  OBVIOUS
<1>0. IsMachine(m) /\ m.pc = pc /\ IsMachine(v) /\ v.pc = q
  BY MirrorFields
<1>3. IsMachine(h) /\ h.pc = pc
  BY <1>0, <1>1 DEF IsMachine, Fields
<1>4. IsMachine(g) /\ g.pc = q
  BY <1>0, <1>2 DEF IsMachine, Fields
<1>5. /\ g.regs = Kept(h.regs, N)
      /\ g.arrays = h.arrays /\ g.shared = h.shared /\ g.live = h.live
      /\ g.returned = h.returned /\ g.unit = h.unit /\ g.coins = h.coins
      /\ g.quantum = h.quantum /\ g.requests = h.requests /\ g.pairs = h.pairs
      /\ g.status = h.status
  BY <1>1, <1>2, MirrorFields DEF IsMachine, Fields
<1>6. Mirror(N, pc, q, h, g)
  BY <1>3, <1>4, <1>5, MirrorBy
<1>7. QED
  BY <1>1, <1>2, <1>6

LEMMA ReturnedMirrors ==
  ASSUME NEW N, NEW pc, NEW q, NEW m, NEW v, Mirror(N, pc, q, m, v), NEW x
  PROVE  Mirror(N, pc, q, [m EXCEPT !.returned = x], [v EXCEPT !.returned = x])
<1>1. PICK h : h = [m EXCEPT !.returned = x]
  OBVIOUS
<1>2. PICK g : g = [v EXCEPT !.returned = x]
  OBVIOUS
<1>0. IsMachine(m) /\ m.pc = pc /\ IsMachine(v) /\ v.pc = q
  BY MirrorFields
<1>3. IsMachine(h) /\ h.pc = pc
  BY <1>0, <1>1 DEF IsMachine, Fields
<1>4. IsMachine(g) /\ g.pc = q
  BY <1>0, <1>2 DEF IsMachine, Fields
<1>5. /\ g.regs = Kept(h.regs, N)
      /\ g.arrays = h.arrays /\ g.shared = h.shared /\ g.live = h.live
      /\ g.returned = h.returned /\ g.unit = h.unit /\ g.coins = h.coins
      /\ g.quantum = h.quantum /\ g.requests = h.requests /\ g.pairs = h.pairs
      /\ g.status = h.status
  BY <1>1, <1>2, MirrorFields DEF IsMachine, Fields
<1>6. Mirror(N, pc, q, h, g)
  BY <1>3, <1>4, <1>5, MirrorBy
<1>7. QED
  BY <1>1, <1>2, <1>6

LEMMA UnitMirrors ==
  ASSUME NEW N, NEW pc, NEW q, NEW m, NEW v, Mirror(N, pc, q, m, v), NEW x
  PROVE  Mirror(N, pc, q, [m EXCEPT !.unit = x], [v EXCEPT !.unit = x])
<1>1. PICK h : h = [m EXCEPT !.unit = x]
  OBVIOUS
<1>2. PICK g : g = [v EXCEPT !.unit = x]
  OBVIOUS
<1>0. IsMachine(m) /\ m.pc = pc /\ IsMachine(v) /\ v.pc = q
  BY MirrorFields
<1>3. IsMachine(h) /\ h.pc = pc
  BY <1>0, <1>1 DEF IsMachine, Fields
<1>4. IsMachine(g) /\ g.pc = q
  BY <1>0, <1>2 DEF IsMachine, Fields
<1>5. /\ g.regs = Kept(h.regs, N)
      /\ g.arrays = h.arrays /\ g.shared = h.shared /\ g.live = h.live
      /\ g.returned = h.returned /\ g.unit = h.unit /\ g.coins = h.coins
      /\ g.quantum = h.quantum /\ g.requests = h.requests /\ g.pairs = h.pairs
      /\ g.status = h.status
  BY <1>1, <1>2, MirrorFields DEF IsMachine, Fields
<1>6. Mirror(N, pc, q, h, g)
  BY <1>3, <1>4, <1>5, MirrorBy
<1>7. QED
  BY <1>1, <1>2, <1>6

LEMMA UnitQuantumMirrors ==
  ASSUME NEW N, NEW pc, NEW q, NEW m, NEW v, Mirror(N, pc, q, m, v), NEW x, NEW y
  PROVE  Mirror(N, pc, q, [m EXCEPT !.unit = x, !.quantum = y], [v EXCEPT !.unit = x, !.quantum = y])
<1>1. PICK h : h = [m EXCEPT !.unit = x, !.quantum = y]
  OBVIOUS
<1>2. PICK g : g = [v EXCEPT !.unit = x, !.quantum = y]
  OBVIOUS
<1>0. IsMachine(m) /\ m.pc = pc /\ IsMachine(v) /\ v.pc = q
  BY MirrorFields
<1>3. IsMachine(h) /\ h.pc = pc
  BY <1>0, <1>1 DEF IsMachine, Fields
<1>4. IsMachine(g) /\ g.pc = q
  BY <1>0, <1>2 DEF IsMachine, Fields
<1>5. /\ g.regs = Kept(h.regs, N)
      /\ g.arrays = h.arrays /\ g.shared = h.shared /\ g.live = h.live
      /\ g.returned = h.returned /\ g.unit = h.unit /\ g.coins = h.coins
      /\ g.quantum = h.quantum /\ g.requests = h.requests /\ g.pairs = h.pairs
      /\ g.status = h.status
  BY <1>1, <1>2, MirrorFields DEF IsMachine, Fields
<1>6. Mirror(N, pc, q, h, g)
  BY <1>3, <1>4, <1>5, MirrorBy
<1>7. QED
  BY <1>1, <1>2, <1>6

LEMMA QuantumMirrors ==
  ASSUME NEW N, NEW pc, NEW q, NEW m, NEW v, Mirror(N, pc, q, m, v), NEW x
  PROVE  Mirror(N, pc, q, [m EXCEPT !.quantum = x], [v EXCEPT !.quantum = x])
<1>1. PICK h : h = [m EXCEPT !.quantum = x]
  OBVIOUS
<1>2. PICK g : g = [v EXCEPT !.quantum = x]
  OBVIOUS
<1>0. IsMachine(m) /\ m.pc = pc /\ IsMachine(v) /\ v.pc = q
  BY MirrorFields
<1>3. IsMachine(h) /\ h.pc = pc
  BY <1>0, <1>1 DEF IsMachine, Fields
<1>4. IsMachine(g) /\ g.pc = q
  BY <1>0, <1>2 DEF IsMachine, Fields
<1>5. /\ g.regs = Kept(h.regs, N)
      /\ g.arrays = h.arrays /\ g.shared = h.shared /\ g.live = h.live
      /\ g.returned = h.returned /\ g.unit = h.unit /\ g.coins = h.coins
      /\ g.quantum = h.quantum /\ g.requests = h.requests /\ g.pairs = h.pairs
      /\ g.status = h.status
  BY <1>1, <1>2, MirrorFields DEF IsMachine, Fields
<1>6. Mirror(N, pc, q, h, g)
  BY <1>3, <1>4, <1>5, MirrorBy
<1>7. QED
  BY <1>1, <1>2, <1>6

LEMMA CoinsQuantumMirrors ==
  ASSUME NEW N, NEW pc, NEW q, NEW m, NEW v, Mirror(N, pc, q, m, v), NEW x, NEW y
  PROVE  Mirror(N, pc, q, [m EXCEPT !.coins = x, !.quantum = y], [v EXCEPT !.coins = x, !.quantum = y])
<1>1. PICK h : h = [m EXCEPT !.coins = x, !.quantum = y]
  OBVIOUS
<1>2. PICK g : g = [v EXCEPT !.coins = x, !.quantum = y]
  OBVIOUS
<1>0. IsMachine(m) /\ m.pc = pc /\ IsMachine(v) /\ v.pc = q
  BY MirrorFields
<1>3. IsMachine(h) /\ h.pc = pc
  BY <1>0, <1>1 DEF IsMachine, Fields
<1>4. IsMachine(g) /\ g.pc = q
  BY <1>0, <1>2 DEF IsMachine, Fields
<1>5. /\ g.regs = Kept(h.regs, N)
      /\ g.arrays = h.arrays /\ g.shared = h.shared /\ g.live = h.live
      /\ g.returned = h.returned /\ g.unit = h.unit /\ g.coins = h.coins
      /\ g.quantum = h.quantum /\ g.requests = h.requests /\ g.pairs = h.pairs
      /\ g.status = h.status
  BY <1>1, <1>2, MirrorFields DEF IsMachine, Fields
<1>6. Mirror(N, pc, q, h, g)
  BY <1>3, <1>4, <1>5, MirrorBy
<1>7. QED
  BY <1>1, <1>2, <1>6

LEMMA RequestsMirror ==
  ASSUME NEW N, NEW pc, NEW q, NEW m, NEW v, Mirror(N, pc, q, m, v), NEW x
  PROVE  Mirror(N, pc, q, [m EXCEPT !.requests = x], [v EXCEPT !.requests = x])
<1>1. PICK h : h = [m EXCEPT !.requests = x]
  OBVIOUS
<1>2. PICK g : g = [v EXCEPT !.requests = x]
  OBVIOUS
<1>0. IsMachine(m) /\ m.pc = pc /\ IsMachine(v) /\ v.pc = q
  BY MirrorFields
<1>3. IsMachine(h) /\ h.pc = pc
  BY <1>0, <1>1 DEF IsMachine, Fields
<1>4. IsMachine(g) /\ g.pc = q
  BY <1>0, <1>2 DEF IsMachine, Fields
<1>5. /\ g.regs = Kept(h.regs, N)
      /\ g.arrays = h.arrays /\ g.shared = h.shared /\ g.live = h.live
      /\ g.returned = h.returned /\ g.unit = h.unit /\ g.coins = h.coins
      /\ g.quantum = h.quantum /\ g.requests = h.requests /\ g.pairs = h.pairs
      /\ g.status = h.status
  BY <1>1, <1>2, MirrorFields DEF IsMachine, Fields
<1>6. Mirror(N, pc, q, h, g)
  BY <1>3, <1>4, <1>5, MirrorBy
<1>7. QED
  BY <1>1, <1>2, <1>6

LEMMA KeptSetItem ==
  ASSUME NEW regs, NEW N, NEW r, NEW x
  PROVE  /\ r \in N => Kept(SetItem(regs, r, x), N) = SetItem(Kept(regs, N), r, x)
         /\ r \notin N => Kept(SetItem(regs, r, x), N) = Kept(regs, N)
BY DEF Kept, SetItem

LEMMA RegisterMirrors ==
  ASSUME NEW N, NEW pc, NEW q, NEW m, NEW v, Mirror(N, pc, q, m, v), NEW r \in N, NEW x
  PROVE  Mirror(N, pc, q, SetRegister(m, r, x), SetRegister(v, r, x))
<1>1. PICK h : h = SetRegister(m, r, x)
  OBVIOUS
<1>2. PICK g : g = SetRegister(v, r, x)
  OBVIOUS
<1>3. PICK a : a = SetItem(m.regs, r, x)
  OBVIOUS
<1>4. PICK b : b = SetItem(v.regs, r, x)
  OBVIOUS
<1>5. h = [m EXCEPT !.regs = a] /\ g = [v EXCEPT !.regs = b]
  BY <1>1, <1>2, <1>3, <1>4 DEF SetRegister
<1>6. b = Kept(a, N)
  BY <1>3, <1>4, MirrorFields, KeptSetItem
<1>7. /\ IsMachine(h) /\ IsMachine(g) /\ h.regs = a /\ g.regs = b
      /\ g.arrays = h.arrays /\ g.shared = h.shared /\ g.live = h.live
      /\ g.returned = h.returned /\ g.unit = h.unit /\ g.coins = h.coins
      /\ g.quantum = h.quantum /\ g.requests = h.requests /\ g.pairs = h.pairs
      /\ g.status = h.status /\ h.pc = pc /\ g.pc = q
  BY <1>5, MirrorFields DEF IsMachine, Fields
<1>8. Mirror(N, pc, q, h, g)
  BY <1>6, <1>7, MirrorBy
<1>9. QED
  BY <1>1, <1>2, <1>8

LEMMA RaiseMirrors ==
  ASSUME NEW N, NEW pc, NEW q, NEW m, NEW v, Mirror(N, pc, q, m, v)
  PROVE  Mirror(N, pc, q, Raise(m), Raise(v))
BY StatusMirrors DEF Raise

\* A register that the source program names has the value it sees.
LEMMA NamedValue ==
  ASSUME NEW N, NEW pc, NEW q, NEW m, NEW v, Mirror(N, pc, q, m, v), NEW r \in N
  PROVE  GetRegister(v, r) = GetRegister(m, r)
<1>1. v.regs = Kept(m.regs, N)
  BY MirrorFields
<1>2. QED
  BY <1>1 DEF GetRegister, Kept

-----------------------------------------------------------------------------
(* Each handler does the same to both.                                     *)

SameEntry(m, v, e, f) == e.addr = f.addr /\ Val(m, e.index) = Val(v, f.index)

SameSlice(m, v, e, f) ==
  e.addr = f.addr /\ Val(m, e.start) = Val(v, f.start) /\ Val(m, e.stop) = Val(v, f.stop)

LEMMA EntryReadSame ==
  ASSUME NEW N, NEW pc, NEW q, NEW m, NEW v, Mirror(N, pc, q, m, v),
         NEW e, NEW f, SameEntry(m, v, e, f)
  PROVE  GetArrayEntry(v, f) = GetArrayEntry(m, e)
<1>1. v.arrays = m.arrays
  BY MirrorFields
<1>2. QED
  BY <1>1 DEF GetArrayEntry, InArray, SameEntry

LEMMA PutArrayMirrors ==
  ASSUME NEW N, NEW pc, NEW q, NEW m, NEW v, Mirror(N, pc, q, m, v), NEW addr, NEW list
  PROVE  Mirror(N, pc, q, PutArray(m, addr, list), PutArray(v, addr, list))
<1>1. v.arrays = m.arrays /\ v.live = m.live /\ v.shared = m.shared
  BY MirrorFields
<1>2. PICK x : x = SetItem(m.arrays, addr, list)
  OBVIOUS
<1>3. PICK y : y = IF addr \in m.live THEN SetItem(m.shared, addr, list) ELSE m.shared
  OBVIOUS
<1>4. PutArray(m, addr, list) = [m EXCEPT !.arrays = x, !.shared = y]
  BY <1>2, <1>3 DEF PutArray
<1>5. PutArray(v, addr, list) = [v EXCEPT !.arrays = x, !.shared = y]
  BY <1>1, <1>2, <1>3 DEF PutArray
<1>6. Mirror(N, pc, q, [m EXCEPT !.arrays = x, !.shared = y], [v EXCEPT !.arrays = x, !.shared = y])
  BY ArraysMirror
<1>7. QED
  BY <1>4, <1>5, <1>6

LEMMA EntryWriteMirrors ==
  ASSUME NEW N, NEW pc, NEW q, NEW m, NEW v, Mirror(N, pc, q, m, v),
         NEW e, NEW f, SameEntry(m, v, e, f), NEW x
  PROVE  Mirror(N, pc, q, SetArrayEntry(m, e, x), SetArrayEntry(v, f, x))
<1>1. v.arrays = m.arrays /\ f.addr = e.addr /\ Val(v, f.index) = Val(m, e.index)
  BY MirrorFields DEF SameEntry
<1>2. PICK addr : addr = e.addr
  OBVIOUS
<1>3. PICK i : i = Val(m, e.index)
  OBVIOUS
<1>4. PICK list : list = [m.arrays[addr] EXCEPT ![Position(m.arrays[addr], i)] = x]
  OBVIOUS
<1>5. InArray(v, addr, i) <=> InArray(m, addr, i)
  BY <1>1 DEF InArray
<1>6. CASE InArray(m, addr, i)
  <2>1. SetArrayEntry(m, e, x) = PutArray(m, addr, list)
    BY <1>2, <1>3, <1>4, <1>6 DEF SetArrayEntry
  <2>2. SetArrayEntry(v, f, x) = PutArray(v, addr, list)
    BY <1>1, <1>2, <1>3, <1>4, <1>5, <1>6 DEF SetArrayEntry
  <2>3. QED
    BY <2>1, <2>2, PutArrayMirrors
<1>7. CASE ~ InArray(m, addr, i)
  <2>1. SetArrayEntry(m, e, x) = Raise(m)
    BY <1>2, <1>3, <1>7 DEF SetArrayEntry
  <2>2. SetArrayEntry(v, f, x) = Raise(v)
    BY <1>1, <1>2, <1>3, <1>5, <1>7 DEF SetArrayEntry
  <2>3. QED
    BY <2>1, <2>2, RaiseMirrors
<1>8. QED
  BY <1>6, <1>7

LEMMA SetMirrors ==
  ASSUME NEW N, NEW pc, NEW q, NEW m, NEW v, Mirror(N, pc, q, m, v), NEW o, NEW p,
         o[1] = p[1], p[1] \in N, o[2].value = p[2].value
  PROVE  /\ Mirror(N, pc, q, InstrSet(m, o), InstrSet(v, p))
         /\ Mirror(N, pc, q, InstrLea(m, o), InstrLea(v, p))
BY RegisterMirrors DEF InstrSet, InstrLea

LEMMA StoreMirrors ==
  ASSUME NEW N, NEW pc, NEW q, NEW m, NEW v, Mirror(N, pc, q, m, v), NEW o, NEW p,
         Val(m, o[1]) = Val(v, p[1]), SameEntry(m, v, o[2], p[2])
  PROVE  Mirror(N, pc, q, InstrStore(m, o), InstrStore(v, p))
<1>1. PICK x : x = Val(m, o[1])
  OBVIOUS
<1>2. CASE x = None
  BY <1>1, <1>2, RaiseMirrors DEF InstrStore
<1>3. CASE x # None
  <2>1. InstrStore(m, o) = SetArrayEntry(m, o[2], x) /\ InstrStore(v, p) = SetArrayEntry(v, p[2], x)
    BY <1>1, <1>3 DEF InstrStore
  <2>2. QED
    BY <2>1, EntryWriteMirrors
<1>4. QED
  BY <1>2, <1>3

LEMMA LoadMirrors ==
  ASSUME NEW N, NEW pc, NEW q, NEW m, NEW v, Mirror(N, pc, q, m, v), NEW o, NEW p,
         o[1] = p[1], p[1] \in N, SameEntry(m, v, o[2], p[2])
  PROVE  Mirror(N, pc, q, InstrLoad(m, o), InstrLoad(v, p))
<1>1. PICK x : x = GetArrayEntry(m, o[2])
  OBVIOUS
<1>2. GetArrayEntry(v, p[2]) = x
  BY <1>1, EntryReadSame
<1>3. CASE x = None
  BY <1>1, <1>2, <1>3, RaiseMirrors DEF InstrLoad
<1>4. CASE x # None
  BY <1>1, <1>2, <1>4, RegisterMirrors DEF InstrLoad
<1>5. QED
  BY <1>3, <1>4

LEMMA UndefMirrors ==
  ASSUME NEW N, NEW pc, NEW q, NEW m, NEW v, Mirror(N, pc, q, m, v), NEW o, NEW p,
         SameEntry(m, v, o[1], p[1])
  PROVE  Mirror(N, pc, q, InstrUndef(m, o), InstrUndef(v, p))
BY EntryWriteMirrors DEF InstrUndef

LEMMA ArrayMirrors ==
  ASSUME NEW N, NEW pc, NEW q, NEW m, NEW v, Mirror(N, pc, q, m, v), NEW o, NEW p,
         Val(m, o[1]) = Val(v, p[1]), o[2].value = p[2].value
  PROVE  Mirror(N, pc, q, InstrArray(m, o), InstrArray(v, p))
<1>1. PICK n : n = Val(m, o[1])
  OBVIOUS
<1>2. PICK addr : addr = o[2].value
  OBVIOUS
<1>3. v.arrays = m.arrays /\ v.live = m.live
  BY MirrorFields
<1>4. CASE n = None
  BY <1>1, <1>4, RaiseMirrors DEF InstrArray
<1>5. CASE n # None
  <2>1. PICK x : x = SetItem(m.arrays, addr, [i \in 1 .. n |-> None])
    OBVIOUS
  <2>2. PICK y : y = m.live \ {addr}
    OBVIOUS
  <2>3. InstrArray(m, o) = [m EXCEPT !.arrays = x, !.live = y]
    BY <1>1, <1>2, <1>5, <2>1, <2>2 DEF InstrArray
  <2>4. InstrArray(v, p) = [v EXCEPT !.arrays = x, !.live = y]
    BY <1>1, <1>2, <1>3, <1>5, <2>1, <2>2 DEF InstrArray
  <2>5. Mirror(N, pc, q, [m EXCEPT !.arrays = x, !.live = y], [v EXCEPT !.arrays = x, !.live = y])
    BY NewArrayMirrors
  <2>6. QED
    BY <2>3, <2>4, <2>5
<1>6. QED
  BY <1>4, <1>5

LEMMA ArithmeticMirrors ==
  ASSUME NEW N, NEW pc, NEW q, NEW m, NEW v, Mirror(N, pc, q, m, v), NEW o, NEW p, NEW op,
         o[1] = p[1], p[1] \in N, Val(m, o[2]) = Val(v, p[2]), Val(m, o[3]) = Val(v, p[3]),
         op \in {"addm", "subm"} => Val(m, o[4]) = Val(v, p[4])
  PROVE  Mirror(N, pc, q, BinaryClassicalInstr(m, op, o), BinaryClassicalInstr(v, op, p))
<1>1. PICK a : a = Val(m, o[2])
  OBVIOUS
<1>2. PICK b : b = Val(m, o[3])
  OBVIOUS
<1>3. PICK mod : mod = IF op \in {"addm", "subm"} THEN Val(m, o[4]) ELSE 1
  OBVIOUS
<1>4. mod = IF op \in {"addm", "subm"} THEN Val(v, p[4]) ELSE 1
  BY <1>3
<1>5. CASE None \in {a, b, mod} \/ mod < 1
  <2>1. BinaryClassicalInstr(m, op, o) = Raise(m)
    BY <1>1, <1>2, <1>3, <1>5 DEF BinaryClassicalInstr
  <2>2. BinaryClassicalInstr(v, op, p) = Raise(v)
    BY <1>1, <1>2, <1>4, <1>5 DEF BinaryClassicalInstr
  <2>3. QED
    BY <2>1, <2>2, RaiseMirrors
<1>6. CASE ~(None \in {a, b, mod} \/ mod < 1)
  <2>1. PICK x : x = ComputeBinaryClassical(op, a, b, mod)
    OBVIOUS
  <2>2. BinaryClassicalInstr(m, op, o) = SetRegister(m, o[1], x)
    BY <1>1, <1>2, <1>3, <1>6, <2>1 DEF BinaryClassicalInstr
  <2>3. BinaryClassicalInstr(v, op, p) = SetRegister(v, p[1], x)
    BY <1>1, <1>2, <1>4, <1>6, <2>1 DEF BinaryClassicalInstr
  <2>4. QED
    BY <2>2, <2>3, RegisterMirrors
<1>7. QED
  BY <1>5, <1>6

LEMMA WaitSliceMirrors ==
  ASSUME NEW N, NEW pc, NEW q, NEW m, NEW v, Mirror(N, pc, q, m, v), NEW e, NEW f, NEW op,
         SameSlice(m, v, e, f)
  PROVE  Mirror(N, pc, q, WaitSlice(m, op, e), WaitSlice(v, op, f))
<1>1. /\ v.arrays = m.arrays /\ f.addr = e.addr
      /\ Val(v, f.start) = Val(m, e.start) /\ Val(v, f.stop) = Val(m, e.stop)
  BY MirrorFields DEF SameSlice
<1>2. \/ WaitSlice(m, op, e) = Raise(m) /\ WaitSlice(v, op, f) = Raise(v)
      \/ WaitSlice(m, op, e) = m /\ WaitSlice(v, op, f) = v
      \/ WaitSlice(m, op, e) = [m EXCEPT !.status = "waiting"]
           /\ WaitSlice(v, op, f) = [v EXCEPT !.status = "waiting"]
  BY <1>1 DEF WaitSlice
<1>3. QED
  BY <1>2, RaiseMirrors, StatusMirrors

LEMMA WaitSingleMirrors ==
  ASSUME NEW N, NEW pc, NEW q, NEW m, NEW v, Mirror(N, pc, q, m, v), NEW e, NEW f,
         SameEntry(m, v, e, f)
  PROVE  Mirror(N, pc, q, WaitSingle(m, e), WaitSingle(v, f))
<1>1. v.arrays = m.arrays /\ f.addr = e.addr /\ Val(v, f.index) = Val(m, e.index)
  BY MirrorFields DEF SameEntry
<1>2. GetArrayEntry(v, f) = GetArrayEntry(m, e)
  BY EntryReadSame
<1>3. \/ WaitSingle(m, e) = Raise(m) /\ WaitSingle(v, f) = Raise(v)
      \/ WaitSingle(m, e) = m /\ WaitSingle(v, f) = v
      \/ WaitSingle(m, e) = [m EXCEPT !.status = "waiting"]
           /\ WaitSingle(v, f) = [v EXCEPT !.status = "waiting"]
  BY <1>1, <1>2 DEF WaitSingle, InArray
<1>4. QED
  BY <1>3, RaiseMirrors, StatusMirrors

LEMMA ReturnMirrors ==
  ASSUME NEW N, NEW pc, NEW q, NEW m, NEW v, Mirror(N, pc, q, m, v), NEW o, NEW p,
         o[1] = p[1], p[1] \in N, Val(m, o[1]) = Val(v, p[1])
  PROVE  Mirror(N, pc, q, InstrRetReg(m, o), InstrRetReg(v, p))
<1>1. PICK x : x = Val(m, o[1])
  OBVIOUS
<1>2. v.returned = m.returned
  BY MirrorFields
<1>3. CASE x = None
  BY <1>1, <1>3, RaiseMirrors DEF InstrRetReg
<1>4. CASE x # None
  <2>1. PICK y : y = SetItem(m.returned, o[1], x)
    OBVIOUS
  <2>2. InstrRetReg(m, o) = [m EXCEPT !.returned = y]
    BY <1>1, <1>4, <2>1 DEF InstrRetReg
  <2>3. InstrRetReg(v, p) = [v EXCEPT !.returned = y]
    BY <1>1, <1>2, <1>4, <2>1 DEF InstrRetReg
  <2>4. QED
    BY <2>2, <2>3, ReturnedMirrors
<1>5. QED
  BY <1>3, <1>4

LEMMA ReturnArrayMirrors ==
  ASSUME NEW N, NEW pc, NEW q, NEW m, NEW v, Mirror(N, pc, q, m, v), NEW o, NEW p,
         o[1].value = p[1].value
  PROVE  Mirror(N, pc, q, InstrRetArr(m, o), InstrRetArr(v, p))
<1>1. PICK addr : addr = o[1].value
  OBVIOUS
<1>2. v.arrays = m.arrays /\ v.live = m.live /\ v.shared = m.shared
  BY MirrorFields
<1>3. CASE addr \notin DOMAIN m.arrays
  <2>1. InstrRetArr(m, o) = Raise(m) /\ InstrRetArr(v, p) = Raise(v)
    BY <1>1, <1>2, <1>3 DEF InstrRetArr
  <2>2. QED
    BY <2>1, RaiseMirrors
<1>4. CASE addr \in DOMAIN m.arrays
  <2>1. PICK x : x = SetItem(m.shared, addr, m.arrays[addr])
    OBVIOUS
  <2>2. PICK y : y = m.live \cup {addr}
    OBVIOUS
  <2>3. InstrRetArr(m, o) = [m EXCEPT !.shared = x, !.live = y]
    BY <1>1, <1>4, <2>1, <2>2 DEF InstrRetArr
  <2>4. InstrRetArr(v, p) = [v EXCEPT !.shared = x, !.live = y]
    BY <1>1, <1>2, <1>4, <2>1, <2>2 DEF InstrRetArr
  <2>5. Mirror(N, pc, q, [m EXCEPT !.shared = x, !.live = y], [v EXCEPT !.shared = x, !.live = y])
    BY SharedMirrors
  <2>6. QED
    BY <2>3, <2>4, <2>5
<1>5. QED
  BY <1>3, <1>4

LEMMA AllocMirrors ==
  ASSUME NEW N, NEW pc, NEW q, NEW m, NEW v, Mirror(N, pc, q, m, v), NEW o, NEW p,
         Val(m, o[1]) = Val(v, p[1])
  PROVE  Mirror(N, pc, q, InstrQAlloc(m, o), InstrQAlloc(v, p))
<1>1. PICK x : x = Val(m, o[1])
  OBVIOUS
<1>2. v.unit = m.unit
  BY MirrorFields
<1>3. PICK y : y = m.unit \cup {x}
  OBVIOUS
<1>4. \/ InstrQAlloc(m, o) = Raise(m) /\ InstrQAlloc(v, p) = Raise(v)
      \/ InstrQAlloc(m, o) = [m EXCEPT !.unit = y] /\ InstrQAlloc(v, p) = [v EXCEPT !.unit = y]
  BY <1>1, <1>2, <1>3 DEF InstrQAlloc
<1>5. Mirror(N, pc, q, [m EXCEPT !.unit = y], [v EXCEPT !.unit = y])
  BY UnitMirrors
<1>6. QED
  BY <1>4, <1>5, RaiseMirrors

LEMMA FreeMirrors ==
  ASSUME NEW N, NEW pc, NEW q, NEW m, NEW v, Mirror(N, pc, q, m, v), NEW o, NEW p,
         Val(m, o[1]) = Val(v, p[1])
  PROVE  Mirror(N, pc, q, InstrQFree(m, o), InstrQFree(v, p))
<1>1. PICK x : x = Val(m, o[1])
  OBVIOUS
<1>2. v.unit = m.unit /\ v.quantum = m.quantum
  BY MirrorFields
<1>3. PICK y : y = m.unit \ {x}
  OBVIOUS
<1>4. PICK z : z = Hook(m.quantum, At("qfree", << x >>))
  OBVIOUS
<1>5. CASE x \notin m.unit
  <2>1. InstrQFree(m, o) = Raise(m) /\ InstrQFree(v, p) = Raise(v)
    BY <1>1, <1>2, <1>5 DEF InstrQFree
  <2>2. QED
    BY <2>1, RaiseMirrors
<1>6. CASE x \in m.unit
  <2>1. InstrQFree(m, o) = [m EXCEPT !.unit = y, !.quantum = z]
    BY <1>1, <1>3, <1>4, <1>6 DEF InstrQFree
  <2>2. InstrQFree(v, p) = [v EXCEPT !.unit = y, !.quantum = z]
    BY <1>1, <1>2, <1>3, <1>4, <1>6 DEF InstrQFree
  <2>3. Mirror(N, pc, q, [m EXCEPT !.unit = y, !.quantum = z], [v EXCEPT !.unit = y, !.quantum = z])
    BY UnitQuantumMirrors
  <2>4. QED
    BY <2>1, <2>2, <2>3
<1>7. QED
  BY <1>5, <1>6

LEMMA OneQubitMirrors ==
  ASSUME NEW N, NEW pc, NEW q, NEW m, NEW v, Mirror(N, pc, q, m, v), NEW o, NEW p, NEW op,
         Val(m, o[1]) = Val(v, p[1])
  PROVE  /\ Mirror(N, pc, q, SingleQubitInstr(m, op, o), SingleQubitInstr(v, op, p))
         /\ o[2].value = p[2].value /\ o[3].value = p[3].value =>
              Mirror(N, pc, q, RotationInstr(m, op, o), RotationInstr(v, op, p))
<1>1. PICK x : x = Val(m, o[1])
  OBVIOUS
<1>2. v.quantum = m.quantum
  BY MirrorFields
<1>3. ASSUME NEW z
      PROVE  Mirror(N, pc, q, [m EXCEPT !.quantum = z], [v EXCEPT !.quantum = z])
  BY QuantumMirrors
<1>4. CASE x \notin Slots
  <2>1. SingleQubitInstr(m, op, o) = Raise(m) /\ SingleQubitInstr(v, op, p) = Raise(v)
    BY <1>1, <1>4 DEF SingleQubitInstr
  <2>2. RotationInstr(m, op, o) = Raise(m) /\ RotationInstr(v, op, p) = Raise(v)
    BY <1>1, <1>4 DEF RotationInstr
  <2>3. QED
    BY <2>1, <2>2, RaiseMirrors
<1>5. CASE x \in Slots
  <2>1. PICK z : z = Hook(m.quantum, At(op, << x >>))
    OBVIOUS
  <2>2. SingleQubitInstr(m, op, o) = [m EXCEPT !.quantum = z]
    BY <1>1, <1>5, <2>1 DEF SingleQubitInstr
  <2>3. SingleQubitInstr(v, op, p) = [v EXCEPT !.quantum = z]
    BY <1>1, <1>2, <1>5, <2>1 DEF SingleQubitInstr
  <2>4. PICK w : w = Hook(m.quantum, Turning(op, << x >>, o[2].value, o[3].value))
    OBVIOUS
  <2>5. RotationInstr(m, op, o) = [m EXCEPT !.quantum = w]
    BY <1>1, <1>5, <2>4 DEF RotationInstr
  <2>6. ASSUME o[2].value = p[2].value, o[3].value = p[3].value
        PROVE  RotationInstr(v, op, p) = [v EXCEPT !.quantum = w]
    BY <1>1, <1>2, <1>5, <2>4, <2>6 DEF RotationInstr
  <2>7. QED
    BY <1>3, <2>2, <2>3, <2>5, <2>6
<1>6. QED
  BY <1>4, <1>5

LEMMA TwoQubitsMirror ==
  ASSUME NEW N, NEW pc, NEW q, NEW m, NEW v, Mirror(N, pc, q, m, v), NEW o, NEW p, NEW op,
         Val(m, o[1]) = Val(v, p[1]), Val(m, o[2]) = Val(v, p[2])
  PROVE  /\ Mirror(N, pc, q, TwoQubitInstr(m, op, o), TwoQubitInstr(v, op, p))
         /\ o[3].value = p[3].value /\ o[4].value = p[4].value =>
              Mirror(N, pc, q, ControlledRotationInstr(m, op, o), ControlledRotationInstr(v, op, p))
<1>1. PICK x : x = Val(m, o[1])
  OBVIOUS
<1>2. PICK y : y = Val(m, o[2])
  OBVIOUS
<1>3. v.quantum = m.quantum
  BY MirrorFields
<1>4. ASSUME NEW z
      PROVE  Mirror(N, pc, q, [m EXCEPT !.quantum = z], [v EXCEPT !.quantum = z])
  BY QuantumMirrors
<1>5. CASE ~ ({x, y} \subseteq Slots) \/ x = y
  <2>1. TwoQubitInstr(m, op, o) = Raise(m) /\ TwoQubitInstr(v, op, p) = Raise(v)
    BY <1>1, <1>2, <1>5 DEF TwoQubitInstr
  <2>2. ControlledRotationInstr(m, op, o) = Raise(m) /\ ControlledRotationInstr(v, op, p) = Raise(v)
    BY <1>1, <1>2, <1>5 DEF ControlledRotationInstr
  <2>3. QED
    BY <2>1, <2>2, RaiseMirrors
<1>6. CASE ~(~ ({x, y} \subseteq Slots) \/ x = y)
  <2>1. PICK z : z = Hook(m.quantum, At(op, << x, y >>))
    OBVIOUS
  <2>2. TwoQubitInstr(m, op, o) = [m EXCEPT !.quantum = z]
    BY <1>1, <1>2, <1>6, <2>1 DEF TwoQubitInstr
  <2>3. TwoQubitInstr(v, op, p) = [v EXCEPT !.quantum = z]
    BY <1>1, <1>2, <1>3, <1>6, <2>1 DEF TwoQubitInstr
  <2>4. PICK w : w = Hook(m.quantum, Turning(op, << x, y >>, o[3].value, o[4].value))
    OBVIOUS
  <2>5. ControlledRotationInstr(m, op, o) = [m EXCEPT !.quantum = w]
    BY <1>1, <1>2, <1>6, <2>4 DEF ControlledRotationInstr
  <2>6. ASSUME o[3].value = p[3].value, o[4].value = p[4].value
        PROVE  ControlledRotationInstr(v, op, p) = [v EXCEPT !.quantum = w]
    BY <1>1, <1>2, <1>3, <1>6, <2>4, <2>6 DEF ControlledRotationInstr
  <2>7. QED
    BY <1>4, <2>2, <2>3, <2>5, <2>6
<1>7. QED
  BY <1>5, <1>6

LEMMA MeasureMirrors ==
  ASSUME NEW N, NEW pc, NEW q, NEW m, NEW v, Mirror(N, pc, q, m, v), NEW o, NEW p,
         Val(m, o[1]) = Val(v, p[1]), o[2] = p[2], p[2] \in N
  PROVE  Mirror(N, pc, q, InstrMeas(m, o), InstrMeas(v, p))
<1>1. PICK x : x = Val(m, o[1])
  OBVIOUS
<1>2. v.quantum = m.quantum /\ v.coins = m.coins
  BY MirrorFields
<1>3. CASE x \notin Slots
  <2>1. InstrMeas(m, o) = Raise(m) /\ InstrMeas(v, p) = Raise(v)
    BY <1>1, <1>3 DEF InstrMeas
  <2>2. QED
    BY <2>1, RaiseMirrors
<1>4. CASE x \in Slots
  <2>1. PICK y : y = IF m.coins = <<>> THEN m.coins ELSE Tail(m.coins)
    OBVIOUS
  <2>2. PICK z : z = Hook(m.quantum, At("meas", << x >>))
    OBVIOUS
  <2>3. PICK w : w = IF m.coins = <<>> THEN 0 ELSE Head(m.coins)
    OBVIOUS
  <2>4. PICK h : h = [m EXCEPT !.coins = y, !.quantum = z]
    OBVIOUS
  <2>5. PICK g : g = [v EXCEPT !.coins = y, !.quantum = z]
    OBVIOUS
  <2>6. InstrMeas(m, o) = SetRegister(h, o[2], w)
    BY <1>1, <1>4, <2>1, <2>2, <2>3, <2>4 DEF InstrMeas
  <2>7. InstrMeas(v, p) = SetRegister(g, p[2], w)
    BY <1>1, <1>2, <1>4, <2>1, <2>2, <2>3, <2>5 DEF InstrMeas
  <2>8. Mirror(N, pc, q, h, g)
    BY <2>4, <2>5, CoinsQuantumMirrors
  <2>9. QED
    BY <2>6, <2>7, <2>8, RegisterMirrors
<1>5. QED
  BY <1>3, <1>4

LEMMA EntangleMirrors ==
  ASSUME NEW N, NEW pc, NEW q, NEW m, NEW v, Mirror(N, pc, q, m, v), NEW o, NEW p,
         Val(m, o[1]) = Val(v, p[1]), Val(m, o[2]) = Val(v, p[2]),
         Val(m, o[3]) = Val(v, p[3]), Val(m, o[4]) = Val(v, p[4])
  PROVE  /\ Mirror(N, pc, q, InstrRecvEpr(m, o), InstrRecvEpr(v, p))
         /\ Val(m, o[5]) = Val(v, p[5]) => Mirror(N, pc, q, InstrCreateEpr(m, o), InstrCreateEpr(v, p))
<1>1. PICK a : a = Val(m, o[1])
  OBVIOUS
<1>2. PICK b : b = Val(m, o[2])
  OBVIOUS
<1>3. PICK c : c = Val(m, o[3])
  OBVIOUS
<1>4. PICK d : d = Val(m, o[4])
  OBVIOUS
<1>5. v.arrays = m.arrays /\ v.requests = m.requests
  BY MirrorFields
<1>6. ASSUME NEW z
      PROVE  Mirror(N, pc, q, [m EXCEPT !.requests = z], [v EXCEPT !.requests = z])
  BY RequestsMirror
<1>7. Mirror(N, pc, q, InstrRecvEpr(m, o), InstrRecvEpr(v, p))
  <2>1. PICK z : z = Append(m.requests, Request(IF c = None THEN 1 ELSE TypeK, c, d, Len(m.arrays[d]) \div OK_FIELDS))
    OBVIOUS
  <2>2. CASE None \in {a, b, d} \/ d \notin DOMAIN m.arrays
    <3>1. InstrRecvEpr(m, o) = Raise(m) /\ InstrRecvEpr(v, p) = Raise(v)
      BY <1>1, <1>2, <1>4, <1>5, <2>2 DEF InstrRecvEpr
    <3>2. QED
      BY <3>1, RaiseMirrors
  <2>3. CASE ~(None \in {a, b, d} \/ d \notin DOMAIN m.arrays)
    <3>1. InstrRecvEpr(m, o) = [m EXCEPT !.requests = z]
      BY <1>1, <1>2, <1>3, <1>4, <2>1, <2>3 DEF InstrRecvEpr
    <3>2. InstrRecvEpr(v, p) = [v EXCEPT !.requests = z]
      BY <1>1, <1>2, <1>3, <1>4, <1>5, <2>1, <2>3 DEF InstrRecvEpr
    <3>3. QED
      BY <1>6, <3>1, <3>2
  <2>4. QED
    BY <2>2, <2>3
<1>8. ASSUME Val(m, o[5]) = Val(v, p[5])
      PROVE  Mirror(N, pc, q, InstrCreateEpr(m, o), InstrCreateEpr(v, p))
  <2>1. PICK e : e = Val(m, o[5])
    OBVIOUS
  <2>2. PICK args : args = m.arrays[d]
    OBVIOUS
  <2>3. PICK z : z = Append(m.requests, Request(args[IDX_TYPE], c, e, args[IDX_NUMBER]))
    OBVIOUS
  <2>4. PICK bad : bad = (\/ None \in {a, b, d, e} \/ d \notin DOMAIN m.arrays
                          \/ Len(args) # SER_CREATE_LEN
                          \/ args[IDX_TYPE] = TypeK /\ (c \notin DOMAIN m.arrays \/ Len(m.arrays[c]) # args[IDX_NUMBER]))
    OBVIOUS
  <2>5. CASE bad
    <3>1. InstrCreateEpr(m, o) = Raise(m)
      BY <1>1, <1>2, <1>3, <1>4, <2>1, <2>2, <2>4, <2>5 DEF InstrCreateEpr
    <3>2. InstrCreateEpr(v, p) = Raise(v)
      BY <1>1, <1>2, <1>3, <1>4, <1>5, <1>8, <2>1, <2>2, <2>4, <2>5 DEF InstrCreateEpr
    <3>3. QED
      BY <3>1, <3>2, RaiseMirrors
  <2>6. CASE ~ bad
    <3>1. InstrCreateEpr(m, o) = [m EXCEPT !.requests = z]
      BY <1>1, <1>2, <1>3, <1>4, <2>1, <2>2, <2>3, <2>4, <2>6 DEF InstrCreateEpr
    <3>2. InstrCreateEpr(v, p) = [v EXCEPT !.requests = z]
      BY <1>1, <1>2, <1>3, <1>4, <1>5, <1>8, <2>1, <2>2, <2>3, <2>4, <2>6 DEF InstrCreateEpr
    <3>3. QED
      BY <1>6, <3>1, <3>2
  <2>7. QED
    BY <2>5, <2>6
<1>9. QED
  BY <1>7, <1>8

LEMMA PcMirrors ==
  ASSUME NEW N, NEW pc, NEW q, NEW m, NEW v, Mirror(N, pc, q, m, v), NEW x, NEW y
  PROVE  Mirror(N, x, y, [m EXCEPT !.pc = x], [v EXCEPT !.pc = y])
<1>1. PICK h : h = [m EXCEPT !.pc = x]
  OBVIOUS
<1>2. PICK g : g = [v EXCEPT !.pc = y]
  OBVIOUS
<1>3. IsMachine(m) /\ m.pc = pc /\ IsMachine(v) /\ v.pc = q
  BY MirrorFields
<1>4. IsMachine(h) /\ h.pc = x
  BY <1>1, <1>3 DEF IsMachine, Fields
<1>5. IsMachine(g) /\ g.pc = y
  BY <1>2, <1>3 DEF IsMachine, Fields
<1>6. /\ g.regs = Kept(h.regs, N)
      /\ g.arrays = h.arrays /\ g.shared = h.shared /\ g.live = h.live
      /\ g.returned = h.returned /\ g.unit = h.unit /\ g.coins = h.coins
      /\ g.quantum = h.quantum /\ g.requests = h.requests /\ g.pairs = h.pairs
      /\ g.status = h.status
  BY <1>1, <1>2, MirrorFields DEF IsMachine, Fields
<1>7. Mirror(N, x, y, h, g)
  BY <1>4, <1>5, <1>6, MirrorBy
<1>8. QED
  BY <1>1, <1>2, <1>7

-----------------------------------------------------------------------------
(* The dispatch.                                                           *)

\* What the layouts of the classes say of the operands of the handlers.
RegisterOperands(op) ==
  CASE op \in {"store", "load", "set", "lea", "array", "ret_reg", "qalloc", "qfree", "init",
               "x", "y", "z", "h", "s", "k", "t", "rot_x", "rot_y", "rot_z", "bez", "bnz"} -> {1}
    [] op \in {"meas", "cnot", "cphase", "mov", "beq", "bne", "blt", "bge"} -> {1, 2}
    [] op \in {"add", "sub"} -> {1, 2, 3}
    [] op \in {"addm", "subm", "recv_epr"} -> {1, 2, 3, 4}
    [] op = "create_epr" -> {1, 2, 3, 4, 5}
    [] OTHER -> {}

ValueOperands(op) ==
  CASE op \in {"set", "lea", "array", "bez", "bnz"} -> {2}
    [] op \in {"ret_arr", "jmp"} -> {1}
    [] op \in {"rot_x", "rot_y", "rot_z"} -> {2, 3}
    [] op \in {"beq", "bne", "blt", "bge"} -> {3}
    [] OTHER -> {}

EntryOperands(op) ==
  CASE op \in {"store", "load"} -> {2} [] op \in {"undef", "wait_single"} -> {1} [] OTHER -> {}

SliceOperands(op) == IF op \in {"wait_all", "wait_any"} THEN {1} ELSE {}

LayoutSays(c) ==
  /\ \A i \in RegisterOperands(c.mnemonic) : i \in 1 .. Len(c.layout) /\ c.layout[i] = "reg"
  /\ \A i \in ValueOperands(c.mnemonic) : i \in 1 .. Len(c.layout) /\ c.layout[i] \in {"imm", "int", "addr"}
  /\ \A i \in EntryOperands(c.mnemonic) : i \in 1 .. Len(c.layout) /\ c.layout[i] = "entry"
  /\ \A i \in SliceOperands(c.mnemonic) : i \in 1 .. Len(c.layout) /\ c.layout[i] = "slice"
  /\ c.mnemonic \in Branches => /\ Len(c.layout) \in ValueOperands(c.mnemonic)
  /\ c.mnemonic \notin {"crot_x", "crot_y"}

LEMMA LayoutsSay ==
  ASSUME NEW c \in VanillaFlavour \cup CORE_INSTRUCTIONS
  PROVE  LayoutSays(c)
<1>1. \/ c.mnemonic \in {"qalloc", "init", "ret_reg", "qfree", "x", "y", "z", "h", "s", "k", "t"} /\ c.layout = << "reg" >>
      \/ c.mnemonic \in {"array", "lea"} /\ c.layout = << "reg", "addr" >>
      \/ c.mnemonic \in {"set", "bez", "bnz"} /\ c.layout = << "reg", "int" >>
      \/ c.mnemonic \in {"store", "load"} /\ c.layout = << "reg", "entry" >>
      \/ c.mnemonic \in {"undef", "wait_single"} /\ c.layout = << "entry" >>
      \/ c.mnemonic \in {"wait_all", "wait_any"} /\ c.layout = << "slice" >>
      \/ c.mnemonic \in {"jmp"} /\ c.layout = << "int" >>
      \/ c.mnemonic \in {"beq", "bne", "blt", "bge"} /\ c.layout = << "reg", "reg", "int" >>
      \/ c.mnemonic \in {"add", "sub"} /\ c.layout = << "reg", "reg", "reg" >>
      \/ c.mnemonic \in {"addm", "subm", "recv_epr"} /\ c.layout = << "reg", "reg", "reg", "reg" >>
      \/ c.mnemonic \in {"meas", "cnot", "cphase", "mov"} /\ c.layout = << "reg", "reg" >>
      \/ c.mnemonic \in {"create_epr"} /\ c.layout = << "reg", "reg", "reg", "reg", "reg" >>
      \/ c.mnemonic \in {"ret_arr"} /\ c.layout = << "addr" >>
      \/ c.mnemonic \in {"rot_x", "rot_y", "rot_z"} /\ c.layout = << "reg", "imm", "imm" >>
      \/ c.mnemonic \in {"meas_basis", "breakpoint"}
  <2>1. CASE c \in MemoryClasses
    BY <2>1 DEF MemoryClasses, Class, RegInstruction, RegAddrInstruction, RegImmInstruction,
                RegEntryInstruction, ArrayEntryInstruction
  <2>2. CASE c \in BranchClasses
    BY <2>2 DEF BranchClasses, Class, ImmInstruction, RegImmInstruction, RegRegImmInstruction
  <2>3. CASE c \in ArithmeticClasses
    BY <2>3 DEF ArithmeticClasses, Class, ClassicalOpInstruction, ClassicalOpModInstruction,
                RegRegRegInstruction, RegRegRegRegInstruction
  <2>4. CASE c \in MeasureClasses
    BY <2>4 DEF MeasureClasses, Class, RegRegInstruction, RegRegImm4Instruction
  <2>5. CASE c \in EprClasses
    BY <2>5 DEF EprClasses, Class, Reg5Instruction, RegRegRegRegInstruction
  <2>6. CASE c \in WaitAndReturnClasses
    BY <2>6 DEF WaitAndReturnClasses, Class, ArraySliceInstruction, ArrayEntryInstruction,
                RegInstruction, AddrInstruction, ImmImmInstruction
  <2>7. CASE c \in VanillaFlavour
    BY <2>7 DEF VanillaFlavour, Class, SingleQubitInstruction, RegInstruction, RotationInstruction,
                RegImmImmInstruction, TwoQubitInstruction, RegRegInstruction
  <2>8. QED
    BY <2>1, <2>2, <2>3, <2>4, <2>5, <2>6, <2>7 DEF CORE_INSTRUCTIONS
<1>2. CASE c.mnemonic \in {"qalloc", "init", "ret_reg", "qfree", "x", "y", "z", "h", "s", "k", "t"} /\ c.layout = << "reg" >>
  BY <1>2 DEF LayoutSays, RegisterOperands, ValueOperands, EntryOperands, SliceOperands, Branches
<1>3. CASE c.mnemonic \in {"array", "lea"} /\ c.layout = << "reg", "addr" >>
  BY <1>3 DEF LayoutSays, RegisterOperands, ValueOperands, EntryOperands, SliceOperands, Branches
<1>4. CASE c.mnemonic \in {"set", "bez", "bnz"} /\ c.layout = << "reg", "int" >>
  BY <1>4 DEF LayoutSays, RegisterOperands, ValueOperands, EntryOperands, SliceOperands, Branches
<1>5. CASE c.mnemonic \in {"store", "load"} /\ c.layout = << "reg", "entry" >>
  BY <1>5 DEF LayoutSays, RegisterOperands, ValueOperands, EntryOperands, SliceOperands, Branches
<1>6. CASE c.mnemonic \in {"undef", "wait_single"} /\ c.layout = << "entry" >>
  BY <1>6 DEF LayoutSays, RegisterOperands, ValueOperands, EntryOperands, SliceOperands, Branches
<1>7. CASE c.mnemonic \in {"wait_all", "wait_any"} /\ c.layout = << "slice" >>
  BY <1>7 DEF LayoutSays, RegisterOperands, ValueOperands, EntryOperands, SliceOperands, Branches
<1>8. CASE c.mnemonic \in {"jmp"} /\ c.layout = << "int" >>
  BY <1>8 DEF LayoutSays, RegisterOperands, ValueOperands, EntryOperands, SliceOperands, Branches
<1>9. CASE c.mnemonic \in {"beq", "bne", "blt", "bge"} /\ c.layout = << "reg", "reg", "int" >>
  BY <1>9 DEF LayoutSays, RegisterOperands, ValueOperands, EntryOperands, SliceOperands, Branches
<1>10. CASE c.mnemonic \in {"add", "sub"} /\ c.layout = << "reg", "reg", "reg" >>
  BY <1>10 DEF LayoutSays, RegisterOperands, ValueOperands, EntryOperands, SliceOperands, Branches
<1>11. CASE c.mnemonic \in {"addm", "subm", "recv_epr"} /\ c.layout = << "reg", "reg", "reg", "reg" >>
  BY <1>11 DEF LayoutSays, RegisterOperands, ValueOperands, EntryOperands, SliceOperands, Branches
<1>12. CASE c.mnemonic \in {"meas", "cnot", "cphase", "mov"} /\ c.layout = << "reg", "reg" >>
  BY <1>12 DEF LayoutSays, RegisterOperands, ValueOperands, EntryOperands, SliceOperands, Branches
<1>13. CASE c.mnemonic \in {"create_epr"} /\ c.layout = << "reg", "reg", "reg", "reg", "reg" >>
  BY <1>13 DEF LayoutSays, RegisterOperands, ValueOperands, EntryOperands, SliceOperands, Branches
<1>14. CASE c.mnemonic \in {"ret_arr"} /\ c.layout = << "addr" >>
  BY <1>14 DEF LayoutSays, RegisterOperands, ValueOperands, EntryOperands, SliceOperands, Branches
<1>15. CASE c.mnemonic \in {"rot_x", "rot_y", "rot_z"} /\ c.layout = << "reg", "imm", "imm" >>
  BY <1>15 DEF LayoutSays, RegisterOperands, ValueOperands, EntryOperands, SliceOperands, Branches
<1>16. CASE c.mnemonic \in {"meas_basis", "breakpoint"}
  BY <1>16 DEF LayoutSays, RegisterOperands, ValueOperands, EntryOperands, SliceOperands, Branches
<1>17. QED
  BY <1>1, <1>2, <1>3, <1>4, <1>5, <1>6, <1>7, <1>8, <1>9, <1>10, <1>11, <1>12, <1>13, <1>14, <1>15, <1>16

\* What an operand of the instruction is to m, that of the source command is to v.
Agree(m, v, a, b) ==
  /\ a.kind = "reg" => Val(m, a) = Val(v, b)
  /\ a.kind \in {"imm", "addr"} => a.value = b.value
  /\ a.kind = "entry" => SameEntry(m, v, a, b)
  /\ a.kind = "slice" => SameSlice(m, v, a, b)

LEMMA KeptKinds ==
  ASSUME NEW a
  PROVE  /\ FieldKeeps("reg", a) => a.kind = "reg"
         /\ FieldKeeps("imm", a) => a.kind = "imm"
         /\ FieldKeeps("int", a) => a.kind = "imm"
         /\ FieldKeeps("addr", a) => a.kind = "addr"
         /\ FieldKeeps("entry", a) => a.kind = "entry" /\ a.index.kind = "reg"
         /\ FieldKeeps("slice", a) => a.kind = "slice" /\ a.start.kind = "reg" /\ a.stop.kind = "reg"
<1>1. FieldKeeps("reg", a) => a.kind = "reg"
  BY DEF FieldKeeps, KeepsRegister
<1>2. FieldKeeps("imm", a) => a.kind = "imm"
  BY DEF FieldKeeps, Immediate
<1>3. FieldKeeps("int", a) => a.kind = "imm"
  BY DEF FieldKeeps, Immediate
<1>4. FieldKeeps("addr", a) => a.kind = "addr"
  BY DEF FieldKeeps, Address
<1>5. FieldKeeps("entry", a) => a.kind = "entry" /\ a.index.kind = "reg"
  BY DEF FieldKeeps, ArrayEntry, KeepsRegister
<1>6. FieldKeeps("slice", a) => a.kind = "slice" /\ a.start.kind = "reg" /\ a.stop.kind = "reg"
  BY DEF FieldKeeps, ArraySlice, KeepsRegister
<1>7. QED
  BY <1>1, <1>2, <1>3, <1>4, <1>5, <1>6

\* The operands o fit the class c and agree with p; a register that is written is the same.
Agreed(N, m, v, c, o, p) ==
  /\ \A j \in 1 .. Len(c.layout) : FieldKeeps(c.layout[j], o[j])
  /\ \A j \in 1 .. Len(c.layout) :
       \/ j \in ValueOperands(c.mnemonic) /\ c.mnemonic \in Branches
       \/ Agree(m, v, o[j], p[j])
  /\ \A j \in Written(c.mnemonic) : o[j] = p[j] /\ p[j] \in N

LEMMA AgreedFacts ==
  ASSUME NEW N, NEW m, NEW v, NEW c \in VanillaFlavour \cup CORE_INSTRUCTIONS, NEW o, NEW p,
         Agreed(N, m, v, c, o, p)
  PROVE  /\ \A j \in RegisterOperands(c.mnemonic) : Val(m, o[j]) = Val(v, p[j])
         /\ c.mnemonic \notin Branches => \A j \in ValueOperands(c.mnemonic) : o[j].value = p[j].value
         /\ \A j \in EntryOperands(c.mnemonic) : SameEntry(m, v, o[j], p[j])
         /\ \A j \in SliceOperands(c.mnemonic) : SameSlice(m, v, o[j], p[j])
<1>1. LayoutSays(c)
  BY LayoutsSay
<1>2. ASSUME NEW j \in RegisterOperands(c.mnemonic)
      PROVE  Val(m, o[j]) = Val(v, p[j])
  <2>1. j \in 1 .. Len(c.layout) /\ c.layout[j] = "reg"
    BY <1>1 DEF LayoutSays
  <2>2. o[j].kind = "reg"
    BY <2>1, KeptKinds DEF Agreed
  <2>3. ~(j \in ValueOperands(c.mnemonic) /\ c.mnemonic \in Branches)
    BY <1>1, <2>1 DEF LayoutSays
  <2>4. QED
    BY <2>1, <2>2, <2>3 DEF Agreed, Agree
<1>3. ASSUME c.mnemonic \notin Branches, NEW j \in ValueOperands(c.mnemonic)
      PROVE  o[j].value = p[j].value
  <2>1. j \in 1 .. Len(c.layout) /\ c.layout[j] \in {"imm", "int", "addr"}
    BY <1>1 DEF LayoutSays
  <2>2. o[j].kind \in {"imm", "addr"}
    BY <2>1, KeptKinds DEF Agreed
  <2>3. QED
    BY <1>3, <2>1, <2>2 DEF Agreed, Agree
<1>4. ASSUME NEW j \in EntryOperands(c.mnemonic)
      PROVE  SameEntry(m, v, o[j], p[j])
  <2>1. j \in 1 .. Len(c.layout) /\ c.layout[j] = "entry"
    BY <1>1 DEF LayoutSays
  <2>2. o[j].kind = "entry"
    BY <2>1, KeptKinds DEF Agreed
  <2>3. ~(j \in ValueOperands(c.mnemonic) /\ c.mnemonic \in Branches)
    BY <1>1, <2>1 DEF LayoutSays
  <2>4. QED
    BY <2>1, <2>2, <2>3 DEF Agreed, Agree
<1>5. ASSUME NEW j \in SliceOperands(c.mnemonic)
      PROVE  SameSlice(m, v, o[j], p[j])
  <2>1. j \in 1 .. Len(c.layout) /\ c.layout[j] = "slice"
    BY <1>1 DEF LayoutSays
  <2>2. o[j].kind = "slice"
    BY <2>1, KeptKinds DEF Agreed
  <2>3. ~(j \in ValueOperands(c.mnemonic) /\ c.mnemonic \in Branches)
    BY <1>1, <2>1 DEF LayoutSays
  <2>4. QED
    BY <2>1, <2>2, <2>3 DEF Agreed, Agree
<1>6. QED
  BY <1>2, <1>3, <1>4, <1>5

LEMMA HandleMirrors ==
  ASSUME NEW N, NEW pc, NEW q, NEW m, NEW v, Mirror(N, pc, q, m, v),
         NEW c \in VanillaFlavour \cup CORE_INSTRUCTIONS, NEW op, op = c.mnemonic, op \notin Branches,
         NEW o, NEW p, Agreed(N, m, v, c, o, p)
  PROVE  Mirror(N, pc, q, Handle(m, op, o), Handle(v, op, p))
<1>1. /\ \A j \in RegisterOperands(op) : Val(m, o[j]) = Val(v, p[j])
      /\ \A j \in ValueOperands(op) : o[j].value = p[j].value
      /\ \A j \in EntryOperands(op) : SameEntry(m, v, o[j], p[j])
      /\ \A j \in SliceOperands(op) : SameSlice(m, v, o[j], p[j])
  <2>1. /\ \A j \in RegisterOperands(c.mnemonic) : Val(m, o[j]) = Val(v, p[j])
        /\ c.mnemonic \notin Branches => \A j \in ValueOperands(c.mnemonic) : o[j].value = p[j].value
        /\ \A j \in EntryOperands(c.mnemonic) : SameEntry(m, v, o[j], p[j])
        /\ \A j \in SliceOperands(c.mnemonic) : SameSlice(m, v, o[j], p[j])
    BY AgreedFacts
  <2>2. QED
    BY <2>1
<1>2. \A j \in Written(op) : o[j] = p[j] /\ p[j] \in N
  BY DEF Agreed
<1>3. op \notin {"crot_x", "crot_y"}
  BY LayoutsSay DEF LayoutSays
<1>4. CASE op \in {"set", "lea"}
  <2>1. o[1] = p[1] /\ p[1] \in N /\ o[2].value = p[2].value
    BY <1>1, <1>2, <1>4 DEF Written, ValueOperands
  <2>2. QED
    BY <1>4, <2>1, SetMirrors DEF Handle
<1>5. CASE op = "store"
  <2>1. Val(m, o[1]) = Val(v, p[1]) /\ SameEntry(m, v, o[2], p[2])
    BY <1>1, <1>5 DEF RegisterOperands, EntryOperands
  <2>2. QED
    BY <1>5, <2>1, StoreMirrors DEF Handle
<1>6. CASE op = "load"
  <2>1. o[1] = p[1] /\ p[1] \in N /\ SameEntry(m, v, o[2], p[2])
    BY <1>1, <1>2, <1>6 DEF Written, EntryOperands
  <2>2. QED
    BY <1>6, <2>1, LoadMirrors DEF Handle
<1>7. CASE op = "undef"
  <2>1. SameEntry(m, v, o[1], p[1])
    BY <1>1, <1>7 DEF EntryOperands
  <2>2. QED
    BY <1>7, <2>1, UndefMirrors DEF Handle
<1>8. CASE op = "array"
  <2>1. Val(m, o[1]) = Val(v, p[1]) /\ o[2].value = p[2].value
    BY <1>1, <1>8 DEF RegisterOperands, ValueOperands
  <2>2. QED
    BY <1>8, <2>1, ArrayMirrors DEF Handle
<1>9. CASE op \in {"add", "sub", "addm", "subm"}
  <2>1. /\ o[1] = p[1] /\ p[1] \in N /\ Val(m, o[2]) = Val(v, p[2]) /\ Val(m, o[3]) = Val(v, p[3])
        /\ op \in {"addm", "subm"} => Val(m, o[4]) = Val(v, p[4])
    BY <1>1, <1>2, <1>9 DEF RegisterOperands, Written
  <2>2. Handle(m, op, o) = BinaryClassicalInstr(m, op, o) /\ Handle(v, op, p) = BinaryClassicalInstr(v, op, p)
    BY <1>9 DEF Handle
  <2>3. QED
    BY <2>1, <2>2, ArithmeticMirrors
<1>10. CASE op \in {"wait_all", "wait_any"}
  <2>1. SameSlice(m, v, o[1], p[1])
    BY <1>1, <1>10 DEF SliceOperands
  <2>2. Handle(m, op, o) = WaitSlice(m, op, o[1]) /\ Handle(v, op, p) = WaitSlice(v, op, p[1])
    BY <1>10 DEF Handle
  <2>3. QED
    BY <2>1, <2>2, WaitSliceMirrors
<1>11. CASE op = "wait_single"
  <2>1. SameEntry(m, v, o[1], p[1])
    BY <1>1, <1>11 DEF EntryOperands
  <2>2. QED
    BY <1>11, <2>1, WaitSingleMirrors DEF Handle
<1>12. CASE op = "ret_reg"
  <2>1. o[1] = p[1] /\ p[1] \in N /\ Val(m, o[1]) = Val(v, p[1])
    BY <1>1, <1>2, <1>12 DEF RegisterOperands, Written
  <2>2. QED
    BY <1>12, <2>1, ReturnMirrors DEF Handle
<1>13. CASE op = "ret_arr"
  <2>1. o[1].value = p[1].value
    BY <1>1, <1>13 DEF ValueOperands
  <2>2. QED
    BY <1>13, <2>1, ReturnArrayMirrors DEF Handle
<1>14. CASE op \in {"qalloc", "qfree"}
  <2>1. Val(m, o[1]) = Val(v, p[1])
    BY <1>1, <1>14 DEF RegisterOperands
  <2>2. QED
    BY <1>14, <2>1, AllocMirrors, FreeMirrors DEF Handle
<1>15. CASE op = "meas"
  <2>1. Val(m, o[1]) = Val(v, p[1]) /\ o[2] = p[2] /\ p[2] \in N
    BY <1>1, <1>2, <1>15 DEF RegisterOperands, Written
  <2>2. QED
    BY <1>15, <2>1, MeasureMirrors DEF Handle
<1>16. CASE op \in {"init", "x", "y", "z", "h", "s", "k", "t"}
  <2>1. Val(m, o[1]) = Val(v, p[1])
    BY <1>1, <1>16 DEF RegisterOperands
  <2>2. Handle(m, op, o) = SingleQubitInstr(m, op, o) /\ Handle(v, op, p) = SingleQubitInstr(v, op, p)
    BY <1>16 DEF Handle
  <2>3. QED
    BY <2>1, <2>2, OneQubitMirrors
<1>17. CASE op \in {"rot_x", "rot_y", "rot_z"}
  <2>1. Val(m, o[1]) = Val(v, p[1]) /\ o[2].value = p[2].value /\ o[3].value = p[3].value
    BY <1>1, <1>17 DEF RegisterOperands, ValueOperands
  <2>2. Handle(m, op, o) = RotationInstr(m, op, o) /\ Handle(v, op, p) = RotationInstr(v, op, p)
    BY <1>17 DEF Handle
  <2>3. QED
    BY <2>1, <2>2, OneQubitMirrors
<1>18. CASE op \in {"cnot", "cphase", "mov"}
  <2>1. Val(m, o[1]) = Val(v, p[1]) /\ Val(m, o[2]) = Val(v, p[2])
    BY <1>1, <1>18 DEF RegisterOperands
  <2>2. Handle(m, op, o) = TwoQubitInstr(m, op, o) /\ Handle(v, op, p) = TwoQubitInstr(v, op, p)
    BY <1>18 DEF Handle
  <2>3. QED
    BY <2>1, <2>2, TwoQubitsMirror
<1>19. CASE op = "create_epr"
  <2>1. /\ Val(m, o[1]) = Val(v, p[1]) /\ Val(m, o[2]) = Val(v, p[2]) /\ Val(m, o[3]) = Val(v, p[3])
        /\ Val(m, o[4]) = Val(v, p[4]) /\ Val(m, o[5]) = Val(v, p[5])
    BY <1>1, <1>19 DEF RegisterOperands
  <2>2. QED
    BY <1>19, <2>1, EntangleMirrors DEF Handle
<1>20. CASE op = "recv_epr"
  <2>1. /\ Val(m, o[1]) = Val(v, p[1]) /\ Val(m, o[2]) = Val(v, p[2]) /\ Val(m, o[3]) = Val(v, p[3])
        /\ Val(m, o[4]) = Val(v, p[4])
    BY <1>1, <1>20 DEF RegisterOperands
  <2>2. QED
    BY <1>20, <2>1, EntangleMirrors DEF Handle
<1>21. CASE op = "breakpoint"
  BY <1>21 DEF Handle
<1>22. CASE op \notin {"set", "lea", "store", "load", "undef", "array", "add", "sub", "addm", "subm",
                       "wait_all", "wait_any", "wait_single", "ret_reg", "ret_arr", "qalloc", "qfree",
                       "meas", "init", "x", "y", "z", "h", "s", "k", "t", "rot_x", "rot_y", "rot_z",
                       "cnot", "cphase", "mov", "create_epr", "recv_epr", "breakpoint"}
  <2>1. Handle(m, op, o) = Raise(m) /\ Handle(v, op, p) = Raise(v)
    BY <1>3, <1>22 DEF Handle
  <2>2. QED
    BY <2>1, RaiseMirrors
<1>23. QED
  BY <1>4, <1>5, <1>6, <1>7, <1>8, <1>9, <1>10, <1>11, <1>12, <1>13, <1>14, <1>15, <1>16, <1>17,
     <1>18, <1>19, <1>20, <1>21, <1>22

LEMMA BranchMirrors ==
  ASSUME NEW N, NEW pc, NEW q, NEW m, NEW v, Mirror(N, pc, q, m, v),
         NEW c \in VanillaFlavour \cup CORE_INSTRUCTIONS, NEW op, op = c.mnemonic, op \in Branches,
         NEW o, NEW p, Agreed(N, m, v, c, o, p)
  PROVE  LET h == BranchInstr(m, op, o)
             g == BranchInstr(v, op, p)
         IN  \/ h = Raise(m) /\ g = Raise(v)
             \/ h = [m EXCEPT !.pc = pc + 1] /\ g = [v EXCEPT !.pc = q + 1]
             \/ h = [m EXCEPT !.pc = o[Len(o)].value] /\ g = [v EXCEPT !.pc = p[Len(p)].value]
<1>1. \A j \in RegisterOperands(op) : Val(m, o[j]) = Val(v, p[j])
  <2>1. /\ \A j \in RegisterOperands(c.mnemonic) : Val(m, o[j]) = Val(v, p[j])
        /\ c.mnemonic \notin Branches => \A j \in ValueOperands(c.mnemonic) : o[j].value = p[j].value
        /\ \A j \in EntryOperands(c.mnemonic) : SameEntry(m, v, o[j], p[j])
        /\ \A j \in SliceOperands(c.mnemonic) : SameSlice(m, v, o[j], p[j])
    BY AgreedFacts
  <2>2. QED
    BY <2>1
<1>2. m.pc = pc /\ v.pc = q
  BY MirrorFields
<1>3. PICK a : a = IF op = "jmp" THEN 0 ELSE Val(m, o[1])
  OBVIOUS
<1>4. PICK b : b = IF op \in {"jmp", "bez", "bnz"} THEN 0 ELSE Val(m, o[2])
  OBVIOUS
<1>5. a = IF op = "jmp" THEN 0 ELSE Val(v, p[1])
  <2>1. op # "jmp" => 1 \in RegisterOperands(op)
    BY DEF Branches, RegisterOperands
  <2>2. QED
    BY <1>1, <1>3, <2>1
<1>6. b = IF op \in {"jmp", "bez", "bnz"} THEN 0 ELSE Val(v, p[2])
  <2>1. op \notin {"jmp", "bez", "bnz"} => 2 \in RegisterOperands(op)
    BY DEF Branches, RegisterOperands
  <2>2. QED
    BY <1>1, <1>4, <2>1
<1>7. PICK t : t = CheckCondition(op, a, b)
  OBVIOUS
<1>8. BranchInstr(m, op, o)
        = IF op \in {"blt", "bge"} /\ None \in {a, b} THEN Raise(m)
          ELSE [m EXCEPT !.pc = IF t THEN o[Len(o)].value ELSE m.pc + 1]
  BY <1>3, <1>4, <1>7 DEF BranchInstr
<1>9. BranchInstr(v, op, p)
        = IF op \in {"blt", "bge"} /\ None \in {a, b} THEN Raise(v)
          ELSE [v EXCEPT !.pc = IF t THEN p[Len(p)].value ELSE v.pc + 1]
  BY <1>5, <1>6, <1>7 DEF BranchInstr
<1>10. CASE op \in {"blt", "bge"} /\ None \in {a, b}
  BY <1>8, <1>9, <1>10
<1>11. CASE ~(op \in {"blt", "bge"} /\ None \in {a, b}) /\ t
  BY <1>8, <1>9, <1>11
<1>12. CASE ~(op \in {"blt", "bge"} /\ None \in {a, b}) /\ ~ t
  BY <1>2, <1>8, <1>9, <1>12
<1>13. QED
  BY <1>10, <1>11, <1>12

LEMMA CommandMirrors ==
  ASSUME NEW N, NEW pc, NEW q, NEW m, NEW v, Mirror(N, pc, q, m, v), m.status = "running",
         NEW c \in VanillaFlavour \cup CORE_INSTRUCTIONS, NEW instr, NEW command,
         instr.mnemonic = c.mnemonic, command.mnemonic = c.mnemonic,
         Agreed(N, m, v, c, instr.operands, command.operands)
  PROVE  LET h == ExecuteCommand(m, instr)
             g == ExecuteCommand(v, command)
             o == instr.operands
             p == command.operands
         IN  \/ h.status # "running" /\ Mirror(N, pc, q, h, g)
             \/ h.status = "running" /\ Mirror(N, pc + 1, q + 1, h, g)
             \/ /\ h.status = "running" /\ c.mnemonic \in Branches
                /\ Mirror(N, o[Len(o)].value, p[Len(p)].value, h, g)
<1>1. PICK o : o = instr.operands
  OBVIOUS
<1>2. PICK p : p = command.operands
  OBVIOUS
<1>3. PICK op : op = c.mnemonic
  OBVIOUS
<1>4. Agreed(N, m, v, c, o, p)
  BY <1>1, <1>2
<1>5. PICK h : h = ExecuteCommand(m, instr)
  OBVIOUS
<1>6. PICK g : g = ExecuteCommand(v, command)
  OBVIOUS
<1>7. SUFFICES \/ h.status # "running" /\ Mirror(N, pc, q, h, g)
               \/ h.status = "running" /\ Mirror(N, pc + 1, q + 1, h, g)
               \/ /\ h.status = "running" /\ op \in Branches
                  /\ Mirror(N, o[Len(o)].value, p[Len(p)].value, h, g)
  BY <1>1, <1>2, <1>3, <1>5, <1>6
<1>8. IsMachine(m) /\ v.status = "running" /\ m.pc = pc /\ v.pc = q
  BY MirrorFields
<1>9. CASE op \notin Branches
  <2>1. PICK x : x = Handle(m, op, o)
    OBVIOUS
  <2>2. PICK y : y = Handle(v, op, p)
    OBVIOUS
  <2>3. Mirror(N, pc, q, x, y)
    BY <1>3, <1>4, <1>9, <2>1, <2>2, HandleMirrors
  <2>4. h = inc_program_counter(x) /\ g = inc_program_counter(y)
    BY <1>1, <1>2, <1>3, <1>5, <1>6, <1>9, <2>1, <2>2 DEF ExecuteCommand
  <2>5. x.status = y.status /\ x.pc = pc /\ y.pc = q /\ IsMachine(x)
    BY <2>3, MirrorFields
  <2>6. CASE x.status # "running"
    BY <2>3, <2>4, <2>5, <2>6 DEF inc_program_counter
  <2>7. CASE x.status = "running"
    <3>1. h = [x EXCEPT !.pc = pc + 1] /\ g = [y EXCEPT !.pc = q + 1]
      BY <2>4, <2>5, <2>7 DEF inc_program_counter
    <3>2. Mirror(N, pc + 1, q + 1, h, g)
      BY <2>3, <3>1, PcMirrors
    <3>3. h.status = "running"
      BY <2>5, <2>7, <3>1 DEF IsMachine, Fields
    <3>4. QED
      BY <3>2, <3>3
  <2>8. QED
    BY <2>6, <2>7
<1>10. CASE op \in Branches
  <2>1. h = BranchInstr(m, op, o) /\ g = BranchInstr(v, op, p)
    BY <1>1, <1>2, <1>3, <1>5, <1>6, <1>10 DEF ExecuteCommand
  <2>2. \/ h = Raise(m) /\ g = Raise(v)
        \/ h = [m EXCEPT !.pc = pc + 1] /\ g = [v EXCEPT !.pc = q + 1]
        \/ h = [m EXCEPT !.pc = o[Len(o)].value] /\ g = [v EXCEPT !.pc = p[Len(p)].value]
    BY <1>3, <1>4, <1>10, <2>1, BranchMirrors
  <2>3. CASE h = Raise(m) /\ g = Raise(v)
    <3>1. Mirror(N, pc, q, h, g)
      BY <2>3, RaiseMirrors
    <3>2. h.status # "running"
      BY <1>8, <2>3 DEF Raise, IsMachine, Fields
    <3>3. QED
      BY <3>1, <3>2
  <2>4. CASE h = [m EXCEPT !.pc = pc + 1] /\ g = [v EXCEPT !.pc = q + 1]
    <3>1. Mirror(N, pc + 1, q + 1, h, g)
      BY <2>4, PcMirrors
    <3>2. h.status = "running"
      BY <1>8, <2>4 DEF IsMachine, Fields
    <3>3. QED
      BY <3>1, <3>2
  <2>5. CASE h = [m EXCEPT !.pc = o[Len(o)].value] /\ g = [v EXCEPT !.pc = p[Len(p)].value]
    <3>1. Mirror(N, o[Len(o)].value, p[Len(p)].value, h, g)
      BY <2>5, PcMirrors
    <3>2. h.status = "running"
      BY <1>8, <2>5 DEF IsMachine, Fields
    <3>3. QED
      BY <1>10, <3>1, <3>2
  <2>6. QED
    BY <2>2, <2>3, <2>4, <2>5
<1>11. QED
  BY <1>9, <1>10

-----------------------------------------------------------------------------
(* The source program runs on the same machine.                            *)

LEMMA SameReads ==
  /\ \A m, r : Program!GetRegister(m, r) = GetRegister(m, r)
  /\ \A m, a : Program!Val(m, a) = Val(m, a)
  /\ \A m, r, x : Program!SetRegister(m, r, x) = SetRegister(m, r, x)
  /\ \A m : Program!Raise(m) = Raise(m)
  /\ \A m : Program!inc_program_counter(m) = inc_program_counter(m)
BY DEF Program!GetRegister, GetRegister, Program!Val, Val, Program!SetRegister, SetRegister,
       Program!SetItem, SetItem, Program!Raise, Raise, Program!inc_program_counter, inc_program_counter

LEMMA SameArrays ==
  /\ \A m, a, i : Program!InArray(m, a, i) = InArray(m, a, i)
  /\ \A m, e : Program!GetArrayEntry(m, e) = GetArrayEntry(m, e)
  /\ \A m, e, x : Program!SetArrayEntry(m, e, x) = SetArrayEntry(m, e, x)
<1>1. \A m, a, i : Program!InArray(m, a, i) = InArray(m, a, i)
  BY DEF Program!InArray, InArray, Program!Position, Position
<1>2. \A m, e : Program!GetArrayEntry(m, e) = GetArrayEntry(m, e)
  BY <1>1, SameReads DEF Program!GetArrayEntry, GetArrayEntry, Program!Position, Position
<1>3. \A m, a, l : Program!PutArray(m, a, l) = PutArray(m, a, l)
  BY DEF Program!PutArray, PutArray, Program!SetItem, SetItem
<1>4. \A m, e, x : Program!SetArrayEntry(m, e, x) = SetArrayEntry(m, e, x)
  BY <1>1, <1>3, SameReads DEF Program!SetArrayEntry, SetArrayEntry, Program!Position, Position
<1>5. QED
  BY <1>1, <1>2, <1>4

LEMMA SameMemory ==
  ASSUME NEW m, NEW o
  PROVE  /\ Program!InstrSet(m, o) = InstrSet(m, o)
         /\ Program!InstrStore(m, o) = InstrStore(m, o)
         /\ Program!InstrLoad(m, o) = InstrLoad(m, o)
         /\ Program!InstrUndef(m, o) = InstrUndef(m, o)
         /\ Program!InstrLea(m, o) = InstrLea(m, o)
         /\ Program!InstrArray(m, o) = InstrArray(m, o)
         /\ Program!InstrRetReg(m, o) = InstrRetReg(m, o)
         /\ Program!InstrRetArr(m, o) = InstrRetArr(m, o)
<1>1. Program!InstrSet(m, o) = InstrSet(m, o) /\ Program!InstrLea(m, o) = InstrLea(m, o)
  BY SameReads DEF Program!InstrSet, InstrSet, Program!InstrLea, InstrLea
<1>2. Program!InstrStore(m, o) = InstrStore(m, o)
  BY SameReads, SameArrays DEF Program!InstrStore, InstrStore
<1>3. Program!InstrLoad(m, o) = InstrLoad(m, o)
  BY SameReads, SameArrays DEF Program!InstrLoad, InstrLoad
<1>4. Program!InstrUndef(m, o) = InstrUndef(m, o)
  BY SameArrays DEF Program!InstrUndef, InstrUndef
<1>5. Program!InstrArray(m, o) = InstrArray(m, o)
  BY SameReads DEF Program!InstrArray, InstrArray, Program!SetItem, SetItem
<1>6. Program!InstrRetReg(m, o) = InstrRetReg(m, o)
  BY SameReads DEF Program!InstrRetReg, InstrRetReg, Program!SetItem, SetItem
<1>7. Program!InstrRetArr(m, o) = InstrRetArr(m, o)
  BY SameReads DEF Program!InstrRetArr, InstrRetArr, Program!SetItem, SetItem
<1>8. QED
  BY <1>1, <1>2, <1>3, <1>4, <1>5, <1>6, <1>7

LEMMA SameClassical ==
  ASSUME NEW m, NEW op, NEW o
  PROVE  /\ Program!BinaryClassicalInstr(m, op, o) = BinaryClassicalInstr(m, op, o)
         /\ Program!BranchInstr(m, op, o) = BranchInstr(m, op, o)
         /\ Program!WaitSlice(m, op, o) = WaitSlice(m, op, o)
         /\ Program!WaitSingle(m, o) = WaitSingle(m, o)
<1>1. \A a, b, mod : Program!ComputeBinaryClassical(op, a, b, mod) = ComputeBinaryClassical(op, a, b, mod)
  BY DEF Program!ComputeBinaryClassical, ComputeBinaryClassical
<1>2. Program!BinaryClassicalInstr(m, op, o) = BinaryClassicalInstr(m, op, o)
  BY <1>1, SameReads DEF Program!BinaryClassicalInstr, BinaryClassicalInstr
<1>3. \A a, b : Program!CheckCondition(op, a, b) = CheckCondition(op, a, b)
  BY DEF Program!CheckCondition, CheckCondition
<1>4. Program!BranchInstr(m, op, o) = BranchInstr(m, op, o)
  BY <1>3, SameReads DEF Program!BranchInstr, BranchInstr
<1>5. \A l, s, t : Program!Slice(l, s, t) = Slice(l, s, t)
  BY DEF Program!Slice, Slice, Program!Position, Position
<1>6. Program!WaitSlice(m, op, o) = WaitSlice(m, op, o)
  BY <1>5, SameReads DEF Program!WaitSlice, WaitSlice
<1>7. Program!WaitSingle(m, o) = WaitSingle(m, o)
  BY SameReads, SameArrays DEF Program!WaitSingle, WaitSingle
<1>8. QED
  BY <1>2, <1>4, <1>6, <1>7

LEMMA SameQuantum ==
  ASSUME NEW m, NEW op, NEW o
  PROVE  /\ Program!InstrQAlloc(m, o) = InstrQAlloc(m, o)
         /\ Program!InstrQFree(m, o) = InstrQFree(m, o)
         /\ Program!InstrMeas(m, o) = InstrMeas(m, o)
         /\ Program!SingleQubitInstr(m, op, o) = SingleQubitInstr(m, op, o)
         /\ Program!RotationInstr(m, op, o) = RotationInstr(m, op, o)
         /\ Program!TwoQubitInstr(m, op, o) = TwoQubitInstr(m, op, o)
         /\ Program!ControlledRotationInstr(m, op, o) = ControlledRotationInstr(m, op, o)
<1>1. Program!InstrQAlloc(m, o) = InstrQAlloc(m, o)
  BY SameReads DEF Program!InstrQAlloc, InstrQAlloc
<1>2. Program!InstrQFree(m, o) = InstrQFree(m, o)
  BY SameReads DEF Program!InstrQFree, InstrQFree, Program!At, At
<1>3. Program!InstrMeas(m, o) = InstrMeas(m, o)
  BY SameReads DEF Program!InstrMeas, InstrMeas, Program!At, At, Program!Slots, Slots
<1>4. Program!SingleQubitInstr(m, op, o) = SingleQubitInstr(m, op, o)
  BY SameReads DEF Program!SingleQubitInstr, SingleQubitInstr, Program!At, At, Program!Slots, Slots
<1>5. Program!RotationInstr(m, op, o) = RotationInstr(m, op, o)
  BY SameReads DEF Program!RotationInstr, RotationInstr, Program!Turning, Turning, Program!Slots, Slots
<1>6. Program!TwoQubitInstr(m, op, o) = TwoQubitInstr(m, op, o)
  BY SameReads DEF Program!TwoQubitInstr, TwoQubitInstr, Program!At, At, Program!Slots, Slots
<1>7. Program!ControlledRotationInstr(m, op, o) = ControlledRotationInstr(m, op, o)
  BY SameReads DEF Program!ControlledRotationInstr, ControlledRotationInstr,
                   Program!Turning, Turning, Program!Slots, Slots
<1>8. QED
  BY <1>1, <1>2, <1>3, <1>4, <1>5, <1>6, <1>7

LEMMA SameEntanglement ==
  ASSUME NEW m, NEW o
  PROVE  /\ Program!InstrCreateEpr(m, o) = InstrCreateEpr(m, o)
         /\ Program!InstrRecvEpr(m, o) = InstrRecvEpr(m, o)
<1>1. Program!InstrCreateEpr(m, o) = InstrCreateEpr(m, o)
  BY SameReads DEF Program!InstrCreateEpr, InstrCreateEpr, Program!Request, Request,
       Program!SER_CREATE_LEN, SER_CREATE_LEN, Program!IDX_TYPE, IDX_TYPE, Program!TypeK, TypeK,
       Program!IDX_NUMBER, IDX_NUMBER
<1>2. Program!InstrRecvEpr(m, o) = InstrRecvEpr(m, o)
  BY SameReads DEF Program!InstrRecvEpr, InstrRecvEpr, Program!Request, Request,
       Program!TypeK, TypeK, Program!OK_FIELDS, OK_FIELDS
<1>3. QED
  BY <1>1, <1>2

LEMMA SameExecution ==
  ASSUME NEW m, NEW command
  PROVE  Program!ExecuteCommand(m, command) = ExecuteCommand(m, command)
<1>1. PICK op : op = command.mnemonic
  OBVIOUS
<1>2. PICK o : o = command.operands
  OBVIOUS
<1>3. Program!Handle(m, op, o) = Handle(m, op, o)
  BY SameReads, SameMemory, SameClassical, SameQuantum, SameEntanglement DEF Program!Handle, Handle
<1>4. QED
  BY <1>1, <1>2, <1>3, SameReads, SameClassical
     DEF Program!ExecuteCommand, ExecuteCommand, Program!Branches, Branches


-----------------------------------------------------------------------------
(* The instructions that the node controller has.                          *)

\* An operand as it is loaded: its label and its template replaced.
Resolved(s, off, a, op) ==
  LET u == Updated(s, off, op) IN IF u.kind = "template" THEN Immediate(a[u.template]) ELSE u

Spares(s, i) == Temporary(Plain(s[i]), FreeRegisters(MakeArgsOperands(s)))

Slot(s, i, k) == ConstantSlots(Plain(s[i]))[k]

LEMMA InstructionFacts ==
  ASSUME NEW s, NEW off, InPlace(s, off), NEW a, NEW p \in 1 .. Len(Assembled(s)),
         NEW c, NEW ops, Assembled(s)[p] = [mnemonic |-> c.mnemonic,
                                   operands |-> [j \in DOMAIN ops |-> Updated(s, off, ops[j])]]
  PROVE  LET ins == Instantiate(Assembled(s), a)
         IN /\ DOMAIN ins = 1 .. off[Len(s)]
            /\ ins[p].mnemonic = c.mnemonic
            /\ ins[p].operands = [j \in DOMAIN ops |-> Resolved(s, off, a, ops[j])]
<1>1. PICK out : out = Assembled(s)
  OBVIOUS
<1>2. PICK ins : ins = Instantiate(out, a)
  OBVIOUS
<1> DEFINE value(op) == IF op.kind = "template" THEN Immediate(a[op.template]) ELSE op
<1>3. ins = [i \in DOMAIN out |->
              [mnemonic |-> out[i].mnemonic,
               operands |-> [j \in DOMAIN out[i].operands |-> value(out[i].operands[j])]]]
  BY <1>2 DEF Instantiate
<1>4. \A op : value(Updated(s, off, op)) = Resolved(s, off, a, op)
  BY DEF Resolved
<1> HIDE DEF value
<1>5. DOMAIN out = 1 .. off[Len(s)] /\ p \in DOMAIN out
  BY <1>1, SequenceFacts DEF InPlace
<1>6. out[p].mnemonic = c.mnemonic /\ out[p].operands = [j \in DOMAIN ops |-> Updated(s, off, ops[j])]
  BY <1>1
<1>7. ins[p].mnemonic = c.mnemonic
      /\ ins[p].operands = [j \in DOMAIN out[p].operands |-> value(out[p].operands[j])]
  BY <1>3, <1>5, <1>6
<1>8. DOMAIN out[p].operands = DOMAIN ops
      /\ \A j \in DOMAIN ops : value(out[p].operands[j]) = Resolved(s, off, a, ops[j])
  BY <1>4, <1>6
<1>9. ins[p].operands = [j \in DOMAIN ops |-> Resolved(s, off, a, ops[j])]
  BY <1>7, <1>8
<1>10. DOMAIN ins = 1 .. off[Len(s)]
  BY <1>3, <1>5
<1>11. QED
  BY <1>1, <1>2, <1>7, <1>9, <1>10

\* The n instructions before that of command i set spare registers to its constants.
Loads(s, off, a, ins, i, n) ==
  LET at  == off[i - 1]
      tmp == Spares(s, i)
  IN  /\ n \in Nat /\ at \in Nat /\ off[i] = at + n + 1 /\ DOMAIN ins = 1 .. off[Len(s)]
      /\ \A k \in 1 .. n + 1 : at + k \in 1 .. off[Len(s)]
      /\ DOMAIN tmp = { Slot(s, i, k) : k \in 1 .. n }
      /\ \A x \in DOMAIN tmp : IsSlot(Plain(s[i]), x) /\ Spare(MakeArgsOperands(s), tmp[x])
      /\ \A x, y \in DOMAIN tmp : tmp[x] = tmp[y] => x = y
      /\ \A k \in 1 .. n :
           /\ ins[at + k].mnemonic = "set"
           /\ ins[at + k].operands[1] = tmp[Slot(s, i, k)]
           /\ ins[at + k].operands[2] = SlotValue(Plain(s[i]), Slot(s, i, k))
      /\ ins[at + n + 1].mnemonic = s[i].mnemonic
      /\ ins[at + n + 1].operands
           = [j \in DOMAIN Operands(s[i]) |->
                Resolved(s, off, a, FillSlots(j, Operands(s[i])[j], tmp))]

LEMMA LoadingFacts ==
  ASSUME NEW s, Parsed(s), NEW off, InPlace(s, off), NEW a, NEW i \in 1 .. Len(s), ~ IsLabel(s[i]),
         EnoughRegisters(MakeArgsOperands(s))
  PROVE  Loads(s, off, a, Instantiate(Assembled(s), a), i, Size(s[i]) - 1)
<1>1. DOMAIN s = 1 .. Len(s) /\ Len(s) \in Nat
  BY SequenceFacts DEF Parsed
<1>2. PICK cmd : cmd = Plain(s[i])
  OBVIOUS
<1>3. PICK cmds : cmds = MakeArgsOperands(s)
  OBVIOUS
<1>4. IsSequence(cmd.operands) /\ ~ IsLabel(cmd) /\ cmd.mnemonic = s[i].mnemonic /\ cmd.operands = Operands(s[i])
  BY <1>1, <1>2, PlainFacts DEF Parsed
<1>5. PICK free : free = FreeRegisters(cmds)
  OBVIOUS
<1>6. PICK slots : slots = ConstantSlots(cmd)
  OBVIOUS
<1>7. PICK tmp : tmp = Temporary(cmd, free)
  OBVIOUS
<1>8. PICK n \in Nat : n = Len(slots) /\ Size(s[i]) = n + 1 /\ Size(s[i]) - 1 = n
  <2>1. IsSequence(slots)
    BY <1>4, <1>6, SlotFacts
  <2>2. Len(slots) \in Nat
    BY <2>1, SequenceFacts
  <2>3. Size(s[i]) = Len(slots) + 1
    BY <1>2, <1>6 DEF Size
  <2>4. QED
    BY <2>2, <2>3
<1>9. Len(slots) <= Len(free)
  <2>1. cmds[i] = cmd /\ i \in DOMAIN cmds
    BY <1>1, <1>2, <1>3 DEF MakeArgsOperands, Plain, Operands
  <2>2. QED
    BY <1>3, <1>4, <1>5, <1>6, <2>1 DEF EnoughRegisters
<1>10. /\ DOMAIN tmp = {slots[k] : k \in 1 .. n}
       /\ \A x \in DOMAIN tmp : IsSlot(cmd, x) /\ Spare(cmds, tmp[x])
       /\ \A x, y \in DOMAIN tmp : tmp[x] = tmp[y] => x = y
  <2>1. Len(ConstantSlots(cmd)) <= Len(FreeRegisters(cmds))
    BY <1>5, <1>6, <1>9
  <2>2. LET t == Temporary(cmd, FreeRegisters(cmds))
            w == ConstantSlots(cmd)
        IN /\ DOMAIN t = {w[k] : k \in 1 .. Len(w)}
           /\ \A x \in DOMAIN t : IsSlot(cmd, x) /\ Spare(cmds, t[x])
           /\ \A x, y \in DOMAIN t : t[x] = t[y] => x = y
    BY <1>4, <2>1, TemporaryFacts
  <2>3. QED
    BY <1>5, <1>6, <1>7, <1>8, <2>2
<1>11. /\ \A k \in 1 .. n : Expanded(s, i)[k] = SetSlot(cmd, free, k)
       /\ Expanded(s, i)[n + 1] = Body(cmd, free)
  BY <1>1, <1>2, <1>3, <1>5, <1>8, ExpandedFacts
<1>12. PICK ins : ins = Instantiate(Assembled(s), a)
  OBVIOUS
<1>13. PICK at \in Nat : at = off[i - 1] /\ off[i] = at + n + 1
  <2>1. off[i - 1] \in Nat /\ off[i] = off[i - 1] + Size(s[i])
    BY <1>1 DEF InPlace, Laid
  <2>2. QED
    BY <1>8, <2>1
<1>14. ASSUME NEW k \in 1 .. n + 1, NEW c, c = Expanded(s, i)[k]
       PROVE  /\ DOMAIN ins = 1 .. off[Len(s)] /\ at + k \in 1 .. off[Len(s)]
              /\ ins[at + k].mnemonic = c.mnemonic
              /\ ins[at + k].operands = [j \in DOMAIN c.operands |-> Resolved(s, off, a, c.operands[j])]
  <2>1. /\ at + k \in 1 .. Len(Assembled(s)) /\ Len(Assembled(s)) = off[Len(s)]
        /\ Assembled(s)[at + k] = [mnemonic |-> c.mnemonic,
              operands |-> [j \in DOMAIN c.operands |-> Updated(s, off, c.operands[j])]]
    BY <1>8, <1>13, <1>14 DEF InPlace
  <2>2. QED
    BY <1>12, <2>1, InstructionFacts
<1>15. ASSUME NEW k \in 1 .. n
       PROVE  /\ ins[at + k].mnemonic = "set"
              /\ ins[at + k].operands[1] = tmp[slots[k]]
              /\ ins[at + k].operands[2] = SlotValue(cmd, slots[k])
  <2>1. PICK c : c = Expanded(s, i)[k]
    OBVIOUS
  <2>2. c.mnemonic = "set" /\ c.operands = << tmp[slots[k]], SlotValue(cmd, slots[k]) >>
    <3>1. SetSlot(cmd, free, k) = Cmd("set", << tmp[slots[k]], SlotValue(cmd, slots[k]) >>)
      BY <1>6, <1>7 DEF SetSlot
    <3>2. c = Cmd("set", << tmp[slots[k]], SlotValue(cmd, slots[k]) >>)
      BY <1>11, <2>1, <3>1
    <3>3. QED
      BY <3>2 DEF Cmd
  <2>3. ins[at + k].mnemonic = "set"
        /\ ins[at + k].operands = [j \in DOMAIN c.operands |-> Resolved(s, off, a, c.operands[j])]
    BY <1>14, <2>1, <2>2
  <2>4. slots[k] \in DOMAIN tmp
    BY <1>10
  <2>5. \A op : op.kind \in {"reg", "imm"} => Resolved(s, off, a, op) = op
    BY DEF Resolved, Updated
  <2>6. tmp[slots[k]].kind = "reg"
    BY <1>10, <2>4 DEF Spare
  <2>7. SlotValue(cmd, slots[k]).kind = "imm"
    <3>1. IsSlot(cmd, slots[k])
      BY <1>10, <2>4
    <3>2. QED
      BY <3>1 DEF IsSlot, SlotValue
  <2>8. 1 \in DOMAIN c.operands /\ 2 \in DOMAIN c.operands
        /\ c.operands[1] = tmp[slots[k]] /\ c.operands[2] = SlotValue(cmd, slots[k])
    BY <2>2
  <2>9. QED
    BY <2>3, <2>5, <2>6, <2>7, <2>8
<1>16. /\ ins[at + n + 1].mnemonic = s[i].mnemonic
       /\ ins[at + n + 1].operands
            = [j \in DOMAIN Operands(s[i]) |-> Resolved(s, off, a, FillSlots(j, Operands(s[i])[j], tmp))]
  <2>1. PICK c : c = Expanded(s, i)[n + 1]
    OBVIOUS
  <2>2. c.mnemonic = cmd.mnemonic /\ c.operands = [j \in DOMAIN cmd.operands |-> FillSlots(j, cmd.operands[j], tmp)]
    BY <1>7, <1>11, <2>1 DEF Body, Cmd
  <2>3. n + 1 \in 1 .. n + 1 /\ at + n + 1 = at + (n + 1)
    BY <1>13
  <2>4. ins[at + n + 1].mnemonic = c.mnemonic
        /\ ins[at + n + 1].operands = [j \in DOMAIN c.operands |-> Resolved(s, off, a, c.operands[j])]
    BY <1>14, <2>1, <2>3
  <2>5. QED
    BY <1>4, <2>2, <2>4
<1>17. /\ \A k \in 1 .. n : slots[k] = Slot(s, i, k)
       /\ tmp = Spares(s, i)
  BY <1>2, <1>3, <1>5, <1>6, <1>7 DEF Slot, Spares
<1>18. n + 1 \in 1 .. n + 1 /\ Expanded(s, i)[n + 1] = Expanded(s, i)[n + 1]
  BY <1>8
<1>19. DOMAIN ins = 1 .. off[Len(s)]
  BY <1>14, <1>18
<1>20. \A k \in 1 .. n + 1 : at + k \in 1 .. off[Len(s)]
  BY <1>14
<1>21. {slots[k] : k \in 1 .. n} = {Slot(s, i, k) : k \in 1 .. n}
  BY <1>17
<1>22. /\ n \in Nat /\ at \in Nat /\ off[i] = at + n + 1 /\ DOMAIN ins = 1 .. off[Len(s)]
       /\ \A k \in 1 .. n + 1 : at + k \in 1 .. off[Len(s)]
       /\ DOMAIN tmp = { Slot(s, i, k) : k \in 1 .. n }
       /\ \A x \in DOMAIN tmp : IsSlot(cmd, x) /\ Spare(cmds, tmp[x])
       /\ \A x, y \in DOMAIN tmp : tmp[x] = tmp[y] => x = y
       /\ \A k \in 1 .. n :
            /\ ins[at + k].mnemonic = "set"
            /\ ins[at + k].operands[1] = tmp[Slot(s, i, k)]
            /\ ins[at + k].operands[2] = SlotValue(cmd, Slot(s, i, k))
       /\ ins[at + n + 1].mnemonic = s[i].mnemonic
       /\ ins[at + n + 1].operands
            = [j \in DOMAIN Operands(s[i]) |-> Resolved(s, off, a, FillSlots(j, Operands(s[i])[j], tmp))]
  <2>1. \A k \in 1 .. n :
            /\ ins[at + k].mnemonic = "set"
            /\ ins[at + k].operands[1] = tmp[Slot(s, i, k)]
            /\ ins[at + k].operands[2] = SlotValue(cmd, Slot(s, i, k))
    BY <1>15, <1>17
  <2>2. QED
    BY <1>10, <1>13, <1>16, <1>19, <1>20, <1>21, <2>1
<1>23. QED
  <2>1. Loads(s, off, a, ins, i, n)
    BY <1>2, <1>3, <1>13, <1>17, <1>22 DEF Loads
  <2>2. QED
    BY <1>8, <1>12, <2>1


-----------------------------------------------------------------------------
(* What an operand of an instruction is to the machine, that of the source *)
(* command is to the program.                                              *)

Named(s) == CurrentRegisters(MakeArgsOperands(s))

\* The machine has loaded the constants in front of command i, up to the k-th.
Loaded(m, s, i, k) ==
  \A l \in 1 .. k : GetRegister(m, Spares(s, i)[Slot(s, i, l)]) = SlotValue(Plain(s[i]), Slot(s, i, l)).value

\* Program!Meaning and Program!Command for any source and arguments.
Meant(s, a, op) ==
  CASE op.kind = "label"    -> Immediate(Program!NextCommand(s, Program!LabelPosition(s, op.label)))
    [] op.kind = "template" -> Immediate(a[op.template])
    [] OTHER -> op

MeantCommand(s, a, i) ==
  [mnemonic |-> s[i].mnemonic, operands |-> [j \in DOMAIN Operands(s[i]) |-> Meant(s, a, Operands(s[i])[j])]]

LEMMA CommandIsMeant ==
  ASSUME NEW i
  PROVE  Program!Command(i) = MeantCommand(source, arguments, i)
<1>1. \A op : Program!Meaning(op) = Meant(source, arguments, op)
  BY DEF Program!Meaning, Meant, Program!Immediate, Immediate
<1>2. PICK ops : ops = source[i].args \o source[i].operands
  OBVIOUS
<1>3. Program!Command(i)
        = [mnemonic |-> source[i].mnemonic, operands |-> [j \in DOMAIN ops |-> Program!Meaning(ops[j])]]
  BY <1>2 DEF Program!Command
<1>4. MeantCommand(source, arguments, i)
        = [mnemonic |-> source[i].mnemonic, operands |-> [j \in DOMAIN ops |-> Meant(source, arguments, ops[j])]]
  BY <1>2 DEF MeantCommand, Operands
<1>5. QED
  BY <1>1, <1>3, <1>4

LEMMA SlotOfOperand ==
  ASSUME NEW cmd, NEW j, NEW attr, IsSlot(cmd, << j, attr >>)
  PROVE  /\ attr = "self" => cmd.operands[j].kind = "imm"
         /\ attr = "index" => cmd.operands[j].kind = "entry" /\ cmd.operands[j].index.kind = "imm"
         /\ attr = "start" => cmd.operands[j].kind = "slice" /\ cmd.operands[j].start.kind = "imm"
         /\ attr = "stop" => cmd.operands[j].kind = "slice" /\ cmd.operands[j].stop.kind = "imm"
BY DEF IsSlot

LEMMA SlotValueIs ==
  ASSUME NEW cmd, NEW j
  PROVE  /\ SlotValue(cmd, << j, "self" >>) = cmd.operands[j]
         /\ SlotValue(cmd, << j, "index" >>) = cmd.operands[j].index
         /\ SlotValue(cmd, << j, "start" >>) = cmd.operands[j].start
         /\ SlotValue(cmd, << j, "stop" >>) = cmd.operands[j].stop
BY DEF SlotValue

\* A spare register with its constant, or a register that the program names.
Fills(N, m, filled, part) ==
  \/ filled.kind = "reg" /\ part.kind = "imm" /\ GetRegister(m, filled) = part.value
  \/ filled.kind = "reg" /\ filled = part /\ part \in N

LEMMA PartAgrees ==
  ASSUME NEW N, NEW pc, NEW q, NEW m, NEW v, Mirror(N, pc, q, m, v), NEW filled, NEW part,
         Fills(N, m, filled, part)
  PROVE  Val(m, filled) = Val(v, part)
<1>1. CASE filled.kind = "reg" /\ part.kind = "imm" /\ GetRegister(m, filled) = part.value
  BY <1>1 DEF Val
<1>2. CASE filled.kind = "reg" /\ filled = part /\ part \in N
  <2>1. GetRegister(v, part) = GetRegister(m, part)
    BY <1>2, NamedValue
  <2>2. QED
    BY <1>2, <2>1 DEF Val
<1>3. QED
  BY <1>1, <1>2 DEF Fills

LEMMA OperandAgrees ==
  ASSUME NEW N, NEW pc, NEW q, NEW m, NEW v, Mirror(N, pc, q, m, v),
         NEW s, NEW off, NEW a, NEW cmd, NEW j, NEW w, w = cmd.operands[j], w.kind # "label",
         w.kind = "reg" => w \in N,
         \A r \in Indexing(w) : r.kind = "reg" => r \in N,
         NEW tmp,
         \A x \in DOMAIN tmp : IsSlot(cmd, x) /\ tmp[x].kind = "reg"
                                 /\ GetRegister(m, tmp[x]) = SlotValue(cmd, x).value,
         NEW o, o = Resolved(s, off, a, FillSlots(j, w, tmp)),
         NEW field \in {"reg", "imm", "int", "addr", "entry", "slice"}, FieldKeeps(field, o)
  PROVE  Agree(m, v, o, Meant(s, a, w))
<1>1. /\ field = "reg" => o.kind = "reg"
      /\ field \in {"imm", "int"} => o.kind = "imm"
      /\ field = "addr" => o.kind = "addr"
      /\ field = "entry" => o.kind = "entry" /\ o.index.kind = "reg"
      /\ field = "slice" => o.kind = "slice" /\ o.start.kind = "reg" /\ o.stop.kind = "reg"
  BY KeptKinds
<1> DEFINE filled(attr, part) == IF << j, attr >> \in DOMAIN tmp THEN tmp[<< j, attr >>] ELSE part
<1>6. ASSUME NEW attr, NEW x, x = << j, attr >>, x \in DOMAIN tmp
      PROVE  /\ attr = "self" => w.kind = "imm" /\ GetRegister(m, tmp[x]) = w.value
             /\ attr = "index" => w.index.kind = "imm" /\ GetRegister(m, tmp[x]) = w.index.value
             /\ attr = "start" => w.start.kind = "imm" /\ GetRegister(m, tmp[x]) = w.start.value
             /\ attr = "stop" => w.stop.kind = "imm" /\ GetRegister(m, tmp[x]) = w.stop.value
  <2>1. IsSlot(cmd, x) /\ GetRegister(m, tmp[x]) = SlotValue(cmd, x).value
    BY <1>6
  <2>2. IsSlot(cmd, << j, attr >>) /\ GetRegister(m, tmp[x]) = SlotValue(cmd, << j, attr >>).value
    BY <1>6, <2>1
  <2>3. /\ attr = "self" => cmd.operands[j].kind = "imm"
        /\ attr = "index" => cmd.operands[j].kind = "entry" /\ cmd.operands[j].index.kind = "imm"
        /\ attr = "start" => cmd.operands[j].kind = "slice" /\ cmd.operands[j].start.kind = "imm"
        /\ attr = "stop" => cmd.operands[j].kind = "slice" /\ cmd.operands[j].stop.kind = "imm"
    BY <2>2, SlotOfOperand
  <2>4. /\ SlotValue(cmd, << j, "self" >>) = w
        /\ SlotValue(cmd, << j, "index" >>) = w.index
        /\ SlotValue(cmd, << j, "start" >>) = w.start
        /\ SlotValue(cmd, << j, "stop" >>) = w.stop
    BY SlotValueIs
  <2>5. QED
    BY <2>2, <2>3, <2>4
<1>2. CASE w.kind = "entry"
  <2>1. PICK f : f = filled("index", w.index)
    OBVIOUS
  <2>2. FillSlots(j, w, tmp) = ArrayEntry(w.addr, f)
    BY <1>2, <2>1 DEF FillSlots
  <2>3. o = ArrayEntry(w.addr, f)
    BY <2>2 DEF Resolved, Updated, ArrayEntry
  <2>4. o.kind = "entry" /\ o.addr = w.addr /\ o.index = f
    BY <2>3 DEF ArrayEntry
  <2>5. f.kind = "reg"
    BY <1>1, <2>4
  <2>6. << j, "index" >> \in DOMAIN tmp =>
          w.index.kind = "imm" /\ GetRegister(m, tmp[<< j, "index" >>]) = w.index.value
    BY <1>6
  <2>7. w.index.kind = "reg" => w.index \in N
    BY <1>2 DEF Indexing
  <2>8. Val(m, f) = Val(v, w.index)
    <3>1. Fills(N, m, f, w.index)
      BY <2>1, <2>5, <2>6, <2>7 DEF Fills
    <3>2. QED
      BY <3>1, PartAgrees
  <2>9. Meant(s, a, w) = w
    BY <1>2 DEF Meant
  <2>10. QED
    BY <2>4, <2>8, <2>9 DEF Agree, SameEntry
<1>3. CASE w.kind = "slice"
  <2>1. PICK f : f = filled("start", w.start)
    OBVIOUS
  <2>2. PICK g : g = filled("stop", w.stop)
    OBVIOUS
  <2>3. FillSlots(j, w, tmp) = ArraySlice(w.addr, f, g)
    BY <1>3, <2>1, <2>2 DEF FillSlots
  <2>4. o = ArraySlice(w.addr, f, g)
    BY <2>3 DEF Resolved, Updated, ArraySlice
  <2>5. o.kind = "slice" /\ o.addr = w.addr /\ o.start = f /\ o.stop = g
    BY <2>4 DEF ArraySlice
  <2>6. f.kind = "reg" /\ g.kind = "reg"
    BY <1>1, <2>5
  <2>7. << j, "start" >> \in DOMAIN tmp =>
          w.start.kind = "imm" /\ GetRegister(m, tmp[<< j, "start" >>]) = w.start.value
    BY <1>6
  <2>8. << j, "stop" >> \in DOMAIN tmp =>
          w.stop.kind = "imm" /\ GetRegister(m, tmp[<< j, "stop" >>]) = w.stop.value
    BY <1>6
  <2>9. (w.start.kind = "reg" => w.start \in N) /\ (w.stop.kind = "reg" => w.stop \in N)
    BY <1>3 DEF Indexing
  <2>10. Val(m, f) = Val(v, w.start)
    <3>1. Fills(N, m, f, w.start)
      BY <2>1, <2>6, <2>7, <2>9 DEF Fills
    <3>2. QED
      BY <3>1, PartAgrees
  <2>11. Val(m, g) = Val(v, w.stop)
    <3>1. Fills(N, m, g, w.stop)
      BY <2>2, <2>6, <2>8, <2>9 DEF Fills
    <3>2. QED
      BY <3>1, PartAgrees
  <2>12. Meant(s, a, w) = w
    BY <1>3 DEF Meant
  <2>13. QED
    BY <2>5, <2>10, <2>11, <2>12 DEF Agree, SameSlice
<1>4. CASE w.kind \notin {"entry", "slice"}
  <2>1. PICK f : f = filled("self", w)
    OBVIOUS
  <2>2. o = Resolved(s, off, a, f)
    BY <1>4, <2>1 DEF FillSlots
  <2>3. << j, "self" >> \in DOMAIN tmp =>
          w.kind = "imm" /\ GetRegister(m, tmp[<< j, "self" >>]) = w.value
    BY <1>6
  <2>4. CASE << j, "self" >> \in DOMAIN tmp
    <3>1. f.kind = "reg" /\ f = tmp[<< j, "self" >>] /\ w.kind = "imm"
      BY <2>1, <2>3, <2>4
    <3>2. o = f /\ Meant(s, a, w) = w
      BY <2>2, <3>1 DEF Resolved, Updated, Meant
    <3>3. Val(m, o) = Val(v, w)
      BY <2>3, <2>4, <3>1, <3>2 DEF Val
    <3>4. QED
      BY <3>1, <3>2, <3>3 DEF Agree
  <2>5. CASE << j, "self" >> \notin DOMAIN tmp /\ w.kind = "template"
    <3>1. f = w
      BY <2>1, <2>5
    <3>2. o = Immediate(a[w.template]) /\ Meant(s, a, w) = Immediate(a[w.template])
      BY <2>2, <2>5, <3>1 DEF Resolved, Updated, Meant
    <3>3. o.kind = "imm"
      BY <3>2 DEF Immediate
    <3>4. QED
      BY <3>2, <3>3 DEF Agree
  <2>6. CASE << j, "self" >> \notin DOMAIN tmp /\ w.kind # "template"
    <3>1. f = w
      BY <2>1, <2>6
    <3>2. o = w /\ Meant(s, a, w) = w
      BY <2>2, <2>6, <3>1 DEF Resolved, Updated, Meant
    <3>3. w.kind = "reg" => Val(m, w) = Val(v, w)
      BY NamedValue DEF Val
    <3>4. QED
      BY <1>4, <3>2, <3>3 DEF Agree
  <2>7. QED
    BY <2>4, <2>5, <2>6
<1>5. QED
  BY <1>2, <1>3, <1>4


\* The label of a branch names the command that follows it, in the code and in the source.
LEMMA LabelAgrees ==
  ASSUME NEW s, Parsed(s), LabelsUnique(s), NEW off, Laid(s, off), NEW a, NEW w, w.kind = "label",
         NEW o, o = Resolved(s, off, a, w), o.kind # "label"
  PROVE  \E u \in 1 .. Len(s) + 1 : o.value = off[u - 1] /\ Meant(s, a, w).value = u
<1>1. DOMAIN s = 1 .. Len(s) /\ Len(s) \in Nat
  BY SequenceFacts DEF Parsed
<1>2. \E l \in Labels(s) : s[l].label = w.label
  BY DEF Resolved, Updated
<1>3. PICK l : l = CHOOSE x \in Labels(s) : s[x].label = w.label
  OBVIOUS
<1>4. l \in Labels(s) /\ s[l].label = w.label
  BY <1>2, <1>3
<1>5. o = Immediate(off[l - 1])
  <2>1. Updated(s, off, w) = Immediate(off[l - 1])
    BY <1>2, <1>3 DEF Updated
  <2>2. QED
    BY <2>1 DEF Resolved, Immediate
<1>6. l \in 1 .. Len(s) /\ IsLabel(s[l])
  BY <1>1, <1>4 DEF Labels
<1>7. Program!LabelPosition(s, w.label) = l
  <2>1. PICK k : k = CHOOSE x \in DOMAIN s : IsLabel(s[x]) /\ s[x].label = w.label
    OBVIOUS
  <2>2. k \in DOMAIN s /\ IsLabel(s[k]) /\ s[k].label = w.label
    BY <1>1, <1>4, <1>6, <2>1
  <2>3. k = l
    BY <1>1, <1>4, <1>6, <2>2 DEF LabelsUnique
  <2>4. Program!LabelPosition(s, w.label) = k
    BY <2>1 DEF Program!LabelPosition, Program!IsLabel, IsLabel
  <2>5. QED
    BY <2>3, <2>4
<1>8. PICK u : u = Program!NextCommand(s, l)
  OBVIOUS
<1>9. l \in 1 .. Len(s) + 1
  BY <1>1, <1>6
<1>10. u \in l .. Len(s) + 1
  BY <1>1, <1>8, <1>9, NextFacts
<1>11. off[u - 1] = off[l - 1]
  BY <1>8, <1>9, NextIsPlaced
<1>12. Meant(s, a, w) = Immediate(u)
  BY <1>7, <1>8 DEF Meant
<1>13. u \in 1 .. Len(s) + 1
  BY <1>1, <1>6, <1>10
<1>14. o.value = off[u - 1] /\ Meant(s, a, w).value = u
  BY <1>5, <1>11, <1>12 DEF Immediate
<1>15. QED
  BY <1>13, <1>14

LEMMA WrittenAreRegisters ==
  ASSUME NEW op
  PROVE  Written(op) \subseteq RegisterOperands(op)
BY DEF Written, RegisterOperands

BodyAgreement(N, m, v, s, off, instr, command) ==
  \E c \in VanillaFlavour \cup CORE_INSTRUCTIONS :
    /\ instr.mnemonic = c.mnemonic /\ command.mnemonic = c.mnemonic
    /\ Agreed(N, m, v, c, instr.operands, command.operands)
    /\ c.mnemonic \in Branches =>
         \E u \in 1 .. Len(s) + 1 :
           /\ instr.operands[Len(instr.operands)].value = off[u - 1]
           /\ command.operands[Len(command.operands)].value = u

LEMMA BodyAgrees ==
  ASSUME NEW N, NEW pc, NEW q, NEW m, NEW v, Mirror(N, pc, q, m, v),
         NEW s, Parsed(s), CanAssemble(s), WellWritten(s), N = Named(s), NEW off, InPlace(s, off), NEW a,
         NEW i \in 1 .. Len(s), ~ IsLabel(s[i]), Loaded(m, s, i, Size(s[i]) - 1),
         NEW instr, instr = Instantiate(Assembled(s), a)[off[i - 1] + Size(s[i])], FitsItsFields(instr),
         NEW command, command = MeantCommand(s, a, i)
  PROVE  BodyAgreement(N, m, v, s, off, instr, command)
<1>1. DOMAIN s = 1 .. Len(s) /\ Len(s) \in Nat
  BY SequenceFacts DEF Parsed
<1>2. PICK ops : ops = Operands(s[i])
  OBVIOUS
<1>3. PICK tmp : tmp = Spares(s, i)
  OBVIOUS
<1>4. PICK n \in Nat : n = Size(s[i]) - 1 /\ Size(s[i]) = n + 1
  BY ExpandedFacts
<1>5. PICK p : p = off[i - 1] + Size(s[i])
  OBVIOUS
<1>6. /\ p \in 1 .. off[Len(s)] /\ instr.mnemonic = s[i].mnemonic
      /\ instr.operands = [j \in DOMAIN ops |-> Resolved(s, off, a, FillSlots(j, ops[j], tmp))]
      /\ DOMAIN tmp = { Slot(s, i, k) : k \in 1 .. n }
      /\ \A x \in DOMAIN tmp : IsSlot(Plain(s[i]), x) /\ tmp[x].kind = "reg"
      /\ DOMAIN Instantiate(Assembled(s), a) = 1 .. off[Len(s)]
  <2>1. off[i - 1] \in Nat
    BY <1>1 DEF InPlace, Laid
  <2>2. p = off[i - 1] + n + 1 /\ p = off[i - 1] + (n + 1) /\ n + 1 \in 1 .. n + 1
    <3>1. PICK b \in Nat : b = off[i - 1]
      BY <2>1
    <3>2. p = b + (n + 1)
      BY <1>4, <1>5, <3>1
    <3>3. b + (n + 1) = b + n + 1 /\ n + 1 \in 1 .. n + 1
      OBVIOUS
    <3>4. QED
      BY <3>1, <3>2, <3>3
  <2>3. EnoughRegisters(MakeArgsOperands(s))
    BY DEF CanAssemble
  <2>4. PICK ins : ins = Instantiate(Assembled(s), a)
    OBVIOUS
  <2>5. Loads(s, off, a, ins, i, n)
    <3>1. Loads(s, off, a, Instantiate(Assembled(s), a), i, Size(s[i]) - 1)
      BY <2>3, LoadingFacts
    <3>2. QED
      BY <1>4, <2>4, <3>1
  <2>6. PICK at : at = off[i - 1]
    OBVIOUS
  <2>7. /\ DOMAIN ins = 1 .. off[Len(s)]
        /\ \A k \in 1 .. n + 1 : at + k \in 1 .. off[Len(s)]
        /\ DOMAIN tmp = { Slot(s, i, k) : k \in 1 .. n }
        /\ \A x \in DOMAIN tmp : IsSlot(Plain(s[i]), x) /\ Spare(MakeArgsOperands(s), tmp[x])
        /\ ins[at + n + 1].mnemonic = s[i].mnemonic
        /\ ins[at + n + 1].operands
             = [j \in DOMAIN ops |-> Resolved(s, off, a, FillSlots(j, ops[j], tmp))]
    BY <1>2, <1>3, <2>5, <2>6 DEF Loads
  <2>8. instr = ins[at + n + 1]
    BY <1>5, <2>2, <2>4, <2>6
  <2>9. QED
    BY <2>2, <2>4, <2>6, <2>7, <2>8 DEF Spare
<1>7. PICK c : c = GetInstrByName(VanillaFlavour, s[i].mnemonic)
  OBVIOUS
<1>8. p \in DOMAIN Assembled(s) /\ Assembled(s)[p].mnemonic = s[i].mnemonic
      /\ DOMAIN Assembled(s)[p].operands = DOMAIN instr.operands
  BY <1>5, <1>6 DEF Instantiate
<1>9. PICK z \in Nat : DOMAIN Assembled(s)[p].operands = 1 .. z /\ Len(Assembled(s)[p].operands) = z
  BY <1>8, AssembledOperands
<1>10. HasName(VanillaFlavour, s[i].mnemonic) /\ Len(c.layout) = z
  <2>1. /\ HasName(VanillaFlavour, Assembled(s)[p].mnemonic)
        /\ FromOperands(GetInstrByName(VanillaFlavour, Assembled(s)[p].mnemonic), Assembled(s)[p].operands)
    BY <1>8, BuiltFacts
  <2>2. QED
    BY <1>7, <1>8, <1>9, <2>1 DEF FromOperands
<1>11. c.mnemonic = s[i].mnemonic /\ c.layout \in Seq(DOMAIN Fitting)
  <2>1. s[i].mnemonic # "meas_basis"
    BY <1>6 DEF FitsItsFields
  <2>2. QED
    BY <1>7, <1>10, <2>1, ClassesAreFound
<1>12. c \in VanillaFlavour \cup CORE_INSTRUCTIONS
  <2>1. CASE \E d \in VanillaFlavour : d.mnemonic = s[i].mnemonic
    BY <1>7, <2>1 DEF GetInstrByName
  <2>2. CASE ~ \E d \in VanillaFlavour : d.mnemonic = s[i].mnemonic
    <3>1. \E d \in CORE_INSTRUCTIONS : d.mnemonic = s[i].mnemonic
      BY <1>10, <2>2 DEF HasName
    <3>2. QED
      BY <1>7, <2>2, <3>1 DEF GetInstrByName
  <2>3. QED
    BY <2>1, <2>2
<1>13. DOMAIN c.layout = 1 .. z /\ DOMAIN ops = 1 .. z /\ Len(ops) = z /\ DOMAIN instr.operands = 1 .. z
  <2>1. DOMAIN instr.operands = DOMAIN ops
    BY <1>6
  <2>2. IsSequence(ops)
    <3>1. IsSequence(s[i].args) /\ IsSequence(s[i].operands)
      BY <1>1 DEF Parsed
    <3>2. QED
      BY <1>2, <3>1, Joined DEF Operands
  <2>3. DOMAIN ops = 1 .. Len(ops) /\ Len(ops) \in Nat
    BY <2>2, SequenceFacts
  <2>4. DOMAIN ops = 1 .. z /\ DOMAIN instr.operands = 1 .. z
    BY <1>8, <1>9, <2>1
  <2>5. PICK y \in Nat : y = Len(ops)
    BY <2>3
  <2>6. 1 .. z = 1 .. y /\ z \in Nat /\ y \in Nat
    BY <2>3, <2>4, <2>5
  <2>7. z = y
    BY ONLY <2>6
  <2>8. DOMAIN c.layout = 1 .. z
    BY <1>10, <1>11
  <2>9. QED
    BY <2>4, <2>5, <2>7, <2>8
<1>14. \A j \in 1 .. z : c.layout[j] \in {"reg", "imm", "int", "addr", "entry", "slice"}
                          /\ FieldKeeps(c.layout[j], instr.operands[j])
  <2>1. \A j \in 1 .. z : c.layout[j] \in DOMAIN Fitting
    BY <1>11, <1>13
  <2>2. DOMAIN Fitting = {"reg", "imm", "int", "addr", "entry", "slice"}
    BY DEF Fitting
  <2>3. \A j \in 1 .. z : FieldKeeps(c.layout[j], instr.operands[j])
    BY <1>6, <1>7, <1>13 DEF FitsItsFields
  <2>4. QED
    BY <2>1, <2>2, <2>3
<1>15. command.mnemonic = s[i].mnemonic /\ command.operands = [j \in DOMAIN ops |-> Meant(s, a, ops[j])]
  BY <1>2 DEF MeantCommand
<1>16. \A j \in 1 .. z :
         /\ \A r \in Indexing(ops[j]) : r.kind = "reg" => r \in N
         /\ (ops[j].kind = "label") <=> (c.mnemonic \in Branches /\ j = z)
         /\ j \in Written(c.mnemonic) => ops[j].kind = "reg"
  BY <1>1, <1>2, <1>11, <1>13 DEF WellWritten, Named
<1>17. \A j \in 1 .. z : ops[j].kind = "reg" => ops[j] \in N
  <2>1. PICK cmds : cmds = MakeArgsOperands(s)
    OBVIOUS
  <2>2. DOMAIN cmds = DOMAIN s /\ cmds[i] = Cmd(s[i].mnemonic, ops)
    BY <1>1, <1>2, <2>1 DEF MakeArgsOperands, Operands
  <2>3. cmds[i].operands = ops /\ ~ IsLabel(cmds[i])
    BY <2>2 DEF Cmd, IsLabel
  <2>4. ASSUME NEW j \in 1 .. z, ops[j].kind = "reg"
        PROVE  ops[j] \in N
    <3>1. ops[j] \in ToSet(ops)
      BY <1>13 DEF ToSet
    <3>2. i \in { k \in DOMAIN cmds : ~ IsLabel(cmds[k]) }
      BY <1>1, <2>2, <2>3
    <3>3. ops[j] \in UNION { ToSet(cmds[k].operands) : k \in { l \in DOMAIN cmds : ~ IsLabel(cmds[l]) } }
      BY <2>3, <3>1, <3>2
    <3>4. ops[j] \in CurrentRegisters(cmds)
      BY <2>4, <3>3 DEF CurrentRegisters
    <3>5. QED
      BY <2>1, <3>4 DEF Named
  <2>5. QED
    BY <2>4
<1>18. \A x \in DOMAIN tmp : GetRegister(m, tmp[x]) = SlotValue(Plain(s[i]), x).value
  BY <1>3, <1>4, <1>6 DEF Loaded
<1>19. Plain(s[i]).operands = ops
  BY <1>2 DEF Plain, Cmd
<1>20. \A j \in 1 .. z : instr.operands[j] = Resolved(s, off, a, FillSlots(j, ops[j], tmp))
                          /\ command.operands[j] = Meant(s, a, ops[j])
  BY <1>6, <1>13, <1>15
<1>21. ASSUME NEW j \in 1 .. z, ops[j].kind # "label"
       PROVE  Agree(m, v, instr.operands[j], command.operands[j])
  <2>1. PICK w : w = ops[j]
    OBVIOUS
  <2>2. PICK o : o = Resolved(s, off, a, FillSlots(j, w, tmp))
    OBVIOUS
  <2>3. w = Plain(s[i]).operands[j] /\ w.kind # "label" /\ (w.kind = "reg" => w \in N)
        /\ \A r \in Indexing(w) : r.kind = "reg" => r \in N
    BY <1>16, <1>17, <1>19, <1>21, <2>1
  <2>4. PICK field \in {"reg", "imm", "int", "addr", "entry", "slice"} : FieldKeeps(field, o)
    BY <1>14, <1>20, <2>1, <2>2
  <2>5. Agree(m, v, o, Meant(s, a, w))
    <3>1. \A x \in DOMAIN tmp : IsSlot(Plain(s[i]), x) /\ tmp[x].kind = "reg"
                                /\ GetRegister(m, tmp[x]) = SlotValue(Plain(s[i]), x).value
      BY <1>6, <1>18
    <3>2. PICK cmd : cmd = Plain(s[i])
      OBVIOUS
    <3>3. w = cmd.operands[j] /\ \A x \in DOMAIN tmp : IsSlot(cmd, x) /\ tmp[x].kind = "reg"
                                /\ GetRegister(m, tmp[x]) = SlotValue(cmd, x).value
      BY <2>3, <3>1, <3>2
    <3>4. QED
      BY ONLY Mirror(N, pc, q, m, v), <2>2, <2>3, <2>4, <3>3, OperandAgrees
  <2>6. QED
    BY <1>20, <2>1, <2>2, <2>5
<1>22. ASSUME NEW j \in 1 .. z, ops[j].kind \in {"reg", "label"}
       PROVE  instr.operands[j] = Resolved(s, off, a, ops[j])
  <2>1. << j, "self" >> \notin DOMAIN tmp
    <3>1. IsSlot(Plain(s[i]), << j, "self" >>) => ops[j].kind = "imm"
      BY <1>19, SlotOfOperand
    <3>2. QED
      BY <1>6, <1>22, <3>1
  <2>2. FillSlots(j, ops[j], tmp) = ops[j]
    BY <1>22, <2>1 DEF FillSlots
  <2>3. QED
    BY <1>20, <2>2
<1>23. LayoutSays(c)
  BY <1>12, LayoutsSay
<1>24. ASSUME NEW j \in Written(c.mnemonic)
       PROVE  instr.operands[j] = command.operands[j] /\ command.operands[j] \in N
  <2>1. j \in RegisterOperands(c.mnemonic)
    BY WrittenAreRegisters
  <2>2. j \in 1 .. z
    BY <1>10, <1>23, <2>1 DEF LayoutSays
  <2>3. ops[j].kind = "reg" /\ ops[j] \in N
    BY <1>16, <1>17, <2>2
  <2>4. instr.operands[j] = Resolved(s, off, a, ops[j]) /\ command.operands[j] = Meant(s, a, ops[j])
    BY <1>20, <1>22, <2>2, <2>3
  <2>5. Resolved(s, off, a, ops[j]) = ops[j] /\ Meant(s, a, ops[j]) = ops[j]
    BY <2>3 DEF Resolved, Updated, Meant
  <2>6. QED
    BY <2>3, <2>4, <2>5
<1>25. Agreed(N, m, v, c, instr.operands, command.operands)
  <2>1. \A j \in 1 .. z : \/ j \in ValueOperands(c.mnemonic) /\ c.mnemonic \in Branches
                          \/ Agree(m, v, instr.operands[j], command.operands[j])
    <3>1. ASSUME NEW j \in 1 .. z, ops[j].kind = "label"
          PROVE  j \in ValueOperands(c.mnemonic) /\ c.mnemonic \in Branches
      BY <1>10, <1>16, <1>23, <3>1 DEF LayoutSays
    <3>2. QED
      BY <1>21, <3>1
  <2>2. QED
    BY <1>10, <1>14, <1>24, <2>1 DEF Agreed
<1>26. ASSUME c.mnemonic \in Branches
       PROVE  \E u \in 1 .. Len(s) + 1 :
                /\ instr.operands[Len(instr.operands)].value = off[u - 1]
                /\ command.operands[Len(command.operands)].value = u
  <2>1. z \in 1 .. z
    BY <1>10, <1>23, <1>26 DEF LayoutSays
  <2>2. Len(instr.operands) = z /\ Len(command.operands) = z
    BY <1>6, <1>13, <1>15
  <2>3. PICK w : w = ops[z]
    OBVIOUS
  <2>4. PICK o : o = Resolved(s, off, a, w)
    OBVIOUS
  <2>5. w.kind = "label"
    BY <1>16, <1>26, <2>1, <2>3
  <2>6. instr.operands[z] = o /\ command.operands[z] = Meant(s, a, w)
    BY <1>20, <1>22, <2>1, <2>3, <2>4, <2>5
  <2>7. o.kind # "label"
    <3>1. c.layout[z] \in {"reg", "imm", "int", "addr", "entry", "slice"} /\ FieldKeeps(c.layout[z], o)
      BY <1>14, <2>1, <2>6
    <3>2. QED
      BY <3>1, KeptKinds
  <2>8. LabelsUnique(s) /\ Laid(s, off)
    BY DEF CanAssemble, InPlace
  <2>9. \E u \in 1 .. Len(s) + 1 : o.value = off[u - 1] /\ Meant(s, a, w).value = u
    BY <2>4, <2>5, <2>7, <2>8, LabelAgrees
  <2>10. QED
    BY <2>2, <2>6, <2>9
<1>27. QED
  BY <1>6, <1>11, <1>12, <1>15, <1>25, <1>26 DEF BodyAgreement


-----------------------------------------------------------------------------
(* One turn of the machine is no step of the program, or the whole of one. *)

\* The machine m is k instructions into command i; it was w before that command.
Inside(s, off, m, w, i, k) ==
  /\ i \in 1 .. Len(s) /\ ~ IsLabel(s[i]) /\ k \in 0 .. Size(s[i]) - 1
  /\ m.status = "running" /\ w.pc = off[i - 1]
  /\ Mirror(Named(s), off[i - 1] + k, i, m, View(w, Named(s), i))
  /\ Loaded(m, s, i, k)

Simulated(s, off, m, w) ==
  \/ \E i \in 1 .. Len(s) : \E k \in 0 .. Size(s[i]) - 1 : Inside(s, off, m, w, i, k)
  \/ m = w /\ IsMachine(m) /\ (m.pc = off[Len(s)] \/ m.status # "running")

\* Where the source program is when the machine is w.
PositionOf(s, off, w) == IF w.pc < off[Len(s)] THEN Origins(s)[w.pc + 1] ELSE Len(s) + 1

Boundary(s, off, m) ==
  \/ m.pc \in {0, off[Len(s)]} \/ m.status # "running"
  \/ Origins(s)[m.pc + 1] # Origins(s)[m.pc]

\* Program!StepSource for any source and arguments.
Stepped(s, a, v) ==
  IF v.pc > Len(s) THEN [v EXCEPT !.status = "done"]
  ELSE LET n == ExecuteCommand(v, MeantCommand(s, a, v.pc))
       IN  [n EXCEPT !.pc = IF n.status = "running" THEN Program!NextCommand(s, n.pc) ELSE n.pc]

LEMMA StepSourceIs ==
  ASSUME NEW v
  PROVE  Program!StepSource(v) = Stepped(source, arguments, v)
BY CommandIsMeant, SameExecution DEF Program!StepSource, Stepped

LEMMA CodeIsLaid ==
  ASSUME NEW s, Parsed(s), NEW off, InPlace(s, off)
  PROVE  /\ Len(s) \in Nat /\ Laid(s, off) /\ Traced(s, off) /\ off[Len(s)] \in Nat
         /\ \A a : Len(Instantiate(Assembled(s), a)) = off[Len(s)]
<1>1. DOMAIN s = 1 .. Len(s) /\ Len(s) \in Nat
  BY SequenceFacts DEF Parsed
<1>2. Laid(s, off)
  BY DEF InPlace
<1>3. off[Len(s)] \in Nat
  BY <1>1, <1>2 DEF Laid
<1>4. ASSUME NEW a
      PROVE  Len(Instantiate(Assembled(s), a)) = off[Len(s)]
  <2>1. PICK out : out = Assembled(s)
    OBVIOUS
  <2>2. DOMAIN out = 1 .. off[Len(s)]
    BY <2>1, SequenceFacts DEF InPlace
  <2>3. DOMAIN Instantiate(out, a) = 1 .. off[Len(s)]
    BY <2>2 DEF Instantiate
  <2>4. QED
    BY <1>3, <2>1, <2>3
<1>5. QED
  BY <1>1, <1>2, <1>3, <1>4, OriginsFacts

\* A set instruction puts a constant where the program does not look.
LEMMA LoadStep ==
  ASSUME NEW s, Parsed(s), NEW off, InPlace(s, off), EnoughRegisters(MakeArgsOperands(s)), NEW a,
         NEW m, NEW w, NEW i, NEW k, Inside(s, off, m, w, i, k), k # Size(s[i]) - 1,
         NEW h, h = StepCommands(m, Instantiate(Assembled(s), a))
  PROVE  Inside(s, off, h, w, i, k + 1) /\ ~ Boundary(s, off, h)
<1>1. /\ i \in 1 .. Len(s) /\ ~ IsLabel(s[i]) /\ k \in 0 .. Size(s[i]) - 1
      /\ m.status = "running" /\ w.pc = off[i - 1]
      /\ Mirror(Named(s), off[i - 1] + k, i, m, View(w, Named(s), i))
      /\ Loaded(m, s, i, k)
  BY DEF Inside
<1>2. PICK ins : ins = Instantiate(Assembled(s), a)
  OBVIOUS
<1>3. PICK n \in Nat : n = Size(s[i]) - 1 /\ Size(s[i]) = n + 1
  BY <1>1, ExpandedFacts
<1>4. Loads(s, off, a, ins, i, n)
  <2>1. Loads(s, off, a, Instantiate(Assembled(s), a), i, Size(s[i]) - 1)
    BY <1>1, LoadingFacts
  <2>2. QED
    BY <1>2, <1>3, <2>1
<1>5. PICK at \in Nat : at = off[i - 1]
  BY <1>4 DEF Loads
<1>6. PICK l \in 1 .. n : l = k + 1
  BY <1>1, <1>3
<1>7. PICK tmp : tmp = Spares(s, i)
  OBVIOUS
<1>8. PICK r : r = tmp[Slot(s, i, l)]
  OBVIOUS
<1>9. PICK x : x = SlotValue(Plain(s[i]), Slot(s, i, l)).value
  OBVIOUS
<1>10. /\ at + l \in 1 .. off[Len(s)] /\ at + l + 1 \in 1 .. off[Len(s)]
       /\ Slot(s, i, l) \in DOMAIN tmp /\ r \notin Named(s)
       /\ ins[at + l].mnemonic = "set" /\ ins[at + l].operands[1] = r /\ ins[at + l].operands[2].value = x
       /\ \A y, z \in DOMAIN tmp : tmp[y] = tmp[z] => y = z
       /\ \A j \in 1 .. n : Slot(s, i, j) \in DOMAIN tmp
  <2>1. /\ \A j \in 1 .. n + 1 : at + j \in 1 .. off[Len(s)]
        /\ DOMAIN tmp = { Slot(s, i, j) : j \in 1 .. n }
        /\ \A y \in DOMAIN tmp : Spare(MakeArgsOperands(s), tmp[y])
        /\ \A y, z \in DOMAIN tmp : tmp[y] = tmp[z] => y = z
        /\ ins[at + l].mnemonic = "set"
        /\ ins[at + l].operands[1] = tmp[Slot(s, i, l)]
        /\ ins[at + l].operands[2] = SlotValue(Plain(s[i]), Slot(s, i, l))
    BY <1>4, <1>5, <1>6, <1>7 DEF Loads
  <2>2. Slot(s, i, l) \in DOMAIN tmp
    BY <2>1
  <2>3. r \notin Named(s)
    BY <1>8, <2>1, <2>2 DEF Spare, Named
  <2>4. at + l \in 1 .. off[Len(s)] /\ at + (l + 1) \in 1 .. off[Len(s)]
    <3>1. l \in 1 .. n + 1 /\ l + 1 \in 1 .. n + 1
      BY <1>6
    <3>2. QED
      BY <2>1, <3>1
  <2>5. QED
    BY <1>6, <1>8, <1>9, <2>1, <2>2, <2>3, <2>4
<1>11. PICK v : v = View(w, Named(s), i)
  OBVIOUS
<1>12. Mirror(Named(s), at + k, i, m, v) /\ IsMachine(m) /\ m.pc = at + k /\ k \in Nat
  BY <1>1, <1>3, <1>5, <1>11 DEF Mirror
<1>13. Len(ins) = off[Len(s)] /\ off[Len(s)] \in Nat
  BY <1>2, CodeIsLaid
<1>14. h = ExecuteCommand(m, ins[at + l])
  <2>1. m.pc < Len(ins) /\ m.pc + 1 = at + l
    BY <1>6, <1>10, <1>12, <1>13
  <2>2. QED
    BY <1>2, <2>1 DEF StepCommands
<1>15. PICK rs : rs = SetItem(m.regs, r, x)
  OBVIOUS
<1>16. h = [[m EXCEPT !.regs = rs] EXCEPT !.pc = @ + 1]
  <2>1. Handle(m, "set", ins[at + l].operands) = [m EXCEPT !.regs = rs]
    BY <1>10, <1>15 DEF Handle, InstrSet, SetRegister
  <2>2. PICK f : f = [m EXCEPT !.regs = rs]
    OBVIOUS
  <2>3. f.status = "running"
    BY <1>1, <1>12, <2>2 DEF IsMachine, Fields
  <2>4. h = inc_program_counter(f)
    BY <1>10, <1>14, <2>1, <2>2 DEF ExecuteCommand, Branches
  <2>5. QED
    BY <2>2, <2>3, <2>4 DEF inc_program_counter
<1>17. PICK f : f = [m EXCEPT !.regs = rs]
  OBVIOUS
<1>18. IsMachine(f) /\ f.pc = at + k /\ f.status = "running"
  BY <1>1, <1>12, <1>17 DEF IsMachine, Fields
<1>19. IsMachine(h) /\ h.pc = at + l /\ h.status = "running" /\ h.regs = rs
  <2>1. h = [f EXCEPT !.pc = at + l]
    <3>1. h = [f EXCEPT !.pc = f.pc + 1]
      BY <1>16, <1>17
    <3>2. f.pc + 1 = at + l
      BY <1>6, <1>12, <1>18
    <3>3. QED
      BY <3>1, <3>2
  <2>2. f.regs = rs
    BY <1>12, <1>17 DEF IsMachine, Fields
  <2>3. QED
    BY <1>18, <2>1, <2>2 DEF IsMachine, Fields
<1>20. Mirror(Named(s), at + l, i, h, v)
  <2>1. v.regs = Kept(rs, Named(s))
    <3>1. v.regs = Kept(m.regs, Named(s))
      BY <1>12, MirrorFields
    <3>2. QED
      BY <1>10, <1>15, <3>1, KeptSetItem
  <2>2. IsMachine(v) /\ v.pc = i
    BY <1>12, MirrorFields
  <2>3. /\ h.arrays = m.arrays /\ h.shared = m.shared /\ h.live = m.live
        /\ h.returned = m.returned /\ h.unit = m.unit /\ h.coins = m.coins
        /\ h.quantum = m.quantum /\ h.requests = m.requests /\ h.pairs = m.pairs
    BY <1>12, <1>16 DEF IsMachine, Fields
  <2>4. /\ v.arrays = m.arrays /\ v.shared = m.shared /\ v.live = m.live
        /\ v.returned = m.returned /\ v.unit = m.unit /\ v.coins = m.coins
        /\ v.quantum = m.quantum /\ v.requests = m.requests /\ v.pairs = m.pairs
        /\ v.status = m.status
    BY <1>12, MirrorFields
  <2>5. QED
    BY <1>1, <1>19, <2>1, <2>2, <2>3, <2>4, MirrorBy
<1>21. Loaded(h, s, i, l)
  <2>1. ASSUME NEW j \in 1 .. l
        PROVE  GetRegister(h, tmp[Slot(s, i, j)]) = SlotValue(Plain(s[i]), Slot(s, i, j)).value
    <3>1. \A y : GetRegister(h, y) = IF y = r THEN x ELSE GetRegister(m, y)
      BY <1>15, <1>19 DEF GetRegister, SetItem
    <3>2. CASE tmp[Slot(s, i, j)] = r
      <4>1. Slot(s, i, j) = Slot(s, i, l)
        BY <1>6, <1>8, <1>10, <3>2
      <4>2. QED
        BY <1>9, <3>1, <3>2, <4>1
    <3>3. CASE tmp[Slot(s, i, j)] # r
      <4>1. j # l
        BY <1>8, <3>3
      <4>2. j \in 1 .. k
        BY <1>6, <1>12, <4>1
      <4>3. GetRegister(m, tmp[Slot(s, i, j)]) = SlotValue(Plain(s[i]), Slot(s, i, j)).value
        BY <1>1, <1>7, <4>2 DEF Loaded
      <4>4. QED
        BY <3>1, <3>3, <4>3
    <3>4. QED
      BY <3>2, <3>3
  <2>2. QED
    BY <1>7, <2>1 DEF Loaded
<1>22. Inside(s, off, h, w, i, l)
  <2>1. l \in 0 .. Size(s[i]) - 1
    BY <1>3
  <2>2. QED
    BY <1>1, <1>5, <1>11, <1>19, <1>20, <1>21, <2>1 DEF Inside
<1>23. ~ Boundary(s, off, h)
  <2>1. Origins(s)[at + l] = i /\ Origins(s)[at + (l + 1)] = i
    <3>1. l \in 1 .. Size(s[i]) /\ l + 1 \in 1 .. Size(s[i])
      BY <1>3
    <3>2. Traced(s, off)
      BY CodeIsLaid
    <3>3. \A y \in 1 .. Size(s[i]) : Origins(s)[at + y] = i
      BY <1>1, <1>5, <3>2 DEF Traced
    <3>4. QED
      BY <3>1, <3>3
  <2>2. h.pc \notin {0, off[Len(s)]} /\ h.pc + 1 = at + (l + 1)
    BY <1>10, <1>13, <1>19
  <2>3. QED
    BY <1>19, <2>1, <2>2 DEF Boundary
<1>24. QED
  BY <1>6, <1>22, <1>23


\* The machine can stop for a while where a command begins, or where the subroutine ends.
LEMMA Resting ==
  ASSUME NEW s, Parsed(s), NEW off, InPlace(s, off), NEW u \in 1 .. Len(s) + 1,
         NEW h, IsMachine(h), h.status = "running", h.pc = off[u - 1]
  PROVE  /\ Simulated(s, off, h, h) /\ Boundary(s, off, h)
         /\ PositionOf(s, off, h) = Program!NextCommand(s, u)
<1>1. Len(s) \in Nat /\ Laid(s, off) /\ off[Len(s)] \in Nat
  BY CodeIsLaid
<1>2. PICK j : j = Program!NextCommand(s, u)
  OBVIOUS
<1>3. PICK p : p = off[u - 1]
  OBVIOUS
<1>4. /\ p \in 0 .. off[Len(s)] /\ off[j - 1] = p
      /\ p = off[Len(s)] => j = Len(s) + 1
      /\ p # off[Len(s)] => j \in 1 .. Len(s) /\ ~ IsLabel(s[j]) /\ Origins(s)[p + 1] = j
      /\ p # off[Len(s)] /\ p # 0 => Origins(s)[p] # Origins(s)[p + 1]
  BY <1>1, <1>2, <1>3, NextIsPlaced
<1>5. CASE p = off[Len(s)]
  <2>1. PositionOf(s, off, h) = j
    BY <1>1, <1>3, <1>4, <1>5 DEF PositionOf
  <2>2. QED
    BY <1>2, <1>3, <1>5, <2>1 DEF Simulated, Boundary
<1>6. CASE p # off[Len(s)]
  <2>1. p < off[Len(s)] /\ p + 0 = p
    BY <1>1, <1>4, <1>6
  <2>2. PositionOf(s, off, h) = j
    BY <1>3, <1>4, <1>6, <2>1 DEF PositionOf
  <2>3. Boundary(s, off, h)
    BY <1>3, <1>4, <1>6 DEF Boundary
  <2>4. Inside(s, off, h, h, j, 0)
    <3>1. 0 \in 0 .. Size(s[j]) - 1
      BY <1>4, <1>6, ExpandedFacts
    <3>2. Mirror(Named(s), p, j, h, View(h, Named(s), j))
      BY <1>3 DEF Mirror
    <3>3. Loaded(h, s, j, 0)
      BY DEF Loaded
    <3>4. QED
      BY <1>3, <1>4, <1>6, <2>1, <3>1, <3>2, <3>3 DEF Inside
  <2>5. Simulated(s, off, h, h)
    BY <1>4, <1>6, <2>4 DEF Simulated, Inside
  <2>6. QED
    BY <1>2, <2>2, <2>3, <2>5
<1>7. QED
  BY <1>5, <1>6

\* The last instruction of a command does what the program does with it.
LEMMA CommandStep ==
  ASSUME SourcesAreWellWritten, NEW s \in Sources, NEW a \in Arguments, CanAssemble(s),
         NEW off, InPlace(s, off),
         NEW m, NEW w, NEW i, Inside(s, off, m, w, i, Size(s[i]) - 1),
         NEW h, h = StepCommands(m, Instantiate(Assembled(s), a))
  PROVE  LET v == View(w, Named(s), PositionOf(s, off, w))
         IN  /\ Simulated(s, off, h, h) /\ Boundary(s, off, h) /\ v.status = "running"
             /\ View(h, Named(s), PositionOf(s, off, h)) = Stepped(s, a, v)
<1>1. Parsed(s) /\ WellWritten(s) /\ EnoughRegisters(MakeArgsOperands(s))
  BY DEF SourcesAreWellWritten, CanAssemble
<1>2. PICK N : N = Named(s)
  OBVIOUS
<1>3. PICK v : v = View(w, N, i)
  OBVIOUS
<1>4. i \in 1 .. Len(s) /\ ~ IsLabel(s[i])
  BY DEF Inside
<1>5. PICK n \in Nat : n = Size(s[i]) - 1 /\ Size(s[i]) = n + 1
  BY <1>1, <1>4, ExpandedFacts
<1>6. PICK ins : ins = Instantiate(Assembled(s), a)
  OBVIOUS
<1>7. Loads(s, off, a, ins, i, n)
  <2>1. Loads(s, off, a, Instantiate(Assembled(s), a), i, Size(s[i]) - 1)
    BY <1>1, <1>4, LoadingFacts
  <2>2. QED
    BY <1>5, <1>6, <2>1
<1>8. PICK at \in Nat : at = off[i - 1]
  BY <1>7 DEF Loads
<1>9. /\ m.status = "running" /\ w.pc = at
      /\ Mirror(N, at + n, i, m, v)
      /\ Loaded(m, s, i, n)
  BY <1>2, <1>3, <1>5, <1>8 DEF Inside
<1>10. /\ at + n + 1 \in 1 .. off[Len(s)] /\ at + (n + 1) = at + n + 1 /\ off[i] = at + n + 1
       /\ DOMAIN ins = 1 .. off[Len(s)]
  <2>1. /\ \A k \in 1 .. n + 1 : at + k \in 1 .. off[Len(s)]
        /\ off[i] = at + n + 1 /\ DOMAIN ins = 1 .. off[Len(s)]
    BY <1>7, <1>8 DEF Loads
  <2>2. n + 1 \in 1 .. n + 1 /\ at + (n + 1) = at + n + 1
    BY <1>5, <1>8
  <2>3. QED
    BY <2>1, <2>2
<1>11. Len(s) \in Nat /\ Traced(s, off) /\ off[Len(s)] \in Nat /\ Len(ins) = off[Len(s)]
  BY <1>1, <1>6, CodeIsLaid
<1>12. IsMachine(m) /\ m.pc = at + n /\ v.status = "running" /\ v.pc = i
  BY <1>9, MirrorFields
<1>13. PICK instr : instr = ins[at + n + 1]
  OBVIOUS
<1>14. PICK command : command = MeantCommand(s, a, i)
  OBVIOUS
<1>15. h = ExecuteCommand(m, instr)
  <2>1. m.pc + 1 = at + n + 1
    BY <1>12
  <2>2. m.pc < Len(ins)
    <3>1. PICK p \in Nat : p = at + n
      OBVIOUS
    <3>2. PICK e \in Nat : e = off[Len(s)]
      BY <1>11
    <3>3. p + 1 \in 1 .. e
      BY <1>10, <3>1, <3>2
    <3>4. p < e
      BY <3>3
    <3>5. QED
      BY <1>11, <1>12, <3>1, <3>2, <3>4
  <2>3. QED
    BY <1>6, <1>13, <2>1, <2>2 DEF StepCommands
<1>16. FitsItsFields(instr)
  <2>1. at + n + 1 \in DOMAIN Assembled(s)
    BY <1>6, <1>10 DEF Instantiate
  <2>2. QED
    BY <1>6, <1>13, <2>1 DEF SourcesAreWellWritten
<1>17. PICK c \in VanillaFlavour \cup CORE_INSTRUCTIONS :
         /\ instr.mnemonic = c.mnemonic /\ command.mnemonic = c.mnemonic
         /\ Agreed(N, m, v, c, instr.operands, command.operands)
         /\ c.mnemonic \in Branches =>
              \E u \in 1 .. Len(s) + 1 :
                /\ instr.operands[Len(instr.operands)].value = off[u - 1]
                /\ command.operands[Len(command.operands)].value = u
  <2>1. instr = Instantiate(Assembled(s), a)[off[i - 1] + Size(s[i])]
    BY <1>5, <1>6, <1>8, <1>10, <1>13
  <2>2. Loaded(m, s, i, Size(s[i]) - 1)
    BY <1>5, <1>9
  <2>3. PICK pc : pc = at + n
    OBVIOUS
  <2>4. /\ Mirror(N, pc, i, m, v) /\ Parsed(s) /\ CanAssemble(s) /\ WellWritten(s) /\ N = Named(s)
        /\ InPlace(s, off) /\ i \in 1 .. Len(s) /\ ~ IsLabel(s[i])
    BY <1>1, <1>2, <1>4, <1>9, <2>3
  <2>5. BodyAgreement(N, m, v, s, off, instr, command)
    BY ONLY <1>14, <1>16, <2>1, <2>2, <2>4, BodyAgrees
  <2>6. QED
    BY <2>5 DEF BodyAgreement
<1>18. PICK g : g = ExecuteCommand(v, command)
  OBVIOUS
<1>19. \/ h.status # "running" /\ Mirror(N, at + n, i, h, g)
       \/ h.status = "running" /\ \E u \in 1 .. Len(s) + 1 : Mirror(N, off[u - 1], u, h, g)
  <2>1. PICK o : o = instr.operands
    OBVIOUS
  <2>2. PICK p : p = command.operands
    OBVIOUS
  <2>3. \/ h.status # "running" /\ Mirror(N, at + n, i, h, g)
        \/ h.status = "running" /\ Mirror(N, at + n + 1, i + 1, h, g)
        \/ /\ h.status = "running" /\ c.mnemonic \in Branches
           /\ Mirror(N, o[Len(o)].value, p[Len(p)].value, h, g)
    <3>1. PICK pc : pc = at + n
      OBVIOUS
    <3>2. /\ Mirror(N, pc, i, m, v) /\ m.status = "running"
          /\ c \in VanillaFlavour \cup CORE_INSTRUCTIONS
          /\ instr.mnemonic = c.mnemonic /\ command.mnemonic = c.mnemonic
          /\ Agreed(N, m, v, c, instr.operands, command.operands)
      BY <1>9, <1>17, <3>1
    <3>3. \/ h.status # "running" /\ Mirror(N, pc, i, h, g)
          \/ h.status = "running" /\ Mirror(N, pc + 1, i + 1, h, g)
          \/ /\ h.status = "running" /\ c.mnemonic \in Branches
             /\ Mirror(N, instr.operands[Len(instr.operands)].value,
                       command.operands[Len(command.operands)].value, h, g)
      BY ONLY <1>15, <1>18, <3>2, CommandMirrors
    <3>4. QED
      BY <2>1, <2>2, <3>1, <3>3
  <2>4. CASE h.status = "running" /\ Mirror(N, at + n + 1, i + 1, h, g)
    <3>1. PICK u : u = i + 1
      OBVIOUS
    <3>2. u \in 1 .. Len(s) + 1 /\ u - 1 = i
      BY <1>4, <1>11, <3>1
    <3>3. off[u - 1] = at + n + 1
      BY ONLY <1>10, <3>2
    <3>4. Mirror(N, off[u - 1], u, h, g)
      BY ONLY <2>4, <3>1, <3>3
    <3>5. QED
      BY ONLY <2>4, <3>2, <3>4
  <2>5. CASE /\ h.status = "running" /\ c.mnemonic \in Branches
             /\ Mirror(N, o[Len(o)].value, p[Len(p)].value, h, g)
    <3>1. PICK u \in 1 .. Len(s) + 1 : o[Len(o)].value = off[u - 1] /\ p[Len(p)].value = u
      BY <1>17, <2>1, <2>2, <2>5
    <3>2. Mirror(N, off[u - 1], u, h, g)
      BY <2>5, <3>1
    <3>3. QED
      BY <2>5, <3>1, <3>2
  <2>6. QED
    BY <2>3, <2>4, <2>5
<1>20. Origins(s)[at + 1] = i /\ Origins(s)[at + n + 1] = i /\ at < off[Len(s)]
  <2>1. 1 \in 1 .. Size(s[i]) /\ n + 1 \in 1 .. Size(s[i])
    BY <1>5
  <2>2. Origins(s)[at + 1] = i /\ Origins(s)[at + (n + 1)] = i
    BY <1>4, <1>8, <1>11, <2>1 DEF Traced
  <2>3. QED
    BY <1>5, <1>8, <1>10, <1>11, <2>2
<1>21. PositionOf(s, off, w) = i
  BY <1>9, <1>20 DEF PositionOf
<1>22. Stepped(s, a, v) = [g EXCEPT !.pc = IF g.status = "running" THEN Program!NextCommand(s, g.pc) ELSE g.pc]
  <2>1. ~(v.pc > Len(s))
    BY <1>4, <1>11, <1>12
  <2>2. ExecuteCommand(v, MeantCommand(s, a, v.pc)) = g
    BY <1>12, <1>14, <1>18
  <2>3. QED
    BY <2>1, <2>2 DEF Stepped
<1>23. /\ Simulated(s, off, h, h) /\ Boundary(s, off, h)
       /\ View(h, N, PositionOf(s, off, h)) = Stepped(s, a, v)
  <2>1. CASE h.status # "running" /\ Mirror(N, at + n, i, h, g)
    <3>1. IsMachine(h) /\ h.pc = at + n /\ g.pc = i /\ g.status # "running" /\ IsMachine(g)
      BY <2>1, MirrorFields
    <3>2. PositionOf(s, off, h) = i
      <4>1. at + n < off[Len(s)]
        BY <1>5, <1>8, <1>10, <1>11
      <4>2. QED
        BY <1>20, <3>1, <4>1 DEF PositionOf
    <3>3. g = View(h, N, i)
      BY <2>1 DEF Mirror
    <3>4. Stepped(s, a, v) = [g EXCEPT !.pc = i]
      BY <1>22, <3>1
    <3>5. [g EXCEPT !.pc = i] = g
      BY <3>1 DEF IsMachine, Fields
    <3>6. QED
      BY <2>1, <3>1, <3>2, <3>3, <3>4, <3>5 DEF Simulated, Boundary
  <2>2. CASE h.status = "running" /\ \E u \in 1 .. Len(s) + 1 : Mirror(N, off[u - 1], u, h, g)
    <3>1. PICK u \in 1 .. Len(s) + 1 : Mirror(N, off[u - 1], u, h, g)
      BY <2>2
    <3>2. IsMachine(h) /\ h.pc = off[u - 1] /\ g.pc = u /\ g.status = "running"
      BY <2>2, <3>1, MirrorFields
    <3>3. PICK j : j = Program!NextCommand(s, u)
      OBVIOUS
    <3>4. Simulated(s, off, h, h) /\ Boundary(s, off, h) /\ PositionOf(s, off, h) = j
      BY <1>1, <2>2, <3>2, <3>3, Resting
    <3>5. Stepped(s, a, v) = [g EXCEPT !.pc = j]
      BY <1>22, <3>2, <3>3
    <3>6. Mirror(N, h.pc, j, [h EXCEPT !.pc = h.pc], [g EXCEPT !.pc = j])
      BY <3>1, PcMirrors
    <3>7. [h EXCEPT !.pc = h.pc] = h
      BY <3>2 DEF IsMachine, Fields
    <3>8. [g EXCEPT !.pc = j] = View(h, N, j)
      BY <3>6, <3>7 DEF Mirror
    <3>9. QED
      BY <3>4, <3>5, <3>8
  <2>3. QED
    BY <1>19, <2>1, <2>2
<1>24. QED
  BY <1>2, <1>3, <1>12, <1>21, <1>23

\* One turn of _execute_commands is within a command of the source, which cannot be seen
\* from outside, or the end of one, and then all of the command has been done.
THEOREM StepSimulates ==
  ASSUME SourcesAreWellWritten, NEW s \in Sources, NEW a \in Arguments, CanAssemble(s),
         NEW off, InPlace(s, off), NEW m, NEW w, Simulated(s, off, m, w), m.status = "running",
         NEW h, h = StepCommands(m, Instantiate(Assembled(s), a))
  PROVE  LET v == View(w, Named(s), PositionOf(s, off, w))
         IN  \/ Simulated(s, off, h, w) /\ ~ Boundary(s, off, h)
             \/ /\ Simulated(s, off, h, h) /\ Boundary(s, off, h) /\ v.status = "running"
                /\ View(h, Named(s), PositionOf(s, off, h)) = Stepped(s, a, v)
<1>1. Parsed(s) /\ EnoughRegisters(MakeArgsOperands(s))
  BY DEF SourcesAreWellWritten, CanAssemble
<1>2. Len(s) \in Nat /\ off[Len(s)] \in Nat /\ Len(Instantiate(Assembled(s), a)) = off[Len(s)]
  BY <1>1, CodeIsLaid
<1>3. CASE \E i \in 1 .. Len(s) : \E k \in 0 .. Size(s[i]) - 1 : Inside(s, off, m, w, i, k)
  <2>1. PICK i \in 1 .. Len(s) : \E k \in 0 .. Size(s[i]) - 1 : Inside(s, off, m, w, i, k)
    BY <1>3
  <2>2. PICK k \in 0 .. Size(s[i]) - 1 : Inside(s, off, m, w, i, k)
    BY <2>1
  <2>3. CASE k = Size(s[i]) - 1
    <3>1. Inside(s, off, m, w, i, Size(s[i]) - 1)
      BY <2>2, <2>3
    <3>2. QED
      BY <3>1, CommandStep
  <2>4. CASE k # Size(s[i]) - 1
    <3>1. Inside(s, off, h, w, i, k + 1) /\ ~ Boundary(s, off, h)
      BY <1>1, <2>2, <2>4, LoadStep
    <3>2. QED
      BY <3>1 DEF Simulated, Inside
  <2>5. QED
    BY <2>3, <2>4
<1>4. CASE m = w /\ IsMachine(m) /\ m.pc = off[Len(s)]
  <2>1. PICK N : N = Named(s)
    OBVIOUS
  <2>2. h = [m EXCEPT !.status = "done"]
    BY <1>2, <1>4 DEF StepCommands
  <2>3. IsMachine(h) /\ h.pc = off[Len(s)] /\ h.status = "done"
    BY <1>4, <2>2 DEF IsMachine, Fields
  <2>4. PositionOf(s, off, w) = Len(s) + 1 /\ PositionOf(s, off, h) = Len(s) + 1
    BY <1>2, <1>4, <2>3 DEF PositionOf
  <2>5. PICK v : v = View(w, N, Len(s) + 1)
    OBVIOUS
  <2>6. Mirror(N, m.pc, Len(s) + 1, m, v)
    BY <1>4, <2>5 DEF Mirror
  <2>7. v.status = "running" /\ v.pc = Len(s) + 1
    BY <2>6, MirrorFields
  <2>8. Stepped(s, a, v) = [v EXCEPT !.status = "done"]
    BY <1>2, <2>7 DEF Stepped
  <2>9. Mirror(N, m.pc, Len(s) + 1, h, [v EXCEPT !.status = "done"])
    <3>1. PICK p : p = m.pc
      OBVIOUS
    <3>2. Mirror(N, p, Len(s) + 1, m, v)
      BY <2>6, <3>1
    <3>3. Mirror(N, p, Len(s) + 1, [m EXCEPT !.status = "done"], [v EXCEPT !.status = "done"])
      BY ONLY <3>2, StatusMirrors
    <3>4. QED
      BY ONLY <2>2, <3>1, <3>3
  <2>10. View(h, N, Len(s) + 1) = Stepped(s, a, v)
    BY <2>8, <2>9 DEF Mirror
  <2>11. Simulated(s, off, h, h) /\ Boundary(s, off, h)
    BY <2>3 DEF Simulated, Boundary
  <2>12. QED
    BY <2>1, <2>4, <2>5, <2>7, <2>10, <2>11
<1>5. QED
  BY <1>3, <1>4 DEF Simulated


-----------------------------------------------------------------------------
(* The subroutine does what its source says.                               *)

\* What the source program sees of the node controller.
Viewed == View(seen, NamedRegisters, SourcePosition)

\* Before the subroutine is there the machine waits at its start; then the machine runs
\* the instructions of the source, and simulates it from the last command's end on.
AssemblerInv ==
  /\ target = "vanilla" /\ source \in Sources /\ arguments \in Arguments
  /\ phase \in {"text", "assembled", "rejected"}
  /\ phase # "assembled" =>
       machine = seen /\ IsMachine(seen) /\ seen.pc = 0 /\ seen.status = "running"
  /\ phase = "assembled" =>
       /\ CanAssemble(source) /\ origin = Origins(source)
       /\ code = Instantiate(Assembled(source), arguments)
       /\ \E off : InPlace(source, off) /\ Simulated(source, off, machine, seen)

LEMMA ProgramInit ==
  ASSUME Viewed.pc = Program!NextCommand(source, 1), Viewed.status = "running"
  PROVE  Program!Init
BY DEF Program!Init, Viewed, View

LEMMA ProgramStep ==
  ASSUME Viewed.status = "running", Viewed' = Stepped(source, arguments, Viewed),
         UNCHANGED << source, arguments >>
  PROVE  Program!Next
<1>1. PICK v : v = Viewed
  OBVIOUS
<1>2. Program!StepSource(v) = Stepped(source, arguments, v)
  BY StepSourceIs
<1>3. Viewed' = Program!StepSource(Viewed)
  BY <1>1, <1>2
<1>4. QED
  BY <1>3 DEF Program!Next, Viewed, View

LEMMA ProgramStutters ==
  ASSUME Viewed' = Viewed, UNCHANGED << source, arguments >>
  PROVE  UNCHANGED Program!vars
BY DEF Program!vars, Viewed, View

LEMMA FirstIsNext ==
  ASSUME NEW s, Parsed(s)
  PROVE  FirstCommand(s) = Program!NextCommand(s, 1)
<1>1. PICK z \in Nat : z = Len(s)
  BY SequenceFacts DEF Parsed
<1>2. PICK j : j = Program!NextCommand(s, 1)
  OBVIOUS
<1>3. /\ j \in 1 .. z + 1
      /\ j # z + 1 => ~ IsLabel(s[j])
      /\ \A k \in 1 .. j - 1 : IsLabel(s[k])
  <2>1. 1 \in 1 .. Len(s) + 1 /\ Len(s) \in Nat
    BY <1>1
  <2>2. /\ Program!NextCommand(s, 1) \in 1 .. Len(s) + 1
        /\ Program!NextCommand(s, 1) # Len(s) + 1 =>
             Program!NextCommand(s, 1) \in 1 .. Len(s) /\ ~ IsLabel(s[Program!NextCommand(s, 1)])
        /\ \A k \in 1 .. Program!NextCommand(s, 1) - 1 : IsLabel(s[k])
    BY <2>1, NextFacts
  <2>3. QED
    BY <1>1, <1>2, <2>2
<1> DEFINE First(n) == (n = z + 1 \/ ~ IsLabel(s[n])) /\ \A k \in 1 .. n - 1 : IsLabel(s[k])
<1>4. First(j)
  BY <1>3
<1>5. ASSUME NEW y \in 1 .. z + 1, First(y)
      PROVE  y = j
  <2>1. ~ (y < j)
    BY <1>1, <1>3, <1>5
  <2>2. ~ (j < y)
    BY <1>1, <1>3, <1>5
  <2>3. QED
    BY <1>1, <1>3, <2>1, <2>2
<1>6. FirstCommand(s) = CHOOSE n \in 1 .. z + 1 : First(n)
  BY <1>1 DEF FirstCommand
<1> HIDE DEF First
<1>7. QED
  BY <1>2, <1>3, <1>4, <1>5, <1>6

LEMMA InvHolds ==
  ASSUME SourcesAreWellWritten, Init, target = "vanilla"
  PROVE  AssemblerInv /\ Program!Init
<1>1. PICK c \in Coins : machine = Machine0(c) /\ seen = Machine0(c)
  BY DEF Init
<1>2. PICK m : m = Machine0(c)
  OBVIOUS
<1>3. IsMachine(m) /\ m.pc = 0 /\ m.status = "running"
  BY <1>2, Machine0Typed
<1>4. AssemblerInv
  BY <1>1, <1>2, <1>3 DEF Init, AssemblerInv
<1>5. Parsed(source)
  BY DEF Init, SourcesAreWellWritten
<1>6. SourcePosition = FirstCommand(source)
  <2>1. phase # "assembled"
    BY DEF Init
  <2>2. QED
    BY ONLY <2>1 DEF SourcePosition
<1>7. PICK n : n = Program!NextCommand(source, 1)
  OBVIOUS
<1>8. PICK N : N = NamedRegisters
  OBVIOUS
<1>9. Viewed = View(m, N, n)
  BY <1>1, <1>2, <1>5, <1>6, <1>7, <1>8, FirstIsNext DEF Viewed
<1>10. Mirror(N, 0, n, m, View(m, N, n))
  BY <1>3 DEF Mirror
<1>11. View(m, N, n).pc = n /\ View(m, N, n).status = "running"
  BY <1>3, <1>10, MirrorFields
<1>12. Program!Init
  BY <1>7, <1>9, <1>11, ProgramInit
<1>13. QED
  BY <1>4, <1>12

\* Assembling, or refusing to, is nothing to the program.
LEMMA CompileStutters ==
  ASSUME SourcesAreWellWritten, AssemblerInv, Compile
  PROVE  AssemblerInv' /\ UNCHANGED Program!vars
<1>1. /\ target = "vanilla" /\ source \in Sources /\ arguments \in Arguments /\ phase = "text"
      /\ machine = seen /\ IsMachine(seen) /\ seen.pc = 0 /\ seen.status = "running"
      /\ UNCHANGED << source, arguments, machine, target, seen >>
  BY DEF AssemblerInv, Compile
<1>2. PICK s \in Sources : s = source /\ s = source'
  BY <1>1
<1>3. PICK a \in Arguments : a = arguments /\ a = arguments'
  BY <1>1
<1>4. PICK m : m = seen /\ m = machine /\ m = seen' /\ m = machine'
  BY <1>1
<1>5. Parsed(s)
  BY DEF SourcesAreWellWritten
<1>6. PICK n : n = Program!NextCommand(s, 1)
  OBVIOUS
<1>7. SourcePosition = n
  <2>1. SourcePosition = FirstCommand(source)
    <3>1. phase # "assembled"
      BY <1>1
    <3>2. QED
      BY ONLY <3>1 DEF SourcePosition
  <2>2. QED
    BY <1>2, <1>5, <1>6, <2>1, FirstIsNext
<1>8. NamedRegisters = Named(s) /\ NamedRegisters' = Named(s)
  BY <1>2 DEF NamedRegisters, Named
<1>9. ASSUME SourcePosition' = n
      PROVE  UNCHANGED Program!vars
  <2>1. PICK N : N = Named(s)
    OBVIOUS
  <2>2. Viewed = View(m, N, n) /\ Viewed' = View(m, N, n)
    BY <1>4, <1>7, <1>8, <1>9, <2>1 DEF Viewed
  <2>3. QED
    BY <1>1, <2>2, ProgramStutters
<1>10. CASE CanAssemble(source)
  <2>1. CanAssemble(s)
    BY <1>2, <1>10
  <2>2. PICK off : InPlace(s, off)
    BY <1>5, <2>1, AssembledFacts DEF CanAssemble
  <2>3. PICK ins : ins = Instantiate(Assembled(s), a)
    OBVIOUS
  <2>4. phase' = "assembled" /\ origin' = Origins(s) /\ code' = ins
    <3>1. phase' = "assembled" /\ code' = Load(Assembled(source)) /\ origin' = Origins(source)
      BY <1>1, <1>10 DEF Compile, Transpiled
    <3>2. Load(Assembled(source))
            = DeserializeSubroutine(VanillaFlavour, SubroutineBytes(VanillaFlavour, Instantiate(Assembled(s), a)))
      BY <1>1, <1>2, <1>3 DEF Load, Flavour
    <3>3. Load(Assembled(source)) = ins
      BY <2>1, <2>3, <3>2, CodeIsReadBack
    <3>4. QED
      BY <1>2, <3>1, <3>3
  <2>5. Len(s) \in Nat /\ off[0] = 0 /\ Len(ins) = off[Len(s)]
    BY <1>5, <2>2, <2>3, CodeIsLaid DEF Laid
  <2>6. Simulated(s, off, m, m) /\ PositionOf(s, off, m) = n
    <3>1. PICK u \in 1 .. Len(s) + 1 : u = 1
      BY <2>5
    <3>2. m.pc = off[u - 1] /\ IsMachine(m) /\ m.status = "running"
      BY <1>1, <1>4, <2>5, <3>1
    <3>3. Simulated(s, off, m, m) /\ PositionOf(s, off, m) = Program!NextCommand(s, u)
      BY <1>5, <2>2, <3>2, Resting
    <3>4. QED
      BY <1>6, <3>1, <3>3
  <2>7. SourcePosition' = n
    <3>1. SourcePosition' = PositionOf(s, off, m)
      BY <1>2, <1>4, <2>4, <2>5 DEF SourcePosition, PositionOf
    <3>2. QED
      BY <2>6, <3>1
  <2>8. AssemblerInv'
    BY <1>1, <1>2, <1>3, <1>4, <2>1, <2>2, <2>3, <2>4, <2>6 DEF AssemblerInv
  <2>9. QED
    BY <1>9, <2>7, <2>8
<1>11. CASE ~ CanAssemble(source)
  <2>1. phase' = "rejected"
    BY <1>1, <1>11 DEF Compile, Reject
  <2>2. SourcePosition' = n
    <3>1. phase' # "assembled"
      BY <2>1
    <3>2. SourcePosition' = (FirstCommand(source))'
      BY ONLY <3>1 DEF SourcePosition
    <3>3. QED
      BY <1>2, <1>5, <1>6, <3>2, FirstIsNext
  <2>3. AssemblerInv'
    BY <1>1, <2>1 DEF AssemblerInv
  <2>4. QED
    BY <1>9, <2>2, <2>3
<1>12. QED
  BY <1>10, <1>11

\* An instruction is nothing to the program, or the end of one of its commands.
LEMMA ExecuteSimulates ==
  ASSUME SourcesAreWellWritten, AssemblerInv, Execute
  PROVE  AssemblerInv' /\ (Program!Next \/ UNCHANGED Program!vars)
<1>1. /\ target = "vanilla" /\ source \in Sources /\ arguments \in Arguments
      /\ phase = "assembled" /\ machine.status = "running"
      /\ machine' = StepCommands(machine, code)
      /\ seen' = IF Between(machine') THEN machine' ELSE seen
      /\ UNCHANGED << source, arguments, target, code, origin, phase >>
      /\ CanAssemble(source) /\ origin = Origins(source)
      /\ code = Instantiate(Assembled(source), arguments)
  BY DEF AssemblerInv, Execute
<1>2. PICK s \in Sources : s = source /\ s = source'
  BY <1>1
<1>3. PICK a \in Arguments : a = arguments /\ a = arguments'
  BY <1>1
<1>4. PICK m : m = machine
  OBVIOUS
<1>5. PICK w : w = seen
  OBVIOUS
<1>6. PICK h : h = machine'
  OBVIOUS
<1>7. PICK ins : ins = Instantiate(Assembled(s), a)
  OBVIOUS
<1>8. PICK off : InPlace(s, off) /\ Simulated(s, off, m, w)
  BY <1>1, <1>2, <1>4, <1>5 DEF AssemblerInv
<1>9. Parsed(s) /\ CanAssemble(s) /\ code = ins /\ code' = ins /\ origin = Origins(s) /\ origin' = Origins(s)
  BY <1>1, <1>2, <1>3, <1>7 DEF SourcesAreWellWritten
<1>10. Len(ins) = off[Len(s)]
  BY <1>7, <1>8, <1>9, CodeIsLaid
<1>11. PICK N : N = Named(s)
  OBVIOUS
<1>12. NamedRegisters = N /\ NamedRegisters' = N
  BY <1>2, <1>11 DEF NamedRegisters, Named
<1>13. PICK p : p = PositionOf(s, off, w)
  OBVIOUS
<1>14. PICK v : v = View(w, N, p)
  OBVIOUS
<1>15. Viewed = v
  <2>1. SourcePosition = p
    BY <1>1, <1>2, <1>5, <1>9, <1>10, <1>13 DEF SourcePosition, PositionOf
  <2>2. QED
    BY <1>5, <1>12, <1>14, <2>1 DEF Viewed
<1>16. Between(machine') <=> Boundary(s, off, h)
  BY <1>6, <1>9, <1>10 DEF Between, Boundary
<1>17. h = StepCommands(m, ins) /\ m.status = "running"
  BY <1>1, <1>4, <1>6, <1>9
<1>18. \/ Simulated(s, off, h, w) /\ ~ Boundary(s, off, h)
       \/ /\ Simulated(s, off, h, h) /\ Boundary(s, off, h) /\ v.status = "running"
          /\ View(h, N, PositionOf(s, off, h)) = Stepped(s, a, v)
  BY <1>7, <1>8, <1>9, <1>11, <1>13, <1>14, <1>17, StepSimulates
<1>19. ASSUME NEW x, x = seen', Simulated(s, off, h, x)
       PROVE  AssemblerInv' /\ Viewed' = View(x, N, PositionOf(s, off, x))
  <2>1. AssemblerInv'
    BY <1>1, <1>2, <1>3, <1>6, <1>7, <1>8, <1>9, <1>19 DEF AssemblerInv
  <2>2. SourcePosition' = PositionOf(s, off, x)
    BY <1>1, <1>2, <1>9, <1>10, <1>19 DEF SourcePosition, PositionOf
  <2>3. QED
    BY <1>12, <1>19, <2>1, <2>2 DEF Viewed
<1>20. CASE Simulated(s, off, h, w) /\ ~ Boundary(s, off, h)
  <2>1. seen' = w
    BY <1>1, <1>5, <1>16, <1>20
  <2>2. AssemblerInv' /\ Viewed' = View(w, N, PositionOf(s, off, w))
    BY <1>19, <1>20, <2>1
  <2>3. Viewed' = Viewed
    BY <1>13, <1>14, <1>15, <2>2
  <2>4. QED
    BY <1>1, <2>2, <2>3, ProgramStutters
<1>21. CASE /\ Simulated(s, off, h, h) /\ Boundary(s, off, h) /\ v.status = "running"
            /\ View(h, N, PositionOf(s, off, h)) = Stepped(s, a, v)
  <2>1. seen' = h
    BY <1>1, <1>6, <1>16, <1>21
  <2>2. AssemblerInv' /\ Viewed' = View(h, N, PositionOf(s, off, h))
    BY <1>19, <1>21, <2>1
  <2>3. Viewed.status = "running" /\ Viewed' = Stepped(source, arguments, Viewed)
    BY <1>2, <1>3, <1>15, <1>21, <2>2
  <2>4. QED
    BY <1>1, <2>2, <2>3, ProgramStep
<1>22. QED
  BY <1>18, <1>20, <1>21

\* RunsAsWritten (Assembler.tla) where the node controller is not one of NV hardware: for
\* every program that keeps to WellWritten, every argument and every number of steps, the
\* instructions that text.py assembles and encoding.py carries do, command for command,
\* what the program says.
THEOREM VanillaRunsAsWritten ==
  ASSUME SourcesAreWellWritten
  PROVE  Spec /\ target = "vanilla" => RunsAsWritten
<1>1. Init /\ target = "vanilla" => AssemblerInv /\ Program!Init
  BY InvHolds
<1>2. AssemblerInv /\ [Next]_vars => AssemblerInv' /\ [Program!Next]_(Program!vars)
  <2> SUFFICES ASSUME AssemblerInv, [Next]_vars
               PROVE  AssemblerInv' /\ (Program!Next \/ UNCHANGED Program!vars)
    OBVIOUS
  <2>1. CASE Compile
    BY <2>1, CompileStutters
  <2>2. CASE Execute
    BY <2>2, ExecuteSimulates
  <2>3. CASE UNCHANGED vars
    <3>1. AssemblerInv'
      BY <2>3 DEF vars, AssemblerInv
    <3>2. Viewed' = Viewed
      BY <2>3 DEF vars, Viewed, NamedRegisters, SourcePosition
    <3>3. QED
      BY <2>3, <3>1, <3>2, ProgramStutters DEF vars
  <2>4. QED
    BY <2>1, <2>2, <2>3 DEF Next
<1>3. QED
  BY <1>1, <1>2, PTL DEF Spec, RunsAsWritten, Program!Spec
=============================================================================
