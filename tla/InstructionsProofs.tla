-------------------------- MODULE InstructionsProofs --------------------------
(***************************************************************************)
(* What the bytes of module Instructions carry: an operand that fits in    *)
(* its field is read back from it, whatever bytes follow; a command is     *)
(* read back as the instruction it was made of, in either flavour, but for *)
(* meas_basis in the vanilla one; and all commands have one size.          *)
(***************************************************************************)
EXTENDS Instructions, SequenceLemmas

Byte    == 0 .. 255
Int32   == { v \in Int : -2147483648 <= v /\ v < 2147483648 }
Indices == 0 .. 15

Registers == { Register(n, i) : n \in DOMAIN RegisterName, i \in Indices }

LEMMA RegisterRoundTrip ==
  ASSUME NEW r \in Registers
  PROVE  RegisterByte(r) \in Byte /\ ByteRegister(RegisterByte(r)) = r
<1>1. PICK n \in DOMAIN RegisterName, i \in Indices : r = Register(n, i)
  BY DEF Registers
<1>2. DOMAIN RegisterName = {"R", "C", "Q", "M"}
      /\ RegisterName["R"] = 0 /\ RegisterName["C"] = 1
      /\ RegisterName["Q"] = 2 /\ RegisterName["M"] = 3
  BY DEF RegisterName
<1>3. r.name = n /\ r.index = i
  BY <1>1 DEF Register
<1> DEFINE b == RegisterName[n] + 4 * i
<1>4. i % 16 = i /\ i \in 0 .. 15
  BY DEF Indices
<1>5. b \in Byte /\ b % 4 = RegisterName[n] /\ (b \div 4) % 16 = i
  BY <1>2, <1>4 DEF Byte
<1>6. (CHOOSE m \in DOMAIN RegisterName : RegisterName[m] = b % 4) = n
  BY <1>2, <1>5
<1>7. RegisterByte(r) = b
  BY <1>3, <1>4 DEF RegisterByte
<1> HIDE DEF b
<1>8. QED
  BY <1>1, <1>5, <1>6, <1>7 DEF ByteRegister

LEMMA ByteSplit ==
  ASSUME NEW v \in Int
  PROVE  v \div 256 \in Int /\ v % 256 \in Byte /\ v = 256 * (v \div 256) + (v % 256)
<1>1. v \div 256 \in Int /\ v % 256 \in Byte
  BY DEF Byte
<1>2. PICK q \in Int : q = v \div 256
  BY <1>1
<1>3. v = 256 * q + (v % 256)
  BY <1>2, SMT
<1>4. v = 256 * (v \div 256) + (v % 256)
  BY <1>2, <1>3, Zenon
<1>5. QED
  BY <1>1, <1>4

LEMMA IntegerRoundTrip ==
  ASSUME NEW v \in Int32
  PROVE  /\ IntegerBytes(v) \in Seq(Byte) /\ Len(IntegerBytes(v)) = 4
         /\ \A s \in Seq(Byte) :
              s[1] = IntegerBytes(v)[1] /\ s[2] = IntegerBytes(v)[2]
              /\ s[3] = IntegerBytes(v)[3] /\ s[4] = IntegerBytes(v)[4]
                => BytesInteger(s) = v
<1>1. v \in Int /\ -2147483648 <= v /\ v < 2147483648
  BY DEF Int32
<1>2. PICK q1 \in Int, b1 \in Byte : q1 = v \div 256 /\ b1 = v % 256 /\ v = 256 * q1 + b1
  BY <1>1, ByteSplit
<1>3. PICK q2 \in Int, b2 \in Byte : q2 = q1 \div 256 /\ b2 = q1 % 256 /\ q1 = 256 * q2 + b2
  BY ByteSplit
<1>4. PICK q3 \in Int, b3 \in Byte : q3 = q2 \div 256 /\ b3 = q2 % 256 /\ q2 = 256 * q3 + b3
  BY ByteSplit
<1>5. PICK q4 \in Int, b4 \in Byte : q4 = q3 \div 256 /\ b4 = q3 % 256 /\ q3 = 256 * q4 + b4
  BY ByteSplit
<1>6. q2 = v \div 65536
  BY <1>1, <1>2, <1>3, SMT DEF Byte
<1>7. q3 = v \div 16777216
  BY <1>1, <1>2, <1>3, <1>4, SMT DEF Byte
<1>8. q3 = IF b4 >= 128 THEN b4 - 256 ELSE b4
  <2>1. -128 <= q3 /\ q3 <= 127
    BY <1>1, <1>2, <1>3, <1>4, SMT DEF Byte
  <2>2. q4 = 0 \/ q4 = -1
    BY <1>5, <2>1, SMT DEF Byte
  <2>3. QED
    BY <1>5, <2>1, <2>2, SMT DEF Byte
<1>9. IntegerBytes(v) = <<b1, b2, b3, b4>>
  BY <1>2, <1>3, <1>4, <1>5, <1>6, <1>7, SMT DEF IntegerBytes
<1>10. v = b1 + 256 * b2 + 65536 * b3 + 16777216 * q3
  BY <1>2, <1>3, <1>4, SMT DEF Byte
<1>11. ASSUME NEW s \in Seq(Byte), s[1] = b1, s[2] = b2, s[3] = b3, s[4] = b4
       PROVE  BytesInteger(s) = v
  BY <1>8, <1>10, <1>11, SMT DEF BytesInteger
<1>12. /\ IntegerBytes(v)[1] = b1 /\ IntegerBytes(v)[2] = b2
       /\ IntegerBytes(v)[3] = b3 /\ IntegerBytes(v)[4] = b4
  BY <1>9
<1>13. IntegerBytes(v) \in Seq(Byte) /\ Len(IntegerBytes(v)) = 4
  BY <1>9
<1>14. QED
  BY <1>11, <1>12, <1>13

-----------------------------------------------------------------------------
(* The operands that a field has room for.                                 *)

Fitting ==
  [ reg   |-> Registers,
    imm   |-> { Immediate(v) : v \in Byte },
    int   |-> { Immediate(v) : v \in Int32 },
    addr  |-> { Address(a) : a \in Int32 },
    entry |-> { ArrayEntry(a, i) : a \in Int32, i \in Registers },
    slice |-> { ArraySlice(a, s, t) : a \in Int32, s \in Registers, t \in Registers } ]

\* The bytes of a concatenation, by their places.
LEMMA Concatenated ==
  ASSUME NEW s \in Seq(Byte), NEW t \in Seq(Byte)
  PROVE  /\ s \o t \in Seq(Byte) /\ Len(s \o t) = Len(s) + Len(t)
         /\ \A i \in Int : 1 <= i /\ i <= Len(s) => (s \o t)[i] = s[i]
         /\ \A i \in Int : Len(s) < i /\ i <= Len(s) + Len(t) => (s \o t)[i] = t[i - Len(s)]
<1>1. Len(s) \in Nat /\ Len(t) \in Nat
  OBVIOUS
<1>2. /\ s \o t \in Seq(Byte) /\ Len(s \o t) = Len(s) + Len(t)
      /\ \A i \in 1 .. Len(s) + Len(t) : (s \o t)[i] = IF i <= Len(s) THEN s[i] ELSE t[i - Len(s)]
  BY ConcatProperties
<1>3. QED
  BY <1>1, <1>2

LEMMA FourAndMore ==
  ASSUME NEW s \in Seq(Byte), NEW t \in Seq(Byte), Len(s) = 4
  PROVE  /\ s \o t \in Seq(Byte) /\ Len(s \o t) = 4 + Len(t)
         /\ (s \o t)[1] = s[1] /\ (s \o t)[2] = s[2]
         /\ (s \o t)[3] = s[3] /\ (s \o t)[4] = s[4]
         /\ Len(t) >= 1 => (s \o t)[5] = t[1]
         /\ Len(t) >= 2 => (s \o t)[6] = t[2]
<1>1. Len(t) \in Nat
  OBVIOUS
<1> DEFINE u == s \o t
<1>0. /\ u \in Seq(Byte) /\ Len(u) = Len(s) + Len(t)
      /\ \A i \in Int : 1 <= i /\ i <= Len(s) => u[i] = s[i]
      /\ \A i \in Int : Len(s) < i /\ i <= Len(s) + Len(t) => u[i] = t[i - Len(s)]
  BY Concatenated
<1> HIDE DEF u
<1>2. /\ u \in Seq(Byte) /\ Len(u) = 4 + Len(t)
      /\ \A i \in Int : 1 <= i /\ i <= 4 => u[i] = s[i]
      /\ \A i \in Int : 4 < i /\ i <= 4 + Len(t) => u[i] = t[i - 4]
  BY <1>0
<1>3. u[1] = s[1] /\ u[2] = s[2] /\ u[3] = s[3] /\ u[4] = s[4]
  BY <1>2
<1>4. Len(t) >= 1 => u[5] = t[5 - 4]
  BY <1>1, <1>2
<1>5. Len(t) >= 2 => u[6] = t[6 - 4]
  BY <1>1, <1>2
<1>6. QED
  BY <1>2, <1>3, <1>4, <1>5 DEF u

\* An operand that has room in its field is read back from its bytes, whatever follows them,
\* and they are as many as the field has (encoding.py, cstruct and from_raw of operand.py).
THEOREM FieldsAreReadBack ==
  ASSUME NEW field \in DOMAIN Fitting, NEW op \in Fitting[field], NEW rest \in Seq(Byte)
  PROVE  /\ Len(FieldBytes(field, op)) = FieldSize(field)
         /\ FieldBytes(field, op) \in Seq(Byte)
         /\ FieldValue(field, FieldBytes(field, op) \o rest) = op
<1>1. DOMAIN Fitting = {"reg", "imm", "int", "addr", "entry", "slice"}
  BY DEF Fitting
<1>2. CASE field = "reg"
  <2>1. op \in Registers
    BY <1>2 DEF Fitting
  <2>2. FieldBytes(field, op) = <<RegisterByte(op)>> /\ FieldSize(field) = 1
    BY <1>2 DEF FieldBytes, FieldSize
  <2>3. RegisterByte(op) \in Byte /\ ByteRegister(RegisterByte(op)) = op
    BY <2>1, RegisterRoundTrip
  <2>4. (<<RegisterByte(op)>> \o rest)[1] = RegisterByte(op)
    BY <2>3
  <2>5. FieldValue(field, FieldBytes(field, op) \o rest) = op
    BY <1>2, <2>2, <2>3, <2>4 DEF FieldValue
  <2>6. QED
    BY <2>2, <2>3, <2>5
<1>3. CASE field = "imm"
  <2>1. PICK v \in Byte : op = Immediate(v)
    BY <1>3 DEF Fitting
  <2>2. op.value = v /\ v % 256 = v
    <3>1. op.value = v
      BY <2>1 DEF Immediate
    <3>2. v % 256 = v
      BY DEF Byte
    <3>3. QED
      BY <3>1, <3>2
  <2>3. FieldBytes(field, op) = <<v>> /\ FieldSize(field) = 1
    BY <1>3, <2>2 DEF FieldBytes, FieldSize
  <2>4. (<<v>> \o rest)[1] = v
    OBVIOUS
  <2>5. FieldValue(field, FieldBytes(field, op) \o rest) = op
    BY <1>3, <2>1, <2>3, <2>4 DEF FieldValue
  <2>6. QED
    BY <2>3, <2>5
<1>4. ASSUME NEW v \in Int32
      PROVE  /\ IntegerBytes(v) \in Seq(Byte) /\ Len(IntegerBytes(v)) = 4
             /\ \A s \in Seq(Byte) : BytesInteger(IntegerBytes(v) \o s) = v
  <2>1. /\ IntegerBytes(v) \in Seq(Byte) /\ Len(IntegerBytes(v)) = 4
        /\ \A s \in Seq(Byte) :
             s[1] = IntegerBytes(v)[1] /\ s[2] = IntegerBytes(v)[2]
             /\ s[3] = IntegerBytes(v)[3] /\ s[4] = IntegerBytes(v)[4]
               => BytesInteger(s) = v
    BY IntegerRoundTrip
  <2>2. ASSUME NEW s \in Seq(Byte)
        PROVE  BytesInteger(IntegerBytes(v) \o s) = v
    BY <2>1, FourAndMore
  <2>3. QED
    BY <2>1, <2>2
<1>5. CASE field = "int"
  <2>1. PICK v \in Int32 : op = Immediate(v)
    BY <1>5 DEF Fitting
  <2>2. op.value = v
    BY <2>1 DEF Immediate
  <2>3. FieldBytes(field, op) = IntegerBytes(v) /\ FieldSize(field) = 4
    BY <1>5, <2>2 DEF FieldBytes, FieldSize
  <2>4. FieldValue(field, FieldBytes(field, op) \o rest) = op
    BY <1>4, <1>5, <2>1, <2>3 DEF FieldValue
  <2>5. QED
    BY <1>4, <2>3, <2>4
<1>6. CASE field = "addr"
  <2>1. PICK a \in Int32 : op = Address(a)
    BY <1>6 DEF Fitting
  <2>2. op.value = a
    BY <2>1 DEF Address
  <2>3. FieldBytes(field, op) = IntegerBytes(a) /\ FieldSize(field) = 4
    BY <1>6, <2>2 DEF FieldBytes, FieldSize
  <2>4. FieldValue(field, FieldBytes(field, op) \o rest) = op
    BY <1>4, <1>6, <2>1, <2>3 DEF FieldValue
  <2>5. QED
    BY <1>4, <2>3, <2>4
<1>7. CASE field = "entry"
  <2>1. PICK a \in Int32, i \in Registers : op = ArrayEntry(a, i)
    BY <1>7 DEF Fitting
  <2>2. op.addr = a /\ op.index = i
    BY <2>1 DEF ArrayEntry
  <2> DEFINE tail == <<RegisterByte(i)>>
  <2>3. RegisterByte(i) \in Byte /\ ByteRegister(RegisterByte(i)) = i
    BY RegisterRoundTrip
  <2>4. tail \in Seq(Byte) /\ Len(tail) = 1 /\ tail[1] = RegisterByte(i)
    BY <2>3
  <2>5. FieldBytes(field, op) = IntegerBytes(a) \o tail /\ FieldSize(field) = 5
    BY <1>7, <2>2 DEF FieldBytes, FieldSize
  <2> HIDE DEF tail
  <2>6. /\ IntegerBytes(a) \o tail \in Seq(Byte) /\ Len(IntegerBytes(a) \o tail) = 5
        /\ (IntegerBytes(a) \o tail)[5] = RegisterByte(i)
    <3>1. IntegerBytes(a) \in Seq(Byte) /\ Len(IntegerBytes(a)) = 4
      BY <1>4
    <3>2. /\ IntegerBytes(a) \o tail \in Seq(Byte)
          /\ Len(IntegerBytes(a) \o tail) = 4 + Len(tail)
          /\ Len(tail) >= 1 => (IntegerBytes(a) \o tail)[5] = tail[1]
          /\ Len(tail) >= 2 => (IntegerBytes(a) \o tail)[6] = tail[2]
      BY <2>4, <3>1, FourAndMore, Zenon
    <3>3. QED
      BY <2>4, <3>2
  <2>7. ((IntegerBytes(a) \o tail) \o rest)[5] = RegisterByte(i)
    BY <2>6, Concatenated
  <2>8. BytesInteger((IntegerBytes(a) \o tail) \o rest) = a
    <3>1. (IntegerBytes(a) \o tail) \o rest = IntegerBytes(a) \o (tail \o rest)
      BY <1>4, <2>4, ConcatAssociative
    <3>2. tail \o rest \in Seq(Byte)
      BY <2>4, Concatenated
    <3>3. QED
      BY <1>4, <3>1, <3>2
  <2>9. FieldValue(field, FieldBytes(field, op) \o rest) = op
    BY <1>7, <2>1, <2>3, <2>5, <2>7, <2>8 DEF FieldValue
  <2>10. QED
    BY <2>5, <2>6, <2>9
<1>8. CASE field = "slice"
  <2>1. PICK a \in Int32, s \in Registers, t \in Registers : op = ArraySlice(a, s, t)
    BY <1>8 DEF Fitting
  <2>2. op.addr = a /\ op.start = s /\ op.stop = t
    BY <2>1 DEF ArraySlice
  <2> DEFINE tail == <<RegisterByte(s), RegisterByte(t)>>
  <2>3. /\ RegisterByte(s) \in Byte /\ ByteRegister(RegisterByte(s)) = s
        /\ RegisterByte(t) \in Byte /\ ByteRegister(RegisterByte(t)) = t
    BY RegisterRoundTrip
  <2>4. /\ tail \in Seq(Byte) /\ Len(tail) = 2
        /\ tail[1] = RegisterByte(s) /\ tail[2] = RegisterByte(t)
    BY <2>3
  <2>5. FieldBytes(field, op) = IntegerBytes(a) \o tail /\ FieldSize(field) = 6
    BY <1>8, <2>2 DEF FieldBytes, FieldSize
  <2> HIDE DEF tail
  <2>6. /\ IntegerBytes(a) \o tail \in Seq(Byte) /\ Len(IntegerBytes(a) \o tail) = 6
        /\ (IntegerBytes(a) \o tail)[5] = RegisterByte(s)
        /\ (IntegerBytes(a) \o tail)[6] = RegisterByte(t)
    <3>1. IntegerBytes(a) \in Seq(Byte) /\ Len(IntegerBytes(a)) = 4
      BY <1>4
    <3>2. /\ IntegerBytes(a) \o tail \in Seq(Byte)
          /\ Len(IntegerBytes(a) \o tail) = 4 + Len(tail)
          /\ Len(tail) >= 1 => (IntegerBytes(a) \o tail)[5] = tail[1]
          /\ Len(tail) >= 2 => (IntegerBytes(a) \o tail)[6] = tail[2]
      BY <2>4, <3>1, FourAndMore, Zenon
    <3>3. QED
      BY <2>4, <3>2
  <2>7. /\ ((IntegerBytes(a) \o tail) \o rest)[5] = RegisterByte(s)
        /\ ((IntegerBytes(a) \o tail) \o rest)[6] = RegisterByte(t)
    BY <2>6, Concatenated
  <2>8. BytesInteger((IntegerBytes(a) \o tail) \o rest) = a
    <3>1. (IntegerBytes(a) \o tail) \o rest = IntegerBytes(a) \o (tail \o rest)
      BY <1>4, <2>4, ConcatAssociative
    <3>2. tail \o rest \in Seq(Byte)
      BY <2>4, Concatenated
    <3>3. QED
      BY <1>4, <3>1, <3>2
  <2>9. FieldValue(field, FieldBytes(field, op) \o rest) = op
    BY <1>8, <2>1, <2>3, <2>5, <2>7, <2>8 DEF FieldValue
  <2>10. QED
    BY <2>5, <2>6, <2>9
<1>9. QED
  BY <1>1, <1>2, <1>3, <1>5, <1>6, <1>7, <1>8

-----------------------------------------------------------------------------
(* Where a field starts.                                                   *)

\* The offsets after each of the first n fields of a layout.
OffsetsUpTo(layout, n, off) ==
  /\ off[0] = 1
  /\ \A i \in 1 .. n : off[i] = off[i - 1] + FieldSize(layout[i])

\* The sums of field sizes over sets of places, as FoldLeft computes them.
SumsUpTo(layout, n, sum) ==
  sum = [s \in SUBSET (1 .. n) |->
           IF s = {} THEN 1 ELSE sum[s \ {Max(s)}] + FieldSize(layout[Max(s)])]

LEMMA MaxOfPlaces ==
  ASSUME NEW n \in Nat, NEW s \in SUBSET (1 .. n), n \in s
  PROVE  Max(s) = n
<1>1. \A x \in s : x <= n
  OBVIOUS
<1>2. \A x \in s : (\A y \in s : x >= y) => x = n
  BY <1>1
<1>3. \A y \in s : n >= y
  BY <1>1
<1>4. QED
  BY <1>2, <1>3 DEF Max

LEMMA SumsFacts ==
  ASSUME NEW layout, NEW n \in Nat, NEW sum, SumsUpTo(layout, n, sum)
  PROVE  /\ sum[{}] = 1
         /\ \A s \in SUBSET (1 .. n) :
              s # {} => sum[s] = sum[s \ {Max(s)}] + FieldSize(layout[Max(s)])
<1> DEFINE f == [s \in SUBSET (1 .. n) |->
                   IF s = {} THEN 1 ELSE sum[s \ {Max(s)}] + FieldSize(layout[Max(s)])]
<1>1. \A s \in SUBSET (1 .. n) :
        f[s] = IF s = {} THEN 1 ELSE sum[s \ {Max(s)}] + FieldSize(layout[Max(s)])
  OBVIOUS
<1>2. sum = f
  BY DEF SumsUpTo
<1> HIDE DEF f
<1>3. QED
  BY <1>1, <1>2

LEMMA SumsExtend ==
  ASSUME NEW layout, NEW n \in Nat, NEW sum, SumsUpTo(layout, n, sum)
  PROVE  \E new : SumsUpTo(layout, n + 1, new)
<1> DEFINE m   == n + 1
           new == [s \in SUBSET (1 .. m) |->
                     IF m \in s THEN sum[s \ {m}] + FieldSize(layout[m]) ELSE sum[s]]
           f   == [s \in SUBSET (1 .. m) |->
                     IF s = {} THEN 1 ELSE new[s \ {Max(s)}] + FieldSize(layout[Max(s)])]
<1>1. \A s \in SUBSET (1 .. m) :
        new[s] = IF m \in s THEN sum[s \ {m}] + FieldSize(layout[m]) ELSE sum[s]
  OBVIOUS
<1>2. /\ sum[{}] = 1
      /\ \A s \in SUBSET (1 .. n) :
           s # {} => sum[s] = sum[s \ {Max(s)}] + FieldSize(layout[Max(s)])
  BY SumsFacts
<1>3. m \in Nat /\ \A s \in SUBSET (1 .. m) : m \notin s => s \in SUBSET (1 .. n)
  OBVIOUS
<1> HIDE DEF m, new
<1>4. ASSUME NEW s \in SUBSET (1 .. m)
      PROVE  new[s] = IF s = {} THEN 1 ELSE new[s \ {Max(s)}] + FieldSize(layout[Max(s)])
  <2>1. CASE m \in s
    <3>1. Max(s) = m
      BY <1>3, <2>1, MaxOfPlaces
    <3>2. s \ {m} \in SUBSET (1 .. m) /\ m \notin s \ {m}
      OBVIOUS
    <3>3. new[s \ {m}] = sum[s \ {m}]
      BY <1>1, <3>2
    <3>4. QED
      BY <1>1, <2>1, <3>1, <3>3
  <2>2. CASE m \notin s
    <3>1. s \ {Max(s)} \in SUBSET (1 .. m) /\ m \notin s \ {Max(s)}
      BY <2>2
    <3>2. new[s] = sum[s] /\ new[s \ {Max(s)}] = sum[s \ {Max(s)}]
      BY <1>1, <2>2, <3>1
    <3>3. QED
      BY <1>2, <1>3, <2>2, <3>2
  <2>3. QED
    BY <2>1, <2>2
<1>5. new = f
  <2>1. new = [s \in SUBSET (1 .. m) |-> new[s]]
    BY DEF new
  <2>2. QED
    BY <1>4, <2>1
<1>6. SumsUpTo(layout, m, new)
  BY <1>5 DEF SumsUpTo
<1>7. QED
  BY <1>6 DEF m

LEMMA SumsExist ==
  ASSUME NEW layout, NEW n \in Nat
  PROVE  \E sum : SumsUpTo(layout, n, sum)
<1> DEFINE T == {m \in Nat : \E sum : SumsUpTo(layout, m, sum)}
<1>1. 0 \in T
  <2> DEFINE one == [s \in SUBSET (1 .. 0) |-> 1]
  <2>1. \A s \in SUBSET (1 .. 0) : s = {}
    OBVIOUS
  <2>2. SumsUpTo(layout, 0, one)
    BY <2>1 DEF SumsUpTo
  <2>3. QED
    BY <2>2
<1>2. \A m \in Nat : m \in T => m + 1 \in T
  BY SumsExtend
<1> HIDE DEF T
<1>3. n \in T
  BY <1>1, <1>2, SetInduction
<1>4. QED
  BY <1>3 DEF T

LEMMA SumsAreOffsets ==
  ASSUME NEW layout, NEW n \in Nat, NEW sum, SumsUpTo(layout, n, sum),
         NEW off, OffsetsUpTo(layout, n, off)
  PROVE  sum[1 .. n] = off[n]
<1> DEFINE T == {m \in Nat : m <= n => sum[1 .. m] = off[m]}
<1>1. 0 \in T
  <2>1. 1 .. 0 = {}
    OBVIOUS
  <2>2. QED
    BY <2>1, SumsFacts DEF OffsetsUpTo
<1>2. ASSUME NEW m \in Nat, m \in T
      PROVE  m + 1 \in T
  <2> SUFFICES ASSUME m + 1 <= n
               PROVE  sum[1 .. m + 1] = off[m + 1]
    OBVIOUS
  <2> DEFINE s == 1 .. m + 1
  <2>1. s \in SUBSET (1 .. n) /\ s \in SUBSET (1 .. m + 1) /\ m + 1 \in s /\ s # {}
    <3> HIDE DEF T
    <3>1. m + 1 \in s
      OBVIOUS
    <3>2. \A x \in s : x \in 1 .. n
      OBVIOUS
    <3>3. QED
      BY <3>1, <3>2
  <2>2. Max(s) = m + 1
    BY <2>1, MaxOfPlaces
  <2>3. s \ {m + 1} = 1 .. m
    OBVIOUS
  <2> HIDE DEF s
  <2>4. sum[s] = sum[1 .. m] + FieldSize(layout[m + 1])
    BY <2>1, <2>2, <2>3, SumsFacts
  <2>5. m + 1 \in 1 .. n /\ (m + 1) - 1 = m /\ m <= n
    OBVIOUS
  <2>6. off[m + 1] = off[m] + FieldSize(layout[m + 1])
    BY <2>5 DEF OffsetsUpTo
  <2>7. QED
    BY <1>2, <2>4, <2>5, <2>6 DEF s
<1> HIDE DEF T
<1>3. n \in T
  BY <1>1, <1>2, SetInduction
<1>4. QED
  BY <1>3 DEF T

LEMMA OffsetIs ==
  ASSUME NEW S, NEW layout \in Seq(S), NEW i \in 1 .. Len(layout),
         NEW off, OffsetsUpTo(layout, Len(layout), off)
  PROVE  FieldOffset(layout, i) = off[i - 1]
<1> DEFINE q == SubSeq(layout, 1, i - 1)
           n == i - 1
<1>1. n \in Nat /\ DOMAIN q = 1 .. n /\ \A j \in 1 .. n : q[j] = layout[j]
  OBVIOUS
<1>2. FieldOffset(layout, i) = FoldLeft(LAMBDA k, f : k + FieldSize(f), 1, q)
  BY DEF FieldOffset
<1> HIDE DEF q
<1>3. FoldLeft(LAMBDA k, f : k + FieldSize(f), 1, q) = (CHOOSE sum : SumsUpTo(q, n, sum))[1 .. n]
  BY <1>1 DEF FoldLeft, MapThenFoldSet, SumsUpTo
<1>4. PICK sum : sum = CHOOSE g : SumsUpTo(q, n, g)
  OBVIOUS
<1>5. SumsUpTo(q, n, sum)
  BY <1>1, <1>4, SumsExist
<1>6. OffsetsUpTo(q, n, off)
  BY <1>1 DEF OffsetsUpTo
<1>7. FieldOffset(layout, i) = sum[1 .. n]
  BY <1>2, <1>3, <1>4
<1>8. sum[1 .. n] = off[n]
  BY <1>1, <1>5, <1>6, SumsAreOffsets
<1>9. QED
  BY <1>7, <1>8


-----------------------------------------------------------------------------
(* The fields of a command.                                                *)

\* What is joined after the first i members comes first.
LEMMA JoinsRest ==
  ASSUME NEW S, NEW s \in Seq(Seq(S)), NEW f, Joins(s, f), NEW i \in 0 .. Len(s)
  PROVE  \E t \in Seq(S) : f[Len(s)] = Cat(f[i], t)
<1>0. Len(s) \in Nat /\ i \in Nat /\ \A k \in 1 .. Len(s) : s[k] \in Seq(S)
  OBVIOUS
<1>1. /\ Len(s) \in Nat /\ i \in Nat
      /\ \A k \in 0 .. Len(s) : f[k] \in Seq(S)
      /\ \A k \in 1 .. Len(s) : f[k] = Cat(f[k - 1], s[k]) /\ s[k] \in Seq(S)
  <2>1. \A k \in 0 .. Len(s) : f[k] \in Seq(S)
    BY JoinsTyped
  <2>2. \A k \in 1 .. Len(s) : f[k] = Cat(f[k - 1], s[k])
    BY DEF Joins, JoinsUpTo, Cat
  <2>3. QED
    BY <1>0, <2>1, <2>2
<1> DEFINE Rest(m) == \E t \in Seq(S) : f[i + m] = Cat(f[i], t)
           T       == {m \in Nat : i + m <= Len(s) => Rest(m)}
<1>2. 0 \in T
  <2>1. f[i + 0] = Cat(f[i], <<>>) /\ <<>> \in Seq(S)
    BY <1>1, CatEmpty, EmptySeq
  <2>2. Rest(0)
    BY <2>1
  <2>3. QED
    BY <2>2
<1>3. ASSUME NEW m \in Nat, m \in T
      PROVE  m + 1 \in T
  <2> SUFFICES ASSUME i + (m + 1) <= Len(s)
               PROVE  Rest(m + 1)
    OBVIOUS
  <2>1. i + (m + 1) \in 1 .. Len(s) /\ (i + (m + 1)) - 1 = i + m /\ i + m <= Len(s)
    BY <1>1
  <2>2. PICK t \in Seq(S) : f[i + m] = Cat(f[i], t)
    BY <1>3, <2>1
  <2>3. f[i + (m + 1)] = Cat(f[i + m], s[i + (m + 1)]) /\ s[i + (m + 1)] \in Seq(S)
    BY <1>1, <2>1
  <2>4. f[i + (m + 1)] = Cat(f[i], Cat(t, s[i + (m + 1)]))
    BY <1>1, <2>2, <2>3, CatAssociative
  <2>5. Cat(t, s[i + (m + 1)]) \in Seq(S)
    BY <2>3, CatTyped
  <2>6. QED
    BY <2>4, <2>5
<1>4. PICK m \in Nat : i + m = Len(s)
  <2>1. Len(s) - i \in Nat /\ i + (Len(s) - i) = Len(s)
    BY <1>1
  <2>2. QED
    BY <2>1
<1> HIDE DEF T
<1>5. m \in T
  BY <1>2, <1>3, SetInduction
<1>6. i + m <= Len(s)
  BY <1>1, <1>4
<1>7. \E t \in Seq(S) : f[i + m] = Cat(f[i], t)
  BY <1>5, <1>6 DEF T
<1>8. QED
  BY <1>4, <1>7

LEMMA SuffixOf ==
  ASSUME NEW S, NEW s \in Seq(S), NEW t \in Seq(S)
  PROVE  SubSeq(Cat(s, t), Len(s) + 1, Len(Cat(s, t))) = t
<1>0. Len(s) \in Nat /\ Len(t) \in Nat
  OBVIOUS
<1> DEFINE u == Cat(s, t)
<1>1. /\ u \in Seq(S) /\ Len(u) = Len(s) + Len(t) /\ Len(s) \in Nat /\ Len(t) \in Nat
      /\ \A j \in 1 .. Len(s) + Len(t) : u[j] = IF j <= Len(s) THEN s[j] ELSE t[j - Len(s)]
  BY <1>0, CatMembers
<1> HIDE DEF u
<1> DEFINE v == SubSeq(u, Len(s) + 1, Len(u))
<1>2. v \in Seq(S) /\ Len(v) = Len(t) /\ \A j \in 1 .. Len(t) : v[j] = u[j + Len(s)]
  BY <1>1
<1>3. \A j \in 1 .. Len(t) : v[j] = t[j]
  <2> TAKE j \in 1 .. Len(t)
  <2>1. /\ j + Len(s) \in 1 .. Len(s) + Len(t) /\ ~(j + Len(s) <= Len(s))
        /\ (j + Len(s)) - Len(s) = j
    BY <1>1
  <2>2. u[j + Len(s)] = t[j]
    BY <1>1, <2>1
  <2>3. QED
    BY <1>2, <2>2
<1> HIDE DEF v
<1>4. v = t
  BY <1>2, <1>3, SeqEqual
<1>5. QED
  BY <1>4 DEF u, v

\* A part in the middle comes before all that follows it.
LEMMA PartsOf ==
  ASSUME NEW S, NEW h \in Seq(S), NEW x \in Seq(S), NEW y \in Seq(S), NEW t \in Seq(S),
         NEW z \in Seq(S)
  PROVE  Cat(Cat(h, Cat(Cat(x, y), t)), z) = Cat(Cat(h, x), Cat(y, Cat(t, z)))
<1>1. /\ Cat(Cat(x, y), t) = Cat(x, Cat(y, t)) /\ Cat(y, t) \in Seq(S)
      /\ Cat(h, x) \in Seq(S)
  BY CatAssociative, CatTyped
<1>2. Cat(h, Cat(x, Cat(y, t))) = Cat(Cat(h, x), Cat(y, t))
  BY <1>1, CatAssociative
<1>3. Cat(Cat(Cat(h, x), Cat(y, t)), z) = Cat(Cat(h, x), Cat(Cat(y, t), z))
  BY <1>1, CatAssociative
<1>4. Cat(Cat(y, t), z) = Cat(y, Cat(t, z))
  BY CatAssociative
<1>5. QED
  BY <1>1, <1>2, <1>3, <1>4

LEMMA LenOfCat ==
  ASSUME NEW S, NEW s \in Seq(S), NEW t \in Seq(S)
  PROVE  Len(Cat(s, t)) = Len(s) + Len(t) /\ Len(s) \in Nat /\ Len(t) \in Nat
<1>1. Len(s) \in Nat /\ Len(t) \in Nat
  OBVIOUS
<1>2. QED
  BY <1>1, CatMembers

\* The first member of a sequence that is continued.
LEMMA FirstOf ==
  ASSUME NEW S, NEW e \in S, NEW s \in Seq(S), NEW t \in Seq(S)
  PROVE  Cat(Cat(<<e>>, s), t)[1] = e
<1> DEFINE h == <<e>>
<1>1. h \in Seq(S) /\ Len(h) = 1 /\ h[1] = e
  OBVIOUS
<1> HIDE DEF h
<1>2. Cat(Cat(h, s), t) = Cat(h, Cat(s, t)) /\ Cat(s, t) \in Seq(S)
  BY <1>1, CatAssociative, CatTyped
<1>3. Len(Cat(s, t)) \in Nat
  BY <1>2, LenOfCat
<1>4. 1 \in 1 .. Len(h) + Len(Cat(s, t)) /\ 1 <= Len(h)
  BY <1>1, <1>3
<1>5. Cat(h, Cat(s, t))[1] = h[1]
  BY <1>1, <1>2, <1>4, CatMembers
<1>6. QED
  BY <1>1, <1>2, <1>5 DEF h

\* Operands that fit the fields of a layout.
OperandsFit(layout, ops) ==
  /\ layout \in Seq(DOMAIN Fitting)
  /\ ops \in Seq(UNION { Fitting[field] : field \in DOMAIN Fitting })
  /\ DOMAIN ops = DOMAIN layout
  /\ \A i \in DOMAIN layout : ops[i] \in Fitting[layout[i]]

OperandBytes(layout, ops) == [i \in DOMAIN ops |-> FieldBytes(layout[i], ops[i])]

LEMMA OperandBytesTyped ==
  ASSUME NEW layout, NEW ops, OperandsFit(layout, ops)
  PROVE  LET F == OperandBytes(layout, ops)
         IN /\ F \in Seq(Seq(Byte)) /\ Len(F) = Len(layout) /\ Len(layout) \in Nat
            /\ \A i \in 1 .. Len(layout) :
                 F[i] = FieldBytes(layout[i], ops[i]) /\ Len(F[i]) = FieldSize(layout[i])
<1> DEFINE F == OperandBytes(layout, ops)
           n == Len(layout)
<1>1. n \in Nat /\ DOMAIN layout = 1 .. n /\ \A i \in 1 .. n : layout[i] \in DOMAIN Fitting
  BY DEF OperandsFit
<1>2. \A i \in 1 .. n : /\ FieldBytes(layout[i], ops[i]) \in Seq(Byte)
                        /\ Len(FieldBytes(layout[i], ops[i])) = FieldSize(layout[i])
  BY <1>1, FieldsAreReadBack, EmptySeq DEF OperandsFit
<1>3. F = [i \in 1 .. n |-> FieldBytes(layout[i], ops[i])]
  BY <1>1 DEF OperandsFit, OperandBytes
<1> HIDE DEF F, n
<1>4. F \in Seq(Seq(Byte)) /\ Len(F) = n /\ \A i \in 1 .. n : F[i] = FieldBytes(layout[i], ops[i])
  BY <1>1, <1>2, <1>3
<1>5. QED
  BY <1>1, <1>2, <1>4 DEF F, n

\* Every field of a command is read back where it starts.
LEMMA CommandFields ==
  ASSUME NEW layout, NEW ops, OperandsFit(layout, ops), NEW id \in Byte, NEW z \in Seq(Byte),
         NEW raw, raw = Cat(Cat(<<id>>, FlattenSeq(OperandBytes(layout, ops))), z)
  PROVE  /\ raw[1] = id
         /\ \A i \in DOMAIN layout :
              FieldValue(layout[i], SubSeq(raw, FieldOffset(layout, i) + 1, Len(raw))) = ops[i]
         /\ \E off : /\ OffsetsUpTo(layout, Len(layout), off)
                     /\ off[Len(layout)] = 1 + Len(FlattenSeq(OperandBytes(layout, ops)))
<1>1. PICK F, n, h : F = OperandBytes(layout, ops) /\ n = Len(layout) /\ h = <<id>>
  OBVIOUS
<1>2. /\ F \in Seq(Seq(Byte)) /\ Len(F) = n /\ n \in Nat
      /\ \A i \in 1 .. n : F[i] = FieldBytes(layout[i], ops[i]) /\ Len(F[i]) = FieldSize(layout[i])
  BY <1>1, OperandBytesTyped
<1>3. \A i \in 1 .. n : F[i] \in Seq(Byte)
  BY <1>2
<1>4. layout \in Seq(DOMAIN Fitting) /\ DOMAIN layout = 1 .. n
  BY <1>1 DEF OperandsFit
<1>5. h \in Seq(Byte) /\ Len(h) = 1
  BY <1>1
<1>6. raw = Cat(Cat(h, FlattenSeq(F)), z)
  BY <1>1
<1>7. PICK f : Joins(F, f)
  BY <1>2, JoinsExists
<1>8. FlattenSeq(F) = f[n] /\ \A i \in 0 .. n : f[i] \in Seq(Byte)
  BY <1>2, <1>7, FlattenJoins, JoinsTyped
<1>9. f[0] = <<>> /\ \A i \in 1 .. n : f[i] = Cat(f[i - 1], F[i])
  BY <1>2, <1>7 DEF Joins, JoinsUpTo, Cat
<1>10. raw[1] = id
  <2>1. FlattenSeq(F) \in Seq(Byte)
    BY <1>2, FlattenTyped
  <2>2. QED
    BY <1>1, <2>1, FirstOf
<1>11. ASSUME NEW i \in 1 .. n
       PROVE  /\ i - 1 \in 0 .. n /\ i \in 0 .. n
              /\ f[i] = Cat(f[i - 1], F[i]) /\ f[i - 1] \in Seq(Byte) /\ F[i] \in Seq(Byte)
              /\ Len(f[i]) = Len(f[i - 1]) + FieldSize(layout[i]) /\ Len(f[i - 1]) \in Nat
              /\ FieldSize(layout[i]) \in Nat
  <2>1. i - 1 \in 0 .. n /\ i \in 0 .. n
    BY <1>2
  <2>2. f[i] = Cat(f[i - 1], F[i]) /\ f[i - 1] \in Seq(Byte) /\ F[i] \in Seq(Byte)
    BY <1>3, <1>8, <1>9, <2>1
  <2>3. /\ Len(Cat(f[i - 1], F[i])) = Len(f[i - 1]) + Len(F[i])
        /\ Len(f[i - 1]) \in Nat /\ Len(F[i]) \in Nat
    BY <2>2, LenOfCat
  <2>4. QED
    BY <1>2, <2>1, <2>2, <2>3
<1>12. PICK off : off = [i \in 0 .. n |-> 1 + Len(f[i])]
  OBVIOUS
<1>13. OffsetsUpTo(layout, n, off)
  <2>1. Len(f[0]) = 0 /\ \A i \in 0 .. n : off[i] = 1 + Len(f[i])
    BY <1>9, <1>12
  <2>2. off[0] = 1
    BY <1>2, <2>1
  <2>3. ASSUME NEW i \in 1 .. n
        PROVE  off[i] = off[i - 1] + FieldSize(layout[i])
    <3>1. /\ i - 1 \in 0 .. n /\ i \in 0 .. n /\ Len(f[i - 1]) \in Nat
          /\ Len(f[i]) = Len(f[i - 1]) + FieldSize(layout[i]) /\ FieldSize(layout[i]) \in Nat
      BY <1>11
    <3>2. off[i] = 1 + Len(f[i]) /\ off[i - 1] = 1 + Len(f[i - 1])
      BY <2>1, <3>1
    <3>3. QED
      BY <3>1, <3>2
  <2>4. QED
    BY <2>2, <2>3 DEF OffsetsUpTo
<1>14. ASSUME NEW i \in DOMAIN layout
       PROVE  FieldValue(layout[i], SubSeq(raw, FieldOffset(layout, i) + 1, Len(raw))) = ops[i]
  <2>1. i \in 1 .. n
    BY <1>4
  <2>2. FieldOffset(layout, i) = 1 + Len(f[i - 1])
    <3>1. FieldOffset(layout, i) = off[i - 1]
      BY <1>1, <1>4, <1>13, <2>1, OffsetIs
    <3>2. i - 1 \in 0 .. n
      BY <1>11, <2>1
    <3>3. QED
      BY <1>12, <3>1, <3>2
  <2>3. PICK t \in Seq(Byte) : f[n] = Cat(f[i], t)
    <3>1. i \in 0 .. Len(F)
      BY <1>2, <2>1
    <3>2. \E t \in Seq(Byte) : f[Len(F)] = Cat(f[i], t)
      BY <1>2, <1>7, <3>1, JoinsRest
    <3>3. QED
      BY <1>2, <3>2
  <2>4. PICK x \in Seq(Byte), y \in Seq(Byte) : x = f[i - 1] /\ y = F[i]
    BY <1>11, <2>1
  <2>5. f[n] = Cat(Cat(x, y), t)
    BY <1>11, <2>1, <2>3, <2>4
  <2>6. raw = Cat(Cat(h, x), Cat(y, Cat(t, z)))
    <3>1. raw = Cat(Cat(h, Cat(Cat(x, y), t)), z)
      BY <1>6, <1>8, <2>5
    <3>2. QED
      BY <1>5, <3>1, PartsOf
  <2>7. PICK a \in Seq(Byte), b \in Seq(Byte) : a = Cat(h, x) /\ b = Cat(t, z)
    BY <1>5, CatTyped
  <2>8. Len(a) = 1 + Len(x)
    BY <1>5, <2>7, LenOfCat
  <2>9. Cat(y, b) \in Seq(Byte)
    BY CatTyped
  <2>10. SubSeq(raw, Len(a) + 1, Len(raw)) = Cat(y, b)
    <3>1. raw = Cat(a, Cat(y, b))
      BY <2>6, <2>7
    <3>2. SubSeq(Cat(a, Cat(y, b)), Len(a) + 1, Len(Cat(a, Cat(y, b)))) = Cat(y, b)
      BY <2>9, SuffixOf
    <3>3. QED
      BY <3>1, <3>2
  <2>11. FieldOffset(layout, i) = Len(a)
    BY <2>2, <2>4, <2>8
  <2>12. y = FieldBytes(layout[i], ops[i]) /\ layout[i] \in DOMAIN Fitting
         /\ ops[i] \in Fitting[layout[i]]
    BY <1>2, <2>1, <2>4, <1>4 DEF OperandsFit
  <2>13. FieldValue(layout[i], FieldBytes(layout[i], ops[i]) \o b) = ops[i]
    BY <2>12, FieldsAreReadBack
  <2>14. QED
    BY <2>10, <2>11, <2>12, <2>13 DEF Cat
<1>15. OffsetsUpTo(layout, Len(layout), off)
       /\ off[Len(layout)] = 1 + Len(FlattenSeq(OperandBytes(layout, ops)))
  <2>1. n \in 0 .. n
    BY <1>2
  <2>2. off[n] = 1 + Len(FlattenSeq(F))
    BY <1>8, <1>12, <2>1
  <2>3. QED
    BY <1>1, <1>13, <2>2
<1>16. QED
  BY <1>10, <1>14, <1>15


---------------------------------------------------------------------------
(* The classes of an instruction set.                                      *)

\* The opcodes of the core are bytes, and no two classes of it share one.
LEMMA CoreOpcodes ==
  /\ \A c \in CORE_INSTRUCTIONS : c.id \in Byte \ (20 .. 31)
  /\ \A c \in CORE_INSTRUCTIONS : c.id = 41 => c.mnemonic = "meas_basis"
  /\ \A c, d \in CORE_INSTRUCTIONS : c.id = d.id => c = d
<1>1. \A c \in MemoryClasses : c.id \in 1 .. 8
  BY DEF MemoryClasses, Class
<1>2. \A c \in BranchClasses : c.id \in 9 .. 15
  BY DEF BranchClasses, Class
<1>3. \A c \in ArithmeticClasses : c.id \in 16 .. 19
  BY DEF ArithmeticClasses, Class
<1>4. \A c \in MeasureClasses : c.id \in {32, 41} /\ (c.id = 41 => c.mnemonic = "meas_basis")
  BY DEF MeasureClasses, Class
<1>5. \A c \in EprClasses : c.id \in {33, 34}
  BY DEF EprClasses, Class
<1>6. \A c \in WaitAndReturnClasses : c.id \in (35 .. 40) \cup {100}
  BY DEF WaitAndReturnClasses, Class
<1>11. \A c, d \in MemoryClasses : c.id = d.id => c = d
  BY DEF MemoryClasses, Class
<1>12. \A c, d \in BranchClasses : c.id = d.id => c = d
  BY DEF BranchClasses, Class
<1>13. \A c, d \in ArithmeticClasses : c.id = d.id => c = d
  BY DEF ArithmeticClasses, Class
<1>14. \A c, d \in MeasureClasses : c.id = d.id => c = d
  BY DEF MeasureClasses, Class
<1>15. \A c, d \in EprClasses : c.id = d.id => c = d
  BY DEF EprClasses, Class
<1>16. \A c, d \in WaitAndReturnClasses : c.id = d.id => c = d
  BY DEF WaitAndReturnClasses, Class
<1>20. \A c \in CORE_INSTRUCTIONS : c.id \in Byte \ (20 .. 31)
  BY <1>1, <1>2, <1>3, <1>4, <1>5, <1>6 DEF CORE_INSTRUCTIONS, Byte
<1>21. \A c \in CORE_INSTRUCTIONS : c.id = 41 => c.mnemonic = "meas_basis"
  BY <1>1, <1>2, <1>3, <1>4, <1>5, <1>6 DEF CORE_INSTRUCTIONS
<1>22. \A c, d \in CORE_INSTRUCTIONS : c.id = d.id => c = d
  BY <1>1, <1>2, <1>3, <1>4, <1>5, <1>6, <1>11, <1>12, <1>13, <1>14, <1>15, <1>16
     DEF CORE_INSTRUCTIONS
<1>30. QED
  BY <1>20, <1>21, <1>22

\* The operands of every class are of kinds that have bytes.
LEMMA LayoutKinds ==
  /\ RegInstruction \in Seq(DOMAIN Fitting) /\ RegRegInstruction \in Seq(DOMAIN Fitting)
  /\ RegImmImmInstruction \in Seq(DOMAIN Fitting) /\ RegRegImmImmInstruction \in Seq(DOMAIN Fitting)
  /\ RegRegImm4Instruction \in Seq(DOMAIN Fitting) /\ RegRegRegInstruction \in Seq(DOMAIN Fitting)
  /\ RegRegRegRegInstruction \in Seq(DOMAIN Fitting) /\ ImmInstruction \in Seq(DOMAIN Fitting)
  /\ ImmImmInstruction \in Seq(DOMAIN Fitting) /\ RegRegImmInstruction \in Seq(DOMAIN Fitting)
  /\ RegImmInstruction \in Seq(DOMAIN Fitting) /\ RegEntryInstruction \in Seq(DOMAIN Fitting)
  /\ RegAddrInstruction \in Seq(DOMAIN Fitting) /\ ArrayEntryInstruction \in Seq(DOMAIN Fitting)
  /\ ArraySliceInstruction \in Seq(DOMAIN Fitting) /\ AddrInstruction \in Seq(DOMAIN Fitting)
  /\ Reg5Instruction \in Seq(DOMAIN Fitting)
<1>1. DOMAIN Fitting = {"reg", "imm", "int", "addr", "entry", "slice"}
  BY DEF Fitting
<1>2. PICK K : K = DOMAIN Fitting
  OBVIOUS
<1>3. /\ "reg" \in K /\ "imm" \in K /\ "int" \in K /\ "addr" \in K /\ "entry" \in K
      /\ "slice" \in K
  BY <1>1, <1>2
<1>4. RegInstruction \in Seq(K) /\ RegRegInstruction \in Seq(K)
      /\ RegImmImmInstruction \in Seq(K) /\ RegRegImmImmInstruction \in Seq(K)
  BY <1>3 DEF RegInstruction, RegRegInstruction, RegImmImmInstruction, RegRegImmImmInstruction
<1>5. RegRegImm4Instruction \in Seq(K) /\ RegRegRegInstruction \in Seq(K)
      /\ RegRegRegRegInstruction \in Seq(K) /\ ImmInstruction \in Seq(K)
  BY <1>3 DEF RegRegImm4Instruction, RegRegRegInstruction, RegRegRegRegInstruction,
              ImmInstruction
<1>6. ImmImmInstruction \in Seq(K) /\ RegRegImmInstruction \in Seq(K)
      /\ RegImmInstruction \in Seq(K) /\ RegEntryInstruction \in Seq(K)
  BY <1>3 DEF ImmImmInstruction, RegRegImmInstruction, RegImmInstruction, RegEntryInstruction
<1>7. RegAddrInstruction \in Seq(K) /\ ArrayEntryInstruction \in Seq(K)
      /\ ArraySliceInstruction \in Seq(K) /\ AddrInstruction \in Seq(K)
      /\ Reg5Instruction \in Seq(K)
  BY <1>3 DEF RegAddrInstruction, ArrayEntryInstruction, ArraySliceInstruction,
              AddrInstruction, Reg5Instruction
<1>8. QED
  BY <1>2, <1>4, <1>5, <1>6, <1>7

LEMMA LayoutsFit ==
  \A c \in CORE_INSTRUCTIONS \cup VanillaFlavour \cup NVFlavour : c.layout \in Seq(DOMAIN Fitting)
<1>2. \A c \in MemoryClasses : c.layout \in Seq(DOMAIN Fitting)
  BY LayoutKinds DEF MemoryClasses, Class
<1>3. \A c \in BranchClasses : c.layout \in Seq(DOMAIN Fitting)
  BY LayoutKinds DEF BranchClasses, Class
<1>4. \A c \in ArithmeticClasses : c.layout \in Seq(DOMAIN Fitting)
  BY LayoutKinds DEF ArithmeticClasses, Class, ClassicalOpInstruction, ClassicalOpModInstruction
<1>5. \A c \in MeasureClasses : c.layout \in Seq(DOMAIN Fitting)
  BY LayoutKinds DEF MeasureClasses, Class
<1>6. \A c \in EprClasses : c.layout \in Seq(DOMAIN Fitting)
  BY LayoutKinds DEF EprClasses, Class
<1>7. \A c \in WaitAndReturnClasses : c.layout \in Seq(DOMAIN Fitting)
  BY LayoutKinds DEF WaitAndReturnClasses, Class
<1>8. \A c \in VanillaFlavour : c.layout \in Seq(DOMAIN Fitting)
  BY LayoutKinds DEF VanillaFlavour, Class, SingleQubitInstruction, RotationInstruction,
                     TwoQubitInstruction
<1>9. \A c \in NVFlavour : c.layout \in Seq(DOMAIN Fitting)
  BY LayoutKinds DEF NVFlavour, Class, RotationInstruction, ControlledRotationInstruction
<1>10. QED
  BY <1>2, <1>3, <1>4, <1>5, <1>6, <1>7, <1>8, <1>9 DEF CORE_INSTRUCTIONS

\* The fields of a layout fit in a command, behind the opcode.
Short(layout) == \A off : OffsetsUpTo(layout, Len(layout), off)
                            => off[Len(layout)] \in 1 .. COMMAND_BYTES

LEMMA FieldSizes ==
  /\ FieldSize("reg") = 1 /\ FieldSize("imm") = 1 /\ FieldSize("int") = 4
  /\ FieldSize("addr") = 4 /\ FieldSize("entry") = 5 /\ FieldSize("slice") = 6
  BY DEF FieldSize

LEMMA ShortLayouts ==
  /\ Short(RegInstruction) /\ Short(RegRegInstruction) /\ Short(RegImmImmInstruction)
  /\ Short(RegRegImmImmInstruction) /\ Short(RegRegImm4Instruction)
  /\ Short(RegRegRegInstruction) /\ Short(RegRegRegRegInstruction) /\ Short(ImmInstruction)
  /\ Short(ImmImmInstruction) /\ Short(RegRegImmInstruction) /\ Short(RegImmInstruction)
  /\ Short(RegEntryInstruction) /\ Short(RegAddrInstruction) /\ Short(ArrayEntryInstruction)
  /\ Short(ArraySliceInstruction) /\ Short(AddrInstruction) /\ Short(Reg5Instruction)
<1> USE FieldSizes DEF Short, OffsetsUpTo, COMMAND_BYTES
<1>1. Short(RegInstruction) /\ Short(ImmInstruction) /\ Short(ArrayEntryInstruction)
      /\ Short(ArraySliceInstruction) /\ Short(AddrInstruction)
  BY DEF RegInstruction, ImmInstruction, ArrayEntryInstruction, ArraySliceInstruction,
         AddrInstruction
<1>2. Short(RegRegInstruction) /\ Short(ImmImmInstruction) /\ Short(RegImmInstruction)
      /\ Short(RegEntryInstruction) /\ Short(RegAddrInstruction)
  BY DEF RegRegInstruction, ImmImmInstruction, RegImmInstruction, RegEntryInstruction,
         RegAddrInstruction
<1>3. Short(RegImmImmInstruction) /\ Short(RegRegRegInstruction) /\ Short(RegRegImmInstruction)
  BY DEF RegImmImmInstruction, RegRegRegInstruction, RegRegImmInstruction
<1>4. Short(RegRegImmImmInstruction) /\ Short(RegRegRegRegInstruction)
  BY DEF RegRegImmImmInstruction, RegRegRegRegInstruction
<1>5. Short(Reg5Instruction)
  BY DEF Reg5Instruction
<1>6. Short(RegRegImm4Instruction)
  BY DEF RegRegImm4Instruction
<1>7. QED
  BY <1>1, <1>2, <1>3, <1>4, <1>5, <1>6

LEMMA LayoutsAreShort ==
  \A c \in CORE_INSTRUCTIONS \cup VanillaFlavour \cup NVFlavour : Short(c.layout)
<1>1. \A c \in MemoryClasses : Short(c.layout)
  BY ShortLayouts DEF MemoryClasses, Class
<1>2. \A c \in BranchClasses : Short(c.layout)
  BY ShortLayouts DEF BranchClasses, Class
<1>3. \A c \in ArithmeticClasses : Short(c.layout)
  BY ShortLayouts DEF ArithmeticClasses, Class, ClassicalOpInstruction, ClassicalOpModInstruction
<1>4. \A c \in MeasureClasses : Short(c.layout)
  BY ShortLayouts DEF MeasureClasses, Class
<1>5. \A c \in EprClasses : Short(c.layout)
  BY ShortLayouts DEF EprClasses, Class
<1>6. \A c \in WaitAndReturnClasses : Short(c.layout)
  BY ShortLayouts DEF WaitAndReturnClasses, Class
<1>7. \A c \in VanillaFlavour : Short(c.layout)
  BY ShortLayouts DEF VanillaFlavour, Class, SingleQubitInstruction, RotationInstruction,
                      TwoQubitInstruction
<1>8. \A c \in NVFlavour : Short(c.layout)
  BY ShortLayouts DEF NVFlavour, Class, RotationInstruction, ControlledRotationInstruction
<1>9. QED
  BY <1>1, <1>2, <1>3, <1>4, <1>5, <1>6, <1>7, <1>8 DEF CORE_INSTRUCTIONS

\* The opcodes of a flavour are those the core leaves, and the one of meas_basis.
LEMMA FlavourOpcodes ==
  ASSUME NEW flavour \in {VanillaFlavour, NVFlavour}
  PROVE  /\ \A c \in flavour : c.id \in (20 .. 31) \cup {41}
         /\ \A c \in flavour : c.id = 41 => flavour = VanillaFlavour
         /\ \A c, d \in flavour : c.id = d.id => c = d
<1>1. CASE flavour = VanillaFlavour
  <2>1. \A c \in VanillaFlavour : c.id \in (20 .. 31) \cup {41}
    BY DEF VanillaFlavour, Class
  <2>2. \A c, d \in VanillaFlavour : c.id = d.id => c = d
    BY DEF VanillaFlavour, Class
  <2>3. QED
    BY <1>1, <2>1, <2>2
<1>2. CASE flavour = NVFlavour
  <2>1. \A c \in NVFlavour : c.id \in 27 .. 31
    BY DEF NVFlavour, Class
  <2>2. \A c, d \in NVFlavour : c.id = d.id => c = d
    BY DEF NVFlavour, Class
  <2>3. \A c \in NVFlavour : c.id \in (20 .. 31) \cup {41} /\ c.id # 41
    BY <2>1
  <2>4. QED
    BY <1>2, <2>2, <2>3
<1>3. QED
  BY <1>1, <1>2

\* The class a mnemonic names is the class its opcode names, in both flavours, but
\* for meas_basis, whose opcode the vanilla flavour gives to mov.
LEMMA ClassesAreFound ==
  ASSUME NEW flavour \in {VanillaFlavour, NVFlavour}, NEW name, HasName(flavour, name),
         ~(flavour = VanillaFlavour /\ name = "meas_basis")
  PROVE  LET c == GetInstrByName(flavour, name)
         IN /\ c.mnemonic = name /\ c.id \in Byte /\ c.layout \in Seq(DOMAIN Fitting)
            /\ GetInstrById(flavour, c.id) = c
<1>1. PICK c : c = GetInstrByName(flavour, name)
  OBVIOUS
<1>2. c.mnemonic = name
      /\ (c \in flavour \/ (c \in CORE_INSTRUCTIONS))
  <2>1. CASE \E d \in flavour : d.mnemonic = name
    BY <1>1, <2>1 DEF GetInstrByName
  <2>2. CASE ~ \E d \in flavour : d.mnemonic = name
    <3>1. \E d \in CORE_INSTRUCTIONS : d.mnemonic = name
      BY <2>2 DEF HasName
    <3>2. QED
      BY <1>1, <2>2, <3>1 DEF GetInstrByName
  <2>3. QED
    BY <2>1, <2>2
<1>3. c.layout \in Seq(DOMAIN Fitting)
  BY <1>2, LayoutsFit
<1>4. c.id \in Byte
  BY <1>2, CoreOpcodes, FlavourOpcodes DEF Byte
<1>5. GetInstrById(flavour, c.id) = c
  <2>1. CASE c \in flavour
    BY <2>1, FlavourOpcodes DEF GetInstrById
  <2>2. CASE c \notin flavour
    <3>1. c \in CORE_INSTRUCTIONS
      BY <1>2, <2>2
    <3>2. ASSUME NEW d \in flavour, d.id = c.id PROVE FALSE
      <4>1. d.id = 41
        BY <3>1, <3>2, CoreOpcodes, FlavourOpcodes
      <4>2. flavour = VanillaFlavour /\ c.mnemonic = "meas_basis"
        BY <3>1, <3>2, <4>1, CoreOpcodes, FlavourOpcodes
      <4>3. QED
        BY <1>2, <4>2
    <3>3. GetInstrById(flavour, c.id) = CHOOSE d \in CORE_INSTRUCTIONS : d.id = c.id
      BY <3>2 DEF GetInstrById
    <3>4. QED
      BY <3>1, <3>3, CoreOpcodes
  <2>3. QED
    BY <2>1, <2>2
<1>6. QED
  BY <1>1, <1>2, <1>3, <1>4, <1>5

---------------------------------------------------------------------------
(* Whole commands and subroutines.                                         *)

\* The padding of a command is bytes too.
LEMMA PaddingIsBytes ==
  ASSUME NEW bytes \in Seq(Byte)
  PROVE  \E z \in Seq(Byte) : Pad(bytes) = Cat(bytes, z)
<1>1. PICK k \in Int : k = COMMAND_BYTES - Len(bytes)
  <2>1. Len(bytes) \in Nat
    OBVIOUS
  <2>2. COMMAND_BYTES - Len(bytes) \in Int
    BY <2>1 DEF COMMAND_BYTES
  <2>3. QED
    BY <2>2
<1>2. PICK z : z = [i \in 1 .. k |-> 0]
  OBVIOUS
<1>3. 0 \in Byte
  BY DEF Byte
<1>4. z \in Seq(Byte)
  <2>1. CASE k <= 0
    <3>1. 1 .. k = 1 .. 0
      BY <2>1
    <3>2. z = [i \in 1 .. 0 |-> 0]
      BY <1>2, <3>1
    <3>3. QED
      BY <1>3, <3>2
  <2>2. CASE k \in Nat
    BY <1>2, <1>3, <2>2
  <2>3. QED
    BY <2>1, <2>2
<1>5. Pad(bytes) = Cat(bytes, z)
  BY <1>1, <1>2 DEF Pad, Cat
<1>6. QED
  BY <1>4, <1>5

\* An instruction of a flavour whose operands fit the fields of its class.
Encodable(flavour, instr) ==
  /\ HasName(flavour, instr.mnemonic)
  /\ ~(flavour = VanillaFlavour /\ instr.mnemonic = "meas_basis")
  /\ OperandsFit(GetInstrByName(flavour, instr.mnemonic).layout, instr.operands)

\* What the node controller reads from the bytes of a command is the instruction
\* it was made of: the class its opcode names, and every operand, whatever the
\* kinds and the number of the fields before it.
THEOREM CommandsAreReadBack ==
  ASSUME NEW flavour \in {VanillaFlavour, NVFlavour}, NEW instr, Encodable(flavour, instr)
  PROVE  DeserializeCommand(flavour, Serialize(flavour, instr))
           = [mnemonic |-> instr.mnemonic, operands |-> instr.operands]
<1>1. PICK c, layout, ops : /\ c = GetInstrByName(flavour, instr.mnemonic)
                            /\ layout = c.layout /\ ops = instr.operands
  OBVIOUS
<1>2. /\ c.mnemonic = instr.mnemonic /\ c.id \in Byte /\ GetInstrById(flavour, c.id) = c
  BY <1>1, ClassesAreFound DEF Encodable
<1>3. OperandsFit(layout, ops)
  BY <1>1 DEF Encodable
<1>4. PICK z \in Seq(Byte) :
         Serialize(flavour, instr) = Cat(Cat(<<c.id>>, FlattenSeq(OperandBytes(layout, ops))), z)
  <2>1. PICK bytes : bytes = Cat(<<c.id>>, FlattenSeq(OperandBytes(layout, ops)))
    OBVIOUS
  <2>2. Serialize(flavour, instr) = Pad(bytes)
    BY <1>1, <2>1 DEF Serialize, OperandBytes, Cat
  <2>3. bytes \in Seq(Byte)
    <3>1. FlattenSeq(OperandBytes(layout, ops)) \in Seq(Byte)
      BY <1>3, OperandBytesTyped, FlattenTyped
    <3>2. <<c.id>> \in Seq(Byte)
      BY <1>2
    <3>3. QED
      BY <2>1, <3>1, <3>2, CatTyped
  <2>4. PICK z \in Seq(Byte) : Pad(bytes) = Cat(bytes, z)
    BY <2>3, PaddingIsBytes
  <2>5. QED
    BY <2>1, <2>2, <2>4
<1>5. PICK raw : raw = Serialize(flavour, instr)
  OBVIOUS
<1>6. /\ raw[1] = c.id
      /\ \A i \in DOMAIN layout :
           FieldValue(layout[i], SubSeq(raw, FieldOffset(layout, i) + 1, Len(raw))) = ops[i]
  BY <1>2, <1>3, <1>4, <1>5, CommandFields
<1>7. GetInstrById(flavour, raw[1]) = c
  BY <1>2, <1>6
<1>8. DeserializeCommand(flavour, raw)
        = [mnemonic |-> c.mnemonic,
           operands |-> [i \in DOMAIN layout |->
                           FieldValue(layout[i], SubSeq(raw, FieldOffset(layout, i) + 1, Len(raw)))]]
  BY <1>1, <1>7 DEF DeserializeCommand
<1>9. ops = [i \in DOMAIN layout |-> ops[i]]
  <2>1. PICK O : O = UNION { Fitting[field] : field \in DOMAIN Fitting }
    OBVIOUS
  <2>2. ops \in Seq(O) /\ DOMAIN ops = DOMAIN layout
    BY <1>3, <2>1 DEF OperandsFit
  <2>3. ops = [i \in DOMAIN ops |-> ops[i]]
    BY <2>2
  <2>4. QED
    BY <2>2, <2>3
<1>10. QED
  BY <1>1, <1>2, <1>5, <1>6, <1>8, <1>9

\* A subroutine is read back instruction by instruction.
THEOREM SubroutinesAreReadBack ==
  ASSUME NEW flavour \in {VanillaFlavour, NVFlavour}, NEW instrs,
         \A i \in DOMAIN instrs : Encodable(flavour, instrs[i])
  PROVE  DeserializeSubroutine(flavour, SubroutineBytes(flavour, instrs))
           = [i \in DOMAIN instrs |-> [mnemonic |-> instrs[i].mnemonic,
                                       operands |-> instrs[i].operands]]
<1>1. PICK raw : raw = SubroutineBytes(flavour, instrs)
  OBVIOUS
<1>2. DOMAIN raw = DOMAIN instrs
      /\ \A i \in DOMAIN instrs : raw[i] = Serialize(flavour, instrs[i])
  BY <1>1 DEF SubroutineBytes
<1>3. \A i \in DOMAIN instrs :
        DeserializeCommand(flavour, raw[i])
          = [mnemonic |-> instrs[i].mnemonic, operands |-> instrs[i].operands]
  BY <1>2, CommandsAreReadBack
<1>4. QED
  BY <1>1, <1>2, <1>3 DEF DeserializeSubroutine

\* With the vanilla flavour no meas_basis reaches the node: its command is read as
\* the one of mov, which has the same opcode.
THEOREM MeasBasisIsReadAsMov ==
  ASSUME NEW instr, instr.mnemonic = "meas_basis",
         OperandsFit(RegRegImm4Instruction, instr.operands)
  PROVE  DeserializeCommand(VanillaFlavour, Serialize(VanillaFlavour, instr)).mnemonic = "mov"
<1>1. PICK c, d : c = Class(41, "meas_basis", RegRegImm4Instruction)
                  /\ d = Class(41, "mov", TwoQubitInstruction)
  OBVIOUS
<1>2. GetInstrByName(VanillaFlavour, "meas_basis") = c
  <2>1. ~ \E e \in VanillaFlavour : e.mnemonic = "meas_basis"
    BY DEF VanillaFlavour, Class
  <2>2. c \in CORE_INSTRUCTIONS /\ c.mnemonic = "meas_basis"
    BY <1>1 DEF CORE_INSTRUCTIONS, MeasureClasses, Class
  <2>3. GetInstrByName(VanillaFlavour, "meas_basis") \in CORE_INSTRUCTIONS
        /\ GetInstrByName(VanillaFlavour, "meas_basis").mnemonic = "meas_basis"
    BY <2>1, <2>2 DEF GetInstrByName
  <2>4. \A e \in CORE_INSTRUCTIONS : e.mnemonic = "meas_basis" => e.id = 41
    BY DEF CORE_INSTRUCTIONS, MemoryClasses, BranchClasses, ArithmeticClasses, MeasureClasses,
           EprClasses, WaitAndReturnClasses, Class
  <2>5. c.id = 41
    BY <1>1 DEF Class
  <2>6. QED
    BY <2>2, <2>3, <2>4, <2>5, CoreOpcodes
<1>3. GetInstrById(VanillaFlavour, 41) = d
  <2>1. d \in VanillaFlavour /\ d.id = 41
    BY <1>1 DEF VanillaFlavour, Class
  <2>2. QED
    BY <2>1, FlavourOpcodes DEF GetInstrById
<1>4. Serialize(VanillaFlavour, instr)[1] = 41
  <2>1. PICK ops, F : ops = instr.operands /\ F = OperandBytes(RegRegImm4Instruction, ops)
    OBVIOUS
  <2>2. c.id = 41 /\ c.layout = RegRegImm4Instruction
    BY <1>1 DEF Class
  <2>3. PICK b \in Seq(Byte) : b = FlattenSeq(F)
    BY <2>1, OperandBytesTyped, FlattenTyped
  <2>4. Serialize(VanillaFlavour, instr) = Pad(Cat(<<41>>, b))
    BY <1>2, <2>1, <2>2, <2>3 DEF Serialize, OperandBytes, Cat
  <2>5. PICK z \in Seq(Byte) : Pad(Cat(<<41>>, b)) = Cat(Cat(<<41>>, b), z)
    <3>1. <<41>> \in Seq(Byte)
      BY DEF Byte
    <3>2. PICK bytes \in Seq(Byte) : bytes = Cat(<<41>>, b)
      BY <3>1, CatTyped
    <3>3. QED
      BY <3>2, PaddingIsBytes
  <2>6. 41 \in Byte
    BY DEF Byte
  <2>7. QED
    BY <2>3, <2>4, <2>5, <2>6, FirstOf
<1>5. QED
  BY <1>1, <1>3, <1>4 DEF DeserializeCommand, Class

\* Every command is COMMAND_BYTES long, so that a reader that cuts a message into
\* pieces of that size finds the commands it was made of.
THEOREM CommandsHaveOneSize ==
  ASSUME NEW flavour \in {VanillaFlavour, NVFlavour}, NEW instr,
         HasName(flavour, instr.mnemonic),
         OperandsFit(GetInstrByName(flavour, instr.mnemonic).layout, instr.operands)
  PROVE  Serialize(flavour, instr) \in Seq(Byte) /\ Len(Serialize(flavour, instr)) = COMMAND_BYTES
<1>1. PICK c, layout, ops : /\ c = GetInstrByName(flavour, instr.mnemonic)
                            /\ layout = c.layout /\ ops = instr.operands
  OBVIOUS
<1>2. c \in CORE_INSTRUCTIONS \cup VanillaFlavour \cup NVFlavour
  BY <1>1 DEF HasName, GetInstrByName
<1>3. OperandsFit(layout, ops) /\ Short(layout) /\ c.id \in Byte
  <2>1. c.id \in Byte
    BY <1>2, CoreOpcodes, FlavourOpcodes DEF Byte
  <2>2. QED
    BY <1>1, <1>2, <2>1, LayoutsAreShort
<1>4. PICK b \in Seq(Byte) : b = FlattenSeq(OperandBytes(layout, ops))
  BY <1>3, OperandBytesTyped, FlattenTyped
<1>5. 1 + Len(b) \in 1 .. COMMAND_BYTES
  <2>1. PICK raw : raw = Cat(Cat(<<c.id>>, FlattenSeq(OperandBytes(layout, ops))), b)
    OBVIOUS
  <2>2. \E off : /\ OffsetsUpTo(layout, Len(layout), off)
                 /\ off[Len(layout)] = 1 + Len(FlattenSeq(OperandBytes(layout, ops)))
    BY <1>3, <2>1, CommandFields
  <2>3. QED
    BY <1>3, <1>4, <2>2 DEF Short
<1>6. PICK bytes \in Seq(Byte) : bytes = Cat(<<c.id>>, b) /\ Len(bytes) = 1 + Len(b)
  <2>1. PICK h \in Seq(Byte) : h = <<c.id>> /\ Len(h) = 1
    <3>1. <<c.id>> \in Seq(Byte) /\ Len(<<c.id>>) = 1
      BY <1>3
    <3>2. QED
      BY <3>1
  <2>2. Cat(h, b) \in Seq(Byte) /\ Len(Cat(h, b)) = 1 + Len(b)
    BY <2>1, CatTyped, LenOfCat
  <2>3. QED
    BY <2>1, <2>2
<1>7. Serialize(flavour, instr) = Pad(bytes)
  BY <1>1, <1>4, <1>6 DEF Serialize, OperandBytes, Cat
<1>8. PICK k \in Nat : k = COMMAND_BYTES - Len(bytes) /\ Len(bytes) + k = COMMAND_BYTES
  <2>1. Len(b) \in Nat /\ COMMAND_BYTES \in Nat
    BY DEF COMMAND_BYTES
  <2>2. COMMAND_BYTES - Len(bytes) \in Nat
        /\ Len(bytes) + (COMMAND_BYTES - Len(bytes)) = COMMAND_BYTES
    BY <1>5, <1>6, <2>1
  <2>3. QED
    BY <2>2
<1>9. PICK z : z = [i \in 1 .. k |-> 0]
  OBVIOUS
<1>10. z \in Seq(Byte) /\ Len(z) = k
  BY <1>9 DEF Byte
<1>11. Pad(bytes) = Cat(bytes, z)
  BY <1>8, <1>9 DEF Pad, Cat
<1>12. Cat(bytes, z) \in Seq(Byte) /\ Len(Cat(bytes, z)) = COMMAND_BYTES
  BY <1>8, <1>10, CatTyped, LenOfCat
<1>13. QED
  BY <1>7, <1>11, <1>12
=============================================================================
