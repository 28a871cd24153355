----------------------------- MODULE MCExecutor -----------------------------
(***************************************************************************)
(* Instances of Executor for TLC: two applications, and subroutines of the *)
(* shapes that the SDK and hand-written NetQASM give them.                 *)
(***************************************************************************)
EXTENDS Executor

CONSTANTS k1, k2

Array(x, n)       == [op |-> "array", addr |-> x, len |-> n]
Store(x, i, val)  == [op |-> "store", addr |-> x, idx |-> i, val |-> val]
Undef(x, i)       == [op |-> "undef", addr |-> x, idx |-> i]
AwaitEntry(x, i)  == [op |-> "wait_single", addr |-> x, idx |-> i]
AwaitAll(x)            == [op |-> "wait_all", addr |-> x]
AwaitAny(x)            == [op |-> "wait_any", addr |-> x]
Ret(x)            == [op |-> "ret_arr", addr |-> x]
Alloc(v)          == [op |-> "qalloc", vaddr |-> v]
Free(v)           == [op |-> "qfree", vaddr |-> v]
Keep(k, n, q, x)  == [op |-> "create_epr", key |-> k, type |-> "K", num |-> n,
                      qarr |-> q, res |-> x]
Measure(k, n, x)  == [op |-> "create_epr", key |-> k, type |-> "M", num |-> n,
                      qarr |-> None, res |-> x]
Receive(k, q, x)  == [op |-> "recv_epr", key |-> k, qarr |-> q, res |-> x]

\* A pair is asked for while its virtual qubit is in use, which holds it up.
KeepLater == <<Array(1, 1), Store(1, 1, 0), Array(2, 1), Alloc(0),
               Keep(k1, 1, 1, 2), Free(0), AwaitAll(2), Free(0), Ret(2)>>

\* Two pairs are received and measured by the stack.
ReceiveMeasured == <<Array(3, 2), Receive(k1, None, 3), AwaitAny(3), AwaitAll(3), Ret(3)>>

\* A result is undefined and asked for again, in the same array.
Retry == <<Array(2, 1), Measure(k2, 1, 2), AwaitEntry(2, 1), Undef(2, 1),
           Measure(k2, 1, 2), AwaitAll(2)>>

\* Qubits that are still allocated at the end.
Leave == <<Alloc(0), Alloc(1)>>

BlockingPrograms == [keep |-> KeepLater, recv |-> ReceiveMeasured, retry |-> Retry,
                     leave |-> Leave]
BlockingPlan == [k \in Keys |-> IF k = k1 THEN <<[type |-> "M", num |-> 2]>> ELSE <<>>]

\* A program that does not wait for what it asked for, and one that keeps a pair.
AskMeasured == <<Array(3, 2), Measure(k1, 2, 3)>>
AskKept     == <<Array(1, 1), Store(1, 1, 0), Array(2, 1), Keep(k1, 1, 1, 2),
                 AwaitAll(2), Free(0)>>
AllocTwice  == <<Alloc(0), Alloc(0)>>

\* What the theorems on blocking hosts ask of the programs holds for these.
ASSUME BlockingProgramsWait ==
  Programs = BlockingPrograms => ProgramsWait /\ OneTypePerChannel

FreePrograms == [kept |-> AskKept, measured |-> AskMeasured, twice |-> AllocTwice]
FreePlan     == [k \in Keys |-> <<>>]

LivePrograms == [keep |-> KeepLater, recv |-> ReceiveMeasured]
LivePlan     == [k \in Keys |-> [i \in 1 .. MaxSubroutines |-> [type |-> "M", num |-> 2]]]

\* A pair to measure is asked for on the channel of a pair to keep.
MeasureToo   == <<Array(3, 1), Measure(k1, 1, 3), AwaitAll(3), Ret(3)>>
MixedPrograms == [keep |-> KeepLater, measure |-> MeasureToo]
=============================================================================
