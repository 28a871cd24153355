----------------------------- MODULE SdkMeaning -----------------------------
(***************************************************************************)
(* What the calls of an application mean: a call is done when the program  *)
(* that was written comes to it, the body of a with statement as often as  *)
(* the statement says, qubits are what the Qubit objects stand for, and    *)
(* every pair of entangled qubits is in the state Phi+ if that was asked   *)
(* for.  (The docstrings of netqasm/sdk: qubit.py, futures.py,             *)
(* connection.py and epr_socket.py.)                                       *)
(*                                                                         *)
(* A world is a record:                                                    *)
(*   arrays   address -> values                                            *)
(*   regs     RegFuture -> value                                           *)
(*   qubits   Qubit object -> the qubit it stands for: a new one, or one   *)
(*            half of an entangled pair                                    *)
(*   fresh    how many new qubits there were                               *)
(*   pairs    how many pairs the network has made                          *)
(*   coins    the outcomes of the measurements to come                     *)
(*   trace    what was done to the qubits                                  *)
(*   defined  FALSE once a value is used that is not there                 *)
(***************************************************************************)
EXTENDS EprBuilder

World0(coins) ==
  [arrays |-> <<>>, regs |-> <<>>, qubits |-> <<>>, fresh |-> 0, pairs |-> 0,
   coins |-> coins, trace |-> <<>>, defined |-> TRUE]

EntInfo(network, n) ==
  [i \in 1 .. OK_FIELDS |-> CASE i = IDX_GENERATION_DURATION + 1 -> network[n].duration
                              [] i = IDX_BELL_STATE + 1 -> network[n].bell
                              [] OTHER -> 0]

NewToken(n)  == << "new", n >>
PairToken(n) == << "pair", n >>

Event(op, on, num, denom) == [op |-> op, on |-> on, num |-> num, denom |-> denom]

Happens(w, event) == [w EXCEPT !.trace = Append(@, event)]

---------------------------------------------------------------------------
(* Values.                                                                 *)

RECURSIVE Value(_, _)
Value(w, v) ==
  CASE v.kind = "imm"       -> v.value
    [] v.kind = "regfuture" -> w.regs[v.id]
    [] v.kind = "future"    ->
         LET i == Value(w, v.index)
         IN  IF i # None /\ i + 1 \in DOMAIN w.arrays[v.addr] THEN w.arrays[v.addr][i + 1] ELSE None

Known(w, v) == Value(w, v) # None

Undefine(w) == [w EXCEPT !.defined = FALSE]

Put(w, v, x) ==
  IF v.kind = "regfuture" THEN [w EXCEPT !.regs = (v.id :> x) @@ @]
  ELSE LET i == Value(w, v.index)
       IN  IF i # None /\ i + 1 \in DOMAIN w.arrays[v.addr] THEN [w EXCEPT !.arrays[v.addr][i + 1] = x]
                                                            ELSE Undefine(w)

Holds(w, op, v, u) ==
  LET a == Value(w, v)
      b == IF op \in {"bez", "bnz"} THEN 0 ELSE Value(w, u)
  IN  CheckCondition(op, a, b)

Sum(w, v, other, mod) ==
  IF mod = None THEN Value(w, v) + Value(w, other) ELSE (Value(w, v) + Value(w, other)) % mod

---------------------------------------------------------------------------
(* Qubits and pairs.                                                       *)

SetQubit(w, q, token) == [w EXCEPT !.qubits = (q :> token) @@ @]

DropQubit(w, q) == [w EXCEPT !.qubits = [p \in DOMAIN @ \ {q} |-> @[p]]]

MeasureQubitInto(w, q, future, inplace) ==
  LET c == Happens(w, Event("meas", << w.qubits[q] >>, 0, 0))
      d == [c EXCEPT !.coins = IF @ = <<>> THEN @ ELSE Tail(@)]
      e == Put(d, future, IF w.coins = <<>> THEN 0 ELSE Head(w.coins))
  IN  IF inplace THEN e ELSE DropQubit(e, q)

\* The next pair, of which q is this side: its fields are the i-th of the results.
PairArrives(w, network, results, i, q) ==
  LET n == w.pairs + 1
      put(list) == [j \in DOMAIN list |-> IF j - OK_FIELDS * (i - 1) \in 1 .. OK_FIELDS
                                            THEN EntInfo(network, n)[j - OK_FIELDS * (i - 1)] ELSE list[j]]
      c == [w EXCEPT !.pairs = n, !.arrays[results] = put(@)]
  IN  IF q = None THEN c ELSE SetQubit(c, q, PairToken(n))

HalfTurned(w, op, q) == Happens(w, Event(op, << w.qubits[q] >>, 16, 4))

\* A receiver that expects Phi+ turns the pair it got into that.
TurnedToPhiPlus(w, network, p, q) ==
  LET bell == network[w.pairs].bell
      c    == IF bell \in {PSI_PLUS, PSI_MINUS} THEN HalfTurned(w, "rot_x", q) ELSE w
  IN  IF p.role # "recv" \/ ~ p.expectPhiPlus THEN w
      ELSE IF bell \in {PHI_MINUS, PSI_MINUS} THEN HalfTurned(c, "rot_z", q) ELSE c

\* Pair after pair, and what is done with it.
KeepPairs(w, network, p, results, Qubit(_), Use(_, _)) ==
  FoldLeft(LAMBDA c, i : Use(TurnedToPhiPlus(PairArrives(c, network, results, i, Qubit(i)), network, p, Qubit(i)), i),
           w, [i \in 1 .. p.number |-> i])

AllUndefined(w, addr) == [w EXCEPT !.arrays[addr] = Undefined(Len(@))]

\* What a failed try leaves: no results and no pairs.
Undone(w, call) == FoldLeft(DropQubit, AllUndefined(w, call.results), call.qubits)

---------------------------------------------------------------------------
(* Calls.  A with statement is an item with the items of its body.         *)

RECURSIVE Run(_, _, _)

\* As often as the loop says.
Repeat(w, network, call, n) ==
  FoldLeft(LAMBDA c, i : IF c.defined THEN Run(Put(c, RegFuture(call.id), i - 1), network, call.body)
                                      ELSE c,
           w, [i \in 1 .. n |-> i])

\* One try of a loop with an exit condition: its body, or a request for pairs.
Try(w, network, call) ==
  IF call.op = "until" THEN Run(w, network, call.body)
  ELSE KeepPairs(AllUndefined(w, call.results), network, call.p, call.results,
                 LAMBDA i : call.qubits[i], LAMBDA c, i : c)

\* Until the value is small enough, or n tries are over.  A last try of a request that
\* failed is undone like the others.
RECURSIVE TryUntil(_, _, _, _)
TryUntil(w, network, call, n) ==
  LET c == Try(w, network, call)
  IN  CASE n = 0 \/ ~ w.defined -> w
        [] n > 0 /\ w.defined /\ c.defined /\ ~ Known(c, call.future) -> Undefine(c)
        [] n > 0 /\ w.defined /\ c.defined /\ Known(c, call.future) /\ Value(c, call.future) > call.limit ->
             TryUntil(IF call.op = "until" THEN c ELSE Undone(c, call), network, call, n - 1)
        [] OTHER -> c

Perform(w, network, call) ==
  CASE call.op = "qubit" ->
         SetQubit([w EXCEPT !.fresh = @ + 1], call.qubit, NewToken(w.fresh + 1))
    [] call.op = "gate" ->
         Happens(w, Event(call.gate, [i \in DOMAIN call.qubits |-> w.qubits[call.qubits[i]]], call.num, call.denom))
    [] call.op = "measure" -> MeasureQubitInto(w, call.qubit, call.future, call.inplace)
    [] call.op = "add" ->
         IF Known(w, call.value) /\ Known(w, call.other) THEN Put(w, call.value, Sum(w, call.value, call.other, call.mod))
                                                         ELSE Undefine(w)
    [] call.op = "register" -> Put(w, RegFuture(call.id), call.init)
    [] call.op = "undefine" -> AllUndefined(w, call.addr)
    [] call.op = "loop" -> Repeat(w, network, call, call.number)
    [] call.op = "if" ->
         IF ~ Known(w, call.value) \/ ~ Known(w, call.other) THEN Undefine(w)
         ELSE IF Holds(w, call.cond, call.value, call.other) THEN Run(w, network, call.body) ELSE w
    [] call.op \in {"until", "keep_until"} -> TryUntil(w, network, call, call.tries)
    [] call.op = "keep" ->
         KeepPairs(w, network, call.p, call.results, LAMBDA i : call.qubits[i], LAMBDA c, i : c)
    [] call.op = "keep_post" ->
         KeepPairs(w, network, call.p, call.results, LAMBDA i : call.qubits[1],
                   LAMBDA c, i : MeasureQubitInto(c, call.qubits[1], Future(call.p.outcomes, Immediate(i - 1)), FALSE))
    [] call.op = "epr_context" ->
         KeepPairs(w, network, call.p, call.results, LAMBDA i : call.qubit,
                   LAMBDA c, i : Run(Put(c, RegFuture(call.id), i - 1), network, call.body))
    [] call.op = "epr_measure" ->
         FoldLeft(LAMBDA c, i : PairArrives(c, network, call.results, i, None), w, [i \in 1 .. call.number |-> i])

Run(w, network, calls) ==
  FoldLeft(LAMBDA c, call : IF c.defined THEN Perform(c, network, call) ELSE c, w, calls)
=============================================================================
