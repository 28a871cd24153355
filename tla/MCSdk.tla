------------------------------- MODULE MCSdk --------------------------------
(***************************************************************************)
(* Small applications for Sdk: kinds of programs of a few calls each.      *)
(***************************************************************************)
EXTENDS Sdk

CONSTANT Kinds   \* of the programs below

Pair(bell, duration) == [bell |-> bell, duration |-> duration]

NoPairs == <<>>

PerfectPairs ==
  << Pair(PHI_PLUS, 5), Pair(PHI_PLUS, 9), Pair(PHI_PLUS, 3), Pair(PHI_PLUS, 3), Pair(PHI_PLUS, 3), Pair(PHI_PLUS, 3) >>

BellPairs ==
  << Pair(PSI_MINUS, 3), Pair(PHI_MINUS, 9), Pair(PSI_PLUS, 3), Pair(PHI_PLUS, 3), Pair(PHI_MINUS, 3), Pair(PSI_PLUS, 3) >>

Profile(hardware, menu, calls, pairs) ==
  [hardware |-> hardware, menu |-> menu, calls |-> calls, network |-> pairs]

MCProfiles ==
  UNION {
    CASE k = "qubits" ->      \* come and go, are moved and measured, over several subroutines
           { Profile(h, {"qubit", "gate2", "measure"}, 5, NoPairs) : h \in {"generic", "nv"} }
      [] k = "outcomes" ->    \* in arrays and in registers
           { Profile(h, {"qubit", "gate", "measure", "measure_reg", "inplace"}, 4, NoPairs) : h \in {"generic", "nv"} }
      [] k = "values" ->
           { Profile("generic", {"array", "register", "add", "undefine"}, 3, NoPairs) }
      [] k = "branches" ->
           { Profile("generic", {"array", "qubit", "measure_reg", "if"}, 4, NoPairs),
             Profile("generic", {"array", "register", "add", "if"}, 3, NoPairs) }
      [] k = "loops" ->
           { Profile(h, {"array", "qubit", "measure_into", "loop", "foreach"}, 4, NoPairs) : h \in {"generic", "nv"} }
      [] k = "untils" ->
           { Profile("generic", {"array", "qubit", "measure_into", "until"}, 4, NoPairs) }
      [] k = "measured" ->
           { Profile("generic", {"epr_measure", "keep"}, 2, PerfectPairs) }
      [] k = "keeps" ->
           { Profile("generic", {"qubit", "keep", "measure"}, 3, PerfectPairs),
             Profile("generic", {"keep", "rsp", "measure"}, 3, BellPairs),
             Profile("nv", {"qubit", "keep", "measure"}, 3, BellPairs) }
      [] k = "posts" ->
           { Profile("generic", {"array", "keep_post"}, 2, PerfectPairs), Profile("nv", {"array", "keep_post", "qubit", "measure"}, 4, BellPairs) }
      [] k = "contexts" ->
           { Profile("generic", {"array", "epr_context", "measure_into"}, 3, PerfectPairs),
             Profile("nv", {"array", "epr_context", "measure_into"}, 3, PerfectPairs),
             Profile("generic", {"epr_context", "gate", "measure", "qubit"}, 3, PerfectPairs) }
      [] k = "keep_untils" ->
           { Profile(h, {"qubit", "keep_until"}, 2, n) : h \in {"generic", "nv"}, n \in {PerfectPairs, BellPairs} }
    : k \in Kinds }

MCCoins == { << 1, 0, 1, 0 >> }
=============================================================================
