--------------------------- MODULE MCLoadBalancer ---------------------------
(* Instances of LoadBalancer for TLC.                                      *)
EXTENDS LoadBalancer, TLC

CONSTANTS p1, p2, m1, cA, cB, r1, r2

MCDefaultCooldownFailures == DefaultCooldownFailures

Entry(c, t) == [connection |-> c, tier |-> t]

(* A server lists its model, or a list without it.                         *)
MCServes == [c \in Connections |-> {{}, {m1}}]

(* Each connection's server lists its own model only.                      *)
MCServesApart == (cA :> {{m1}}) @@ (cB :> {{}})

MCTwoTiers == (p1 :> Entry(cA, 0)) @@ (p2 :> Entry(cA, 1))

(* Both providers, of one tier or of two.                                  *)
MCEveryTiering ==
  {f \in [{p1, p2} -> {Entry(cA, 0), Entry(cA, 1)}] : \E p \in {p1, p2} : f[p].tier = 0}

MCOnly1 == p1 :> Entry(cA, 0)
MCOnly1B == p1 :> Entry(cB, 0)
MCOnly2 == p2 :> Entry(cA, 0)

MCRequestSymmetry == Permutations(Requests)

(* For configs that treat the providers alike.                             *)
MCFullSymmetry == Permutations(Requests) \cup Permutations(ProviderIDs)

MCNoFiles == {}
MCOnly1Only == {MCOnly1}
MCTwoTiersOnly == {MCTwoTiers}
MCMoves == {MCOnly1, MCOnly1B}
MCSwaps == {MCOnly1, MCOnly2}
=============================================================================
