-------------------------- MODULE MCAccountsModule --------------------------
(* Model-checking instance of AccountsModule. *)
EXTENDS AccountsModule, TLC

ModuleSymmetry == Permutations(Threads) \cup Permutations(ChallengeIds)
=============================================================================
