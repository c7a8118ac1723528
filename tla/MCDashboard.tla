---------------------------- MODULE MCDashboard ----------------------------
(* A small instance of Dashboard. *)
EXTENDS Dashboard, TLC

Interchangeable ==
    Permutations(User) \cup Permutations(Tab) \cup Permutations(Call) \cup Permutations(Pin)
=============================================================================
