-------------------------- MODULE MCNotifications --------------------------
(* Small instances of Notifications. *)
EXTENDS Notifications, TLC

Interchangeable == Permutations(Listener) \cup Permutations(Connection)
=============================================================================
