----------------------------- MODULE MCContacts -----------------------------
(* A small instance of Contacts. *)
EXTENDS Contacts, TLC

Interchangeable == Permutations(User) \cup Permutations(Page) \cup Permutations(Call)
=============================================================================
