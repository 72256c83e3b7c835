---------------------------- MODULE MCMultipart ----------------------------
(* Multipart on small instances. *)
EXTENDS Multipart, TLC

CONSTANTS c1, c2, g1, u1, f1, f2, f3

Interchangeable == Permutations(Client) \cup Permutations(File)
=============================================================================
