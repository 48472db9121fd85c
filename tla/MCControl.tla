---- MODULE MCControl ----
(* Control for TLC: clients, task ids and fire times are only ever compared
   for equality, so they are interchangeable in runs without fairness. *)
EXTENDS Control, TLC

Symmetry == Permutations(Clients) \cup Permutations(Tasks) \cup Permutations(Fires)
====
