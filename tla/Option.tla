---- MODULE Option ----
(* Option::None, shared by the modules that model optional values. *)
CONSTANT None
====
