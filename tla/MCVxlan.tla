---- MODULE MCVxlan ----
(* Instances of Vxlan for TLC. *)
EXTENDS Vxlan
====
