------------------------------ MODULE MCOrders ------------------------------
(* A small instance of Orders: one order that two requests may dispatch. *)
EXTENDS Orders

CONSTANTS o1, d1, d2, s1, s2, k1

OneOrder == {o1}
TwoThreads == {d1, d2}
TwoSynths == {s1, s2}
OneKid == {k1}
=============================================================================
