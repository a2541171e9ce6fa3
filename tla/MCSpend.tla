------------------------------- MODULE MCSpend -------------------------------
(* Instances of Spend. *)
EXTENDS Spend, TLC

CONSTANTS r1, t1, o1, p1

OneRun == {r1}
OneTask == {t1}
OneOffice == {o1}
OneReader == {p1}
NoOne == {}
=============================================================================
