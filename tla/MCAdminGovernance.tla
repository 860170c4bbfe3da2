-------------------------- MODULE MCAdminGovernance --------------------------
(* The instance of AdminGovernance for TLC: three admins to be, a list that *)
(* names one of them twice, and percentages that fit together or do not.    *)
EXTENDS AdminGovernance

CONSTANTS ann, bob, eve

Board == {ann, bob, eve}
Lists == {<<>>, <<bob, bob>>, <<ann, eve>>}
==============================================================================
