------------------------------ MODULE MCSearch ------------------------------
(* An instance of Search: one user searches among others, of whom two were   *)
(* last seen at the same time, one page at a time.                           *)
EXTENDS Search, TLC

CONSTANTS me, ann, bob, eve

gender == [u \in Users \cup Searchers |-> IF u \in {me, bob} THEN "male" ELSE "female"]
age == [u \in Users \cup Searchers |-> IF u = eve THEN 30 ELSE 20]
province == [u \in Users \cup Searchers |-> IF u = bob THEN "yazd" ELSE "fars"]
near == {<<me, ann>>, <<me, bob>>}
earlier == [u \in Users |-> IF u = ann THEN 3 ELSE 2]
=============================================================================
