----------------------------- MODULE MCGameRooms -----------------------------
(* GameRooms on a small instance. *)
EXTENDS GameRooms, TLC

CONSTANTS a, b, dare, word, h1, h2

PairSymmetry == Permutations({a, b}) \cup Permutations({h1, h2})
=============================================================================
