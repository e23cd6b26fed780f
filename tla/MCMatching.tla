----------------------------- MODULE MCMatching -----------------------------
(* Small instances of Matching.                                            *)
EXTENDS MatchingContract

CONSTANTS u1, u2, u3

\* Handler goroutines are interchangeable.
HandlerSymmetry == Permutations(Handlers)

\* u1 is male, the others are female.
MCGender2 == (u1 :> "male") @@ (u2 :> "female")
MCGender3 == MCGender2 @@ (u3 :> "female")

MCNoRequests  == {}
MCOneRequest  == {<<u1, u2>>}
MCLateRequest == {<<u3, u2>>}
=============================================================================
