-------------------------- MODULE MatchingContract --------------------------
(***************************************************************************)
(* What Matching promises: the pairing rules against what a filter's name  *)
(* asks for, and SearchContract, which it implements while a user's        *)
(* updates are handled one at a time and no call fails.                    *)
(***************************************************************************)
EXTENDS Matching

(***************************************************************************)
(* isCompatible against what the two searchers asked for: two users the    *)
(* worker has collected, in either order, had they chosen any filters.     *)
(***************************************************************************)
Searching(i, f) == [batch[i] EXCEPT !.filter = f]
Paired(i, f, j, g) == isCompatible(Searching(i, f), Searching(j, g))

\* The gender a filter asks for; "" where it asks for none.
wanted(filter) == CASE filter \in {"male", "nearby_male"}     -> "male"
                    [] filter \in {"female", "nearby_female"} -> "female"
                    [] OTHER                                  -> ""
Grants(i, f, j) == wanted(f) \in {"", batch[j].gender}

\* When one side searches at random, both sides get what they asked for: the
\* gendered side meets the gender it paid for.  (Between two other filters only
\* their names are compared, and this does not hold.)
RandomSideFits ==
    \A i, j \in fresh, f, g \in AllFilters :
        "random" \in {f, g} /\ Paired(i, f, j, g) => Grants(i, f, j) /\ Grants(j, g, i)

\* Two searches are paired in either reading order or in neither, except that a
\* plain "nearby" search is only ever paired when it was read first.
OrderMattersOnlyForNearby ==
    \A i, j \in fresh, f, g \in AllFilters :
        "nearby" \notin {f, g} /\ Paired(i, f, j, g) => Paired(j, g, i, f)

\* A search's owner and fate, read off the history of the entries.
ownerIn(entries, i) ==
    IF \E e \in entries : e.id = i THEN (CHOOSE e \in entries : e.id = i).user ELSE None

contractOwner == [i \in Ids |-> ownerIn(opened, i)]
contractFate ==
    [i \in Ids |-> IF refunds[i] > 0 THEN "refunded"
                   ELSE IF expiries[i] > 0 THEN "timedOut"
                   ELSE IF matches[i] > 0 THEN "matched"
                   ELSE IF \E e \in opened : e.id = i THEN "open" ELSE "none"]

Contract == INSTANCE SearchContract WITH owner <- contractOwner, fate <- contractFate

\* The serialized system keeps the contract, step by step.
ImplementsContract == Contract!Spec
=============================================================================
