------------------------------- MODULE Compat -------------------------------
(***************************************************************************)
(* The pure decisions of the matching subsystem: what a search costs and   *)
(* which two queue entries the match worker may put in one chat            *)
(* (internal/bot/08_chat.go, internal/bot/match_worker.go).                *)
(***************************************************************************)
EXTENDS Integers

\* User.Gender: empty until onboarding asks for it.
Genders == {"male", "female", ""}

\* The queue filters the connect menus offer.
AllFilters ==
    {"random", "male", "female", "nearby", "nearby_male", "nearby_female"}

chatCostGender == 2
chatCostNearby == 4

costForFilter(filter) ==
    CASE filter \in {"male", "female"}               -> chatCostGender
      [] filter \in {"nearby_male", "nearby_female"} -> chatCostNearby
      [] OTHER                                       -> 0

\* Mutant: a row of the table is missing.
complementaryOneWay ==
    {<<"male", "female">>, <<"nearby", "nearby_male">>, <<"nearby", "nearby_female">>,
     <<"nearby_male", "nearby_female">>, <<"nearby_female", "nearby_male">>}

\* The table the worker consults when neither side searches at random.
complementary ==
    {<<"male", "female">>, <<"female", "male">>,
     <<"nearby", "nearby_male">>, <<"nearby", "nearby_female">>,
     <<"nearby_male", "nearby_female">>, <<"nearby_female", "nearby_male">>}

isComplementaryFilter(filter1, filter2) == <<filter1, filter2>> \in complementary

\* Mutant: the random searcher's own filter is compared instead of the gender.
compatibleByFilter(e1, e2) ==
    /\ e1.user # e2.user
    /\ CASE e1.filter = "random" \/ e2.filter = "random" -> TRUE
         [] OTHER -> isComplementaryFilter(e1.filter, e2.filter)

\* The worker's test on two entries [user, gender, filter], the earlier one of
\* the collected batch first.
isCompatible(e1, e2) ==
    /\ e1.user # e2.user
    /\ CASE e1.filter = "random" /\ e2.filter = "random" -> TRUE
         [] e1.filter = "random" /\ e2.filter # "random" -> e1.gender = e2.filter
         [] e1.filter # "random" /\ e2.filter = "random" -> e2.gender = e1.filter
         [] OTHER -> isComplementaryFilter(e1.filter, e2.filter)
=============================================================================
