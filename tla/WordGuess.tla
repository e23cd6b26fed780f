------------------------------- MODULE WordGuess -------------------------------
(***************************************************************************)
(* The word and number game: each player hides a word and guesses the      *)
(* other's, letter by letter, or whole when it is a number.  A word is a   *)
(* sequence of letters; Hidden is the "_" of a slot not yet found.         *)
(***************************************************************************)
EXTENDS Naturals, Sequences

CONSTANT Hidden

other(p) == 3 - p

\* GameWordGuess.Reset; wrong guesses are a list with no repetitions.
NewWordGame == [state |-> "choosing_type", type |-> "", creator |-> 0, length |-> 0,
                secret |-> <<<<>>, <<>>>>, ready |-> <<FALSE, FALSE>>,
                display |-> <<<<>>, <<>>>>, wrong |-> <<{}, {}>>, turn |-> 0]

hiddenDisplay(secret) == [i \in DOMAIN secret |-> Hidden]
letters(word) == {word[i] : i \in DOMAIN word}

alreadyGuessed(g, p, ch) == ch \in letters(g.display[p]) \cup g.wrong[p]

\* Mutant: only the first slot that holds the letter is opened.
revealFirst(g, p, ch) ==
    LET target == g.secret[other(p)]
        at == {i \in DOMAIN target : target[i] = ch} IN
    [i \in DOMAIN target |-> IF i \in at /\ \A k \in at : i <= k THEN ch ELSE g.display[p][i]]

reveal(g, p, ch) ==
    LET target == g.secret[other(p)] IN
    [i \in DOMAIN target |-> IF target[i] = ch THEN ch ELSE g.display[p][i]]

\* applyWordLetterGuess: open the slots, or note the letter as wrong.
applyGuess(g, p, ch) ==
    IF ch \in letters(g.secret[other(p)])
    THEN [g EXCEPT !.display[p] = reveal(g, p, ch)]
    ELSE [g EXCEPT !.wrong[p] = @ \cup {ch}]

hasWon(g, p) == Hidden \notin letters(g.display[p])

\* handleWordSecretInput's second half, once both secrets are in.
startPlaying(g) ==
    [g EXCEPT !.state = "playing", !.turn = 1,
              !.display = <<hiddenDisplay(g.secret[2]), hiddenDisplay(g.secret[1])>>]

switchTurn(g) == [g EXCEPT !.turn = other(@)]
=============================================================================
