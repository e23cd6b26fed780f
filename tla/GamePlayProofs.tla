---------------------------- MODULE GamePlayProofs ----------------------------
(***************************************************************************)
(* GamePlay for boards and lines of any size, any alphabet and any length  *)
(* of words, whichever copy of the room is saved last.  No handler looks   *)
(* at the stored room again before it saves, so what is proved of the room *)
(* is proved of every copy a handler has still to save.                    *)
(***************************************************************************)
EXTENDS GamePlay, FiniteSetTheorems, TLAPS

(***************************************************************************)
(* Lines                                                                   *)
(***************************************************************************)
LEMMA Steps ==
  ASSUME NEW cell \in Int \X Int, NEW d \in Directions, NEW i \in Int, NEW j \in Int
  PROVE  /\ step(step(cell, d, i), d, j) = step(cell, d, i + j)
         /\ step(step(cell, d, i), back(d), j) = step(cell, d, i - j)
<1>1. cell[1] \in Int /\ cell[2] \in Int
  OBVIOUS
<1>2. CASE d = <<0, 1>>
  BY <1>1, <1>2 DEF step, back
<1>3. CASE d = <<1, 0>>
  BY <1>1, <1>3 DEF step, back
<1>4. CASE d = <<1, 1>>
  BY <1>1, <1>4 DEF step, back
<1>5. CASE d = <<1, -1>>
  BY <1>1, <1>5 DEF step, back
<1> QED
  BY <1>2, <1>3, <1>4, <1>5 DEF Directions

\* Two cells of a board in one direction are less than its side apart.
LEMMA Near ==
  ASSUME NEW side \in Nat, NEW cell \in Cells(side), NEW d \in Directions, NEW i \in Int,
         step(cell, d, i) \in Cells(side)
  PROVE  i < side /\ -i < side
<1>1. cell[1] \in 0..side - 1 /\ cell[2] \in 0..side - 1
  BY DEF Cells
<1>2. CASE d = <<0, 1>>
  BY <1>1, <1>2 DEF step, Cells
<1>3. CASE d = <<1, 0>>
  BY <1>1, <1>3 DEF step, Cells
<1>4. CASE d = <<1, 1>>
  BY <1>1, <1>4 DEF step, Cells
<1>5. CASE d = <<1, -1>>
  BY <1>1, <1>5 DEF step, Cells
<1> QED
  BY <1>2, <1>3, <1>4, <1>5 DEF Directions

\* Marks that follow one another for n cells are counted.
LEMMA RunCounts ==
  ASSUME NEW b, NEW side \in Nat, NEW cell, NEW d, NEW p, NEW n \in Nat, n <= side,
         \A m \in 1..n : holds(b, step(cell, d, m), p)
  PROVE  run(b, side, cell, d, p) \in Nat /\ run(b, side, cell, d, p) >= n
<1> DEFINE R == {k \in 1..side : \A m \in 1..k : holds(b, step(cell, d, m), p)}
<1>1. 1..n \subseteq R
  OBVIOUS
<1>2. IsFiniteSet(1..side) /\ R \subseteq 1..side
  BY FS_Interval
<1>3. IsFiniteSet(R)
  BY <1>2, FS_Subset
<1>4. Cardinality(1..n) = n
  BY FS_Interval
<1>5. Cardinality(R) \in Nat
  BY <1>3, FS_CardinalityType
<1>6. Cardinality(1..n) <= Cardinality(R)
  BY <1>1, <1>3, FS_Subset
<1> QED
  BY <1>4, <1>5, <1>6 DEF run

\* A mark that makes a line anywhere makes one CheckWin sees: it looks along the
\* lines through the new mark only.
LEMMA WinIsSeen ==
  ASSUME NEW side \in Nat \ {0}, NEW line \in Nat \ {0}, NEW b \in Boards(side),
         NEW at \in Cells(side), b[at] = 0, NEW p \in Players,
         ~HasLine(b, line, p), HasLine([b EXCEPT ![at] = p], line, p)
  PROVE  CheckWin([b EXCEPT ![at] = p], side, line, at, p)
<1> DEFINE placed == [b EXCEPT ![at] = p]
<1>1. DOMAIN b = Cells(side) /\ DOMAIN placed = Cells(side)
  BY DEF Boards
<1>2. PICK cell \in Cells(side), d \in Directions :
        \A n \in 0..line - 1 : holds(placed, step(cell, d, n), p)
  BY <1>1 DEF HasLine
<1>3. cell \in Int \X Int
  BY DEF Cells
<1>4. PICK k \in 0..line - 1 : step(cell, d, k) = at
  <2>1. SUFFICES ASSUME \A n \in 0..line - 1 : step(cell, d, n) # at PROVE FALSE
    OBVIOUS
  <2>2. \A n \in 0..line - 1 : holds(b, step(cell, d, n), p)
    BY <1>1, <1>2, <2>1 DEF holds
  <2> QED
    BY <1>1, <2>2 DEF HasLine
<1> HIDE DEF placed
<1>5. \A m \in 1..line - 1 - k : holds(placed, step(at, d, m), p)
  <2> TAKE m \in 1..line - 1 - k
  <2>1. step(at, d, m) = step(cell, d, k + m) /\ k + m \in 0..line - 1
    BY <1>3, <1>4, Steps
  <2> QED
    BY <1>2, <2>1
<1>6. \A m \in 1..k : holds(placed, step(at, back(d), m), p)
  <2> TAKE m \in 1..k
  <2>1. k \in Int /\ m \in Int /\ k - m \in 0..line - 1
    OBVIOUS
  <2>2. step(at, back(d), m) = step(cell, d, k - m)
    <3>1. PICK i \in Int, j \in Int : i = k /\ j = m
      BY <2>1
    <3>2. step(step(cell, d, i), back(d), j) = step(cell, d, i - j)
      BY <1>3, Steps
    <3> QED
      BY <1>4, <3>1, <3>2
  <2> QED
    BY <1>2, <2>1, <2>2
<1>7. line - 1 - k <= side /\ k <= side
  <2>1. step(at, d, line - 1 - k) = step(cell, d, line - 1)
    <3>1. PICK j \in Int : j = line - 1 - k
      OBVIOUS
    <3>2. step(at, d, j) = step(cell, d, k + j)
      BY <1>3, <1>4, Steps
    <3>3. k + j = line - 1
      BY <3>1
    <3> QED
      BY <3>1, <3>2, <3>3
  <2>2. step(cell, d, line - 1) \in Cells(side)
    BY <1>1, <1>2 DEF holds
  <2>3. line - 1 - k < side
    BY <2>1, <2>2, Near
  <2>4. k < side
    BY <1>4, Near
  <2> QED
    BY <2>3, <2>4
<1>8. /\ run(placed, side, at, d, p) \in Nat
      /\ run(placed, side, at, d, p) >= line - 1 - k
  BY <1>5, <1>7, RunCounts
<1>9. run(placed, side, at, back(d), p) \in Nat /\ run(placed, side, at, back(d), p) >= k
  BY <1>6, <1>7, RunCounts
<1>10. 1 + run(placed, side, at, d, p) + run(placed, side, at, back(d), p) >= line
  BY <1>8, <1>9
<1> QED
  BY <1>10 DEF CheckWin, placed

\* Nor does a mark make a line of the other player's.
LEMMA OthersLine ==
  ASSUME NEW side \in Nat, NEW line, NEW b \in Boards(side), NEW at \in Cells(side),
         NEW p \in Players, NEW q \in Players, p # q, HasLine([b EXCEPT ![at] = p], line, q)
  PROVE  HasLine(b, line, q)
<1> DEFINE placed == [b EXCEPT ![at] = p]
<1>1. DOMAIN b = Cells(side) /\ DOMAIN placed = Cells(side)
  BY DEF Boards
<1>2. \A c : holds(placed, c, q) => holds(b, c, q)
  BY <1>1 DEF holds
<1> HIDE DEF placed
<1> QED
  BY <1>1, <1>2 DEF HasLine, placed

(***************************************************************************)
(* Marks                                                                   *)
(***************************************************************************)
LEMMA CellsFinite == \A side \in Nat : IsFiniteSet(Cells(side))
<1> TAKE side \in Nat
<1>1. IsFiniteSet(0..side - 1)
  BY FS_Interval
<1> QED
  BY <1>1, FS_Product DEF Cells

LEMMA MarksCount ==
  ASSUME NEW side \in Nat, NEW b \in Boards(side), NEW at \in Cells(side), b[at] = 0,
         NEW p \in Players
  PROVE  /\ marks(b, 1) \in Nat /\ marks(b, 2) \in Nat
         /\ marks([b EXCEPT ![at] = p], p) = marks(b, p) + 1
         /\ marks([b EXCEPT ![at] = p], other(p)) = marks(b, other(p))
<1> DEFINE placed == [b EXCEPT ![at] = p]
           M(c, q) == {cell \in DOMAIN c : c[cell] = q}
<1>0. other(p) \in Players /\ other(p) # p
  BY DEF other, Players
<1>1. DOMAIN b = Cells(side) /\ DOMAIN placed = Cells(side)
  BY DEF Boards
<1>2. \A q : IsFiniteSet(M(b, q))
  BY <1>1, CellsFinite, FS_Subset
<1>3. \A q : Cardinality(M(b, q)) \in Nat
  BY <1>2, FS_CardinalityType
<1>4. M(placed, p) = M(b, p) \cup {at} /\ at \notin M(b, p)
  BY <1>1 DEF Players
<1>5. M(placed, other(p)) = M(b, other(p))
  BY <1>0, <1>1 DEF Players
<1>6. Cardinality(M(b, p) \cup {at}) = Cardinality(M(b, p)) + 1
  <2> DEFINE S == M(b, p)
  <2>1. IsFiniteSet(S) /\ at \notin S
    BY <1>2, <1>4
  <2> HIDE DEF S
  <2>2. Cardinality(S \cup {at}) = Cardinality(S) + 1
    BY <2>1, FS_AddElement
  <2> QED
    BY <2>2 DEF S
<1> QED
  BY <1>3, <1>4, <1>5, <1>6 DEF marks

(***************************************************************************)
(* Boards in play                                                          *)
(***************************************************************************)
Rests(b, k) ==
    k \in Gravity => \A cell \in Cells(Side[k]) :
        b[cell] # 0 /\ cell[2] < Side[k] - 1 => b[<<cell[1], cell[2] + 1>>] # 0

BoardFine(b, k, turn) ==
    /\ marks(b, 1) - marks(b, 2) = IF turn = 1 THEN 0 ELSE 1
    /\ Rests(b, k)
    /\ \A p \in Players : ~HasLine(b, Line[k], p)
    /\ ~IsDraw(b)

LEMMA Sizes == \A k \in BoardKinds : Side[k] \in Nat \ {0} /\ Line[k] \in Nat \ {0}
  BY GamePlayAssumption

LEMMA EmptyFine ==
  ASSUME NEW k \in BoardKinds
  PROVE  EmptyBoard(Side[k]) \in Boards(Side[k]) /\ BoardFine(EmptyBoard(Side[k]), k, 1)
<1> DEFINE b == EmptyBoard(Side[k])
<1>1. b \in Boards(Side[k]) /\ DOMAIN b = Cells(Side[k]) /\ \A cell \in DOMAIN b : b[cell] = 0
  BY DEF EmptyBoard, Boards
<1> HIDE DEF b
<1>2. marks(b, 1) = 0 /\ marks(b, 2) = 0
  <2>1. {cell \in DOMAIN b : b[cell] = 1} = {} /\ {cell \in DOMAIN b : b[cell] = 2} = {}
    BY <1>1
  <2> QED
    BY <2>1, FS_EmptySet DEF marks
<1>3. Rests(b, k)
  BY <1>1 DEF Rests
<1>4. \A p \in Players : ~HasLine(b, Line[k], p)
  <2> SUFFICES ASSUME NEW p \in Players, HasLine(b, Line[k], p) PROVE FALSE
    OBVIOUS
  <2>1. PICK cell \in DOMAIN b, d \in Directions :
          \A n \in 0..Line[k] - 1 : holds(b, step(cell, d, n), p)
    BY DEF HasLine
  <2>2. 0 \in 0..Line[k] - 1
    BY Sizes
  <2>3. holds(b, step(cell, d, 0), p)
    BY <2>1, <2>2
  <2> QED
    BY <1>1, <2>3 DEF holds, Players
<1>5. ~IsDraw(b)
  <2>1. <<0, 0>> \in Cells(Side[k])
    BY Sizes DEF Cells
  <2> QED
    BY <1>1, <2>1 DEF IsDraw
<1>6. marks(b, 1) - marks(b, 2) = IF 1 = 1 THEN 0 ELSE 1
  BY <1>2
<1> QED
  BY <1>1, <1>3, <1>4, <1>5, <1>6 DEF BoardFine, b

\* A mark that lands and ends nothing leaves a board in play, for the other one.
LEMMA MarkFine ==
  ASSUME NEW k \in BoardKinds, NEW b \in Boards(Side[k]), NEW p \in Players, BoardFine(b, k, p),
         NEW cell \in Cells(Side[k]), NEW at \in landing(b, Side[k], k \in Gravity, cell),
         NEW placed, placed = [b EXCEPT ![at] = p],
         ~CheckWin(placed, Side[k], Line[k], at, p), ~IsDraw(placed)
  PROVE  placed \in Boards(Side[k]) /\ BoardFine(placed, k, other(p))
<1>1. at \in Cells(Side[k]) /\ b[at] = 0
  <2>1. CASE k \notin Gravity
    BY <2>1 DEF landing
  <2>2. CASE k \in Gravity
    <3>1. PICK x \in 0..Side[k] - 1 : at = <<cell[1], x>> /\ b[<<cell[1], x>>] = 0
      BY <2>2 DEF landing
    <3>2. cell[1] \in 0..Side[k] - 1
      BY DEF Cells
    <3> QED
      BY <3>1, <3>2 DEF Cells
  <2> QED
    BY <2>1, <2>2
<1>2. placed \in Boards(Side[k])
  BY <1>1 DEF Boards, Players
<1>3. marks(placed, 1) - marks(placed, 2) = IF other(p) = 1 THEN 0 ELSE 1
  <2>1. /\ marks(b, 1) \in Nat /\ marks(b, 2) \in Nat
        /\ marks(placed, p) = marks(b, p) + 1 /\ marks(placed, other(p)) = marks(b, other(p))
    <3> DEFINE side == Side[k]
    <3>1. side \in Nat /\ b \in Boards(side) /\ at \in Cells(side) /\ b[at] = 0
      BY <1>1, Sizes
    <3> HIDE DEF side
    <3> QED
      BY <3>1, MarksCount
  <2>2. marks(b, 1) - marks(b, 2) = IF p = 1 THEN 0 ELSE 1
    BY DEF BoardFine
  <2>3. CASE p = 1
    BY <2>1, <2>2, <2>3 DEF other
  <2>4. CASE p = 2
    BY <2>1, <2>2, <2>4 DEF other
  <2> QED
    BY <2>3, <2>4 DEF Players
<1>4. Rests(placed, k)
  <2> SUFFICES ASSUME k \in Gravity, NEW c \in Cells(Side[k]), placed[c] # 0, c[2] < Side[k] - 1
               PROVE  placed[<<c[1], c[2] + 1>>] # 0
    BY DEF Rests
  <2>1. <<c[1], c[2] + 1>> \in Cells(Side[k]) /\ DOMAIN b = Cells(Side[k])
    BY Sizes DEF Cells, Boards
  <2>2. CASE c = at
    <3>1. PICK x \in 0..Side[k] - 1 :
            at = <<cell[1], x>> /\ \A z \in x + 1..Side[k] - 1 : b[<<cell[1], z>>] # 0
      BY DEF landing
    <3>2. c[1] = cell[1] /\ c[2] = x /\ x + 1 \in x + 1..Side[k] - 1
      BY <2>2, <3>1, Sizes
    <3>3. b[<<c[1], c[2] + 1>>] # 0
      BY <3>1, <3>2
    <3> QED
      BY <2>1, <3>3 DEF Players
  <2>3. CASE c # at
    <3>1. b[c] # 0
      BY <2>1, <2>3
    <3>2. b[<<c[1], c[2] + 1>>] # 0
      BY <3>1 DEF BoardFine, Rests
    <3> QED
      BY <2>1, <3>2 DEF Players
  <2> QED
    BY <2>2, <2>3
<1>5. \A q \in Players : ~HasLine(placed, Line[k], q)
  <2> TAKE q \in Players
  <2>1. ~HasLine(b, Line[k], q) /\ Side[k] \in Nat \ {0} /\ Line[k] \in Nat \ {0}
    BY Sizes DEF BoardFine
  <2>2. CASE q = p
    BY <1>1, <2>1, <2>2, WinIsSeen
  <2>3. CASE q # p
    BY <1>1, <2>1, <2>3, OthersLine
  <2> QED
    BY <2>2, <2>3
<1> QED
  BY <1>2, <1>3, <1>4, <1>5 DEF BoardFine

(***************************************************************************)
(* Word games                                                              *)
(***************************************************************************)
AnyWord == {<< >>} \cup UNION {[1..n -> Letters \cup Digits \cup {Hidden}] : n \in Lengths}
Waiting == {"waiting_secrets", "playing"}
WordGames ==
    [state : {"choosing_type", "choosing_length"} \cup Waiting, type : {"", "fa", "num"},
     creator : {0} \cup Players, length : {0} \cup Lengths, secret : [Players -> AnyWord],
     ready : [Players -> BOOLEAN], display : [Players -> AnyWord],
     wrong : [Players -> SUBSET Letters], turn : {0} \cup Players]

\* What p sees of the other's secret is the secret, where it is not hidden.
SeesTruth(shown, secret, wrong) ==
    /\ DOMAIN shown = DOMAIN secret
    /\ \A i \in DOMAIN secret : shown[i] = IF secret[i] \in letters(shown) THEN secret[i] ELSE Hidden
    /\ wrong \cap letters(secret) = {}
Truthful(g) == \A p \in Players : SeesTruth(g.display[p], g.secret[other(p)], g.wrong[p])

WordFine(g) ==
    /\ g \in WordGames
    /\ g.state = "choosing_length" => g.creator \in Players
    /\ g.state \in Waiting => g.length \in Lengths
    /\ \A p \in Players : g.ready[p] => g.state \in Waiting /\ g.secret[p] \in Words(g)
    /\ \A p \in Players : g.state # "playing" => g.wrong[p] = {}
    /\ g.state = "playing" => /\ \A p \in Players : g.ready[p]
                              /\ g.turn \in Players /\ Truthful(g)
NotFound(g) == g.state = "playing" => \A p \in Players : Hidden \in letters(g.display[p])

LEMMA Pairs == \A a, b : <<a, b>> = [p \in Players |-> IF p = 1 THEN a ELSE b]
  BY DEF Players

LEMMA Others == \A p \in Players : other(p) \in Players /\ other(p) # p /\ other(other(p)) = p
  BY DEF Players, other

LEMMA NewWordFine == WordFine(NewWordGame) /\ NotFound(NewWordGame)
<1>1. /\ NewWordGame.secret \in [Players -> AnyWord] /\ NewWordGame.display \in [Players -> AnyWord]
      /\ NewWordGame.ready = [p \in Players |-> FALSE]
      /\ NewWordGame.wrong = [p \in Players |-> {}]
  <2>1. <<FALSE, FALSE>> = [p \in Players |-> FALSE]
    <3>1. ASSUME NEW f PROVE <<f, f>> = [p \in Players |-> f]
      BY DEF Players
    <3> QED
      BY <3>1, Zenon
  <2>3. <<{}, {}>> = [p \in Players |-> {}]
    BY DEF Players
  <2>2. <<<< >>, << >>>> = [p \in Players |-> << >>] /\ << >> \in AnyWord
    BY DEF Players, AnyWord
  <2> QED
    BY <2>1, <2>2, <2>3 DEF NewWordGame
<1>2. NewWordGame \in WordGames
  BY <1>1 DEF NewWordGame, WordGames
<1> QED
  BY <1>1, <1>2 DEF WordFine, NotFound, NewWordGame, Waiting

LEMMA WordsTyped ==
  ASSUME NEW g, g.length \in Lengths, NEW w \in Words(g)
  PROVE  w \in AnyWord /\ DOMAIN w = 1..g.length /\ g.length \in Nat /\ 1 \in DOMAIN w
         /\ \A i \in DOMAIN w : w[i] \in Alphabet(g.type)
<1>1. w \in [1..g.length -> Alphabet(g.type)] /\ g.length \in Nat \ {0}
  BY GamePlayAssumption DEF Words
<1>2. Alphabet(g.type) \subseteq Letters \cup Digits \cup {Hidden}
  BY DEF Alphabet
<1>3. w \in [1..g.length -> Letters \cup Digits \cup {Hidden}]
  BY <1>1, <1>2
<1>4. w \in AnyWord
  BY <1>3 DEF AnyWord
<1> QED
  BY <1>1, <1>4

\* Two games that differ only in what has been found.
Alike(g, h) == /\ h.state = g.state /\ h.type = g.type /\ h.creator = g.creator
               /\ h.length = g.length /\ h.secret = g.secret /\ h.ready = g.ready
               /\ h.turn = g.turn

\* The letters p opens are the secret's; a letter that is not in it is noted.
LEMMA GuessTruthful ==
  ASSUME NEW g, WordFine(g), g.state = "playing", g.type # "num", NEW p \in Players,
         NEW ch \in Letters, NEW h, h = applyGuess(g, p, ch)
  PROVE  /\ h \in WordGames /\ Truthful(h)
         /\ Alike(g, h)
         /\ h.display[other(p)] = g.display[other(p)]
<1> DEFINE q      == other(p)
           target == g.secret[q]
           shown  == g.display[p]
           new    == reveal(g, p, ch)
<1>0. /\ q \in Players /\ q # p
      /\ \A r \in Players : r = p \/ r = q
  BY Others DEF Players, other
<1>1. g \in WordGames /\ Truthful(g) /\ g.length \in Lengths /\ target \in Words(g)
  BY <1>0 DEF WordFine, Waiting
<1>2. target \in AnyWord /\ DOMAIN target = 1..g.length /\ \A i \in DOMAIN target : target[i] \in Letters
  BY <1>1, WordsTyped DEF Alphabet
<1>3. SeesTruth(shown, target, g.wrong[p])
  BY <1>1 DEF Truthful
<1>4. /\ g.display \in [Players -> AnyWord] /\ g.wrong \in [Players -> SUBSET Letters]
      /\ shown \in AnyWord
  BY <1>1 DEF WordGames
<1>5. CASE ch \in letters(target)
  <2>1. h = [g EXCEPT !.display[p] = new]
    BY <1>5 DEF applyGuess
  <2>2. DOMAIN new = DOMAIN target
        /\ \A i \in DOMAIN target : new[i] = IF target[i] = ch THEN ch ELSE shown[i]
    BY DEF reveal
  <2>3. new \in [1..g.length -> Letters \cup Digits \cup {Hidden}]
    <3>1. new = [i \in 1..g.length |-> new[i]]
      BY <1>2 DEF reveal
    <3>2. \A i \in 1..g.length : shown[i] \in Letters \cup Digits \cup {Hidden}
      BY <1>2, <1>3 DEF SeesTruth
    <3> QED
      BY <1>2, <2>2, <3>1, <3>2
  <2>4. new \in AnyWord
    BY <1>1, <2>3 DEF AnyWord
  <2>5. SeesTruth(new, target, g.wrong[p])
    <3>1. \A i \in DOMAIN target : new[i] = IF target[i] \in letters(new) THEN target[i] ELSE Hidden
      <4> TAKE i \in DOMAIN target
      <4>1. new[i] \in letters(new)
        BY <2>2 DEF letters
      <4>2. CASE target[i] = ch
        BY <2>2, <4>1, <4>2
      <4>3. CASE target[i] # ch /\ target[i] \in letters(shown)
        BY <1>3, <2>2, <4>1, <4>3 DEF SeesTruth
      <4>4. CASE target[i] # ch /\ target[i] \notin letters(shown)
        <5>1. target[i] \notin letters(new)
          BY <1>3, <2>2, <4>4 DEF letters, SeesTruth
        <5> QED
          BY <1>3, <2>2, <4>4, <5>1 DEF SeesTruth
      <4> QED
        BY <4>2, <4>3, <4>4
    <3> QED
      BY <1>3, <2>2, <3>1 DEF SeesTruth
  <2> HIDE DEF new, target, shown, q
  <2>6. /\ h.display[p] = new /\ h.display[q] = g.display[q] /\ h.wrong = g.wrong
        /\ h.secret = g.secret /\ h \in WordGames
        /\ Alike(g, h)
    <3>1. PICK d : d = [g.display EXCEPT ![p] = new]
      OBVIOUS
    <3>2. d \in [Players -> AnyWord] /\ d[p] = new /\ d[q] = g.display[q]
      BY <1>0, <1>4, <2>4, <3>1
    <3>3. h = [g EXCEPT !.display = d]
      BY <2>1, <3>1
    <3>4. h.display = d /\ h.wrong = g.wrong /\ h.secret = g.secret /\ h \in WordGames
      BY <1>1, <3>2, <3>3 DEF WordGames
    <3>5. Alike(g, h)
      BY <1>1, <3>3, <3>4 DEF WordGames, Alike
    <3> QED
      BY <3>2, <3>4, <3>5
  <2>7. ASSUME NEW r \in Players PROVE SeesTruth(h.display[r], h.secret[other(r)], h.wrong[r])
    <3>1. CASE r = p
      BY <2>5, <2>6, <3>1 DEF target, q
    <3>2. CASE r = q
      BY <1>1, <2>6, <3>2 DEF Truthful
    <3> QED
      BY <1>0, <3>1, <3>2
  <2> QED
    BY <2>6, <2>7 DEF Truthful, q
<1>6. CASE ch \notin letters(target)
  <2>1. h = [g EXCEPT !.wrong[p] = @ \cup {ch}]
    BY <1>6 DEF applyGuess
  <2> HIDE DEF new, target, shown, q
  <2>2. /\ h.wrong[p] = g.wrong[p] \cup {ch} /\ h.wrong[q] = g.wrong[q]
        /\ h.display = g.display /\ h.secret = g.secret /\ h \in WordGames
        /\ Alike(g, h)
    <3>1. PICK d : d = [g.wrong EXCEPT ![p] = @ \cup {ch}]
      OBVIOUS
    <3>2. d \in [Players -> SUBSET Letters] /\ d[p] = g.wrong[p] \cup {ch} /\ d[q] = g.wrong[q]
      BY <1>0, <1>4, <3>1
    <3>3. h = [g EXCEPT !.wrong = d]
      BY <2>1, <3>1
    <3>4. h.wrong = d /\ h.display = g.display /\ h.secret = g.secret /\ h \in WordGames
      BY <1>1, <3>2, <3>3 DEF WordGames
    <3>5. Alike(g, h)
      BY <1>1, <3>3, <3>4 DEF WordGames, Alike
    <3> QED
      BY <3>2, <3>4, <3>5
  <2>3. SeesTruth(shown, target, g.wrong[p] \cup {ch})
    BY <1>3, <1>6 DEF SeesTruth
  <2>4. ASSUME NEW r \in Players PROVE SeesTruth(h.display[r], h.secret[other(r)], h.wrong[r])
    <3>1. CASE r = p
      BY <2>2, <2>3, <3>1 DEF target, shown, q
    <3>2. CASE r = q
      BY <1>1, <2>2, <3>2 DEF Truthful
    <3> QED
      BY <1>0, <3>1, <3>2
  <2> QED
    BY <2>2, <2>4 DEF Truthful, q
<1> QED
  BY <1>5, <1>6

\* Once both secrets are in, the game starts with every slot hidden.
LEMMA StartFine ==
  ASSUME NEW g, WordFine(g), g.ready[1], g.ready[2], g.state = "waiting_secrets"
  PROVE  WordFine(startPlaying(g)) /\ NotFound(startPlaying(g))
<1> DEFINE h == startPlaying(g)
<1>1. 1 \in Players /\ 2 \in Players /\ other(1) = 2 /\ other(2) = 1 /\ \A p \in Players : p = 1 \/ p = 2
  BY DEF Players, other
<1>2. g \in WordGames /\ g.length \in Lengths /\ \A p \in Players : g.ready[p] /\ g.secret[p] \in Words(g)
  BY <1>1 DEF WordFine, Waiting
<1>3. \A p \in Players : DOMAIN g.secret[p] = 1..g.length /\ 1 \in DOMAIN g.secret[p]
  BY <1>2, WordsTyped
<1>4. \A p \in Players : g.wrong[p] = {}
  BY DEF WordFine
<1>5. h.display = [p \in Players |-> hiddenDisplay(g.secret[other(p)])]
  <2>1. h.display = <<hiddenDisplay(g.secret[2]), hiddenDisplay(g.secret[1])>>
    BY <1>2 DEF startPlaying, WordGames
  <2> QED
    BY <1>1, <2>1, Pairs
<1>6. \A p \in Players : hiddenDisplay(g.secret[p]) \in [1..g.length -> {Hidden}]
  BY <1>3 DEF hiddenDisplay
<1>7. h.display \in [Players -> AnyWord]
  <2>1. \A p \in Players : hiddenDisplay(g.secret[other(p)]) \in AnyWord
    <3> TAKE p \in Players
    <3>1. hiddenDisplay(g.secret[other(p)]) \in [1..g.length -> Letters \cup Digits \cup {Hidden}]
      BY <1>6, Others
    <3> QED
      BY <1>2, <3>1 DEF AnyWord
  <2> QED
    BY <1>5, <2>1
<1>8. /\ h \in WordGames /\ h.state = "playing" /\ h.turn = 1 /\ h.secret = g.secret
      /\ h.ready = g.ready /\ h.wrong = g.wrong /\ h.length = g.length /\ h.type = g.type
  BY <1>1, <1>2, <1>7 DEF startPlaying, WordGames, Waiting
<1>9. ASSUME NEW p \in Players
      PROVE  SeesTruth(h.display[p], g.secret[other(p)], {}) /\ Hidden \in letters(h.display[p])
  <2> DEFINE s == g.secret[other(p)]
  <2>1. h.display[p] = hiddenDisplay(s)
    BY <1>5
  <2>2. 1 \in DOMAIN s
    BY <1>3, Others
  <2> HIDE DEF s
  <2>3. /\ DOMAIN hiddenDisplay(s) = DOMAIN s /\ \A i \in DOMAIN s : hiddenDisplay(s)[i] = Hidden
        /\ letters(hiddenDisplay(s)) = {Hidden}
    BY <2>2 DEF hiddenDisplay, letters
  <2>4. SeesTruth(hiddenDisplay(s), s, {}) /\ Hidden \in letters(hiddenDisplay(s))
    BY <2>3 DEF SeesTruth
  <2> QED
    BY <2>1, <2>4 DEF s
<1> HIDE DEF h
<1>10. Truthful(h) /\ NotFound(h)
  BY <1>4, <1>8, <1>9 DEF Truthful, NotFound
<1>11. Words(h) = Words(g)
  BY <1>8 DEF Words
<1>12. WordFine(h)
  BY <1>1, <1>2, <1>8, <1>10, <1>11 DEF WordFine, Waiting
<1> QED
  BY <1>10, <1>12 DEF h

(***************************************************************************)
(* Rooms, copies and the writes owed                                       *)
(***************************************************************************)
Games(k) == IF k \in BoardKinds THEN Boards(Side[k])
            ELSE IF k = "rps" THEN RPSGame
            ELSE IF k = "word" THEN WordGames
            ELSE {None}

InPlay(k, x) ==
    /\ k \in BoardKinds => x.turn \in Players /\ BoardFine(x.game, k, x.turn)
    /\ k = "rps" => /\ \A p \in Players : x.game.score[p] < 3
                    /\ \E p \in Players : x.game.moves[p] = ""
    /\ k = "word" => NotFound(x.game)

CopyFine(k, x) ==
    /\ x \in [turn : {0} \cup Players, over : BOOLEAN, game : Games(k)]
    /\ k = "word" => WordFine(x.game)
    /\ ~x.over => InPlay(k, x)

\* Both secrets are in and the game has still to be started.
Both(k, x) == /\ k = "word" /\ ~x.over /\ x.game.state = "waiting_secrets"
              /\ x.game.ready[1] /\ x.game.ready[2]

\* The plans of more than one write.
SaveTwice == <<"save", "save">>
SaveBegin == <<"save", "begin", "save">>
BeginSave == <<"begin", "save">>

Beginning == {SaveBegin, BeginSave}
PlanFine(k, j) ==
    \/ j = Idle
    \/ j.plan = <<"remove">>
    \/ j.plan = <<"save">> /\ CopyFine(k, j.copy) /\ ~Both(k, j.copy)
    \/ /\ j.plan = SaveTwice /\ k = "word" /\ CopyFine(k, j.copy) /\ ~Both(k, j.copy)
       /\ ~j.copy.over
    \/ j.plan \in Beginning /\ k = "word" /\ CopyFine(k, j.copy) /\ Both(k, j.copy)

Closed(x) == x = None \/ x.over

Kinds == BoardKinds \cup {"rps", "word", "dare"}

\* As many results as a game may come to.
Most == IF "end" \in lost THEN 2 ELSE 1

OneEnd ==
    ~racing => /\ \E p \in Players : job[p] = Idle
               /\ results <= Most
               /\ results = Most => \/ Closed(room) /\ \A p \in Players : job[p] = Idle
                          \/ \E p \in Players : Ending(job[p])

Inv ==
    /\ kind \in Kinds /\ inChat \in BOOLEAN /\ racing \in BOOLEAN /\ results \in Nat
    /\ room # None => CopyFine(kind, room)
    /\ job = [p \in Players |-> job[p]]
    /\ \A p \in Players : PlanFine(kind, job[p])
    /\ room # None /\ Both(kind, room) =>
          "begin" \in lost \/ \E p \in Players : job[p].plan = BeginSave
    /\ lost \subseteq {"begin", "end"}
    /\ OneEnd

LEMMA KindsApart ==
  /\ "rps" \notin BoardKinds /\ "word" \notin BoardKinds /\ "dare" \notin BoardKinds
  /\ \A k \in Kinds : k \notin BoardKinds => k = "rps" \/ k = "word" \/ k = "dare"
  BY GamePlayAssumption DEF Kinds

LEMMA NewRPSMatch == /\ NewRPS.moves = [p \in Players |-> ""]
                     /\ NewRPS.score = [p \in Players |-> 0]
<1>1. \A a : <<a, a>> = [p \in Players |-> a]
  BY DEF Players
<1> QED
  BY <1>1 DEF NewRPS

LEMMA NewGameFine == \A k \in Kinds : NewGame(k) \in Games(k)
<1> TAKE k \in Kinds
<1>1. CASE k \in BoardKinds
  BY <1>1, EmptyFine, KindsApart DEF NewGame, Games
<1>2. CASE k = "rps"
  <2>1. NewRPS \in RPSGame
    <3>1. NewRPS.moves \in [Players -> Weapons \cup {""}] /\ NewRPS.score \in [Players -> 0..3]
      <4> DEFINE S == Weapons \cup {""}
      <4>1. "" \in S /\ 0 \in 0..3
        OBVIOUS
      <4> HIDE DEF S
      <4>2. [p \in Players |-> ""] \in [Players -> S] /\ [p \in Players |-> 0] \in [Players -> 0..3]
        BY <4>1
      <4> QED
        BY <4>2, NewRPSMatch DEF S
    <3> QED
      BY <3>1 DEF NewRPS, RPSGame
  <2> QED
    BY <1>2, <2>1, KindsApart DEF NewGame, Games
<1>3. CASE k = "word"
  BY <1>3, NewWordFine, KindsApart DEF NewGame, Games, WordFine
<1>4. CASE k = "dare"
  BY <1>4, KindsApart DEF NewGame, Games
<1> QED
  BY <1>1, <1>2, <1>3, <1>4, KindsApart

LEMMA Opening == Init => Inv
<1> SUFFICES ASSUME Init PROVE Inv
  OBVIOUS
<1>1. kind \in Kinds /\ inChat \in BOOLEAN /\ racing \in BOOLEAN /\ results = 0
      /\ lost = {} /\ Most = 1 /\ job = [p \in Players |-> Idle]
  BY GamePlayAssumption DEF Init, Kinds, Most
<1>2. room = [turn |-> 1, over |-> FALSE, game |-> NewGame(kind)] /\ room.game = NewGame(kind)
      /\ room.turn = 1 /\ ~room.over
  BY DEF Init
<1>3. room \in [turn : {0} \cup Players, over : BOOLEAN, game : Games(kind)]
  BY <1>1, <1>2, NewGameFine DEF Players
<1>4. kind = "word" => NewGame(kind) = NewWordGame
  BY KindsApart DEF NewGame
<1>5. InPlay(kind, room)
  <2>1. CASE kind \in BoardKinds
    BY <1>2, <2>1, EmptyFine, KindsApart DEF InPlay, NewGame, Players
  <2>2. CASE kind = "rps"
    <3>1. room.game = NewRPS
      BY <1>2, <2>2, KindsApart DEF NewGame
    <3>2. 1 \in Players
      BY DEF Players
    <3> QED
      <4>1. \A p \in Players : NewRPS.score[p] = 0 /\ NewRPS.moves[p] = ""
        BY NewRPSMatch
      <4>2. \A p \in Players : room.game.score[p] < 3
        <5> TAKE p \in Players
        <5>1. room.game.score[p] = 0
          BY <3>1, <4>1
        <5> QED
          BY <5>1
      <4>3. room.game.moves[1] = ""
        BY <3>1, <3>2, <4>1
      <4> QED
        BY <2>2, <3>2, <4>2, <4>3, KindsApart DEF InPlay
  <2>3. CASE kind = "word"
    BY <1>2, <1>4, <2>3, NewWordFine, KindsApart DEF InPlay
  <2>4. CASE kind = "dare"
    BY <2>4, KindsApart DEF InPlay
  <2> QED
    BY <1>1, <2>1, <2>2, <2>3, <2>4, KindsApart
<1>6. CopyFine(kind, room)
  BY <1>2, <1>3, <1>4, <1>5, NewWordFine DEF CopyFine
<1>7. ~Both(kind, room)
  <2>1. NewWordGame.state = "choosing_type"
    BY DEF NewWordGame
  <2> QED
    BY <1>2, <1>4, <2>1 DEF Both
<1>8. OneEnd
  BY <1>1 DEF OneEnd, Players
<1> QED
  BY <1>1, <1>6, <1>7, <1>8 DEF Inv, PlanFine

\* A handler that has read the room owes its writes.
LEMMA Starts ==
  ASSUME Inv, NEW p \in Players, MayMove(p, kind), NEW copy, NEW plan, Owe(p, copy, plan),
         NEW j, j = [copy |-> copy, plan |-> plan], PlanFine(kind, j), j # Idle,
         results' = results \/ (results' = results + 1 /\ Ending(j))
  PROVE  Inv'
<1>1. /\ job' = [job EXCEPT ![p] = j] /\ UNCHANGED <<kind, inChat, racing, room, lost>>
      /\ Most' = Most /\ Most \in Nat
      /\ job[p] = Idle /\ room # None /\ ~room.over /\ (job[other(p)] # Idle => racing)
  BY DEF Owe, MayMove, Most
<1>2. job' = [q \in Players |-> job'[q]] /\ job'[p] = j /\ \A q \in Players : q # p => job'[q] = job[q]
  BY <1>1 DEF Inv
<1>3. other(p) \in Players /\ other(p) # p /\ \A q \in Players : q = p \/ q = other(p)
  BY DEF Players, other
<1>4. \A q \in Players : PlanFine(kind', job'[q])
  BY <1>1, <1>2 DEF Inv
<1>5. room' # None /\ Both(kind', room') =>
          "begin" \in lost' \/ \E q \in Players : job'[q].plan = BeginSave
  <2> SUFFICES ASSUME room # None, Both(kind, room), "begin" \notin lost
               PROVE  \E q \in Players : job'[q].plan = BeginSave
    BY <1>1
  <2>1. PICK q \in Players : job[q].plan = BeginSave
    BY DEF Inv
  <2>2. q # p
    BY <1>1, <2>1 DEF Idle, BeginSave
  <2> QED
    BY <1>2, <2>1, <2>2
<1>6. OneEnd'
  <2> SUFFICES ASSUME ~racing
               PROVE  /\ \E q \in Players : job'[q] = Idle
                      /\ results' <= Most
                      /\ results' = Most => \E q \in Players : Ending(job'[q])
    BY <1>1 DEF OneEnd
  <2>1. job[other(p)] = Idle
    BY <1>1
  <2>2. ~Ending(Idle)
    BY DEF Ending, Idle
  <2>3. results \in Nat /\ results <= Most /\ results # Most
    BY <1>1, <1>3, <2>1, <2>2 DEF Inv, OneEnd, Closed
  <2>4. results' <= Most
    BY <1>1, <2>3
  <2>5. results' = Most => Ending(job'[p])
    BY <1>2, <2>3
  <2> QED
    BY <1>2, <1>3, <2>1, <2>4, <2>5
<1>7. results' \in Nat
  BY DEF Inv
<1> QED
  BY <1>1, <1>2, <1>4, <1>5, <1>6, <1>7 DEF Inv

LEMMA Plays ==
  ASSUME Inv, NEW p \in Players, MayMove(p, kind), NEW copy, PlayOn(p, copy),
         CopyFine(kind, copy), ~Both(kind, copy)
  PROVE  Inv'
<1> DEFINE j == [copy |-> copy, plan |-> <<"save">>]
<1>1. j.copy = copy /\ j.plan = <<"save">> /\ j # Idle
  BY DEF Idle
<1>2. PlanFine(kind, j)
  BY <1>1 DEF PlanFine
<1>3. Owe(p, copy, <<"save">>) /\ results' = results
  BY DEF PlayOn
<1> HIDE DEF j
<1>4. j = [copy |-> copy, plan |-> <<"save">>]
  BY DEF j
<1> QED
  BY <1>1, <1>2, <1>3, <1>4, Starts

LEMMA Ends ==
  ASSUME Inv, NEW p \in Players, MayMove(p, kind), NEW copy, Announce(p, copy),
         CopyFine(kind, over(copy)), over(copy).over
  PROVE  Inv'
<1>1. results' = results + 1
  BY DEF Announce
<1>2. CASE inChat
  <2> DEFINE j == [copy |-> copy, plan |-> <<"remove">>]
  <2>1. PlanFine(kind, j) /\ j # Idle /\ Ending(j) /\ Owe(p, copy, <<"remove">>)
    BY <1>2 DEF PlanFine, Ending, Idle, Announce
  <2> QED
    BY <1>1, <2>1, Starts
<1>3. CASE ~inChat
  <2> DEFINE j == [copy |-> over(copy), plan |-> <<"save">>]
  <2>1. Owe(p, over(copy), <<"save">>)
    BY <1>3 DEF Announce
  <2>2. j.copy = over(copy) /\ j.plan = <<"save">> /\ j # Idle
    BY DEF Idle
  <2>3. PlanFine(kind, j) /\ Ending(j)
    BY <2>2 DEF PlanFine, Ending, Both
  <2> QED
    BY <1>1, <2>1, <2>2, <2>3, Starts
<1> QED
  BY <1>2, <1>3

(***************************************************************************)
(* The handlers                                                            *)
(***************************************************************************)
LEMMA Reads ==
  ASSUME Inv, NEW p \in Players, NEW k, MayMove(p, k)
  PROVE  /\ k = kind /\ kind \in Kinds /\ MayMove(p, kind) /\ room # None /\ ~room.over
         /\ CopyFine(kind, room) /\ InPlay(kind, room)
         /\ room \in [turn : {0} \cup Players, over : BOOLEAN, game : Games(kind)]
  BY DEF Inv, MayMove, CopyFine

LEMMA DoozKeeps ==
  ASSUME Inv, NEW p \in Players, NEW k \in BoardKinds, NEW cell \in Cells(Side[k]),
         MoveDooz(p, k, cell)
  PROVE  Inv'
<1> DEFINE b      == room.game
           land   == landing(b, Side[k], k \in Gravity, cell)
           at     == CHOOSE c \in land : TRUE
           placed == [b EXCEPT ![at] = p]
           win    == CheckWin(placed, Side[k], Line[k], at, p) \/ IsDraw(placed)
<1>1. MayMove(p, k)
  BY DEF MoveDooz
<1>2. /\ k = kind /\ kind \in Kinds /\ MayMove(p, kind) /\ CopyFine(kind, room) /\ InPlay(kind, room)
      /\ room \in [turn : {0} \cup Players, over : BOOLEAN, game : Games(kind)] /\ ~room.over
  BY <1>1, Reads
<1>3. kind \in BoardKinds /\ kind # "word" /\ kind # "rps" /\ Games(kind) = Boards(Side[kind])
  BY <1>2, KindsApart DEF Games
<1>4. b \in Boards(Side[k]) /\ room.turn \in Players /\ BoardFine(b, k, room.turn)
  BY <1>2, <1>3 DEF InPlay
<1>5. CASE ~myTurn(p) \/ land = {}
  <2>1. PlayOn(p, room)
    BY <1>5 DEF MoveDooz
  <2>2. ~Both(kind, room)
    BY <1>3 DEF Both
  <2> QED
    BY <1>2, <2>1, <2>2, Plays
<1>6. CASE myTurn(p) /\ land # {} /\ win
  <2> DEFINE copy == reset(passTurn(room, placed))
  <2>1. Announce(p, copy)
    BY <1>6 DEF MoveDooz
  <2>2. NewGame(kind) \in Games(kind)
    BY <1>2, NewGameFine
  <2>3. over(copy).over
        /\ over(copy) \in [turn : {0} \cup Players, over : BOOLEAN, game : Games(kind)]
    <3> HIDE DEF placed
    <3> DEFINE x == passTurn(room, placed)
               y == reset(x)
    <3>1. x \in [turn : {0} \cup Players, over : BOOLEAN, game : {placed}]
      BY <1>2, <1>4, Others DEF passTurn
    <3> HIDE DEF x
    <3>2. y \in [turn : {0} \cup Players, over : BOOLEAN, game : Games(kind)]
      BY <2>2, <3>1 DEF reset
    <3> HIDE DEF y
    <3>3. over(y).over /\ over(y) \in [turn : {0} \cup Players, over : BOOLEAN, game : Games(kind)]
      BY <3>2 DEF over
    <3> QED
      BY <3>3 DEF x, y
  <2> HIDE DEF copy
  <2>4. over(copy).over /\ CopyFine(kind, over(copy))
    BY <1>3, <2>2, <2>3 DEF CopyFine
  <2> QED
    BY <1>2, <2>1, <2>4, Ends
<1>7. CASE myTurn(p) /\ land # {} /\ ~win
  <2> DEFINE copy == passTurn(room, placed)
  <2>1. PlayOn(p, copy)
    BY <1>7 DEF MoveDooz
  <2>2. at \in land /\ room.turn = p
    BY <1>7 DEF myTurn
  <2>3. placed \in Boards(Side[k]) /\ BoardFine(placed, k, other(p))
    <3> HIDE DEF at
    <3> QED
      BY <1>4, <1>7, <2>2, MarkFine
  <2> HIDE DEF placed
  <2>4. copy.turn = other(p) /\ copy.game = placed /\ ~copy.over
        /\ copy \in [turn : {0} \cup Players, over : BOOLEAN, game : Games(kind)]
    BY <1>2, <1>3, <2>2, <2>3, Others DEF passTurn
  <2> HIDE DEF copy
  <2>5. CopyFine(kind, copy) /\ ~Both(kind, copy)
    BY <1>2, <1>3, <2>3, <2>4, Others DEF CopyFine, InPlay, Both
  <2> QED
    BY <1>2, <2>1, <2>5, Plays
<1> QED
  BY <1>5, <1>6, <1>7

LEMMA DareKeeps ==
  ASSUME Inv, NEW p \in Players, MoveDareAndTruth(p)
  PROVE  Inv'
<1>1. MayMove(p, "dare")
  BY DEF MoveDareAndTruth
<1>2. /\ kind = "dare" /\ MayMove(p, kind) /\ CopyFine(kind, room) /\ ~room.over
      /\ room \in [turn : {0} \cup Players, over : BOOLEAN, game : {None}]
  BY <1>1, Reads, KindsApart DEF Games
<1> DEFINE copy == IF myTurn(p) THEN passTurn(room, None) ELSE room
<1>3. PlayOn(p, copy)
  BY DEF MoveDareAndTruth
<1>4. copy \in [turn : {0} \cup Players, over : BOOLEAN, game : {None}] /\ ~copy.over
  BY <1>2, Others DEF passTurn, myTurn
<1> HIDE DEF copy
<1>5. CopyFine(kind, copy) /\ ~Both(kind, copy)
  BY <1>2, <1>4, KindsApart DEF CopyFine, InPlay, Both, Games
<1> QED
  BY <1>2, <1>3, <1>5, Plays

\* with(g) puts g into the room that was read.
LEMMA RoomWith ==
  ASSUME NEW k, CopyFine(k, room), NEW g \in Games(k)
  PROVE  LET x == [room EXCEPT !.game = g] IN
         /\ x.game = g /\ x.turn = room.turn /\ x.over = room.over
         /\ x \in [turn : {0} \cup Players, over : BOOLEAN, game : Games(k)]
         /\ over(x).game = g /\ over(x).over
         /\ over(x) \in [turn : {0} \cup Players, over : BOOLEAN, game : Games(k)]
  BY DEF CopyFine, over

LEMMA RPSKeeps ==
  ASSUME Inv, NEW p \in Players, NEW m \in Weapons, MoveRPS(p, m)
  PROVE  Inv'
<1> DEFINE played  == [room.game EXCEPT !.moves[p] = m]
           w       == winner(played.moves)
           scored  == IF w = 0 THEN played ELSE [played EXCEPT !.score[w] = @ + 1]
           with(g) == [room EXCEPT !.game = g]
<1>1. MayMove(p, "rps")
  BY DEF MoveRPS
<1>2. /\ kind = "rps" /\ MayMove(p, kind) /\ CopyFine(kind, room) /\ InPlay(kind, room)
      /\ ~room.over /\ Games(kind) = RPSGame /\ kind \notin BoardKinds
      /\ room \in [turn : {0} \cup Players, over : BOOLEAN, game : RPSGame]
  BY <1>1, Reads, KindsApart DEF Games
<1>3. room.game \in RPSGame /\ \A q \in Players : room.game.score[q] < 3
  BY <1>2 DEF InPlay
<1>4. played \in RPSGame /\ played.score = room.game.score
  BY <1>3 DEF RPSGame
<1>5. w \in 0..2
  BY DEF winner
<1>6. scored \in RPSGame /\ \A q \in Players : scored.score[q] \in 0..3
  <2>1. CASE w = 0
    BY <1>4, <2>1 DEF RPSGame
  <2>2. CASE w # 0
    <3> HIDE DEF played
    <3>1. w \in Players /\ played.score[w] + 1 \in 0..3
      <4>1. w \in Players
        BY <1>5, <2>2 DEF Players
      <4>2. room.game.score[w] \in 0..3 /\ room.game.score[w] < 3
        BY <1>3, <4>1 DEF RPSGame
      <4> QED
        BY <1>4, <4>1, <4>2
    <3> HIDE DEF w
    <3>2. [played EXCEPT !.score[w] = @ + 1] \in RPSGame
      BY <1>4, <3>1 DEF RPSGame
    <3> QED
      BY <2>2, <3>2 DEF RPSGame
  <2> QED
    BY <2>1, <2>2
<1> HIDE DEF played, w
<1>7. CASE "" \in {played.moves[1], played.moves[2]}
  <2>1. PlayOn(p, with(played))
    BY <1>7 DEF MoveRPS, played
  <2>2. \E q \in Players : played.moves[q] = ""
    BY <1>7 DEF Players
  <2>3. with(played).game = played /\ ~with(played).over
        /\ with(played) \in [turn : {0} \cup Players, over : BOOLEAN, game : Games(kind)]
    BY <1>2, <1>4, RoomWith
  <2> HIDE DEF with
  <2>4. CopyFine(kind, with(played)) /\ ~Both(kind, with(played))
    BY <1>2, <1>3, <1>4, <2>2, <2>3 DEF CopyFine, InPlay, Both
  <2> QED
    BY <1>2, <2>1, <2>4, Plays
<1>8. CASE "" \notin {played.moves[1], played.moves[2]} /\ matchOver(scored)
  <2>1. Announce(p, with(scored))
    BY <1>8 DEF MoveRPS, played, w
  <2> HIDE DEF scored
  <2>2. over(with(scored)).over
        /\ over(with(scored)) \in [turn : {0} \cup Players, over : BOOLEAN, game : Games(kind)]
    BY <1>2, <1>6, RoomWith
  <2> HIDE DEF with
  <2>3. CopyFine(kind, over(with(scored)))
    BY <1>2, <2>2 DEF CopyFine
  <2> QED
    BY <1>2, <2>1, <2>2, <2>3, Ends
<1>9. CASE "" \notin {played.moves[1], played.moves[2]} /\ ~matchOver(scored)
  <2> DEFINE g == nextRound(scored)
  <2>1. PlayOn(p, with(g))
    BY <1>9 DEF MoveRPS, played, w
  <2> HIDE DEF scored
  <2>2. <<"", "">> \in [Players -> Weapons \cup {""}] /\ <<"", "">>[1] = ""
    BY NewRPSMatch, NewGameFine DEF NewRPS, Players
  <2>3. g \in RPSGame /\ g.moves = <<"", "">> /\ g.score = scored.score
    <3> DEFINE none == <<"", "">>
               r    == scored.round + 1
    <3>0. r \in Nat
      <4>1. scored.round \in Nat
        BY <1>6 DEF RPSGame
      <4> QED
        BY <4>1
    <3>1. none \in [Players -> Weapons \cup {""}]
      BY <2>2
    <3> HIDE DEF none
    <3>2. g = [scored EXCEPT !.moves = none, !.round = r]
      BY DEF nextRound, none
    <3> HIDE DEF g, r
    <3>3. g \in RPSGame /\ g.moves = none /\ g.score = scored.score
      BY <1>6, <3>0, <3>1, <3>2 DEF RPSGame
    <3> QED
      BY <3>3 DEF none
  <2> HIDE DEF g
  <2>4. \A q \in Players : g.score[q] < 3
    <3> TAKE q \in Players
    <3>1. scored.score[q] \in 0..3 /\ ~(scored.score[q] >= 3)
      BY <1>6, <1>9 DEF matchOver
    <3>2. g.score[q] = scored.score[q]
      BY <2>3
    <3> QED
      BY <3>1, <3>2
  <2>5. with(g).game = g /\ ~with(g).over
        /\ with(g) \in [turn : {0} \cup Players, over : BOOLEAN, game : Games(kind)]
    BY <1>2, <2>3, RoomWith
  <2> HIDE DEF with
  <2>6. CopyFine(kind, with(g)) /\ ~Both(kind, with(g))
    BY <1>2, <2>2, <2>3, <2>4, <2>5 DEF CopyFine, InPlay, Both, Players
  <2> QED
    BY <1>2, <2>1, <2>6, Plays
<1> QED
  BY <1>7, <1>8, <1>9

LEMMA WordReads ==
  ASSUME Inv, NEW p \in Players, MayMove(p, "word")
  PROVE  /\ kind = "word" /\ MayMove(p, kind) /\ CopyFine(kind, room) /\ ~room.over
         /\ Games(kind) = WordGames /\ kind \notin BoardKinds
         /\ WordFine(room.game) /\ NotFound(room.game) /\ room.game \in WordGames
<1>1. /\ kind = "word" /\ MayMove(p, kind) /\ CopyFine(kind, room) /\ InPlay(kind, room)
      /\ ~room.over /\ "word" \notin BoardKinds
  BY Reads, KindsApart
<1>2. WordFine(room.game) /\ NotFound(room.game)
  BY <1>1 DEF CopyFine, InPlay
<1>3. "word" # "rps"
  OBVIOUS
<1>4. Games("word") = WordGames
  BY <1>1, <1>3 DEF Games
<1> QED
  BY <1>1, <1>2, <1>4 DEF WordFine

LEMMA WordCopy ==
  ASSUME Inv, NEW p \in Players, MayMove(p, "word"), NEW g, WordFine(g), NotFound(g)
  PROVE  /\ CopyFine(kind, withGame(g))
         /\ withGame(g).game = g /\ ~withGame(g).over
<1>1. /\ kind = "word" /\ CopyFine(kind, room) /\ ~room.over /\ Games(kind) = WordGames
      /\ kind \notin BoardKinds /\ g \in WordGames
  BY WordReads DEF WordFine
<1> DEFINE x == withGame(g)
<1>2. x.game = g /\ ~x.over /\ x \in [turn : {0} \cup Players, over : BOOLEAN, game : Games(kind)]
  BY <1>1, RoomWith DEF withGame
<1> HIDE DEF x
<1>3. CopyFine(kind, x)
  BY <1>1, <1>2 DEF CopyFine, InPlay
<1> QED
  BY <1>2, <1>3 DEF x

LEMMA WordPlays ==
  ASSUME Inv, NEW p \in Players, MayMove(p, "word"), NEW g, WordFine(g), NotFound(g),
         ~(g.state = "waiting_secrets" /\ g.ready[1] /\ g.ready[2]), PlayOn(p, withGame(g))
  PROVE  Inv'
<1>1. CopyFine(kind, withGame(g)) /\ withGame(g).game = g
  BY WordCopy
<1>2. ~Both(kind, withGame(g))
  BY <1>1 DEF Both
<1> QED
  BY <1>1, <1>2, WordReads, Plays

\* As WordPlays, with the save that follows the messages.
LEMMA WordTells ==
  ASSUME Inv, NEW p \in Players, MayMove(p, "word"), NEW g, WordFine(g), NotFound(g),
         g.state # "waiting_secrets", Owe(p, withGame(g), SaveTwice), results' = results
  PROVE  Inv'
<1>1. /\ CopyFine(kind, withGame(g)) /\ withGame(g).game = g /\ ~withGame(g).over
      /\ kind = "word" /\ MayMove(p, kind)
  BY WordCopy, WordReads
<1>2. PICK j : j = [copy |-> withGame(g), plan |-> SaveTwice]
  OBVIOUS
<1>3. j.copy = withGame(g) /\ j.plan = SaveTwice
  BY <1>2
<1>4. j # Idle
  BY <1>3 DEF Idle, SaveTwice
<1>5. PlanFine(kind, j)
  BY <1>1, <1>3 DEF PlanFine, Both
<1> QED
  BY <1>1, <1>2, <1>4, <1>5, Starts

LEMMA WordEnds ==
  ASSUME Inv, NEW p \in Players, MayMove(p, "word"), NEW g, WordFine(g), Announce(p, withGame(g))
  PROVE  Inv'
<1>1. /\ kind = "word" /\ MayMove(p, kind) /\ CopyFine(kind, room) /\ Games(kind) = WordGames
      /\ g \in WordGames
  BY WordReads DEF WordFine
<1> DEFINE x == over(withGame(g))
<1>2. x.game = g /\ x.over /\ x \in [turn : {0} \cup Players, over : BOOLEAN, game : Games(kind)]
  BY <1>1, RoomWith DEF withGame
<1> HIDE DEF x
<1>3. CopyFine(kind, x)
  BY <1>2 DEF CopyFine
<1> QED
  BY <1>1, <1>2, <1>3, Ends DEF x

LEMMA TypeKeeps ==
  ASSUME Inv, NEW p \in Players, NEW t \in {"fa", "num"}, ChooseType(p, t)
  PROVE  Inv'
<1> DEFINE g == [room.game EXCEPT !.type = t, !.state = "choosing_length", !.creator = p]
<1>1. MayMove(p, "word") /\ room.game.state = "choosing_type" /\ PlayOn(p, withGame(g))
  BY DEF ChooseType
<1>2. WordFine(room.game) /\ room.game \in WordGames
  BY <1>1, WordReads
<1>3. /\ g \in WordGames /\ g.state = "choosing_length" /\ g.creator = p
      /\ g.ready = room.game.ready /\ g.wrong = room.game.wrong
  BY <1>2 DEF WordGames
<1>4. \A q \in Players : ~room.game.ready[q] /\ room.game.wrong[q] = {}
  BY <1>1, <1>2 DEF WordFine, Waiting
<1> HIDE DEF g
<1>5. WordFine(g) /\ NotFound(g)
  BY <1>3, <1>4 DEF WordFine, NotFound, Waiting
<1> QED
  BY <1>1, <1>3, <1>5, WordPlays

LEMMA LengthKeeps ==
  ASSUME Inv, NEW p \in Players, NEW n \in Lengths, ChooseLength(p, n)
  PROVE  Inv'
<1> DEFINE g == [room.game EXCEPT !.length = n, !.state = "waiting_secrets", !.turn = 1]
<1>1. MayMove(p, "word") /\ room.game.state = "choosing_length" /\ PlayOn(p, withGame(g))
  BY DEF ChooseLength
<1>2. WordFine(room.game) /\ room.game \in WordGames
  BY <1>1, WordReads
<1>3. /\ g \in WordGames /\ g.state = "waiting_secrets" /\ g.length = n
      /\ g.ready = room.game.ready /\ g.wrong = room.game.wrong
  BY <1>2 DEF WordGames, Waiting, Players
<1>4. \A q \in Players : ~room.game.ready[q] /\ room.game.wrong[q] = {}
  BY <1>1, <1>2 DEF WordFine, Waiting
<1> HIDE DEF g
<1>5. WordFine(g) /\ NotFound(g)
  BY <1>3, <1>4 DEF WordFine, NotFound, Waiting
<1>6. ~g.ready[1]
  BY <1>3, <1>4 DEF Players
<1> QED
  BY <1>1, <1>5, <1>6, WordPlays

\* The second secret leaves a game that has still to be started, and a save that does.
LEMMA SecretKeeps ==
  ASSUME Inv, NEW p \in Players, NEW w, SendSecret(p, w)
  PROVE  Inv'
<1> DEFINE g == [room.game EXCEPT !.secret[p] = w, !.ready[p] = TRUE]
           all == g.ready[1] /\ g.ready[2]
<1>1. /\ MayMove(p, "word") /\ room.game.state = "waiting_secrets" /\ w \in Words(room.game)
      /\ Owe(p, withGame(g), IF all THEN SaveBegin ELSE <<"save">>) /\ results' = results
  BY DEF SendSecret, SaveBegin
<1>2. WordFine(room.game) /\ room.game \in WordGames /\ kind = "word" /\ MayMove(p, kind)
  BY <1>1, WordReads
<1>3. room.game.length \in Lengths /\ \A q \in Players : room.game.wrong[q] = {}
  BY <1>1, <1>2 DEF WordFine, Waiting
<1>4. w \in AnyWord
  BY <1>1, <1>3, WordsTyped
<1>5. /\ g \in WordGames /\ g.state = "waiting_secrets" /\ g.length = room.game.length
      /\ g.type = room.game.type /\ g.wrong = room.game.wrong
      /\ g.secret = [room.game.secret EXCEPT ![p] = w] /\ g.ready = [room.game.ready EXCEPT ![p] = TRUE]
  <2> DEFINE s == [room.game.secret EXCEPT ![p] = w]
             r == [room.game.ready EXCEPT ![p] = TRUE]
  <2>1. s \in [Players -> AnyWord]
    BY <1>2, <1>4 DEF WordGames
  <2>2. r \in [Players -> BOOLEAN]
    BY <1>2 DEF WordGames
  <2>3. g = [room.game EXCEPT !.secret = s, !.ready = r]
    OBVIOUS
  <2> HIDE DEF s, r
  <2>4. /\ [room.game EXCEPT !.secret = s, !.ready = r] \in WordGames
        /\ \A h : h = [room.game EXCEPT !.secret = s, !.ready = r] =>
             /\ h.state = room.game.state /\ h.length = room.game.length
             /\ h.type = room.game.type /\ h.wrong = room.game.wrong
             /\ h.secret = s /\ h.ready = r
    BY <1>2, <2>1, <2>2 DEF WordGames
  <2> HIDE DEF g
  <2>5. /\ g \in WordGames /\ g.state = room.game.state /\ g.length = room.game.length
        /\ g.type = room.game.type /\ g.wrong = room.game.wrong
        /\ g.secret = s /\ g.ready = r
    BY <2>3, <2>4
  <2> QED
    BY <1>1, <2>5 DEF s, r
<1> HIDE DEF g
<1>6. Words(g) = Words(room.game)
  BY <1>5 DEF Words
<1>7. ASSUME NEW q \in Players, g.ready[q] PROVE g.secret[q] \in Words(g)
  <2>1. room.game.secret \in [Players -> AnyWord] /\ room.game.ready \in [Players -> BOOLEAN]
    BY <1>2 DEF WordGames
  <2>2. CASE q = p
    BY <1>1, <1>5, <1>6, <2>1, <2>2
  <2>3. CASE q # p
    <3>1. room.game.ready[q] /\ g.secret[q] = room.game.secret[q]
      BY <1>5, <1>7, <2>1, <2>3
    <3> QED
      BY <1>2, <1>6, <3>1 DEF WordFine
  <2> QED
    BY <2>2, <2>3
<1>8. WordFine(g) /\ NotFound(g)
  BY <1>3, <1>5, <1>7 DEF WordFine, NotFound, Waiting
<1>9. CASE ~all
  BY <1>1, <1>8, <1>9, WordPlays DEF PlayOn
<1>10. CASE all
  <2>1. CopyFine(kind, withGame(g)) /\ withGame(g).game = g /\ ~withGame(g).over
    BY <1>1, <1>8, WordCopy
  <2>2. Both(kind, withGame(g))
    BY <1>2, <1>5, <1>10, <2>1 DEF Both
  <2> DEFINE j == [copy |-> withGame(g), plan |-> SaveBegin]
  <2>3. j.copy = withGame(g) /\ j.plan \in Beginning /\ j # Idle
    BY DEF Beginning, Idle, SaveBegin
  <2>4. PlanFine(kind, j)
    BY <1>2, <2>1, <2>2, <2>3 DEF PlanFine
  <2>5. Owe(p, withGame(g), SaveBegin)
    BY <1>1, <1>10
  <2> QED
    BY <1>1, <1>2, <2>3, <2>4, <2>5, Starts
<1> QED
  BY <1>9, <1>10

\* Passing the turn leaves the words as they are.
LEMMA SwitchFine ==
  ASSUME NEW g, WordFine(g), NotFound(g), g.state = "playing"
  PROVE  WordFine(switchTurn(g)) /\ NotFound(switchTurn(g)) /\ switchTurn(g).state = "playing"
<1> DEFINE h == switchTurn(g)
<1>1. g \in WordGames /\ g.turn \in Players /\ other(g.turn) \in Players
  BY Others DEF WordFine
<1>2. /\ h \in WordGames /\ h.turn = other(g.turn) /\ h.state = g.state /\ h.type = g.type
      /\ h.length = g.length /\ h.secret = g.secret /\ h.ready = g.ready
      /\ h.display = g.display /\ h.wrong = g.wrong
  BY <1>1 DEF switchTurn, WordGames
<1> HIDE DEF h
<1>3. Words(h) = Words(g) /\ (Truthful(g) => Truthful(h))
  BY <1>2 DEF Words, Truthful
<1> QED
  BY <1>1, <1>2, <1>3 DEF WordFine, NotFound, Waiting, h

LEMMA NumberKeeps ==
  ASSUME Inv, NEW p \in Players, NEW w, GuessNumber(p, w)
  PROVE  Inv'
<1>1. MayMove(p, "word") /\ room.game.state = "playing"
  BY DEF GuessNumber, myGuess
<1>2. /\ WordFine(room.game) /\ NotFound(room.game) /\ room.game \in WordGames
      /\ CopyFine(kind, room)
  BY <1>1, WordReads
<1>3. CASE Announce(p, room)
  <2>1. withGame(room.game) = room
    BY <1>2 DEF withGame, CopyFine
  <2> QED
    BY <1>1, <1>2, <1>3, <2>1, WordEnds
<1>4. CASE PlayOn(p, withGame(switchTurn(room.game)))
  BY <1>1, <1>2, <1>4, SwitchFine, WordPlays
<1> QED
  BY <1>3, <1>4 DEF GuessNumber

LEMMA LetterKeeps ==
  ASSUME Inv, NEW p \in Players, NEW ch \in Letters, GuessLetter(p, ch)
  PROVE  Inv'
<1> DEFINE g == room.game
           h == applyGuess(g, p, ch)
<1>1. MayMove(p, "word") /\ g.state = "playing" /\ g.type # "num"
  BY DEF GuessLetter, myGuess
<1>2. WordFine(g) /\ NotFound(g) /\ g \in WordGames
  BY <1>1, WordReads
<1>3. /\ h \in WordGames /\ Truthful(h) /\ Alike(g, h)
      /\ h.display[other(p)] = g.display[other(p)]
  <2>1. h = applyGuess(g, p, ch)
    OBVIOUS
  <2> HIDE DEF g, h
  <2> QED
    BY <1>1, <1>2, <2>1, GuessTruthful
<1>4. CASE hasWon(h, p) /\ Announce(p, withGame(h))
  <2> HIDE DEF h
  <2>1. WordFine(h)
    BY <1>1, <1>2, <1>3 DEF WordFine, Words, Alike, Waiting
  <2> QED
    BY <1>1, <1>4, <2>1, WordEnds
<1>5. CASE ~hasWon(h, p) /\ Owe(p, withGame(switchTurn(h)), SaveTwice) /\ results' = results
  <2> HIDE DEF h
  <2>1. WordFine(h) /\ h.state = "playing"
    BY <1>1, <1>2, <1>3 DEF WordFine, Words, Alike, Waiting
  <2>2. NotFound(h)
    BY <1>1, <1>2, <1>3, <1>5, Others DEF NotFound, hasWon, other, Players
  <2> QED
    BY <1>1, <1>5, <2>1, <2>2, SwitchFine, WordTells
<1> QED
  BY <1>4, <1>5 DEF GuessLetter, SaveTwice

(***************************************************************************)
(* The writes                                                              *)
(***************************************************************************)
LEMMA Plans ==
  /\ Idle.plan = << >> /\ \A c, w : [copy |-> c, plan |-> <<w>>] # Idle
  /\ \A w : <<w>> # << >> /\ Head(<<w>>) = w /\ Len(<<w>>) = 1
  /\ SaveTwice # << >> /\ Head(SaveTwice) = "save" /\ Len(SaveTwice) # 1
  /\ Tail(SaveTwice) = <<"save">>
  /\ SaveBegin # << >> /\ Head(SaveBegin) = "save" /\ Len(SaveBegin) # 1
  /\ Tail(SaveBegin) = BeginSave
  /\ BeginSave # << >> /\ Head(BeginSave) = "begin" /\ Len(BeginSave) # 1
  /\ Tail(BeginSave) = <<"save">>
  BY DEF Idle, SaveTwice, SaveBegin, BeginSave

\* A handler that has made its last write is idle.
LEMMA LastWrite ==
  ASSUME Inv, NEW p \in Players, NEW w, job[p].plan = <<w>>, NEW copy, Done(p, copy)
  PROVE  /\ job' = [q \in Players |-> job'[q]] /\ job'[p] = Idle
         /\ \A q \in Players : q # p => job'[q] = job[q]
  BY Plans DEF Inv, Done

\* One that has more to write goes on with the copy it has.
LEMMA NextWrite ==
  ASSUME Inv, NEW p \in Players, NEW j, Len(job[p].plan) # 1,
         NEW copy, j = [copy |-> copy, plan |-> Tail(job[p].plan)], Done(p, copy)
  PROVE  /\ job' = [q \in Players |-> job'[q]] /\ job'[p] = j
         /\ \A q \in Players : q # p => job'[q] = job[q]
         /\ j.copy = copy /\ j.plan = Tail(job[p].plan)
  BY DEF Inv, Done

LEMMA SaveKeeps ==
  ASSUME Inv, NEW p \in Players, SaveRoom(p)
  PROVE  Inv'
<1>1. /\ job[p].plan # << >> /\ Head(job[p].plan) = "save" /\ room' = job[p].copy
      /\ Done(p, job[p].copy) /\ UNCHANGED <<kind, inChat, racing, results, lost>> /\ Most' = Most
  BY DEF SaveRoom, owes, Most
<1>2. PlanFine(kind, job[p]) /\ job[p] # Idle
  BY <1>1, Plans DEF Inv
<1>3. other(p) \in Players /\ other(p) # p /\ \A q \in Players : q = p \/ q = other(p)
  BY DEF Players, other
<1>4. ~racing => job[other(p)] = Idle
  BY <1>2, <1>3 DEF Inv, OneEnd
<1>5. CASE job[p].plan = <<"save">> /\ CopyFine(kind, job[p].copy) /\ ~Both(kind, job[p].copy)
  <2>1. /\ job' = [q \in Players |-> job'[q]] /\ job'[p] = Idle
        /\ \A q \in Players : q # p => job'[q] = job[q]
    BY <1>1, <1>5, LastWrite
  <2>2. \A q \in Players : PlanFine(kind', job'[q])
    BY <1>1, <2>1 DEF Inv, PlanFine
  <2>3. OneEnd'
    <3> SUFFICES ASSUME ~racing
                 PROVE  /\ results <= Most /\ \A q \in Players : job'[q] = Idle
                        /\ results = Most => Closed(room')
      BY <1>1 DEF OneEnd, Players
    <3>1. \A q \in Players : job'[q] = Idle
      BY <1>3, <1>4, <2>1
    <3>2. results <= Most /\ (results = Most => Ending(job[p]))
      <4>1. ~Ending(Idle)
        BY Plans DEF Ending
      <4> QED
        BY <1>2, <1>3, <1>4, <4>1 DEF Inv, OneEnd
    <3>3. Ending(job[p]) => Closed(room')
      BY <1>1, <1>5 DEF Ending, Closed
    <3> QED
      BY <3>1, <3>2, <3>3
  <2> QED
    BY <1>1, <1>5, <2>1, <2>2, <2>3 DEF Inv
<1>6. CASE /\ job[p].plan \in {SaveTwice, SaveBegin} /\ kind = "word" /\ CopyFine(kind, job[p].copy)
           /\ ~job[p].copy.over /\ (Both(kind, job[p].copy) <=> job[p].plan = SaveBegin)
  <2>1. PICK j : j = [copy |-> job[p].copy, plan |-> Tail(job[p].plan)]
    OBVIOUS
  <2>2. /\ job' = [q \in Players |-> job'[q]] /\ job'[p] = j
        /\ \A q \in Players : q # p => job'[q] = job[q]
        /\ j.copy = job[p].copy /\ j.plan = Tail(job[p].plan)
    BY <1>1, <1>6, <2>1, Plans, NextWrite
  <2>3. /\ j.plan \in {<<"save">>, BeginSave}
        /\ Both(kind, job[p].copy) <=> j.plan = BeginSave
    BY <1>6, <2>2, Plans
  <2>4. PlanFine(kind, j)
    BY <1>6, <2>2, <2>3 DEF PlanFine, Beginning
  <2>5. \A q \in Players : PlanFine(kind', job'[q])
    BY <1>1, <2>2, <2>4 DEF Inv
  <2>6. OneEnd'
    <3> SUFFICES ASSUME ~racing
                 PROVE  (\E q \in Players : job'[q] = Idle) /\ results <= Most /\ results # Most
      BY <1>1 DEF OneEnd
    <3>1. job'[other(p)] = Idle
      BY <1>3, <1>4, <2>2
    <3>2. results <= Most /\ (results = Most => Ending(job[p]))
      <4>1. ~Ending(Idle)
        BY Plans DEF Ending
      <4> QED
        BY <1>2, <1>3, <1>4, <4>1 DEF Inv, OneEnd
    <3>3. ~Ending(job[p])
      BY <1>1, <1>6, Plans DEF Ending
    <3> QED
      BY <1>3, <3>1, <3>2, <3>3
  <2> QED
    BY <1>1, <1>6, <2>2, <2>3, <2>5, <2>6 DEF Inv
<1>7. job[p].plan # <<"remove">> /\ job[p].plan # BeginSave /\ SaveTwice # SaveBegin
  BY <1>1, Plans
<1>8. Both(kind, job[p].copy) => ~job[p].copy.over
  BY DEF Both
<1> QED
  BY <1>2, <1>5, <1>6, <1>7, <1>8 DEF PlanFine, Beginning

LEMMA RemoveKeeps ==
  ASSUME Inv, NEW p \in Players, RemoveRoom(p)
  PROVE  Inv'
<1>1. /\ job[p].plan # << >> /\ Head(job[p].plan) = "remove" /\ room' = None
      /\ Done(p, job[p].copy) /\ UNCHANGED <<kind, inChat, racing, results, lost>> /\ Most' = Most
  BY DEF RemoveRoom, owes, Most
<1>2. job[p].plan = <<"remove">>
  BY <1>1, Plans DEF Inv, PlanFine, Beginning
<1>3. /\ job' = [q \in Players |-> job'[q]] /\ job'[p] = Idle
      /\ \A q \in Players : q # p => job'[q] = job[q]
  BY <1>1, <1>2, LastWrite
<1>4. \A q \in Players : PlanFine(kind', job'[q])
  BY <1>1, <1>3 DEF Inv, PlanFine
<1>5. OneEnd'
  <2> SUFFICES ASSUME ~racing
               PROVE  results <= Most /\ \A q \in Players : job'[q] = Idle
    BY <1>1 DEF OneEnd, Closed, Players
  <2>1. job[p] # Idle
    BY <1>2, Plans
  <2> QED
    BY <1>3, <2>1 DEF Inv, OneEnd, Players
<1> QED
  BY <1>1, <1>3, <1>4, <1>5 DEF Inv

LEMMA BeginKeeps ==
  ASSUME Inv, NEW p \in Players, BeginPlaying(p)
  PROVE  Inv'
<1> DEFINE x == job[p].copy
           g == startPlaying(x.game)
<1>1. /\ job[p].plan # << >> /\ Head(job[p].plan) = "begin"
      /\ room' = [x EXCEPT !.game = g]
      /\ Done(p, room') /\ UNCHANGED <<kind, inChat, racing, results, lost>> /\ Most' = Most
  BY DEF BeginPlaying, owes, Most
<1>2. job[p].plan = BeginSave /\ kind = "word" /\ CopyFine(kind, x) /\ Both(kind, x)
  <2>1. PlanFine(kind, job[p])
    BY DEF Inv
  <2>2. /\ job[p].plan # <<"remove">> /\ job[p].plan # <<"save">> /\ job[p].plan # SaveTwice
        /\ job[p].plan # SaveBegin /\ job[p] # Idle
    BY <1>1, Plans
  <2> QED
    BY <2>1, <2>2 DEF PlanFine, Beginning
<1>3. PICK j : j = [copy |-> room', plan |-> Tail(job[p].plan)]
  OBVIOUS
<1>4. /\ job' = [q \in Players |-> job'[q]] /\ job'[p] = j
      /\ \A q \in Players : q # p => job'[q] = job[q]
      /\ j.copy = room' /\ j.plan = <<"save">>
  <2>1. Done(p, room')
    BY <1>1
  <2>2. Len(job[p].plan) # 1 /\ Tail(job[p].plan) = <<"save">>
    BY <1>2, Plans
  <2>3. PICK y : y = room'
    OBVIOUS
  <2> QED
    BY <1>3, <2>1, <2>2, <2>3, NextWrite
<1>5. WordFine(g) /\ NotFound(g) /\ g.state = "playing"
  <2>1. WordFine(x.game) /\ x.game.ready[1] /\ x.game.ready[2] /\ x.game.state = "waiting_secrets"
    BY <1>2 DEF CopyFine, Both
  <2>2. x.game \in WordGames
    BY <2>1 DEF WordFine
  <2>3. startPlaying(x.game).state = "playing"
    BY <2>2 DEF startPlaying, WordGames
  <2> QED
    BY <2>1, <2>3, StartFine
<1>6. Games(kind) = WordGames /\ kind \notin BoardKinds
  <2>1. "word" # "rps"
    OBVIOUS
  <2> QED
    BY <1>2, <2>1, KindsApart DEF Games
<1>7. CopyFine(kind, room') /\ ~Both(kind, room')
  <2> HIDE DEF g, x
  <2>1. x \in [turn : {0} \cup Players, over : BOOLEAN, game : WordGames]
    BY <1>2, <1>6 DEF CopyFine
  <2>2. g \in WordGames
    BY <1>5 DEF WordFine
  <2>3. /\ room' \in [turn : {0} \cup Players, over : BOOLEAN, game : WordGames]
        /\ room'.game = g
    BY <1>1, <2>1, <2>2
  <2> QED
    BY <1>2, <1>5, <1>6, <2>3 DEF CopyFine, InPlay, Both
<1>8. OneEnd'
  <2> SUFFICES ASSUME ~racing
               PROVE  (\E q \in Players : job'[q] = Idle) /\ results <= Most /\ results # Most
    BY <1>1 DEF OneEnd
  <2>1. job[p] # Idle /\ ~Ending(job[p]) /\ ~Ending(Idle)
    BY <1>1, <1>2, Plans DEF Ending
  <2>2. other(p) \in Players /\ other(p) # p /\ \A q \in Players : q = p \/ q = other(p)
    BY Others DEF other, Players
  <2>3. job[other(p)] = Idle
    BY <2>1, <2>2 DEF Inv, OneEnd
  <2>4. results <= Most /\ results # Most
    BY <2>1, <2>2, <2>3 DEF Inv, OneEnd
  <2>5. job'[other(p)] = Idle
    BY <1>4, <2>2, <2>3
  <2> QED
    BY <2>2, <2>4, <2>5
<1>9. \A q \in Players : PlanFine(kind', job'[q])
  BY <1>1, <1>4, <1>7 DEF Inv, PlanFine
<1> QED
  BY <1>1, <1>4, <1>7, <1>8, <1>9 DEF Inv

\* A stop leaves the room as it is and forgets what was owed to it.
LEMMA StopKeeps ==
  ASSUME Inv, Stop
  PROVE  Inv'
<1> DEFINE cut == UNION {cutOff(job[p]) : p \in Players}
<1>1. /\ cut \cap lost = {} /\ lost' = lost \cup cut /\ job' = [p \in Players |-> Idle]
      /\ UNCHANGED <<kind, inChat, racing, room, results>>
  BY DEF Stop
<1>2. cut \subseteq {"begin", "end"}
  BY DEF cutOff
<1>3. \A p \in Players : /\ job[p].plan = BeginSave => "begin" \in cut
                         /\ Ending(job[p]) => "end" \in cut
  BY DEF cutOff, BeginSave
<1>4. "end" \in cut => \E p \in Players : Ending(job[p])
  BY DEF cutOff
<1> HIDE DEF cut
<1>5. job' = [p \in Players |-> job'[p]] /\ \A p \in Players : job'[p] = Idle
  BY <1>1
<1>6. OneEnd'
  <2> SUFFICES ASSUME ~racing
               PROVE  results <= Most' /\ (results = Most' => Closed(room))
    BY <1>1, <1>5 DEF OneEnd, Players, Closed
  <2>1. results \in Nat /\ results <= Most
    BY DEF Inv, OneEnd
  <2>2. CASE "end" \in cut
    BY <1>1, <2>1, <2>2 DEF Most
  <2>3. CASE "end" \notin cut
    <3>1. Most' = Most
      BY <1>1, <2>3 DEF Most
    <3>2. results = Most => Closed(room)
      BY <1>3, <2>3 DEF Inv, OneEnd
    <3> QED
      BY <2>1, <3>1, <3>2
  <2> QED
    BY <2>2, <2>3
<1>7. \A p \in Players : PlanFine(kind', job'[p])
  BY <1>5 DEF PlanFine
<1>8. room' # None /\ Both(kind', room') => "begin" \in lost'
  BY <1>1, <1>3 DEF Inv
<1> QED
  BY <1>1, <1>2, <1>5, <1>6, <1>7, <1>8 DEF Inv

(***************************************************************************)
(* The theorems                                                            *)
(***************************************************************************)
LEMMA Keeps == Inv /\ [Next]_vars => Inv'
<1> SUFFICES ASSUME Inv, [Next]_vars PROVE Inv'
  OBVIOUS
<1>1. CASE UNCHANGED vars
  BY <1>1 DEF vars, Inv, OneEnd, Most
<1>2. ASSUME NEW p \in Players, MoveOf(p) PROVE Inv'
  <2>1. ASSUME NEW k \in BoardKinds, NEW cell \in Cells(Side[k]), MoveDooz(p, k, cell) PROVE Inv'
    BY <2>1, DoozKeeps
  <2>2. CASE MoveDareAndTruth(p)
    BY <2>2, DareKeeps
  <2>3. ASSUME NEW m \in Weapons, MoveRPS(p, m) PROVE Inv'
    BY <2>3, RPSKeeps
  <2>4. ASSUME NEW t \in {"fa", "num"}, ChooseType(p, t) PROVE Inv'
    BY <2>4, TypeKeeps
  <2>5. ASSUME NEW n \in Lengths, ChooseLength(p, n) PROVE Inv'
    BY <2>5, LengthKeeps
  <2>6. ASSUME NEW w, SendSecret(p, w) PROVE Inv'
    BY <2>6, SecretKeeps
  <2>7. ASSUME NEW w, GuessNumber(p, w) PROVE Inv'
    BY <2>7, NumberKeeps
  <2>8. ASSUME NEW ch \in Letters, GuessLetter(p, ch) PROVE Inv'
    BY <2>8, LetterKeeps
  <2> QED
    BY <1>2, <2>1, <2>2, <2>3, <2>4, <2>5, <2>6, <2>7, <2>8 DEF MoveOf
<1>3. ASSUME NEW p \in Players, SaveRoom(p) \/ BeginPlaying(p) \/ RemoveRoom(p) PROVE Inv'
  BY <1>3, SaveKeeps, BeginKeeps, RemoveKeeps
<1> QED
  BY <1>1, <1>2, <1>3, StopKeeps DEF Next

LEMMA Invariant == Spec => []Inv
<1> QED
  BY Opening, Keeps, PTL DEF Spec

LEMMA OpenRoom ==
  ASSUME Inv, open
  PROVE  kind \in Kinds /\ CopyFine(kind, room) /\ InPlay(kind, room)
  BY DEF Inv, open, CopyFine

\* Whatever copy is saved last, the stored room is a room of the game being
\* played (saveGameRoom in src/internal/bot/10_game.go).
THEOREM TypeCorrect == Spec => []TypeOK
<1>1. Inv => TypeOK
  <2> SUFFICES ASSUME Inv, room # None
               PROVE  /\ room.turn \in {0} \cup Players /\ room.over \in BOOLEAN
                      /\ CASE onBoard       -> room.game \in Boards(Side[kind])
                           [] kind = "rps"  -> room.game \in RPSGame
                           [] kind = "word" -> room.game.turn \in {0} \cup Players
                           [] OTHER         -> TRUE
    BY DEF TypeOK, Inv
  <2>1. kind \in Kinds /\ CopyFine(kind, room)
    BY DEF Inv
  <2>2. room.turn \in {0} \cup Players /\ room.over \in BOOLEAN /\ room.game \in Games(kind)
    BY <2>1 DEF CopyFine
  <2>3. CASE kind \in BoardKinds
    BY <2>2, <2>3, KindsApart DEF Games, onBoard
  <2>4. CASE kind = "rps"
    BY <2>2, <2>4, KindsApart DEF Games, onBoard
  <2>5. CASE kind = "word"
    <3>1. room.game \in WordGames
      BY <2>1, <2>5 DEF CopyFine, WordFine
    <3>2. room.game.turn \in {0} \cup Players
      BY <3>1 DEF WordGames
    <3> QED
      BY <2>2, <2>5, <3>2, KindsApart DEF onBoard
  <2>6. CASE kind = "dare"
    BY <2>2, <2>6, KindsApart DEF onBoard
  <2> QED
    BY <2>1, <2>3, <2>4, <2>5, <2>6, KindsApart
<1> QED
  BY <1>1, Invariant, PTL

\* On boards of every size the players' marks alternate, and with gravity no
\* mark hangs (moveDooz4GravityHandler, moveDooz4NormalHandler, moveDoozClassicHandler).
THEOREM BoardsStayLegal == Spec => []BoardsLegal
<1>1. Inv => BoardsLegal
  <2> SUFFICES ASSUME Inv, onBoard, open
               PROVE  /\ marks(room.game, 1) - marks(room.game, 2) = IF room.turn = 1 THEN 0 ELSE 1
                      /\ Rests(room.game, kind)
    BY DEF BoardsLegal, Rests
  <2> QED
    BY OpenRoom DEF InPlay, BoardFine, onBoard
<1> QED
  BY <1>1, Invariant, PTL

\* A game that goes on has no winner and no draw: CheckWin, which looks along
\* the lines through the last mark only, misses no line on a board of any size.
THEOREM NoEndMissed == Spec => []NoMissedEnd
<1>1. Inv => NoMissedEnd
  BY OpenRoom DEF NoMissedEnd, InPlay, BoardFine, NotFound, onBoard, word
<1> QED
  BY <1>1, Invariant, PTL

\* For every alphabet and every length a display shows the other's secret and
\* nothing else (applyWordLetterGuess in src/internal/bot/10_game_word_guess.go).
THEOREM DisplaysStayTruthful == Spec => []DisplaysTruthful
<1>1. Inv => DisplaysTruthful
  <2>1. ASSUME Inv, kind = "word", room # None, word = "playing" PROVE Truthful(room.game)
    BY <2>1 DEF Inv, CopyFine, WordFine, word
  <2> QED
    BY <2>1 DEF DisplaysTruthful, Truthful, SeesTruth
<1> QED
  BY <1>1, Invariant, PTL

\* Between the handlers an open game lets somebody move on, whichever copy was
\* saved last and wherever the process stopped, but for a stop between the two
\* saves that start a word game (handleWordSecretInput).
THEOREM NeverLeftStuck == Spec => []NeverStuck
<1>1. Inv => NeverStuck
  <2> SUFFICES ASSUME Inv, open, \A p \in Players : job[p] = Idle
               PROVE  /\ onBoard => room.turn \in Players
                      /\ kind = "rps" => "" \in {room.game.moves[p] : p \in Players}
                      /\ kind = "word" =>
                           CASE word = "choosing_length" -> room.game.creator \in Players
                             [] word = "waiting_secrets" ->
                                   (room.game.ready[1] /\ room.game.ready[2]) => "begin" \in lost
                             [] word = "playing" ->
                                   /\ room.game.turn \in Players
                                   /\ room.game.type # "num" =>
                                        \E ch \in Letters :
                                            ~alreadyGuessed(room.game, room.game.turn, ch)
                             [] OTHER -> TRUE
    BY DEF NeverStuck
  <2>1. CopyFine(kind, room) /\ InPlay(kind, room)
    BY OpenRoom
  <2>2. onBoard => room.turn \in Players
    BY <2>1 DEF InPlay, onBoard
  <2>3. kind = "rps" => "" \in {room.game.moves[p] : p \in Players}
    BY <2>1 DEF InPlay
  <2>4. kind = "word" /\ room.game.state = "waiting_secrets"
        /\ room.game.ready[1] /\ room.game.ready[2] => "begin" \in lost
    BY Plans DEF Inv, Both, open
  <2>5. kind = "word" => WordFine(room.game) /\ NotFound(room.game)
    BY <2>1 DEF CopyFine, InPlay
  <2>6. ASSUME kind = "word", word = "playing", room.game.type # "num"
        PROVE  \E ch \in Letters : ~alreadyGuessed(room.game, room.game.turn, ch)
    <3> DEFINE g      == room.game
               p      == g.turn
               target == g.secret[other(p)]
               shown  == g.display[p]
    <3>1. g.state = "playing" /\ g.type # "num" /\ WordFine(g) /\ NotFound(g)
      BY <2>5, <2>6 DEF word
    <3> HIDE DEF g
    <3>2. p \in Players /\ other(p) \in Players /\ g.length \in Lengths /\ target \in Words(g)
          /\ SeesTruth(shown, target, g.wrong[p]) /\ Hidden \in letters(shown)
      BY <3>1, Others DEF WordFine, Waiting, Truthful, NotFound
    <3>3. \A i \in DOMAIN target : target[i] \in Letters
      BY <3>1, <3>2, WordsTyped DEF Alphabet
    <3> HIDE DEF p, target, shown
    <3>4. PICK i \in DOMAIN target : shown[i] = Hidden
      BY <3>2 DEF SeesTruth, letters
    <3>5. target[i] \in Letters /\ Hidden \notin Letters
      BY <3>3, GamePlayAssumption
    <3>6. target[i] \notin letters(shown) /\ target[i] \notin g.wrong[p]
      BY <3>2, <3>4, <3>5 DEF SeesTruth, letters
    <3>7. ~alreadyGuessed(g, p, target[i])
      BY <3>6 DEF alreadyGuessed, shown
    <3> QED
      BY <3>5, <3>7 DEF g, p
  <2>7. kind = "word" =>
           CASE word = "choosing_length" -> room.game.creator \in Players
             [] word = "waiting_secrets" ->
                   (room.game.ready[1] /\ room.game.ready[2]) => "begin" \in lost
             [] word = "playing" ->
                   /\ room.game.turn \in Players
                   /\ room.game.type # "num" =>
                        \E ch \in Letters : ~alreadyGuessed(room.game, room.game.turn, ch)
             [] OTHER -> TRUE
    BY <2>4, <2>5, <2>6 DEF WordFine, word
  <2> QED
    BY <2>2, <2>3, <2>7
<1> QED
  BY <1>1, Invariant, PTL

\* With the players' updates apart, a game is decided at most once, and once
\* more if a stop came before the end was stored (moveRPSHandler and the others).
THEOREM DecidedOnce == Spec => []OneResult
<1>1. Inv => OneResult
  BY DEF Inv, OneEnd, OneResult, Most
<1> QED
  BY <1>1, Invariant, PTL

(***************************************************************************)
(* What a player has done                                                  *)
(***************************************************************************)
\* What stands in a round's moves where nothing was chosen.
Unchosen == ""

\* Nothing a player put into old is missing from new.
Carries(k, old, new) ==
    /\ k \in BoardKinds => \A cell \in Cells(Side[k]) : old[cell] \in {0, new[cell]}
    /\ k = "rps" => \A p \in Players : /\ old.score[p] <= new.score[p]
                                       /\ old.round = new.round
                                            => old.moves[p] \in {Unchosen, new.moves[p]}
    /\ k = "word" =>
        /\ phase[old.state] <= phase[new.state]
        /\ old.creator \in {0, new.creator} /\ old.length \in {0, new.length}
        /\ \A p \in Players : /\ old.ready[p] => new.secret[p] = old.secret[p]
                              /\ \A i \in DOMAIN old.display[p] :
                                    old.display[p][i] \in {Hidden, new.display[p][i]}

\* What a word game has not come to yet is empty.
Blank(g) == /\ g.state = "choosing_type" => g.creator = 0
            /\ g.state \in {"choosing_type", "choosing_length"} => g.length = 0
            /\ g.state # "playing" => \A p \in Players : g.display[p] = << >>

\* A handler's copy carries what is stored; between the two saves that start a
\* word game it is what is stored.
Saves == {<<"save">>, SaveTwice, SaveBegin}
Current(j) ==
    room # None /\ ~room.over =>
        /\ j.plan \in Saves => j.copy.over \/ Carries(kind, room.game, j.copy.game)
        /\ j.plan = BeginSave => j.copy.game = room.game

Chain ==
    /\ kind = "word" => /\ room # None => Blank(room.game)
                        /\ \A p \in Players : job[p].copy # None => Blank(job[p].copy.game)
    /\ ~racing => \A p \in Players : Current(job[p])

LEMMA ChainStarts ==
  ASSUME Inv, Chain, NEW p \in Players, NEW copy, NEW plan, Owe(p, copy, plan),
         kind = "word" => Blank(copy.game),
         \/ plan = <<"remove">>
         \/ plan \in Saves /\ (copy.over \/ Carries(kind, room.game, copy.game))
  PROVE  Chain'
<1>1. PICK j : j = [copy |-> copy, plan |-> plan]
  OBVIOUS
<1>2. j.copy = copy /\ j.plan = plan /\ plan # BeginSave
  BY <1>1, Plans DEF Saves
<1>3. job' = [job EXCEPT ![p] = j] /\ UNCHANGED <<kind, racing, room>>
  BY <1>1 DEF Owe
<1>4. job'[p] = j /\ \A q \in Players : q # p => job'[q] = job[q]
  BY <1>3 DEF Inv
<1>5. Current(j)
  BY <1>2, Plans DEF Current, Saves
<1>6. ~racing => \A q \in Players : (job'[q] = j \/ job'[q] = job[q]) /\ Current(job[q])
  BY <1>4 DEF Chain
<1>7. kind' = "word" => /\ room' # None => Blank(room'.game)
                        /\ \A q \in Players : job'[q].copy # None => Blank(job'[q].copy.game)
  BY <1>2, <1>3, <1>4 DEF Chain
<1>8. ASSUME ~racing', NEW q \in Players PROVE Current(job[q])'
  BY <1>3, <1>5, <1>6, <1>8 DEF Current
<1> QED
  BY <1>7, <1>8 DEF Chain, Blank

LEMMA Phases ==
  /\ phase["choosing_type"] = 0 /\ phase["choosing_length"] = 1
  /\ phase["waiting_secrets"] = 2 /\ phase["playing"] = 3
  BY DEF phase

\* The fields of a word game that what follows speaks about.
LEMMA WordTyped ==
  ASSUME NEW g \in WordGames
  PROVE  /\ g.state \in {"choosing_type", "choosing_length", "waiting_secrets", "playing"}
         /\ g.creator \in {0} \cup Players /\ g.length \in {0} \cup Lengths
         /\ g.secret \in [Players -> AnyWord] /\ g.ready \in [Players -> BOOLEAN]
         /\ g.display \in [Players -> AnyWord]
         /\ DOMAIN g = {"state", "type", "creator", "length", "secret", "ready", "display",
                        "wrong", "turn"}
<1> DEFINE R(T) == [state : {"choosing_type", "choosing_length"} \cup Waiting, type : T,
                    creator : {0} \cup Players, length : {0} \cup Lengths,
                    secret : [Players -> AnyWord], ready : [Players -> BOOLEAN],
                    display : [Players -> AnyWord], wrong : [Players -> SUBSET Letters],
                    turn : {0} \cup Players]
<1>1. ASSUME NEW T, NEW f \in R(T)
      PROVE  /\ f.state \in {"choosing_type", "choosing_length", "waiting_secrets", "playing"}
             /\ f.creator \in {0} \cup Players /\ f.length \in {0} \cup Lengths
             /\ f.secret \in [Players -> AnyWord] /\ f.ready \in [Players -> BOOLEAN]
             /\ f.display \in [Players -> AnyWord]
             /\ DOMAIN f = {"state", "type", "creator", "length", "secret", "ready", "display",
                            "wrong", "turn"}
  BY DEF Waiting
<1> QED
  BY <1>1, Zenon DEF WordGames

LEMMA RPSTyped ==
  ASSUME NEW g \in RPSGame
  PROVE  /\ DOMAIN g = {"moves", "score", "round"}
         /\ g.score \in [Players -> 0..3] /\ g.round \in Nat
         /\ \E C : g.moves \in [Players -> C]
<1>1. ASSUME NEW C, NEW f \in [moves : [Players -> C], score : [Players -> 0..3], round : Nat]
      PROVE  /\ DOMAIN f = {"moves", "score", "round"}
             /\ f.score \in [Players -> 0..3] /\ f.round \in Nat
             /\ f.moves \in [Players -> C]
  OBVIOUS
<1> QED
  BY <1>1, Zenon DEF RPSGame

LEMMA SameCarried ==
  ASSUME NEW k \in Kinds, NEW g \in Games(k), k = "word" => WordFine(g)
  PROVE  Carries(k, g, g)
<1>1. k = "rps" => \A p \in Players : g.score[p] \in 0..3
  BY RPSTyped, KindsApart DEF Games
<1>2. k = "word" => phase[g.state] \in Nat
  <2> SUFFICES ASSUME k = "word" PROVE phase[g.state] \in Nat
    OBVIOUS
  <2>1. g.state \in {"choosing_type", "choosing_length", "waiting_secrets", "playing"}
    BY WordTyped DEF WordFine
  <2> QED
    BY <2>1, Phases
<1>3. k \in BoardKinds => \A cell \in Cells(Side[k]) : g[cell] \in {0, g[cell]}
  OBVIOUS
<1>4. k = "rps" => \A p \in Players : g.score[p] <= g.score[p]
  BY <1>1
<1>5. k = "word" => phase[g.state] <= phase[g.state]
  BY <1>2
<1> QED
  BY <1>3, <1>4, <1>5, Zenon DEF Carries

LEMMA ChainPlays ==
  ASSUME Inv, Chain, NEW p \in Players, NEW copy, PlayOn(p, copy),
         kind = "word" => Blank(copy.game), Carries(kind, room.game, copy.game)
  PROVE  Chain'
  BY ChainStarts DEF PlayOn, Saves

LEMMA ChainEnds ==
  ASSUME Inv, Chain, NEW p \in Players, NEW copy, Announce(p, copy),
         kind = "word" => Blank(copy.game),
         over(copy).over, over(copy).game = copy.game
  PROVE  Chain'
<1>1. CASE inChat
  <2>1. Owe(p, copy, <<"remove">>)
    BY <1>1 DEF Announce
  <2> QED
    BY <2>1, ChainStarts
<1>2. CASE ~inChat
  <2>1. Owe(p, over(copy), <<"save">>)
    BY <1>2 DEF Announce
  <2> QED
    BY <2>1, ChainStarts DEF Saves
<1> QED
  BY <1>1, <1>2

LEMMA ChainDooz ==
  ASSUME Inv, Chain, NEW p \in Players, NEW k \in BoardKinds, NEW cell \in Cells(Side[k]),
         MoveDooz(p, k, cell)
  PROVE  Chain'
<1> DEFINE b      == room.game
           land   == landing(b, Side[k], k \in Gravity, cell)
           at     == CHOOSE c \in land : TRUE
           placed == [b EXCEPT ![at] = p]
           x      == passTurn(room, placed)
<1>1. MayMove(p, k)
  BY DEF MoveDooz
<1>2. /\ k = kind /\ kind \in Kinds /\ kind \in BoardKinds /\ kind # "word" /\ kind # "rps"
      /\ room \in [turn : {0} \cup Players, over : BOOLEAN, game : Games(kind)]
      /\ room.game \in Games(kind) /\ Games(kind) = Boards(Side[kind])
  BY <1>1, Reads, KindsApart DEF Games
<1>3. CASE PlayOn(p, room)
  BY <1>2, <1>3, SameCarried, ChainPlays
<1>4. CASE land # {} /\ (Announce(p, reset(x)) \/ PlayOn(p, x))
  <2>1. at \in land /\ \A c \in land : b[c] = 0
    BY <1>4 DEF landing
  <2>2. b[at] = 0 /\ b \in [Cells(Side[kind]) -> 0..2]
    BY <1>2, <2>1 DEF Boards
  <2> HIDE DEF land, at
  <2>3. \A c \in Cells(Side[kind]) : b[c] \in {0, placed[c]}
    BY <2>2
  <2>4. DOMAIN x = DOMAIN room /\ x.game = placed
    BY <1>2 DEF passTurn
  <2>5. Carries(kind, b, placed)
    BY <1>2, <2>3, Zenon DEF Carries
  <2> HIDE DEF placed, x
  <2>6. over(reset(x)).over /\ over(reset(x)).game = reset(x).game
    <3>1. DOMAIN x = {"turn", "over", "game"}
      BY <1>2, <2>4
    <3> QED
      BY <3>1 DEF over, reset
  <2> QED
    BY <1>2, <1>4, <2>4, <2>5, <2>6, ChainPlays, ChainEnds
<1> QED
  BY <1>3, <1>4 DEF MoveDooz

LEMMA ChainDare ==
  ASSUME Inv, Chain, NEW p \in Players, MoveDareAndTruth(p)
  PROVE  Chain'
<1>1. kind = "dare" /\ kind \notin BoardKinds
  BY Reads, KindsApart DEF MoveDareAndTruth
<1>2. \A g, h : Carries(kind, g, h)
  BY <1>1 DEF Carries
<1> QED
  BY <1>1, <1>2, ChainPlays DEF MoveDareAndTruth

LEMMA ChainRPS ==
  ASSUME Inv, Chain, NEW p \in Players, NEW m \in Weapons, MoveRPS(p, m)
  PROVE  Chain'
<1> DEFINE played  == [room.game EXCEPT !.moves[p] = m]
           w       == winner(played.moves)
           scored  == IF w = 0 THEN played ELSE [played EXCEPT !.score[w] = @ + 1]
           with(g) == [room EXCEPT !.game = g]
           next    == nextRound(scored)
<1>1. /\ MayMove(p, "rps") /\ room.game.moves[p] = Unchosen
      /\ PlayOn(p, with(played)) \/ Announce(p, with(scored)) \/ PlayOn(p, with(next))
  BY Zenon DEF MoveRPS, Unchosen
<1>2. PICK none : next = [scored EXCEPT !.moves = none, !.round = @ + 1]
  BY Zenon DEF nextRound
<1>3. w \in 0..2
  BY DEF winner
<1>4. /\ kind = "rps" /\ kind \notin BoardKinds /\ Games(kind) = RPSGame
      /\ room \in [turn : {0} \cup Players, over : BOOLEAN, game : RPSGame]
      /\ room.game \in RPSGame
  BY <1>1, Reads, KindsApart DEF Games
<1>5. /\ DOMAIN room.game = {"moves", "score", "round"}
      /\ room.game.score \in [Players -> 0..3] /\ room.game.round \in Nat
      /\ \E C : room.game.moves \in [Players -> C]
  BY <1>4, RPSTyped
<1>6. \A g : /\ with(g).game = g /\ over(with(g)).over /\ over(with(g)).game = g
  BY <1>4 DEF over
<1>7. /\ played.score = room.game.score /\ played.round = room.game.round
      /\ played.moves = [room.game.moves EXCEPT ![p] = m] /\ DOMAIN played = DOMAIN room.game
  BY <1>5
<1>8. Carries(kind, room.game, played)
  <2>1. \A q \in Players : room.game.score[q] <= played.score[q]
    BY <1>5, <1>7
  <2>2. \A q \in Players : room.game.moves[q] \in {Unchosen, played.moves[q]}
    BY <1>1, <1>5, <1>7
  <2> QED
    BY <1>4, <2>1, <2>2, KindsApart DEF Carries
<1> HIDE DEF played, w
<1>9. /\ scored.round = room.game.round /\ DOMAIN scored = DOMAIN room.game
      /\ \A q \in Players : room.game.score[q] <= scored.score[q]
  <2>1. CASE w = 0
    BY <1>5, <1>7, <2>1
  <2>2. CASE w # 0
    <3>1. PICK s : s = [room.game.score EXCEPT ![w] = @ + 1]
      OBVIOUS
    <3>2. \A q \in Players : room.game.score[q] <= s[q]
      BY <1>5, <3>1
    <3>3. scored = [played EXCEPT !.score = s]
      BY <1>7, <2>2, <3>1
    <3> QED
      BY <1>5, <1>7, <3>2, <3>3
  <2> QED
    BY <2>1, <2>2
<1> HIDE DEF scored, next
<1>10. next.score = scored.score /\ next.round = room.game.round + 1
  BY <1>2, <1>5, <1>9
<1>11. room.game.round # next.round
  BY <1>5, <1>10
<1>12. Carries(kind, room.game, next)
  BY <1>4, <1>9, <1>10, <1>11, KindsApart DEF Carries
<1> HIDE DEF with
<1> QED
  BY <1>1, <1>4, <1>6, <1>8, <1>12, ChainPlays, ChainEnds

\* For a word game only its own clause says something.
LEMMA WordCarries ==
  ASSUME NEW old, NEW new,
         phase[old.state] <= phase[new.state],
         old.creator \in {0, new.creator}, old.length \in {0, new.length},
         \A p \in Players : old.ready[p] => new.secret[p] = old.secret[p],
         \A p \in Players : \A i \in DOMAIN old.display[p] :
                                old.display[p][i] \in {Hidden, new.display[p][i]}
  PROVE  Carries("word", old, new)
  BY KindsApart DEF Carries

LEMMA ChainReads ==
  ASSUME Inv, Chain, NEW p \in Players, MayMove(p, "word")
  PROVE  /\ kind = "word" /\ room.game \in WordGames /\ WordFine(room.game)
         /\ Blank(room.game)
         /\ \A g : withGame(g).game = g /\ over(withGame(g)).over
                   /\ over(withGame(g)).game = g
<1>1. kind = "word" /\ WordFine(room.game) /\ room.game \in WordGames /\ CopyFine(kind, room)
  BY WordReads
<1>2. room # None
  BY DEF MayMove
<1>3. DOMAIN room = {"turn", "over", "game"}
  BY <1>1 DEF CopyFine
<1> QED
  BY <1>1, <1>2, <1>3 DEF Chain, withGame, over

LEMMA ChainType ==
  ASSUME Inv, Chain, NEW p \in Players, NEW t \in {"fa", "num"}, ChooseType(p, t)
  PROVE  Chain'
<1> DEFINE g == room.game
           h == [g EXCEPT !.type = t, !.state = "choosing_length", !.creator = p]
<1>1. MayMove(p, "word") /\ g.state = "choosing_type" /\ PlayOn(p, withGame(h))
  BY DEF ChooseType
<1>2. /\ kind = "word" /\ g \in WordGames /\ Blank(g)
      /\ withGame(h).game = h
  BY <1>1, ChainReads
<1>3. /\ h.state = "choosing_length" /\ h.creator = p /\ h.length = g.length
      /\ h.secret = g.secret /\ h.ready = g.ready /\ h.display = g.display
  BY <1>2, WordTyped
<1> HIDE DEF g, h
<1>4. Carries("word", g, h)
  BY <1>1, <1>2, <1>3, Phases, WordCarries DEF Blank
<1>5. Blank(h)
  BY <1>1, <1>2, <1>3 DEF Blank
<1> QED
  BY <1>1, <1>2, <1>4, <1>5, ChainPlays DEF g

LEMMA ChainLength ==
  ASSUME Inv, Chain, NEW p \in Players, NEW n \in Lengths, ChooseLength(p, n)
  PROVE  Chain'
<1> DEFINE g == room.game
           h == [g EXCEPT !.length = n, !.state = "waiting_secrets", !.turn = 1]
<1>1. MayMove(p, "word") /\ g.state = "choosing_length" /\ PlayOn(p, withGame(h))
  BY DEF ChooseLength
<1>2. /\ kind = "word" /\ g \in WordGames /\ Blank(g)
      /\ withGame(h).game = h
  BY <1>1, ChainReads
<1>3. /\ h.state = "waiting_secrets" /\ h.creator = g.creator
      /\ h.secret = g.secret /\ h.ready = g.ready /\ h.display = g.display
  BY <1>2, WordTyped
<1> HIDE DEF g, h
<1>4. Carries("word", g, h)
  BY <1>1, <1>2, <1>3, Phases, WordCarries DEF Blank
<1>5. Blank(h)
  BY <1>1, <1>2, <1>3 DEF Blank
<1> QED
  BY <1>1, <1>2, <1>4, <1>5, ChainPlays DEF g

LEMMA ChainSecret ==
  ASSUME Inv, Chain, NEW p \in Players, NEW w, SendSecret(p, w)
  PROVE  Chain'
<1> DEFINE g == room.game
           h == [g EXCEPT !.secret[p] = w, !.ready[p] = TRUE]
<1>1. /\ MayMove(p, "word") /\ g.state = "waiting_secrets" /\ ~g.ready[p]
      /\ \E plan \in Saves : Owe(p, withGame(h), plan)
  BY DEF SendSecret, maySend, Saves, SaveBegin
<1>2. /\ kind = "word" /\ g \in WordGames /\ Blank(g)
      /\ withGame(h).game = h
  BY <1>1, ChainReads
<1>3. /\ h.state = g.state /\ h.creator = g.creator /\ h.length = g.length
      /\ h.secret = [g.secret EXCEPT ![p] = w] /\ h.display = g.display
  BY <1>2, WordTyped
<1>4. \A q \in Players : g.ready[q] => h.secret[q] = g.secret[q]
  BY <1>1, <1>2, <1>3, WordTyped
<1> HIDE DEF g, h
<1>5. Carries("word", g, h)
  <2>1. phase[g.state] <= phase[h.state]
    BY <1>1, <1>3, Phases
  <2> QED
    BY <1>3, <1>4, <2>1, WordCarries
<1>6. Blank(h)
  BY <1>1, <1>2, <1>3 DEF Blank
<1> QED
  BY <1>1, <1>2, <1>5, <1>6, ChainStarts DEF g

LEMMA ChainNumber ==
  ASSUME Inv, Chain, NEW p \in Players, NEW w, GuessNumber(p, w)
  PROVE  Chain'
<1> DEFINE g == room.game
           h == switchTurn(g)
<1>1. /\ MayMove(p, "word") /\ g.state = "playing"
      /\ Announce(p, room) \/ PlayOn(p, withGame(h))
  BY DEF GuessNumber, myGuess
<1>2. /\ kind = "word" /\ g \in WordGames /\ Blank(g)
      /\ withGame(h).game = h
  BY <1>1, ChainReads
<1>3. /\ h.state = "playing" /\ h.creator = g.creator /\ h.length = g.length
      /\ h.secret = g.secret /\ h.display = g.display
  BY <1>1, <1>2, WordTyped DEF switchTurn
<1>4. over(room).over /\ over(room).game = room.game
  BY <1>1, WordReads DEF CopyFine, over
<1> HIDE DEF g, h
<1>5. Carries("word", g, h)
  BY <1>1, <1>3, Phases, WordCarries
<1>6. Blank(h)
  BY <1>3 DEF Blank
<1> QED
  BY <1>1, <1>2, <1>4, <1>5, <1>6, ChainPlays, ChainEnds DEF g

LEMMA ChainLetter ==
  ASSUME Inv, Chain, NEW p \in Players, NEW ch \in Letters, GuessLetter(p, ch)
  PROVE  Chain'
<1> DEFINE g == room.game
           h == applyGuess(g, p, ch)
           k == switchTurn(h)
<1>1. /\ MayMove(p, "word") /\ g.state = "playing" /\ g.type # "num"
      /\ Announce(p, withGame(h)) \/ Owe(p, withGame(k), SaveTwice)
  BY DEF GuessLetter, myGuess, SaveTwice
<1>2. /\ kind = "word" /\ g \in WordGames /\ WordFine(g)
      /\ withGame(k).game = k /\ withGame(h).game = h
      /\ over(withGame(h)).over /\ over(withGame(h)).game = h
  BY <1>1, ChainReads
<1>3. h \in WordGames /\ Alike(g, h)
  <2>1. PICK x : x = applyGuess(g, p, ch)
    OBVIOUS
  <2> HIDE DEF g
  <2>2. x \in WordGames /\ Alike(g, x)
    BY <1>1, <1>2, <2>1, GuessTruthful
  <2> QED
    BY <2>1, <2>2
<1>4. /\ k.state = "playing" /\ k.creator = g.creator /\ k.length = g.length
      /\ k.secret = g.secret /\ k.display = h.display
  <2> HIDE DEF h
  <2> QED
    BY <1>1, <1>3, WordTyped DEF switchTurn, Alike
<1>5. ASSUME NEW q \in Players, NEW i \in DOMAIN g.display[q]
      PROVE  g.display[q][i] \in {Hidden, h.display[q][i]}
  <2>1. CASE h = [g EXCEPT !.display[p] = reveal(g, p, ch)]
    <3>1. h.display = [g.display EXCEPT ![p] = reveal(g, p, ch)]
      BY <1>2, <2>1, WordTyped
    <3>2. CASE q # p
      BY <1>2, <3>1, <3>2, WordTyped
    <3>3. CASE q = p
      <4> DEFINE s == g.secret[other(p)]
      <4>1. SeesTruth(g.display[p], s, g.wrong[p])
        BY <1>1, <1>2 DEF WordFine, Truthful
      <4>2. h.display[p] = reveal(g, p, ch)
        BY <1>2, <3>1, WordTyped
      <4> HIDE DEF h, g
      <4>3. /\ i \in DOMAIN s
            /\ h.display[p][i] = IF s[i] = ch THEN ch ELSE g.display[p][i]
        BY <1>5, <3>3, <4>1, <4>2 DEF SeesTruth, reveal
      <4>4. g.display[p][i] \in {Hidden, s[i]}
        BY <4>1, <4>3 DEF SeesTruth
      <4> QED
        BY <3>3, <4>3, <4>4
    <3> QED
      BY <3>2, <3>3
  <2>2. CASE h = [g EXCEPT !.wrong[p] = @ \cup {ch}]
    <3>1. h.display = g.display
      BY <1>2, <2>2, WordTyped
    <3> HIDE DEF h
    <3> QED
      BY <3>1
  <2> QED
    BY <2>1, <2>2 DEF applyGuess
<1> HIDE DEF g, h, k
<1>6. Carries("word", g, k)
  BY <1>1, <1>4, <1>5, Phases, WordCarries
<1>7. Blank(k) /\ Blank(h)
  BY <1>1, <1>3, <1>4 DEF Blank, Alike
<1> QED
  BY <1>1, <1>2, <1>6, <1>7, ChainStarts, ChainEnds DEF g, Saves

LEMMA ChainMoves ==
  ASSUME Inv, Chain, NEW p \in Players, MoveOf(p)
  PROVE  Chain'
  BY ChainDooz, ChainDare, ChainRPS, ChainType, ChainLength, ChainSecret, ChainNumber,
     ChainLetter DEF MoveOf

\* Handlers apart, a handler that writes is the only one.
LEMMA Alone ==
  ASSUME Inv, ~racing, NEW p \in Players, job[p].plan # << >>, NEW q \in Players, q # p
  PROVE  job[q] = Idle
  BY Plans DEF Inv, OneEnd, Players

LEMMA SavedFine ==
  ASSUME Inv, NEW p \in Players, job[p].plan \in Saves
  PROVE  /\ kind \in Kinds /\ job[p].copy.game \in Games(kind)
         /\ kind = "word" => WordFine(job[p].copy.game)
<1>1. PlanFine(kind, job[p]) /\ job[p] # Idle /\ job[p].plan # <<"remove">>
  BY Plans DEF Inv, Saves
<1>2. CopyFine(kind, job[p].copy)
  BY <1>1 DEF PlanFine
<1> QED
  BY <1>2 DEF Inv, CopyFine

\* A save stores what the handler made of what is stored.
LEMMA ChainSave ==
  ASSUME Inv, Chain, NEW p \in Players, SaveRoom(p)
  PROVE  /\ Chain'
         /\ ~racing /\ open /\ ~room'.over => Carries(kind, room.game, room'.game)
<1>1. /\ job[p].plan # << >> /\ Head(job[p].plan) = "save" /\ room' = job[p].copy
      /\ Done(p, job[p].copy) /\ UNCHANGED <<kind, racing>>
  BY DEF SaveRoom, owes
<1>2. job[p].plan \in Saves
  BY <1>1, Plans DEF Inv, PlanFine, Beginning, Saves
<1>3. ~racing /\ open /\ ~room'.over => Carries(kind, room.game, room'.game)
  BY <1>1, <1>2 DEF Chain, Current, open
<1>4. PICK j : /\ job' = [job EXCEPT ![p] = j]
               /\ j = Idle \/ (j.copy = job[p].copy /\ j.plan \in {<<"save">>, BeginSave})
  <2>1. CASE job[p].plan = <<"save">>
    BY <1>1, <2>1, Plans DEF Done
  <2>2. CASE job[p].plan \in {SaveTwice, SaveBegin}
    <3>1. PICK j : j = [copy |-> job[p].copy, plan |-> Tail(job[p].plan)]
      OBVIOUS
    <3>2. job' = [job EXCEPT ![p] = j]
      BY <1>1, <2>2, <3>1, Plans DEF Done
    <3>3. j.copy = job[p].copy /\ j.plan \in {<<"save">>, BeginSave}
      BY <2>2, <3>1, Plans
    <3> QED
      BY <3>2, <3>3, Zenon
  <2> QED
    BY <1>2, <2>1, <2>2 DEF Saves
<1>5. job'[p] = j /\ \A q \in Players : q # p => job'[q] = job[q]
  BY <1>4 DEF Inv
<1>6. kind = "word" => /\ room' # None => Blank(room'.game)
                       /\ \A q \in Players : job'[q].copy # None => Blank(job'[q].copy.game)
  BY <1>1, <1>4, <1>5 DEF Chain, Idle
<1>7. ASSUME ~racing, NEW q \in Players, room' # None
      PROVE /\ job'[q].plan \in Saves => Carries(kind, room'.game, job'[q].copy.game)
            /\ job'[q].plan = BeginSave => job'[q].copy.game = room'.game
  <2>1. q # p => job'[q] = Idle
    BY <1>1, <1>5, <1>7, Alone
  <2>2. job'[q] = Idle \/ job'[q].copy = room'
    BY <1>1, <1>4, <1>5, <2>1
  <2>3. Carries(kind, room'.game, room'.game)
    BY <1>1, <1>2, SavedFine, SameCarried
  <2>4. Idle.plan \notin Saves /\ Idle.plan # BeginSave
    BY Plans DEF Saves
  <2> QED
    BY <2>2, <2>3, <2>4
<1> QED
  BY <1>1, <1>3, <1>6, <1>7 DEF Chain, Blank, Current

\* The second save begins the word game whose secrets are stored.
LEMMA ChainBegin ==
  ASSUME Inv, Chain, NEW p \in Players, BeginPlaying(p)
  PROVE  /\ Chain'
         /\ ~racing /\ open => Carries(kind, room.game, room'.game)
<1> DEFINE x == job[p].copy
           h == startPlaying(x.game)
<1>1. /\ job[p].plan # << >> /\ Head(job[p].plan) = "begin"
      /\ room' = [x EXCEPT !.game = h]
      /\ Done(p, room') /\ UNCHANGED <<kind, racing>>
  BY DEF BeginPlaying, owes
<1>2. job[p].plan = BeginSave /\ kind = "word" /\ CopyFine(kind, x) /\ Both(kind, x)
  <2>1. PlanFine(kind, job[p])
    BY DEF Inv
  <2>2. /\ job[p].plan # <<"remove">> /\ job[p].plan # <<"save">> /\ job[p].plan # SaveTwice
        /\ job[p].plan # SaveBegin /\ job[p] # Idle
    BY <1>1, Plans
  <2> QED
    BY <2>1, <2>2 DEF PlanFine, Beginning
<1>3. x.game \in WordGames /\ x.game.state = "waiting_secrets" /\ room'.game = h
  BY <1>1, <1>2 DEF CopyFine, Both, WordFine
<1>4. /\ h.state = "playing" /\ h.creator = x.game.creator /\ h.length = x.game.length
      /\ h.secret = x.game.secret
  BY <1>3, WordTyped DEF startPlaying
<1>5. /\ job'[p].copy = room' /\ job'[p].plan = <<"save">>
      /\ \A q \in Players : q # p => job'[q] = job[q]
  <2>1. PICK j : j = [copy |-> room', plan |-> Tail(job[p].plan)]
    OBVIOUS
  <2>2. Len(job[p].plan) # 1 /\ Tail(job[p].plan) = <<"save">>
    BY <1>2, Plans
  <2>3. PICK y : y = room'
    OBVIOUS
  <2>4. Done(p, y) /\ j = [copy |-> y, plan |-> Tail(job[p].plan)]
    BY <1>1, <2>1, <2>3
  <2>5. /\ job'[p] = j /\ j.copy = y /\ j.plan = Tail(job[p].plan)
        /\ \A q \in Players : q # p => job'[q] = job[q]
    BY <2>2, <2>4, NextWrite
  <2> QED
    BY <2>2, <2>3, <2>5
<1> HIDE DEF h
<1>6. ASSUME ~racing, open PROVE Carries(kind, room.game, room'.game)
  <2>1. room.game = x.game /\ Blank(room.game)
    BY <1>2, <1>6, Plans DEF Chain, Current, open
  <2>2. \A q \in Players : DOMAIN room.game.display[q] = {}
    BY <1>3, <2>1 DEF Blank
  <2>3. phase[room.game.state] <= phase[h.state]
    BY <1>3, <1>4, <2>1, Phases
  <2> HIDE DEF x
  <2> QED
    BY <1>2, <1>3, <1>4, <2>1, <2>2, <2>3, WordCarries
<1>7. /\ Blank(room'.game)
      /\ \A q \in Players : job'[q].copy # None => Blank(job'[q].copy.game)
  <2>1. Blank(h)
    BY <1>4 DEF Blank
  <2>2. ASSUME NEW q \in Players, job'[q].copy # None PROVE Blank(job'[q].copy.game)
    BY <1>2, <1>3, <1>5, <2>1, <2>2 DEF Chain
  <2> QED
    BY <1>3, <2>1, <2>2
<1>8. ASSUME ~racing, NEW q \in Players
      PROVE /\ job'[q].plan \in Saves => Carries(kind, room'.game, job'[q].copy.game)
            /\ job'[q].plan # BeginSave
  <2>1. q # p => job'[q] = Idle
    BY <1>1, <1>5, <1>8, Alone
  <2>2. WordFine(h) /\ h \in WordGames
    <3>1. WordFine(x.game) /\ x.game.ready[1] /\ x.game.ready[2]
      BY <1>2 DEF CopyFine, Both
    <3> QED
      BY <1>3, <1>4, <3>1, StartFine DEF h, WordFine
  <2>3. Games(kind) = WordGames /\ kind \in Kinds
    <3>1. "word" # "rps"
      OBVIOUS
    <3> QED
      BY <1>2, <3>1, KindsApart DEF Games, Kinds
  <2>4. Carries(kind, h, h)
    BY <2>2, <2>3, SameCarried
  <2>5. Idle.plan \notin Saves /\ Idle.plan # BeginSave /\ <<"save">> # BeginSave
    BY Plans DEF Saves
  <2> QED
    BY <1>3, <1>5, <2>1, <2>4, <2>5
<1> QED
  BY <1>1, <1>6, <1>7, <1>8 DEF Chain, Blank, Current

\* Until a handler saves, its move is in its copy only.
LEMMA MovesOnlyOwe == ASSUME NEW p \in Players, MoveOf(p) PROVE room' = room
<1>1. \A copy : (PlayOn(p, copy) \/ Announce(p, copy)) => room' = room
  BY DEF PlayOn, Announce, Owe
<1>2. \A k \in BoardKinds : \A cell \in Cells(Side[k]) : MoveDooz(p, k, cell) => room' = room
  BY <1>1 DEF MoveDooz
<1>3. MoveDareAndTruth(p) => room' = room
  BY <1>1 DEF MoveDareAndTruth
<1>4. \A m \in Weapons : MoveRPS(p, m) => room' = room
  BY <1>1, Zenon DEF MoveRPS
<1>5. (\E t \in {"fa", "num"} : ChooseType(p, t)) \/ (\E n \in Lengths : ChooseLength(p, n))
        => room' = room
  BY <1>1 DEF ChooseType, ChooseLength
<1>6. \A w : SendSecret(p, w) \/ GuessNumber(p, w) => room' = room
  BY <1>1 DEF SendSecret, GuessNumber, Owe
<1>7. \A ch \in Letters : GuessLetter(p, ch) => room' = room
  BY <1>1 DEF GuessLetter, Owe
<1> QED
  BY <1>2, <1>3, <1>4, <1>5, <1>6, <1>7 DEF MoveOf

LEMMA ChainStep ==
  ASSUME Inv, Chain, [Next]_vars
  PROVE  Chain'
<1>1. CASE UNCHANGED vars
  BY <1>1 DEF vars, Chain, Current, Blank
<1>2. ASSUME NEW p \in Players, RemoveRoom(p) PROVE Chain'
  <2>1. /\ job[p].plan # << >> /\ Head(job[p].plan) = "remove" /\ room' = None
        /\ Done(p, job[p].copy) /\ UNCHANGED <<kind, racing>>
    BY <1>2 DEF RemoveRoom, owes
  <2>2. job[p].plan = <<"remove">>
    BY <2>1, Plans DEF Inv, PlanFine, Beginning
  <2>3. job'[p] = Idle /\ \A q \in Players : q # p => job'[q] = job[q]
    BY <2>1, <2>2, LastWrite
  <2> QED
    BY <2>1, <2>3 DEF Chain, Current, Blank, Idle
<1>3. CASE Stop
  <2>1. (\A p \in Players : job'[p] = Idle) /\ UNCHANGED <<kind, racing, room>>
    BY <1>3 DEF Stop
  <2>2. Idle.plan \notin Saves /\ Idle.plan # BeginSave /\ Idle.copy = None
    BY Plans DEF Idle, Saves
  <2> QED
    BY <2>1, <2>2 DEF Chain, Current, Blank
<1> QED
  BY <1>1, <1>2, <1>3, ChainMoves, ChainSave, ChainBegin DEF Next

LEMMA ChainInit == Init => Chain
<1> SUFFICES ASSUME Init PROVE Chain
  OBVIOUS
<1>1. (\A p \in Players : job[p] = Idle) /\ Idle.copy = None
  BY DEF Init, Idle
<1>2. Idle.plan \notin Saves /\ Idle.plan # BeginSave
  BY Plans DEF Saves
<1>3. kind = "word" => Blank(room.game)
  <2>1. /\ NewWordGame.creator = 0 /\ NewWordGame.length = 0
        /\ \A p \in Players : NewWordGame.display[p] = << >>
    BY DEF NewWordGame, Players
  <2>2. kind = "word" => room.game = NewWordGame
    BY KindsApart DEF Init, NewGame
  <2> QED
    BY <2>1, <2>2 DEF Blank
<1> QED
  BY <1>1, <1>2, <1>3 DEF Chain, Current

\* With the players' updates apart nothing a player has done is taken back while
\* the game goes on: what a handler saves is what was stored when it read the
\* room, and its move (moveRPSHandler, the dooz handlers, handleWordSecretInput,
\* applyWordLetterGuess).
THEOREM NothingUndone == Spec => NothingTakenBack
<1>1. ASSUME Inv, Chain, [Next]_vars, ~racing, open, room' # None, ~room'.over
      PROVE  Carries(kind, room.game, room'.game)
  <2>1. CASE room' = room
    BY <1>1, <2>1, SameCarried DEF Inv, CopyFine, open
  <2>2. CASE room' # room
    <3>1. \E p \in Players : SaveRoom(p) \/ BeginPlaying(p)
      <4>1. ASSUME NEW p \in Players, MoveOf(p) PROVE room' = room
        BY <4>1, MovesOnlyOwe
      <4>2. \A p \in Players : ~RemoveRoom(p)
        BY <1>1 DEF RemoveRoom
      <4>3. ~Stop /\ ~UNCHANGED vars
        BY <2>2 DEF Stop, vars
      <4> QED
        BY <1>1, <2>2, <4>1, <4>2, <4>3 DEF Next
    <3> QED
      BY <1>1, <3>1, ChainSave, ChainBegin
  <2> QED
    BY <2>1, <2>2
<1>2. Inv /\ Chain /\ [Next]_vars =>
        [~racing /\ open /\ room' # None /\ ~room'.over =>
           LET old == room.game
               new == room'.game IN
           /\ onBoard => \A cell \in Cells(Side[kind]) : old[cell] \in {0, new[cell]}
           /\ kind = "rps" => \A p \in Players : /\ old.score[p] <= new.score[p]
                                                /\ old.round = new.round
                                                     => old.moves[p] \in {"", new.moves[p]}
           /\ kind = "word" =>
               /\ phase[old.state] <= phase[new.state]
               /\ old.creator \in {0, new.creator} /\ old.length \in {0, new.length}
               /\ \A p \in Players : /\ old.ready[p] => new.secret[p] = old.secret[p]
                                      /\ \A i \in DOMAIN old.display[p] :
                                           old.display[p][i] \in {Hidden, new.display[p][i]}]_vars
  BY <1>1, Zenon DEF Carries, onBoard, Unchosen
<1> QED
  BY <1>2, Opening, Keeps, ChainInit, ChainStep, PTL DEF Spec, NothingTakenBack
=============================================================================
