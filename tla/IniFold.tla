------------------------------ MODULE IniFold ------------------------------
(***************************************************************************)
(* Folding and unfolding the text of a value (value_fold and value_unfold  *)
(* of ini/ini_valueobj.c), and what the parser makes of the lines when     *)
(* they are read again.  A text is a sequence of characters; positions are *)
(* counted from zero as in the code.                                       *)
(***************************************************************************)
EXTENDS Integers, Sequences, SequencesExt, FiniteSetsExt

Space == " "
Blank == {Space}
INI_FOLDING_OVERHEAD == 3   \* the length of " = "

At(text, i) == text[i + 1]
Cut(text, from, len) == SubSeq(text, from + 1, from + len)
Starts(line, S) == line # <<>> /\ Head(line) \in S
BlanksBefore(s) == Max({n \in 0..Len(s) : \A k \in 1..n : s[k] \in Blank})
BlanksAfter(s) == Max({n \in 0..Len(s) : \A k \in 1..n : s[Len(s) + 1 - k] \in Blank})

\* value_unfold
Unfold(lines) == FlattenSeq(lines)

\* save_portion: the lines with one more, which gets a blank in front unless it
\* has one, is empty or is the first line.
SavePortion(lines, portion) ==
    Append(lines, IF portion = <<>> \/ Starts(portion, Blank) \/ lines = <<>>
                  THEN portion ELSE <<Space>> \o portion)

\* Mutant: the room that the key takes is left out.
BestPlace_nokey(text, fold, keylen, bound) == fold.start + bound

\* Where the line should end at the latest.
BestPlace(text, fold, keylen, bound) ==
    fold.start + IF fold.lines = <<>>
                 THEN IF bound > keylen + INI_FOLDING_OVERHEAD
                      THEN bound - keylen - INI_FOLDING_OVERHEAD ELSE 0
                 ELSE IF fold.start < Len(text) /\ At(text, fold.start) \in Blank
                      THEN bound ELSE bound - 1

\* The places where the inner loop stops: a blank, the end, or the very front if
\* the key leaves no room.
Places(text, fold, best) ==
    {i \in fold.resume..Len(text) :
        \/ i = Len(text)
        \/ i < Len(text) /\ At(text, i) \in Blank /\ ~(best > 0 /\ fold.lines = <<>> /\ i = 0)
        \/ best = 0 /\ i = 0}

\* The length of the line: to the last place before next, or to next if there is
\* none.
FoldLength(start, before, next) ==
    LET place == Max({start} \cup before)
    IN  IF place = start /\ next # 0 THEN next - start ELSE place - start

\* A turn of the outer loop: the lines so far, the start of the next one and where
\* looking for places goes on.
FoldOnce(text, fold, best) ==
    LET places == Places(text, fold, best)
        beyond == {i \in places : i > best \/ i = 0}
    IN  IF beyond = {}
        THEN [fold EXCEPT !.start = Len(text), !.done = TRUE,
                          !.lines = IF fold.start < Len(text)
                                    THEN SavePortion(@, Cut(text, fold.start, Len(text) - fold.start)) ELSE @]
        ELSE LET next == Min(beyond)
                 len == FoldLength(fold.start, {i \in places : i < next}, next)
                 lines == SavePortion(fold.lines, Cut(text, fold.start, len))
                 start == fold.start + len
             IN  [start |-> start, resume |-> IF len = 0 THEN next + 1 ELSE next,
                  done |-> next = Len(text),
                  lines |-> IF next = Len(text) /\ start < Len(text)
                            THEN SavePortion(lines, Cut(text, start, Len(text) - start)) ELSE lines]

Turn(text, fold, keylen, bound) ==
    IF fold.done THEN fold ELSE FoldOnce(text, fold, BestPlace(text, fold, keylen, bound))

\* value_fold: the loop takes a turn for each line, and fewer than 2 + Len(text).
Fold(text, keylen, boundary) ==
    LET bound == IF boundary = 0 THEN 1 ELSE boundary
        turn[n \in 0..(2 + Len(text))] ==
            IF n = 0 THEN [start |-> 0, resume |-> 0, done |-> text = <<>>, lines |-> <<>>]
            ELSE Turn(text, turn[n - 1], keylen, bound)
    IN  turn[2 + Len(text)].lines

\* trim_last: blanks that end the last line go, but never its first character.
TrimLast(lines) ==
    IF lines = <<>> \/ Last(lines) = <<>> THEN lines
    ELSE LET n == Len(Last(lines)) - BlanksAfter(Last(lines))
         IN  Append(Front(lines), SubSeq(Last(lines), 1, IF n = 0 THEN 1 ELSE n))

\* What the parser makes of the lines of a value: blanks after the equal sign go.
Reread(lines) ==
    Unfold(TrimLast([lines EXCEPT ![1] = SubSeq(@, BlanksBefore(@) + 1, Len(@))]))

=============================================================================
