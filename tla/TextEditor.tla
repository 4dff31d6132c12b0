----------------------------- MODULE TextEditor -----------------------------
(***************************************************************************)
(* A text editor as its user thinks of it: the text before the cursor, the *)
(* text after it, and the column the cursor would like to be in when it    *)
(* goes up and down.                                                       *)
(***************************************************************************)
EXTENDS Integers, FiniteSets, SequencesExt

CONSTANTS Letters, NoCol

VARIABLES before, after, want

editorVars == <<before, after, want>>

EditorInit == before = <<>> /\ after = <<>> /\ want = NoCol

Place(b, a, w) == before' = b /\ after' = a /\ want' = w

Insert(ch) == Place(Append(before, ch), after, NoCol)

Backspace == before # <<>> /\ Place(Front(before), after, NoCol)

Left ==
    \/ before = <<>> /\ Place(before, after, NoCol)
    \/ before # <<>> /\ Place(Front(before), <<Last(before)>> \o after, NoCol)

Right ==
    \/ after = <<>> /\ Place(before, after, NoCol)
    \/ after # <<>> /\ Place(Append(before, Head(after)), Tail(after), NoCol)

Row(text) == Cardinality({i \in DOMAIN text : text[i] = "nl"})
Col(text) == Cardinality({i \in DOMAIN text : \A j \in i..Len(text) : text[j] # "nl"})

\* To the place in row r that is nearest to the wanted column.
JumpTo(r) ==
    LET text == before \o after
        col == IF want = NoCol THEN Col(before) ELSE want
        At(n) == SubSeq(text, 1, n)
        places == {n \in 0..Len(text) : Row(At(n)) = r /\ Col(At(n)) <= col}
        nearest == Max(places)
    IN  Place(At(nearest), SubSeq(text, nearest + 1, Len(text)), col)

Up == JumpTo(IF Row(before) = 0 THEN 0 ELSE Row(before) - 1)
Down == JumpTo(IF Row(before) = Row(before \o after) THEN Row(before) ELSE Row(before) + 1)

EditorNext ==
    \/ \E ch \in Letters : Insert(ch)
    \/ Backspace \/ Left \/ Right \/ Up \/ Down

EditorSpec == EditorInit /\ [][EditorNext]_editorVars
=============================================================================
