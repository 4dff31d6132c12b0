------------------------------- MODULE ListNav -------------------------------
(***************************************************************************)
(* The cursor of a list in the TUI (tui/mod.rs): every pane and sub-tab    *)
(* moves it and fits it to a list that has changed in the same way.  Rows  *)
(* count from 1; 0 is no selection.                                        *)
(***************************************************************************)
EXTENDS Integers

AtMost(a, b) == IF a <= b THEN a ELSE b
AtLeast(a, b) == IF a >= b THEN a ELSE b

\* Mutant: the old position is kept although the list has shrunk.
BugFixSelection(old, len) == IF len = 0 THEN 0 ELSE AtLeast(old, 1)

fix_selection(old, len) == IF len = 0 THEN 0 ELSE AtMost(AtLeast(old, 1), len)

\* move_selection and handle_nav: by one, by ten, to the first, to the last.
Moves(cur, n) == {AtLeast(cur - 1, 1), AtMost(cur + 1, n),
                  AtLeast(cur - 10, 1), AtMost(cur + 10, n), 1, n}

\* Where one navigation key may take a cursor at old in a list of n rows.
Reachable(old, n) == IF n = 0 THEN {0} ELSE Moves(fix_selection(old, n), n)
=============================================================================
