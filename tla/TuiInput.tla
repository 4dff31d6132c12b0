------------------------------ MODULE TuiInput ------------------------------
(***************************************************************************)
(* What the TUI makes of the bytes of a channel (input.rs): decode turns   *)
(* those of one message into keys, MultilineInput applies keys to a text   *)
(* with a cursor that is a byte offset.                                    *)
(*                                                                         *)
(* A byte is named by what decode tells apart.  "c3" and "a9" are the two  *)
(* bytes of an accented letter, "e'" as a character; "nl" is a newline.    *)
(***************************************************************************)
EXTENDS Integers, FiniteSets, SequencesExt

CONSTANTS
    MaxKeys,    \* bound: keys typed in one burst
    MaxText     \* bound: characters of a text

ASSUME InputAssumption == MaxKeys \in Nat /\ MaxText \in Nat

VARIABLES
    typed,    \* key presses that are on their way to the server
    input,    \* the editor's MultilineInput
    screen    \* the text that was drawn last, with a bar for its cursor

inputVars == <<typed, input, screen>>

Char(ch) == [key |-> "Char", ch |-> ch]
Key(k) == [key |-> k, ch |-> ""]

From(s, i) == SubSeq(s, i, Len(s))

-----------------------------------------------------------------------------
High == {"c3", "a9"}                       \* bytes of 0x80 and above
Final == {"[", "O", "A", "B", "Z", "~"}    \* 0x40..0x7e
Printable == Final \cup {"5"}              \* 0x20..0x7e

Single == [ctrl_c |-> Key("CtrlC"), ctrl_s |-> Key("CtrlS"), cr |-> Key("Enter"),
           lf |-> Key("Enter"), tab |-> Key("Tab"), del |-> Key("Backspace")]

Arrow == [A |-> Key("Up"), B |-> Key("Down")]   \* left and right are alike

\* What a sequence ESC [ params final stands for: at most one key.
CsiKey(params, final) ==
    CASE final \in DOMAIN Arrow -> <<Arrow[final]>>
      [] final = "Z" /\ params = <<>> -> <<Key("ShiftTab")>>
      [] final = "~" /\ params = <<"5">> -> <<Key("PageUp")>>
      [] OTHER -> <<>>

\* Mutant: the final byte of the sequence is left for the next key.
BugParseEscape(seq) ==
    LET ends == {j \in 3..Len(seq) : seq[j] \in Final}
        end == CHOOSE j \in ends : \A i \in ends : j <= i
    IN  IF ends = {} THEN [keys |-> <<>>, used |-> Len(seq)]
        ELSE [keys |-> CsiKey(SubSeq(seq, 3, end - 1), seq[end]), used |-> end - 1]

\* The key at the head of seq, which begins with ESC [ or ESC O, and how many
\* bytes it takes; a sequence that is cut off takes all there is.
parse_escape(seq) ==
    LET ends == IF seq[2] = "O" THEN {3} \cap DOMAIN seq
                ELSE {j \in 3..Len(seq) : seq[j] \in Final}
        end == CHOOSE j \in ends : \A i \in ends : j <= i
    IN  CASE ends = {} -> [keys |-> <<>>, used |-> Len(seq)]
          [] ends # {} /\ seq[2] = "O" ->
               [keys |-> IF seq[3] \in DOMAIN Arrow THEN <<Arrow[seq[3]]>> ELSE <<>>,
                used |-> 3]
          [] OTHER ->
               [keys |-> CsiKey(SubSeq(seq, 3, end - 1), seq[end]), used |-> end]

\* String::from_utf8_lossy, one character at a time.
LossyChar(seq) ==
    IF Len(seq) >= 2 /\ seq[1] = "c3" /\ seq[2] = "a9"
    THEN [keys |-> <<Char("e'")>>, used |-> 2]
    ELSE [keys |-> <<Char("replacement")>>, used |-> 1]

\* One turn of decode's loop.
DecodeOne(seq) ==
    CASE seq[1] = "esc" ->
           IF Len(seq) >= 2 /\ seq[2] \in {"[", "O"} THEN parse_escape(seq)
           ELSE [keys |-> <<Key("Esc")>>, used |-> 1]
      [] seq[1] \in High -> LossyChar(seq)
      [] seq[1] \in DOMAIN Single -> [keys |-> <<Single[seq[1]]>>, used |-> 1]
      [] seq[1] \in Printable -> [keys |-> <<Char(seq[1])>>, used |-> 1]
      [] OTHER -> [keys |-> <<>>, used |-> 1]

decode(bytes) ==
    LET keys[i \in 1..(Len(bytes) + 1)] ==
          IF i > Len(bytes) THEN <<>>
          ELSE LET d == DecodeOne(From(bytes, i)) IN d.keys \o keys[i + d.used]
    IN  keys[1]

-----------------------------------------------------------------------------
\* Key presses, as a terminal sends them and as they are meant.
Press(bytes, keys) == [bytes |-> bytes, keys |-> keys]

Presses ==
    {Press(<<b>>, <<Single[b]>>) : b \in {"ctrl_c", "ctrl_s", "cr"}}
    \cup {Press(<<b>>, <<Char(b)>>) : b \in {"A", "[", "O", "5"}}
    \cup {Press(<<"esc">>, <<Key("Esc")>>), Press(<<"nul">>, <<>>),
          Press(<<"c3", "a9">>, <<Char("e'")>>),
          Press(<<"esc", "[", "A">>, <<Key("Up")>>),
          Press(<<"esc", "O", "A">>, <<Key("Up")>>),
          Press(<<"esc", "[", "Z">>, <<Key("ShiftTab")>>),
          Press(<<"esc", "[", "5", "~">>, <<Key("PageUp")>>),
          Press(<<"esc", "[", "5", "Z">>, <<>>)}   \* a key the TUI does not know

BytesOf(presses) == FlattenSeq([i \in DOMAIN presses |-> presses[i].bytes])
KeysOf(presses) == FlattenSeq([i \in DOMAIN presses |-> presses[i].keys])

\* Another key; but no [ or O right after Esc, which read as one sequence.
Type(p) ==
    /\ Len(typed) < MaxKeys                          \* bound
    /\ ~(typed # <<>> /\ Last(typed).bytes = <<"esc">> /\ p.bytes \in {<<"[">>, <<"O">>})
    /\ typed' = Append(typed, p)
    /\ UNCHANGED <<input, screen>>

-----------------------------------------------------------------------------
Letters == {"a", "e'", "nl"}
NoCol == -1

len_utf8(ch) == IF ch = "e'" THEN 2 ELSE 1
Size(text) == Len(text) + Cardinality({i \in DOMAIN text : len_utf8(text[i]) = 2})

\* char_indices: the byte at which the i-th character begins, and the end.
IndexOf(text, i) == Size(SubSeq(text, 1, i - 1))
Boundaries(text) == {IndexOf(text, i) : i \in 1..(Len(text) + 1)}

\* The character at, or the end of the text if there is none, at a boundary.
CharAt(text, byte) == CHOOSE i \in 1..(Len(text) + 1) : IndexOf(text, i) = byte

Input(value, cursor, col) == [value |-> value, cursor |-> cursor, preferred_col |-> col]

normalize_cursor(in) ==
    [in EXCEPT !.cursor =
       CHOOSE b \in Boundaries(in.value) :
           b <= @ /\ \A c \in Boundaries(in.value) : c <= in.cursor => c <= b]

\* Mutant: the cursor moves by one byte, whatever was inserted.
BugInsert(in, ch) ==
    LET i == CharAt(in.value, in.cursor)
    IN  Input(InsertAt(in.value, i, ch), in.cursor + 1, NoCol)

insert(in, ch) ==
    LET i == CharAt(in.value, in.cursor)
    IN  Input(InsertAt(in.value, i, ch), in.cursor + len_utf8(ch), NoCol)

backspace(in) ==
    LET i == CharAt(in.value, in.cursor)
    IN  IF i = 1 THEN in
        ELSE Input(RemoveAt(in.value, i - 1), IndexOf(in.value, i - 1), NoCol)

move_left(in) ==
    LET i == CharAt(in.value, in.cursor)
    IN  Input(in.value, IF i = 1 THEN in.cursor ELSE IndexOf(in.value, i - 1), NoCol)

move_right(in) ==
    LET i == CharAt(in.value, in.cursor)
    IN  Input(in.value, IF i > Len(in.value) THEN in.cursor ELSE IndexOf(in.value, i + 1), NoCol)

\* The first character of each line, and one past its last; a line has as many
\* line ends before its own as there are lines before it.
line_spans(text) ==
    LET ends == {i \in DOMAIN text : text[i] = "nl"} \cup {Len(text) + 1}
        end(n) == CHOOSE e \in ends : Cardinality({i \in ends : i < e}) = n - 1
    IN  [n \in 1..Cardinality(ends) |->
           [start |-> IF n = 1 THEN 1 ELSE end(n - 1) + 1, end |-> end(n)]]

\* The row, from 1, and the column, from 0, of a cursor.
cursor_position(in) ==
    LET before == {i \in DOMAIN in.value : IndexOf(in.value, i) < in.cursor}
        breaks == {i \in before : in.value[i] = "nl"}
    IN  [row |-> Cardinality(breaks) + 1,
         col |-> Cardinality({i \in before : \A b \in breaks : i > b})]

byte_index_for_col(text, span, col) ==
    IndexOf(text, IF span.start + col < span.end THEN span.start + col ELSE span.end)

move_vertical(in, delta) ==
    LET spans == line_spans(in.value)
        at == cursor_position(in)
        row == CASE at.row + delta < 1 -> 1
                 [] at.row + delta > Len(spans) -> Len(spans)
                 [] OTHER -> at.row + delta
        preferred == IF in.preferred_col = NoCol THEN at.col ELSE in.preferred_col
    IN  Input(in.value, byte_index_for_col(in.value, spans[row], preferred), preferred)

EditKeys == {Char("a"), Char("e'")}
            \cup {Key(k) : k \in {"Enter", "Backspace", "Left", "Right", "Up", "Down", "Tab"}}

\* MultilineInput::handle.
handle(in, k) ==
    LET at == normalize_cursor(in)
    IN  CASE k.key = "Char" -> insert(at, k.ch)
          [] k.key = "Enter" -> insert(at, "nl")
          [] k.key = "Backspace" -> backspace(at)
          [] k.key = "Left" -> move_left(at)
          [] k.key = "Right" -> move_right(at)
          [] k.key = "Up" -> move_vertical(at, -1)
          [] k.key = "Down" -> move_vertical(at, 1)
          [] OTHER -> in

\* Each line, with a bar in the one the cursor is in.
display_lines(in) ==
    LET spans == line_spans(in.value)
        at == cursor_position(in)
        line(n) == SubSeq(in.value, spans[n].start, spans[n].end - 1)
    IN  [n \in DOMAIN spans |-> IF n = at.row THEN InsertAt(line(n), at.col + 1, "|") ELSE line(n)]

-----------------------------------------------------------------------------
Empty == Input(<<>>, 0, NoCol)

Drawn(in) ==
    LET lines == display_lines(in)
    IN  FlattenSeq([n \in DOMAIN lines |-> IF n = 1 THEN lines[n] ELSE <<"nl">> \o lines[n]])

\* The editor takes a key and is drawn anew.
Edit(k) ==
    /\ k.key \in {"Char", "Enter"} => Len(input.value) < MaxText    \* bound
    /\ input' = handle(input, k)
    /\ screen' = Drawn(input')
    /\ UNCHANGED typed

InputInit == typed = <<>> /\ input = Empty /\ screen = Drawn(Empty)

\* Typing is looked at while the text is empty, editing while nothing is on its
\* way: decode keeps nothing from one message to the next.
InputNext ==
    \/ input = Empty /\ \E p \in Presses : Type(p)
    \/ typed = <<>> /\ \E k \in EditKeys : Edit(k)

InputSpec == InputInit /\ [][InputNext]_inputVars

-----------------------------------------------------------------------------
\* A burst of keys that the network cuts in two, at any byte, is read as it was
\* typed but for the one key the cut goes through; of that key nothing is left
\* that commands anything, only Esc and characters (input.rs:26-130).
CutSpoilsOneKey ==
    LET bytes == BytesOf(typed) IN
    \A cut \in 0..Len(bytes) :
        LET read == decode(SubSeq(bytes, 1, cut)) \o decode(From(bytes, cut + 1))
        IN  \/ read = KeysOf(typed)
            \/ \E i \in DOMAIN typed :
                 LET before == KeysOf(SubSeq(typed, 1, i - 1))
                     after == KeysOf(From(typed, i + 1))
                     spoilt == SubSeq(read, Len(before) + 1, Len(read) - Len(after))
                 IN  /\ read = before \o spoilt \o after
                     /\ Len(typed[i].bytes) > 1
                     /\ \A k \in DOMAIN spoilt : spoilt[k].key \in {"Char", "Esc"}

\* Byte offsets and all, what is on the screen behaves as the text and the
\* cursor of an editor do, on every key (input.rs:162-297).
Bar == CHOOSE i \in DOMAIN screen : screen[i] = "|"
Page == INSTANCE TextEditor WITH
    before <- SubSeq(screen, 1, Bar - 1), after <- From(screen, Bar + 1),
    want <- input.preferred_col
EditsLikeAnEditor == Page!EditorSpec
=============================================================================
