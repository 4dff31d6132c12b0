----------------------------- MODULE InputProofs ------------------------------
(***************************************************************************)
(* For bursts of any length, cut at any byte: what is read is what was     *)
(* typed, but for the one key the cut goes through.  And for texts of any  *)
(* length: the editor on the screen, which counts bytes, implements        *)
(* TextEditor, which knows characters only.                                *)
(*                                                                         *)
(* decode is a recursive function of the bytes that are left.  Induction   *)
(* is stated about sets of numbers and of sequences, so that the lemmas    *)
(* that unfold decode and FlattenSeq need no operator as a parameter.      *)
(*                                                                         *)
(* The editor needs no induction but for what is drawn: its byte offsets,  *)
(* lines and columns are the cardinalities of sets of characters, and what *)
(* matters about these is how they grow from one character to the next.    *)
(***************************************************************************)
EXTENDS TuiInput, SequenceTheorems, FiniteSetTheorems, WellFoundedInduction, TLAPS

-----------------------------------------------------------------------------
\* Induction over the natural numbers, about a set.
LEMMA Least ==
  ASSUME NEW T, T \subseteq Nat, T # {}
  PROVE  \E x \in T : \A y \in T : ~(y < x)
<1> DEFINE R == OpToRel(<, Nat)
<1>1. IsWellFoundedOn(R, Nat)
  BY NatLessThanWellFounded
<1> HIDE DEF R
<1>2. \E x \in T : \A y \in T : <<y, x>> \notin R
  BY <1>1, WFMin
<1> QED
  BY <1>2 DEF R, OpToRel

\* What holds of zero and of the successor of whatever it holds of.
LEMMA Induction ==
  ASSUME NEW P, 0 \in P, \A n \in Nat : n \in P => n + 1 \in P
  PROVE  Nat \subseteq P
<1> SUFFICES ASSUME Nat \ P # {} PROVE FALSE
  OBVIOUS
<1>1. PICK x \in Nat \ P : \A y \in Nat \ P : ~(y < x)
  BY Least
<1>2. x - 1 \in Nat
  OBVIOUS
<1> QED
  BY <1>1, <1>2

\* Putting sequences behind one another: what the recursion of FlattenSeq computes.
Joins(f, seqs) ==
    f = [i \in 1..Len(seqs) |-> IF i = 1 THEN seqs[i] ELSE f[i - 1] \o seqs[i]]

\* The functions of prefixes that FlattenSeq chooses from: there is one.
LEMMA JoinExists ==
  ASSUME NEW S, NEW seqs \in Seq(Seq(S))
  PROVE  \E f : Joins(f, seqs)
<1> DEFINE Upto(f, n) == \A i \in 1..n : f[i] = IF i = 1 THEN seqs[i] ELSE f[i - 1] \o seqs[i]
           P == {n \in Nat : n <= Len(seqs) => \E f : f = [i \in 1..n |-> f[i]] /\ Upto(f, n)}
<1>1. 0 \in P
  <2>1. \E f : f = [i \in 1..0 |-> f[i]] /\ Upto(f, 0)
    <3> WITNESS [i \in 1..0 |-> seqs[i]]
    <3> QED
      OBVIOUS
  <2> QED
    BY <2>1
<1>2. ASSUME NEW n \in Nat, n \in P PROVE n + 1 \in P
  <2> SUFFICES ASSUME n + 1 <= Len(seqs)
               PROVE  \E f : f = [i \in 1..(n + 1) |-> f[i]] /\ Upto(f, n + 1)
    OBVIOUS
  <2>1. PICK f : f = [i \in 1..n |-> f[i]] /\ Upto(f, n)
    BY <1>2
  <2> DEFINE g == [i \in 1..(n + 1) |->
                     IF i <= n THEN f[i] ELSE IF i = 1 THEN seqs[i] ELSE f[i - 1] \o seqs[i]]
  <2>2. g = [i \in 1..(n + 1) |-> g[i]]
    OBVIOUS
  <2>3. ASSUME NEW i \in 1..(n + 1) PROVE g[i] = IF i = 1 THEN seqs[i] ELSE g[i - 1] \o seqs[i]
    <3>1. CASE i <= n
      <4>1. i \in 1..n /\ g[i] = f[i] /\ (i # 1 => g[i - 1] = f[i - 1])
        BY <3>1
      <4> HIDE DEF g
      <4> QED
        BY <2>1, <4>1
    <3>2. CASE i = n + 1
      <4>1. i # 1 => g[i - 1] = f[i - 1]
        BY <3>2
      <4>2. g[i] = IF i = 1 THEN seqs[i] ELSE f[i - 1] \o seqs[i]
        BY <3>2
      <4> HIDE DEF g
      <4> QED
        BY <4>1, <4>2
    <3> QED
      BY <3>1, <3>2
  <2> QED
    BY <2>2, <2>3
<1>3. Len(seqs) \in P
  <2> HIDE DEF P
  <2> QED
    BY <1>1, <1>2, Induction, LenProperties
<1>4. PICK f : f = [i \in 1..Len(seqs) |-> f[i]] /\ Upto(f, Len(seqs))
  BY <1>3
<1>5. Joins(f, seqs)
  BY <1>4 DEF Joins
<1> QED
  BY <1>5

\* FlattenSeq is the last value of such a function.
LEMMA FlattenDef ==
  ASSUME NEW S, NEW seqs \in Seq(Seq(S)), seqs # <<>>
  PROVE  \E f : Joins(f, seqs) /\ FlattenSeq(seqs) = f[Len(seqs)]
<1>1. FlattenSeq(seqs) = (CHOOSE f : Joins(f, seqs))[Len(seqs)]
  BY EmptySeq, Zenon DEF FlattenSeq, Joins
<1> QED
  BY <1>1, JoinExists

\* Its values are sequences of what is joined.
LEMMA JoinTyped ==
  ASSUME NEW S, NEW seqs \in Seq(Seq(S)), NEW f, Joins(f, seqs)
  PROVE  \A i \in 1..Len(seqs) : f[i] \in Seq(S)
<1> DEFINE P == {n \in Nat : \A i \in 1..Len(seqs) : i <= n => f[i] \in Seq(S)}
<1>1. 0 \in P
  OBVIOUS
<1>2. ASSUME NEW n \in Nat, n \in P PROVE n + 1 \in P
  <2> SUFFICES ASSUME NEW i \in 1..Len(seqs), i = n + 1 PROVE f[i] \in Seq(S)
    BY <1>2
  <2>1. f[i] = IF i = 1 THEN seqs[i] ELSE f[i - 1] \o seqs[i]
    BY DEF Joins
  <2>2. seqs[i] \in Seq(S)
    BY ElementOfSeq
  <2>3. i # 1 => f[i - 1] \in Seq(S)
    BY <1>2, LenProperties
  <2> QED
    BY <2>1, <2>2, <2>3, ConcatProperties
<1>3. Len(seqs) \in P
  <2> HIDE DEF P
  <2> QED
    BY <1>1, <1>2, Induction, LenProperties
<1> QED
  BY <1>3

\* A longer sequence has the same prefixes.
LEMMA JoinSame ==
  ASSUME NEW S, NEW seqs \in Seq(Seq(S)), NEW s \in Seq(S), NEW f, NEW g,
         Joins(f, seqs), Joins(g, Append(seqs, s))
  PROVE  \A i \in 1..Len(seqs) : g[i] = f[i]
<1> DEFINE T == {i \in 1..Len(seqs) : g[i] # f[i]}
           more == Append(seqs, s)
<1> SUFFICES ASSUME T # {} PROVE FALSE
  OBVIOUS
<1>1. Len(seqs) \in Nat /\ Len(more) = Len(seqs) + 1 /\ \A i \in 1..Len(seqs) : more[i] = seqs[i]
  BY LenProperties, AppendProperties
<1>2. T \subseteq Nat
  BY <1>1
<1>3. PICK i \in T : \A j \in T : ~(j < i)
  BY <1>2, Least
<1>4. i \in 1..Len(seqs) /\ i \in 1..Len(more) /\ more[i] = seqs[i]
  BY <1>1
<1>5. f[i] = IF i = 1 THEN seqs[i] ELSE f[i - 1] \o seqs[i]
  BY <1>4 DEF Joins
<1>6. g[i] = IF i = 1 THEN more[i] ELSE g[i - 1] \o more[i]
  BY <1>4 DEF Joins
<1>7. i # 1 => g[i - 1] = f[i - 1]
  <2>1. i # 1 => i - 1 \in 1..Len(seqs) /\ i - 1 < i
    BY <1>1, <1>4
  <2> QED
    BY <1>3, <2>1
<1> QED
  BY <1>4, <1>5, <1>6, <1>7

\* The two facts about FlattenSeq on which all else rests.
LEMMA FlattenAppend ==
  ASSUME NEW S, NEW seqs \in Seq(Seq(S)), NEW s \in Seq(S)
  PROVE  /\ FlattenSeq(seqs) \in Seq(S)
         /\ FlattenSeq(Append(seqs, s)) = FlattenSeq(seqs) \o s
<1> DEFINE more == Append(seqs, s)
<1>1. /\ more \in Seq(Seq(S)) /\ more # <<>> /\ Len(more) = Len(seqs) + 1 /\ Len(seqs) \in Nat
      /\ \A i \in 1..Len(seqs) : more[i] = seqs[i]
      /\ more[Len(more)] = s
  BY AppendProperties, LenProperties
<1> HIDE DEF more
<1>2. PICK g : Joins(g, more) /\ FlattenSeq(more) = g[Len(more)]
  BY <1>1, FlattenDef
<1>3. g[Len(more)] = IF Len(more) = 1 THEN s ELSE g[Len(more) - 1] \o s
  <2>1. Len(more) \in 1..Len(more)
    BY <1>1
  <2>2. g[Len(more)] = IF Len(more) = 1 THEN more[Len(more)] ELSE g[Len(more) - 1] \o more[Len(more)]
    BY <1>2, <2>1 DEF Joins
  <2> QED
    BY <1>1, <2>2
<1>4. CASE seqs = <<>>
  <2>1. FlattenSeq(seqs) = <<>> /\ Len(more) = 1
    BY <1>1, <1>4, EmptySeq DEF FlattenSeq
  <2> QED
    BY <1>2, <1>3, <2>1, ConcatEmptySeq, EmptySeq DEF more
<1>5. CASE seqs # <<>>
  <2>1. PICK f : Joins(f, seqs) /\ FlattenSeq(seqs) = f[Len(seqs)]
    BY <1>5, FlattenDef
  <2>2. Len(seqs) \in 1..Len(seqs)
    BY <1>5, EmptySeq
  <2>3. g[Len(seqs)] = f[Len(seqs)]
    BY <1>2, <2>1, <2>2, JoinSame DEF more
  <2>4. f[Len(seqs)] \in Seq(S)
    BY <2>1, <2>2, JoinTyped
  <2>5. FlattenSeq(more) = f[Len(seqs)] \o s
    <3>1. Len(more) # 1 /\ Len(more) - 1 = Len(seqs)
      BY <1>1, <2>2
    <3> QED
      BY <1>2, <1>3, <2>3, <3>1
  <2> QED
    BY <2>1, <2>4, <2>5 DEF more
<1> QED
  BY <1>4, <1>5

-----------------------------------------------------------------------------
\* Induction over sequences, about a set.
LEMMA SeqInduction ==
  ASSUME NEW S, NEW P, <<>> \in P,
         \A s \in Seq(S), e \in S : s \in P => Append(s, e) \in P
  PROVE  Seq(S) \subseteq P
<1> DEFINE N == {n \in Nat : \A s \in Seq(S) : Len(s) = n => s \in P}
<1>1. 0 \in N
  <2> SUFFICES ASSUME NEW s \in Seq(S), Len(s) = 0 PROVE s \in P
    OBVIOUS
  <2> QED
    BY EmptySeq
<1>2. ASSUME NEW n \in Nat, n \in N PROVE n + 1 \in N
  <2> SUFFICES ASSUME NEW s \in Seq(S), Len(s) = n + 1 PROVE s \in P
    OBVIOUS
  <2>1. PICK t \in Seq(S), e \in S : s = Append(t, e)
    BY EmptySeq, SequenceEmptyOrAppend
  <2>2. Len(t) = n
    BY <2>1, AppendProperties, LenProperties
  <2> QED
    BY <1>2, <2>1, <2>2
<1>3. Nat \subseteq N
  <2> HIDE DEF N
  <2> QED
    BY <1>1, <1>2, Induction
<1> QED
  BY <1>3, LenProperties

\* What is left from a position on.
LEMMA FromProperties ==
  ASSUME NEW S, NEW b \in Seq(S), NEW i \in 1..(Len(b) + 1)
  PROVE  /\ From(b, i) \in Seq(S)
         /\ Len(From(b, i)) = Len(b) - i + 1
         /\ \A j \in 1..(Len(b) - i + 1) : From(b, i)[j] = b[i + j - 1]
<1>1. Len(b) \in Nat /\ \A k \in i..Len(b) : b[k] \in S
  BY LenProperties, ElementOfSeq
<1>2. /\ SubSeq(b, i, Len(b)) \in Seq(S)
      /\ Len(SubSeq(b, i, Len(b))) = IF i <= Len(b) THEN Len(b) - i + 1 ELSE 0
      /\ \A j \in 1..(Len(b) - i + 1) : SubSeq(b, i, Len(b))[j] = b[i + j - 1]
  BY <1>1, SubSeqProperties
<1> QED
  BY <1>1, <1>2 DEF From

\* What is left of what is left.
LEMMA FromFrom ==
  ASSUME NEW S, NEW b \in Seq(S), NEW u \in 0..Len(b), NEW i \in 1..(Len(b) - u + 1)
  PROVE  From(From(b, u + 1), i) = From(b, u + i)
<1> DEFINE c == From(b, u + 1)
<1>1. Len(b) \in Nat
  BY LenProperties
<1>2. /\ c \in Seq(S) /\ Len(c) = Len(b) - u
      /\ \A j \in 1..(Len(b) - u) : c[j] = b[u + j]
  <2>1. u + 1 \in 1..(Len(b) + 1)
    BY <1>1
  <2>2. \A j \in 1..(Len(b) - (u + 1) + 1) : c[j] = b[(u + 1) + j - 1]
    BY <2>1, FromProperties
  <2> QED
    BY <1>1, <2>1, <2>2, FromProperties
<1> HIDE DEF c
<1>3. /\ From(c, i) \in Seq(S) /\ Len(From(c, i)) = Len(b) - u - i + 1
      /\ \A j \in 1..(Len(b) - u - i + 1) : From(c, i)[j] = b[u + i + j - 1]
  <2>1. i \in 1..(Len(c) + 1)
    BY <1>2
  <2>2. \A j \in 1..(Len(c) - i + 1) : From(c, i)[j] = c[i + j - 1]
    BY <1>2, <2>1, FromProperties
  <2>3. \A j \in 1..(Len(b) - u - i + 1) : i + j - 1 \in 1..(Len(b) - u)
    BY <1>1
  <2>4. From(c, i) \in Seq(S) /\ Len(From(c, i)) = Len(c) - i + 1
    BY <1>2, <2>1, FromProperties
  <2>5. ASSUME NEW j \in 1..(Len(b) - u - i + 1)
        PROVE  From(c, i)[j] = b[u + i + j - 1]
    <3>1. j \in 1..(Len(c) - i + 1) /\ u + (i + j - 1) = u + i + j - 1
      BY <1>1, <1>2
    <3>2. From(c, i)[j] = c[i + j - 1]
      BY <2>2, <3>1
    <3> QED
      BY <1>2, <2>3, <3>1, <3>2
  <2> QED
    BY <1>1, <1>2, <2>4, <2>5
<1>4. /\ From(b, u + i) \in Seq(S) /\ Len(From(b, u + i)) = Len(b) - u - i + 1
      /\ \A j \in 1..(Len(b) - u - i + 1) : From(b, u + i)[j] = b[u + i + j - 1]
  <2>1. u + i \in 1..(Len(b) + 1)
    BY <1>1
  <2>2. \A j \in 1..(Len(b) - (u + i) + 1) : From(b, u + i)[j] = b[(u + i) + j - 1]
    BY <2>1, FromProperties
  <2> QED
    BY <1>1, <2>1, <2>2, FromProperties
<1> QED
  BY <1>1, <1>3, <1>4, SeqEqual DEF c

-----------------------------------------------------------------------------
\* The bytes of the model, and the keys decode makes of them.
Byte == High \cup Printable \cup {"esc", "nul"} \cup DOMAIN Single
KeyName == {"Char", "Enter", "Esc", "Tab", "ShiftTab", "Backspace", "Up", "Down", "PageUp",
            "CtrlC", "CtrlS"}
Keys == [key : KeyName, ch : Printable \cup {"", "e'", "replacement"}]

\* A sequence of one.
LEMMA SeqOne == \A S : \A x \in S : <<x>> \in Seq(S)
OBVIOUS

\* Every key of the tables is a key.
LEMMA KeysType ==
  /\ \A k \in KeyName : Key(k) \in Keys
  /\ \A c \in Printable \cup {"e'", "replacement"} : Char(c) \in Keys
  /\ \A b \in DOMAIN Single : Single[b] \in Keys
  /\ \A b \in DOMAIN Arrow : Arrow[b] \in Keys
<1>1. \A k \in KeyName : Key(k) \in Keys
  BY DEF Key, Keys
<1>2. \A c \in Printable \cup {"e'", "replacement"} : Char(c) \in Keys
  BY DEF Char, Keys, KeyName
<1>3. \A b \in DOMAIN Single : Single[b] \in {Key(k) : k \in KeyName}
  BY DEF Single, KeyName
<1>4. \A b \in DOMAIN Arrow : Arrow[b] \in {Key(k) : k \in KeyName}
  BY DEF Arrow, KeyName
<1> QED
  BY <1>1, <1>2, <1>3, <1>4

\* An escape sequence stands for keys, known or not.
LEMMA CsiKeyType ==
  ASSUME NEW params, NEW final
  PROVE  CsiKey(params, final) \in Seq(Keys)
<1>1. CsiKey(params, final) \in {<<>>, <<Arrow[final]>>, <<Key("ShiftTab")>>, <<Key("PageUp")>>}
      /\ (CsiKey(params, final) = <<Arrow[final]>> => final \in DOMAIN Arrow \/ CsiKey(params, final) \in {<<>>, <<Key("ShiftTab")>>, <<Key("PageUp")>>})
  BY DEF CsiKey
<1> QED
  BY <1>1, KeysType, SeqOne, EmptySeq DEF KeyName

\* One turn of decode takes at least a byte and no more than there are.
LEMMA DecodeOneType ==
  ASSUME NEW seq \in Seq(Byte), seq # <<>>
  PROVE  /\ DecodeOne(seq).used \in 1..Len(seq)
         /\ DecodeOne(seq).keys \in Seq(Keys)
<1>1. Len(seq) \in Nat \ {0} /\ DOMAIN seq = 1..Len(seq)
  BY EmptySeq, LenProperties
<1>2. seq[1] \in Byte
  BY <1>1, ElementOfSeq
<1>3. Len(seq) >= 2 => parse_escape(seq).used \in 1..Len(seq) /\ parse_escape(seq).keys \in Seq(Keys)
  <2> SUFFICES ASSUME Len(seq) >= 2
               PROVE  parse_escape(seq).used \in 1..Len(seq) /\ parse_escape(seq).keys \in Seq(Keys)
    OBVIOUS
  <2> DEFINE ends == IF seq[2] = "O" THEN {3} \cap DOMAIN seq
                     ELSE {j \in 3..Len(seq) : seq[j] \in Final}
             end == CHOOSE j \in ends : \A i \in ends : j <= i
  <2>1. parse_escape(seq) =
          CASE ends = {} -> [keys |-> <<>>, used |-> Len(seq)]
            [] ends # {} /\ seq[2] = "O" ->
                 [keys |-> IF seq[3] \in DOMAIN Arrow THEN <<Arrow[seq[3]]>> ELSE <<>>,
                  used |-> 3]
            [] OTHER ->
                 [keys |-> CsiKey(SubSeq(seq, 3, end - 1), seq[end]), used |-> end]
    BY DEF parse_escape
  <2>2. ends \subseteq 3..Len(seq)
    BY <1>1
  <2>3. ends # {} => end \in ends
    <3>1. ends \subseteq Nat
      BY <1>1, <2>2
    <3> HIDE DEF ends
    <3>2. ends # {} => \E j \in ends : \A i \in ends : j <= i
      <4> SUFFICES ASSUME ends # {} PROVE \E j \in ends : \A i \in ends : j <= i
        OBVIOUS
      <4>1. PICK j \in ends : \A i \in ends : ~(i < j)
        BY <3>1, Least
      <4>2. \A i \in ends : j <= i
        BY <3>1, <4>1
      <4> QED
        BY <4>2
    <3> QED
      BY <3>2
  <2> HIDE DEF end
  <2>4. CASE ends = {}
    BY <1>1, <2>1, <2>4
  <2>5. CASE ends # {} /\ seq[2] = "O"
    <3> HIDE DEF ends
    <3>1. parse_escape(seq) = [keys |-> IF seq[3] \in DOMAIN Arrow THEN <<Arrow[seq[3]]>> ELSE <<>>,
                               used |-> 3]
      BY <2>1, <2>5
    <3>2. end \in 3..Len(seq)
      BY <2>2, <2>3, <2>5
    <3>3. 3 \in 1..Len(seq)
      BY <1>1, <3>2
    <3> QED
      BY <3>1, <3>3, KeysType, SeqOne, EmptySeq
  <2>6. CASE ends # {} /\ seq[2] # "O"
    <3> HIDE DEF ends
    <3>1. parse_escape(seq) = [keys |-> CsiKey(SubSeq(seq, 3, end - 1), seq[end]), used |-> end]
      BY <2>1, <2>6
    <3>2. end \in 3..Len(seq)
      BY <2>2, <2>3, <2>6
    <3>3. end \in 1..Len(seq)
      BY <1>1, <3>2
    <3> QED
      BY <3>1, <3>3, CsiKeyType
  <2> QED
    BY <2>4, <2>5, <2>6
<1> HIDE DEF parse_escape
<1>4. CASE seq[1] = "esc"
  <2>1. DecodeOne(seq) = IF Len(seq) >= 2 /\ seq[2] \in {"[", "O"} THEN parse_escape(seq)
                         ELSE [keys |-> <<Key("Esc")>>, used |-> 1]
    BY <1>4 DEF DecodeOne, High, Printable, Final, Single
  <2> QED
    BY <1>1, <1>3, <2>1, KeysType, SeqOne DEF KeyName
<1>5. CASE seq[1] # "esc" /\ seq[1] \in High
  <2>1. DecodeOne(seq) = LossyChar(seq)
    BY <1>5 DEF DecodeOne, High, Printable, Final, Single
  <2> QED
    BY <1>1, <2>1, KeysType, SeqOne DEF LossyChar
<1>6. CASE seq[1] # "esc" /\ seq[1] \notin High /\ seq[1] \in DOMAIN Single
  <2>1. DecodeOne(seq) = [keys |-> <<Single[seq[1]]>>, used |-> 1]
    BY <1>6 DEF DecodeOne, High, Printable, Final, Single
  <2>2. Single[seq[1]] \in Keys
    BY <1>6, KeysType
  <2> QED
    BY <1>1, <2>1, <2>2, SeqOne
<1>7. CASE seq[1] # "esc" /\ seq[1] \notin High /\ seq[1] \notin DOMAIN Single
  <2>1. DecodeOne(seq) = IF seq[1] \in Printable THEN [keys |-> <<Char(seq[1])>>, used |-> 1]
                         ELSE [keys |-> <<>>, used |-> 1]
    BY <1>7 DEF DecodeOne, High, Printable, Final, Single
  <2> QED
    BY <1>1, <1>2, <2>1, KeysType, SeqOne, EmptySeq
<1> QED
  BY <1>4, <1>5, <1>6, <1>7

-----------------------------------------------------------------------------
\* What the recursion of decode computes: at each byte, the keys read from there on.
Turn(f, b, i) ==
    IF i > Len(b) THEN <<>>
    ELSE LET d == DecodeOne(From(b, i)) IN d.keys \o f[i + d.used]

Reads(f, b) == f = [i \in 1..(Len(b) + 1) |-> Turn(f, b, i)]

\* A turn looks only at what is read from a later byte.
LEMMA TurnGoesOn ==
  ASSUME NEW b \in Seq(Byte), NEW i \in 1..Len(b)
  PROVE  /\ i + DecodeOne(From(b, i)).used \in (i + 1)..(Len(b) + 1)
         /\ DecodeOne(From(b, i)).used \in Nat
         /\ DecodeOne(From(b, i)).keys \in Seq(Keys)
<1>1. Len(b) \in Nat /\ i \in 1..(Len(b) + 1)
  BY LenProperties
<1>2. From(b, i) \in Seq(Byte) /\ Len(From(b, i)) = Len(b) - i + 1
  BY <1>1, FromProperties
<1>3. From(b, i) # <<>>
  BY <1>1, <1>2, EmptySeq
<1>4. DecodeOne(From(b, i)).used \in 1..(Len(b) - i + 1) /\ DecodeOne(From(b, i)).keys \in Seq(Keys)
  BY <1>2, <1>3, DecodeOneType
<1> QED
  BY <1>1, <1>4

\* There is a function that reads what is left from every byte on.
LEMMA ReadsExists ==
  ASSUME NEW b \in Seq(Byte)
  PROVE  \E f : Reads(f, b)
<1> DEFINE Rest(n) == (Len(b) + 2 - n)..(Len(b) + 1)
           N == {n \in Nat : n <= Len(b) + 1 =>
                   \E f : f = [i \in Rest(n) |-> f[i]] /\ \A i \in Rest(n) : f[i] = Turn(f, b, i)}
<1>1. Len(b) \in Nat
  BY LenProperties
<1>2. 0 \in N
  <2>1. \E f : f = [i \in Rest(0) |-> f[i]] /\ \A i \in Rest(0) : f[i] = Turn(f, b, i)
    <3> WITNESS [i \in Rest(0) |-> <<>>]
    <3> QED
      BY <1>1
  <2> QED
    BY <2>1
<1>3. ASSUME NEW n \in Nat, n \in N PROVE n + 1 \in N
  <2> SUFFICES ASSUME n + 1 <= Len(b) + 1
               PROVE  \E f : f = [i \in Rest(n + 1) |-> f[i]]
                             /\ \A i \in Rest(n + 1) : f[i] = Turn(f, b, i)
    OBVIOUS
  <2>1. PICK f : f = [i \in Rest(n) |-> f[i]] /\ \A i \in Rest(n) : f[i] = Turn(f, b, i)
    BY <1>1, <1>3
  <2> DEFINE here == Len(b) + 1 - n
             g == [i \in Rest(n + 1) |-> IF i = here THEN Turn(f, b, here) ELSE f[i]]
  <2>2. here \in 1..(Len(b) + 1) /\ here \notin Rest(n) /\ Rest(n + 1) = {here} \cup Rest(n)
    BY <1>1
  <2>3. ASSUME NEW i \in Rest(n + 1) PROVE g[i] = Turn(f, b, i)
    BY <2>1, <2>2, <2>3
  <2>4. ASSUME NEW i \in Rest(n + 1) PROVE Turn(f, b, i) = Turn(g, b, i)
    <3>1. CASE i > Len(b)
      BY <3>1 DEF Turn
    <3>2. CASE ~(i > Len(b))
      <4>1. i \in 1..Len(b)
        BY <1>1, <3>2
      <4> DEFINE next == i + DecodeOne(From(b, i)).used
      <4>2. next \in (i + 1)..(Len(b) + 1)
        BY <4>1, TurnGoesOn
      <4>3. next \in Rest(n) /\ next # here /\ next \in Rest(n + 1)
        BY <1>1, <4>1, <4>2
      <4>4. g[next] = f[next]
        BY <4>3
      <4> QED
        BY <3>2, <4>4 DEF Turn
    <3> QED
      BY <3>1, <3>2
  <2>5. g = [i \in Rest(n + 1) |-> g[i]]
    OBVIOUS
  <2> HIDE DEF g
  <2> QED
    BY <2>3, <2>4, <2>5
<1>4. Len(b) + 1 \in N
  <2> HIDE DEF N
  <2> QED
    BY <1>1, <1>2, <1>3, Induction
<1>5. Rest(Len(b) + 1) = 1..(Len(b) + 1)
  BY <1>1
<1>6. PICK f : /\ f = [i \in 1..(Len(b) + 1) |-> f[i]]
               /\ \A i \in 1..(Len(b) + 1) : f[i] = Turn(f, b, i)
  BY <1>1, <1>4, <1>5
<1> QED
  BY <1>6 DEF Reads

\* decode is its first value.
LEMMA DecodeDef ==
  ASSUME NEW b \in Seq(Byte)
  PROVE  \E f : Reads(f, b) /\ decode(b) = f[1]
<1>1. decode(b) = (CHOOSE f : Reads(f, b))[1]
  BY Zenon DEF decode, Reads, Turn
<1> QED
  BY <1>1, ReadsExists

\* It reads keys.
LEMMA ReadsTyped ==
  ASSUME NEW b \in Seq(Byte), NEW f, Reads(f, b)
  PROVE  \A i \in 1..(Len(b) + 1) : f[i] \in Seq(Keys)
<1>1. Len(b) \in Nat
  BY LenProperties
<1> DEFINE T == {m \in Nat : m <= Len(b) /\ f[Len(b) + 1 - m] \notin Seq(Keys)}
<1>2. T = {}
  <2> SUFFICES ASSUME T # {} PROVE FALSE
    OBVIOUS
  <2>1. PICK m \in T : \A n \in T : ~(n < m)
    BY Least
  <2> DEFINE i == Len(b) + 1 - m
  <2>2. i \in 1..(Len(b) + 1) /\ f[i] \notin Seq(Keys)
    BY <1>1
  <2>3. f[i] = Turn(f, b, i)
    BY <2>2 DEF Reads
  <2>4. i \in 1..Len(b)
    BY <1>1, <2>2, <2>3, EmptySeq DEF Turn
  <2> DEFINE next == i + DecodeOne(From(b, i)).used
  <2>5. next \in (i + 1)..(Len(b) + 1) /\ DecodeOne(From(b, i)).keys \in Seq(Keys)
    BY <2>4, TurnGoesOn
  <2>6. f[next] \in Seq(Keys)
    <3>1. Len(b) + 1 - next \in Nat /\ Len(b) + 1 - next < m /\ Len(b) + 1 - next <= Len(b)
          /\ Len(b) + 1 - (Len(b) + 1 - next) = next
      BY <1>1, <2>4, <2>5
    <3> HIDE DEF next
    <3> QED
      BY <2>1, <3>1
  <2>7. f[i] = DecodeOne(From(b, i)).keys \o f[next]
    <3>1. ~(i > Len(b))
      BY <1>1, <2>4
    <3> HIDE DEF i
    <3> QED
      BY <2>3, <3>1 DEF Turn
  <2> HIDE DEF next, i
  <2> QED
    BY <2>2, <2>5, <2>6, <2>7, ConcatProperties
<1> SUFFICES ASSUME NEW i \in 1..(Len(b) + 1) PROVE f[i] \in Seq(Keys)
  OBVIOUS
<1>3. Len(b) + 1 - i \in Nat /\ Len(b) + 1 - i <= Len(b) /\ Len(b) + 1 - (Len(b) + 1 - i) = i
  BY <1>1
<1> QED
  BY <1>2, <1>3

\* What is read from a byte on does not depend on what came before it.
LEMMA ReadsFrom ==
  ASSUME NEW b \in Seq(Byte), NEW f, Reads(f, b),
         NEW u \in 0..Len(b), NEW g, Reads(g, From(b, u + 1))
  PROVE  \A i \in 1..(Len(b) - u + 1) : g[i] = f[u + i]
<1> DEFINE c == From(b, u + 1)
           T == {m \in Nat : m <= Len(b) - u /\ g[Len(b) - u + 1 - m] # f[Len(b) + 1 - m]}
<1>1. Len(b) \in Nat
  BY LenProperties
<1>2. c \in Seq(Byte) /\ Len(c) = Len(b) - u
  <2>1. u + 1 \in 1..(Len(b) + 1)
    BY <1>1
  <2> QED
    BY <1>1, <2>1, FromProperties
<1>3. T = {}
  <2> SUFFICES ASSUME T # {} PROVE FALSE
    OBVIOUS
  <2>1. PICK m \in T : \A n \in T : ~(n < m)
    BY Least
  <2> DEFINE i == Len(b) - u + 1 - m
  <2>2. i \in 1..(Len(c) + 1) /\ u + i \in 1..(Len(b) + 1) /\ u + i = Len(b) + 1 - m
    BY <1>1, <1>2, SMTT(30)
  <2>3. g[i] # f[u + i]
    BY <2>1, <2>2
  <2> HIDE DEF c
  <2>4. g[i] = Turn(g, c, i) /\ f[u + i] = Turn(f, b, u + i)
    <3> HIDE DEF i
    <3> QED
      BY <2>2 DEF Reads, c
  <2>5. i > Len(c) <=> u + i > Len(b)
    BY <1>1, <1>2, <2>2, SMTT(30)
  <2>6. CASE i > Len(c)
    <3> HIDE DEF i
    <3> QED
      BY <2>3, <2>4, <2>5, <2>6 DEF Turn
  <2>7. CASE ~(i > Len(c))
    <3>1. i \in 1..Len(c) /\ i \in 1..(Len(b) - u + 1)
      BY <1>1, <1>2, <2>2, <2>7
    <3>2. From(c, i) = From(b, u + i)
      <4> HIDE DEF i
      <4> QED
        BY <3>1, FromFrom DEF c
    <3> DEFINE d == DecodeOne(From(c, i))
               next == i + d.used
    <3>3. next \in (i + 1)..(Len(c) + 1) /\ d.used \in Nat
      <4> HIDE DEF i
      <4> QED
        BY <1>2, <3>1, TurnGoesOn
    <3>4. g[next] = f[u + next]
      <4>1. Len(b) - u + 1 - next \in Nat /\ Len(b) - u + 1 - next < m
            /\ Len(b) - u + 1 - next <= Len(b) - u
            /\ Len(b) - u + 1 - (Len(b) - u + 1 - next) = next
            /\ Len(b) + 1 - (Len(b) - u + 1 - next) = u + next
        <5>1. m \in Nat /\ next \in (i + 1)..(Len(b) - u + 1)
          BY <1>2, <3>3
        <5> HIDE DEF next
        <5> QED
          BY <1>1, <3>1, <5>1
      <4> HIDE DEF next
      <4> QED
        BY <2>1, <4>1
    <3>5. g[i] = d.keys \o g[next]
      <4> HIDE DEF i
      <4> QED
        BY <2>4, <2>7 DEF Turn
    <3>6. f[u + i] = d.keys \o f[u + next]
      <4>1. (u + i) + d.used = u + next
        BY <1>1, <3>1, <3>3, SMTT(30)
      <4>2. f[u + i] = d.keys \o f[(u + i) + d.used]
        <5> HIDE DEF i
        <5> QED
          BY <2>4, <2>5, <2>7, <3>2 DEF Turn
      <4> QED
        BY <4>1, <4>2
    <3> QED
      BY <2>3, <3>4, <3>5, <3>6
  <2> QED
    BY <2>6, <2>7
<1> SUFFICES ASSUME NEW i \in 1..(Len(b) - u + 1) PROVE g[i] = f[u + i]
  OBVIOUS
<1>4. LET m == Len(b) - u + 1 - i
      IN  m \in Nat /\ m <= Len(b) - u /\ Len(b) - u + 1 - m = i /\ Len(b) + 1 - m = u + i
  BY <1>1
<1> QED
  BY <1>3, <1>4

\* The loop of decode: one turn, then the rest.
LEMMA DecodeStep ==
  ASSUME NEW b \in Seq(Byte), b # <<>>
  PROVE  decode(b) = DecodeOne(b).keys \o decode(From(b, DecodeOne(b).used + 1))
<1> DEFINE d == DecodeOne(b)
           u == d.used
<1>1. PICK f : Reads(f, b) /\ decode(b) = f[1]
  BY DecodeDef
<1>2. Len(b) \in Nat \ {0}
  BY EmptySeq
<1>3. u \in 1..Len(b)
  BY DecodeOneType
<1>4. From(b, 1) = b
  BY SubSeqFull DEF From
<1>5. f[1] = d.keys \o f[1 + u]
  <2>1. f[1] = Turn(f, b, 1)
    BY <1>1, <1>2 DEF Reads
  <2>2. ~(1 > Len(b))
    BY <1>2
  <2>3. Turn(f, b, 1) = DecodeOne(From(b, 1)).keys \o f[1 + DecodeOne(From(b, 1)).used]
    BY <2>2, Zenon DEF Turn
  <2> QED
    BY <1>4, <2>1, <2>3
<1>6. From(b, u + 1) \in Seq(Byte)
  BY <1>2, <1>3, FromProperties
<1>7. PICK g : Reads(g, From(b, u + 1)) /\ decode(From(b, u + 1)) = g[1]
  BY <1>6, DecodeDef
<1>8. g[1] = f[u + 1]
  <2>1. 1 \in 1..(Len(b) - u + 1) /\ u \in 0..Len(b)
    BY <1>2, <1>3
  <2> HIDE DEF u
  <2> QED
    BY <1>1, <1>7, <2>1, ReadsFrom
<1>9. u + 1 = 1 + u
  BY <1>3
<1> HIDE DEF u
<1> QED
  BY <1>1, <1>5, <1>7, <1>8, <1>9 DEF u

\* No bytes are no keys.
LEMMA DecodeNothing ==
  decode(<<>>) = <<>>
<1>1. <<>> \in Seq(Byte) /\ Len(<<>>) = 0
  BY EmptySeq
<1>2. PICK f : Reads(f, <<>>) /\ decode(<<>>) = f[1]
  BY <1>1, DecodeDef
<1> QED
  BY <1>1, <1>2 DEF Reads, Turn

\* Bytes are read as keys.
LEMMA DecodeType ==
  ASSUME NEW b \in Seq(Byte)
  PROVE  decode(b) \in Seq(Keys)
<1>1. PICK f : Reads(f, b) /\ decode(b) = f[1]
  BY DecodeDef
<1>2. 1 \in 1..(Len(b) + 1)
  BY LenProperties
<1> QED
  BY <1>1, <1>2, ReadsTyped

-----------------------------------------------------------------------------
\* Beginnings and ends of sequences put behind one another.
LEMMA FromConcat ==
  ASSUME NEW S, NEW a \in Seq(S), NEW r \in Seq(S)
  PROVE  /\ SubSeq(a \o r, 1, Len(a)) = a
         /\ From(a \o r, Len(a) + 1) = r
<1> DEFINE b == a \o r
<1>1. /\ Len(a) \in Nat /\ Len(r) \in Nat /\ b \in Seq(S) /\ Len(b) = Len(a) + Len(r)
      /\ \A i \in 1..(Len(a) + Len(r)) : b[i] = IF i <= Len(a) THEN a[i] ELSE r[i - Len(a)]
  BY LenProperties, ConcatProperties
<1> HIDE DEF b
<1>2. \A i \in 1..Len(b) : b[i] \in S
  BY <1>1, ElementOfSeq
<1>3. SubSeq(b, 1, Len(a)) = a
  <2>1. \A i \in 1..Len(a) : b[i] \in S
    BY <1>1, <1>2
  <2>2. /\ SubSeq(b, 1, Len(a)) \in Seq(S)
        /\ Len(SubSeq(b, 1, Len(a))) = IF 1 <= Len(a) THEN Len(a) - 1 + 1 ELSE 0
        /\ \A i \in 1..(Len(a) - 1 + 1) : SubSeq(b, 1, Len(a))[i] = b[1 + i - 1]
    BY <1>1, <2>1, SubSeqProperties
  <2>3. Len(SubSeq(b, 1, Len(a))) = Len(a)
    BY <1>1, <2>2
  <2>4. ASSUME NEW i \in 1..Len(a) PROVE SubSeq(b, 1, Len(a))[i] = a[i]
    BY <1>1, <2>2
  <2> QED
    BY <2>2, <2>3, <2>4, SeqEqual
<1>4. From(b, Len(a) + 1) = r
  <2>1. Len(a) + 1 \in 1..(Len(b) + 1)
    BY <1>1
  <2>2. /\ From(b, Len(a) + 1) \in Seq(S)
        /\ Len(From(b, Len(a) + 1)) = Len(b) - (Len(a) + 1) + 1
        /\ \A j \in 1..(Len(b) - (Len(a) + 1) + 1) : From(b, Len(a) + 1)[j] = b[(Len(a) + 1) + j - 1]
    BY <1>1, <2>1, FromProperties
  <2>3. Len(From(b, Len(a) + 1)) = Len(r)
    BY <1>1, <2>2
  <2>4. ASSUME NEW j \in 1..Len(r) PROVE From(b, Len(a) + 1)[j] = r[j]
    <3>1. j \in 1..(Len(b) - (Len(a) + 1) + 1) /\ (Len(a) + 1) + j - 1 = Len(a) + j
          /\ Len(a) + j \in 1..(Len(a) + Len(r)) /\ ~(Len(a) + j <= Len(a))
          /\ (Len(a) + j) - Len(a) = j
      BY <1>1
    <3> QED
      BY <1>1, <2>2, <3>1
  <2> QED
    BY <1>1, <2>2, <2>3, <2>4, SeqEqual
<1> QED
  BY <1>3, <1>4 DEF b

\* A turn that takes what stands in front leaves the rest to be read.
LEMMA TakeOne ==
  ASSUME NEW a \in Seq(Byte), a # <<>>, NEW r \in Seq(Byte),
         DecodeOne(a \o r).used = Len(a)
  PROVE  decode(a \o r) = DecodeOne(a \o r).keys \o decode(r)
<1>1. a \o r \in Seq(Byte) /\ a \o r # <<>>
  BY ConcatProperties, ConcatEqualIffEmpty
<1> QED
  BY <1>1, DecodeStep, FromConcat

\* The first bytes of a \o r are those of a.
LEMMA InFront ==
  ASSUME NEW S, NEW a \in Seq(S), NEW r \in Seq(S)
  PROVE  /\ Len(a) \in Nat /\ Len(r) \in Nat /\ Len(a \o r) = Len(a) + Len(r)
         /\ \A i \in 1..Len(a) : (a \o r)[i] = a[i]
         /\ \A i \in 1..Len(r) : (a \o r)[Len(a) + i] = r[i]
<1>1. /\ Len(a) \in Nat /\ Len(r) \in Nat /\ Len(a \o r) = Len(a) + Len(r)
      /\ \A i \in 1..(Len(a) + Len(r)) :
            (a \o r)[i] = IF i <= Len(a) THEN a[i] ELSE r[i - Len(a)]
  BY LenProperties, ConcatProperties
<1>2. ASSUME NEW i \in 1..Len(r) PROVE (a \o r)[Len(a) + i] = r[i]
  <2>1. Len(a) + i \in 1..(Len(a) + Len(r)) /\ ~(Len(a) + i <= Len(a)) /\ (Len(a) + i) - Len(a) = i
    BY <1>1
  <2> QED
    BY <1>1, <2>1
<1>3. ASSUME NEW i \in 1..Len(a) PROVE (a \o r)[i] = a[i]
  <2>1. i \in 1..(Len(a) + Len(r)) /\ i <= Len(a)
    BY <1>1
  <2> QED
    BY <1>1, <2>1
<1> QED
  BY <1>1, <1>2, <1>3

-----------------------------------------------------------------------------
\* A sequence that ends at e, and one that is cut off.
LEMMA EscapeEnds ==
  ASSUME NEW seq \in Seq(Byte), seq[2] = "[", NEW e \in 3..Len(seq), seq[e] \in Final,
         \A j \in 3..(e - 1) : seq[j] \notin Final
  PROVE  parse_escape(seq) = [keys |-> CsiKey(SubSeq(seq, 3, e - 1), seq[e]), used |-> e]
<1> DEFINE ends == {j \in 3..Len(seq) : seq[j] \in Final}
           end == CHOOSE j \in ends : \A i \in ends : j <= i
<1>1. Len(seq) \in Nat
  BY LenProperties
<1>2. e \in ends /\ \A i \in ends : e <= i
  BY <1>1
<1>3. end \in ends /\ \A i \in ends : end <= i
  <2> HIDE DEF ends
  <2> QED
    BY <1>2
<1>4. end = e
  BY <1>1, <1>2, <1>3
<1>5. parse_escape(seq) =
        CASE ends = {} -> [keys |-> <<>>, used |-> Len(seq)]
          [] OTHER -> [keys |-> CsiKey(SubSeq(seq, 3, end - 1), seq[end]), used |-> end]
  BY DEF parse_escape
<1> HIDE DEF end
<1> QED
  BY <1>2, <1>4, <1>5

\* A sequence whose end is missing takes all there is.
LEMMA EscapeCut ==
  ASSUME NEW seq \in Seq(Byte),
         \/ seq[2] = "[" /\ \A j \in 3..Len(seq) : seq[j] \notin Final
         \/ seq[2] = "O" /\ Len(seq) = 2
  PROVE  parse_escape(seq) = [keys |-> <<>>, used |-> Len(seq)]
<1> DEFINE ends == IF seq[2] = "O" THEN {3} \cap DOMAIN seq
                   ELSE {j \in 3..Len(seq) : seq[j] \in Final}
<1>1. ends = {}
  BY LenProperties
<1>2. ends = {} => parse_escape(seq) = [keys |-> <<>>, used |-> Len(seq)]
  BY DEF parse_escape
<1> HIDE DEF ends
<1> QED
  BY <1>1, <1>2

\* The arrows of application mode take three bytes.
LEMMA EscapeO ==
  ASSUME NEW seq \in Seq(Byte), seq[2] = "O", Len(seq) >= 3, seq[3] = "A"
  PROVE  parse_escape(seq) = [keys |-> <<Key("Up")>>, used |-> 3]
<1> DEFINE ends == IF seq[2] = "O" THEN {3} \cap DOMAIN seq
                   ELSE {j \in 3..Len(seq) : seq[j] \in Final}
<1>1. 3 \in ends
  BY LenProperties
<1>2. ends # {} => parse_escape(seq) =
        [keys |-> IF seq[3] \in DOMAIN Arrow THEN <<Arrow[seq[3]]>> ELSE <<>>, used |-> 3]
  BY DEF parse_escape
<1> HIDE DEF ends
<1> QED
  BY <1>1, <1>2 DEF Arrow

\* Which turn of decode it is depends on the first byte.
LEMMA DecodeOneCases ==
  ASSUME NEW seq
  PROVE  /\ seq[1] = "esc" /\ Len(seq) >= 2 /\ seq[2] \in {"[", "O"} =>
              DecodeOne(seq) = parse_escape(seq)
         /\ seq[1] = "esc" /\ ~(Len(seq) >= 2 /\ seq[2] \in {"[", "O"}) =>
              DecodeOne(seq) = [keys |-> <<Key("Esc")>>, used |-> 1]
         /\ seq[1] \in High => DecodeOne(seq) = LossyChar(seq)
         /\ seq[1] \in DOMAIN Single =>
              DecodeOne(seq) = [keys |-> <<Single[seq[1]]>>, used |-> 1]
         /\ seq[1] \in Printable => DecodeOne(seq) = [keys |-> <<Char(seq[1])>>, used |-> 1]
         /\ seq[1] = "nul" => DecodeOne(seq) = [keys |-> <<>>, used |-> 1]
BY DEF DecodeOne, High, Printable, Final, Single

-----------------------------------------------------------------------------
\* The presses one by one.
LEMMA PressCases ==
  ASSUME NEW p \in Presses
  PROVE  \/ \E b \in {"ctrl_c", "ctrl_s", "cr"} : p = Press(<<b>>, <<Single[b]>>)
         \/ \E b \in {"A", "[", "O", "5"} : p = Press(<<b>>, <<Char(b)>>)
         \/ p = Press(<<"esc">>, <<Key("Esc")>>)
         \/ p = Press(<<"nul">>, <<>>)
         \/ p = Press(<<"c3", "a9">>, <<Char("e'")>>)
         \/ p = Press(<<"esc", "[", "A">>, <<Key("Up")>>)
         \/ p = Press(<<"esc", "O", "A">>, <<Key("Up")>>)
         \/ p = Press(<<"esc", "[", "Z">>, <<Key("ShiftTab")>>)
         \/ p = Press(<<"esc", "[", "5", "~">>, <<Key("PageUp")>>)
         \/ p = Press(<<"esc", "[", "5", "Z">>, <<>>)
BY DEF Presses

\* What begins with these bytes is a sequence of its own, whatever follows.
LEMMA PressedSequence ==
  ASSUME NEW a \in Seq(Byte), NEW r \in Seq(Byte), Len(a) >= 3,
         a[1] = "esc", a[2] = "[", a[Len(a)] \in Final,
         \A j \in 3..(Len(a) - 1) : a[j] \notin Final
  PROVE  DecodeOne(a \o r) =
           [keys |-> CsiKey(SubSeq(a, 3, Len(a) - 1), a[Len(a)]), used |-> Len(a)]
<1> DEFINE seq == a \o r
           e == Len(a)
<1>1. /\ seq \in Seq(Byte) /\ Len(seq) = e + Len(r) /\ e \in Nat /\ Len(r) \in Nat
      /\ \A i \in 1..e : seq[i] = a[i]
  BY InFront, ConcatProperties
<1>2. \A i \in 1..e : a[i] \in Byte
  BY ElementOfSeq
<1> HIDE DEF seq, e
<1>3. e >= 3 /\ a[e] \in Final /\ \A j \in 3..(e - 1) : a[j] \notin Final
  BY DEF e
<1>4. seq[1] = "esc" /\ seq[2] = "[" /\ e \in 3..Len(seq) /\ seq[e] = a[e]
  BY <1>1, <1>3
<1>5. \A j \in 3..(e - 1) : seq[j] \notin Final
  BY <1>1, <1>3
<1>6. DecodeOne(seq) = parse_escape(seq)
  BY <1>1, <1>3, <1>4, DecodeOneCases
<1>7. parse_escape(seq) = [keys |-> CsiKey(SubSeq(seq, 3, e - 1), seq[e]), used |-> e]
  BY <1>1, <1>3, <1>4, <1>5, EscapeEnds
<1>8. SubSeq(seq, 3, e - 1) = SubSeq(a, 3, e - 1)
  <2>1. \A i \in 3..(e - 1) : a[i] \in Byte /\ seq[i] \in Byte /\ seq[i] = a[i]
    BY <1>1, <1>2
  <2>2. /\ SubSeq(a, 3, e - 1) \in Seq(Byte)
        /\ Len(SubSeq(a, 3, e - 1)) = IF 3 <= e - 1 THEN (e - 1) - 3 + 1 ELSE 0
        /\ \A i \in 1..((e - 1) - 3 + 1) : SubSeq(a, 3, e - 1)[i] = a[3 + i - 1]
    BY <1>1, <2>1, SubSeqProperties
  <2>3. /\ SubSeq(seq, 3, e - 1) \in Seq(Byte)
        /\ Len(SubSeq(seq, 3, e - 1)) = IF 3 <= e - 1 THEN (e - 1) - 3 + 1 ELSE 0
        /\ \A i \in 1..((e - 1) - 3 + 1) : SubSeq(seq, 3, e - 1)[i] = seq[3 + i - 1]
    BY <1>1, <2>1, SubSeqProperties
  <2>4. ASSUME NEW i \in 1..Len(SubSeq(seq, 3, e - 1))
        PROVE  SubSeq(seq, 3, e - 1)[i] = SubSeq(a, 3, e - 1)[i]
    <3>1. i \in 1..((e - 1) - 3 + 1) /\ 3 + i - 1 \in 3..(e - 1)
      BY <1>1, <1>3, <2>3
    <3> QED
      BY <2>1, <2>2, <2>3, <3>1
  <2> QED
    BY <2>2, <2>3, <2>4, SeqEqual
<1> QED
  BY <1>4, <1>6, <1>7, <1>8 DEF seq, e

\* With r behind them the bytes a are read as the keys k.
ReadAs(a, k, r) ==
    /\ a \in Seq(Byte) /\ a # <<>> /\ k \in Seq(Keys)
    /\ DecodeOne(a \o r) = [keys |-> k, used |-> Len(a)]

\* A press is read as it is meant, unless it is Esc and a bracket follows.
LEMMA PressIsRead ==
  ASSUME NEW p \in Presses, NEW r \in Seq(Byte),
         p.bytes = <<"esc">> => r = <<>> \/ r[1] \notin {"[", "O"}
  PROVE  ReadAs(p.bytes, p.keys, r)
<1> USE DEF ReadAs
<1>0. \A b : b \in Byte => /\ <<b>> \in Seq(Byte) /\ <<b>> # <<>> /\ Len(<<b>>) = 1
                           /\ (<<b>> \o r)[1] = b
  <2> SUFFICES ASSUME NEW b \in Byte
               PROVE  /\ <<b>> \in Seq(Byte) /\ <<b>> # <<>> /\ Len(<<b>>) = 1 /\ (<<b>> \o r)[1] = b
    OBVIOUS
  <2>1. <<b>> \in Seq(Byte) /\ <<b>> # <<>> /\ Len(<<b>>) = 1 /\ <<b>>[1] = b
    OBVIOUS
  <2> QED
    BY <2>1, InFront
<1>1. ASSUME NEW b \in {"ctrl_c", "ctrl_s", "cr"} PROVE ReadAs(<<b>>, <<Single[b]>>, r)
  <2>1. b \in Byte /\ b \in DOMAIN Single
    BY DEF Byte, Single
  <2> QED
    BY <1>0, <2>1, DecodeOneCases, KeysType, SeqOne, ZenonT(60)
<1>2. ASSUME NEW b \in {"A", "[", "O", "5"} PROVE ReadAs(<<b>>, <<Char(b)>>, r)
  <2>1. b \in Byte /\ b \in Printable
    BY DEF Byte, Printable, Final
  <2> QED
    BY <1>0, <2>1, DecodeOneCases, KeysType, SeqOne
<1>3. ASSUME r = <<>> \/ r[1] \notin {"[", "O"} PROVE ReadAs(<<"esc">>, <<Key("Esc")>>, r)
  <2>1. "esc" \in Byte /\ Key("Esc") \in Keys
    BY KeysType DEF Byte, KeyName
  <2> DEFINE seq == <<"esc">> \o r
  <2>2. seq[1] = "esc" /\ ~(Len(seq) >= 2 /\ seq[2] \in {"[", "O"})
    <3>1. Len(<<"esc">>) = 1
      OBVIOUS
    <3>2. /\ Len(seq) = 1 + Len(r) /\ Len(r) \in Nat
          /\ \A i \in 1..Len(r) : seq[1 + i] = r[i]
      BY <1>0, <2>1, <3>1, InFront
    <3>3. CASE r = <<>>
      BY <1>0, <2>1, <3>2, <3>3, EmptySeq
    <3>4. CASE r # <<>> /\ r[1] \notin {"[", "O"}
      <4>1. 1 \in 1..Len(r)
        BY <3>2, <3>4, EmptySeq
      <4>2. seq[2] = r[1]
        BY <3>2, <4>1
      <4> QED
        BY <1>0, <2>1, <3>4, <4>2
    <3> QED
      BY <1>3, <3>3, <3>4
  <2>3. DecodeOne(seq) = [keys |-> <<Key("Esc")>>, used |-> 1]
    BY <2>2, DecodeOneCases
  <2> QED
    BY <1>0, <2>1, <2>3, SeqOne
<1>4. ReadAs(<<"nul">>, <<>>, r)
  BY <1>0, DecodeOneCases, EmptySeq DEF Byte
<1>5. ReadAs(<<"c3", "a9">>, <<Char("e'")>>, r)
  <2>1. <<"c3", "a9">> \in Seq(Byte) /\ Len(<<"c3", "a9">>) = 2
    BY DEF Byte, High
  <2>2. LET seq == <<"c3", "a9">> \o r IN seq[1] = "c3" /\ seq[2] = "a9" /\ Len(seq) >= 2
    BY <2>1, InFront
  <2>3. "c3" \in High
    BY DEF High
  <2> QED
    BY <2>1, <2>2, <2>3, DecodeOneCases, KeysType, SeqOne DEF LossyChar
<1>6. ReadAs(<<"esc", "[", "A">>, <<Key("Up")>>, r)
  <2> DEFINE a == <<"esc", "[", "A">>
  <2>1. /\ a \in Seq(Byte) /\ Len(a) = 3 /\ a[1] = "esc" /\ a[2] = "[" /\ a[3] = "A" /\ a # <<>>
        /\ "A" \in Final
    BY DEF Byte, Printable, Final
  <2> HIDE DEF a
  <2>2. DecodeOne(a \o r) = [keys |-> CsiKey(SubSeq(a, 3, Len(a) - 1), a[Len(a)]), used |-> Len(a)]
    BY <2>1, PressedSequence
  <2>3. \A q : CsiKey(q, "A") = <<Key("Up")>>
    BY DEF CsiKey, Arrow
  <2>4. Key("Up") \in Keys
    BY KeysType DEF KeyName
  <2>5. ReadAs(a, <<Key("Up")>>, r)
    BY <2>1, <2>2, <2>3, <2>4, SeqOne
  <2> QED
    BY <2>5 DEF a
<1>7. ReadAs(<<"esc", "O", "A">>, <<Key("Up")>>, r)
  <2> DEFINE a == <<"esc", "O", "A">>
  <2>1. /\ a \in Seq(Byte) /\ Len(a) = 3 /\ a[1] = "esc" /\ a[2] = "O" /\ a[3] = "A" /\ a # <<>>
    BY DEF Byte, Printable, Final
  <2> HIDE DEF a
  <2> DEFINE seq == a \o r
  <2>2. /\ seq \in Seq(Byte) /\ Len(seq) >= 3 /\ seq[1] = "esc" /\ seq[2] = "O" /\ seq[3] = "A"
    <3>3. a \in Seq(Byte)
      BY <2>1
    <3>4. seq \in Seq(Byte)
      BY <3>3, ConcatProperties
    <3>5. Len(r) \in Nat /\ Len(seq) = Len(a) + Len(r)
      BY <3>3, InFront
    <3>6. \A i \in 1..Len(a) : seq[i] = a[i]
      BY <3>3, InFront
    <3>1. seq \in Seq(Byte) /\ Len(seq) = 3 + Len(r) /\ Len(r) \in Nat
      BY <2>1, <3>4, <3>5
    <3>2. \A i \in 1..3 : seq[i] = a[i]
      BY <2>1, <3>6
    <3> HIDE DEF seq
    <3> QED
      BY <2>1, <3>1, <3>2
  <2> HIDE DEF seq
  <2>3. DecodeOne(seq) = [keys |-> <<Key("Up")>>, used |-> 3]
    BY <2>2, DecodeOneCases, EscapeO
  <2>4. Key("Up") \in Keys
    BY KeysType DEF KeyName
  <2>5. ReadAs(a, <<Key("Up")>>, r)
    BY <2>1, <2>3, <2>4, SeqOne DEF seq
  <2> QED
    BY <2>5 DEF a
<1>8. ReadAs(<<"esc", "[", "Z">>, <<Key("ShiftTab")>>, r)
  <2> DEFINE a == <<"esc", "[", "Z">>
  <2>1. /\ a \in Seq(Byte) /\ Len(a) = 3 /\ a[1] = "esc" /\ a[2] = "[" /\ a[3] = "Z" /\ a # <<>>
        /\ "Z" \in Final
    BY DEF Byte, Printable, Final
  <2> HIDE DEF a
  <2>2. DecodeOne(a \o r) = [keys |-> CsiKey(SubSeq(a, 3, Len(a) - 1), a[Len(a)]), used |-> Len(a)]
    BY <2>1, PressedSequence
  <2>3. SubSeq(a, 3, Len(a) - 1) = <<>>
    BY <2>1, SubSeqEmpty
  <2>4. CsiKey(<<>>, "Z") = <<Key("ShiftTab")>>
    BY DEF CsiKey, Arrow
  <2>5. Key("ShiftTab") \in Keys
    BY KeysType DEF KeyName
  <2>6. ReadAs(a, <<Key("ShiftTab")>>, r)
    BY <2>1, <2>2, <2>3, <2>4, <2>5, SeqOne
  <2> QED
    BY <2>6 DEF a
<1>9. ASSUME NEW f \in {"~", "Z"}
      PROVE  ReadAs(<<"esc", "[", "5", f>>, IF f = "~" THEN <<Key("PageUp")>> ELSE <<>>, r)
  <2> DEFINE a == <<"esc", "[", "5", f>>
  <2>1. /\ a \in Seq(Byte) /\ Len(a) = 4 /\ a[1] = "esc" /\ a[2] = "[" /\ a[3] = "5" /\ a[4] = f
        /\ a # <<>> /\ f \in Final /\ "5" \notin Final
    BY DEF Byte, Printable, Final
  <2> HIDE DEF a
  <2>2. DecodeOne(a \o r) = [keys |-> CsiKey(SubSeq(a, 3, Len(a) - 1), a[Len(a)]), used |-> Len(a)]
    <3>1. Len(a) >= 3 /\ a[Len(a)] \in Final /\ \A j \in 3..(Len(a) - 1) : a[j] \notin Final
      BY <2>1
    <3> QED
      BY <2>1, <3>1, PressedSequence
  <2>3. SubSeq(a, 3, Len(a) - 1) = <<"5">>
    <3>1. 3 \in 1..Len(a) /\ Len(a) - 1 = 3
      BY <2>1
    <3>2. SubSeq(a, 3, 3) = <<a[3]>> \o SubSeq(a, 3 + 1, 3)
      BY <2>1, <3>1, SubSeqRecursiveFirst
    <3>3. SubSeq(a, 3 + 1, 3) = <<>> /\ <<a[3]>> \in Seq(Byte)
      BY <2>1, SubSeqEmpty DEF Byte, Printable
    <3> QED
      BY <2>1, <3>1, <3>2, <3>3, ConcatEmptySeq
  <2>4. CsiKey(<<"5">>, f) = IF f = "~" THEN <<Key("PageUp")>> ELSE <<>>
    BY DEF CsiKey, Arrow
  <2>5. Key("PageUp") \in Keys
    BY KeysType DEF KeyName
  <2>6. ReadAs(a, IF f = "~" THEN <<Key("PageUp")>> ELSE <<>>, r)
    BY <2>1, <2>2, <2>3, <2>4, <2>5, SeqOne, EmptySeq
  <2> QED
    BY <2>6 DEF a
<1>10. ReadAs(<<"esc", "[", "5", "~">>, <<Key("PageUp")>>, r) /\ ReadAs(<<"esc", "[", "5", "Z">>, <<>>, r)
  BY <1>9
<1>11. \A a, k : p = Press(a, k) => p.bytes = a /\ p.keys = k
  BY DEF Press
<1> HIDE DEF ReadAs
<1>12. ASSUME NEW a, NEW k, p = Press(a, k), ReadAs(a, k, r) PROVE ReadAs(p.bytes, p.keys, r)
  BY <1>11, <1>12
<1>13. CASE \E b \in {"ctrl_c", "ctrl_s", "cr"} : p = Press(<<b>>, <<Single[b]>>)
  BY <1>1, <1>12, <1>13
<1>14. CASE \E b \in {"A", "[", "O", "5"} : p = Press(<<b>>, <<Char(b)>>)
  BY <1>2, <1>12, <1>14
<1>15. CASE p = Press(<<"esc">>, <<Key("Esc")>>)
  BY <1>3, <1>11, <1>12, <1>15
<1>16. CASE p = Press(<<"nul">>, <<>>) \/ p = Press(<<"c3", "a9">>, <<Char("e'")>>)
  BY <1>4, <1>5, <1>12, <1>16
<1>17. CASE p = Press(<<"esc", "[", "A">>, <<Key("Up")>>) \/ p = Press(<<"esc", "O", "A">>, <<Key("Up")>>)
  BY <1>6, <1>7, <1>12, <1>17
<1>18. CASE \/ p = Press(<<"esc", "[", "Z">>, <<Key("ShiftTab")>>)
            \/ p = Press(<<"esc", "[", "5", "~">>, <<Key("PageUp")>>)
            \/ p = Press(<<"esc", "[", "5", "Z">>, <<>>)
  BY <1>8, <1>10, <1>12, <1>18
<1> QED
  BY PressCases, <1>13, <1>14, <1>15, <1>16, <1>17, <1>18

-----------------------------------------------------------------------------
\* Bytes and keys of a burst.
LEMMA PressType ==
  ASSUME NEW p \in Presses
  PROVE  p.bytes \in Seq(Byte) /\ p.bytes # <<>> /\ p.keys \in Seq(Keys)
BY PressIsRead, EmptySeq DEF ReadAs

\* Only [ and O themselves begin with one of the two.
LEMMA PressHead ==
  ASSUME NEW p \in Presses, p.bytes[1] \in {"[", "O"}
  PROVE  p.bytes \in {<<"[">>, <<"O">>}
<1>1. \A a, k : p = Press(a, k) => p.bytes = a
  BY DEF Press
<1>2. CASE \E b \in {"ctrl_c", "ctrl_s", "cr"} : p = Press(<<b>>, <<Single[b]>>)
  BY <1>1, <1>2
<1>3. CASE \E b \in {"A", "[", "O", "5"} : p = Press(<<b>>, <<Char(b)>>)
  BY <1>1, <1>3
<1>4. CASE \/ p = Press(<<"esc">>, <<Key("Esc")>>)
           \/ p = Press(<<"nul">>, <<>>)
           \/ p = Press(<<"c3", "a9">>, <<Char("e'")>>)
  BY <1>1, <1>4
<1>5. CASE \/ p = Press(<<"esc", "[", "A">>, <<Key("Up")>>)
           \/ p = Press(<<"esc", "O", "A">>, <<Key("Up")>>)
           \/ p = Press(<<"esc", "[", "Z">>, <<Key("ShiftTab")>>)
  BY <1>1, <1>5
<1>6. CASE \/ p = Press(<<"esc", "[", "5", "~">>, <<Key("PageUp")>>)
           \/ p = Press(<<"esc", "[", "5", "Z">>, <<>>)
  BY <1>1, <1>6
<1> QED
  BY PressCases, <1>2, <1>3, <1>4, <1>5, <1>6

\* An empty burst.
LEMMA NothingTyped ==
  BytesOf(<<>>) = <<>> /\ KeysOf(<<>>) = <<>>
<1>1. \A f : [i \in DOMAIN <<>> |-> f[i]] = <<>>
  OBVIOUS
<1>2. [i \in DOMAIN <<>> |-> <<>>[i].bytes] = <<>> /\ [i \in DOMAIN <<>> |-> <<>>[i].keys] = <<>>
  OBVIOUS
<1>3. FlattenSeq(<<>>) = <<>>
  BY EmptySeq DEF FlattenSeq
<1> QED
  BY <1>2, <1>3 DEF BytesOf, KeysOf

\* One more key of a burst adds its bytes and its meaning at the end.
LEMMA OneMoreTyped ==
  ASSUME NEW t \in Seq(Presses), NEW p \in Presses
  PROVE  /\ BytesOf(t) \in Seq(Byte) /\ KeysOf(t) \in Seq(Keys)
         /\ BytesOf(Append(t, p)) = BytesOf(t) \o p.bytes
         /\ KeysOf(Append(t, p)) = KeysOf(t) \o p.keys
<1> DEFINE u == Append(t, p)
           B == [i \in DOMAIN t |-> t[i].bytes]
           K == [i \in DOMAIN t |-> t[i].keys]
<1>1. /\ u \in Seq(Presses) /\ Len(u) = Len(t) + 1 /\ Len(t) \in Nat
      /\ DOMAIN t = 1..Len(t) /\ DOMAIN u = 1..(Len(t) + 1)
      /\ \A i \in 1..Len(t) : u[i] = t[i]
      /\ u[Len(t) + 1] = p
  BY AppendProperties, LenProperties
<1>2. \A i \in 1..Len(t) : t[i].bytes \in Seq(Byte) /\ t[i].keys \in Seq(Keys)
  BY ElementOfSeq, PressType
<1>3. /\ B \in Seq(Seq(Byte)) /\ Len(B) = Len(t) /\ \A i \in 1..Len(t) : B[i] = t[i].bytes
      /\ K \in Seq(Seq(Keys)) /\ Len(K) = Len(t) /\ \A i \in 1..Len(t) : K[i] = t[i].keys
  BY <1>1, <1>2
<1>4. p.bytes \in Seq(Byte) /\ p.keys \in Seq(Keys)
  BY PressType
<1> HIDE DEF u
<1>5. [i \in DOMAIN u |-> u[i].bytes] = Append(B, p.bytes)
  <2> HIDE DEF B
  <2>1. /\ Append(B, p.bytes) \in Seq(Seq(Byte)) /\ Len(Append(B, p.bytes)) = Len(t) + 1
        /\ \A i \in 1..Len(t) : Append(B, p.bytes)[i] = t[i].bytes
        /\ Append(B, p.bytes)[Len(t) + 1] = p.bytes
    BY <1>3, <1>4, AppendProperties
  <2>2. Append(B, p.bytes) = [i \in 1..(Len(t) + 1) |-> Append(B, p.bytes)[i]]
    BY <2>1, LenProperties
  <2>3. \A i \in 1..(Len(t) + 1) : u[i].bytes = Append(B, p.bytes)[i]
    BY <1>1, <2>1
  <2> QED
    BY <1>1, <2>2, <2>3
<1>6. [i \in DOMAIN u |-> u[i].keys] = Append(K, p.keys)
  <2> HIDE DEF K
  <2>1. /\ Append(K, p.keys) \in Seq(Seq(Keys)) /\ Len(Append(K, p.keys)) = Len(t) + 1
        /\ \A i \in 1..Len(t) : Append(K, p.keys)[i] = t[i].keys
        /\ Append(K, p.keys)[Len(t) + 1] = p.keys
    BY <1>3, <1>4, AppendProperties
  <2>2. Append(K, p.keys) = [i \in 1..(Len(t) + 1) |-> Append(K, p.keys)[i]]
    BY <2>1, LenProperties
  <2>3. \A i \in 1..(Len(t) + 1) : u[i].keys = Append(K, p.keys)[i]
    BY <1>1, <2>1
  <2> QED
    BY <1>1, <2>2, <2>3
<1>7. BytesOf(t) = FlattenSeq(B) /\ BytesOf(u) = FlattenSeq(Append(B, p.bytes))
  BY <1>5 DEF BytesOf
<1>8. KeysOf(t) = FlattenSeq(K) /\ KeysOf(u) = FlattenSeq(Append(K, p.keys))
  BY <1>6 DEF KeysOf
<1> HIDE DEF B, K
<1>9. FlattenSeq(B) \in Seq(Byte) /\ FlattenSeq(Append(B, p.bytes)) = FlattenSeq(B) \o p.bytes
  BY <1>3, <1>4, FlattenAppend
<1>10. FlattenSeq(K) \in Seq(Keys) /\ FlattenSeq(Append(K, p.keys)) = FlattenSeq(K) \o p.keys
  BY <1>3, <1>4, FlattenAppend
<1> QED
  BY <1>7, <1>8, <1>9, <1>10 DEF u

\* Bytes and keys of a burst are such.
LEMMA TypedType ==
  ASSUME NEW t \in Seq(Presses)
  PROVE  BytesOf(t) \in Seq(Byte) /\ KeysOf(t) \in Seq(Keys)
<1>1. Press(<<"nul">>, <<>>) \in Presses
  BY DEF Presses
<1> QED
  BY <1>1, OneMoreTyped

\* One burst behind another.
LEMMA TypedConcat ==
  ASSUME NEW s \in Seq(Presses), NEW t \in Seq(Presses)
  PROVE  /\ BytesOf(s \o t) = BytesOf(s) \o BytesOf(t)
         /\ KeysOf(s \o t) = KeysOf(s) \o KeysOf(t)
<1> DEFINE P == {u \in Seq(Presses) : /\ BytesOf(s \o u) = BytesOf(s) \o BytesOf(u)
                                      /\ KeysOf(s \o u) = KeysOf(s) \o KeysOf(u)}
<1>1. <<>> \in P
  BY EmptySeq, ConcatEmptySeq, NothingTyped, TypedType
<1>2. ASSUME NEW u \in Seq(Presses), NEW p \in Presses, u \in P PROVE Append(u, p) \in P
  <2>1. s \o u \in Seq(Presses) /\ Append(u, p) \in Seq(Presses)
    BY ConcatProperties, AppendProperties
  <2>2. s \o Append(u, p) = Append(s \o u, p)
    <3>1. Append(u, p) = u \o <<p>> /\ Append(s \o u, p) = (s \o u) \o <<p>> /\ <<p>> \in Seq(Presses)
      BY <2>1, AppendIsConcat
    <3> QED
      BY <3>1, ConcatAssociative
  <2>3. BytesOf(s \o Append(u, p)) = (BytesOf(s) \o BytesOf(u)) \o p.bytes
    BY <1>2, <2>1, <2>2, OneMoreTyped
  <2>4. KeysOf(s \o Append(u, p)) = (KeysOf(s) \o KeysOf(u)) \o p.keys
    BY <1>2, <2>1, <2>2, OneMoreTyped
  <2>5. /\ BytesOf(Append(u, p)) = BytesOf(u) \o p.bytes
        /\ KeysOf(Append(u, p)) = KeysOf(u) \o p.keys
    BY OneMoreTyped
  <2>6. /\ (BytesOf(s) \o BytesOf(u)) \o p.bytes = BytesOf(s) \o (BytesOf(u) \o p.bytes)
        /\ (KeysOf(s) \o KeysOf(u)) \o p.keys = KeysOf(s) \o (KeysOf(u) \o p.keys)
    <3>1. (BytesOf(s) \o BytesOf(u)) \o p.bytes = BytesOf(s) \o (BytesOf(u) \o p.bytes)
      <4> DEFINE b == p.bytes
      <4>1. BytesOf(s) \in Seq(Byte) /\ BytesOf(u) \in Seq(Byte) /\ b \in Seq(Byte)
        BY TypedType, PressType
      <4> HIDE DEF b
      <4>2. (BytesOf(s) \o BytesOf(u)) \o b = BytesOf(s) \o (BytesOf(u) \o b)
        BY <4>1, ConcatAssociative
      <4> QED
        BY <4>2 DEF b
    <3>2. (KeysOf(s) \o KeysOf(u)) \o p.keys = KeysOf(s) \o (KeysOf(u) \o p.keys)
      <4> DEFINE k == p.keys
      <4>1. KeysOf(s) \in Seq(Keys) /\ KeysOf(u) \in Seq(Keys) /\ k \in Seq(Keys)
        BY TypedType, PressType
      <4> HIDE DEF k
      <4>2. (KeysOf(s) \o KeysOf(u)) \o k = KeysOf(s) \o (KeysOf(u) \o k)
        BY <4>1, ConcatAssociative, SMTT(30)
      <4> QED
        BY <4>2 DEF k
    <3> QED
      BY <3>1, <3>2
  <2> QED
    BY <2>1, <2>3, <2>4, <2>5, <2>6
<1>3. Seq(Presses) \subseteq P
  <2> HIDE DEF P
  <2> QED
    BY <1>1, <1>2, SeqInduction
<1> QED
  BY <1>3

\* What Type sees to: no bracket right after Esc.
Burst(t) ==
    /\ t \in Seq(Presses)
    /\ \A i \in 1..(Len(t) - 1) : ~(t[i].bytes = <<"esc">> /\ t[i + 1].bytes \in {<<"[">>, <<"O">>})

\* What may stand behind a burst so that its last key is still read as that key.
MayFollow(t, r) ==
    t # <<>> /\ t[Len(t)].bytes = <<"esc">> => r = <<>> \/ r[1] \notin {"[", "O"}

\* A burst is read as it was typed, whatever it is the beginning of.
LEMMA BurstIsRead ==
  ASSUME NEW t, Burst(t), NEW r \in Seq(Byte), MayFollow(t, r)
  PROVE  decode(BytesOf(t) \o r) = KeysOf(t) \o decode(r)
<1> DEFINE Read(u) == \A q \in Seq(Byte) :
                        MayFollow(u, q) => decode(BytesOf(u) \o q) = KeysOf(u) \o decode(q)
           P == {u \in Seq(Presses) : Burst(u) => Read(u)}
<1>1. <<>> \in P
  <2>1. <<>> \in Seq(Presses) /\ Read(<<>>)
    BY EmptySeq, NothingTyped, ConcatEmptySeq, DecodeType
  <2> QED
    BY <2>1
<1>2. ASSUME NEW u \in Seq(Presses), NEW p \in Presses, u \in P PROVE Append(u, p) \in P
  <2> DEFINE v == Append(u, p)
  <2>1. /\ v \in Seq(Presses) /\ v # <<>> /\ Len(v) = Len(u) + 1 /\ Len(u) \in Nat
        /\ \A i \in 1..Len(u) : v[i] = u[i]
        /\ v[Len(u) + 1] = p
    BY AppendProperties, LenProperties
  <2>2. BytesOf(v) = BytesOf(u) \o p.bytes /\ KeysOf(v) = KeysOf(u) \o p.keys
    BY OneMoreTyped
  <2> HIDE DEF v
  <2>3. ASSUME Burst(v), NEW q \in Seq(Byte), MayFollow(v, q)
        PROVE  decode(BytesOf(v) \o q) = KeysOf(v) \o decode(q)
    <3>1. Burst(u)
      <4>1. ASSUME NEW i \in 1..(Len(u) - 1)
            PROVE  ~(u[i].bytes = <<"esc">> /\ u[i + 1].bytes \in {<<"[">>, <<"O">>})
        <5>1. i \in 1..(Len(v) - 1) /\ i \in 1..Len(u) /\ i + 1 \in 1..Len(u)
          BY <2>1
        <5> QED
          BY <2>1, <2>3, <5>1 DEF Burst
      <4> QED
        BY <4>1 DEF Burst
    <3>2. p.bytes = <<"esc">> => q = <<>> \/ q[1] \notin {"[", "O"}
      BY <2>1, <2>3 DEF MayFollow
    <3>3. ReadAs(p.bytes, p.keys, q)
      BY <3>2, PressIsRead
    <3> DEFINE q2 == p.bytes \o q
    <3>4. q2 \in Seq(Byte) /\ q2[1] = p.bytes[1]
      <4>1. p.bytes \in Seq(Byte) /\ 1 \in 1..Len(p.bytes)
        BY PressType, EmptySeq
      <4> QED
        BY <4>1, InFront, ConcatProperties
    <3>5. decode(q2) = p.keys \o decode(q)
      <4>1. /\ p.bytes \in Seq(Byte) /\ p.bytes # <<>>
            /\ DecodeOne(p.bytes \o q).used = Len(p.bytes)
            /\ DecodeOne(p.bytes \o q).keys = p.keys
        BY <3>3 DEF ReadAs
      <4> QED
        BY <4>1, TakeOne
    <3> HIDE DEF q2
    <3>6. MayFollow(u, q2)
      <4> SUFFICES ASSUME u # <<>>, u[Len(u)].bytes = <<"esc">>, q2[1] \in {"[", "O"} PROVE FALSE
        BY DEF MayFollow
      <4>1. Len(u) \in 1..(Len(v) - 1) /\ Len(u) \in 1..Len(u)
        BY <2>1, EmptySeq
      <4>2. p.bytes \in {<<"[">>, <<"O">>}
        BY <3>4, PressHead
      <4> QED
        BY <2>1, <2>3, <4>1, <4>2 DEF Burst
    <3>7. decode(BytesOf(u) \o q2) = KeysOf(u) \o (p.keys \o decode(q))
      BY <1>2, <3>1, <3>4, <3>5, <3>6
    <3>8. BytesOf(v) \o q = BytesOf(u) \o q2
      <4> DEFINE b == p.bytes
      <4>1. BytesOf(u) \in Seq(Byte) /\ b \in Seq(Byte)
        BY TypedType, PressType
      <4> HIDE DEF b
      <4>2. (BytesOf(u) \o b) \o q = BytesOf(u) \o (b \o q)
        BY <4>1, ConcatAssociative, SMTT(30)
      <4> QED
        BY <2>2, <4>2 DEF q2, b
    <3>9. KeysOf(v) \o decode(q) = KeysOf(u) \o (p.keys \o decode(q))
      <4> DEFINE k == p.keys
      <4>1. KeysOf(u) \in Seq(Keys) /\ k \in Seq(Keys) /\ decode(q) \in Seq(Keys)
        BY TypedType, PressType, DecodeType
      <4> HIDE DEF k
      <4>2. (KeysOf(u) \o k) \o decode(q) = KeysOf(u) \o (k \o decode(q))
        BY <4>1, ConcatAssociative
      <4> QED
        BY <2>2, <4>2 DEF k
    <3> QED
      BY <3>7, <3>8, <3>9
  <2>4. v \in P
    BY <2>1, <2>3
  <2> QED
    BY <2>4 DEF v
<1>3. Seq(Presses) \subseteq P
  <2> HIDE DEF P
  <2> QED
    BY <1>1, <1>2, SeqInduction
<1>4. t \in P
  BY <1>3 DEF Burst
<1> QED
  BY <1>4

-----------------------------------------------------------------------------
\* Bytes that are a character by themselves, and keys that command nothing.
Alone == Printable \cup {"a9"}
Harmless == {k \in Keys : k.key \in {"Char", "Esc"}}

\* Characters and Esc are keys that command nothing.
LEMMA HarmlessKeys ==
  /\ \A c \in Printable \cup {"e'", "replacement"} : Char(c) \in Harmless
  /\ Key("Esc") \in Harmless
  /\ Harmless \subseteq Keys
<1>1. \A c \in Printable \cup {"e'", "replacement"} : Char(c) \in Keys /\ Char(c).key = "Char"
  BY KeysType DEF Char
<1>2. Key("Esc") \in Keys /\ Key("Esc").key = "Esc"
  BY KeysType DEF Key, KeyName
<1> QED
  BY <1>1, <1>2 DEF Harmless

\* A byte that is left of a sequence reads as a character, whatever follows.
LEMMA AloneIsRead ==
  ASSUME NEW b \in Alone
  PROVE  \E k \in Harmless : \A r \in Seq(Byte) : decode(<<b>> \o r) = <<k>> \o decode(r)
<1> DEFINE k == IF b = "a9" THEN Char("replacement") ELSE Char(b)
<1>1. k \in Harmless
  BY HarmlessKeys DEF Alone
<1>2. b \in Byte
  BY DEF Alone, Byte, High
<1>3. ASSUME NEW r \in Seq(Byte) PROVE decode(<<b>> \o r) = <<k>> \o decode(r)
  <2> DEFINE seq == <<b>> \o r
  <2>1. <<b>> \in Seq(Byte) /\ <<b>> # <<>> /\ Len(<<b>>) = 1 /\ <<b>>[1] = b
    BY <1>2
  <2>2. seq[1] = b
    BY <2>1, InFront
  <2> HIDE DEF seq
  <2>3. DecodeOne(seq) = [keys |-> <<k>>, used |-> 1]
    <3>1. CASE b = "a9"
      BY <2>2, <3>1, DecodeOneCases DEF High, LossyChar
    <3>2. CASE b # "a9"
      BY <2>2, <3>2, DecodeOneCases DEF Alone
    <3> QED
      BY <3>1, <3>2
  <2> HIDE DEF k
  <2>4. DecodeOne(<<b>> \o r).used = Len(<<b>>) /\ DecodeOne(<<b>> \o r).keys = <<k>>
    BY <2>1, <2>3 DEF seq
  <2> QED
    BY <2>1, <2>4, TakeOne
<1> HIDE DEF k
<1> QED
  BY <1>1, <1>3

\* What is left of a press that was cut reads as characters.
LEMMA TailIsText ==
  ASSUME NEW z \in Seq(Alone)
  PROVE  \E t \in Seq(Harmless) : \A r \in Seq(Byte) : decode(z \o r) = t \o decode(r)
<1> DEFINE Text(y, t) == \A r \in Seq(Byte) : decode(y \o r) = t \o decode(r)
           P == {y \in Seq(Alone) : \E t \in Seq(Harmless) : Text(y, t)}
<1>0. Seq(Alone) \subseteq Seq(Byte) /\ Seq(Harmless) \subseteq Seq(Keys)
  <2>1. Alone \subseteq Byte
    BY DEF Alone, Byte, High
  <2> QED
    BY <2>1, HarmlessKeys, SeqMonotonic
<1>1. <<>> \in P
  <2>1. Text(<<>>, <<>>)
    BY ConcatEmptySeq, DecodeType
  <2> QED
    BY <2>1, EmptySeq
<1>2. ASSUME NEW y \in Seq(Alone), NEW b \in Alone, y \in P PROVE Append(y, b) \in P
  <2>1. PICK t \in Seq(Harmless) : Text(y, t)
    BY <1>2
  <2>2. PICK k \in Harmless : \A r \in Seq(Byte) : decode(<<b>> \o r) = <<k>> \o decode(r)
    BY AloneIsRead
  <2>3. /\ y \in Seq(Byte) /\ b \in Byte /\ <<b>> \in Seq(Byte) /\ Append(y, b) = y \o <<b>>
        /\ Append(y, b) \in Seq(Alone)
    BY <1>0, AppendIsConcat, AppendProperties DEF Alone, Byte, High
  <2>4. /\ t \in Seq(Keys) /\ <<k>> \in Seq(Keys) /\ Append(t, k) = t \o <<k>>
        /\ Append(t, k) \in Seq(Harmless)
    BY <1>0, HarmlessKeys, SeqOne, AppendIsConcat, AppendProperties
  <2>5. ASSUME NEW r \in Seq(Byte) PROVE decode(Append(y, b) \o r) = Append(t, k) \o decode(r)
    <3>1. <<b>> \o r \in Seq(Byte)
      BY <2>3, ConcatProperties
    <3>2. (y \o <<b>>) \o r = y \o (<<b>> \o r)
      BY <2>3, ConcatAssociative
    <3>3. (t \o <<k>>) \o decode(r) = t \o (<<k>> \o decode(r))
      BY <2>4, DecodeType, ConcatAssociative
    <3> QED
      BY <2>1, <2>2, <2>3, <2>4, <3>1, <3>2, <3>3
  <2>6. Text(Append(y, b), Append(t, k))
    BY <2>5
  <2> HIDE DEF Text
  <2> QED
    BY <2>3, <2>4, <2>6
<1>3. Seq(Alone) \subseteq P
  <2> HIDE DEF P
  <2> QED
    BY <1>1, <1>2, SeqInduction
<1> QED
  BY <1>3

\* The presses that take several bytes.
LEMMA PressShape ==
  ASSUME NEW p \in Presses, Len(p.bytes) > 1
  PROVE  /\ p.bytes[1] \in {"esc", "c3"} /\ Len(p.bytes) \in 2..4
         /\ \A j \in 2..Len(p.bytes) : p.bytes[j] \in Alone
         /\ p.bytes[1] = "c3" => Len(p.bytes) = 2
         /\ p.bytes[1] = "esc" /\ p.bytes[2] = "O" => Len(p.bytes) = 3
         /\ p.bytes[1] = "esc" /\ p.bytes[2] # "O" =>
              p.bytes[2] = "[" /\ \A j \in 3..(Len(p.bytes) - 1) : p.bytes[j] \notin Final
<1>1. \A a, k : p = Press(a, k) => p.bytes = a
  BY DEF Press
<1>2. Printable \subseteq Alone /\ "a9" \in Alone
  BY DEF Alone
<1>3. {"A", "O", "[", "Z", "~", "5"} \subseteq Printable /\ "5" \notin Final
  BY DEF Printable, Final
<1>4. CASE \E b \in {"ctrl_c", "ctrl_s", "cr"} : p = Press(<<b>>, <<Single[b]>>)
  BY <1>1, <1>4
<1>5. CASE \E b \in {"A", "[", "O", "5"} : p = Press(<<b>>, <<Char(b)>>)
  <2>1. PICK b \in {"A", "[", "O", "5"} : p.bytes = <<b>>
    BY <1>1, <1>5
  <2> QED
    BY <2>1
<1>6. CASE p = Press(<<"esc">>, <<Key("Esc")>>) \/ p = Press(<<"nul">>, <<>>)
  <2>1. PICK b : p.bytes = <<b>>
    BY <1>1, <1>6
  <2> QED
    BY <2>1
<1>7. CASE p = Press(<<"c3", "a9">>, <<Char("e'")>>)
  <2>1. p.bytes = <<"c3", "a9">>
    BY <1>1, <1>7
  <2> QED
    BY <1>2, <2>1
<1>8. CASE p = Press(<<"esc", "[", "A">>, <<Key("Up")>>)
  <2>1. p.bytes = <<"esc", "[", "A">>
    BY <1>1, <1>8
  <2> QED
    BY <1>2, <1>3, <2>1
<1>9. CASE p = Press(<<"esc", "O", "A">>, <<Key("Up")>>)
  <2>1. p.bytes = <<"esc", "O", "A">>
    BY <1>1, <1>9
  <2> QED
    BY <1>2, <1>3, <2>1
<1>10. CASE p = Press(<<"esc", "[", "Z">>, <<Key("ShiftTab")>>)
  <2>1. p.bytes = <<"esc", "[", "Z">>
    BY <1>1, <1>10
  <2> QED
    BY <1>2, <1>3, <2>1
<1>11. CASE \/ p = Press(<<"esc", "[", "5", "~">>, <<Key("PageUp")>>)
            \/ p = Press(<<"esc", "[", "5", "Z">>, <<>>)
  <2>1. PICK f \in {"~", "Z"} : p.bytes = <<"esc", "[", "5", f>>
    BY <1>1, <1>11
  <2> QED
    BY <1>2, <1>3, <2>1
<1> QED
  BY PressCases, <1>4, <1>5, <1>6, <1>7, <1>8, <1>9, <1>10, <1>11

\* The first part of a press that was cut reads as Esc and characters at most.
LEMMA HeadIsQuiet ==
  ASSUME NEW p \in Presses, NEW c \in 1..(Len(p.bytes) - 1)
  PROVE  decode(SubSeq(p.bytes, 1, c)) \in Seq(Harmless)
<1> DEFINE b == p.bytes
           a == SubSeq(b, 1, c)
<1> SUFFICES decode(a) \in Seq(Harmless)
  OBVIOUS
<1>1. b \in Seq(Byte) /\ Len(b) \in Nat /\ \A i \in 1..Len(b) : b[i] \in Byte
  BY PressType, LenProperties, ElementOfSeq
<1>2. Len(b) > 1
  BY <1>1
<1>3. /\ b[1] \in {"esc", "c3"} /\ Len(b) \in 2..4
      /\ b[1] = "c3" => Len(b) = 2
      /\ b[1] = "esc" /\ b[2] = "O" => Len(b) = 3
      /\ b[1] = "esc" /\ b[2] # "O" => b[2] = "[" /\ \A j \in 3..(Len(b) - 1) : b[j] \notin Final
  BY <1>2, PressShape
<1> HIDE DEF b
<1>4. a \in Seq(Byte) /\ Len(a) = c /\ \A i \in 1..c : a[i] = b[i]
  <2>1. c \in Int /\ 1 <= c /\ c <= Len(b)
    BY <1>1 DEF b
  <2>2. \A i \in 1..c : b[i] \in Byte
    BY <1>1, <2>1
  <2>3. /\ a \in Seq(Byte) /\ Len(a) = IF 1 <= c THEN c - 1 + 1 ELSE 0
        /\ \A i \in 1..(c - 1 + 1) : a[i] = b[1 + i - 1]
    BY <2>1, <2>2, SubSeqProperties
  <2> QED
    BY <2>1, <2>3
<1> HIDE DEF a
<1>5. c \in Nat /\ 1 <= c /\ c <= Len(b) - 1 /\ a[1] = b[1] /\ a # <<>>
  <2>1. c \in Nat /\ 1 <= c /\ c <= Len(b) - 1
    BY <1>1 DEF b
  <2> QED
    BY <1>4, <2>1, EmptySeq
<1>6. ASSUME NEW k \in Seq(Harmless), DecodeOne(a) = [keys |-> k, used |-> Len(a)]
      PROVE  decode(a) \in Seq(Harmless)
  <2>1. a \o <<>> = a /\ <<>> \in Seq(Byte)
    BY <1>4, ConcatEmptySeq, EmptySeq
  <2>2. DecodeOne(a \o <<>>).used = Len(a) /\ DecodeOne(a \o <<>>).keys = k
    BY <1>6, <2>1
  <2>3. decode(a) = k \o <<>>
    BY <1>4, <1>5, <2>1, <2>2, TakeOne, DecodeNothing
  <2> QED
    BY <2>3, ConcatEmptySeq
<1>7. CASE b[1] = "c3"
  <2>1. Len(a) = 1 /\ a[1] = "c3" /\ "c3" \in High
    <3>1. Len(b) = 2
      BY <1>3, <1>7
    <3>2. c = 1
      BY <1>5, <3>1
    <3> QED
      BY <1>4, <1>5, <1>7, <3>2 DEF High
  <2>2. DecodeOne(a) = LossyChar(a)
    BY <2>1, DecodeOneCases
  <2>3. LossyChar(a) = [keys |-> <<Char("replacement")>>, used |-> 1]
    BY <2>1 DEF LossyChar
  <2>4. DecodeOne(a) = [keys |-> <<Char("replacement")>>, used |-> Len(a)]
    BY <2>1, <2>2, <2>3
  <2>5. <<Char("replacement")>> \in Seq(Harmless)
    BY HarmlessKeys, SeqOne
  <2> QED
    BY <1>6, <2>4, <2>5
<1>8. CASE b[1] = "esc" /\ c = 1
  <2>1. DecodeOne(a) = [keys |-> <<Key("Esc")>>, used |-> 1]
    BY <1>4, <1>5, <1>8, DecodeOneCases
  <2>2. DecodeOne(a) = [keys |-> <<Key("Esc")>>, used |-> Len(a)]
    BY <1>4, <1>8, <2>1
  <2>3. <<Key("Esc")>> \in Seq(Harmless)
    BY HarmlessKeys, SeqOne
  <2> QED
    BY <1>6, <2>2, <2>3
<1>9. CASE b[1] = "esc" /\ c # 1
  <2>1. /\ a[1] = "esc" /\ a[2] = b[2] /\ Len(a) >= 2
        /\ b[2] = "O" => Len(a) = 2
        /\ b[2] # "O" => a[2] = "[" /\ \A j \in 3..Len(a) : a[j] \notin Final
    BY <1>1, <1>3, <1>4, <1>5, <1>9
  <2>2. DecodeOne(a) = parse_escape(a)
    BY <2>1, DecodeOneCases
  <2>3. parse_escape(a) = [keys |-> <<>>, used |-> Len(a)]
    BY <1>4, <2>1, EscapeCut
  <2>4. DecodeOne(a) = [keys |-> <<>>, used |-> Len(a)]
    BY <2>2, <2>3
  <2>5. <<>> \in Seq(Harmless)
    BY EmptySeq
  <2> QED
    BY <1>6, <2>4, <2>5
<1> QED
  BY <1>3, <1>7, <1>8, <1>9

\* A press that is cut in two: what is read of it commands nothing, and what comes
\* after it is read as if nothing had happened.
LEMMA CutPress ==
  ASSUME NEW p \in Presses, NEW c \in 1..(Len(p.bytes) - 1)
  PROVE  /\ SubSeq(p.bytes, 1, c) \in Seq(Byte) /\ From(p.bytes, c + 1) \in Seq(Byte)
         /\ SubSeq(p.bytes, 1, c) \o From(p.bytes, c + 1) = p.bytes
         /\ Len(SubSeq(p.bytes, 1, c)) = c /\ SubSeq(p.bytes, 1, c)[1] = p.bytes[1]
         /\ \E t \in Seq(Harmless) : \A r \in Seq(Byte) :
              decode(SubSeq(p.bytes, 1, c)) \o decode(From(p.bytes, c + 1) \o r) = t \o decode(r)
<1> DEFINE b == p.bytes
           a == SubSeq(b, 1, c)
           z == From(b, c + 1)
<1>1. /\ b \in Seq(Byte) /\ Len(b) \in Nat /\ \A i \in 1..Len(b) : b[i] \in Byte
      /\ c \in 1..(Len(b) - 1) /\ decode(a) \in Seq(Harmless)
  BY PressType, LenProperties, ElementOfSeq, HeadIsQuiet
<1>2. \A j \in 2..Len(b) : b[j] \in Alone
  <2>1. Len(p.bytes) > 1
    BY <1>1
  <2> QED
    BY <2>1, PressShape
<1> HIDE DEF b
<1>3. a \in Seq(Byte) /\ Len(a) = c /\ a[1] = b[1]
  <2>1. c \in Int /\ \A i \in 1..c : b[i] \in Byte
    BY <1>1
  <2>2. /\ a \in Seq(Byte) /\ Len(a) = IF 1 <= c THEN c - 1 + 1 ELSE 0
        /\ \A i \in 1..(c - 1 + 1) : a[i] = b[1 + i - 1]
    BY <2>1, SubSeqProperties
  <2> QED
    BY <1>1, <2>2
<1>4. z \in Seq(Alone)
  <2>1. c + 1 \in Int /\ Len(b) \in Int /\ \A i \in (c + 1)..Len(b) : b[i] \in Alone
    BY <1>1, <1>2
  <2> QED
    BY <2>1, SubSeqProperties DEF From
<1>5. z \in Seq(Byte)
  BY <1>1, FromProperties
<1>6. a \o z = b
  <2>1. /\ 1 \in 1..(Len(b) + 1) /\ c \in (1 - 1)..Len(b) /\ Len(b) \in c..Len(b)
    BY <1>1
  <2>2. SubSeq(b, 1, c) \o SubSeq(b, c + 1, Len(b)) = SubSeq(b, 1, Len(b))
    BY <1>1, <2>1, ConcatAdjacentSubSeq
  <2> QED
    BY <1>1, <2>2, SubSeqFull DEF From
<1> HIDE DEF a, z
<1>7. PICK t \in Seq(Harmless) : \A r \in Seq(Byte) : decode(z \o r) = t \o decode(r)
  BY <1>4, TailIsText
<1>8. ASSUME NEW r \in Seq(Byte)
      PROVE  decode(a) \o decode(z \o r) = (decode(a) \o t) \o decode(r)
  <2>1. decode(a) \in Seq(Keys) /\ t \in Seq(Keys) /\ decode(r) \in Seq(Keys)
    BY <1>1, HarmlessKeys, SeqMonotonic, DecodeType
  <2>2. (decode(a) \o t) \o decode(r) = decode(a) \o (t \o decode(r))
    BY <2>1, ConcatAssociative, SMTT(30)
  <2> QED
    BY <1>7, <2>2
<1>9. decode(a) \o t \in Seq(Harmless)
  BY <1>1, <1>7, ConcatProperties
<1>10. \E s \in Seq(Harmless) : \A r \in Seq(Byte) :
         decode(a) \o decode(z \o r) = s \o decode(r)
  BY <1>8, <1>9
<1> QED
  BY <1>3, <1>5, <1>6, <1>10 DEF a, z, b

-----------------------------------------------------------------------------
\* Brackets in concatenations.
LEMMA AppendBefore ==
  ASSUME NEW S, NEW x \in Seq(S), NEW e \in S, NEW y \in Seq(S)
  PROVE  Append(x, e) \o y = x \o (<<e>> \o y)
<1> DEFINE z == <<e>>
<1>1. z \in Seq(S) /\ Append(x, e) = x \o z
  BY SeqOne, AppendIsConcat
<1> HIDE DEF z
<1>2. (x \o z) \o y = x \o (z \o y)
  BY <1>1, ConcatAssociative
<1> QED
  BY <1>1, <1>2 DEF z

\* A cut after n bytes goes through one of the presses v, or stands before or after it.
Falls(v, n) ==
    \E s, u \in Seq(Presses), p \in Presses : \E c \in 0..Len(p.bytes) :
        v = Append(s, p) \o u /\ n = Len(BytesOf(s)) + c

\* A cut falls between two presses or into one.
LEMMA WhereItFalls ==
  ASSUME NEW t \in Seq(Presses), t # <<>>, NEW cut \in 0..Len(BytesOf(t))
  PROVE  Falls(t, cut)
<1> DEFINE P == {v \in Seq(Presses) : v # <<>> => \A n \in 0..Len(BytesOf(v)) : Falls(v, n)}
<1>1. <<>> \in P
  BY EmptySeq
<1>2. ASSUME NEW v \in Seq(Presses), NEW q \in Presses, v \in P PROVE Append(v, q) \in P
  <2>1. Append(v, q) \in Seq(Presses) /\ Append(v, q) \o <<>> = Append(v, q) /\ <<>> \in Seq(Presses)
    BY AppendProperties, ConcatEmptySeq, EmptySeq
  <2>2. /\ BytesOf(Append(v, q)) = BytesOf(v) \o q.bytes
        /\ BytesOf(v) \in Seq(Byte) /\ q.bytes \in Seq(Byte)
    BY OneMoreTyped, PressType
  <2>3. /\ Len(BytesOf(Append(v, q))) = Len(BytesOf(v)) + Len(q.bytes)
        /\ Len(BytesOf(v)) \in Nat /\ Len(q.bytes) \in Nat
    BY <2>2, InFront
  <2>4. ASSUME NEW n \in 0..Len(BytesOf(Append(v, q))) PROVE Falls(Append(v, q), n)
    <3>1. CASE v # <<>> /\ n <= Len(BytesOf(v))
      <4>1. Falls(v, n)
        <5>1. n \in 0..Len(BytesOf(v))
          BY <2>3, <3>1
        <5> QED
          BY <1>2, <3>1, <5>1
      <4>2. PICK s \in Seq(Presses), u \in Seq(Presses), p \in Presses :
              \E c \in 0..Len(p.bytes) : v = Append(s, p) \o u /\ n = Len(BytesOf(s)) + c
        BY <4>1 DEF Falls
      <4>3. PICK c \in 0..Len(p.bytes) : v = Append(s, p) \o u /\ n = Len(BytesOf(s)) + c
        BY <4>2
      <4>4. Append(u, q) \in Seq(Presses) /\ Append(s, p) \in Seq(Presses) /\ <<q>> \in Seq(Presses)
        BY AppendProperties, SeqOne
      <4>5. Append(v, q) = Append(s, p) \o Append(u, q)
        <5> DEFINE a == Append(s, p)
        <5>1. a \in Seq(Presses)
          BY <4>4
        <5> HIDE DEF a
        <5>2. Append(a \o u, q) = (a \o u) \o <<q>> /\ Append(u, q) = u \o <<q>>
          <6>1. a \o u \in Seq(Presses)
            BY <5>1, ConcatProperties
          <6> QED
            BY <6>1, AppendIsConcat
        <5> DEFINE e == <<q>>
        <5> HIDE DEF e
        <5>3. (a \o u) \o e = a \o (u \o e)
          BY SMTT(30)
        <5> QED
          BY <4>3, <5>2, <5>3 DEF a, e
      <4> QED
        BY <4>3, <4>4, <4>5 DEF Falls
    <3>2. CASE ~(v # <<>> /\ n <= Len(BytesOf(v)))
      <4> DEFINE c == n - Len(BytesOf(v))
      <4>1. c \in 0..Len(q.bytes) /\ n = Len(BytesOf(v)) + c
        BY <2>2, <2>3, <3>2, NothingTyped, EmptySeq
      <4> HIDE DEF c
      <4> QED
        BY <2>1, <4>1 DEF Falls
    <3> QED
      BY <3>1, <3>2
  <2> QED
    BY <2>1, <2>4
<1>3. Seq(Presses) \subseteq P
  <2> HIDE DEF P
  <2> QED
    BY <1>1, <1>2, SeqInduction
<1> QED
  BY <1>3

\* Parts of a burst are bursts, and what is after a press may follow what is before.
LEMMA BurstParts ==
  ASSUME NEW x \in Seq(Presses), NEW y \in Seq(Presses), Burst(x \o y)
  PROVE  /\ Burst(x) /\ Burst(y)
         /\ y # <<>> => \A r \in Seq(Byte) : r # <<>> /\ r[1] = y[1].bytes[1] => MayFollow(x, r)
<1> DEFINE t == x \o y
<1>1. /\ Len(x) \in Nat /\ Len(y) \in Nat /\ Len(t) = Len(x) + Len(y)
      /\ \A i \in 1..Len(x) : t[i] = x[i]
      /\ \A i \in 1..Len(y) : t[Len(x) + i] = y[i]
  BY InFront
<1> HIDE DEF t
<1>2. \A i \in 1..(Len(t) - 1) : ~(t[i].bytes = <<"esc">> /\ t[i + 1].bytes \in {<<"[">>, <<"O">>})
  BY DEF Burst, t
<1>3. Burst(x)
  <2>1. ASSUME NEW i \in 1..(Len(x) - 1) PROVE ~(x[i].bytes = <<"esc">> /\ x[i + 1].bytes \in {<<"[">>, <<"O">>})
    <3>1. i \in 1..(Len(t) - 1) /\ i \in 1..Len(x) /\ i + 1 \in 1..Len(x)
      BY <1>1
    <3> QED
      BY <1>1, <1>2, <3>1
  <2> QED
    BY <2>1 DEF Burst
<1>4. Burst(y)
  <2>1. ASSUME NEW i \in 1..(Len(y) - 1) PROVE ~(y[i].bytes = <<"esc">> /\ y[i + 1].bytes \in {<<"[">>, <<"O">>})
    <3> DEFINE j == Len(x) + i
    <3>1. j \in 1..(Len(t) - 1) /\ i \in 1..Len(y) /\ i + 1 \in 1..Len(y) /\ Len(x) + (i + 1) = j + 1
      BY <1>1
    <3>2. t[j] = y[i] /\ t[j + 1] = y[i + 1]
      BY <1>1, <3>1
    <3> HIDE DEF j
    <3> QED
      BY <1>2, <3>1, <3>2
  <2> QED
    BY <2>1 DEF Burst
<1>5. ASSUME y # <<>>, NEW r \in Seq(Byte), r # <<>>, r[1] = y[1].bytes[1] PROVE MayFollow(x, r)
  <2> SUFFICES ASSUME x # <<>>, x[Len(x)].bytes = <<"esc">>, r[1] \in {"[", "O"} PROVE FALSE
    BY DEF MayFollow
  <2>1. Len(x) \in 1..(Len(t) - 1) /\ Len(x) \in 1..Len(x) /\ 1 \in 1..Len(y)
    BY <1>1, <1>5, EmptySeq
  <2>2. t[Len(x)] = x[Len(x)] /\ t[Len(x) + 1] = y[1]
    BY <1>1, <2>1
  <2>3. y[1] \in Presses
    BY <2>1, ElementOfSeq
  <2>4. y[1].bytes \in {<<"[">>, <<"O">>}
    BY <1>5, <2>3, PressHead
  <2> QED
    BY <1>2, <2>1, <2>2, <2>4
<1> QED
  BY <1>3, <1>4, <1>5

\* A burst that arrives whole is read as it was typed.
LEMMA WholeBurst ==
  ASSUME NEW t, Burst(t)
  PROVE  decode(BytesOf(t)) = KeysOf(t)
<1>1. BytesOf(t) \in Seq(Byte) /\ KeysOf(t) \in Seq(Keys)
  BY TypedType DEF Burst
<1>2. <<>> \in Seq(Byte) /\ MayFollow(t, <<>>)
  BY EmptySeq DEF MayFollow
<1>3. decode(BytesOf(t) \o <<>>) = KeysOf(t) \o <<>>
  BY <1>2, BurstIsRead, DecodeNothing
<1> QED
  BY <1>1, <1>3, ConcatEmptySeq

\* A cut between two presses spoils nothing.
LEMMA CutBetween ==
  ASSUME NEW x \in Seq(Presses), NEW y \in Seq(Presses), Burst(x \o y)
  PROVE  /\ SubSeq(BytesOf(x \o y), 1, Len(BytesOf(x))) = BytesOf(x)
         /\ From(BytesOf(x \o y), Len(BytesOf(x)) + 1) = BytesOf(y)
         /\ decode(BytesOf(x)) \o decode(BytesOf(y)) = KeysOf(x \o y)
<1>1. BytesOf(x) \in Seq(Byte) /\ BytesOf(y) \in Seq(Byte)
  BY TypedType
<1>2. Burst(x) /\ Burst(y)
  BY BurstParts
<1>3. BytesOf(x \o y) = BytesOf(x) \o BytesOf(y) /\ KeysOf(x \o y) = KeysOf(x) \o KeysOf(y)
  BY TypedConcat
<1>4. decode(BytesOf(x)) = KeysOf(x) /\ decode(BytesOf(y)) = KeysOf(y)
  BY <1>2, WholeBurst
<1> QED
  BY <1>1, <1>3, <1>4, FromConcat

\* What stands between a beginning and an end.
LEMMA Middle ==
  ASSUME NEW S, NEW x \in Seq(S), NEW y \in Seq(S), NEW z \in Seq(S)
  PROVE  SubSeq((x \o y) \o z, Len(x) + 1, Len((x \o y) \o z) - Len(z)) = y
<1> DEFINE w == (x \o y) \o z
<1>1. /\ x \o y \in Seq(S) /\ w \in Seq(S) /\ Len(x) \in Nat /\ Len(y) \in Nat /\ Len(z) \in Nat
      /\ Len(x \o y) = Len(x) + Len(y) /\ Len(w) = (Len(x) + Len(y)) + Len(z)
      /\ \A i \in 1..Len(x \o y) : w[i] = (x \o y)[i]
      /\ \A i \in 1..Len(y) : (x \o y)[Len(x) + i] = y[i]
  BY InFront, ConcatProperties
<1>2. ASSUME NEW i \in 1..Len(y) PROVE w[Len(x) + i] = y[i]
  <2>1. Len(x) + i \in 1..Len(x \o y)
    BY <1>1
  <2> QED
    BY <1>1, <2>1
<1> HIDE DEF w
<1> DEFINE m == Len(x) + 1
           n == Len(w) - Len(z)
<1>3. m \in Int /\ n \in Int /\ n = Len(x) + Len(y) /\ n - m + 1 = Len(y)
  BY <1>1
<1>4. \A i \in m..n : w[i] \in S
  <2>1. \A i \in m..n : i \in 1..Len(w)
    BY <1>1, <1>3
  <2> QED
    BY <1>1, <2>1, ElementOfSeq
<1>5. /\ SubSeq(w, m, n) \in Seq(S)
      /\ Len(SubSeq(w, m, n)) = IF m <= n THEN n - m + 1 ELSE 0
      /\ \A i \in 1..(n - m + 1) : SubSeq(w, m, n)[i] = w[m + i - 1]
  <2> HIDE DEF m, n
  <2> QED
    BY <1>3, <1>4, SubSeqProperties
<1>6. Len(SubSeq(w, m, n)) = Len(y)
  BY <1>1, <1>3, <1>5
<1>7. ASSUME NEW i \in 1..Len(y) PROVE SubSeq(w, m, n)[i] = y[i]
  <2>1. i \in 1..(n - m + 1) /\ m + i - 1 = Len(x) + i
    BY <1>1, <1>3
  <2> HIDE DEF m, n
  <2> QED
    BY <1>2, <1>5, <2>1
<1> HIDE DEF m, n
<1>8. SubSeq(w, m, n) = y
  BY <1>5, <1>6, <1>7, SeqEqual
<1> QED
  BY <1>8 DEF m, n, w

-----------------------------------------------------------------------------
\* A cut through a press spoils that press only.
LEMMA CutWithin ==
  ASSUME NEW s \in Seq(Presses), NEW p \in Presses, NEW u \in Seq(Presses),
         NEW c \in 1..(Len(p.bytes) - 1),
         Burst(Append(s, p) \o u)
  PROVE  LET bytes == BytesOf(Append(s, p) \o u)
             cut == Len(BytesOf(s)) + c
         IN  \E t \in Seq(Harmless) :
               decode(SubSeq(bytes, 1, cut)) \o decode(From(bytes, cut + 1))
                 = (KeysOf(s) \o t) \o KeysOf(u)
<1> DEFINE bytes == BytesOf(Append(s, p) \o u)
           cut == Len(BytesOf(s)) + c
           S == BytesOf(s)
           U == BytesOf(u)
           a == SubSeq(p.bytes, 1, c)
           z == From(p.bytes, c + 1)
<1>1. S \in Seq(Byte) /\ U \in Seq(Byte)
  BY TypedType
<1>2. a \in Seq(Byte) /\ z \in Seq(Byte) /\ a \o z = p.bytes /\ Len(a) = c /\ a[1] = p.bytes[1]
  BY CutPress
<1>3. PICK t \in Seq(Harmless) : \A r \in Seq(Byte) : decode(a) \o decode(z \o r) = t \o decode(r)
  BY CutPress
<1>4. <<p>> \in Seq(Presses) /\ Append(s, p) = s \o <<p>> /\ Append(s, p) \in Seq(Presses)
  BY SeqOne, AppendIsConcat, AppendProperties
<1>5. Append(s, p) \o u = s \o (<<p>> \o u)
  BY AppendBefore
<1>6. Burst(s) /\ Burst(u) /\ MayFollow(s, a)
  <2> DEFINE y == <<p>> \o u
  <2>1. y \in Seq(Presses) /\ Len(<<p>>) = 1 /\ <<p>>[1] = p
    BY <1>4, ConcatProperties
  <2>2. y[1] = p /\ Len(y) = 1 + Len(u) /\ Len(u) \in Nat
    BY <1>4, <2>1, InFront
  <2>3. y # <<>>
    BY <2>1, <2>2, EmptySeq
  <2> HIDE DEF y
  <2>4. a # <<>>
    <3> HIDE DEF a
    <3> QED
      BY <1>2, EmptySeq
  <2>5. Burst(s \o y)
    BY <1>5 DEF y
  <2>6. Burst(s) /\ MayFollow(s, a)
    BY <1>2, <2>1, <2>2, <2>3, <2>4, <2>5, BurstParts
  <2>7. Burst(u)
    BY <1>4, BurstParts
  <2> QED
    BY <2>6, <2>7
<1>7. bytes = (S \o a) \o (z \o U)
  <2>1. bytes = (S \o p.bytes) \o U
    BY <1>4, OneMoreTyped, TypedConcat
  <2> HIDE DEF S, U, a, z
  <2>2. (S \o (a \o z)) \o U = (S \o a) \o (z \o U)
    BY SMTT(30)
  <2> QED
    BY <1>2, <2>1, <2>2
<1>8. /\ SubSeq(bytes, 1, cut) = S \o a
      /\ From(bytes, cut + 1) = z \o U
  <2> HIDE DEF S, U, a, z, bytes
  <2>1. S \o a \in Seq(Byte) /\ z \o U \in Seq(Byte) /\ Len(S \o a) = Len(S) + Len(a)
    BY <1>1, <1>2, InFront, ConcatProperties
  <2>2. Len(S \o a) = cut
    BY <1>2, <2>1 DEF S
  <2> HIDE DEF cut
  <2> QED
    BY <1>7, <2>1, <2>2, FromConcat, ZenonT(60)
<1>9. decode(S \o a) = KeysOf(s) \o decode(a)
  BY <1>2, <1>6, BurstIsRead
<1>10. decode(U) = KeysOf(u)
  BY <1>6, WholeBurst
<1>11. decode(a) \o decode(z \o U) = t \o KeysOf(u)
  BY <1>1, <1>3, <1>10
<1>12. /\ KeysOf(s) \in Seq(Keys) /\ KeysOf(u) \in Seq(Keys) /\ t \in Seq(Keys)
       /\ decode(a) \in Seq(Keys) /\ decode(z \o U) \in Seq(Keys)
  <2>1. z \o U \in Seq(Byte)
    BY <1>1, <1>2, ConcatProperties
  <2> QED
    BY <1>2, <2>1, TypedType, DecodeType, HarmlessKeys, SeqMonotonic
<1> HIDE DEF a, z, S, U
<1> DEFINE A == decode(a)
           Z == decode(z \o U)
           K == KeysOf(s)
           L == KeysOf(u)
<1>13. (K \o A) \o Z = (K \o t) \o L
  <2>1. A \in Seq(Keys) /\ Z \in Seq(Keys) /\ K \in Seq(Keys) /\ L \in Seq(Keys) /\ t \in Seq(Keys)
        /\ A \o Z = t \o L
    BY <1>11, <1>12
  <2> HIDE DEF A, Z, K, L
  <2>2. (K \o A) \o Z = K \o (A \o Z)
    OBVIOUS
  <2>3. (K \o t) \o L = K \o (t \o L)
    OBVIOUS
  <2> QED
    BY <2>1, <2>2, <2>3, Zenon
<1> HIDE DEF bytes, cut
<1>14. decode(SubSeq(bytes, 1, cut)) \o decode(From(bytes, cut + 1)) = (KeysOf(s) \o t) \o KeysOf(u)
  BY <1>8, <1>9, <1>13
<1> QED
  BY <1>14 DEF bytes, cut

\* The property, of any burst.
Survives(presses) ==
    LET bytes == BytesOf(presses) IN
    \A cut \in 0..Len(bytes) :
        LET read == decode(SubSeq(bytes, 1, cut)) \o decode(From(bytes, cut + 1))
        IN  \/ read = KeysOf(presses)
            \/ \E i \in DOMAIN presses :
                 LET before == KeysOf(SubSeq(presses, 1, i - 1))
                     after == KeysOf(From(presses, i + 1))
                     spoilt == SubSeq(read, Len(before) + 1, Len(read) - Len(after))
                 IN  /\ read = before \o spoilt \o after
                     /\ Len(presses[i].bytes) > 1
                     /\ \A k \in DOMAIN spoilt : spoilt[k].key \in {"Char", "Esc"}

\* Where the cut falls says which of the two it is.
LEMMA BurstSurvives ==
  ASSUME NEW presses, Burst(presses)
  PROVE  Survives(presses)
<1> DEFINE bytes == BytesOf(presses)
           read(cut) == decode(SubSeq(bytes, 1, cut)) \o decode(From(bytes, cut + 1))
           spoils(cut, i) ==
             LET before == KeysOf(SubSeq(presses, 1, i - 1))
                 after == KeysOf(From(presses, i + 1))
                 spoilt == SubSeq(read(cut), Len(before) + 1, Len(read(cut)) - Len(after))
             IN  /\ read(cut) = before \o spoilt \o after
                 /\ Len(presses[i].bytes) > 1
                 /\ \A k \in DOMAIN spoilt : spoilt[k].key \in {"Char", "Esc"}
<1> SUFFICES ASSUME NEW cut \in 0..Len(bytes)
             PROVE  read(cut) = KeysOf(presses) \/ \E i \in DOMAIN presses : spoils(cut, i)
  BY DEF Survives
<1>1. presses \in Seq(Presses)
  BY DEF Burst
<1>2. CASE presses = <<>>
  <2>1. bytes = <<>> /\ KeysOf(presses) = <<>> /\ cut = 0
    BY <1>2, NothingTyped, EmptySeq
  <2>2. SubSeq(<<>>, 1, 0) = <<>> /\ From(<<>>, 1) = <<>>
    BY SubSeqEmpty, EmptySeq DEF From
  <2>3. read(cut) = <<>>
    <3> HIDE DEF bytes
    <3>1. SubSeq(bytes, 1, cut) = <<>> /\ From(bytes, cut + 1) = <<>>
      BY <2>1, <2>2
    <3>2. <<>> \o <<>> = <<>>
      BY ConcatEmptySeq, EmptySeq
    <3> QED
      BY <3>1, <3>2, DecodeNothing
  <2> QED
    BY <2>1, <2>3
<1>3. CASE presses # <<>>
  <2>1. PICK s \in Seq(Presses), u \in Seq(Presses), p \in Presses :
          \E c \in 0..Len(p.bytes) : presses = Append(s, p) \o u /\ cut = Len(BytesOf(s)) + c
    BY <1>1, <1>3, WhereItFalls DEF Falls
  <2>2. PICK c \in 0..Len(p.bytes) : presses = Append(s, p) \o u /\ cut = Len(BytesOf(s)) + c
    BY <2>1
  <2>3. /\ Append(s, p) \in Seq(Presses) /\ <<p>> \in Seq(Presses) /\ <<p>> \o u \in Seq(Presses)
        /\ Append(s, p) \o u = s \o (<<p>> \o u)
    BY AppendProperties, AppendBefore, SeqOne, ConcatProperties
  <2>4. Len(p.bytes) \in Nat /\ Len(BytesOf(s)) \in Nat
    BY PressType, TypedType, LenProperties
  <2>5. CASE c = 0
    <3>1. cut = Len(BytesOf(s)) /\ Burst(s \o (<<p>> \o u)) /\ presses = s \o (<<p>> \o u)
      BY <2>2, <2>3, <2>4, <2>5
    <3>2. /\ SubSeq(bytes, 1, cut) = BytesOf(s) /\ From(bytes, cut + 1) = BytesOf(<<p>> \o u)
          /\ decode(BytesOf(s)) \o decode(BytesOf(<<p>> \o u)) = KeysOf(presses)
      BY <2>3, <3>1, CutBetween
    <3> QED
      BY <3>2
  <2>6. CASE c = Len(p.bytes)
    <3>1. BytesOf(Append(s, p)) = BytesOf(s) \o p.bytes /\ BytesOf(s) \in Seq(Byte) /\ p.bytes \in Seq(Byte)
      BY OneMoreTyped, PressType
    <3>2. cut = Len(BytesOf(Append(s, p))) /\ Burst(Append(s, p) \o u)
      BY <2>2, <2>6, <3>1, InFront
    <3> DEFINE x == Append(s, p)
    <3>3. x \in Seq(Presses) /\ Burst(x \o u) /\ presses = x \o u /\ cut = Len(BytesOf(x))
      BY <2>2, <2>3, <3>2
    <3> HIDE DEF x
    <3>4. /\ SubSeq(bytes, 1, cut) = BytesOf(x) /\ From(bytes, cut + 1) = BytesOf(u)
          /\ decode(BytesOf(x)) \o decode(BytesOf(u)) = KeysOf(presses)
      BY <3>3, CutBetween
    <3> QED
      BY <3>4
  <2>7. CASE c # 0 /\ c # Len(p.bytes)
    <3>1. c \in 1..(Len(p.bytes) - 1) /\ Len(p.bytes) > 1
      BY <2>4, <2>7
    <3>2. PICK t \in Seq(Harmless) : read(cut) = (KeysOf(s) \o t) \o KeysOf(u)
      BY <2>2, <3>1, CutWithin
    <3> DEFINE i == Len(s) + 1
    <3>3. /\ Len(s) \in Nat /\ Len(Append(s, p)) = i /\ Append(s, p)[i] = p
          /\ Len(u) \in Nat /\ Len(presses) = i + Len(u)
          /\ \A j \in 1..i : presses[j] = Append(s, p)[j]
      BY <2>2, <2>3, AppendProperties, LenProperties, InFront
    <3>4. i \in DOMAIN presses /\ presses[i] = p
      BY <1>1, <3>3, LenProperties, SMTT(30)
    <3>5. SubSeq(presses, 1, i - 1) = s
      <4>1. i - 1 = Len(s)
        BY <3>3
      <4> HIDE DEF i
      <4> QED
        BY <2>2, <2>3, <4>1, FromConcat
    <3>6. From(presses, i + 1) = u
      <4> HIDE DEF i
      <4> QED
        BY <2>2, <2>3, <3>3, FromConcat
    <3>7. KeysOf(s) \in Seq(Keys) /\ KeysOf(u) \in Seq(Keys) /\ t \in Seq(Keys)
      BY TypedType, HarmlessKeys, SeqMonotonic
    <3>8. SubSeq(read(cut), Len(KeysOf(s)) + 1, Len(read(cut)) - Len(KeysOf(u))) = t
      <4> DEFINE x == KeysOf(s)
                 z == KeysOf(u)
                 w == read(cut)
      <4>1. x \in Seq(Keys) /\ z \in Seq(Keys) /\ t \in Seq(Keys) /\ w = (x \o t) \o z
        BY <3>2, <3>7
      <4> HIDE DEF x, z, w
      <4>2. SubSeq((x \o t) \o z, Len(x) + 1, Len((x \o t) \o z) - Len(z)) = t
        BY <4>1, Middle
      <4>3. SubSeq(w, Len(x) + 1, Len(w) - Len(z)) = t
        BY <4>1, <4>2, Zenon
      <4> QED
        BY <4>3 DEF x, z, w
    <3>9. \A k \in DOMAIN t : t[k].key \in {"Char", "Esc"}
      <4>1. \A k \in DOMAIN t : t[k] \in Harmless
        BY LenProperties, ElementOfSeq
      <4> QED
        BY <4>1 DEF Harmless
    <3> HIDE DEF i, read
    <3>10. spoils(cut, i)
      BY <3>1, <3>2, <3>4, <3>5, <3>6, <3>8, <3>9
    <3> QED
      BY <3>4, <3>10
  <2> QED
    BY <2>5, <2>6, <2>7
<1> QED
  BY <1>2, <1>3

\* A burst is typed key by key.
LEMMA TypedInductive ==
  /\ InputInit => Burst(typed)
  /\ Burst(typed) /\ [InputNext]_inputVars => Burst(typed)'
<1>1. ASSUME InputInit PROVE Burst(typed)
  BY <1>1, EmptySeq DEF InputInit, Burst
<1>2. ASSUME Burst(typed), [InputNext]_inputVars PROVE Burst(typed)'
  <2>1. CASE \E p \in Presses : Type(p)
    <3>1. PICK p \in Presses : Type(p)
      BY <2>1
    <3>2. /\ typed \in Seq(Presses) /\ typed' = Append(typed, p)
          /\ ~(typed # <<>> /\ typed[Len(typed)].bytes = <<"esc">> /\ p.bytes \in {<<"[">>, <<"O">>})
      BY <1>2, <3>1 DEF Type, Burst, Last
    <3>3. /\ typed' \in Seq(Presses) /\ Len(typed') = Len(typed) + 1 /\ Len(typed) \in Nat
          /\ \A i \in 1..Len(typed) : typed'[i] = typed[i]
          /\ typed'[Len(typed) + 1] = p
      BY <3>2, AppendProperties, LenProperties
    <3>4. ASSUME NEW i \in 1..(Len(typed') - 1)
          PROVE  ~(typed'[i].bytes = <<"esc">> /\ typed'[i + 1].bytes \in {<<"[">>, <<"O">>})
      <4>1. CASE i < Len(typed)
        <5>1. i \in 1..Len(typed) /\ i + 1 \in 1..Len(typed) /\ i \in 1..(Len(typed) - 1)
          BY <3>3, <4>1
        <5> QED
          BY <1>2, <3>3, <5>1 DEF Burst
      <4>2. CASE ~(i < Len(typed))
        <5>1. i = Len(typed) /\ i \in 1..Len(typed)
          BY <3>3, <4>2
        <5>2. typed # <<>>
          BY <5>1, EmptySeq
        <5> QED
          BY <3>2, <3>3, <5>1, <5>2
      <4> QED
        BY <4>1, <4>2
    <3> QED
      BY <3>3, <3>4 DEF Burst
  <2>2. CASE \E k \in EditKeys : Edit(k)
    BY <1>2, <2>2 DEF Edit, Burst
  <2>3. CASE UNCHANGED inputVars
    BY <1>2, <2>3 DEF inputVars, Burst
  <2> QED
    BY <1>2, <2>1, <2>2, <2>3 DEF InputNext
<1> QED
  BY <1>1, <1>2

\* CutSpoilsOneKey, for bursts of any length cut at any byte.
THEOREM CutSpoilsOneKeyHolds == InputSpec => []CutSpoilsOneKey
<1>1. InputInit => Burst(typed)
  BY TypedInductive
<1>2. Burst(typed) /\ [InputNext]_inputVars => Burst(typed)'
  BY TypedInductive
<1>3. Burst(typed) => CutSpoilsOneKey
  BY BurstSurvives DEF Survives, CutSpoilsOneKey
<1> QED
  BY <1>1, <1>2, <1>3, PTL DEF InputSpec

-----------------------------------------------------------------------------
\* From here on, the editor.  A text of any length.
Text == Seq(Letters)

\* How many of the characters of v before the i-th are ch.
At(v, i, ch) == {j \in 1..(i - 1) : v[j] = ch}
Upto(v, i, ch) == Cardinality(At(v, i, ch))

\* It is a number.
LEMMA UptoType ==
  ASSUME NEW v, NEW i \in Nat \ {0}, NEW ch
  PROVE  IsFiniteSet(At(v, i, ch)) /\ Upto(v, i, ch) \in Nat
<1>1. IsFiniteSet(1..(i - 1))
  BY FS_Interval
<1> QED
  BY <1>1, FS_Subset, FS_CardinalityType DEF At, Upto

\* Counting goes up by one where the character is, and nowhere else.
LEMMA UptoStep ==
  ASSUME NEW v, NEW i \in Nat \ {0}, NEW ch
  PROVE  /\ Upto(v, 1, ch) = 0
         /\ Upto(v, i + 1, ch) = Upto(v, i, ch) + (IF v[i] = ch THEN 1 ELSE 0)
<1>1. At(v, 1, ch) = {}
  BY DEF At
<1>2. At(v, i + 1, ch) = IF v[i] = ch THEN At(v, i, ch) \cup {i} ELSE At(v, i, ch)
  BY DEF At
<1>3. i \notin At(v, i, ch)
  BY DEF At
<1> QED
  BY <1>1, <1>2, <1>3, UptoType, FS_AddElement, FS_EmptySet DEF Upto

\* It never goes down.
LEMMA UptoGrows ==
  ASSUME NEW v, NEW i \in Nat \ {0}, NEW j \in Nat, i <= j, NEW ch
  PROVE  Upto(v, i, ch) <= Upto(v, j, ch)
<1>1. At(v, i, ch) \subseteq At(v, j, ch)
  BY DEF At
<1>2. j \in Nat \ {0}
  OBVIOUS
<1> QED
  BY <1>1, <1>2, UptoType, FS_Subset DEF Upto

\* Only what comes before counts.
LEMMA UptoSame ==
  ASSUME NEW v, NEW w, NEW i \in Nat \ {0}, NEW ch, \A j \in 1..(i - 1) : v[j] = w[j]
  PROVE  Upto(v, i, ch) = Upto(w, i, ch)
<1>1. At(v, i, ch) = At(w, i, ch)
  BY DEF At
<1> QED
  BY <1>1 DEF Upto

\* The first n characters of a text.
LEMMA PrefixProperties ==
  ASSUME NEW v \in Text, NEW n \in 0..Len(v)
  PROVE  /\ SubSeq(v, 1, n) \in Text /\ Len(SubSeq(v, 1, n)) = n /\ DOMAIN SubSeq(v, 1, n) = 1..n
         /\ \A j \in 1..n : SubSeq(v, 1, n)[j] = v[j]
<1>1. Len(v) \in Nat /\ \A j \in 1..n : v[j] \in Letters
  BY LenProperties, ElementOfSeq DEF Text
<1>2. /\ SubSeq(v, 1, n) \in Text
      /\ Len(SubSeq(v, 1, n)) = IF 1 <= n THEN n - 1 + 1 ELSE 0
      /\ \A j \in 1..(n - 1 + 1) : SubSeq(v, 1, n)[j] = v[1 + j - 1]
  BY <1>1, SubSeqProperties DEF Text
<1> QED
  BY <1>1, <1>2, LenProperties DEF Text

-----------------------------------------------------------------------------
\* Byte offsets.
LEMMA IndexIs ==
  ASSUME NEW v \in Text, NEW i \in 1..(Len(v) + 1)
  PROVE  /\ IndexOf(v, i) = i - 1 + Upto(v, i, "e'")
         /\ IndexOf(v, i) \in Nat
<1> DEFINE p == SubSeq(v, 1, i - 1)
<1>0. Len(v) \in Nat
  BY LenProperties DEF Text
<1>1. Len(p) = i - 1 /\ DOMAIN p = 1..(i - 1) /\ \A j \in 1..(i - 1) : p[j] = v[j]
  BY <1>0, PrefixProperties
<1> HIDE DEF p
<1>2. {j \in DOMAIN p : len_utf8(p[j]) = 2} = At(v, i, "e'")
  BY <1>1 DEF len_utf8, At
<1>3. IndexOf(v, i) = i - 1 + Upto(v, i, "e'")
  BY <1>1, <1>2 DEF IndexOf, Size, Upto, p
<1> QED
  BY <1>0, <1>3, UptoType

\* From one character to the next.
LEMMA IndexStep ==
  ASSUME NEW v \in Text, NEW i \in 1..Len(v)
  PROVE  IndexOf(v, i + 1) = IndexOf(v, i) + len_utf8(v[i])
<1>0. Len(v) \in Nat
  BY LenProperties DEF Text
<1>1. Upto(v, i + 1, "e'") = Upto(v, i, "e'") + (IF v[i] = "e'" THEN 1 ELSE 0)
      /\ Upto(v, i, "e'") \in Nat
  BY <1>0, UptoStep, UptoType
<1>2. /\ IndexOf(v, i) = i - 1 + Upto(v, i, "e'")
      /\ IndexOf(v, i + 1) = i + 1 - 1 + Upto(v, i + 1, "e'")
  BY <1>0, IndexIs
<1> QED
  BY <1>0, <1>1, <1>2 DEF len_utf8

\* Offsets grow with the characters, so that an offset belongs to one of them.
LEMMA IndexGrows ==
  ASSUME NEW v \in Text, NEW i \in 1..(Len(v) + 1), NEW j \in 1..(Len(v) + 1), i < j
  PROVE  IndexOf(v, i) < IndexOf(v, j)
<1>0. Len(v) \in Nat
  BY LenProperties DEF Text
<1>1. Upto(v, i, "e'") <= Upto(v, j, "e'") /\ Upto(v, i, "e'") \in Nat /\ Upto(v, j, "e'") \in Nat
  BY <1>0, UptoGrows, UptoType
<1> QED
  BY <1>0, <1>1, IndexIs

\* CharAt undoes IndexOf: every character begins at a byte of its own.
LEMMA CharAtIndex ==
  ASSUME NEW v \in Text, NEW i \in 1..(Len(v) + 1)
  PROVE  CharAt(v, IndexOf(v, i)) = i
<1>0. Len(v) \in Nat
  BY LenProperties DEF Text
<1>1. \A j \in 1..(Len(v) + 1) : IndexOf(v, j) = IndexOf(v, i) => j = i
  <2> SUFFICES ASSUME NEW j \in 1..(Len(v) + 1), IndexOf(v, j) = IndexOf(v, i), j # i
               PROVE FALSE
    OBVIOUS
  <2>1. IndexOf(v, i) \in Nat /\ IndexOf(v, j) \in Nat
    BY IndexIs
  <2> QED
    BY <1>0, <2>1, IndexGrows
<1> QED
  BY <1>1 DEF CharAt

\* A cursor on a boundary stays where it is.
LEMMA NormalCursor ==
  ASSUME NEW v \in Text, NEW i \in 1..(Len(v) + 1), NEW col
  PROVE  normalize_cursor(Input(v, IndexOf(v, i), col)) = Input(v, IndexOf(v, i), col)
<1> DEFINE c == IndexOf(v, i)
           B == Boundaries(v)
<1>1. c \in B /\ \A b \in B : b \in Nat
  BY IndexIs DEF Boundaries
<1> HIDE DEF c, B
<1>2. (CHOOSE b \in B : b <= c /\ \A d \in B : d <= c => d <= b) = c
  BY <1>1
<1>3. normalize_cursor(Input(v, c, col))
        = [Input(v, c, col) EXCEPT !.cursor =
             CHOOSE b \in B : b <= c /\ \A d \in B : d <= c => d <= b]
  <2> DEFINE in == Input(v, c, col)
  <2>1. in.value = v /\ in.cursor = c
    BY DEF Input
  <2> HIDE DEF in
  <2>2. normalize_cursor(in) = [in EXCEPT !.cursor =
             CHOOSE b \in Boundaries(in.value) :
               b <= in.cursor /\ \A d \in Boundaries(in.value) : d <= in.cursor => d <= b]
    BY DEF normalize_cursor
  <2> QED
    BY <2>1, <2>2 DEF in, B
<1>4. [Input(v, c, col) EXCEPT !.cursor = c] = Input(v, c, col)
  BY DEF Input
<1> QED
  BY <1>2, <1>3, <1>4 DEF c

-----------------------------------------------------------------------------
\* Lines.  Breaks counts the line ends before a character.
Ends(v) == {i \in DOMAIN v : v[i] = "nl"} \cup {Len(v) + 1}
Breaks(v, i) == Upto(v, i, "nl")
LineEnd(v, n) == CHOOSE e \in Ends(v) : Cardinality({i \in Ends(v) : i < e}) = n - 1

\* Line ends counted up to a character are no more than those up to a later one.
LEMMA BreaksType ==
  ASSUME NEW v \in Text, NEW i \in 1..(Len(v) + 1)
  PROVE  /\ Breaks(v, i) \in Nat /\ Breaks(v, 1) = 0
         /\ i # Len(v) + 1 => Breaks(v, i + 1) = Breaks(v, i) + (IF v[i] = "nl" THEN 1 ELSE 0)
         /\ \A j \in i..(Len(v) + 1) : Breaks(v, i) <= Breaks(v, j)
<1>1. Len(v) \in Nat /\ i \in Nat \ {0}
  BY LenProperties DEF Text
<1>2. \A j \in i..(Len(v) + 1) : Upto(v, i, "nl") <= Upto(v, j, "nl")
  BY <1>1, UptoGrows
<1> QED
  BY <1>1, <1>2, UptoStep, UptoType DEF Breaks

\* The ends before a character are the breaks before it.
LEMMA EndsBefore ==
  ASSUME NEW v \in Text
  PROVE  /\ \A i \in 1..(Len(v) + 1) : Cardinality({j \in Ends(v) : j < i}) = Breaks(v, i)
         /\ Cardinality(Ends(v)) = Breaks(v, Len(v) + 1) + 1
<1>1. Len(v) \in Nat /\ DOMAIN v = 1..Len(v)
  BY LenProperties DEF Text
<1>2. ASSUME NEW i \in 1..(Len(v) + 1)
      PROVE  {j \in Ends(v) : j < i} = At(v, i, "nl")
  BY <1>1 DEF Ends, At
<1>3. Ends(v) = At(v, Len(v) + 1, "nl") \cup {Len(v) + 1} /\ Len(v) + 1 \notin At(v, Len(v) + 1, "nl")
  BY <1>1 DEF Ends, At
<1>4. IsFiniteSet(At(v, Len(v) + 1, "nl"))
  BY <1>1, UptoType
<1> QED
  BY <1>2, <1>3, <1>4, FS_AddElement DEF Breaks, Upto

\* Every line has one end.
LEMMA LineEndIs ==
  ASSUME NEW v \in Text, NEW n \in 1..Cardinality(Ends(v))
  PROVE  /\ LineEnd(v, n) \in 1..(Len(v) + 1)
         /\ LineEnd(v, n) # Len(v) + 1 => v[LineEnd(v, n)] = "nl"
         /\ Breaks(v, LineEnd(v, n)) = n - 1
<1>1. Len(v) \in Nat /\ DOMAIN v = 1..Len(v)
  BY LenProperties DEF Text
<1>2. /\ Cardinality(Ends(v)) = Breaks(v, Len(v) + 1) + 1
      /\ Breaks(v, Len(v) + 1) \in Nat /\ Breaks(v, 1) = 0
  BY <1>1, EndsBefore, BreaksType
<1> DEFINE T == {i \in 1..(Len(v) + 1) : i = Len(v) + 1 \/ Breaks(v, i + 1) >= n}
<1>3. PICK e \in T : \A y \in T : ~(y < e)
  <2>0. Len(v) + 1 \in T /\ \A i \in T : i \in 1..(Len(v) + 1)
    BY <1>1
  <2>1. T \subseteq Nat /\ T # {}
    BY <2>0, <1>1
  <2> HIDE DEF T
  <2> QED
    BY <2>1, Least
<1>4. Breaks(v, e) <= n - 1 /\ Breaks(v, e) \in Nat
  <2>1. CASE e = 1
    BY <1>2, <2>1
  <2>2. CASE e # 1
    <3>0. e \in 1..(Len(v) + 1)
      OBVIOUS
    <3>1. e - 1 \in 1..(Len(v) + 1) /\ e - 1 \notin T
      <4> HIDE DEF T
      <4> QED
        BY <3>0, <1>1, <1>3, <2>2
    <3>2. ~(Breaks(v, e - 1 + 1) >= n) /\ e - 1 + 1 = e
      BY <3>1, <1>1, <1>3
    <3>3. Breaks(v, e) \in Nat
      BY <1>1, <1>3, BreaksType
    <3> QED
      BY <3>2, <3>3, <1>2
  <2> QED
    BY <2>1, <2>2
<1>5. Breaks(v, e) = n - 1 /\ (e # Len(v) + 1 => v[e] = "nl")
  <2>1. CASE e = Len(v) + 1
    BY <1>2, <1>4, <2>1
  <2>2. CASE e # Len(v) + 1
    <3>1. Breaks(v, e + 1) >= n /\ e \in 1..(Len(v) + 1)
      BY <1>3, <2>2
    <3>2. Breaks(v, e + 1) = Breaks(v, e) + (IF v[e] = "nl" THEN 1 ELSE 0)
      BY <3>1, <2>2, BreaksType
    <3> QED
      BY <3>1, <3>2, <1>4
  <2> QED
    BY <2>1, <2>2
<1>6. e \in Ends(v) /\ Cardinality({i \in Ends(v) : i < e}) = n - 1
  BY <1>1, <1>3, <1>5, EndsBefore DEF Ends
<1> DEFINE f == LineEnd(v, n)
<1>7. f \in Ends(v) /\ Cardinality({i \in Ends(v) : i < f}) = n - 1
  BY <1>6 DEF LineEnd
<1> HIDE DEF f
<1>8. f \in 1..(Len(v) + 1) /\ (f # Len(v) + 1 => v[f] = "nl")
  BY <1>1, <1>7 DEF Ends
<1> QED
  BY <1>7, <1>8, EndsBefore DEF f

\* What line_spans returns: the lines follow one another from the first character
\* to the end, each up to its own line end, and a character is in the line
\* whose number the breaks before it give.
Spans(v, s) ==
    /\ DOMAIN s = 1..Len(s) /\ Len(s) \in Nat /\ Len(s) = Breaks(v, Len(v) + 1) + 1
    /\ s[1].start = 1 /\ s[Len(s)].end = Len(v) + 1
    /\ \A n \in 1..Len(s) :
         /\ s[n].start \in 1..(Len(v) + 1) /\ s[n].end \in s[n].start..(Len(v) + 1)
         /\ n # Len(s) => s[n + 1].start = s[n].end + 1 /\ v[s[n].end] = "nl" /\ s[n].end \in 1..Len(v)
         /\ \A i \in 1..(Len(v) + 1) : i \in s[n].start..s[n].end <=> Breaks(v, i) = n - 1
         /\ \A i \in s[n].start..(s[n].end - 1) : v[i] # "nl"

\* line_spans as numbers of characters: one line more than there are line ends.
LEMMA SpansAre ==
  ASSUME NEW v \in Text
  PROVE  Spans(v, line_spans(v))
<1> DEFINE s == line_spans(v)
           L == Len(v)
           K == Cardinality(Ends(v))
           end(n) == LineEnd(v, n)
<1>1. L \in Nat /\ DOMAIN v = 1..L
  BY LenProperties DEF Text
<1>2. K = Breaks(v, L + 1) + 1 /\ Breaks(v, L + 1) \in Nat
  BY <1>1, EndsBefore, BreaksType
<1>3. s = [n \in 1..K |-> [start |-> IF n = 1 THEN 1 ELSE LineEnd(v, n - 1) + 1, end |-> LineEnd(v, n)]]
  BY Zenon DEF line_spans, Ends, LineEnd
<1>4. Len(s) = K /\ DOMAIN s = 1..K
  BY <1>2, <1>3
<1>5. \A n \in 1..K : /\ LineEnd(v, n) \in 1..(L + 1)
                      /\ LineEnd(v, n) # L + 1 => v[LineEnd(v, n)] = "nl"
                      /\ Breaks(v, LineEnd(v, n)) = n - 1
  BY LineEndIs
<1>6. \A n \in 1..K : /\ s[n].start = IF n = 1 THEN 1 ELSE LineEnd(v, n - 1) + 1
                      /\ s[n].end = LineEnd(v, n)
  BY <1>3
<1> HIDE DEF s, L, K
<1>7. \A i \in 1..(L + 1) :
        /\ Breaks(v, i) \in Nat /\ Breaks(v, 1) = 0
        /\ i # L + 1 => Breaks(v, i + 1) = Breaks(v, i) + (IF v[i] = "nl" THEN 1 ELSE 0)
        /\ \A j \in i..(L + 1) : Breaks(v, i) <= Breaks(v, j)
  BY BreaksType DEF L
<1>8. \A n \in 1..K : n # K => LineEnd(v, n) \in 1..L
  <2> SUFFICES ASSUME NEW n \in 1..K, n # K, LineEnd(v, n) = L + 1 PROVE FALSE
    BY <1>1, <1>5
  <2> QED
    BY <1>2, <1>5
<1>9. ASSUME NEW n \in 1..K
      PROVE  s[n].start \in 1..(L + 1) /\ Breaks(v, s[n].start) = n - 1
  <2>1. CASE n = 1
    BY <2>1, <1>1, <1>6, <1>7
  <2>2. CASE n # 1
    <3> DEFINE e == LineEnd(v, n - 1)
    <3>1. n - 1 \in 1..K /\ n - 1 # K
      BY <2>2, <1>2
    <3>2. e \in 1..L /\ v[e] = "nl" /\ Breaks(v, e) = (n - 1) - 1
      BY <3>1, <1>1, <1>5, <1>8
    <3>3. s[n].start = e + 1
      BY <2>2, <1>6
    <3> HIDE DEF e
    <3>4. Breaks(v, e + 1) = Breaks(v, e) + 1
      BY <3>2, <1>1, <1>7
    <3> QED
      BY <3>2, <3>3, <3>4, <1>1, <1>2
  <2> QED
    BY <2>1, <2>2
<1>10. ASSUME NEW n \in 1..K, NEW i \in 1..(L + 1)
       PROVE  i \in s[n].start..s[n].end <=> Breaks(v, i) = n - 1
  <2> DEFINE a == s[n].start
             b == s[n].end
  <2>1. a \in 1..(L + 1) /\ Breaks(v, a) = n - 1 /\ b \in 1..(L + 1) /\ Breaks(v, b) = n - 1
        /\ (b # L + 1 => v[b] = "nl")
    BY <1>5, <1>6, <1>9
  <2>2. n # 1 => a - 1 \in 1..L /\ Breaks(v, a - 1) = n - 2
    <3> SUFFICES ASSUME n # 1 PROVE a - 1 \in 1..L /\ Breaks(v, a - 1) = n - 2
      OBVIOUS
    <3>1. n - 1 \in 1..K /\ n - 1 # K
      BY <1>2
    <3>2. a = LineEnd(v, n - 1) + 1
      BY <1>6
    <3> QED
      BY <3>1, <3>2, <1>1, <1>5, <1>8
  <2>3. n = 1 => a = 1
    BY <1>6
  <2> HIDE DEF a, b
  <2>4. CASE i < a
    <3>1. n # 1
      BY <2>3, <2>4
    <3>2. a - 1 \in 1..L /\ Breaks(v, a - 1) = n - 2
      BY <3>1, <2>2
    <3>3. a - 1 \in i..(L + 1)
      BY <3>2, <2>4, <2>1, <1>1
    <3>4. Breaks(v, i) <= Breaks(v, a - 1) /\ Breaks(v, i) \in Nat
      BY <3>3, <1>7
    <3> QED
      BY <3>2, <3>4, <2>4, <2>1, <1>1, <1>2 DEF a, b
  <2>5. CASE i > b
    <3>1. b # L + 1 /\ b + 1 \in 1..(L + 1) /\ i \in (b + 1)..(L + 1)
      BY <2>1, <2>5, <1>1
    <3>2. Breaks(v, b + 1) = n - 1 + 1
      BY <3>1, <2>1, <1>7
    <3>3. Breaks(v, b + 1) <= Breaks(v, i) /\ Breaks(v, i) \in Nat
      BY <3>1, <1>7
    <3> QED
      BY <3>2, <3>3, <2>5, <2>1, <1>1, <1>2 DEF a, b
  <2>6. CASE a <= i /\ i <= b
    <3>1. Breaks(v, a) <= Breaks(v, i) /\ Breaks(v, i) <= Breaks(v, b) /\ Breaks(v, i) \in Nat
      BY <2>1, <2>6, <1>1, <1>7
    <3> QED
      BY <3>1, <2>1, <2>6, <1>1, <1>2 DEF a, b
  <2> QED
    BY <2>1, <2>4, <2>5, <2>6, <1>1
<1>11. ASSUME NEW n \in 1..K
       PROVE  s[n].end \in s[n].start..(L + 1) /\ \A i \in s[n].start..(s[n].end - 1) : v[i] # "nl"
  <2> DEFINE a == s[n].start
             b == s[n].end
  <2>1. a \in 1..(L + 1) /\ b \in 1..(L + 1) /\ Breaks(v, b) = n - 1
    BY <1>5, <1>6, <1>9
  <2>2. \A i \in 1..(L + 1) : i \in a..b <=> Breaks(v, i) = n - 1
    BY <1>10
  <2> HIDE DEF a, b
  <2>3. b \in a..b
    BY <2>1, <2>2
  <2>4. ASSUME NEW i \in a..(b - 1) PROVE v[i] # "nl"
    <3>1. i \in 1..(L + 1) /\ i # L + 1 /\ i \in a..b /\ i + 1 \in 1..(L + 1) /\ i + 1 \in a..b
      BY <2>1, <1>1
    <3>2. Breaks(v, i) = n - 1 /\ Breaks(v, i + 1) = n - 1
      BY <3>1, <2>2
    <3>3. Breaks(v, i + 1) = Breaks(v, i) + (IF v[i] = "nl" THEN 1 ELSE 0)
      BY <3>1, <1>7
    <3> QED
      BY <3>2, <3>3, <1>2
  <2> QED
    BY <2>1, <2>3, <2>4, <1>1 DEF a, b
<1>12. ASSUME NEW n \in 1..K, n # K
       PROVE  s[n + 1].start = s[n].end + 1 /\ v[s[n].end] = "nl" /\ s[n].end \in 1..L
  <2>1. n + 1 \in 1..K /\ n + 1 # 1 /\ n + 1 - 1 = n
    BY <1>12, <1>2
  <2> QED
    BY <2>1, <1>12, <1>1, <1>5, <1>6, <1>8
<1>13. s[1].start = 1 /\ s[K].end = L + 1
  <2>1. 1 \in 1..K /\ K \in 1..K
    BY <1>2
  <2>2. s[K].end \in 1..(L + 1) /\ Breaks(v, L + 1) = K - 1
    BY <2>1, <1>2, <1>5, <1>6
  <2>3. L + 1 \in s[K].start..s[K].end
    BY <2>1, <2>2, <1>1, <1>10
  <2>4. s[K].start \in 1..(L + 1)
    BY <2>1, <1>9
  <2> QED
    BY <2>1, <2>2, <2>3, <2>4, <1>1, <1>6
<1>14. \A n \in 1..K : /\ s[n].start \in 1..(L + 1) /\ s[n].end \in s[n].start..(L + 1)
                       /\ \A i \in s[n].start..(s[n].end - 1) : v[i] # "nl"
  BY <1>9, <1>11
<1>15. Spans(v, s)
  BY <1>2, <1>4, <1>10, <1>12, <1>13, <1>14 DEF Spans, L
<1> QED
  BY <1>15 DEF s

-----------------------------------------------------------------------------
\* The line of a character: it begins after the last break before it.
LEMMA RowStart ==
  ASSUME NEW v \in Text, NEW c \in 1..(Len(v) + 1)
  PROVE  LET row == Breaks(v, c) + 1
             start == line_spans(v)[row].start
         IN  /\ row \in 1..Len(line_spans(v))
             /\ start \in 1..c /\ c \in start..line_spans(v)[row].end
             /\ \A i \in start..(c - 1) : v[i] # "nl"
             /\ start # 1 => start - 1 \in 1..Len(v) /\ v[start - 1] = "nl"
<1> DEFINE s == line_spans(v)
           L == Len(v)
           row == Breaks(v, c) + 1
           start == s[row].start
<1>1. L \in Nat /\ DOMAIN v = 1..L
  BY LenProperties DEF Text
<1>2. Spans(v, s)
  BY SpansAre
<1>3. row \in 1..Len(s) /\ c \in start..s[row].end
  <2>1. /\ Breaks(v, c) \in Nat /\ Breaks(v, L + 1) \in Nat /\ Breaks(v, c) <= Breaks(v, L + 1)
    BY <1>1, BreaksType
  <2>2. row \in 1..Len(s)
    BY <2>1, <1>2 DEF Spans
  <2>3. \A i \in 1..(Len(v) + 1) : i \in s[row].start..s[row].end <=> Breaks(v, i) = row - 1
    BY <2>2, <1>2 DEF Spans
  <2> QED
    BY <2>1, <2>2, <2>3
<1>4. /\ start \in 1..(L + 1) /\ s[row].end \in start..(L + 1)
      /\ \A i \in start..(s[row].end - 1) : v[i] # "nl"
      /\ s[1].start = 1
  BY <1>2, <1>3 DEF Spans
<1>5. start # 1 => start - 1 \in 1..L /\ v[start - 1] = "nl"
  <2> SUFFICES ASSUME row # 1 PROVE start - 1 \in 1..L /\ v[start - 1] = "nl"
    BY <1>4
  <2>1. row - 1 \in 1..Len(s) /\ row - 1 # Len(s) /\ row - 1 + 1 = row
    BY <1>2, <1>3 DEF Spans
  <2>2. s[row - 1 + 1].start = s[row - 1].end + 1 /\ v[s[row - 1].end] = "nl" /\ s[row - 1].end \in 1..L
    BY <2>1, <1>2 DEF Spans
  <2> QED
    BY <2>1, <2>2, <1>1, SMTT(30)
<1> HIDE DEF row, s, L
<1>6. start \in 1..c /\ \A i \in start..(c - 1) : v[i] # "nl"
  BY <1>1, <1>3, <1>4 DEF L
<1> QED
  BY <1>3, <1>5, <1>6 DEF row, s, L

\* How many characters of its line are before a character.
LEMMA ColumnIs ==
  ASSUME NEW v \in Text, NEW c \in 1..(Len(v) + 1), NEW C,
         \A i : i \in C <=> i \in 1..(c - 1) /\ \A j \in i..(c - 1) : v[j] # "nl"
  PROVE  Cardinality(C) = c - line_spans(v)[Breaks(v, c) + 1].start
<1> DEFINE start == line_spans(v)[Breaks(v, c) + 1].start
<1>1. /\ start \in 1..c /\ Len(v) \in Nat
      /\ \A i \in start..(c - 1) : v[i] # "nl"
      /\ start # 1 => v[start - 1] = "nl"
  BY RowStart, LenProperties DEF Text
<1> HIDE DEF start
<1>2. C = start..(c - 1)
  <2>1. ASSUME NEW i \in C PROVE i \in start..(c - 1)
    <3> SUFFICES ASSUME i < start PROVE FALSE
      BY <1>1
    <3>1. start # 1 /\ start - 1 \in i..(c - 1)
      BY <1>1
    <3> QED
      BY <3>1, <1>1
  <2>2. ASSUME NEW i \in start..(c - 1) PROVE i \in C
    BY <1>1
  <2> QED
    BY <2>1, <2>2
<1>3. start \in Int /\ c - 1 \in Int /\ start <= c
  BY <1>1
<1>4. Cardinality(start..(c - 1)) = c - start
  BY <1>3, FS_Interval
<1> QED
  BY <1>2, <1>4 DEF start

\* The cursor's row is the line whose breaks it has passed, its column the
\* characters of that line it has passed.
LEMMA CursorIs ==
  ASSUME NEW v \in Text, NEW c \in 1..(Len(v) + 1), NEW col
  PROVE  LET row == Breaks(v, c) + 1
         IN  cursor_position(Input(v, IndexOf(v, c), col))
               = [row |-> row, col |-> c - line_spans(v)[row].start]
<1> DEFINE L == Len(v)
           row == Breaks(v, c) + 1
           before == {i \in DOMAIN v : IndexOf(v, i) < IndexOf(v, c)}
           breaks == {i \in before : v[i] = "nl"}
           C == {i \in before : \A b \in breaks : i > b}
<1>1. L \in Nat /\ DOMAIN v = 1..L
  BY LenProperties DEF Text
<1>2. before = 1..(c - 1)
  <2>1. ASSUME NEW i \in 1..L PROVE IndexOf(v, i) < IndexOf(v, c) <=> i < c
    <3>1. IndexOf(v, i) \in Nat /\ IndexOf(v, c) \in Nat
      BY <1>1, IndexIs
    <3>2. i < c => IndexOf(v, i) < IndexOf(v, c)
      BY <1>1, IndexGrows
    <3>3. c < i => IndexOf(v, c) < IndexOf(v, i)
      BY <1>1, IndexGrows
    <3> QED
      BY <3>1, <3>2, <3>3, <1>1
  <2>2. \A i : i \in before <=> i \in 1..L /\ i < c
    BY <2>1, <1>1
  <2> HIDE DEF before
  <2>3. \A i : i \in 1..L /\ i < c <=> i \in 1..(c - 1)
    BY <1>1
  <2> QED
    BY <2>2, <2>3
<1>3. breaks = At(v, c, "nl")
  BY <1>2 DEF At
<1>4. \A i : i \in C <=> i \in 1..(c - 1) /\ \A j \in i..(c - 1) : v[j] # "nl"
  <2>1. \A b : b \in breaks <=> b \in 1..(c - 1) /\ v[b] = "nl"
    BY <1>2
  <2>2. \A i : i \in C <=> i \in 1..(c - 1) /\ \A b \in breaks : i > b
    BY <1>2
  <2> HIDE DEF before, breaks, C
  <2> QED
    BY <2>1, <2>2, <1>1
<1>5. Cardinality(C) = c - line_spans(v)[row].start
  <2> HIDE DEF C
  <2> QED
    BY <1>4, ColumnIs
<1>6. cursor_position(Input(v, IndexOf(v, c), col))
        = [row |-> Cardinality(breaks) + 1, col |-> Cardinality(C)]
  BY Zenon DEF cursor_position, Input
<1>7. Cardinality(breaks) = Breaks(v, c)
  BY <1>3 DEF Breaks, Upto
<1> QED
  BY <1>5, <1>6, <1>7

-----------------------------------------------------------------------------
\* A text with one more character in it.
LEMMA InsertProperties ==
  ASSUME NEW S, NEW s \in Seq(S), NEW i \in 1..(Len(s) + 1), NEW e \in S
  PROVE  /\ InsertAt(s, i, e) \in Seq(S) /\ Len(InsertAt(s, i, e)) = Len(s) + 1
         /\ \A j \in 1..(Len(s) + 1) :
              InsertAt(s, i, e)[j] = IF j < i THEN s[j] ELSE IF j = i THEN e ELSE s[j - 1]
<1> DEFINE a == SubSeq(s, 1, i - 1)
           b == From(s, i)
           m == <<e>>
<1>1. Len(s) \in Nat
  BY LenProperties
<1>2. a \in Seq(S) /\ Len(a) = i - 1 /\ \A j \in 1..(i - 1) : a[j] = s[j]
  <2>1. \A k \in 1..(i - 1) : s[k] \in S
    BY <1>1, ElementOfSeq
  <2>2. 1 \in Int /\ i - 1 \in Int
    OBVIOUS
  <2>3. /\ a \in Seq(S)
        /\ Len(a) = IF 1 <= i - 1 THEN i - 1 - 1 + 1 ELSE 0
        /\ \A j \in 1..(i - 1 - 1 + 1) : a[j] = s[1 + j - 1]
    BY <2>1, <2>2, SubSeqProperties
  <2> HIDE DEF a
  <2> QED
    BY <2>3, <1>1
<1>3. b \in Seq(S) /\ Len(b) = Len(s) - i + 1 /\ \A j \in 1..(Len(s) - i + 1) : b[j] = s[i + j - 1]
  BY <1>1, FromProperties
<1>4. m \in Seq(S) /\ Len(m) = 1 /\ m[1] = e
  OBVIOUS
<1>5. InsertAt(s, i, e) = (a \o m) \o b
  BY DEF InsertAt, From
<1> HIDE DEF a, b, m
<1>6. /\ a \o m \in Seq(S) /\ Len(a \o m) = i
      /\ \A j \in 1..i : (a \o m)[j] = IF j < i THEN s[j] ELSE e
  <2>1. /\ a \o m \in Seq(S) /\ Len(a \o m) = Len(a) + Len(m)
        /\ \A j \in 1..(Len(a) + Len(m)) :
             (a \o m)[j] = IF j <= Len(a) THEN a[j] ELSE m[j - Len(a)]
    BY <1>2, <1>4, ConcatProperties
  <2>2. Len(a) + Len(m) = i /\ Len(a) = i - 1 /\ i \in Nat
    BY <1>1, <1>2, <1>4
  <2>3. ASSUME NEW j \in 1..i PROVE (a \o m)[j] = IF j < i THEN s[j] ELSE e
    <3>1. CASE j < i
      BY <2>1, <2>2, <3>1, <1>2
    <3>2. CASE j = i
      <4>1. (a \o m)[j] = m[j - Len(a)] /\ j - Len(a) = 1
        BY <2>1, <2>2, <3>2
      <4> QED
        BY <4>1, <3>2, <2>2, <1>4
    <3> QED
      BY <3>1, <3>2, <2>2
  <2> QED
    BY <2>1, <2>2, <2>3
<1>7. /\ (a \o m) \o b \in Seq(S) /\ Len((a \o m) \o b) = Len(s) + 1
      /\ \A j \in 1..(Len(s) + 1) :
           ((a \o m) \o b)[j] = IF j <= i THEN (a \o m)[j] ELSE b[j - i]
  <2> DEFINE l == a \o m
  <2>1. l \in Seq(S) /\ Len(l) = i
    BY <1>6
  <2> HIDE DEF l
  <2>2. l \o b \in Seq(S) /\ Len(l \o b) = Len(l) + Len(b)
        /\ \A j \in 1..(Len(l) + Len(b)) : (l \o b)[j] = IF j <= Len(l) THEN l[j] ELSE b[j - Len(l)]
    BY <2>1, <1>3, ConcatProperties
  <2>3. Len(l) + Len(b) = Len(s) + 1
    BY <2>1, <1>1, <1>3
  <2> QED
    BY <2>1, <2>2, <2>3 DEF l
<1>8. ASSUME NEW j \in 1..(Len(s) + 1)
      PROVE  ((a \o m) \o b)[j] = IF j < i THEN s[j] ELSE IF j = i THEN e ELSE s[j - 1]
  <2>0. j \in Nat /\ i \in Nat
    BY <1>1
  <2>1. CASE j <= i
    <3>1. j \in 1..i
      BY <2>0, <2>1
    <3> QED
      BY <3>1, <2>0, <2>1, <1>1, <1>6, <1>7
  <2>2. CASE j > i
    <3>1. j - i \in 1..(Len(s) - i + 1) /\ i + (j - i) - 1 = j - 1
      BY <2>2, <1>1
    <3> QED
      BY <3>1, <2>2, <1>1, <1>3, <1>7
  <2>3. j <= i \/ j > i
    BY <2>0
  <2> QED
    BY <2>1, <2>2, <2>3, Zenon
<1> QED
  BY <1>5, <1>7, <1>8

\* A sequence that was cut in pieces is what its pieces make.
LEMMA JoinCuts ==
  ASSUME NEW S, NEW w \in Seq(S), NEW seqs \in Seq(Seq(S)), seqs # <<>>,
         NEW b \in [0..Len(seqs) -> 0..Len(w)], b[0] = 0, b[Len(seqs)] = Len(w),
         \A n \in 1..Len(seqs) : b[n - 1] <= b[n] /\ seqs[n] = SubSeq(w, b[n - 1] + 1, b[n])
  PROVE  FlattenSeq(seqs) = w
<1>1. Len(w) \in Nat /\ Len(seqs) \in Nat \ {0}
  BY LenProperties, EmptySeq
<1>2. PICK f : Joins(f, seqs) /\ FlattenSeq(seqs) = f[Len(seqs)]
  BY FlattenDef
<1>3. \A n \in 1..Len(seqs) : f[n] = IF n = 1 THEN seqs[n] ELSE f[n - 1] \o seqs[n]
  BY <1>2 DEF Joins
<1> DEFINE P == {n \in Nat : n + 1 <= Len(seqs) => f[n + 1] = SubSeq(w, 1, b[n + 1])}
<1>4. 0 \in P
  <2>1. f[1] = SubSeq(w, 1, b[1])
    <3>1. 1 \in 1..Len(seqs) /\ 1 - 1 = 0
      BY <1>1
    <3>2. f[1] = seqs[1] /\ seqs[1] = SubSeq(w, b[1 - 1] + 1, b[1])
      BY <3>1, <1>3
    <3>3. b[1 - 1] + 1 = 1
      BY <3>1
    <3> QED
      BY <3>2, <3>3
  <2>2. 0 + 1 = 1
    OBVIOUS
  <2> SUFFICES f[0 + 1] = SubSeq(w, 1, b[0 + 1])
    OBVIOUS
  <2> QED
    BY <2>1, <2>2
<1>5. ASSUME NEW n \in Nat, n \in P PROVE n + 1 \in P
  <2> SUFFICES ASSUME n + 2 <= Len(seqs) PROVE f[n + 2] = SubSeq(w, 1, b[n + 2])
    OBVIOUS
  <2>1. f[n + 1] = SubSeq(w, 1, b[n + 1])
    BY <1>1, <1>5
  <2>2. n + 2 \in 1..Len(seqs) /\ n + 2 # 1 /\ n + 2 - 1 = n + 1
    BY <1>1
  <2>3. f[n + 2] = f[n + 1] \o seqs[n + 2] /\ seqs[n + 2] = SubSeq(w, b[n + 1] + 1, b[n + 2])
        /\ b[n + 1] <= b[n + 2]
    <3>1. PICK m \in 1..Len(seqs) : m = n + 2
      BY <2>2
    <3>2. m # 1 /\ m - 1 = n + 1
      BY <3>1
    <3>3. f[m] = f[m - 1] \o seqs[m]
      BY <1>3, <3>2
    <3>4. seqs[m] = SubSeq(w, b[m - 1] + 1, b[m]) /\ b[m - 1] <= b[m]
      OBVIOUS
    <3> QED
      BY <3>1, <3>2, <3>3, <3>4
  <2>4. b[n + 1] \in 0..Len(w) /\ b[n + 2] \in 0..Len(w)
    <3>1. n + 1 \in 0..Len(seqs) /\ n + 2 \in 0..Len(seqs)
      BY <2>2, <1>1
    <3> QED
      BY <3>1
  <2> DEFINE k == b[n + 1]
             l == b[n + 2]
  <2>5. k \in 0..Len(w) /\ l \in 0..Len(w) /\ k <= l
    BY <2>3, <2>4
  <2> HIDE DEF k, l
  <2>6. 1 \in 1..(Len(w) + 1) /\ k \in (1 - 1)..Len(w) /\ l \in k..Len(w)
    BY <2>5, <1>1
  <2>7. SubSeq(w, 1, k) \o SubSeq(w, k + 1, l) = SubSeq(w, 1, l)
    BY <2>6, ConcatAdjacentSubSeq
  <2> QED
    BY <2>1, <2>3, <2>7 DEF k, l
<1> HIDE DEF P
<1>6. Nat \subseteq P
  BY <1>4, <1>5, Induction
<1>7. Len(seqs) - 1 \in P /\ Len(seqs) - 1 + 1 = Len(seqs)
  BY <1>1, <1>6
<1>8. f[Len(seqs)] = SubSeq(w, 1, Len(w))
  BY <1>1, <1>7 DEF P
<1> QED
  BY <1>2, <1>8, SubSeqFull

-----------------------------------------------------------------------------
\* The lines before the cursor's end before it, those after it begin after it.
LEMMA LinesBeside ==
  ASSUME NEW v \in Text, NEW c \in 1..(Len(v) + 1), NEW s, Spans(v, s), NEW n \in 1..Len(s)
  PROVE  /\ n < Breaks(v, c) + 1 => s[n].end < c
         /\ n > Breaks(v, c) + 1 => s[n].start > c
         /\ n = Breaks(v, c) + 1 => s[n].start <= c /\ c <= s[n].end
<1> DEFINE a == s[n].start
           b == s[n].end
<1>1. Len(v) \in Nat /\ Breaks(v, c) \in Nat
  BY LenProperties, BreaksType DEF Text
<1>2. /\ a \in 1..(Len(v) + 1) /\ b \in a..(Len(v) + 1)
      /\ \A i \in 1..(Len(v) + 1) : i \in a..b <=> Breaks(v, i) = n - 1
  BY DEF Spans
<1> HIDE DEF a, b
<1>3. Breaks(v, a) = n - 1 /\ Breaks(v, b) = n - 1 /\ n \in Nat
  <2>1. a \in a..b /\ b \in a..b /\ b \in 1..(Len(v) + 1)
    BY <1>1, <1>2
  <2> QED
    BY <2>1, <1>2, <1>1 DEF Spans
<1>4. ASSUME n < Breaks(v, c) + 1 PROVE b < c
  <2> SUFFICES ASSUME c <= b PROVE FALSE
    BY <1>1, <1>2
  <2>1. b \in c..(Len(v) + 1)
    BY <1>1, <1>2
  <2>2. Breaks(v, c) <= Breaks(v, b)
    BY <2>1, BreaksType
  <2> QED
    BY <2>2, <1>1, <1>3, <1>4
<1>5. ASSUME n > Breaks(v, c) + 1 PROVE a > c
  <2> SUFFICES ASSUME a <= c PROVE FALSE
    BY <1>1, <1>2
  <2>1. c \in a..(Len(v) + 1)
    BY <1>1, <1>2
  <2>2. Breaks(v, a) <= Breaks(v, c)
    BY <2>1, <1>2, BreaksType
  <2> QED
    BY <2>2, <1>1, <1>3, <1>5
<1>6. ASSUME n = Breaks(v, c) + 1 PROVE a <= c /\ c <= b
  BY <1>1, <1>2, <1>6
<1> QED
  BY <1>4, <1>5, <1>6 DEF a, b

\* Two sequences that agree from here to there, one of them moved by d.
LEMMA SubSeqSame ==
  ASSUME NEW S, NEW x \in Seq(S), NEW y \in Seq(S), NEW d \in Nat,
         NEW p \in 1..(Len(x) + 1), NEW q \in (p - 1)..Len(x), q + d <= Len(y),
         \A j \in p..q : x[j] = y[j + d]
  PROVE  SubSeq(x, p, q) = SubSeq(y, p + d, q + d)
<1>1. Len(x) \in Nat /\ Len(y) \in Nat /\ p \in Int /\ q \in Int /\ p + d \in Int /\ q + d \in Int
  BY LenProperties
<1>2. (\A i \in p..q : x[i] \in S) /\ \A i \in (p + d)..(q + d) : y[i] \in S
  BY <1>1, ElementOfSeq
<1>3. /\ SubSeq(x, p, q) \in Seq(S)
      /\ Len(SubSeq(x, p, q)) = IF p <= q THEN q - p + 1 ELSE 0
      /\ \A i \in 1..(q - p + 1) : SubSeq(x, p, q)[i] = x[p + i - 1]
  BY <1>1, <1>2, SubSeqProperties
<1>4. PICK m \in Int, n \in Int : m = p + d /\ n = q + d
  BY <1>1
<1>5. /\ SubSeq(y, m, n) \in Seq(S)
      /\ Len(SubSeq(y, m, n)) = IF m <= n THEN n - m + 1 ELSE 0
      /\ \A i \in 1..(n - m + 1) : SubSeq(y, m, n)[i] = y[m + i - 1]
  <2>1. \A i \in m..n : y[i] \in S
    BY <1>2, <1>4
  <2> QED
    BY <2>1, SubSeqProperties
<1> DEFINE l == SubSeq(x, p, q)
           r == SubSeq(y, m, n)
<1>6. Len(l) = q - p + 1 /\ Len(r) = q - p + 1 /\ q - p + 1 = n - m + 1
  BY <1>1, <1>3, <1>4, <1>5
<1>7. ASSUME NEW i \in 1..(q - p + 1) PROVE l[i] = r[i]
  <2>1. l[i] = x[p + i - 1] /\ p + i - 1 \in p..q
    BY <1>1, <1>3
  <2>2. r[i] = y[m + i - 1] /\ m + i - 1 = (p + i - 1) + d
    BY <1>1, <1>4, <1>5, <1>6
  <2> QED
    BY <2>1, <2>2
<1>8. l \in Seq(S) /\ r \in Seq(S)
  BY <1>3, <1>5
<1> HIDE DEF l, r
<1>9. l = r
  BY <1>6, <1>7, <1>8, SeqEqual
<1> QED
  BY <1>4, <1>9 DEF l, r

Screen == Letters \cup {"|"}
LineOf(v, s, n) == SubSeq(v, s[n].start, s[n].end - 1)

\* A bar put into a text.
LEMMA Barred ==
  ASSUME NEW x \in Seq(Screen), NEW k \in 1..(Len(x) + 1)
  PROVE  /\ InsertAt(x, k, "|") \in Seq(Screen) /\ Len(InsertAt(x, k, "|")) = Len(x) + 1
         /\ \A j \in 1..(Len(x) + 1) : InsertAt(x, k, "|")[j] =
              IF j < k THEN x[j] ELSE IF j = k THEN "|" ELSE x[j - 1]
<1>1. "|" \in Screen
  BY DEF Screen
<1> QED
  BY <1>1, InsertProperties

\* A line as it is drawn is a piece of the text with the bar in it.
LEMMA DrawnLine ==
  ASSUME NEW v \in Text, NEW c \in 1..(Len(v) + 1), NEW s, Spans(v, s), NEW n \in 1..Len(s)
  PROVE  LET row == Breaks(v, c) + 1
             w == InsertAt(v, c, "|")
         IN  /\ n < row => LineOf(v, s, n) = SubSeq(w, s[n].start, s[n].end - 1)
             /\ n > row => LineOf(v, s, n) = SubSeq(w, s[n].start + 1, s[n].end)
             /\ n = row => InsertAt(LineOf(v, s, n), c - s[n].start + 1, "|")
                             = SubSeq(w, s[n].start, s[n].end)
<1> DEFINE w == InsertAt(v, c, "|")
           a == s[n].start
           b == s[n].end
           row == Breaks(v, c) + 1
<1>1. Len(v) \in Nat /\ row \in Nat
  BY LenProperties, BreaksType DEF Text
<1>2. a \in 1..(Len(v) + 1) /\ b \in a..(Len(v) + 1)
  BY DEF Spans
<1>3. /\ n < row => b < c
      /\ n > row => a > c
      /\ n = row => a <= c /\ c <= b
  BY LinesBeside
<1>4. v \in Seq(Screen) /\ "|" \in Screen
  BY SeqMonotonic DEF Text, Screen
<1>5. /\ w \in Seq(Screen) /\ Len(w) = Len(v) + 1
      /\ \A j \in 1..(Len(v) + 1) : w[j] = IF j < c THEN v[j] ELSE IF j = c THEN "|" ELSE v[j - 1]
  BY <1>4, Barred
<1> HIDE DEF w, a, b, row
<1>6. ASSUME n < row PROVE SubSeq(v, a, b - 1) = SubSeq(w, a, b - 1)
  <2>1. \A j \in a..(b - 1) : v[j] = w[j + 0]
    BY <1>1, <1>2, <1>3, <1>5, <1>6
  <2>2. b - 1 \in (a - 1)..Len(v) /\ b - 1 + 0 <= Len(w)
    BY <1>1, <1>2, <1>3, <1>5, <1>6
  <2>3. SubSeq(v, a, b - 1) = SubSeq(w, a + 0, (b - 1) + 0)
    BY <2>1, <2>2, <1>2, <1>4, <1>5, SubSeqSame
  <2>4. a + 0 = a /\ (b - 1) + 0 = b - 1
    BY <1>1, <1>2
  <2> QED
    BY <2>3, <2>4
<1>7. ASSUME n > row PROVE SubSeq(v, a, b - 1) = SubSeq(w, a + 1, b)
  <2>1. ASSUME NEW j \in a..(b - 1) PROVE v[j] = w[j + 1]
    <3>1. j + 1 \in 1..(Len(v) + 1) /\ ~(j + 1 < c) /\ j + 1 # c /\ j + 1 - 1 = j
      BY <1>1, <1>2, <1>3, <1>7
    <3>2. PICK k \in 1..(Len(v) + 1) : k = j + 1
      BY <3>1
    <3>3. w[k] = v[k - 1] /\ k - 1 = j
      BY <3>1, <3>2, <1>5
    <3> QED
      BY <3>2, <3>3
  <2>2. b - 1 \in (a - 1)..Len(v) /\ b - 1 + 1 <= Len(w)
    BY <1>1, <1>2, <1>5
  <2>3. SubSeq(v, a, b - 1) = SubSeq(w, a + 1, (b - 1) + 1)
    BY <2>1, <2>2, <1>2, <1>4, <1>5, SubSeqSame
  <2>4. (b - 1) + 1 = b
    BY <1>1, <1>2
  <2> QED
    BY <2>3, <2>4
<1>8. ASSUME n = row PROVE InsertAt(SubSeq(v, a, b - 1), c - a + 1, "|") = SubSeq(w, a, b)
  <2> DEFINE l == SubSeq(v, a, b - 1)
             m == InsertAt(l, c - a + 1, "|")
             r == SubSeq(w, a, b)
  <2>1. a <= c /\ c <= b /\ a \in Int /\ b \in Int /\ b - 1 \in Int /\ a <= b
    BY <1>1, <1>2, <1>3, <1>8
  <2>2. l \in Seq(Screen) /\ Len(l) = b - a /\ \A i \in 1..(b - a) : l[i] = v[a + i - 1]
    <3>1. \A i \in a..(b - 1) : v[i] \in Screen
      BY <1>1, <1>2, <1>4, ElementOfSeq
    <3>2. /\ l \in Seq(Screen)
          /\ Len(l) = IF a <= b - 1 THEN b - 1 - a + 1 ELSE 0
          /\ \A i \in 1..(b - 1 - a + 1) : l[i] = v[a + i - 1]
      BY <2>1, <3>1, SubSeqProperties
    <3> QED
      BY <2>1, <3>2
  <2>3. r \in Seq(Screen) /\ Len(r) = b - a + 1 /\ \A i \in 1..(b - a + 1) : r[i] = w[a + i - 1]
    <3>1. \A i \in a..b : w[i] \in Screen
      BY <1>1, <1>2, <1>5, ElementOfSeq
    <3>2. /\ r \in Seq(Screen)
          /\ Len(r) = IF a <= b THEN b - a + 1 ELSE 0
          /\ \A i \in 1..(b - a + 1) : r[i] = w[a + i - 1]
      BY <2>1, <3>1, SubSeqProperties
    <3> QED
      BY <2>1, <3>2
  <2> HIDE DEF l, r
  <2>4. PICK e \in 1..(Len(l) + 1) : e = c - a + 1
    BY <2>1, <2>2, <1>1
  <2>5. /\ m \in Seq(Screen) /\ Len(m) = b - a + 1
        /\ \A j \in 1..(b - a + 1) :
             m[j] = IF j < c - a + 1 THEN l[j] ELSE IF j = c - a + 1 THEN "|" ELSE l[j - 1]
    <3>1. /\ InsertAt(l, e, "|") \in Seq(Screen) /\ Len(InsertAt(l, e, "|")) = Len(l) + 1
          /\ \A j \in 1..(Len(l) + 1) : InsertAt(l, e, "|")[j] =
               IF j < e THEN l[j] ELSE IF j = e THEN "|" ELSE l[j - 1]
      BY <2>2, Barred
    <3>2. m = InsertAt(l, e, "|")
      BY <2>4
    <3> HIDE DEF m
    <3> QED
      BY <3>1, <3>2, <2>2, <2>4
  <2> HIDE DEF m
  <2>6. ASSUME NEW j \in 1..(b - a + 1) PROVE m[j] = r[j]
    <3>0. PICK k \in 1..(Len(v) + 1) : k = a + j - 1
      BY <2>1, <1>1, <1>2
    <3>1. r[j] = w[k] /\ w[k] = IF k < c THEN v[k] ELSE IF k = c THEN "|" ELSE v[k - 1]
      BY <2>3, <3>0, <1>5
    <3>2. CASE k < c
      <4>1. j \in 1..(b - a) /\ j < c - a + 1
        BY <3>0, <3>2, <2>1, <1>1
      <4> QED
        BY <4>1, <3>0, <3>1, <3>2, <2>2, <2>5
    <3>3. CASE k = c
      <4>1. j = c - a + 1 /\ ~(j < c - a + 1)
        BY <3>0, <3>3, <2>1, <1>1
      <4> QED
        BY <4>1, <3>0, <3>1, <3>3, <2>5, <1>1
    <3>4. CASE k > c
      <4>1. ~(j < c - a + 1) /\ j # c - a + 1
        BY <3>0, <3>4, <2>1, <1>1
      <4>2. PICK i \in 1..(b - a) : i = j - 1
        BY <3>0, <3>4, <2>1, <1>1
      <4>3. l[i] = v[a + i - 1] /\ a + i - 1 = k - 1
        BY <4>2, <3>0, <2>1, <2>2, <1>1
      <4> QED
        BY <4>1, <4>2, <4>3, <3>1, <3>4, <2>5, <1>1
    <3> QED
      BY <3>2, <3>3, <3>4, <1>1
  <2>7. m = r
    BY <2>3, <2>5, <2>6, SeqEqual
  <2> QED
    BY <2>7 DEF m, l, r
<1> QED
  BY <1>6, <1>7, <1>8 DEF LineOf, w, a, b, row

\* The screen is the text with a bar at the cursor.
LEMMA DrawnIs ==
  ASSUME NEW v \in Text, NEW c \in 1..(Len(v) + 1), NEW col
  PROVE  Drawn(Input(v, IndexOf(v, c), col)) = InsertAt(v, c, "|")
<1> DEFINE in == Input(v, IndexOf(v, c), col)
           s == line_spans(v)
           K == Len(s)
           row == Breaks(v, c) + 1
           w == InsertAt(v, c, "|")
           D == display_lines(in)
           seqs == [n \in DOMAIN D |-> IF n = 1 THEN D[n] ELSE <<"nl">> \o D[n]]
           b == [n \in 0..K |-> IF n = 0 THEN 0 ELSE IF n < row THEN s[n].end - 1 ELSE s[n].end]
<1>1. /\ Spans(v, s) /\ row \in 1..K
      /\ cursor_position(in) = [row |-> row, col |-> c - s[row].start]
  BY SpansAre, RowStart, CursorIs
<1>2. Len(v) \in Nat /\ K \in Nat /\ DOMAIN s = 1..K /\ row \in Nat /\ s[1].start = 1
      /\ s[K].end = Len(v) + 1
  BY <1>1, LenProperties DEF Text, Spans
<1>3. /\ v \in Seq(Screen) /\ w \in Seq(Screen) /\ Len(w) = Len(v) + 1
      /\ \A j \in 1..(Len(v) + 1) : w[j] = IF j < c THEN v[j] ELSE IF j = c THEN "|" ELSE v[j - 1]
  <2>1. v \in Seq(Screen)
    BY SeqMonotonic DEF Text, Screen
  <2> QED
    BY <2>1, Barred
<1>4. D = [n \in DOMAIN s |-> IF n = cursor_position(in).row
                              THEN InsertAt(LineOf(v, s, n), cursor_position(in).col + 1, "|")
                              ELSE LineOf(v, s, n)]
  <2>1. in.value = v
    BY DEF Input
  <2> HIDE DEF in
  <2> QED
    BY <2>1, Zenon DEF display_lines, LineOf
<1>5. D = [n \in 1..K |-> IF n = row THEN InsertAt(LineOf(v, s, n), c - s[row].start + 1, "|")
                          ELSE LineOf(v, s, n)]
  <2> HIDE DEF in, row, s, K, D
  <2> QED
    BY <1>1, <1>2, <1>4
<1>6. Drawn(in) = FlattenSeq(seqs)
  BY Zenon DEF Drawn
<1>7. \A n \in 1..K : /\ n < row => s[n].end < c
                      /\ n > row => s[n].start > c
                      /\ n = row => s[n].start <= c /\ c <= s[n].end
  BY <1>1, LinesBeside
<1>8. \A n \in 1..K : /\ s[n].start \in 1..(Len(v) + 1) /\ s[n].end \in s[n].start..(Len(v) + 1)
                      /\ n # K => s[n + 1].start = s[n].end + 1 /\ v[s[n].end] = "nl"
                                  /\ s[n].end \in 1..Len(v)
  BY <1>1 DEF Spans
<1>9. \A n \in 1..K :
        /\ n < row => D[n] = SubSeq(w, s[n].start, s[n].end - 1)
        /\ n > row => D[n] = SubSeq(w, s[n].start + 1, s[n].end)
        /\ n = row => D[n] = SubSeq(w, s[n].start, s[n].end)
  <2> TAKE n \in 1..K
  <2>1. /\ n < row => LineOf(v, s, n) = SubSeq(w, s[n].start, s[n].end - 1)
        /\ n > row => LineOf(v, s, n) = SubSeq(w, s[n].start + 1, s[n].end)
        /\ n = row => InsertAt(LineOf(v, s, n), c - s[n].start + 1, "|")
                        = SubSeq(w, s[n].start, s[n].end)
    BY <1>1, DrawnLine
  <2> HIDE DEF row, s, K, D, w
  <2>2. D[n] = IF n = row THEN InsertAt(LineOf(v, s, n), c - s[row].start + 1, "|")
               ELSE LineOf(v, s, n)
    BY <1>5
  <2>3. n \in Nat
    BY <1>2
  <2> QED
    BY <2>1, <2>2, <2>3, <1>2
<1>10. DOMAIN D = 1..K /\ DOMAIN seqs = 1..K /\ Len(seqs) = K
       /\ \A n \in 1..K : seqs[n] = IF n = 1 THEN D[n] ELSE <<"nl">> \o D[n]
  <2>1. DOMAIN D = 1..K
    <3> HIDE DEF D, row, s, K
    <3> QED
      BY <1>5
  <2> HIDE DEF D
  <2> QED
    BY <2>1, <1>2
<1>11. \A n \in 0..K : b[n] = IF n = 0 THEN 0 ELSE IF n < row THEN s[n].end - 1 ELSE s[n].end
  OBVIOUS
<1> HIDE DEF in, s, K, row, w, D, seqs, b
<1>12. \A n \in 0..K : b[n] \in 0..(Len(v) + 1)
  <2> TAKE n \in 0..K
  <2>1. CASE n = 0
    BY <2>1, <1>2, <1>11
  <2>2. CASE n # 0
    <3>1. n \in 1..K
      BY <2>2, <1>2
    <3>2. PICK e \in 1..(Len(v) + 1) : e = s[n].end
      BY <3>1, <1>2, <1>8
    <3>3. b[n] = e - 1 \/ b[n] = e
      BY <2>2, <3>2, <1>11
    <3> QED
      BY <3>2, <3>3, <1>2
  <2> QED
    BY <2>1, <2>2
<1>13. ASSUME NEW n \in 1..K
       PROVE  b[n - 1] <= b[n] /\ seqs[n] = SubSeq(w, b[n - 1] + 1, b[n])
  <2>1. CASE n = 1
    <3>1. b[n - 1] = 0 /\ 0 + 1 = 1 /\ seqs[n] = D[n] /\ s[n].start = 1
      BY <2>1, <1>2, <1>10, <1>11
    <3>2. n \in 0..K /\ n # 0
      BY <1>2
    <3>3. b[n] = IF n < row THEN s[n].end - 1 ELSE s[n].end
      BY <3>2, <1>11
    <3>4. D[n] = SubSeq(w, 1, b[n])
      BY <2>1, <3>1, <3>3, <1>2, <1>9, <1>1
    <3> QED
      BY <3>1, <3>2, <3>4, <1>2, <1>12
  <2>2. CASE n # 1
    <3>0. PICK m \in 1..K : m = n - 1 /\ m + 1 = n /\ m # K
      BY <2>2, <1>2
    <3> DEFINE e == s[m].end
    <3>1. s[n].start = e + 1 /\ v[e] = "nl" /\ e \in 1..Len(v) /\ s[n].end \in (e + 1)..(Len(v) + 1)
      BY <3>0, <1>8
    <3>2. b[m] = (IF m < row THEN e - 1 ELSE e) /\ b[n] = IF n < row THEN s[n].end - 1 ELSE s[n].end
      <4>1. m \in 0..K /\ m # 0 /\ n \in 0..K /\ n # 0
        BY <1>2
      <4> QED
        BY <4>1, <1>11
    <3>3. seqs[n] = <<"nl">> \o D[n]
      BY <2>2, <1>10
    <3> HIDE DEF e
    <3>4. CASE m < row
      <4>1. e < c /\ w[e] = "nl" /\ b[m] = e - 1
        BY <3>1, <3>2, <3>4, <1>2, <1>3, <1>7 DEF e
      <4>2. D[n] = SubSeq(w, e + 1, b[n])
        <5>1. CASE n < row
          BY <5>1, <3>1, <3>2, <1>9
        <5>2. CASE n = row
          <6>1. ~(n < row)
            BY <5>2, <1>2
          <6> QED
            BY <5>2, <6>1, <3>1, <3>2, <1>9
        <5> QED
          BY <5>1, <5>2, <3>0, <3>4, <1>2
      <4>3. e \in 1..Len(w) /\ b[n] \in e..Len(w)
        <5>1. n < row \/ n = row
          BY <3>0, <3>4, <1>2
        <5>2. n = row => c <= s[n].end
          BY <1>7
        <5> QED
          BY <5>1, <5>2, <3>1, <3>2, <4>1, <1>2, <1>3
      <4>4. SubSeq(w, e, b[n]) = <<w[e]>> \o SubSeq(w, e + 1, b[n])
        BY <4>3, <1>3, SubSeqRecursiveFirst
      <4>5. b[m] + 1 = e /\ b[m] <= b[n]
        BY <4>1, <4>3, <3>1, <1>2, <1>3
      <4> QED
        BY <4>1, <4>2, <4>4, <4>5, <3>0, <3>3
    <3>5. CASE ~(m < row)
      <4>1. n > row /\ ~(n < row) /\ c <= e
        <5>1. n > row /\ ~(n < row) /\ (m = row \/ m > row)
          BY <3>0, <3>5, <1>2
        <5>2. CASE m = row
          BY <5>1, <5>2, <1>7 DEF e
        <5>3. CASE m > row
          <6>1. s[m].start > c /\ s[m].end \in s[m].start..(Len(v) + 1) /\ s[m].start \in 1..(Len(v) + 1)
            BY <5>3, <1>7, <1>8
          <6> QED
            BY <6>1, <5>1, <1>2 DEF e
        <5> QED
          BY <5>1, <5>2, <5>3
      <4>2. PICK f \in 1..(Len(v) + 1) : f = e + 1
        BY <3>1, <1>2
      <4>3. w[f] = "nl" /\ b[m] = e
        <5>1. ~(f < c) /\ f # c /\ f - 1 = e
          BY <4>1, <4>2, <3>1, <1>2
        <5> QED
          BY <5>1, <3>1, <3>2, <3>5, <1>3
      <4>4. D[n] = SubSeq(w, f + 1, b[n])
        BY <3>1, <3>2, <4>1, <4>2, <1>9
      <4>5. f \in 1..Len(w) /\ b[n] \in f..Len(w)
        BY <3>1, <3>2, <4>1, <4>2, <1>2, <1>3
      <4>6. SubSeq(w, f, b[n]) = <<w[f]>> \o SubSeq(w, f + 1, b[n])
        BY <4>5, <1>3, SubSeqRecursiveFirst
      <4>7. b[m] <= b[n] /\ b[m] + 1 = f
        BY <4>2, <4>3, <4>5, <3>1, <1>2, <1>3
      <4> QED
        BY <4>3, <4>4, <4>6, <4>7, <3>0, <3>3
    <3> QED
      BY <3>4, <3>5
  <2> QED
    BY <2>1, <2>2
<1>14. b \in [0..Len(seqs) -> 0..Len(w)] /\ b[0] = 0 /\ b[Len(seqs)] = Len(w)
  <2>1. b = [n \in 0..K |-> b[n]]
    BY DEF b
  <2>2. K \in 0..K /\ 0 \in 0..K /\ K # 0 /\ ~(K < row)
    BY <1>1, <1>2
  <2>3. b[K] = Len(w) /\ b[0] = 0
    BY <2>2, <1>2, <1>3, <1>11
  <2>4. \A n \in 0..K : b[n] \in 0..Len(w)
    BY <1>3, <1>12
  <2> QED
    BY <2>1, <2>3, <2>4, <1>10
<1>15. seqs \in Seq(Seq(Screen)) /\ seqs # <<>>
  <2>1. ASSUME NEW n \in 1..K PROVE seqs[n] \in Seq(Screen)
    <3>1. n \in 0..K /\ n - 1 \in 0..K
      BY <1>2
    <3>2. b[n] \in 0..Len(w) /\ b[n - 1] \in 0..Len(w)
      BY <3>1, <1>3, <1>12
    <3>3. PICK p \in Int, q \in Int : p = b[n - 1] + 1 /\ q = b[n] /\ p >= 1 /\ q <= Len(w)
      BY <3>2, <1>2, <1>3
    <3>4. \A i \in p..q : w[i] \in Screen
      BY <3>3, <1>2, <1>3, ElementOfSeq
    <3>5. SubSeq(w, p, q) \in Seq(Screen)
      BY <3>4, SubSeqProperties
    <3> QED
      BY <3>3, <3>5, <1>13
  <2>2. seqs = [n \in 1..K |-> seqs[n]]
    BY <1>10 DEF seqs
  <2>3. seqs \in Seq(Seq(Screen))
    <3>1. seqs \in [1..K -> Seq(Screen)]
      BY <2>1, <2>2
    <3> QED
      BY <3>1, <1>2
  <2> QED
    BY <2>3, <1>1, <1>2, <1>10, EmptySeq
<1>16. FlattenSeq(seqs) = w
  <2>1. \A n \in 1..Len(seqs) : b[n - 1] <= b[n] /\ seqs[n] = SubSeq(w, b[n - 1] + 1, b[n])
    BY <1>10, <1>13
  <2> QED
    BY <2>1, <1>3, <1>14, <1>15, JoinCuts
<1> QED
  BY <1>6, <1>16 DEF in, w

-----------------------------------------------------------------------------
\* The text before the cursor and the text after it.
Before(v, c) == SubSeq(v, 1, c - 1)
After(v, c) == From(v, c)

\* What the two are, and that they make up the text.
LEMMA SplitAt ==
  ASSUME NEW v \in Text, NEW c \in 1..(Len(v) + 1)
  PROVE  /\ Before(v, c) \in Text /\ Len(Before(v, c)) = c - 1
         /\ \A j \in 1..(c - 1) : Before(v, c)[j] = v[j]
         /\ After(v, c) \in Text /\ Len(After(v, c)) = Len(v) - c + 1
         /\ \A j \in 1..(Len(v) - c + 1) : After(v, c)[j] = v[c + j - 1]
         /\ Before(v, c) \o After(v, c) = v
<1>1. Len(v) \in Nat /\ c - 1 \in 0..Len(v)
  BY LenProperties DEF Text
<1>2. /\ Before(v, c) \in Text /\ Len(Before(v, c)) = c - 1
      /\ \A j \in 1..(c - 1) : Before(v, c)[j] = v[j]
  BY <1>1, PrefixProperties DEF Before
<1>3. /\ After(v, c) \in Text /\ Len(After(v, c)) = Len(v) - c + 1
      /\ \A j \in 1..(Len(v) - c + 1) : After(v, c)[j] = v[c + j - 1]
  BY FromProperties, Zenon DEF After, Text
<1>4. Before(v, c) \o After(v, c) = v
  <2>1. 1 \in 1..(Len(v) + 1) /\ c - 1 \in (1 - 1)..Len(v) /\ Len(v) \in (c - 1)..Len(v)
    BY <1>1
  <2>2. SubSeq(v, 1, c - 1) \o SubSeq(v, (c - 1) + 1, Len(v)) = SubSeq(v, 1, Len(v))
    BY <2>1, ConcatAdjacentSubSeq DEF Text
  <2>3. (c - 1) + 1 = c /\ SubSeq(v, 1, Len(v)) = v
    BY SubSeqFull DEF Text
  <2> QED
    BY <2>2, <2>3, Zenon DEF Before, After, From
<1> QED
  BY <1>2, <1>3, <1>4

\* Texts that begin alike have the same offsets there.
LEMMA SameIndex ==
  ASSUME NEW v \in Text, NEW x \in Text, NEW c \in 1..(Len(v) + 1), c <= Len(x) + 1,
         \A j \in 1..(c - 1) : x[j] = v[j]
  PROVE  IndexOf(x, c) = IndexOf(v, c)
<1>1. Len(v) \in Nat /\ Len(x) \in Nat /\ c \in Nat \ {0} /\ c \in 1..(Len(x) + 1)
  BY LenProperties DEF Text
<1>2. Upto(x, c, "e'") = Upto(v, c, "e'")
  BY <1>1, UptoSame
<1> QED
  BY <1>1, <1>2, IndexIs

\* A character more.
LEMMA Typing ==
  ASSUME NEW v \in Text, NEW c \in 1..(Len(v) + 1), NEW ch \in Letters
  PROVE  LET x == InsertAt(v, c, ch) IN
         /\ x \in Text /\ c + 1 \in 1..(Len(x) + 1)
         /\ IndexOf(x, c + 1) = IndexOf(v, c) + len_utf8(ch)
         /\ Before(x, c + 1) = Append(Before(v, c), ch) /\ After(x, c + 1) = After(v, c)
<1> DEFINE x == InsertAt(v, c, ch)
<1>1. Len(v) \in Nat /\ c \in Nat
  BY LenProperties DEF Text
<1>2. /\ x \in Text /\ Len(x) = Len(v) + 1
      /\ \A j \in 1..(Len(v) + 1) : x[j] = IF j < c THEN v[j] ELSE IF j = c THEN ch ELSE v[j - 1]
  <2>1. v \in Seq(Letters)
    BY DEF Text
  <2>2. /\ x \in Seq(Letters) /\ Len(x) = Len(v) + 1
        /\ \A j \in 1..(Len(v) + 1) : x[j] = IF j < c THEN v[j] ELSE IF j = c THEN ch ELSE v[j - 1]
    <3> DEFINE Inserted(y, S, s, i, e) ==
                 /\ y \in Seq(S) /\ Len(y) = Len(s) + 1
                 /\ \A j \in 1..(Len(s) + 1) :
                      y[j] = IF j < i THEN s[j] ELSE IF j = i THEN e ELSE s[j - 1]
    <3>1. \A S : \A s \in Seq(S) : \A i \in 1..(Len(s) + 1), e \in S :
             Inserted(InsertAt(s, i, e), S, s, i, e)
      BY InsertProperties
    <3> HIDE DEF Inserted
    <3>2. Inserted(x, Letters, v, c, ch)
      BY <2>1, <3>1
    <3> QED
      BY <3>2 DEF Inserted
  <2> HIDE DEF x
  <2> QED
    BY <2>2 DEF Text
<1> HIDE DEF x
<1>3. PICK d \in 1..(Len(x) + 1) : d = c + 1
  BY <1>1, <1>2
<1>4. IndexOf(x, d) = IndexOf(v, c) + len_utf8(ch)
  <2>1. c \in 1..Len(x) /\ c <= Len(x) + 1 /\ x[c] = ch /\ \A j \in 1..(c - 1) : x[j] = v[j]
    BY <1>1, <1>2
  <2>2. IndexOf(x, c + 1) = IndexOf(x, c) + len_utf8(x[c])
    BY <2>1, <1>2, IndexStep
  <2>3. IndexOf(x, c) = IndexOf(v, c)
    BY <2>1, <1>2, SameIndex
  <2> QED
    BY <2>1, <2>2, <2>3, <1>3
<1>5. /\ Before(v, c) \in Text /\ Len(Before(v, c)) = c - 1
      /\ \A j \in 1..(c - 1) : Before(v, c)[j] = v[j]
      /\ After(v, c) \in Text /\ Len(After(v, c)) = Len(v) - c + 1
      /\ \A j \in 1..(Len(v) - c + 1) : After(v, c)[j] = v[c + j - 1]
  BY SplitAt
<1>6. /\ Before(x, d) \in Text /\ Len(Before(x, d)) = d - 1
      /\ \A j \in 1..(d - 1) : Before(x, d)[j] = x[j]
      /\ After(x, d) \in Text /\ Len(After(x, d)) = Len(x) - d + 1
      /\ \A j \in 1..(Len(x) - d + 1) : After(x, d)[j] = x[d + j - 1]
  BY <1>2, SplitAt
<1>7. Before(x, d) = Append(Before(v, c), ch)
  <2> DEFINE l == Before(x, d)
             b == Before(v, c)
             r == Append(b, ch)
  <2>1. /\ r \in Text /\ Len(r) = c /\ r[c] = ch /\ \A j \in 1..(c - 1) : r[j] = b[j]
    BY <1>1, <1>5, AppendProperties DEF Text
  <2>2. l \in Text /\ Len(l) = c /\ \A j \in 1..c : l[j] = x[j]
    BY <1>1, <1>3, <1>6
  <2>3. \A j \in 1..(c - 1) : b[j] = v[j]
    BY <1>5
  <2> HIDE DEF l, r, b
  <2>4. ASSUME NEW j \in 1..c PROVE l[j] = r[j]
    <3>1. CASE j = c
      BY <3>1, <2>1, <2>2, <1>1, <1>2
    <3>2. CASE j # c
      <4>1. j \in 1..(c - 1) /\ j < c /\ j \in 1..(Len(v) + 1)
        BY <3>2, <1>1
      <4> QED
        BY <4>1, <2>1, <2>2, <2>3, <1>2
    <3> QED
      BY <3>1, <3>2
  <2>5. l = r
    BY <2>1, <2>2, <2>4, SeqEqual DEF Text
  <2> QED
    BY <2>5 DEF l, r, b
<1>8. After(x, d) = After(v, c)
  <2> DEFINE l == After(x, d)
             r == After(v, c)
             n == Len(v) - c + 1
  <2>1. l \in Text /\ Len(l) = n /\ \A j \in 1..n : l[j] = x[d + j - 1]
    BY <1>1, <1>2, <1>3, <1>6
  <2>2. r \in Text /\ Len(r) = n /\ \A j \in 1..n : r[j] = v[c + j - 1]
    BY <1>5
  <2> HIDE DEF l, r
  <2>3. ASSUME NEW j \in 1..n PROVE l[j] = r[j]
    <3>1. PICK k \in 1..(Len(v) + 1) : k = d + j - 1
      BY <1>1, <1>2, <1>3
    <3>2. ~(k < c) /\ k # c /\ k - 1 = c + j - 1
      BY <3>1, <1>1, <1>3
    <3>3. x[k] = v[k - 1]
      BY <3>2, <1>2
    <3> QED
      BY <3>1, <3>2, <3>3, <2>1, <2>2
  <2>4. l = r
    BY <2>1, <2>2, <2>3, SeqEqual DEF Text
  <2> QED
    BY <2>4 DEF l, r
<1> QED
  BY <1>2, <1>3, <1>4, <1>7, <1>8 DEF x

\* A step to the left, and the character that is then after the cursor.
LEMMA GoingLeft ==
  ASSUME NEW v \in Text, NEW c \in 2..(Len(v) + 1)
  PROVE  /\ Before(v, c - 1) = Front(Before(v, c))
         /\ After(v, c - 1) = <<Last(Before(v, c))>> \o After(v, c)
         /\ Before(v, c) # <<>>
<1>1. Len(v) \in Nat /\ c \in Nat /\ c \in 1..(Len(v) + 1)
  BY LenProperties DEF Text
<1>2. PICK d \in 1..(Len(v) + 1) : d = c - 1
  BY <1>1
<1> DEFINE b == Before(v, c)
<1>3. b \in Text /\ Len(b) = c - 1 /\ \A j \in 1..(c - 1) : b[j] = v[j]
  BY <1>1, SplitAt
<1>4. Before(v, d) \in Text /\ Len(Before(v, d)) = d - 1 /\ \A j \in 1..(d - 1) : Before(v, d)[j] = v[j]
  BY SplitAt
<1> HIDE DEF b
<1>5. Before(v, d) = Front(b)
  <2>1. c - 2 \in 0..Len(b)
    BY <1>1, <1>3
  <2>2. PICK n \in 0..Len(b) : n = c - 2 /\ n = Len(b) - 1 /\ n = d - 1
    BY <2>1, <1>1, <1>2, <1>3
  <2> DEFINE f == SubSeq(b, 1, n)
             l == Before(v, d)
  <2>3. f \in Text /\ Len(f) = n /\ \A j \in 1..n : f[j] = b[j]
    BY <1>3, PrefixProperties
  <2>4. l \in Text /\ Len(l) = n /\ \A j \in 1..n : l[j] = v[j]
    BY <1>4, <2>2
  <2>5. Front(b) = f
    BY <2>2 DEF Front
  <2> HIDE DEF f, l
  <2>6. \A j \in 1..n : l[j] = f[j]
    BY <2>2, <2>3, <2>4, <1>1, <1>3
  <2>7. l = f
    BY <2>3, <2>4, <2>6, SeqEqual DEF Text
  <2> QED
    BY <2>5, <2>7 DEF l
<1>6. After(v, d) = <<v[d]>> \o After(v, d + 1)
  <2>1. d \in 1..Len(v) /\ Len(v) \in d..Len(v)
    BY <1>1, <1>2
  <2> QED
    BY <2>1, SubSeqRecursiveFirst DEF After, From, Text
<1>7. Last(b) = v[d] /\ d + 1 = c
  BY <1>1, <1>2, <1>3 DEF Last
<1>8. b # <<>>
  BY <1>1, <1>3, EmptySeq
<1> QED
  BY <1>2, <1>5, <1>6, <1>7, <1>8 DEF b

\* A step to the right.
LEMMA GoingRight ==
  ASSUME NEW v \in Text, NEW c \in 1..Len(v)
  PROVE  /\ Before(v, c + 1) = Append(Before(v, c), Head(After(v, c)))
         /\ After(v, c + 1) = Tail(After(v, c)) /\ After(v, c) # <<>>
<1>1. Len(v) \in Nat /\ c \in Nat /\ c \in 1..(Len(v) + 1)
  BY LenProperties DEF Text
<1> DEFINE a == After(v, c)
           b == Before(v, c)
<1>2. b \in Text /\ b \in Seq(Letters) /\ v[c] \in Letters
  BY <1>1, SplitAt, ElementOfSeq DEF Text
<1>3. a = <<v[c]>> \o After(v, c + 1) /\ After(v, c + 1) \in Text
  <2>1. Len(v) \in c..Len(v) /\ c + 1 \in 1..(Len(v) + 1)
    BY <1>1
  <2> QED
    BY <2>1, SubSeqRecursiveFirst, SplitAt DEF After, From, Text
<1>4. Head(a) = v[c] /\ Tail(a) = After(v, c + 1)
  <2>1. Len(v) \in c..Len(v)
    BY <1>1
  <2> QED
    BY <2>1, HeadTailOfSubSeq DEF After, From, Text
<1>5. a # <<>>
  <2>1. Len(a) = Len(v) - c + 1
    BY <1>1, SplitAt
  <2> QED
    BY <2>1, <1>1, EmptySeq
<1>6. Before(v, c + 1) = b \o <<v[c]>>
  <2>1. 1 \in 1..Len(v) /\ c \in 1..Len(v) /\ c + 1 - 1 = c
    BY <1>1
  <2>2. SubSeq(v, 1, c) = SubSeq(v, 1, c - 1) \o <<v[c]>>
    BY <2>1, SubSeqRecursiveSecond DEF Text
  <2> QED
    BY <2>1, <2>2 DEF Before
<1>7. Append(b, v[c]) = b \o <<v[c]>>
  BY <1>2, AppendIsConcat
<1> QED
  BY <1>4, <1>5, <1>6, <1>7 DEF a, b

\* A character less.
LEMMA Erasing ==
  ASSUME NEW v \in Text, NEW c \in 2..(Len(v) + 1)
  PROVE  LET x == RemoveAt(v, c - 1) IN
         /\ x \in Text /\ c - 1 \in 1..(Len(x) + 1)
         /\ IndexOf(x, c - 1) = IndexOf(v, c - 1)
         /\ Before(x, c - 1) = Before(v, c - 1) /\ After(x, c - 1) = After(v, c)
<1>1. Len(v) \in Nat /\ c \in Nat /\ c \in 1..(Len(v) + 1)
  BY LenProperties DEF Text
<1>2. PICK d \in 1..Len(v) : d = c - 1 /\ d + 1 = c /\ d \in 1..(Len(v) + 1)
  BY <1>1
<1> DEFINE l == Before(v, d)
           r == After(v, c)
           x == RemoveAt(v, d)
<1>3. x = l \o r
  BY <1>2 DEF RemoveAt, Before, After, From
<1>4. /\ l \in Text /\ Len(l) = d - 1 /\ \A j \in 1..(d - 1) : l[j] = v[j]
      /\ r \in Text /\ Len(r) = Len(v) - c + 1
  BY <1>1, <1>2, SplitAt
<1> HIDE DEF l, r, x
<1>5. /\ x \in Text /\ Len(x) = d - 1 + Len(r) /\ Len(r) \in Nat
      /\ \A j \in 1..(d - 1) : x[j] = l[j]
      /\ SubSeq(x, 1, d - 1) = l /\ From(x, d - 1 + 1) = r
  <2>1. x \in Text /\ Len(x) = Len(l) + Len(r) /\ Len(r) \in Nat /\ \A j \in 1..Len(l) : x[j] = l[j]
    BY <1>3, <1>4, InFront, ConcatProperties DEF Text
  <2>2. SubSeq(x, 1, Len(l)) = l /\ From(x, Len(l) + 1) = r
    BY <1>3, <1>4, FromConcat DEF Text
  <2> QED
    BY <2>1, <2>2, <1>4
<1>6. d - 1 + 1 = d /\ d <= Len(x) + 1 /\ d \in 1..(Len(x) + 1)
  BY <1>1, <1>2, <1>4, <1>5
<1>7. IndexOf(x, d) = IndexOf(v, d)
  <2>1. \A j \in 1..(d - 1) : x[j] = v[j]
    BY <1>4, <1>5
  <2> QED
    BY <2>1, <1>2, <1>5, <1>6, SameIndex
<1>8. Before(x, d) = l /\ After(x, d) = r
  BY <1>5, <1>6 DEF Before, After
<1> QED
  BY <1>2, <1>5, <1>6, <1>7, <1>8 DEF x, l, r

-----------------------------------------------------------------------------
\* TextEditor counts as the modules of the library do.
LEMMA PageCounts == \A S : Page!Cardinality(S) = Cardinality(S)
BY Zenon DEF Page!Cardinality, Cardinality

\* Rows and columns as TextEditor counts them.
LEMMA RowCol ==
  ASSUME NEW v \in Text, NEW c \in 1..(Len(v) + 1)
  PROVE  /\ Page!Row(Before(v, c)) = Breaks(v, c)
         /\ Page!Col(Before(v, c)) = c - line_spans(v)[Breaks(v, c) + 1].start
<1> DEFINE p == Before(v, c)
           C == {i \in DOMAIN p : \A j \in i..Len(p) : p[j] # "nl"}
<1>1. Len(v) \in Nat
  BY LenProperties DEF Text
<1>2. p \in Text /\ Len(p) = c - 1 /\ DOMAIN p = 1..(c - 1) /\ \A j \in 1..(c - 1) : p[j] = v[j]
  BY SplitAt, LenProperties DEF Text
<1> HIDE DEF p
<1>3. Page!Row(p) = Breaks(v, c)
  <2>1. {i \in DOMAIN p : p[i] = "nl"} = At(v, c, "nl")
    BY <1>2 DEF At
  <2> QED
    BY <2>1, PageCounts DEF Page!Row, Breaks, Upto
<1>4. Page!Col(p) = c - line_spans(v)[Breaks(v, c) + 1].start
  <2>1. \A i : i \in C <=> i \in 1..(c - 1) /\ \A j \in i..(c - 1) : v[j] # "nl"
    BY <1>1, <1>2
  <2>2. Page!Col(p) = Cardinality(C)
    BY PageCounts, Zenon DEF Page!Col
  <2> HIDE DEF C
  <2> QED
    BY <2>1, <2>2, ColumnIs
<1> QED
  BY <1>3, <1>4 DEF p

\* TextEditor's choice of the place nearest to a column.
Nearest(text, r, col) ==
    LET At1(n) == SubSeq(text, 1, n)
        places == {n \in 0..Len(text) : Page!Row(At1(n)) = r /\ Page!Col(At1(n)) <= col}
    IN  CHOOSE x \in places : \A y \in places : x >= y

\* In a line that is there: the place in that column, or the end of the line.
LEMMA NearestIs ==
  ASSUME NEW v \in Text, NEW t \in 1..Len(line_spans(v)), NEW col \in Nat
  PROVE  LET start == line_spans(v)[t].start
             end == line_spans(v)[t].end
             m == IF start + col < end THEN start + col ELSE end
         IN  m \in 1..(Len(v) + 1) /\ Nearest(v, t - 1, col) = m - 1
<1> DEFINE s == line_spans(v)
           start == s[t].start
           end == s[t].end
           m == IF start + col < end THEN start + col ELSE end
           places == {n \in 0..Len(v) : /\ Page!Row(SubSeq(v, 1, n)) = t - 1
                                        /\ Page!Col(SubSeq(v, 1, n)) <= col}
<1>1. Spans(v, s) /\ Len(v) \in Nat
  BY SpansAre, LenProperties DEF Text
<1>2. /\ start \in 1..(Len(v) + 1) /\ end \in start..(Len(v) + 1) /\ t \in Nat
      /\ \A i \in 1..(Len(v) + 1) : i \in start..end <=> Breaks(v, i) = t - 1
  <2>1. Len(s) \in Nat
    BY <1>1 DEF Spans
  <2> QED
    BY <2>1, <1>1 DEF Spans
<1>3. ASSUME NEW n \in 0..Len(v)
      PROVE  n \in places <=> n + 1 \in start..end /\ n + 1 - start <= col
  <2>1. PICK c \in 1..(Len(v) + 1) : c = n + 1 /\ c - 1 = n
    BY <1>1
  <2>2. Page!Row(SubSeq(v, 1, n)) = Breaks(v, c) /\ Breaks(v, c) \in Nat
    BY <2>1, RowCol, BreaksType DEF Before
  <2>3. Breaks(v, c) = t - 1 => Page!Col(SubSeq(v, 1, n)) = c - start
    <3> SUFFICES ASSUME Breaks(v, c) = t - 1
                 PROVE  Page!Col(SubSeq(v, 1, n)) = c - start
      OBVIOUS
    <3>1. Breaks(v, c) + 1 = t
      BY <1>2
    <3> QED
      BY <2>1, <3>1, RowCol DEF Before
  <2>4. n \in places <=> Page!Row(SubSeq(v, 1, n)) = t - 1 /\ Page!Col(SubSeq(v, 1, n)) <= col
    OBVIOUS
  <2> HIDE DEF places, start, end
  <2> QED
    BY <2>1, <2>2, <2>3, <2>4, <1>2
<1>4. \A n \in places : n \in 0..Len(v)
  OBVIOUS
<1>5. Nearest(v, t - 1, col) = CHOOSE x \in places : \A y \in places : x >= y
  BY Zenon DEF Nearest
<1> HIDE DEF places, s, start, end
<1>6. m \in 1..(Len(v) + 1) /\ m - 1 \in 0..Len(v) /\ m - 1 + 1 = m
  BY <1>1, <1>2
<1>7. m - 1 \in places
  <2>1. m \in start..end /\ m - start <= col
    BY <1>2
  <2> HIDE DEF m
  <2>2. PICK n \in 0..Len(v) : n = m - 1 /\ n + 1 = m
    BY <1>6
  <2>3. n + 1 \in start..end /\ n + 1 - start <= col
    BY <2>1, <2>2, <1>1, <1>2
  <2> QED
    BY <2>2, <2>3, <1>3
<1>8. \A n \in places : n <= m - 1
  BY <1>1, <1>2, <1>3, <1>4
<1> HIDE DEF m
<1>9. ASSUME NEW x \in places, \A y \in places : x >= y PROVE x = m - 1
  BY <1>4, <1>6, <1>7, <1>8, <1>9
<1>10. \A y \in places : m - 1 >= y
  BY <1>4, <1>6, <1>8
<1>11. (CHOOSE x \in places : \A y \in places : x >= y) = m - 1
  BY <1>7, <1>9, <1>10
<1> QED
  BY <1>5, <1>6, <1>11 DEF m, start, end, s

\* Up and down, as MultilineInput does it.
LEMMA GoingUpOrDown ==
  ASSUME NEW v \in Text, NEW c \in 1..(Len(v) + 1), NEW p \in {NoCol} \cup Nat, NEW delta \in {-1, 1}
  PROVE  LET K == Breaks(v, Len(v) + 1) + 1
             row == Breaks(v, c) + 1
             t == CASE row + delta < 1 -> 1 [] row + delta > K -> K [] OTHER -> row + delta
             col == IF p = NoCol THEN Page!Col(Before(v, c)) ELSE p
         IN  /\ t \in 1..K /\ col \in Nat /\ Nearest(v, t - 1, col) \in Int
             /\ Nearest(v, t - 1, col) + 1 \in 1..(Len(v) + 1)
             /\ move_vertical(Input(v, IndexOf(v, c), p), delta)
                  = Input(v, IndexOf(v, Nearest(v, t - 1, col) + 1), col)
<1> DEFINE K == Breaks(v, Len(v) + 1) + 1
           row == Breaks(v, c) + 1
           t == CASE row + delta < 1 -> 1 [] row + delta > K -> K [] OTHER -> row + delta
           col == IF p = NoCol THEN Page!Col(Before(v, c)) ELSE p
           s == line_spans(v)
           in == Input(v, IndexOf(v, c), p)
<1>1. Len(v) \in Nat /\ Len(s) = K /\ Breaks(v, Len(v) + 1) \in Nat /\ Breaks(v, c) \in Nat
  BY SpansAre, LenProperties, BreaksType DEF Text, Spans
<1>2. row \in 1..K /\ row \in Nat /\ K \in Nat
  BY <1>1, RowStart
<1>3. cursor_position(in) = [row |-> row, col |-> c - s[row].start]
  BY CursorIs
<1>4. Page!Col(Before(v, c)) = c - s[row].start /\ c - s[row].start \in Nat
  <2>2. s[row].start \in 1..c /\ c \in Nat
    BY RowStart
  <2>3. c - s[row].start \in Nat
    <3> HIDE DEF s, row
    <3> QED
      BY <2>2
  <2> QED
    BY <2>3, RowCol
<1>5. col \in Nat
  BY <1>4
<1> HIDE DEF K, row
<1>6. t \in 1..K
  <2>1. delta = -1 \/ delta = 1
    OBVIOUS
  <2> QED
    BY <2>1, <1>2
<1>7. in.value = v /\ in.preferred_col = p
  BY DEF Input
<1> HIDE DEF in
<1>8. move_vertical(in, delta)
        = Input(v, byte_index_for_col(v, s[CASE cursor_position(in).row + delta < 1 -> 1
                                            [] cursor_position(in).row + delta > Len(s) -> Len(s)
                                            [] OTHER -> cursor_position(in).row + delta],
                                      IF p = NoCol THEN cursor_position(in).col ELSE p),
                IF p = NoCol THEN cursor_position(in).col ELSE p)
  BY <1>7, Zenon DEF move_vertical
<1>9. cursor_position(in).row = row /\ (IF p = NoCol THEN cursor_position(in).col ELSE p) = col
  BY <1>3, <1>4
<1>10. move_vertical(in, delta) = Input(v, byte_index_for_col(v, s[t], col), col)
  BY <1>1, <1>8, <1>9, Zenon
<1> DEFINE m == IF s[t].start + col < s[t].end THEN s[t].start + col ELSE s[t].end
<1>11. byte_index_for_col(v, s[t], col) = IndexOf(v, m)
  BY DEF byte_index_for_col
<1> HIDE DEF t, col
<1>12. m \in 1..(Len(v) + 1) /\ Nearest(v, t - 1, col) = m - 1
  BY <1>1, <1>5, <1>6, NearestIs
<1> HIDE DEF m
<1>13. Nearest(v, t - 1, col) + 1 = m /\ Nearest(v, t - 1, col) \in Int
  BY <1>12, <1>1
<1>14. /\ Nearest(v, t - 1, col) + 1 \in 1..(Len(v) + 1)
       /\ move_vertical(in, delta) = Input(v, IndexOf(v, Nearest(v, t - 1, col) + 1), col)
  BY <1>10, <1>11, <1>12, <1>13
<1> QED
  BY <1>5, <1>6, <1>13, <1>14 DEF t, col, K, row, in

-----------------------------------------------------------------------------
\* What TextEditor allows, of the texts before and after the cursor and the
\* column it remembers.
Jumps(b, a, w, r, b2, a2, w2) ==
    LET col == IF w = NoCol THEN Page!Col(b) ELSE w
        n == Nearest(b \o a, r, col)
    IN  b2 = SubSeq(b \o a, 1, n) /\ a2 = SubSeq(b \o a, n + 1, Len(b \o a)) /\ w2 = col

LeadsTo(b, a, w, b2, a2, w2) ==
    \/ b2 = b /\ a2 = a /\ (w2 = w \/ ((b = <<>> \/ a = <<>>) /\ w2 = NoCol))
    \/ (\E ch \in Letters : b2 = Append(b, ch)) /\ a2 = a /\ w2 = NoCol
    \/ b # <<>> /\ b2 = Front(b) /\ a2 = a /\ w2 = NoCol
    \/ b # <<>> /\ b2 = Front(b) /\ a2 = <<Last(b)>> \o a /\ w2 = NoCol
    \/ a # <<>> /\ b2 = Append(b, Head(a)) /\ a2 = Tail(a) /\ w2 = NoCol
    \/ Jumps(b, a, w, IF Page!Row(b) = 0 THEN 0 ELSE Page!Row(b) - 1, b2, a2, w2)
    \/ Jumps(b, a, w, IF Page!Row(b) = Page!Row(b \o a) THEN Page!Row(b) ELSE Page!Row(b) + 1,
             b2, a2, w2)

Col == {NoCol} \cup Nat

\* A key may do nothing.
LEMMA Staying == \A b, a, w : LeadsTo(b, a, w, b, a, w)
  BY Zenon DEF LeadsTo

\* Which operation a key is.
LEMMA HandleIs ==
  ASSUME NEW v \in Text, NEW c \in 1..(Len(v) + 1), NEW p \in Col, NEW k \in EditKeys
  PROVE  LET in == Input(v, IndexOf(v, c), p) IN
         \/ \E ch \in Letters : handle(in, k) = insert(in, ch)
         \/ handle(in, k) \in {backspace(in), move_left(in), move_right(in), in}
         \/ \E delta \in {-1, 1} : handle(in, k) = move_vertical(in, delta)
<1> DEFINE in == Input(v, IndexOf(v, c), p)
<1>1. normalize_cursor(in) = in
  BY NormalCursor
<1> HIDE DEF in
<1>2. handle(in, k) = CASE k.key = "Char" -> insert(in, k.ch)
                        [] k.key = "Enter" -> insert(in, "nl")
                        [] k.key = "Backspace" -> backspace(in)
                        [] k.key = "Left" -> move_left(in)
                        [] k.key = "Right" -> move_right(in)
                        [] k.key = "Up" -> move_vertical(in, -1)
                        [] k.key = "Down" -> move_vertical(in, 1)
                        [] OTHER -> in
  BY <1>1, Zenon DEF handle
<1>3. \/ k.key = "Char" /\ k.ch \in Letters
      \/ k.key \in {"Enter", "Backspace", "Left", "Right", "Up", "Down", "Tab"}
  <2>1. \/ k = Char("a") \/ k = Char("e'")
        \/ \E n \in {"Enter", "Backspace", "Left", "Right", "Up", "Down", "Tab"} : k = Key(n)
    BY DEF EditKeys
  <2>2. \A ch : Char(ch).key = "Char" /\ Char(ch).ch = ch
    BY DEF Char
  <2>3. \A n : Key(n).key = n
    BY DEF Key
  <2>4. "a" \in Letters /\ "e'" \in Letters
    BY DEF Letters
  <2> QED
    BY <2>1, <2>2, <2>3, <2>4
<1>4. "nl" \in Letters
  BY DEF Letters
<1> QED
  BY <1>2, <1>3, <1>4 DEF in

\* Every key leaves the cursor on a character, and does what TextEditor allows.
LEMMA KeyStep ==
  ASSUME NEW v \in Text, NEW c \in 1..(Len(v) + 1), NEW p \in Col, NEW k \in EditKeys
  PROVE  \E x \in Text : \E d \in 1..(Len(x) + 1), q \in Col :
           /\ handle(Input(v, IndexOf(v, c), p), k) = Input(x, IndexOf(x, d), q)
           /\ LeadsTo(Before(v, c), After(v, c), p, Before(x, d), After(x, d), q)
<1> DEFINE in == Input(v, IndexOf(v, c), p)
           b == Before(v, c)
           a == After(v, c)
           Good(r) == \E x \in Text : \E d \in 1..(Len(x) + 1), q \in Col :
                        /\ r = Input(x, IndexOf(x, d), q)
                        /\ LeadsTo(b, a, p, Before(x, d), After(x, d), q)
<1>0. Len(v) \in Nat /\ c \in Nat /\ NoCol \in Col
  BY LenProperties DEF Text, Col
<1>1. in.value = v /\ in.cursor = IndexOf(v, c) /\ in.preferred_col = p
  BY DEF Input
<1>2. CharAt(in.value, in.cursor) = c
  BY <1>1, CharAtIndex
<1>3. /\ Len(b) = c - 1 /\ Len(a) = Len(v) - c + 1 /\ b \in Text /\ a \in Text /\ b \o a = v
  BY SplitAt
<1>4. (c = 1 => b = <<>>) /\ (c = Len(v) + 1 => a = <<>>)
  <2>1. (Len(b) = 0 => b = <<>>) /\ (Len(a) = 0 => a = <<>>)
    BY <1>3, EmptySeq DEF Text
  <2> QED
    BY <2>1, <1>0, <1>3
<1>5. Good(in)
  <2>1. LeadsTo(b, a, p, Before(v, c), After(v, c), p)
    BY Staying, Zenon
  <2> QED
    BY <2>1, Zenon
<1>6. ASSUME c = 1 \/ c = Len(v) + 1 PROVE Good(Input(v, IndexOf(v, c), NoCol))
  BY <1>0, <1>4, <1>6 DEF LeadsTo
<1> HIDE DEF in, b, a
<1>7. ASSUME NEW ch \in Letters PROVE Good(insert(in, ch))
  <2> DEFINE x == InsertAt(v, c, ch)
  <2>1. insert(in, ch) = Input(x, IndexOf(v, c) + len_utf8(ch), NoCol)
    BY <1>1, <1>2, Zenon DEF insert
  <2>2. /\ x \in Text /\ c + 1 \in 1..(Len(x) + 1)
        /\ IndexOf(x, c + 1) = IndexOf(v, c) + len_utf8(ch)
        /\ Before(x, c + 1) = Append(b, ch) /\ After(x, c + 1) = a
    BY Typing DEF b, a
  <2> HIDE DEF x
  <2>3. LeadsTo(b, a, p, Before(x, c + 1), After(x, c + 1), NoCol)
    BY <2>2 DEF LeadsTo
  <2> QED
    BY <2>1, <2>2, <2>3, <1>0, Zenon
<1>8. Good(backspace(in))
  <2>1. CASE c = 1
    <3>1. backspace(in) = in
      BY <2>1, <1>2 DEF backspace
    <3> QED
      BY <3>1, <1>5
  <2>2. CASE c # 1
    <3> DEFINE x == RemoveAt(v, c - 1)
    <3>1. backspace(in) = Input(x, IndexOf(v, c - 1), NoCol)
      BY <2>2, <1>1, <1>2, Zenon DEF backspace
    <3>2. c \in 2..(Len(v) + 1)
      BY <2>2, <1>0
    <3>3. /\ x \in Text /\ c - 1 \in 1..(Len(x) + 1)
          /\ IndexOf(x, c - 1) = IndexOf(v, c - 1)
          /\ Before(x, c - 1) = Before(v, c - 1) /\ After(x, c - 1) = a
      BY <3>2, Erasing DEF a
    <3>4. Before(v, c - 1) = Front(b) /\ b # <<>>
      BY <3>2, GoingLeft DEF b
    <3> HIDE DEF x
    <3>5. LeadsTo(b, a, p, Before(x, c - 1), After(x, c - 1), NoCol)
      BY <3>3, <3>4 DEF LeadsTo
    <3> QED
      BY <3>1, <3>3, <3>5, <1>0, Zenon
  <2> QED
    BY <2>1, <2>2
<1>9. Good(move_left(in))
  <2>1. CASE c = 1
    <3>1. move_left(in) = Input(v, IndexOf(v, c), NoCol)
      BY <2>1, <1>1, <1>2, Zenon DEF move_left
    <3> QED
      BY <2>1, <3>1, <1>6
  <2>2. CASE c # 1
    <3>1. move_left(in) = Input(v, IndexOf(v, c - 1), NoCol)
      BY <2>2, <1>1, <1>2, Zenon DEF move_left
    <3>2. c \in 2..(Len(v) + 1) /\ c - 1 \in 1..(Len(v) + 1)
      BY <2>2, <1>0
    <3>3. Before(v, c - 1) = Front(b) /\ After(v, c - 1) = <<Last(b)>> \o a /\ b # <<>>
      BY <3>2, GoingLeft DEF b, a
    <3>4. LeadsTo(b, a, p, Before(v, c - 1), After(v, c - 1), NoCol)
      BY <3>3 DEF LeadsTo
    <3> QED
      BY <3>1, <3>2, <3>4, <1>0, Zenon
  <2> QED
    BY <2>1, <2>2
<1>10. Good(move_right(in))
  <2>1. CASE c > Len(v)
    <3>1. move_right(in) = Input(v, IndexOf(v, c), NoCol)
      BY <2>1, <1>1, <1>2, Zenon DEF move_right
    <3> QED
      BY <2>1, <3>1, <1>0, <1>6
  <2>2. CASE ~(c > Len(v))
    <3>1. move_right(in) = Input(v, IndexOf(v, c + 1), NoCol)
      BY <2>2, <1>1, <1>2, Zenon DEF move_right
    <3>2. c \in 1..Len(v) /\ c + 1 \in 1..(Len(v) + 1)
      BY <2>2, <1>0
    <3>3. Before(v, c + 1) = Append(b, Head(a)) /\ After(v, c + 1) = Tail(a) /\ a # <<>>
      BY <3>2, GoingRight DEF b, a
    <3>4. LeadsTo(b, a, p, Before(v, c + 1), After(v, c + 1), NoCol)
      BY <3>3 DEF LeadsTo
    <3> QED
      BY <3>1, <3>2, <3>4, <1>0, Zenon
  <2> QED
    BY <2>1, <2>2
<1>11. ASSUME NEW delta \in {-1, 1} PROVE Good(move_vertical(in, delta))
  <2> DEFINE K == Breaks(v, Len(v) + 1) + 1
             row == Breaks(v, c) + 1
             t == CASE row + delta < 1 -> 1 [] row + delta > K -> K [] OTHER -> row + delta
             col == IF p = NoCol THEN Page!Col(b) ELSE p
             d == Nearest(v, t - 1, col) + 1
  <2>1. /\ t \in 1..K /\ col \in Nat /\ d \in 1..(Len(v) + 1)
        /\ move_vertical(in, delta) = Input(v, IndexOf(v, d), col)
    BY GoingUpOrDown DEF in, b, Col
  <2>2. /\ Page!Row(b) = row - 1 /\ Page!Row(b \o a) = K - 1 /\ row \in 1..K /\ K \in Nat
        /\ Breaks(v, c) \in Nat
    <3>1. Page!Row(Before(v, c)) = Breaks(v, c) /\ Breaks(v, c) \in Nat
      BY RowCol, BreaksType
    <3>2. Len(v) + 1 \in 1..(Len(v) + 1) /\ Len(v) + 1 - 1 = Len(v)
      BY <1>0
    <3>3. Page!Row(Before(v, Len(v) + 1)) = Breaks(v, Len(v) + 1) /\ Breaks(v, Len(v) + 1) \in Nat
      BY <3>2, RowCol, BreaksType
    <3>4. Before(v, Len(v) + 1) = v
      BY <3>2, SubSeqFull DEF Before, Text
    <3>5. Breaks(v, c) <= Breaks(v, Len(v) + 1)
      BY <1>0, BreaksType
    <3> QED
      BY <3>1, <3>3, <3>4, <3>5, <1>3, SMTT(30) DEF b
  <2>3. \/ t - 1 = IF Page!Row(b) = 0 THEN 0 ELSE Page!Row(b) - 1
        \/ t - 1 = IF Page!Row(b) = Page!Row(b \o a) THEN Page!Row(b) ELSE Page!Row(b) + 1
    <3> DEFINE up == IF Page!Row(b) = 0 THEN 0 ELSE Page!Row(b) - 1
               down == IF Page!Row(b) = Page!Row(b \o a) THEN Page!Row(b) ELSE Page!Row(b) + 1
    <3>1. up = (IF row = 1 THEN 0 ELSE row - 2) /\ down = IF row = K THEN row - 1 ELSE row
      BY <2>2
    <3> HIDE DEF up, down
    <3>2. row \in Nat
      BY <2>2
    <3> HIDE DEF row, K
    <3>3. CASE delta = -1
      BY <3>1, <3>2, <3>3, <2>2
    <3>4. CASE delta = 1
      BY <3>1, <3>2, <3>4, <2>2
    <3>5. delta = -1 \/ delta = 1
      OBVIOUS
    <3> QED
      BY <3>3, <3>4, <3>5 DEF up, down
  <2>4. Before(v, d) = SubSeq(v, 1, d - 1) /\ After(v, d) = SubSeq(v, d, Len(v))
    BY DEF Before, After, From
  <2>5. Nearest(v, t - 1, col) = d - 1
    <3> HIDE DEF t, col
    <3>1. PICK e \in 1..(Len(v) + 1) : e = Nearest(v, t - 1, col) + 1
      BY <2>1
    <3>2. Nearest(v, t - 1, col) \in Int
      BY GoingUpOrDown DEF t, row, K, col, b, Col
    <3> QED
      BY <3>1, <3>2
  <2> HIDE DEF d, t, row, K
  <2>6. \A r : t - 1 = r => Jumps(b, a, p, r, Before(v, d), After(v, d), col)
    BY <2>4, <2>5, <2>1, <1>0, <1>3, SMTT(30) DEF Jumps
  <2>7. LeadsTo(b, a, p, Before(v, d), After(v, d), col)
    BY <2>3, <2>6, Zenon DEF LeadsTo
  <2>8. col \in Col
    BY <2>1 DEF Col
  <2> HIDE DEF col
  <2> QED
    BY <2>1, <2>7, <2>8, Zenon
<1>12. Good(handle(in, k))
  <2>1. \/ \E ch \in Letters : handle(in, k) = insert(in, ch)
        \/ handle(in, k) \in {backspace(in), move_left(in), move_right(in), in}
        \/ \E delta \in {-1, 1} : handle(in, k) = move_vertical(in, delta)
    BY HandleIs DEF in
  <2> HIDE DEF Good
  <2> QED
    BY <2>1, <1>5, <1>7, <1>8, <1>9, <1>10, <1>11
<1> QED
  BY <1>12 DEF in, b, a

-----------------------------------------------------------------------------
\* The bar on the screen is at the cursor.
LEMMA BarIs ==
  ASSUME NEW v \in Text, NEW c \in 1..(Len(v) + 1)
  PROVE  LET w == InsertAt(v, c, "|") IN
         /\ (CHOOSE i \in DOMAIN w : w[i] = "|") = c
         /\ SubSeq(w, 1, c - 1) = Before(v, c) /\ From(w, c + 1) = After(v, c)
<1> DEFINE w == InsertAt(v, c, "|")
<1>1. Len(v) \in Nat /\ \A j \in 1..Len(v) : v[j] # "|"
  BY LenProperties, ElementOfSeq DEF Text, Letters
<1>2. v \in Seq(Screen)
  BY SeqMonotonic DEF Text, Screen
<1>3. /\ w \in Seq(Screen) /\ Len(w) = Len(v) + 1 /\ DOMAIN w = 1..(Len(v) + 1)
      /\ \A j \in 1..(Len(v) + 1) : w[j] = IF j < c THEN v[j] ELSE IF j = c THEN "|" ELSE v[j - 1]
  <2>1. /\ w \in Seq(Screen) /\ Len(w) = Len(v) + 1
        /\ \A j \in 1..(Len(v) + 1) : w[j] = IF j < c THEN v[j] ELSE IF j = c THEN "|" ELSE v[j - 1]
    BY <1>2, Barred
  <2> HIDE DEF w
  <2> QED
    BY <2>1, LenProperties
<1> HIDE DEF w
<1>4. c \in DOMAIN w /\ w[c] = "|" /\ \A i \in DOMAIN w : w[i] = "|" => i = c
  <2>1. c \in DOMAIN w /\ w[c] = "|"
    BY <1>1, <1>3
  <2>2. ASSUME NEW i \in 1..(Len(v) + 1), w[i] = "|", i # c PROVE FALSE
    <3>1. CASE i < c
      BY <3>1, <2>2, <1>1, <1>3
    <3>2. CASE i > c
      <4>1. i - 1 \in 1..Len(v) /\ w[i] = v[i - 1]
        BY <3>2, <1>1, <1>3
      <4> QED
        BY <4>1, <2>2, <1>1
    <3> QED
      BY <3>1, <3>2, <2>2, <1>1
  <2> QED
    BY <2>1, <2>2, <1>3
<1>5. (CHOOSE i \in DOMAIN w : w[i] = "|") = c
  BY <1>4
<1>6. SubSeq(v, 1, c - 1) = SubSeq(w, 1, c - 1)
  <2>1. \A j \in 1..(c - 1) : v[j] = w[j + 0]
    BY <1>1, <1>3
  <2>2. c - 1 \in (1 - 1)..Len(v) /\ c - 1 + 0 <= Len(w) /\ 1 \in 1..(Len(v) + 1)
    BY <1>1, <1>3
  <2>3. SubSeq(v, 1, c - 1) = SubSeq(w, 1 + 0, (c - 1) + 0)
    BY <2>1, <2>2, <1>2, <1>3, SubSeqSame
  <2>4. 1 + 0 = 1 /\ (c - 1) + 0 = c - 1
    BY <1>1
  <2> QED
    BY <2>3, <2>4
<1>7. SubSeq(v, c, Len(v)) = SubSeq(w, c + 1, Len(w))
  <2>1. ASSUME NEW j \in c..Len(v) PROVE v[j] = w[j + 1]
    <3>1. PICK k \in 1..(Len(v) + 1) : k = j + 1 /\ k - 1 = j /\ ~(k < c) /\ k # c
      BY <1>1
    <3> QED
      BY <3>1, <1>3
  <2>2. Len(v) \in (c - 1)..Len(v) /\ Len(v) + 1 <= Len(w)
    BY <1>1, <1>3
  <2>3. SubSeq(v, c, Len(v)) = SubSeq(w, c + 1, Len(v) + 1)
    BY <2>1, <2>2, <1>2, <1>3, SubSeqSame
  <2> QED
    BY <2>3, <1>3
<1> QED
  BY <1>5, <1>6, <1>7 DEF w, Before, After, From

\* The texts on the screen before the bar and after it.
ScreenBefore == SubSeq(screen, 1, Bar - 1)
ScreenAfter == From(screen, Bar + 1)

\* What the moves above mean as steps of TextEditor.
LEMMA MovesArePage ==
  LeadsTo(ScreenBefore, ScreenAfter, input.preferred_col,
          ScreenBefore', ScreenAfter', input'.preferred_col)
    => [Page!EditorNext]_(Page!editorVars)
<1> SUFFICES ASSUME LeadsTo(ScreenBefore, ScreenAfter, input.preferred_col,
                            ScreenBefore', ScreenAfter', input'.preferred_col)
             PROVE  [Page!EditorNext]_(Page!editorVars)
  OBVIOUS
<1>1. \A s : Page!Front(s) = Front(s) /\ Page!Last(s) = Last(s)
  BY DEF Page!Front, Front, Page!Last, Last
<1>2. \A S : Page!Max(S) = CHOOSE x \in S : \A y \in S : x >= y
  BY DEF Page!Max
<1>3. \A r : Jumps(ScreenBefore, ScreenAfter, input.preferred_col, r,
                   ScreenBefore', ScreenAfter', input'.preferred_col) => Page!JumpTo(r)
  BY <1>2, Zenon DEF Page!JumpTo, Page!Place, Jumps, Nearest, ScreenBefore, ScreenAfter
<1> QED
  BY <1>1, <1>3, Zenon
  DEF LeadsTo, Page!EditorNext, Page!editorVars, Page!Insert, Page!Backspace, Page!Left,
      Page!Right, Page!Up, Page!Down, Page!Place, ScreenBefore, ScreenAfter

-----------------------------------------------------------------------------
\* The input is a text, with the cursor on one of its characters or at its end,
\* and the screen shows it.
EditorInv ==
    \E v \in Text : \E c \in 1..(Len(v) + 1), p \in Col :
        input = Input(v, IndexOf(v, c), p) /\ screen = InsertAt(v, c, "|")

\* What is on the screen then.
LEMMA OnScreen ==
  ASSUME NEW v \in Text, NEW c \in 1..(Len(v) + 1), screen = InsertAt(v, c, "|")
  PROVE  ScreenBefore = Before(v, c) /\ ScreenAfter = After(v, c)
<1>1. Bar = c
  BY BarIs, Zenon DEF Bar
<1>2. SubSeq(screen, 1, c - 1) = Before(v, c) /\ From(screen, c + 1) = After(v, c)
  BY BarIs
<1> QED
  BY <1>1, <1>2, Zenon DEF ScreenBefore, ScreenAfter

\* And after the step.
LEMMA OnScreenNext ==
  ASSUME NEW v \in Text, NEW c \in 1..(Len(v) + 1), screen' = InsertAt(v, c, "|")
  PROVE  ScreenBefore' = Before(v, c) /\ ScreenAfter' = After(v, c)
<1>1. Bar' = c
  BY BarIs, Zenon DEF Bar
<1>2. SubSeq(screen', 1, c - 1) = Before(v, c) /\ From(screen', c + 1) = After(v, c)
  BY BarIs
<1> QED
  BY <1>1, <1>2, Zenon DEF ScreenBefore, ScreenAfter

\* An empty text, and its page.
LEMMA EditorStarts == InputInit => EditorInv /\ Page!EditorInit
<1> SUFFICES ASSUME InputInit PROVE EditorInv /\ Page!EditorInit
  OBVIOUS
<1> DEFINE v == <<>>
<1>1. v \in Text /\ Len(v) = 0 /\ 1 \in 1..(Len(v) + 1) /\ NoCol \in Col
  BY EmptySeq DEF Text, Col
<1>2. IndexOf(v, 1) = 0
  <2>1. IndexOf(v, 1) = 1 - 1 + Upto(v, 1, "e'")
    BY <1>1, IndexIs
  <2>2. Upto(v, 1, "e'") = 0
    BY UptoStep
  <2> QED
    BY <2>1, <2>2
<1>3. Empty = Input(v, IndexOf(v, 1), NoCol)
  BY <1>2 DEF Empty
<1>4. screen = InsertAt(v, 1, "|") /\ input = Input(v, IndexOf(v, 1), NoCol)
  BY <1>1, <1>3, DrawnIs DEF InputInit
<1>5. ScreenBefore = Before(v, 1) /\ ScreenAfter = After(v, 1)
  BY <1>1, <1>4, OnScreen
<1>6. Before(v, 1) = <<>> /\ After(v, 1) = <<>>
  <2>1. Len(Before(v, 1)) = 0 /\ Len(After(v, 1)) = 0 /\ Before(v, 1) \in Text /\ After(v, 1) \in Text
    BY <1>1, SplitAt
  <2> QED
    BY <2>1, EmptySeq DEF Text
<1>7. input.preferred_col = NoCol
  BY <1>4 DEF Input
<1> QED
  BY <1>1, <1>4, <1>5, <1>6, <1>7 DEF EditorInv, Page!EditorInit, ScreenBefore, ScreenAfter

\* Whatever the key, the screen changes as the page does.
LEMMA EditorSteps ==
  EditorInv /\ [InputNext]_inputVars => EditorInv' /\ [Page!EditorNext]_(Page!editorVars)
<1> SUFFICES ASSUME EditorInv, [InputNext]_inputVars
             PROVE  EditorInv' /\ [Page!EditorNext]_(Page!editorVars)
  OBVIOUS
<1>1. CASE UNCHANGED <<input, screen>>
  <2>1. EditorInv'
    BY <1>1, Zenon DEF EditorInv
  <2>2. UNCHANGED Page!editorVars
    BY <1>1 DEF Page!editorVars, Bar
  <2> QED
    BY <2>1, <2>2
<1>2. ASSUME NEW k \in EditKeys, Edit(k)
      PROVE  EditorInv' /\ [Page!EditorNext]_(Page!editorVars)
  <2>1. PICK v \in Text : \E c \in 1..(Len(v) + 1), p \in Col :
               input = Input(v, IndexOf(v, c), p) /\ screen = InsertAt(v, c, "|")
    BY Zenon DEF EditorInv
  <2>2. PICK c \in 1..(Len(v) + 1), p \in Col :
               input = Input(v, IndexOf(v, c), p) /\ screen = InsertAt(v, c, "|")
    BY <2>1
  <2>3. PICK x \in Text : \E d \in 1..(Len(x) + 1), q \in Col :
               /\ input' = Input(x, IndexOf(x, d), q)
               /\ LeadsTo(Before(v, c), After(v, c), p, Before(x, d), After(x, d), q)
    BY <1>2, <2>2, KeyStep, Zenon DEF Edit
  <2>4. PICK d \in 1..(Len(x) + 1), q \in Col :
               /\ input' = Input(x, IndexOf(x, d), q)
               /\ LeadsTo(Before(v, c), After(v, c), p, Before(x, d), After(x, d), q)
    BY <2>3
  <2>5. screen' = InsertAt(x, d, "|")
    <3>1. screen' = Drawn(input')
      BY <1>2 DEF Edit
    <3>2. Drawn(Input(x, IndexOf(x, d), q)) = InsertAt(x, d, "|")
      BY DrawnIs
    <3> QED
      BY <3>1, <3>2, <2>4
  <2>6. EditorInv'
    BY <2>4, <2>5, Zenon DEF EditorInv
  <2>7. input.preferred_col = p /\ input'.preferred_col = q
    BY <2>2, <2>4 DEF Input
  <2>8. ScreenBefore = Before(v, c) /\ ScreenAfter = After(v, c)
    BY <2>2, OnScreen
  <2>9. ScreenBefore' = Before(x, d) /\ ScreenAfter' = After(x, d)
    BY <2>5, OnScreenNext
  <2> QED
    BY <2>4, <2>6, <2>7, <2>8, <2>9, MovesArePage
<1> QED
  BY <1>1, <1>2 DEF InputNext, Type, inputVars

\* Byte offsets, rows and all, what is drawn behaves on every key as the text
\* and the cursor of an editor do, whatever the length of the text
\* (input.rs:162-297).
THEOREM EditsLikeAnEditorHolds == InputSpec => EditsLikeAnEditor
<1>1. InputInit => EditorInv /\ Page!EditorInit
  BY EditorStarts
<1>2. EditorInv /\ [InputNext]_inputVars => EditorInv' /\ [Page!EditorNext]_(Page!editorVars)
  BY EditorSteps
<1> QED
  BY <1>1, <1>2, PTL DEF InputSpec, EditsLikeAnEditor, Page!EditorSpec
=============================================================================
