------------------------------ MODULE TextProofs ------------------------------
(***************************************************************************)
(* Proofs about the text algorithms.                                       *)
(*                                                                         *)
(* What the scanner cuts out of a text, for a text of any length.  The     *)
(* scanner counts one kind of bracket; the reference keeps a stack of both *)
(* kinds.  They agree for as long as brackets pair: the depth is then how  *)
(* many of its own kind are on the stack, and the bottom one is.           *)
(*                                                                         *)
(* What key a phrase gets, for phrases of any length.  A key has the stems *)
(* of the words it is made of, since cutting a plural and joining keep     *)
(* them, and the last of those words at its end: so a key that is          *)
(* normalized again can change only as that word would have.               *)
(***************************************************************************)
EXTENDS JSONScan, TopicKey, ExtractionProofs
-----------------------------------------------------------------------------
(* What the scanner is given. *)

LEMMA LeastPosition ==
    ASSUME NEW T, T \subseteq Nat, NEW n \in T, \A m \in T : n <= m
    PROVE  T # {} /\ Min(T) = n
  <1>1. Min(T) \in T /\ \A m \in T : Min(T) <= m
    <2>1. T # {}
      OBVIOUS
    <2>2. QED
      BY <2>1, MinIsLeast
  <1>2. Min(T) <= n /\ n <= Min(T) /\ Min(T) \in Nat /\ n \in Nat
    BY <1>1
  <1>3. QED
    BY <1>1, <1>2

LEMMA OneByte ==
    ASSUME NEW B, NEW x \in B
    PROVE  <<x>> \in Seq(B) /\ Len(<<x>>) = 1 /\ <<x>>[1] = x
  OBVIOUS

LEMMA TwoBytes ==
    ASSUME NEW B, NEW x \in B, NEW y \in B
    PROVE  <<x, y>> \in Seq(B) /\ Len(<<x, y>>) = 2 /\ <<x, y>>[1] = x /\ <<x, y>>[2] = y
  OBVIOUS

LEMMA JoinedBytes ==
    ASSUME NEW B, NEW a, a \in Seq(B), NEW b, b \in Seq(B), NEW c, c = a \o b
    PROVE  /\ c \in Seq(B) /\ Len(c) = Len(a) + Len(b)
           /\ \A n \in 1..Len(a) : c[n] = a[n]
           /\ \A n \in 1..Len(b) : c[n + Len(a)] = b[n]
  OBVIOUS

\* An answer in a Markdown fence, byte after byte.
LEMMA FencedBytes ==
    ASSUME NEW b \in Seq(Byte), NEW tag \in Seq(Byte \ {"newline"})
    PROVE  LET t == <<"text", Fence>> \o tag \o <<"newline">> \o b \o <<Fence, "}">>
           IN  /\ t \in Seq(Byte \cup {Fence}) /\ Len(t) = Len(tag) + Len(b) + 5
               /\ t[1] = "text" /\ t[2] = Fence
               /\ \A n \in 1..Len(tag) : t[n + 2] = tag[n]
               /\ t[Len(tag) + 3] = "newline"
               /\ \A n \in 1..Len(b) : t[n + Len(tag) + 3] = b[n]
               /\ t[Len(tag) + Len(b) + 4] = Fence
  <1> DEFINE B == Byte \cup {Fence}
             t1 == <<"text", Fence>> \o tag
             t2 == t1 \o <<"newline">>
             t3 == t2 \o b
             t4 == t3 \o <<Fence, "}">>
             l == Len(tag)
             m == Len(b)
             opened == <<"text", Fence>>
             line == <<"newline">>
             closed == <<Fence, "}">>
  <1>1. /\ opened \in Seq(B) /\ Len(opened) = 2 /\ opened[1] = "text" /\ opened[2] = Fence
        /\ line \in Seq(B) /\ Len(line) = 1 /\ line[1] = "newline"
        /\ closed \in Seq(B) /\ Len(closed) = 2 /\ closed[1] = Fence
    <2>1. "text" \in B /\ Fence \in B /\ "newline" \in B /\ "}" \in B
      BY DEF Byte
    <2> HIDE DEF B
    <2>2. opened \in Seq(B) /\ Len(opened) = 2 /\ opened[1] = "text" /\ opened[2] = Fence
      BY <2>1, TwoBytes
    <2>3. line \in Seq(B) /\ Len(line) = 1 /\ line[1] = "newline"
      BY <2>1, OneByte
    <2>4. closed \in Seq(B) /\ Len(closed) = 2 /\ closed[1] = Fence
      BY <2>1, TwoBytes
    <2> HIDE DEF opened, line, closed
    <2>5. QED
      BY <2>2, <2>3, <2>4
  <1>2. tag \in Seq(B) /\ b \in Seq(B) /\ l \in Nat /\ m \in Nat /\ Len(tag) = l /\ Len(b) = m
    <2>1. Byte \ {"newline"} \subseteq B /\ Byte \subseteq B
      OBVIOUS
    <2> HIDE DEF B
    <2>2. QED
      BY <2>1, SeqMonotonic
  <1>3. /\ t1 = opened \o tag /\ t2 = t1 \o line /\ t3 = t2 \o b /\ t4 = t3 \o closed
    OBVIOUS
  <1>4. t4 = <<"text", Fence>> \o tag \o <<"newline">> \o b \o <<Fence, "}">>
    OBVIOUS
  <1> HIDE DEF B, opened, line, closed, l, m, t1, t2, t3, t4
  <1>5. /\ t1 \in Seq(B) /\ Len(t1) = l + 2 /\ t1[1] = "text" /\ t1[2] = Fence
        /\ \A n \in 1..l : t1[n + 2] = tag[n]
    <2>1. t1 = opened \o tag /\ opened \in Seq(B) /\ tag \in Seq(B)
      BY <1>1, <1>2, <1>3
    <2>2. /\ t1 \in Seq(B) /\ Len(t1) = Len(opened) + Len(tag)
          /\ \A n \in 1..Len(opened) : t1[n] = opened[n]
          /\ \A n \in 1..Len(tag) : t1[n + Len(opened)] = tag[n]
      BY <2>1, JoinedBytes
    <2>3. QED
      BY <1>1, <1>2, <2>2
  <1>6. /\ t2 \in Seq(B) /\ Len(t2) = l + 3 /\ t2[1] = "text" /\ t2[2] = Fence
        /\ \A n \in 1..l : t2[n + 2] = tag[n]
        /\ t2[l + 3] = "newline"
    <2>1. t2 = t1 \o line /\ t1 \in Seq(B) /\ line \in Seq(B)
      BY <1>1, <1>3, <1>5
    <2>2. /\ t2 \in Seq(B) /\ Len(t2) = Len(t1) + Len(line)
          /\ \A n \in 1..Len(t1) : t2[n] = t1[n]
          /\ \A n \in 1..Len(line) : t2[n + Len(t1)] = line[n]
      BY <2>1, JoinedBytes
    <2>3. QED
      BY <1>1, <1>2, <1>5, <2>2
  <1>7. /\ t3 \in Seq(B) /\ Len(t3) = l + m + 3 /\ t3[1] = "text" /\ t3[2] = Fence
        /\ \A n \in 1..l : t3[n + 2] = tag[n]
        /\ t3[l + 3] = "newline"
        /\ \A n \in 1..m : t3[n + l + 3] = b[n]
    <2>1. t3 = t2 \o b /\ t2 \in Seq(B) /\ b \in Seq(B)
      BY <1>2, <1>3, <1>6
    <2>2. /\ t3 \in Seq(B) /\ Len(t3) = Len(t2) + Len(b)
          /\ \A n \in 1..Len(t2) : t3[n] = t2[n]
          /\ \A n \in 1..Len(b) : t3[n + Len(t2)] = b[n]
      BY <2>1, JoinedBytes
    <2>3. QED
      BY <1>2, <1>6, <2>2
  <1>8. /\ t4 \in Seq(B) /\ Len(t4) = l + m + 5 /\ t4[1] = "text" /\ t4[2] = Fence
        /\ \A n \in 1..l : t4[n + 2] = tag[n]
        /\ t4[l + 3] = "newline"
        /\ \A n \in 1..m : t4[n + l + 3] = b[n]
        /\ t4[l + m + 4] = Fence
    <2>1. t4 = t3 \o closed /\ t3 \in Seq(B) /\ closed \in Seq(B)
      BY <1>1, <1>3, <1>7
    <2>2. /\ t4 \in Seq(B) /\ Len(t4) = Len(t3) + Len(closed)
          /\ \A n \in 1..Len(t3) : t4[n] = t3[n]
          /\ \A n \in 1..Len(closed) : t4[n + Len(t3)] = closed[n]
      BY <2>1, JoinedBytes
    <2>3. t4[l + m + 4] = Fence
      <3>1. 1 + (l + m + 3) = l + m + 4 /\ 1 \in 1..2
        BY <1>2
      <3>2. QED
        BY <1>1, <1>7, <2>2, <3>1
    <2>4. QED
      BY <1>1, <1>2, <1>7, <2>2, <2>3
  <1>9. QED
    BY <1>4, <1>8 DEF B, l, m

\* What is cut out of a fence is what the model means, and so is what has no fence.
LEMMA UnfencedBody ==
    ASSUME NEW b \in Seq(Byte)
    PROVE  /\ Unfenced(b) = b
           /\ \A tag \in Seq(Byte \ {"newline"}) :
                 Unfenced(<<"text", Fence>> \o tag \o <<"newline">> \o b \o <<Fence, "}">>) = b
  <1>0. Fence \notin Byte /\ "newline" # Fence /\ "text" # Fence
    BY DEF Fence, Byte
  <1>1. Unfenced(b) = b
    <2>1. Positions(b, {Fence}) = {}
      BY <1>0 DEF Positions
    <2>2. QED
      BY <2>1 DEF Unfenced
  <1>2. ASSUME NEW tag \in Seq(Byte \ {"newline"})
        PROVE  Unfenced(<<"text", Fence>> \o tag \o <<"newline">> \o b \o <<Fence, "}">>) = b
    <2> DEFINE t == <<"text", Fence>> \o tag \o <<"newline">> \o b \o <<Fence, "}">>
               B == Byte \cup {Fence}
               l == Len(tag)
               m == Len(b)
               v == SubSeq(t, 3, Len(t))
               w == SubSeq(v, l + 2, Len(v))
    <2>1. /\ t \in Seq(B) /\ Len(t) = l + m + 5 /\ t[1] = "text" /\ t[2] = Fence
          /\ \A n \in 1..l : t[n + 2] = tag[n]
          /\ t[l + 3] = "newline"
          /\ \A n \in 1..m : t[n + l + 3] = b[n]
          /\ t[l + m + 4] = Fence
      BY FencedBytes
    <2>2. l \in Nat /\ m \in Nat /\ (\A n \in 1..l : tag[n] # "newline")
          /\ \A n \in 1..m : b[n] # Fence
      BY <1>0
    <2> HIDE DEF t, B, l, m
    <2>3. Positions(t, {Fence}) # {} /\ Min(Positions(t, {Fence})) = 2
      <3>1. 2 \in Positions(t, {Fence}) /\ \A n \in Positions(t, {Fence}) : 2 <= n
        BY <1>0, <2>1, <2>2 DEF Positions
      <3>2. Positions(t, {Fence}) \subseteq Nat
        BY <2>1 DEF Positions
      <3>3. QED
        BY <3>1, <3>2, LeastPosition
    <2>4. /\ v \in Seq(B) /\ Len(v) = l + m + 3 /\ DOMAIN v = 1..(l + m + 3)
          /\ \A n \in 1..(l + m + 3) : v[n] = t[n + 2]
      BY <2>1, <2>2, SubSeqProperties
    <2> HIDE DEF v
    <2>5. Positions(v, {"newline"}) # {} /\ Min(Positions(v, {"newline"})) = l + 1
      <3>1. v[l + 1] = "newline" /\ l + 1 \in DOMAIN v
        BY <2>1, <2>2, <2>4
      <3>2. \A n \in 1..l : v[n] = tag[n]
        BY <2>1, <2>2, <2>4
      <3>3. l + 1 \in Positions(v, {"newline"})
            /\ \A n \in Positions(v, {"newline"}) : l + 1 <= n
        BY <2>2, <2>4, <3>1, <3>2 DEF Positions
      <3>4. Positions(v, {"newline"}) \subseteq Nat
        BY <2>4 DEF Positions
      <3>5. QED
        BY <3>3, <3>4, LeastPosition
    <2>6. AfterLine(v) = w
      BY <2>2, <2>5 DEF AfterLine
    <2>7. /\ w \in Seq(B) /\ Len(w) = m + 2 /\ DOMAIN w = 1..(m + 2)
          /\ \A n \in 1..(m + 2) : w[n] = t[n + l + 3]
      <3>1. /\ w \in Seq(B) /\ Len(w) = m + 2
            /\ \A n \in 1..(m + 2) : w[n] = v[(l + 2) + n - 1]
        <4>1. \A n \in (l + 2)..(l + m + 3) : v[n] \in B
          BY <2>2, <2>4
        <4>2. (l + m + 3) - (l + 2) + 1 = m + 2 /\ l + 2 <= l + m + 3
          BY <2>2
        <4>3. w = SubSeq(v, l + 2, l + m + 3)
          BY <2>4
        <4> HIDE DEF w
        <4>4. QED
          BY <2>2, <4>1, <4>2, <4>3, SubSeqProperties
      <3>2. \A n \in 1..(m + 2) : (l + 2) + n - 1 \in 1..(l + m + 3)
                                  /\ ((l + 2) + n - 1) + 2 = n + l + 3
        BY <2>2
      <3> HIDE DEF w
      <3>3. DOMAIN w = 1..(m + 2)
        BY <3>1
      <3>4. ASSUME NEW n \in 1..(m + 2) PROVE w[n] = t[n + l + 3]
        <4> DEFINE k == (l + 2) + n - 1
        <4>1. k \in 1..(l + m + 3) /\ k + 2 = n + l + 3 /\ w[n] = v[k]
          BY <3>1, <3>2
        <4> HIDE DEF k
        <4>2. v[k] = t[k + 2]
          BY <2>4, <4>1
        <4>3. QED
          BY <4>1, <4>2
      <3>5. QED
        BY <3>1, <3>3, <3>4
    <2> HIDE DEF w
    <2>8. Positions(w, {Fence}) # {} /\ Min(Positions(w, {Fence})) = m + 1
      <3>1. \A n \in 1..m : w[n] = b[n]
        BY <2>1, <2>2, <2>7
      <3>2. w[m + 1] = Fence
        <4>1. m + 1 \in 1..(m + 2) /\ (m + 1) + l + 3 = l + m + 4
          BY <2>2
        <4>2. QED
          BY <2>1, <2>7, <4>1
      <3>3. m + 1 \in Positions(w, {Fence})
        BY <2>2, <2>7, <3>2 DEF Positions
      <3>4. \A n \in 1..(m + 2) : n \in 1..m \/ m + 1 <= n
        BY <2>2
      <3>5. \A n \in Positions(w, {Fence}) : m + 1 <= n
        BY <2>2, <2>7, <3>1, <3>4 DEF Positions
      <3>6. Positions(w, {Fence}) \subseteq Nat
        BY <2>7 DEF Positions
      <3>7. QED
        BY <3>3, <3>5, <3>6, LeastPosition
    <2>9. SubSeq(w, 1, m) = b
      <3>1. /\ SubSeq(w, 1, m) \in Seq(B) /\ Len(SubSeq(w, 1, m)) = m
            /\ \A n \in 1..m : SubSeq(w, 1, m)[n] = w[n]
        BY <2>2, <2>7, SubSeqProperties
      <3>2. b \in Seq(B) /\ Len(b) = m
        BY SeqMonotonic DEF B, m
      <3>3. \A n \in 1..m : w[n] = b[n]
        BY <2>1, <2>2, <2>7
      <3>4. QED
        BY <3>1, <3>2, <3>3, SeqEqual
    <2>10. Unfenced(t) = SubSeq(w, 1, m)
      <3>1. Min(Positions(t, {Fence})) + 1 = 3 /\ Min(Positions(w, {Fence})) - 1 = m
        BY <2>2, <2>3, <2>8
      <3>2. QED
        BY <2>3, <2>6, <2>8, <3>1 DEF Unfenced, v
    <2>11. QED
      BY <2>9, <2>10 DEF t
  <1>3. QED
    BY <1>1, <1>2

-----------------------------------------------------------------------------
(* The reference reader, byte after byte. *)

Bracket == {"{", "["}
ClosingBracket == {"}", "]"}

ReaderState == [stack : Seq(ClosingBracket), str : BOOLEAN, esc : BOOLEAN, ok : BOOLEAN]

Unread == [stack |-> <<>>, str |-> FALSE, esc |-> FALSE, ok |-> TRUE]

ReadOn(r, ch) ==
    CASE r.esc -> [r EXCEPT !.esc = FALSE]
      [] ~r.esc /\ r.str -> [r EXCEPT !.esc = (ch = "backslash"), !.str = (ch # "quote")]
      [] ~r.esc /\ ~r.str /\ ch = "quote" -> [r EXCEPT !.str = TRUE]
      [] ~r.esc /\ ~r.str /\ ch \in {"{", "["} -> [r EXCEPT !.stack = <<Closes(ch)>> \o @]
      [] ~r.esc /\ ~r.str /\ ch \in {"}", "]"} ->
           [r EXCEPT !.ok = @ /\ r.stack # <<>> /\ Head(r.stack) = ch,
                     !.stack = IF @ = <<>> THEN @ ELSE Tail(@)]
      [] OTHER -> r

\* How a byte moves the reader.
ReadsOn(r, ch, q) ==
    /\ q \in ReaderState
    /\ q.esc = (~r.esc /\ r.str /\ ch = "backslash")
    /\ q.str = (IF ~r.esc /\ ch = "quote" THEN ~r.str ELSE r.str)
    /\ q.ok => r.ok
    /\ ~r.esc /\ ~r.str /\ ch \in Bracket => q.stack = <<Closes(ch)>> \o r.stack
    /\ ~r.esc /\ ~r.str /\ ch \in ClosingBracket /\ q.ok =>
          r.stack # <<>> /\ Head(r.stack) = ch /\ q.stack = Tail(r.stack)
    /\ r.esc \/ r.str \/ ch \notin Bracket \cup ClosingBracket => q.stack = r.stack

LEMMA ReadOnFacts ==
    ASSUME NEW r \in ReaderState, NEW ch \in Byte
    PROVE  ReadsOn(r, ch, ReadOn(r, ch))
  <1>1. r.stack \in Seq(ClosingBracket) /\ r.str \in BOOLEAN /\ r.esc \in BOOLEAN /\ r.ok \in BOOLEAN
    BY DEF ReaderState
  <1> DEFINE q == ReadOn(r, ch)
  <1>2. CASE r.esc
    <2>1. q = [r EXCEPT !.esc = FALSE]
      BY <1>2 DEF ReadOn
    <2> HIDE DEF q
    <2>2. q \in ReaderState /\ q.esc = FALSE /\ q.str = r.str /\ q.ok = r.ok /\ q.stack = r.stack
      BY <2>1 DEF ReaderState
    <2>3. QED
      BY <1>1, <1>2, <2>2 DEF ReadsOn, q
  <1>3. CASE ~r.esc /\ r.str
    <2> DEFINE esc1 == ch = "backslash"
               str1 == ch # "quote"
    <2>1. q = [r EXCEPT !.esc = esc1, !.str = str1]
      BY <1>3 DEF ReadOn
    <2>2. esc1 \in BOOLEAN /\ str1 \in BOOLEAN
      OBVIOUS
    <2> HIDE DEF q, esc1, str1
    <2>3. q \in ReaderState /\ q.esc = esc1 /\ q.str = str1 /\ q.ok = r.ok /\ q.stack = r.stack
      BY <2>1, <2>2 DEF ReaderState
    <2>4. QED
      BY <1>1, <1>3, <2>3 DEF ReadsOn, q, esc1, str1
  <1>4. CASE ~r.esc /\ ~r.str /\ ch = "quote"
    <2>1. q = [r EXCEPT !.str = TRUE]
      BY <1>4 DEF ReadOn
    <2> HIDE DEF q
    <2>2. q \in ReaderState /\ q.esc = r.esc /\ q.str = TRUE /\ q.ok = r.ok /\ q.stack = r.stack
      BY <2>1 DEF ReaderState
    <2>3. QED
      BY <1>1, <1>4, <2>2 DEF ReadsOn, q, Bracket, ClosingBracket
  <1>5. CASE ~r.esc /\ ~r.str /\ ch \in Bracket
    <2> DEFINE pushed == <<Closes(ch)>> \o r.stack
    <2>1. q = [r EXCEPT !.stack = pushed]
      BY <1>5 DEF ReadOn, Bracket
    <2>2. pushed \in Seq(ClosingBracket)
      <3>1. Closes(ch) \in ClosingBracket
        BY DEF Closes, ClosingBracket
      <3>2. <<Closes(ch)>> \in Seq(ClosingBracket)
        BY <3>1, OneByte
      <3>3. QED
        BY <1>1, <3>2
    <2> HIDE DEF q, pushed
    <2>3. q \in ReaderState /\ q.esc = r.esc /\ q.str = r.str /\ q.ok = r.ok /\ q.stack = pushed
      BY <2>1, <2>2 DEF ReaderState
    <2>4. ch # "quote" /\ ch # "backslash" /\ ch \notin ClosingBracket
      BY <1>5 DEF Bracket, ClosingBracket
    <2>5. QED
      BY <1>1, <1>5, <2>3, <2>4 DEF ReadsOn, q, pushed
  <1>6. CASE ~r.esc /\ ~r.str /\ ch \in ClosingBracket
    <2> DEFINE ok1 == r.ok /\ r.stack # <<>> /\ Head(r.stack) = ch
               popped == IF r.stack = <<>> THEN r.stack ELSE Tail(r.stack)
    <2>1. q = [r EXCEPT !.ok = ok1, !.stack = popped]
      BY <1>6 DEF ReadOn, ClosingBracket
    <2>2. popped \in Seq(ClosingBracket)
      BY <1>1
    <2>3. ok1 \in BOOLEAN
      OBVIOUS
    <2>4. ok1 => r.ok /\ r.stack # <<>> /\ Head(r.stack) = ch /\ popped = Tail(r.stack)
      OBVIOUS
    <2> HIDE DEF q, popped, ok1
    <2>5. q \in ReaderState /\ q.esc = r.esc /\ q.str = r.str /\ q.ok = ok1 /\ q.stack = popped
      BY <2>1, <2>2, <2>3 DEF ReaderState
    <2>6. ch # "quote" /\ ch # "backslash" /\ ch \notin Bracket
      BY <1>6 DEF Bracket, ClosingBracket
    <2>7. QED
      BY <1>1, <1>6, <2>4, <2>5, <2>6 DEF ReadsOn, q
  <1>7. CASE ~r.esc /\ ~r.str /\ ch # "quote" /\ ch \notin Bracket /\ ch \notin ClosingBracket
    <2>1. q = r
      BY <1>7 DEF ReadOn, Bracket, ClosingBracket
    <2>2. QED
      BY <1>1, <1>7, <2>1 DEF ReadsOn
  <1>8. QED
    BY <1>1, <1>2, <1>3, <1>4, <1>5, <1>6, <1>7

LEMMA RunExists ==
    ASSUME NEW L, L \in Nat, NEW S, NEW base, base \in S, NEW F, FoldType(F, L, S)
    PROVE  \E g : CountsOver(g, L, S, base, F)
  <1>1. PICK f \in [SUBSET (1..L) -> S] : FoldsOver(f, L, base, F)
    BY FoldHasValues
  <1>2. Recurs(f, L, S, base, F)
    BY <1>1 DEF FoldsOver, Recurs
  <1>3. QED
    BY <1>2, FoldCountsUp

\* The reference is well-defined: the recursion of Reader has a solution.
LEMMA ReaderFacts ==
    ASSUME NEW t \in Seq(Byte), NEW from \in 1..Len(t)
    PROVE  /\ Reader(t, from)[from - 1] = Unread
           /\ \A n \in (from - 1)..Len(t) : Reader(t, from)[n] \in ReaderState
           /\ \A n \in from..Len(t) : ReadsOn(Reader(t, from)[n - 1], t[n], Reader(t, from)[n])
  <1> DEFINE dom == (from - 1)..Len(t)
             L == Len(t) - from + 1
             F == [p \in (1..L) \X ReaderState |-> ReadOn(p[2], t[p[1] + from - 1])]
             Is(f) == f = [n \in dom |-> IF n < from THEN Unread ELSE ReadOn(f[n - 1], t[n])]
             h == CHOOSE f : Is(f)
  <1>1. Reader(t, from) = h
    BY Zenon DEF Reader, ReadOn, Unread
  <1>2. Len(t) \in Nat /\ L \in Nat /\ \A n \in 1..Len(t) : t[n] \in Byte
    OBVIOUS
  <1>3. Unread \in ReaderState
    <2>1. <<>> \in Seq(ClosingBracket)
      OBVIOUS
    <2>2. QED
      BY <2>1 DEF Unread, ReaderState
  <1>4. ASSUME NEW r \in ReaderState, NEW ch \in Byte PROVE ReadOn(r, ch) \in ReaderState
    BY ReadOnFacts DEF ReadsOn
  <1>5. \A n \in 1..L : n + from - 1 \in 1..Len(t)
    BY <1>2
  <1>6. FoldType(F, L, ReaderState)
    BY <1>2, <1>4, <1>5 DEF FoldType
  <1>7. \A n \in 1..L, r \in ReaderState : F[<<n, r>>] = ReadOn(r, t[n + from - 1])
    OBVIOUS
  <1> HIDE DEF F, h
  <1>8. PICK g : CountsOver(g, L, ReaderState, Unread, F)
    <2> HIDE DEF L
    <2>1. QED
      BY <1>2, <1>3, <1>6, RunExists
  <1>9. /\ g \in [0..L -> ReaderState] /\ g[0] = Unread
        /\ \A n \in 1..L : g[n] = F[<<n, g[n - 1]>>]
    BY <1>8 DEF CountsOver
  <1> DEFINE f == [n \in dom |-> g[n - from + 1]]
  <1>10. Is(f)
    <2>1. ASSUME NEW n \in dom PROVE f[n] = IF n < from THEN Unread ELSE ReadOn(f[n - 1], t[n])
      <3>1. CASE n < from
        <4>1. n - from + 1 = 0
          BY <1>2, <3>1
        <4>2. QED
          BY <1>9, <3>1, <4>1
      <3>2. CASE ~(n < from)
        <4> DEFINE k == n - from + 1
        <4>1. k \in 1..L /\ k - 1 \in 0..L /\ n - 1 \in dom /\ (n - 1) - from + 1 = k - 1
              /\ k + from - 1 = n
          BY <1>2, <3>2
        <4>2. f[n] = g[k] /\ f[n - 1] = g[k - 1]
          BY <4>1
        <4> HIDE DEF k, f, L, dom
        <4>3. g[k - 1] \in ReaderState
          BY <1>9, <4>1
        <4>4. g[k] = ReadOn(g[k - 1], t[n])
          BY <1>7, <1>9, <4>1, <4>3
        <4>5. QED
          BY <3>2, <4>2, <4>4
      <3>3. QED
        BY <3>1, <3>2
    <2>2. DOMAIN f = dom /\ f = [n \in dom |-> f[n]]
      OBVIOUS
    <2> HIDE DEF f, dom
    <2>3. QED
      BY <2>1, <2>2
  <1>11. Is(h)
    <2> HIDE DEF Is
    <2>1. QED
      BY <1>10 DEF h
  <1>12. \A n \in dom : h[n] = IF n < from THEN Unread ELSE ReadOn(h[n - 1], t[n])
    <2> HIDE DEF dom
    <2>1. QED
      BY <1>11
  <1> HIDE DEF Is, f
  <1>13. from - 1 \in dom /\ h[from - 1] = Unread
    BY <1>2, <1>12
  <1> DEFINE P == {n \in 0..L : h[n + from - 1] \in ReaderState}
  <1>14. 0 \in P
    BY <1>2, <1>3, <1>13
  <1>15. ASSUME NEW n \in 1..L, n - 1 \in P PROVE n \in P
    <2>1. n + from - 1 \in dom /\ ~(n + from - 1 < from) /\ n + from - 1 \in 1..Len(t)
          /\ (n + from - 1) - 1 = (n - 1) + from - 1 /\ n \in 0..L
      BY <1>2
    <2>2. h[(n - 1) + from - 1] \in ReaderState
      BY <1>15
    <2>3. h[n + from - 1] = ReadOn(h[(n - 1) + from - 1], t[n + from - 1])
      BY <1>12, <2>1
    <2>4. h[n + from - 1] \in ReaderState
      BY <1>2, <1>4, <2>1, <2>2, <2>3
    <2>5. QED
      BY <2>1, <2>4
  <1>16. 0..L \subseteq P
    <2> HIDE DEF P, L
    <2>1. QED
      BY <1>2, <1>14, <1>15, CountsUp
  <1>17. ASSUME NEW n \in dom PROVE h[n] \in ReaderState
    <2>1. n - from + 1 \in 0..L /\ (n - from + 1) + from - 1 = n
      BY <1>2
    <2>2. QED
      BY <1>16, <2>1
  <1>18. ASSUME NEW n \in from..Len(t) PROVE ReadsOn(h[n - 1], t[n], h[n])
    <2>1. n \in dom /\ n - 1 \in dom /\ ~(n < from) /\ n \in 1..Len(t)
      BY <1>2
    <2>2. h[n] = ReadOn(h[n - 1], t[n]) /\ h[n - 1] \in ReaderState /\ t[n] \in Byte
      BY <1>2, <1>12, <1>17, <2>1
    <2>3. QED
      BY <2>2, ReadOnFacts
  <1>19. QED
    BY <1>1, <1>13, <1>17, <1>18

\* How many of a stack's brackets are of kind c, counted from the bottom, which is one.
Weighs(stack, c, d) ==
    \E f \in [0..Len(stack) -> Nat] :
        /\ f[0] = 0 /\ f[Len(stack)] = d
        /\ \A k \in 1..Len(stack) :
              /\ f[k] = f[k - 1] + (IF stack[Len(stack) - k + 1] = c THEN 1 ELSE 0)
              /\ f[k] >= 1

LEMMA EmptyWeighs ==
    ASSUME NEW stack \in Seq(ClosingBracket), NEW c, NEW d, Weighs(stack, c, d)
    PROVE  d \in Nat /\ (d = 0 <=> stack = <<>>)
  <1>1. PICK f \in [0..Len(stack) -> Nat] :
          /\ f[0] = 0 /\ f[Len(stack)] = d
          /\ \A k \in 1..Len(stack) : f[k] >= 1
    BY DEF Weighs
  <1>2. Len(stack) \in Nat /\ Len(stack) \in 0..Len(stack)
        /\ (stack # <<>> => Len(stack) \in 1..Len(stack))
    OBVIOUS
  <1>3. CASE stack = <<>>
    BY <1>1, <1>2, <1>3
  <1>4. CASE stack # <<>>
    BY <1>1, <1>2, <1>4
  <1>5. QED
    BY <1>3, <1>4

LEMMA NothingWeighs ==
    ASSUME NEW c
    PROVE  Weighs(<<>>, c, 0)
  <1> DEFINE f == [n \in 0..0 |-> 0]
  <1>1. f \in [0..Len(<<>>) -> Nat] /\ f[0] = 0 /\ Len(<<>>) = 0 /\ 1..0 = {}
    OBVIOUS
  <1> HIDE DEF f
  <1>2. QED
    BY <1>1 DEF Weighs

LEMMA PushWeighs ==
    ASSUME NEW stack \in Seq(ClosingBracket), NEW c, NEW d, Weighs(stack, c, d),
           NEW x \in ClosingBracket, stack # <<>> \/ x = c
    PROVE  Weighs(<<x>> \o stack, c, IF x = c THEN d + 1 ELSE d)
  <1> DEFINE L == Len(stack)
             pushed == <<x>> \o stack
             e == IF x = c THEN d + 1 ELSE d
  <1>1. PICK f \in [0..L -> Nat] :
          /\ f[0] = 0 /\ f[L] = d
          /\ \A k \in 1..L : /\ f[k] = f[k - 1] + (IF stack[L - k + 1] = c THEN 1 ELSE 0)
                             /\ f[k] >= 1
    BY DEF Weighs
  <1>2. L \in Nat /\ d \in Nat
    BY <1>1
  <1>3. pushed \in Seq(ClosingBracket) /\ Len(pushed) = L + 1 /\ pushed[1] = x
        /\ \A k \in 1..L : pushed[k + 1] = stack[k]
    <2>1. <<x>> \in Seq(ClosingBracket) /\ Len(<<x>>) = 1 /\ <<x>>[1] = x
      BY OneByte
    <2>2. QED
      BY <2>1, JoinedBytes
  <1>4. stack = <<>> => L = 0
    OBVIOUS
  <1>5. stack # <<>> => L \in 1..L
    BY <1>2
  <1> HIDE DEF L, pushed
  <1> DEFINE g == [k \in 0..(L + 1) |-> IF k = L + 1 THEN e ELSE f[k]]
  <1>6. e \in Nat /\ e = d + (IF x = c THEN 1 ELSE 0) /\ e >= 1
    <2>1. stack # <<>> => d >= 1
      BY <1>1, <1>5
    <2>2. QED
      BY <1>2, <2>1
  <1> HIDE DEF e
  <1>7. g \in [0..(L + 1) -> Nat] /\ g[0] = 0 /\ g[L + 1] = e
    BY <1>1, <1>2, <1>6
  <1>8. ASSUME NEW k \in 1..(L + 1)
        PROVE  /\ g[k] = g[k - 1] + (IF pushed[(L + 1) - k + 1] = c THEN 1 ELSE 0)
               /\ g[k] >= 1
    <2>1. CASE k = L + 1
      <3>1. (L + 1) - k + 1 = 1 /\ g[k] = e /\ g[k - 1] = d
        BY <1>1, <1>2, <2>1
      <3>2. QED
        BY <1>3, <1>6, <3>1
    <2>2. CASE k # L + 1
      <3>1. k \in 1..L /\ L - k + 1 \in 1..L /\ (L + 1) - k + 1 = (L - k + 1) + 1
            /\ g[k] = f[k] /\ g[k - 1] = f[k - 1]
        BY <1>2, <2>2
      <3>2. pushed[(L + 1) - k + 1] = stack[L - k + 1]
        BY <1>3, <3>1
      <3> HIDE DEF g
      <3>3. QED
        BY <1>1, <3>1, <3>2
    <2>3. QED
      BY <2>1, <2>2
  <1> HIDE DEF g
  <1>9. Weighs(pushed, c, e)
    <2>1. /\ g \in [0..Len(pushed) -> Nat] /\ g[0] = 0 /\ g[Len(pushed)] = e
          /\ \A k \in 1..Len(pushed) :
                /\ g[k] = g[k - 1] + (IF pushed[Len(pushed) - k + 1] = c THEN 1 ELSE 0)
                /\ g[k] >= 1
      BY <1>3, <1>7, <1>8
    <2>2. QED
      BY <2>1, Zenon DEF Weighs
  <1>10. QED
    BY <1>9 DEF pushed, e

LEMMA PopWeighs ==
    ASSUME NEW stack \in Seq(ClosingBracket), NEW c, NEW d, Weighs(stack, c, d), stack # <<>>
    PROVE  Weighs(Tail(stack), c, IF Head(stack) = c THEN d - 1 ELSE d)
  <1> DEFINE L == Len(stack)
             popped == Tail(stack)
             e == IF Head(stack) = c THEN d - 1 ELSE d
  <1>1. PICK f \in [0..L -> Nat] :
          /\ f[0] = 0 /\ f[L] = d
          /\ \A k \in 1..L : /\ f[k] = f[k - 1] + (IF stack[L - k + 1] = c THEN 1 ELSE 0)
                             /\ f[k] >= 1
    BY DEF Weighs
  <1>2. L \in Nat /\ L \in 1..L /\ d \in Nat
    BY <1>1
  <1>3. /\ popped \in Seq(ClosingBracket) /\ Len(popped) = L - 1 /\ Head(stack) = stack[1]
        /\ \A k \in 1..(L - 1) : popped[k] = stack[k + 1]
    OBVIOUS
  <1> HIDE DEF L, popped
  <1> DEFINE g == [k \in 0..(L - 1) |-> f[k]]
  <1>4. g \in [0..(L - 1) -> Nat] /\ g[0] = 0
    BY <1>1, <1>2
  <1>5. g[L - 1] = e
    <2>1. L - 1 \in 0..(L - 1) /\ L - L + 1 = 1
      BY <1>2
    <2>2. f[L] = f[L - 1] + (IF stack[1] = c THEN 1 ELSE 0) /\ f[L - 1] \in Nat
      BY <1>1, <1>2, <2>1
    <2>3. f[L - 1] = e
      BY <1>1, <1>2, <1>3, <2>2
    <2>4. QED
      BY <2>1, <2>3
  <1> HIDE DEF e
  <1>6. ASSUME NEW k \in 1..(L - 1)
        PROVE  /\ g[k] = g[k - 1] + (IF popped[(L - 1) - k + 1] = c THEN 1 ELSE 0)
               /\ g[k] >= 1
    <2>1. k \in 1..L /\ (L - 1) - k + 1 \in 1..(L - 1) /\ ((L - 1) - k + 1) + 1 = L - k + 1
          /\ g[k] = f[k] /\ g[k - 1] = f[k - 1]
      BY <1>2
    <2>2. popped[(L - 1) - k + 1] = stack[L - k + 1]
      BY <1>3, <2>1
    <2> HIDE DEF g
    <2>3. QED
      BY <1>1, <2>1, <2>2
  <1> HIDE DEF g
  <1>7. Weighs(popped, c, e)
    <2>1. /\ g \in [0..Len(popped) -> Nat] /\ g[0] = 0 /\ g[Len(popped)] = e
          /\ \A k \in 1..Len(popped) :
                /\ g[k] = g[k - 1] + (IF popped[Len(popped) - k + 1] = c THEN 1 ELSE 0)
                /\ g[k] >= 1
      BY <1>3, <1>4, <1>5, <1>6
    <2>2. QED
      BY <2>1, Zenon DEF Weighs
  <1>8. QED
    BY <1>7 DEF popped, e

-----------------------------------------------------------------------------
(* The scanner beside the reference. *)

Start == Min(Opening(body))
Read == Reader(body, Start)

\* While both agree that brackets pair, the scanner's depth is how many of its own kind are on
\* the reader's stack; the bottom one is, so that no value has ended yet.
Scanning ==
    /\ s = body /\ answer = Unset /\ Opening(body) # {}
    /\ i \in Start..(Len(body) + 1)
    /\ inStr = Read[i - 1].str /\ esc = Read[i - 1].esc
    /\ Read[i - 1].ok => Weighs(Read[i - 1].stack, Closes(body[Start]), depth)
    /\ \A n \in Start..(i - 1) : Read[n].ok => Read[n].stack # <<>>

Waiting == s = Unset /\ answer = Unset /\ depth = 0 /\ inStr = FALSE /\ esc = FALSE

NothingFound == s = body /\ answer = Err /\ FirstValue(body) = <<>>

ValueFound ==
    /\ s = body /\ Opening(body) # {}
    /\ \E n \in Start..Len(body) : answer = SubSeq(body, Start, n)
    /\ FirstValue(body) # <<>> => answer = FirstValue(body)

ScanInv ==
    /\ body \in Seq(Byte) /\ Unfenced(completion) = body
    /\ Waiting \/ Scanning \/ NothingFound \/ ValueFound

LEMMA StartFacts ==
    ASSUME body \in Seq(Byte), Opening(body) # {}
    PROVE  Start \in 1..Len(body) /\ Start \in Opening(body) /\ body[Start] \in Bracket
  <1>1. DOMAIN body = 1..Len(body) /\ Len(body) \in Nat
    OBVIOUS
  <1>2. Opening(body) \subseteq 1..Len(body)
    BY <1>1 DEF Opening, Positions
  <1>3. Start \in Opening(body)
    <2>1. Opening(body) \subseteq Nat
      BY <1>1, <1>2
    <2>2. QED
      BY <2>1, MinIsLeast DEF Start
  <1>4. body[Start] \in Bracket
    BY <1>3, Zenon DEF Opening, Positions, Bracket
  <1>5. QED
    BY <1>2, <1>3, <1>4

LEMMA ReadFacts ==
    ASSUME body \in Seq(Byte), Opening(body) # {}
    PROVE  /\ Read[Start - 1] = Unread
           /\ \A n \in (Start - 1)..Len(body) : Read[n] \in ReaderState
           /\ \A n \in Start..Len(body) : ReadsOn(Read[n - 1], body[n], Read[n])
  BY StartFacts, ReaderFacts DEF Read

\* What once does not pair never pairs again.
LEMMA OkBefore ==
    ASSUME body \in Seq(Byte), Opening(body) # {},
           NEW n \in (Start - 1)..Len(body), NEW m \in n..Len(body), Read[m].ok
    PROVE  Read[n].ok
  <1> DEFINE L == m - n
             P == {k \in 0..L : Read[m - k].ok}
  <1>1. Start \in Nat /\ Len(body) \in Nat /\ n \in Nat /\ m \in Nat /\ L \in Nat /\ Start - 1 <= n
    <2>1. Start \in 1..Len(body) /\ Len(body) \in Nat
      BY StartFacts
    <2>2. QED
      BY <2>1
  <1>2. 0 \in P
    BY <1>1
  <1>3. ASSUME NEW k \in 1..L, k - 1 \in P PROVE k \in P
    <2>1. m - (k - 1) \in Start..Len(body) /\ (m - (k - 1)) - 1 = m - k /\ k \in 0..L
      BY <1>1
    <2>2. ReadsOn(Read[m - k], body[m - (k - 1)], Read[m - (k - 1)])
      BY <2>1, ReadFacts
    <2>3. Read[m - (k - 1)].ok
      BY <1>3
    <2>4. Read[m - k].ok
      BY <2>2, <2>3 DEF ReadsOn
    <2>5. QED
      BY <2>1, <2>4
  <1>4. 0..L \subseteq P
    <2> HIDE DEF P, L
    <2>1. QED
      BY <1>1, <1>2, <1>3, CountsUp
  <1>5. L \in 0..L /\ m - L = n
    BY <1>1
  <1>6. L \in P
    <2> HIDE DEF P, L
    <2>1. QED
      BY <1>4, <1>5
  <1>7. QED
    BY <1>5, <1>6

\* Where the reference ends.
LEMMA FirstValueEnds ==
    ASSUME body \in Seq(Byte), FirstValue(body) # <<>>
    PROVE  /\ Opening(body) # {}
           /\ \E e \in Start..Len(body) :
                 /\ Read[e].ok /\ Read[e].stack = <<>> /\ ~Read[e].str
                 /\ \A n \in Start..Len(body) : Read[n].stack = <<>> /\ ~Read[n].str => e <= n
                 /\ FirstValue(body) = SubSeq(body, Start, e)
  <1> DEFINE ends == {n \in Start..Len(body) : Read[n].stack = <<>> /\ ~Read[n].str}
  <1>1. Opening(body) # {}
    BY DEF FirstValue
  <1>2. FirstValue(body) = IF ends = {} \/ ~Read[Min(ends)].ok THEN <<>>
                           ELSE SubSeq(body, Start, Min(ends))
    BY <1>1, Zenon DEF FirstValue, Start, Read
  <1>3. ends # {} /\ Read[Min(ends)].ok /\ FirstValue(body) = SubSeq(body, Start, Min(ends))
    <2> HIDE DEF ends
    <2>1. QED
      BY <1>2
  <1>4. ends \subseteq Nat
    BY <1>1, StartFacts
  <1>5. Min(ends) \in ends /\ \A n \in ends : Min(ends) <= n
    <2> HIDE DEF ends
    <2>1. QED
      BY <1>3, <1>4, MinIsLeast
  <1> DEFINE e == Min(ends)
  <1>6. /\ e \in ends /\ Read[e].ok /\ FirstValue(body) = SubSeq(body, Start, e)
        /\ \A n \in ends : e <= n
    BY <1>3, <1>5
  <1> HIDE DEF e
  <1>7. QED
    BY <1>1, <1>6

\* What the scanner makes of the next byte.
Closing == ~esc /\ ~inStr /\ body[i] = Closes(body[Start])

NextDepth ==
    IF ~esc /\ ~inStr /\ body[i] = body[Start] THEN depth + 1
    ELSE IF Closing THEN depth - 1 ELSE depth

\* One byte further: the scanner's depth keeps to the reader's stack.
LEMMA StepWeighs ==
    ASSUME ScanInv, Scanning, i <= Len(body), Read[i].ok
    PROVE  /\ Weighs(Read[i].stack, Closes(body[Start]), NextDepth)
           /\ Read[i].stack = <<>> <=> Closing /\ NextDepth = 0
           /\ Read[i].stack = <<>> => ~Read[i].str
  <1> DEFINE r == Read[i - 1]
             q == Read[i]
             ch == body[i]
             c == Closes(body[Start])
             closing == Closing
             d == NextDepth
  <1>1. body \in Seq(Byte) /\ Opening(body) # {} /\ i \in Start..Len(body) /\ i \in Nat
        /\ Start \in 1..Len(body) /\ body[Start] \in Bracket /\ ch \in Byte
    BY StartFacts DEF ScanInv, Scanning
  <1>2. r \in ReaderState /\ q \in ReaderState /\ ReadsOn(r, ch, q)
    <2>1. i - 1 \in (Start - 1)..Len(body) /\ i \in (Start - 1)..Len(body)
      BY <1>1
    <2>2. QED
      BY <1>1, <2>1, ReadFacts
  <1>3. r.ok /\ q.ok
    BY <1>2 DEF ReadsOn
  <1>4. Weighs(r.stack, c, depth) /\ inStr = r.str /\ esc = r.esc
    BY <1>3 DEF Scanning
  <1>5. (i = Start => r = Unread /\ ch = body[Start]) /\ (i # Start => r.stack # <<>>)
    <2>1. i = Start => r = Unread /\ ch = body[Start]
      BY <1>1, ReadFacts
    <2>2. i # Start => i - 1 \in Start..(i - 1)
      BY <1>1
    <2>3. QED
      BY <1>3, <2>1, <2>2 DEF Scanning
  <1>6. /\ r.stack \in Seq(ClosingBracket) /\ q.stack \in Seq(ClosingBracket)
        /\ r.str \in BOOLEAN /\ r.esc \in BOOLEAN
    BY <1>2 DEF ReaderState
  <1>7. c \in ClosingBracket /\ c \notin Bracket /\ body[Start] \notin ClosingBracket
        /\ \A x \in Bracket : Closes(x) \in ClosingBracket /\ (Closes(x) = c <=> x = body[Start])
    BY <1>1 DEF Bracket, ClosingBracket, Closes
  <1>8. depth \in Nat /\ (depth = 0 <=> r.stack = <<>>)
    BY <1>4, <1>6, EmptyWeighs
  <1>9. CASE r.esc \/ r.str \/ ch \notin Bracket \cup ClosingBracket
    <2>1. q.stack = r.stack
      BY <1>2, <1>9 DEF ReadsOn
    <2>2. ~closing /\ d = depth
      BY <1>1, <1>4, <1>7, <1>9 DEF Closing, NextDepth
    <2>3. i # Start
      BY <1>1, <1>5, <1>9 DEF Unread
    <2>4. QED
      BY <1>4, <1>5, <2>1, <2>2, <2>3
  <1>10. CASE ~r.esc /\ ~r.str /\ ch \in Bracket
    <2>1. q.stack = <<Closes(ch)>> \o r.stack
      BY <1>2, <1>10 DEF ReadsOn
    <2>2. ~closing /\ d = IF Closes(ch) = c THEN depth + 1 ELSE depth
      BY <1>4, <1>7, <1>10 DEF Closing, NextDepth
    <2>3. Closes(ch) \in ClosingBracket /\ (r.stack # <<>> \/ Closes(ch) = c)
      BY <1>5, <1>7, <1>10
    <2>4. Weighs(q.stack, c, d)
      BY <1>4, <1>6, <2>1, <2>2, <2>3, PushWeighs
    <2>5. q.stack # <<>>
      <3>1. <<Closes(ch)>> \in Seq(ClosingBracket) /\ Len(<<Closes(ch)>>) = 1
        BY <2>3, OneByte
      <3>2. Len(q.stack) = 1 + Len(r.stack) /\ Len(r.stack) \in Nat
        BY <1>6, <2>1, <3>1
      <3>3. QED
        BY <3>2
    <2>6. QED
      BY <2>2, <2>4, <2>5
  <1>11. CASE ~r.esc /\ ~r.str /\ ch \in ClosingBracket
    <2>1. r.stack # <<>> /\ Head(r.stack) = ch /\ q.stack = Tail(r.stack)
      BY <1>2, <1>3, <1>11 DEF ReadsOn
    <2>2. (closing <=> ch = c) /\ d = IF ch = c THEN depth - 1 ELSE depth
      BY <1>4, <1>7, <1>11 DEF Closing, NextDepth
    <2>3. Weighs(q.stack, c, d)
      BY <1>4, <1>6, <2>1, <2>2, PopWeighs
    <2>4. d = 0 <=> q.stack = <<>>
      <3>1. q.stack \in Seq(ClosingBracket)
        BY <1>6
      <3>2. ASSUME NEW stack \in Seq(ClosingBracket), NEW e, Weighs(stack, c, e)
            PROVE  e = 0 <=> stack = <<>>
        <4> HIDE DEF c
        <4>1. QED
          BY <3>2, EmptyWeighs
      <3> HIDE DEF q, c
      <3>3. QED
        BY <2>3, <3>1, <3>2
    <2>5. d = 0 => ch = c
      BY <1>8, <2>1, <2>2
    <2>6. ~q.str
      <3>1. ch # "quote"
        BY <1>11 DEF ClosingBracket
      <3>2. QED
        BY <1>2, <1>11, <3>1 DEF ReadsOn
    <2>7. QED
      BY <2>2, <2>3, <2>4, <2>5, <2>6
  <1>12. QED
    BY <1>9, <1>10, <1>11

LEMMA ScanStarts == ScanInit => ScanInv
  <1> SUFFICES ASSUME ScanInit PROVE ScanInv
    OBVIOUS
  <1>1. body \in Seq(Byte)
    BY BodyAssumption DEF ScanInit
  <1>2. Unfenced(completion) = body
    <2>1. CASE completion = body
      BY <1>1, <2>1, UnfencedBody
    <2>2. CASE completion # body
      <3>1. PICK tag \in Tag :
              completion = <<"text", Fence>> \o tag \o <<"newline">> \o body \o <<Fence, "}">>
        BY <2>2, Zenon DEF ScanInit
      <3>2. tag \in Seq(Byte \ {"newline"})
        BY BodyAssumption
      <3>3. QED
        BY <1>1, <3>1, <3>2, UnfencedBody, Zenon
    <2>3. QED
      BY <2>1, <2>2
  <1>3. Waiting
    BY DEF ScanInit, Waiting
  <1>4. QED
    BY <1>1, <1>2, <1>3 DEF ScanInv

\* What is not an answer.
LEMMA NotAnAnswer ==
    ASSUME body \in Seq(Byte)
    PROVE  /\ body # Unset /\ Err # Unset
           /\ \A m \in 1..Len(body) : \A n \in m..Len(body) :
                 SubSeq(body, m, n) # Unset /\ SubSeq(body, m, n) # Err
  <1>1. Unset[1] \notin Byte /\ Err[1] \notin Byte /\ Unset[1] # Err[1] /\ Len(Unset) = 1 /\ Len(Err) = 1
    BY DEF Unset, Err, Byte
  <1>2. body # Unset
    <2>1. SUFFICES ASSUME body = Unset PROVE FALSE
      OBVIOUS
    <2>2. Len(body) = 1 /\ 1 \in 1..Len(body) /\ body[1] \notin Byte
      BY <1>1, <2>1
    <2>3. \A n \in 1..Len(body) : body[n] \in Byte
      OBVIOUS
    <2>4. QED
      BY <2>2, <2>3
  <1>3. ASSUME NEW m \in 1..Len(body), NEW n \in m..Len(body)
        PROVE  SubSeq(body, m, n)[1] \in Byte
    <2>1. /\ m \in Int /\ n \in Int /\ 1 \in 1..(n - m + 1) /\ m + 1 - 1 = m
          /\ \A k \in m..n : body[k] \in Byte
      OBVIOUS
    <2>2. SubSeq(body, m, n)[1] = body[m]
      BY <2>1, SubSeqProperties
    <2>3. QED
      BY <2>2
  <1>4. QED
    BY <1>1, <1>2, <1>3

LEMMA Steady ==
    ASSUME body' = body
    PROVE  /\ Start' = Start /\ Read' = Read /\ Opening(body') = Opening(body)
           /\ FirstValue(body') = FirstValue(body)
  <1>1. Opening(body') = Opening(body) /\ FirstValue(body') = FirstValue(body)
    BY Zenon
  <1>2. Start' = Start
    BY <1>1, Zenon DEF Start
  <1>3. Read' = Read
    BY <1>2, Zenon DEF Read
  <1>4. QED
    BY <1>1, <1>2, <1>3

\* Who can scan: nobody who has an answer.
LEMMA OnlyScanning ==
    ASSUME ScanInv, s # Unset, answer = Unset
    PROVE  Scanning
  <1>1. body \in Seq(Byte)
    BY DEF ScanInv
  <1>2. ~Waiting
    BY DEF Waiting
  <1>3. ~NothingFound
    BY <1>1, NotAnAnswer DEF NothingFound
  <1>4. ~ValueFound
    <2>1. SUFFICES ASSUME Opening(body) # {}, NEW n \in Start..Len(body),
                          answer = SubSeq(body, Start, n)
                   PROVE  FALSE
      BY DEF ValueFound
    <2>2. Start \in 1..Len(body)
      BY <1>1, <2>1, StartFacts
    <2>3. QED
      BY <1>1, <2>1, <2>2, NotAnAnswer
  <1>5. QED
    BY <1>2, <1>3, <1>4 DEF ScanInv

LEMMA LocateKeeps == ScanInv /\ Locate => ScanInv'
  <1> SUFFICES ASSUME ScanInv, Locate PROVE ScanInv'
    OBVIOUS
  <1>1. body \in Seq(Byte) /\ Unfenced(completion) = body
    BY DEF ScanInv
  <1>2. /\ body' = body /\ completion' = completion /\ s' = body
        /\ depth' = depth /\ inStr' = inStr /\ esc' = esc /\ s = Unset
    BY <1>1 DEF Locate
  <1>3. IF Opening(body) = {} THEN answer' = Err ELSE i' = Min(Opening(body)) /\ answer' = answer
    BY <1>2 DEF Locate
  <1>4. /\ Start' = Start /\ Read' = Read /\ Opening(body') = Opening(body)
        /\ FirstValue(body') = FirstValue(body)
    BY <1>2, Steady
  <1>5. body' \in Seq(Byte) /\ Unfenced(completion') = body'
    BY <1>1, <1>2
  <1>6. Waiting
    <2>1. body # Unset
      BY <1>1, NotAnAnswer
    <2>2. QED
      BY <1>2, <2>1 DEF ScanInv, Scanning, NothingFound, ValueFound
  <1>7. CASE Opening(body) = {}
    <2>1. FirstValue(body) = <<>>
      BY <1>7 DEF FirstValue
    <2>2. NothingFound'
      BY <1>2, <1>3, <1>4, <1>7, <2>1 DEF NothingFound
    <2>3. QED
      BY <1>5, <2>2 DEF ScanInv
  <1>8. CASE Opening(body) # {}
    <2>1. i' = Start /\ answer' = Unset /\ depth' = 0 /\ inStr' = FALSE /\ esc' = FALSE
      BY <1>2, <1>3, <1>6, <1>8 DEF Start, Waiting
    <2>2. Read[Start - 1] = Unread /\ Start \in 1..Len(body) /\ Len(body) \in Nat
      BY <1>1, <1>8, ReadFacts, StartFacts
    <2>3. i' \in Start..(Len(body) + 1) /\ i' - 1 = Start - 1 /\ Start..(i' - 1) = {}
      BY <2>1, <2>2
    <2>4. inStr' = Read[i' - 1].str /\ esc' = Read[i' - 1].esc /\ Read[i' - 1].stack = <<>>
      <3>1. Unread.str = FALSE /\ Unread.esc = FALSE /\ Unread.stack = <<>>
        BY DEF Unread
      <3>2. Read[i' - 1] = Unread
        BY <2>2, <2>3
      <3>3. QED
        BY <2>1, <3>1, <3>2
    <2>5. Weighs(Read[i' - 1].stack, Closes(body[Start]), depth')
      BY <2>1, <2>4, NothingWeighs
    <2>6. Scanning'
      BY <1>2, <1>4, <1>8, <2>1, <2>3, <2>4, <2>5 DEF Scanning
    <2>7. QED
      BY <1>5, <2>6 DEF ScanInv
  <1>9. QED
    BY <1>7, <1>8

LEMMA ScanKeeps == ScanInv /\ Scan => ScanInv'
  <1> SUFFICES ASSUME ScanInv, Scan PROVE ScanInv'
    OBVIOUS
  <1>1. Scanning
    BY OnlyScanning DEF Scan
  <1>2. body \in Seq(Byte) /\ Opening(body) # {} /\ s = body /\ answer = Unset
        /\ Unfenced(completion) = body
    BY <1>1 DEF ScanInv, Scanning
  <1>3. /\ i <= Len(body) /\ i' = i + 1 /\ body' = body /\ completion' = completion /\ s' = body
        /\ esc' = (~esc /\ inStr /\ body[i] = "backslash")
        /\ inStr' = IF ~esc /\ body[i] = "quote" THEN ~inStr ELSE inStr
        /\ depth' = NextDepth
        /\ answer' = IF Closing /\ NextDepth = 0 THEN SubSeq(body, Start, i) ELSE Unset
    BY <1>2 DEF Scan, InString, Start, Closing, NextDepth
  <1>4. /\ Start \in 1..Len(body) /\ Len(body) \in Nat /\ i \in Start..Len(body) /\ i \in Nat
        /\ i - 1 \in (Start - 1)..Len(body) /\ i \in (Start - 1)..Len(body) /\ i' - 1 = i
        /\ i' \in Start..(Len(body) + 1)
    <2>1. Start \in 1..Len(body) /\ Len(body) \in Nat /\ i \in Start..(Len(body) + 1)
      BY <1>1, <1>2, StartFacts DEF Scanning
    <2>2. QED
      BY <1>3, <2>1
  <1>5. /\ Start' = Start /\ Read' = Read /\ Opening(body') = Opening(body)
        /\ FirstValue(body') = FirstValue(body)
    BY <1>3, Steady
  <1>6. body' \in Seq(Byte) /\ Unfenced(completion') = body'
    BY <1>2, <1>3
  <1>7. /\ ReadsOn(Read[i - 1], body[i], Read[i])
        /\ inStr = Read[i - 1].str /\ esc = Read[i - 1].esc
    BY <1>1, <1>2, <1>4, ReadFacts DEF Scanning
  <1>8. Read[i].ok => /\ Weighs(Read[i].stack, Closes(body[Start]), NextDepth)
                      /\ Read[i].stack = <<>> <=> Closing /\ NextDepth = 0
                      /\ Read[i].stack = <<>> => ~Read[i].str
    BY <1>1, <1>3, StepWeighs
  <1>9. CASE Closing /\ NextDepth = 0
    <2>1. answer' = SubSeq(body, Start, i)
      BY <1>3, <1>9
    <2>2. ASSUME FirstValue(body) # <<>> PROVE answer' = FirstValue(body)
      <3>1. PICK e \in Start..Len(body) :
              /\ Read[e].ok /\ Read[e].stack = <<>> /\ ~Read[e].str
              /\ \A n \in Start..Len(body) : Read[n].stack = <<>> /\ ~Read[n].str => e <= n
              /\ FirstValue(body) = SubSeq(body, Start, e)
        BY <1>2, <2>2, FirstValueEnds
      <3>2. e \notin Start..(i - 1)
        BY <1>1, <3>1 DEF Scanning
      <3>3. e \in i..Len(body)
        BY <1>4, <3>2
      <3>4. Read[i].ok
        BY <1>2, <1>4, <3>1, <3>3, OkBefore
      <3>5. e <= i
        BY <1>4, <1>8, <1>9, <3>1, <3>4
      <3>6. e = i
        BY <1>4, <3>3, <3>5
      <3>7. QED
        BY <2>1, <3>1, <3>6
    <2>3. ValueFound'
      BY <1>2, <1>3, <1>4, <1>5, <2>1, <2>2 DEF ValueFound
    <2>4. QED
      BY <1>6, <2>3 DEF ScanInv
  <1>10. CASE ~(Closing /\ NextDepth = 0)
    <2>1. answer' = Unset
      BY <1>3, <1>10
    <2>2. inStr' = Read[i].str /\ esc' = Read[i].esc
      BY <1>3, <1>7 DEF ReadsOn
    <2>3. Read[i].ok => Weighs(Read[i].stack, Closes(body[Start]), depth') /\ Read[i].stack # <<>>
      BY <1>3, <1>8, <1>10
    <2>4. ASSUME NEW n \in Start..i, Read[n].ok PROVE Read[n].stack # <<>>
      <3>1. n = i \/ n \in Start..(i - 1)
        BY <1>4
      <3>2. QED
        BY <1>1, <2>3, <2>4, <3>1 DEF Scanning
    <2>5. Scanning'
      BY <1>2, <1>3, <1>4, <1>5, <2>1, <2>2, <2>3, <2>4 DEF Scanning
    <2>6. QED
      BY <1>6, <2>5 DEF ScanInv
  <1>11. QED
    BY <1>9, <1>10

LEMMA UnterminatedKeeps == ScanInv /\ Unterminated => ScanInv'
  <1> SUFFICES ASSUME ScanInv, Unterminated PROVE ScanInv'
    OBVIOUS
  <1>1. Scanning
    BY OnlyScanning DEF Unterminated
  <1>2. body \in Seq(Byte) /\ s = body /\ Opening(body) # {} /\ Unfenced(completion) = body
    BY <1>1 DEF ScanInv, Scanning
  <1>3. i > Len(body) /\ answer' = Err /\ body' = body /\ completion' = completion /\ s' = body
    BY <1>2 DEF Unterminated
  <1>4. FirstValue(body) = <<>>
    <2>1. SUFFICES ASSUME FirstValue(body) # <<>> PROVE FALSE
      OBVIOUS
    <2>2. PICK e \in Start..Len(body) : Read[e].ok /\ Read[e].stack = <<>>
      BY <1>2, <2>1, FirstValueEnds
    <2>3. e \in Start..(i - 1)
      <3>1. Start \in 1..Len(body) /\ Len(body) \in Nat /\ i \in Start..(Len(body) + 1)
        BY <1>1, <1>2, StartFacts DEF Scanning
      <3>2. QED
        BY <1>3, <3>1
    <2>4. QED
      BY <1>1, <2>2, <2>3 DEF Scanning
  <1>5. FirstValue(body') = FirstValue(body)
    BY <1>3, Steady
  <1>6. NothingFound'
    BY <1>3, <1>4, <1>5 DEF NothingFound
  <1>7. QED
    BY <1>2, <1>3, <1>6 DEF ScanInv

LEMMA ScanStutters == ScanInv /\ UNCHANGED scanVars => ScanInv'
  <1> SUFFICES ASSUME ScanInv, UNCHANGED scanVars PROVE ScanInv'
    OBVIOUS
  <1>1. /\ body' = body /\ completion' = completion /\ s' = s /\ i' = i /\ depth' = depth
        /\ inStr' = inStr /\ esc' = esc /\ answer' = answer
    BY DEF scanVars
  <1>2. /\ Start' = Start /\ Read' = Read /\ Opening(body') = Opening(body)
        /\ FirstValue(body') = FirstValue(body)
    BY <1>1, Steady
  <1>3. (Waiting => Waiting') /\ (NothingFound => NothingFound')
    BY <1>1, <1>2 DEF Waiting, NothingFound
  <1>4. Scanning => Scanning'
    BY <1>1, <1>2 DEF Scanning
  <1>5. ValueFound => ValueFound'
    BY <1>1, <1>2 DEF ValueFound
  <1>6. QED
    BY <1>1, <1>3, <1>4, <1>5 DEF ScanInv

LEMMA ScanInvAnswers == ScanInv => FirstValueAnswered
  <1> SUFFICES ASSUME ScanInv PROVE FirstValueAnswered
    OBVIOUS
  <1>1. body \in Seq(Byte)
    BY DEF ScanInv
  <1>2. CASE answer = Unset
    BY <1>2 DEF FirstValueAnswered
  <1>3. CASE NothingFound
    BY <1>3 DEF NothingFound, FirstValueAnswered
  <1>4. CASE ValueFound
    <2>1. PICK e \in Start..Len(body) : answer = SubSeq(body, Start, e)
      BY <1>4 DEF ValueFound
    <2>2. Start \in 1..Len(body) /\ Len(body) \in Nat
      BY <1>1, <1>4, StartFacts DEF ValueFound
    <2>3. Start \in Int /\ e \in Int /\ Start <= e /\ \A k \in Start..e : body[k] \in Byte
      BY <1>1, <2>2
    <2>4. Len(answer) = e - Start + 1
      BY <2>1, <2>3, SubSeqProperties
    <2>5. /\ Start - 1 \in 0..(Len(body) - Len(answer))
          /\ (Start - 1) + 1 = Start /\ (Start - 1) + Len(answer) = e
      BY <2>2, <2>3, <2>4
    <2>6. \E n \in 0..(Len(body) - Len(answer)) : SubSeq(body, n + 1, n + Len(answer)) = answer
      BY <2>1, <2>5
    <2>7. QED
      BY <1>4, <2>6 DEF ValueFound, FirstValueAnswered
  <1>5. QED
    BY <1>2, <1>3, <1>4 DEF ScanInv, Waiting, Scanning

\* Whatever the model answers and however it fences it, and for a text of any length: the first
\* value whose brackets pair is what ExtractJSON cuts out, the whole of it, and nothing it cuts
\* out holds a byte from outside the body.
THEOREM FirstValueIsAnswered == ScanSpec => []FirstValueAnswered
  <1>1. ScanInit => ScanInv
    BY ScanStarts
  <1>2. ScanInv /\ [ScanNext]_scanVars => ScanInv'
    BY LocateKeeps, ScanKeeps, UnterminatedKeeps, ScanStutters DEF ScanNext
  <1>3. ScanInv => FirstValueAnswered
    BY ScanInvAnswers
  <1>4. QED
    BY <1>1, <1>2, <1>3, PTL DEF ScanSpec

-----------------------------------------------------------------------------
(***************************************************************************)
(* The order of words.                                                     *)
(***************************************************************************)

LEMMA PositionFacts ==
    ASSUME NEW t, NEW x \in Range(t)
    PROVE  Position(t, x) \in DOMAIN t /\ t[Position(t, x)] = x
  BY DEF Position, Range

LEMMA EndingsLength == Len(Endings) = 13 /\ DOMAIN Endings = 1..13
  BY DEF Endings

LEMMA PartFacts ==
    ASSUME NEW p \in Part
    PROVE  p = <<p[1], p[2]>> /\ p[1] \in Range(Stems) /\ p[2] \in Range(Endings)
  BY DEF Part

LEMMA RankFacts ==
    ASSUME NEW p \in Part, NEW q \in Part
    PROVE  Rank(p) \in Nat /\ (Rank(p) = Rank(q) => p = q)
  <1> DEFINE a == Position(Stems, p[1])
             b == Position(Endings, p[2])
             c == Position(Stems, q[1])
             d == Position(Endings, q[2])
  <1>1. /\ a \in DOMAIN Stems /\ Stems[a] = p[1] /\ c \in DOMAIN Stems /\ Stems[c] = q[1]
        /\ b \in DOMAIN Endings /\ Endings[b] = p[2] /\ d \in DOMAIN Endings /\ Endings[d] = q[2]
    BY PartFacts, PositionFacts
  <1>2. DOMAIN Stems \subseteq Nat
    BY TopicAssumption
  <1>3. a \in Nat /\ c \in Nat /\ b \in 1..13 /\ d \in 1..13
    BY <1>1, <1>2, EndingsLength
  <1>4. Rank(p) = 13 * a + b /\ Rank(q) = 13 * c + d
    BY EndingsLength DEF Rank
  <1> HIDE DEF a, b, c, d
  <1>5. Rank(p) \in Nat
    BY <1>3, <1>4
  <1>6. ASSUME Rank(p) = Rank(q) PROVE a = c /\ b = d
    BY <1>3, <1>4, <1>6
  <1>7. ASSUME Rank(p) = Rank(q) PROVE p = q
    BY <1>1, <1>6, <1>7, PartFacts
  <1>8. QED
    BY <1>5, <1>7

LEMMA WordFacts ==
    ASSUME NEW w \in Word
    PROVE  /\ w \in Seq(Part) /\ w # <<>> /\ Len(w) \in Nat \ {0} /\ DOMAIN w = 1..Len(w)
           /\ \A k \in 1..Len(w) : w[k] \in Part
  BY DEF Word

LEMMA BeforeTransitive ==
    ASSUME NEW u \in Word, NEW v \in Word, NEW w \in Word, Before(u, v), Before(v, w)
    PROVE  Before(u, w)
  <1>1. PICK n \in 1..Len(v) : /\ n <= Len(u) + 1 /\ \A k \in 1..(n - 1) : u[k] = v[k]
                               /\ n > Len(u) \/ Rank(u[n]) < Rank(v[n])
    BY WordFacts DEF Before
  <1>2. PICK m \in 1..Len(w) : /\ m <= Len(v) + 1 /\ \A k \in 1..(m - 1) : v[k] = w[k]
                               /\ m > Len(v) \/ Rank(v[m]) < Rank(w[m])
    BY WordFacts DEF Before
  <1>3. /\ Len(u) \in Nat /\ Len(v) \in Nat /\ Len(w) \in Nat /\ DOMAIN w = 1..Len(w)
        /\ \A k \in 1..Len(u) : Rank(u[k]) \in Nat
        /\ \A k \in 1..Len(v) : Rank(v[k]) \in Nat
        /\ \A k \in 1..Len(w) : Rank(w[k]) \in Nat
    BY WordFacts, RankFacts
  <1>4. CASE n < m
    <2>1. n \in 1..Len(w) /\ v[n] = w[n] /\ \A k \in 1..(n - 1) : u[k] = w[k]
      BY <1>1, <1>2, <1>3, <1>4
    <2>2. QED
      BY <1>1, <1>3, <2>1 DEF Before
  <1>5. CASE n = m
    <2>1. \A k \in 1..(n - 1) : u[k] = w[k]
      BY <1>1, <1>2, <1>5
    <2>2. Rank(v[n]) < Rank(w[n])
      BY <1>1, <1>2, <1>3, <1>5
    <2>3. n > Len(u) \/ Rank(u[n]) < Rank(w[n])
      BY <1>1, <1>2, <1>3, <1>5, <2>2
    <2>4. QED
      BY <1>1, <1>2, <1>3, <1>5, <2>1, <2>3 DEF Before
  <1>6. CASE n > m
    <2>1. m \in 1..Len(u) /\ m \in 1..Len(v) /\ m \in 1..(n - 1)
      BY <1>1, <1>2, <1>3, <1>6
    <2>2. \A k \in 1..(m - 1) : u[k] = w[k]
      BY <1>1, <1>2, <1>6
    <2>3. Rank(u[m]) < Rank(w[m])
      <3>1. u[m] = v[m]
        BY <1>1, <2>1
      <3>2. Rank(v[m]) < Rank(w[m])
        BY <1>2, <1>3, <2>1
      <3>3. QED
        BY <3>1, <3>2
    <2>4. m \in DOMAIN w /\ m <= Len(u) + 1
      BY <1>3, <2>1
    <2>5. QED
      BY <2>2, <2>3, <2>4 DEF Before
  <1>7. QED
    BY <1>4, <1>5, <1>6

LEMMA BeforeConnects ==
    ASSUME NEW v \in Word, NEW w \in Word, v # w
    PROVE  Before(v, w) \/ Before(w, v)
  <1> DEFINE least == IF Len(v) < Len(w) THEN Len(v) ELSE Len(w)
             apart == {k \in 1..(least + 1) : k > Len(v) \/ k > Len(w) \/ v[k] # w[k]}
  <1>1. /\ Len(v) \in Nat \ {0} /\ Len(w) \in Nat \ {0} /\ DOMAIN v = 1..Len(v) /\ DOMAIN w = 1..Len(w)
        /\ v \in Seq(Part) /\ w \in Seq(Part)
        /\ \A k \in 1..Len(v) : v[k] \in Part
        /\ \A k \in 1..Len(w) : w[k] \in Part
    BY WordFacts
  <1>2. least \in Nat /\ least <= Len(v) /\ least <= Len(w) /\ (least = Len(v) \/ least = Len(w))
    BY <1>1
  <1> HIDE DEF least
  <1>3. least + 1 \in apart
    <2>1. least + 1 \in 1..(least + 1)
      BY <1>2
    <2>2. least + 1 > Len(v) \/ least + 1 > Len(w)
      <3>1. Len(v) \in Nat /\ Len(w) \in Nat
        BY <1>1
      <3> HIDE DEF apart
      <3>2. QED
        BY <1>2, <3>1
    <2>3. QED
      BY <2>1, <2>2
  <1>4. apart \subseteq Nat
    BY <1>2
  <1>5. PICK d \in apart : \A k \in apart : d <= k
    <2> HIDE DEF apart
    <2>1. QED
      BY <1>3, <1>4, LeastElement
  <1>6. d \in 1..(least + 1) /\ (d > Len(v) \/ d > Len(w) \/ v[d] # w[d])
    BY <1>5
  <1>7. \A k \in 1..(d - 1) : v[k] = w[k]
    <2>1. SUFFICES ASSUME NEW k \in 1..(d - 1), v[k] # w[k] PROVE FALSE
      OBVIOUS
    <2>2. k \in 1..(least + 1) /\ k < d /\ k \in Nat /\ d \in Nat
      BY <1>2, <1>6
    <2>3. k \in apart
      BY <2>1, <2>2
    <2>4. QED
      BY <1>5, <2>2, <2>3
  <1>8. d \in Nat /\ d <= Len(v) + 1 /\ d <= Len(w) + 1 /\ d >= 1
    <2>1. d \in Nat /\ d >= 1 /\ d <= least + 1
      BY <1>2, <1>6
    <2>2. Len(v) \in Nat /\ Len(w) \in Nat
      BY <1>1
    <2> HIDE DEF apart
    <2>3. QED
      BY <1>2, <2>1, <2>2
  <1> HIDE DEF apart
  <1>9. CASE d > Len(v) /\ d > Len(w)
    <2>1. Len(v) = Len(w) /\ d - 1 = Len(v)
      <3>1. Len(v) \in Nat /\ Len(w) \in Nat
        BY <1>1
      <3>2. QED
        BY <1>8, <1>9, <3>1
    <2>2. \A k \in 1..Len(v) : v[k] = w[k]
      BY <1>7, <2>1
    <2>3. v = w
      BY <1>1, <2>1, <2>2
    <2>4. QED
      BY <2>3
  <1>10. CASE d > Len(v) /\ d <= Len(w)
    BY <1>1, <1>7, <1>8, <1>10 DEF Before
  <1>11. CASE d <= Len(v) /\ d > Len(w)
    BY <1>1, <1>7, <1>8, <1>11 DEF Before
  <1>12. CASE d <= Len(v) /\ d <= Len(w)
    <2>1. d \in 1..Len(v) /\ d \in 1..Len(w) /\ v[d] # w[d]
      BY <1>1, <1>6, <1>8, <1>12
    <2>2. Rank(v[d]) \in Nat /\ Rank(w[d]) \in Nat /\ Rank(v[d]) # Rank(w[d])
      BY <1>1, <2>1, RankFacts
    <2>3. Rank(v[d]) < Rank(w[d]) \/ Rank(w[d]) < Rank(v[d])
      BY <2>2
    <2>4. QED
      BY <1>1, <1>7, <1>8, <2>1, <2>3 DEF Before
  <1>13. QED
    BY <1>1, <1>8, <1>9, <1>10, <1>11, <1>12

-----------------------------------------------------------------------------
(* Every set of words can be sorted. *)

Ordered(words, t) ==
    /\ Range(t) = words
    /\ \A m, n \in DOMAIN t : m < n => Before(t[m], t[n])

LEMMA LastWord ==
    ASSUME NEW words, words \subseteq Word, IsFiniteSet(words), words # {}
    PROVE  \E x \in words : \A y \in words : y = x \/ Before(y, x)
  <1> DEFINE L == Cardinality(words)
             P == {n \in 0..L : \A T \in SUBSET words :
                      Cardinality(T) = n /\ T # {}
                        => \E x \in T : \A y \in T : y = x \/ Before(y, x)}
  <1>1. L \in Nat
    BY FS_CardinalityType
  <1>2. 0 \in P
    <2>1. ASSUME NEW T \in SUBSET words, Cardinality(T) = 0, T # {} PROVE FALSE
      BY <2>1, FS_Subset, FS_EmptySet
    <2>2. QED
      BY <1>1, <2>1
  <1>3. ASSUME NEW n \in 1..L, n - 1 \in P PROVE n \in P
    <2>1. ASSUME NEW T \in SUBSET words, Cardinality(T) = n, T # {}
          PROVE  \E x \in T : \A y \in T : y = x \/ Before(y, x)
      <3>1. PICK z \in T : TRUE
        BY <2>1
      <3> DEFINE U == T \ {z}
      <3>2. U \in SUBSET words /\ Cardinality(U) = n - 1
        <4>1. IsFiniteSet(T)
          BY FS_Subset
        <4>2. QED
          BY <2>1, <3>1, <4>1, FS_RemoveElement
      <3>3. CASE U = {}
        BY <3>1, <3>3
      <3>4. CASE U # {}
        <4>1. PICK x \in U : \A y \in U : y = x \/ Before(y, x)
          BY <1>3, <3>2, <3>4
        <4>2. x \in T /\ x \in Word /\ z \in Word /\ x # z
          OBVIOUS
        <4>3. CASE Before(z, x)
          BY <4>1, <4>2, <4>3
        <4>4. CASE ~Before(z, x)
          <5>1. Before(x, z)
            BY <4>2, <4>4, BeforeConnects
          <5>2. \A y \in U : Before(y, z)
            BY <4>1, <4>2, <5>1, BeforeTransitive
          <5>3. QED
            BY <3>1, <5>2
        <4>5. QED
          BY <4>3, <4>4
      <3>5. QED
        BY <3>3, <3>4
    <2>2. n \in 0..L
      OBVIOUS
    <2>3. QED
      BY <2>1, <2>2
  <1>4. 0..L \subseteq P
    <2> HIDE DEF P, L
    <2>1. QED
      BY <1>1, <1>2, <1>3, CountsUp
  <1>5. L \in P
    <2> HIDE DEF P, L
    <2>1. QED
      BY <1>1, <1>4
  <1>6. QED
    BY <1>5

LEMMA Sortable ==
    ASSUME NEW words, words \subseteq Word, IsFiniteSet(words)
    PROVE  \E t \in [1..Cardinality(words) -> words] : Ordered(words, t)
  <1> DEFINE L == Cardinality(words)
             P == {n \in 0..L : \A T \in SUBSET words :
                      Cardinality(T) = n => \E t \in [1..n -> T] : Ordered(T, t)}
  <1>1. L \in Nat
    BY FS_CardinalityType
  <1>2. 0 \in P
    <2>1. ASSUME NEW T \in SUBSET words, Cardinality(T) = 0
          PROVE  \E t \in [1..0 -> T] : Ordered(T, t)
      <3>1. T = {}
        BY <2>1, FS_Subset, FS_EmptySet
      <3> DEFINE t == [n \in 1..0 |-> n]
      <3>2. t \in [1..0 -> T] /\ DOMAIN t = {}
        OBVIOUS
      <3>3. Range(t) = {}
        BY <3>2 DEF Range
      <3>4. Ordered(T, t)
        BY <3>1, <3>2, <3>3 DEF Ordered
      <3>5. QED
        BY <3>2, <3>4
    <2>2. QED
      BY <1>1, <2>1
  <1>3. ASSUME NEW n \in 1..L, n - 1 \in P PROVE n \in P
    <2>1. ASSUME NEW T \in SUBSET words, Cardinality(T) = n
          PROVE  \E t \in [1..n -> T] : Ordered(T, t)
      <3>1. IsFiniteSet(T) /\ T # {} /\ T \subseteq Word
        BY <2>1, FS_Subset, FS_EmptySet
      <3>2. PICK x \in T : \A y \in T : y = x \/ Before(y, x)
        BY <3>1, LastWord
      <3> DEFINE U == T \ {x}
      <3>3. U \in SUBSET words /\ Cardinality(U) = n - 1
        BY <2>1, <3>1, <3>2, FS_RemoveElement
      <3>4. PICK t \in [1..(n - 1) -> U] : Ordered(U, t)
        BY <1>3, <3>3
      <3> DEFINE q == [k \in 1..n |-> IF k = n THEN x ELSE t[k]]
      <3>5. /\ q \in [1..n -> T] /\ DOMAIN q = 1..n /\ q[n] = x /\ n \in 1..n
            /\ \A k \in 1..(n - 1) : k \in 1..n /\ q[k] = t[k] /\ t[k] \in U
        BY <3>2, <3>4
      <3>6. \A y \in U : \E k \in 1..(n - 1) : t[k] = y
        BY <3>4 DEF Ordered, Range
      <3> HIDE DEF q
      <3>7. Range(q) = T
        BY <3>5, <3>6 DEF Range
      <3>8. ASSUME NEW k \in 1..n, NEW m \in 1..n, k < m PROVE Before(q[k], q[m])
        <4>1. k \in 1..(n - 1)
          BY <3>8
        <4>2. CASE m = n
          BY <3>2, <3>5, <4>1, <4>2
        <4>3. CASE m # n
          <5>1. m \in 1..(n - 1)
            BY <4>3
          <5>2. Before(t[k], t[m])
            BY <3>4, <3>8, <4>1, <5>1 DEF Ordered
          <5>3. QED
            BY <3>5, <4>1, <5>1, <5>2
        <4>4. QED
          BY <4>2, <4>3
      <3>9. Ordered(T, q)
        BY <3>5, <3>7, <3>8 DEF Ordered
      <3>10. QED
        BY <3>5, <3>9
    <2>2. n \in 0..L
      OBVIOUS
    <2>3. QED
      BY <2>1, <2>2
  <1>4. 0..L \subseteq P
    <2> HIDE DEF P, L
    <2>1. QED
      BY <1>1, <1>2, <1>3, CountsUp
  <1>5. L \in P
    <2> HIDE DEF P, L
    <2>1. QED
      BY <1>1, <1>4
  <1>6. QED
    BY <1>5

LEMMA ArrangedFacts ==
    ASSUME NEW words, words \subseteq Word, IsFiniteSet(words)
    PROVE  /\ Arranged(words) \in Seq(words) /\ Len(Arranged(words)) = Cardinality(words)
           /\ Cardinality(words) \in Nat
           /\ Range(Arranged(words)) = words
  <1> DEFINE L == Cardinality(words)
  <1>1. L \in Nat
    BY FS_CardinalityType
  <1>2. \E t \in [1..L -> words] : Ordered(words, t)
    BY Sortable
  <1>3. Arranged(words) = CHOOSE t \in [1..L -> words] : Ordered(words, t)
    BY DEF Arranged, Ordered
  <1>4. Arranged(words) \in [1..L -> words] /\ Ordered(words, Arranged(words))
    BY <1>2, <1>3
  <1> HIDE DEF L
  <1>5. Arranged(words) \in Seq(words) /\ Len(Arranged(words)) = L
    BY <1>1, <1>4
  <1>6. QED
    BY <1>1, <1>4, <1>5 DEF L, Ordered
-----------------------------------------------------------------------------
(* Cutting a plural. *)

\* The endings that are cut.
Plural == {"ies", "ches", "shes", "sses", "s"}

StemsIn(w) == {p[1] : p \in Range(w)}

LEMMA WithEndingFacts ==
    ASSUME NEW w \in Word, NEW e \in Range(Endings)
    PROVE  /\ WithEnding(w, e) \in Word /\ Ending(WithEnding(w, e)) = e
           /\ Ending(w) \in Range(Endings)
           /\ StemsIn(WithEnding(w, e)) = StemsIn(w)
  <1> DEFINE v == WithEnding(w, e)
             l == Len(w)
  <1>1. /\ w \in Seq(Part) /\ l \in Nat \ {0} /\ DOMAIN w = 1..l /\ Len(w) = l
        /\ \A k \in 1..l : w[k] \in Part
    BY WordFacts
  <1>2. w[l] \in Part /\ w[l] = <<w[l][1], w[l][2]>> /\ w[l][1] \in Range(Stems)
        /\ w[l][2] \in Range(Endings)
    BY <1>1, PartFacts
  <1>3. v = [w EXCEPT ![l] = <<w[l][1], e>>]
    BY DEF WithEnding
  <1>4. <<w[l][1], e>> \in Part
    BY <1>2 DEF Part
  <1> HIDE DEF l, v
  <1>5. /\ v \in Seq(Part) /\ Len(v) = l /\ DOMAIN v = 1..l /\ v[l] = <<w[l][1], e>>
        /\ \A k \in 1..l : k # l => v[k] = w[k]
    BY <1>1, <1>3, <1>4
  <1>6. v # <<>>
    BY <1>1, <1>5
  <1>7. Ending(v) = e /\ Ending(w) = w[l][2]
    BY <1>1, <1>5 DEF Ending, Last
  <1>8. \A k \in 1..l : v[k][1] = w[k][1]
    BY <1>5
  <1>9. StemsIn(v) = {v[k][1] : k \in 1..l} /\ StemsIn(w) = {w[k][1] : k \in 1..l}
    <2>1. Range(v) = {v[k] : k \in 1..l} /\ Range(w) = {w[k] : k \in 1..l}
      BY <1>1, <1>5 DEF Range
    <2>2. QED
      BY <2>1 DEF StemsIn
  <1>10. StemsIn(v) = StemsIn(w)
    BY <1>8, <1>9
  <1>11. QED
    BY <1>2, <1>5, <1>6, <1>7, <1>10 DEF v, Word

LEMMA SingularFacts ==
    ASSUME NEW w \in Word
    PROVE  /\ singularize(w) \in Word /\ StemsIn(singularize(w)) = StemsIn(w)
           /\ singularize(w) # w
                => /\ ~(Letters(w) <= 3) /\ ~hasDigit(w) /\ Ending(w) \in Plural
                   /\ Ending(singularize(w)) \notin Plural
           /\ singularize(w) = w /\ Ending(w) \in Plural
                => Letters(w) <= 3 \/ hasDigit(w)
  <1> DEFINE v == singularize(w)
  <1>1. /\ Letters(w) <= 3 => v = w
        /\ hasDigit(w) => v = w
    BY DEF singularize
  <1>2. CASE Letters(w) <= 3 \/ hasDigit(w)
    BY <1>1, <1>2
  <1>3. CASE ~(Letters(w) <= 3 \/ hasDigit(w)) /\ Ending(w) = "ies"
    <2>1. PICK e \in {"y", "ie"} : v = WithEnding(w, e)
      BY <1>3 DEF singularize
    <2>2. e \in Range(Endings) /\ e \notin Plural
      <3>1. Endings[13] = "y" /\ Endings[4] = "ie" /\ 13 \in DOMAIN Endings /\ 4 \in DOMAIN Endings
        BY EndingsLength DEF Endings
      <3>2. QED
        BY <3>1 DEF Plural, Range
    <2>3. Ending(w) \in Plural /\ Ending(v) \notin Plural /\ v \in Word /\ StemsIn(v) = StemsIn(w)
      BY <1>3, <2>1, <2>2, WithEndingFacts DEF Plural
    <2>4. QED
      BY <1>3, <2>3
  <1>4. CASE ~(Letters(w) <= 3 \/ hasDigit(w)) /\ Ending(w) # "ies" /\ Ending(w) \in DOMAIN Folded
    <2>1. DOMAIN Folded = {"ches", "shes", "sses", "s"}
      BY DEF Folded
    <2>2. v = WithEnding(w, Folded[Ending(w)])
      BY <1>4 DEF singularize
    <2>3. Folded[Ending(w)] \in {"ch", "sh", "ss", ""}
      <3>1. /\ Folded["ches"] = "ch" /\ Folded["shes"] = "sh" /\ Folded["sses"] = "ss"
            /\ Folded["s"] = ""
        <4>1. Folded.ches = "ch" /\ Folded.shes = "sh" /\ Folded.sses = "ss" /\ Folded.s = ""
          BY DEF Folded
        <4>2. QED
          BY <4>1
      <3>2. QED
        BY <1>4, <2>1, <3>1
    <2>4. Folded[Ending(w)] \in Range(Endings) /\ Folded[Ending(w)] \notin Plural
      <3>1. /\ Endings[2] = "ch" /\ Endings[8] = "sh" /\ Endings[10] = "ss" /\ Endings[1] = ""
            /\ 2 \in DOMAIN Endings /\ 8 \in DOMAIN Endings /\ 10 \in DOMAIN Endings
            /\ 1 \in DOMAIN Endings
        BY EndingsLength DEF Endings
      <3>2. QED
        BY <2>3, <3>1 DEF Plural, Range
    <2>5. Ending(w) \in Plural /\ Ending(v) \notin Plural /\ v \in Word /\ StemsIn(v) = StemsIn(w)
      BY <1>4, <2>1, <2>2, <2>4, WithEndingFacts DEF Plural
    <2>6. QED
      BY <1>4, <2>5
  <1>5. CASE ~(Letters(w) <= 3 \/ hasDigit(w)) /\ Ending(w) # "ies" /\ Ending(w) \notin DOMAIN Folded
    <2>1. v = w
      BY <1>5 DEF singularize
    <2>2. Ending(w) \notin Plural
      BY <1>5 DEF Folded, Plural
    <2>3. QED
      BY <2>1, <2>2
  <1>6. QED
    BY <1>2, <1>3, <1>4, <1>5

-----------------------------------------------------------------------------
(* What is kept of a phrase. *)

LEMMA KeepFolds ==
    ASSUME NEW tokens \in Seq(Word)
    PROVE  \E g \in [0..Len(tokens) -> Seq(Word)] :
              /\ g[0] = <<>>
              /\ \A n \in 1..Len(tokens) : g[n] = Keep(g[n - 1], tokens[n])
              /\ FoldLeft(Keep, <<>>, tokens) = g[Len(tokens)]
  <1> DEFINE L == Len(tokens)
             S == Seq(Word)
             base == <<>>
             F == [p \in (1..L) \X S |-> Keep(p[2], tokens[p[1]])]
             Is(f) == f = [T \in SUBSET (1..L) |->
                              IF T = {} THEN base ELSE Keep(f[T \ {Max(T)}], tokens[Max(T)])]
             h == CHOOSE f : Is(f)
  <1>1. L \in Nat /\ DOMAIN tokens = 1..L /\ \A n \in 1..L : tokens[n] \in Word
    OBVIOUS
  <1>2. FoldLeft(Keep, <<>>, tokens) = h[1..L]
    BY <1>1 DEF FoldLeft, MapThenFoldSet
  <1>3. FoldType(F, L, S)
    <2>1. ASSUME NEW n \in 1..L, NEW kept \in S PROVE Keep(kept, tokens[n]) \in S
      BY <1>1, SingularFacts DEF Keep
    <2>2. QED
      BY <2>1 DEF FoldType
  <1>4. \A n \in 1..L, kept \in S : F[<<n, kept>>] = Keep(kept, tokens[n])
    OBVIOUS
  <1>5. base \in S
    OBVIOUS
  <1> HIDE DEF L, S, F, base
  <1>6. PICK f \in [SUBSET (1..L) -> S] : FoldsOver(f, L, base, F)
    BY <1>1, <1>3, <1>5, FoldHasValues
  <1>7. Is(f)
    <2>1. ASSUME NEW T \in SUBSET (1..L)
          PROVE  f[T] = IF T = {} THEN base ELSE Keep(f[T \ {Max(T)}], tokens[Max(T)])
      <3>1. f[T] = IF T = {} THEN base ELSE F[<<Max(T), f[T \ {Max(T)}]>>]
        BY <1>6 DEF FoldsOver
      <3>2. T # {} => Max(T) \in 1..L /\ f[T \ {Max(T)}] \in S
        BY <1>1, MaxIsGreatest
      <3>3. QED
        BY <1>4, <3>1, <3>2
    <2>2. QED
      BY <2>1
  <1>8. Is(h)
    <2> HIDE DEF Is
    <2>1. QED
      BY <1>7
  <1> HIDE DEF h
  <1>9. Recurs(h, L, S, base, F)
    <2>1. ASSUME NEW T \in SUBSET (1..L), T # {}, h[T \ {Max(T)}] \in S
          PROVE  h[T] = F[<<Max(T), h[T \ {Max(T)}]>>]
      <3>1. h[T] = Keep(h[T \ {Max(T)}], tokens[Max(T)])
        BY <1>8, <2>1
      <3>2. Max(T) \in 1..L
        BY <1>1, <2>1, MaxIsGreatest
      <3>3. QED
        BY <1>4, <2>1, <3>1, <3>2
    <2>2. QED
      BY <1>8, <2>1 DEF Recurs
  <1> HIDE DEF Is
  <1>10. PICK g : CountsOver(g, L, S, base, F) /\ h[1..L] = g[L]
    BY <1>1, <1>3, <1>5, <1>9, FoldCountsUp
  <1>11. g \in [0..L -> S] /\ g[0] = base /\ \A n \in 1..L : g[n] = F[<<n, g[n - 1]>>]
    BY <1>10 DEF CountsOver
  <1>12. \A n \in 1..L : n - 1 \in 0..L
    BY <1>1
  <1>13. \A n \in 1..L : g[n] = Keep(g[n - 1], tokens[n])
    BY <1>4, <1>11, <1>12
  <1>14. QED
    BY <1>2, <1>10, <1>11, <1>13 DEF L, S, base
LEMMA AppendRange ==
    ASSUME NEW B, NEW t \in Seq(B), NEW x \in B
    PROVE  Range(Append(t, x)) = Range(t) \cup {x}
  <1> DEFINE l == Len(t)
             u == Append(t, x)
  <1>1. l \in Nat /\ DOMAIN t = 1..l
    OBVIOUS
  <1>2. DOMAIN u = 1..(l + 1) /\ u[l + 1] = x /\ \A k \in 1..l : u[k] = t[k]
    OBVIOUS
  <1> HIDE DEF l, u
  <1>3. \A k : k \in 1..(l + 1) <=> k \in 1..l \/ k = l + 1
    BY <1>1
  <1>4. Range(u) = Range(t) \cup {x}
    BY <1>1, <1>2, <1>3 DEF Range
  <1>5. QED
    BY <1>4 DEF u

LEMMA KeepFacts ==
    ASSUME NEW tokens \in Seq(Word)
    PROVE  /\ FoldLeft(Keep, <<>>, tokens) \in Seq(Word)
           /\ Range(FoldLeft(Keep, <<>>, tokens)) = Singulars(tokens)
  <1> DEFINE L == Len(tokens)
             Of(n) == {singularize(w) : w \in {tokens[m] : m \in 1..n} \ stopwords}
  <1>1. PICK g \in [0..L -> Seq(Word)] :
              /\ g[0] = <<>>
              /\ \A n \in 1..L : g[n] = Keep(g[n - 1], tokens[n])
              /\ FoldLeft(Keep, <<>>, tokens) = g[L]
    BY KeepFolds
  <1>2. L \in Nat /\ \A n \in 1..L : tokens[n] \in Word
    OBVIOUS
  <1> DEFINE P == {n \in 0..L : Range(g[n]) = Of(n)}
  <1>3. 0 \in P
    <2>1. Range(<<>>) = {}
      BY DEF Range
    <2>2. Of(0) = {}
      OBVIOUS
    <2>3. QED
      BY <1>1, <1>2, <2>1, <2>2
  <1>4. ASSUME NEW n \in 1..L, n - 1 \in P PROVE n \in P
    <2>1. n - 1 \in 0..L /\ n \in 0..L /\ g[n - 1] \in Seq(Word) /\ tokens[n] \in Word
          /\ Range(g[n - 1]) = Of(n - 1) /\ g[n] = Keep(g[n - 1], tokens[n])
      BY <1>1, <1>2, <1>4
    <2>2. {tokens[m] : m \in 1..n} = {tokens[m] : m \in 1..(n - 1)} \cup {tokens[n]}
      <3>1. 1..n = (1..(n - 1)) \cup {n}
        BY <1>2
      <3>2. QED
        BY <3>1
    <2>3. CASE tokens[n] \in stopwords
      <3>1. g[n] = g[n - 1]
        BY <2>1, <2>3 DEF Keep
      <3>2. Of(n) = Of(n - 1)
        BY <2>2, <2>3
      <3>3. QED
        BY <2>1, <3>1, <3>2
    <2>4. CASE tokens[n] \notin stopwords
      <3>1. g[n] = Append(g[n - 1], singularize(tokens[n]))
        BY <2>1, <2>4 DEF Keep
      <3>2. Of(n) = Of(n - 1) \cup {singularize(tokens[n])}
        BY <2>2, <2>4
      <3>3. singularize(tokens[n]) \in Word
        BY <2>1, SingularFacts
      <3> HIDE DEF Of
      <3>4. Range(g[n]) = Range(g[n - 1]) \cup {singularize(tokens[n])}
        BY <2>1, <3>1, <3>3, AppendRange
      <3>5. QED
        BY <2>1, <3>2, <3>4
    <2>5. QED
      BY <2>3, <2>4
  <1>5. 0..L \subseteq P
    <2> HIDE DEF P, L
    <2>1. QED
      BY <1>2, <1>3, <1>4, CountsUp
  <1>6. L \in 0..L /\ g[L] \in Seq(Word)
    BY <1>2
  <1>7. Range(g[L]) = Of(L)
    BY <1>5, <1>6
  <1>8. {tokens[m] : m \in 1..L} = Range(tokens)
    BY DEF Range
  <1>9. QED
    BY <1>1, <1>6, <1>7, <1>8 DEF Singulars, Telling

-----------------------------------------------------------------------------
(* Letters. *)

PartLetters(p) == StemLetters[p[1]] + EndingLetters[Position(Endings, p[2])]

LEMMA PartLettersFacts ==
    ASSUME NEW p \in Part
    PROVE  /\ PartLetters(p) \in Nat
           /\ p[2] \in Plural /\ PartLetters(p) <= 3 => p[2] = "s"
  <1> DEFINE a == StemLetters[p[1]]
             d == Position(Endings, p[2])
  <1>1. a \in Nat /\ a >= 1
    BY PartFacts, TopicAssumption
  <1>2. d \in 1..13 /\ Endings[d] = p[2]
    BY PartFacts, PositionFacts, EndingsLength
  <1>3. PartLetters(p) = a + EndingLetters[d]
    BY DEF PartLetters
  <1> HIDE DEF a, d
  <1>4. EndingLetters[d] \in Nat
    BY <1>2 DEF EndingLetters
  <1>5. ASSUME p[2] \in {"ies", "ches", "shes", "sses"} PROVE EndingLetters[d] >= 3
    <2>1. d \in {3, 5, 9, 11}
      <3>1. /\ Endings[1] = "" /\ Endings[2] = "ch" /\ Endings[4] = "ie" /\ Endings[6] = "is"
            /\ Endings[7] = "s" /\ Endings[8] = "sh" /\ Endings[10] = "ss" /\ Endings[12] = "us"
            /\ Endings[13] = "y"
        BY DEF Endings
      <3>2. d \notin {1, 2, 4, 6, 7, 8, 10, 12, 13}
        BY <1>2, <1>5, <3>1
      <3>3. QED
        BY <1>2, <3>2
    <2>2. QED
      BY <2>1 DEF EndingLetters
  <1>6. QED
    BY <1>1, <1>3, <1>4, <1>5 DEF Plural

LEMMA LettersFacts ==
    ASSUME NEW w \in Word
    PROVE  /\ Letters(w) \in Int /\ PartLetters(Last(w)) <= Letters(w)
           /\ Len(w) = 1 => Letters(w) = PartLetters(w[1])
  <1> DEFINE L == Len(w)
             S == {n \in Int : n >= -1}
             base == -1
             F == [p \in (1..L) \X S |-> p[2] + 1 + PartLetters(w[p[1]])]
             Is(f) == f = [T \in SUBSET (1..L) |->
                              IF T = {} THEN base
                              ELSE f[T \ {Max(T)}] + 1 + StemLetters[w[Max(T)][1]]
                                      + EndingLetters[Position(Endings, w[Max(T)][2])]]
             h == CHOOSE f : Is(f)
  <1>1. L \in Nat \ {0} /\ DOMAIN w = 1..L /\ \A n \in 1..L : w[n] \in Part
    BY WordFacts
  <1>2. Letters(w) = h[1..L]
    BY <1>1 DEF Letters, FoldLeft, MapThenFoldSet
  <1>3. \A n \in 1..L : PartLetters(w[n]) \in Nat
    BY <1>1, PartLettersFacts
  <1>4. FoldType(F, L, S)
    BY <1>3 DEF FoldType
  <1>5. \A n \in 1..L, x \in S : F[<<n, x>>] = x + 1 + PartLetters(w[n])
    OBVIOUS
  <1>6. base \in S
    OBVIOUS
  <1>7. \A n \in 1..L, x \in S :
           x + 1 + StemLetters[w[n][1]] + EndingLetters[Position(Endings, w[n][2])] = F[<<n, x>>]
    <2>1. ASSUME NEW n \in 1..L, NEW x \in S
          PROVE  x + 1 + StemLetters[w[n][1]] + EndingLetters[Position(Endings, w[n][2])]
                    = x + 1 + PartLetters(w[n])
      <3>1. StemLetters[w[n][1]] \in Nat
        BY <1>1, PartFacts, TopicAssumption
      <3>2. EndingLetters[Position(Endings, w[n][2])] \in Nat
        <4>1. Position(Endings, w[n][2]) \in 1..13
          BY <1>1, PartFacts, PositionFacts, EndingsLength
        <4>2. QED
          BY <4>1 DEF EndingLetters
      <3>3. PartLetters(w[n]) = StemLetters[w[n][1]] + EndingLetters[Position(Endings, w[n][2])]
        BY DEF PartLetters
      <3>4. x \in Int
        OBVIOUS
      <3>5. QED
        BY <3>1, <3>2, <3>3, <3>4
    <2>2. QED
      BY <1>5, <2>1
  <1>8. L \in Nat
    BY <1>1
  <1> HIDE DEF F
  <1>9. PICK f \in [SUBSET (1..L) -> S] : FoldsOver(f, L, base, F)
    <2> HIDE DEF L, S, base
    <2>1. QED
      BY <1>4, <1>6, <1>8, FoldHasValues
  <1>10. Is(f)
    <2>1. ASSUME NEW T \in SUBSET (1..L)
          PROVE  f[T] = IF T = {} THEN base
                        ELSE f[T \ {Max(T)}] + 1 + StemLetters[w[Max(T)][1]]
                                + EndingLetters[Position(Endings, w[Max(T)][2])]
      <3>1. f[T] = IF T = {} THEN base ELSE F[<<Max(T), f[T \ {Max(T)}]>>]
        BY <1>9 DEF FoldsOver
      <3>2. T # {} => Max(T) \in 1..L /\ f[T \ {Max(T)}] \in S
        BY <1>8, MaxIsGreatest
      <3> HIDE DEF L, S, base
      <3>3. QED
        BY <1>7, <3>1, <3>2
    <2>2. QED
      BY <2>1
  <1>11. Is(h)
    <2> HIDE DEF Is
    <2>1. QED
      BY <1>10
  <1> HIDE DEF h, L, S, base
  <1>12. Recurs(h, L, S, base, F)
    <2>1. ASSUME NEW T \in SUBSET (1..L), T # {}, h[T \ {Max(T)}] \in S
          PROVE  h[T] = F[<<Max(T), h[T \ {Max(T)}]>>]
      <3>1. h[T] = h[T \ {Max(T)}] + 1 + StemLetters[w[Max(T)][1]]
                      + EndingLetters[Position(Endings, w[Max(T)][2])]
        BY <1>11, <2>1
      <3>2. Max(T) \in 1..L
        BY <1>8, <2>1, MaxIsGreatest
      <3>3. QED
        BY <1>7, <2>1, <3>1, <3>2
    <2>2. QED
      BY <1>11, <2>1 DEF Recurs
  <1> HIDE DEF Is
  <1>13. PICK g : CountsOver(g, L, S, base, F) /\ h[1..L] = g[L]
    BY <1>4, <1>6, <1>8, <1>12, FoldCountsUp
  <1>14. g \in [0..L -> S] /\ g[0] = base /\ \A n \in 1..L : g[n] = F[<<n, g[n - 1]>>]
    BY <1>13 DEF CountsOver
  <1>15. L \in 1..L /\ L - 1 \in 0..L
    BY <1>1
  <1>16. g[L - 1] \in S /\ g[L] = g[L - 1] + 1 + PartLetters(w[L])
    BY <1>5, <1>14, <1>15
  <1>17. g[L - 1] \in Int /\ g[L - 1] >= -1 /\ PartLetters(w[L]) \in Nat
    BY <1>3, <1>15, <1>16 DEF S
  <1>18. Letters(w) = g[L - 1] + 1 + PartLetters(w[L])
    BY <1>2, <1>13, <1>16
  <1>19. Last(w) = w[L]
    BY DEF Last, L
  <1>20. Letters(w) \in Int /\ PartLetters(w[L]) <= Letters(w)
    BY <1>17, <1>18
  <1>21. ASSUME L = 1 PROVE Letters(w) = PartLetters(w[1])
    <2>1. g[L - 1] = -1
      BY <1>14, <1>21 DEF base
    <2>2. QED
      BY <1>17, <1>18, <1>21, <2>1
  <1>22. QED
    BY <1>19, <1>20, <1>21 DEF L

-----------------------------------------------------------------------------
(* Words joined to one. *)

\* That f is what the words of ws make in their order.
Joins(ws, f) ==
    /\ f \in Word /\ Len(f) >= Len(ws) /\ Last(f) = Last(ws[Len(ws)])
    /\ Len(ws) = 1 => f = ws[1]
    /\ StemsIn(f) = UNION {StemsIn(ws[k]) : k \in 1..Len(ws)}

\* What two words make.
LEMMA TwoJoined ==
    ASSUME NEW v \in Word, NEW w \in Word
    PROVE  /\ v \o w \in Word /\ Len(v \o w) = Len(v) + Len(w) /\ Last(v \o w) = Last(w)
           /\ StemsIn(v \o w) = StemsIn(v) \cup StemsIn(w)
  <1> DEFINE u == v \o w
             l == Len(v)
             m == Len(w)
  <1>1. v \in Seq(Part) /\ w \in Seq(Part) /\ l \in Nat \ {0} /\ m \in Nat \ {0}
        /\ DOMAIN v = 1..l /\ DOMAIN w = 1..m
    BY WordFacts
  <1>2. u \in Seq(Part) /\ Len(u) = l + m
    BY <1>1
  <1>3. /\ \A k \in 1..l : u[k] = v[k]
        /\ \A k \in 1..m : u[k + l] = w[k]
    BY <1>1
  <1> HIDE DEF u, l, m
  <1>4. DOMAIN u = 1..(l + m)
    BY <1>2
  <1>5. u \in Word
    BY <1>1, <1>2 DEF Word
  <1>6. Last(u) = Last(w)
    <2>1. Last(u) = u[l + m] /\ Last(w) = w[m]
      BY <1>2 DEF Last, m
    <2>2. m \in 1..m /\ m + l = l + m
      BY <1>1
    <2>3. QED
      BY <1>3, <2>1, <2>2
  <1>7. StemsIn(v) \cup StemsIn(w) \subseteq StemsIn(u)
    <2>1. ASSUME NEW k \in 1..l PROVE v[k][1] \in StemsIn(u)
      <3>1. k \in 1..(l + m)
        BY <1>1
      <3>2. QED
        BY <1>3, <1>4, <3>1 DEF StemsIn, Range
    <2>2. ASSUME NEW k \in 1..m PROVE w[k][1] \in StemsIn(u)
      <3>1. k + l \in 1..(l + m)
        BY <1>1
      <3>2. QED
        BY <1>3, <1>4, <3>1 DEF StemsIn, Range
    <2>3. QED
      BY <1>1, <2>1, <2>2 DEF StemsIn, Range
  <1>8. StemsIn(u) \subseteq StemsIn(v) \cup StemsIn(w)
    <2>1. ASSUME NEW k \in 1..(l + m) PROVE u[k][1] \in StemsIn(v) \cup StemsIn(w)
      <3>1. CASE k \in 1..l
        BY <1>1, <1>3, <3>1 DEF StemsIn, Range
      <3>2. CASE k \notin 1..l
        <4>1. k - l \in 1..m /\ (k - l) + l = k
          BY <1>1, <3>2
        <4>2. u[k] = w[k - l]
          BY <1>3, <4>1
        <4>3. QED
          BY <1>1, <4>1, <4>2 DEF StemsIn, Range
      <3>3. QED
        BY <3>1, <3>2
    <2>2. QED
      BY <1>4, <2>1 DEF StemsIn, Range
  <1>9. QED
    BY <1>2, <1>5, <1>6, <1>7, <1>8 DEF u, l, m

LEMMA FlattenRuns ==
    ASSUME NEW ws \in Seq(Word), ws # <<>>
    PROVE  \E h : /\ FlattenSeq(ws) = h[Len(ws)] /\ h[1] = ws[1]
                  /\ \A n \in 2..Len(ws) : h[n - 1] \in Word => h[n] = h[n - 1] \o ws[n]
  <1> DEFINE L == Len(ws)
             Is(f) == f = [n \in 1..L |-> IF n = 1 THEN ws[n] ELSE f[n - 1] \o ws[n]]
             h == CHOOSE f : Is(f)
             F == [p \in (1..(L - 1)) \X Word |-> p[2] \o ws[p[1] + 1]]
  <1>1. L \in Nat /\ L # 0 /\ L - 1 \in Nat /\ \A n \in 1..L : ws[n] \in Word
    OBVIOUS
  <1>2. FlattenSeq(ws) = h[L]
    BY <1>1 DEF FlattenSeq
  <1>3. FoldType(F, L - 1, Word)
    <2>1. ASSUME NEW n \in 1..(L - 1), NEW v \in Word PROVE v \o ws[n + 1] \in Word
      <3>1. n + 1 \in 1..L
        BY <1>1
      <3>2. ws[n + 1] \in Word
        BY <1>1, <3>1
      <3>3. QED
        BY <3>2, TwoJoined
    <2>2. QED
      BY <2>1 DEF FoldType
  <1>4. \A n \in 1..(L - 1), v \in Word : F[<<n, v>>] = v \o ws[n + 1]
    OBVIOUS
  <1>5. ws[1] \in Word
    BY <1>1
  <1> HIDE DEF F, L
  <1>6. PICK g : CountsOver(g, L - 1, Word, ws[1], F)
    BY <1>1, <1>3, <1>5, RunExists
  <1>7. /\ g \in [0..(L - 1) -> Word] /\ g[0] = ws[1]
        /\ \A n \in 1..(L - 1) : g[n] = F[<<n, g[n - 1]>>]
    BY <1>6 DEF CountsOver
  <1> DEFINE f == [n \in 1..L |-> g[n - 1]]
  <1>8. Is(f)
    <2>1. ASSUME NEW n \in 1..L PROVE f[n] = IF n = 1 THEN ws[n] ELSE f[n - 1] \o ws[n]
      <3>1. CASE n = 1
        BY <1>7, <3>1
      <3>2. CASE n # 1
        <4>1. n - 1 \in 1..(L - 1) /\ n - 1 \in 1..L /\ (n - 1) - 1 \in 0..(L - 1) /\ (n - 1) + 1 = n
          BY <1>1, <3>2
        <4>2. f[n] = g[n - 1] /\ f[n - 1] = g[(n - 1) - 1]
          BY <4>1
        <4> HIDE DEF f
        <4>3. g[(n - 1) - 1] \in Word
          BY <1>7, <4>1
        <4>4. g[n - 1] = g[(n - 1) - 1] \o ws[n]
          BY <1>4, <1>7, <4>1, <4>3
        <4>5. QED
          BY <3>2, <4>2, <4>4
      <3>3. QED
        BY <3>1, <3>2
    <2>2. f = [n \in 1..L |-> f[n]]
      OBVIOUS
    <2> HIDE DEF f
    <2>3. QED
      BY <2>1, <2>2
  <1>9. Is(h)
    <2> HIDE DEF Is
    <2>1. QED
      BY <1>8
  <1> HIDE DEF h, f
  <1>10. \A n \in 1..L : h[n] = IF n = 1 THEN ws[n] ELSE h[n - 1] \o ws[n]
    BY <1>9
  <1> HIDE DEF Is
  <1>11. 1 \in 1..L /\ \A n \in 2..L : n \in 1..L /\ n # 1
    BY <1>1
  <1>12. h[1] = ws[1] /\ \A n \in 2..L : h[n] = h[n - 1] \o ws[n]
    BY <1>10, <1>11
  <1>13. QED
    BY <1>2, <1>12 DEF L

LEMMA FlattenFacts ==
    ASSUME NEW ws \in Seq(Word), ws # <<>>
    PROVE  Joins(ws, FlattenSeq(ws))
  <1> DEFINE L == Len(ws)
  <1>1. PICK h : /\ FlattenSeq(ws) = h[L] /\ h[1] = ws[1]
                 /\ \A n \in 2..L : h[n - 1] \in Word => h[n] = h[n - 1] \o ws[n]
    BY FlattenRuns
  <1>2. L \in Nat /\ L # 0 /\ \A n \in 1..L : ws[n] \in Word
    OBVIOUS
  <1> HIDE DEF L
  <1> DEFINE Done(n) == /\ h[n] \in Word /\ Len(h[n]) >= n /\ Last(h[n]) = Last(ws[n])
                        /\ StemsIn(h[n]) = UNION {StemsIn(ws[k]) : k \in 1..n}
             P == {n \in 0..L : n > 0 => Done(n)}
  <1>3. 0 \in P
    BY <1>2
  <1>4. ASSUME NEW n \in 1..L, n - 1 \in P PROVE n \in P
    <2>1. ws[n] \in Word
      BY <1>2
    <2>2. CASE n = 1
      <3>1. h[n] = ws[n]
        BY <1>1, <2>2
      <3>2. Len(ws[n]) >= n
        BY <2>1, <2>2, WordFacts
      <3>3. {StemsIn(ws[k]) : k \in 1..n} = {StemsIn(ws[n])}
        BY <2>2
      <3>4. Done(n)
        BY <2>1, <3>1, <3>2, <3>3
      <3> HIDE DEF Done
      <3>5. QED
        BY <3>4
    <2>3. CASE n # 1
      <3>1. n \in 2..L /\ n - 1 > 0 /\ n \in Nat /\ n - 1 \in 0..L
        BY <1>2, <2>3
      <3>2. Done(n - 1)
        <4> HIDE DEF Done
        <4>1. QED
          BY <1>4, <3>1
      <3>3. h[n - 1] \in Word /\ h[n] = h[n - 1] \o ws[n]
        BY <1>1, <3>1, <3>2
      <3>4. /\ h[n] \in Word /\ Len(h[n]) = Len(h[n - 1]) + Len(ws[n])
            /\ Last(h[n]) = Last(ws[n])
            /\ StemsIn(h[n]) = StemsIn(h[n - 1]) \cup StemsIn(ws[n])
        BY <2>1, <3>3, TwoJoined
      <3>5. Len(h[n]) >= n
        <4>1. Len(h[n - 1]) \in Nat /\ Len(ws[n]) \in Nat \ {0} /\ Len(h[n - 1]) >= n - 1
          BY <2>1, <3>2, <3>3, WordFacts
        <4>2. n \in Nat /\ Len(h[n]) = Len(h[n - 1]) + Len(ws[n])
          BY <3>1, <3>4
        <4>3. \A a, b, m \in Nat : b # 0 /\ a >= m - 1 => a + b >= m
          OBVIOUS
        <4> HIDE DEF Done, P
        <4>4. Len(h[n - 1]) + Len(ws[n]) >= n
          BY <4>1, <4>2, <4>3
        <4>5. QED
          BY <4>2, <4>4
      <3>6. 1..n = (1..(n - 1)) \cup {n}
        BY <3>1
      <3>7. UNION {StemsIn(ws[k]) : k \in 1..n}
              = (UNION {StemsIn(ws[k]) : k \in 1..(n - 1)}) \cup StemsIn(ws[n])
        BY <3>6
      <3>8. Done(n)
        BY <3>2, <3>4, <3>5, <3>7
      <3> HIDE DEF Done
      <3>9. QED
        BY <3>8
    <2>4. QED
      BY <2>2, <2>3
  <1>5. 0..L \subseteq P
    <2> HIDE DEF P
    <2>1. QED
      BY <1>2, <1>3, <1>4, CountsUp
  <1>6. Done(L)
    <2> HIDE DEF Done
    <2>1. L \in 0..L /\ L > 0
      BY <1>2
    <2>2. QED
      BY <1>5, <2>1
  <1>7. L = 1 => h[L] = ws[1]
    BY <1>1
  <1>8. QED
    BY <1>1, <1>6, <1>7 DEF Joins, L

-----------------------------------------------------------------------------
(* A key. *)

\* The words that a key is made of.
Words(tokens) == IF Telling(tokens) = {} THEN Range(tokens) ELSE Singulars(tokens)

LEMMA TokensFacts ==
    ASSUME NEW B, NEW ws \in Seq(B)
    PROVE  /\ Range(ws) \subseteq B /\ IsFiniteSet(Range(ws)) /\ Range(ws) = {ws[k] : k \in 1..Len(ws)}
           /\ Range(ws) = {} <=> ws = <<>>
  <1>1. Len(ws) \in Nat /\ DOMAIN ws = 1..Len(ws) /\ \A k \in 1..Len(ws) : ws[k] \in B
    OBVIOUS
  <1>2. Range(ws) = {ws[k] : k \in 1..Len(ws)}
    BY <1>1 DEF Range
  <1>3. IsFiniteSet(1..Len(ws))
    BY <1>1, FS_Interval
  <1>4. IsFiniteSet({ws[k] : k \in 1..Len(ws)})
    <2> DEFINE T == {ws[k] : k \in 1..Len(ws)}
    <2>1. ws \in Surjection(1..Len(ws), T)
      BY DEF Surjection
    <2>2. QED
      BY <1>3, <2>1, FS_Surjection
  <1>5. ws # <<>> => 1 \in 1..Len(ws)
    OBVIOUS
  <1>6. ws = <<>> => 1..Len(ws) = {}
    OBVIOUS
  <1>7. QED
    BY <1>1, <1>2, <1>4, <1>5, <1>6

LEMMA WordsFacts ==
    ASSUME NEW tokens \in Seq(Word)
    PROVE  /\ Words(tokens) \subseteq Word /\ IsFiniteSet(Words(tokens))
           /\ NormalizeTopic(tokens) = FlattenSeq(Arranged(Words(tokens)))
  <1> DEFINE kept == FoldLeft(Keep, <<>>, tokens)
  <1>1. kept \in Seq(Word) /\ Range(kept) = Singulars(tokens)
    BY KeepFacts
  <1>2. kept = <<>> <=> Telling(tokens) = {}
    <2>1. Singulars(tokens) = {} <=> Telling(tokens) = {}
      BY DEF Singulars
    <2> HIDE DEF kept
    <2>2. QED
      BY <1>1, <2>1, TokensFacts
  <1>3. NormalizeTopic(tokens) = FlattenSeq(Arranged(Range(Kept(kept, tokens))))
    BY DEF NormalizeTopic, Joined
  <1> HIDE DEF kept
  <1>4. Range(Kept(kept, tokens)) = Words(tokens) /\ Kept(kept, tokens) \in Seq(Word)
    BY <1>1, <1>2 DEF Kept, Words
  <1>5. QED
    BY <1>3, <1>4, TokensFacts

LEMMA KeyFacts ==
    ASSUME NEW tokens \in Seq(Word)
    PROVE  /\ Words(tokens) = {} => NormalizeTopic(tokens) = <<>>
           /\ Words(tokens) # {}
                => \E ws \in Seq(Word) :
                      /\ ws # <<>> /\ Range(ws) = Words(tokens) /\ Len(ws) = Cardinality(Words(tokens))
                      /\ Joins(ws, NormalizeTopic(tokens))
  <1> DEFINE W == Words(tokens)
             ws == Arranged(W)
  <1>1. W \subseteq Word /\ IsFiniteSet(W) /\ NormalizeTopic(tokens) = FlattenSeq(ws)
    BY WordsFacts
  <1> HIDE DEF W
  <1>2. ws \in Seq(W) /\ Len(ws) = Cardinality(W) /\ Range(ws) = W
    BY <1>1, ArrangedFacts
  <1> HIDE DEF ws
  <1>3. W = {} <=> ws = <<>>
    BY <1>2, TokensFacts
  <1>4. ws = <<>> => FlattenSeq(ws) = <<>>
    BY DEF FlattenSeq
  <1>5. ws \in Seq(Word)
    BY <1>1, <1>2, SeqMonotonic
  <1>6. ws # <<>> => Joins(ws, FlattenSeq(ws))
    BY <1>5, FlattenFacts
  <1>7. QED
    BY <1>1, <1>2, <1>3, <1>4, <1>5, <1>6 DEF W

LEMMA KeyStems ==
    ASSUME NEW tokens \in Seq(Word)
    PROVE  StemsIn(NormalizeTopic(tokens)) = StemsOf(Said(tokens))
  <1>1. \A words : StemsOf(words) = UNION {StemsIn(w) : w \in words}
    BY DEF StemsOf, StemsIn
  <1>2. StemsOf(Words(tokens)) = StemsOf(Said(tokens))
    <2>1. CASE Telling(tokens) = {}
      BY <2>1 DEF Words, Said
    <2>2. CASE Telling(tokens) # {}
      <3>1. \A w \in Telling(tokens) : StemsIn(singularize(w)) = StemsIn(w)
        BY TokensFacts, SingularFacts DEF Telling
      <3>2. {StemsIn(x) : x \in Singulars(tokens)} = {StemsIn(w) : w \in Telling(tokens)}
        BY <3>1 DEF Singulars
      <3>3. Words(tokens) = Singulars(tokens) /\ Said(tokens) = Telling(tokens)
        BY <2>2 DEF Words, Said
      <3>4. QED
        BY <1>1, <3>2, <3>3
    <2>3. QED
      BY <2>1, <2>2
  <1>3. StemsIn(NormalizeTopic(tokens)) = StemsOf(Words(tokens))
    <2>1. CASE Words(tokens) = {}
      <3>1. StemsIn(<<>>) = {}
        BY DEF StemsIn, Range
      <3>2. StemsOf(Words(tokens)) = {}
        BY <1>1, <2>1
      <3>3. QED
        BY <2>1, <3>1, <3>2, KeyFacts
    <2>2. CASE Words(tokens) # {}
      <3>1. PICK ws \in Seq(Word) : Range(ws) = Words(tokens) /\ Joins(ws, NormalizeTopic(tokens))
        BY <2>2, KeyFacts
      <3>2. StemsIn(NormalizeTopic(tokens)) = UNION {StemsIn(ws[k]) : k \in 1..Len(ws)}
        BY <3>1 DEF Joins
      <3>3. Words(tokens) = {ws[k] : k \in 1..Len(ws)}
        BY <3>1, TokensFacts
      <3>4. {StemsIn(ws[k]) : k \in 1..Len(ws)} = {StemsIn(w) : w \in Words(tokens)}
        BY <3>3
      <3>5. QED
        BY <1>1, <3>2, <3>4
    <2>3. QED
      BY <2>1, <2>2
  <1>4. QED
    BY <1>2, <1>3

\* A key is a phrase of one word.
LEMMA KeyOfOneWord ==
    ASSUME NEW w \in Word
    PROVE  NormalizeTopic(<<w>>) = IF w \in stopwords THEN w ELSE singularize(w)
  <1> DEFINE tokens == <<w>>
             x == IF w \in stopwords THEN w ELSE singularize(w)
  <1>1. tokens \in Seq(Word) /\ Range(tokens) = {w}
    BY DEF Range
  <1>2. Words(tokens) = {x}
    <2>1. CASE w \in stopwords
      BY <1>1, <2>1 DEF Words, Telling
    <2>2. CASE w \notin stopwords
      BY <1>1, <2>2 DEF Words, Telling, Singulars
    <2>3. QED
      BY <2>1, <2>2
  <1> HIDE DEF tokens, x
  <1>3. Cardinality({x}) = 1
    BY FS_Singleton
  <1>4. PICK ws \in Seq(Word) : Range(ws) = {x} /\ Len(ws) = 1 /\ Joins(ws, NormalizeTopic(tokens))
    BY <1>1, <1>2, <1>3, KeyFacts
  <1>5. NormalizeTopic(tokens) = ws[1] /\ ws[1] \in {x}
    BY <1>4, TokensFacts DEF Joins
  <1>6. QED
    BY <1>5 DEF tokens, x

-----------------------------------------------------------------------------
(* The theorems. *)

TopicInv ==
    /\ phrase \in Phrase /\ asked \in Phrase
    /\ key # Unkeyed => key = NormalizeTopic(phrase)
    /\ found # Unkeyed => key # Unkeyed /\ key # <<>> /\ found = NormalizeTopic(<<key>>)

LEMMA TopicInvHolds == TopicSpec => []TopicInv
  <1>1. TopicInit => TopicInv
    BY DEF TopicInit, TopicInv
  <1>2. TopicInv /\ [TopicNext]_topicVars => TopicInv'
    <2> SUFFICES ASSUME TopicInv, [TopicNext]_topicVars
                 PROVE  TopicInv'
      OBVIOUS
    <2>1. CASE File
      BY <2>1 DEF File, TopicInv
    <2>2. CASE SearchGroup
      BY <2>2 DEF SearchGroup, TopicInv
    <2>3. CASE UNCHANGED topicVars
      BY <2>3 DEF TopicInv, topicVars
    <2>4. QED
      BY <2>1, <2>2, <2>3 DEF TopicNext
  <1>3. QED
    BY <1>1, <1>2, PTL DEF TopicSpec

LEMMA PhraseType == Phrase \subseteq Seq(Word)
  BY TopicAssumption

LEMMA SameWordsMeet ==
    ASSUME NEW one \in Seq(Word), NEW other \in Seq(Word),
           Singulars(one) = Singulars(other), Singulars(other) # {}
    PROVE  NormalizeTopic(other) = NormalizeTopic(one)
  <1>1. Telling(one) # {} /\ Telling(other) # {}
    BY DEF Singulars
  <1>2. Words(one) = Words(other)
    BY <1>1 DEF Words
  <1>3. QED
    BY <1>2, WordsFacts

LEMMA MetOnlyBySameStems ==
    ASSUME NEW one \in Seq(Word), NEW other \in Seq(Word),
           NormalizeTopic(other) = NormalizeTopic(one)
    PROVE  StemsOf(Said(one)) \subseteq StemsOf(Range(other))
  <1>1. StemsOf(Said(one)) = StemsOf(Said(other))
    BY KeyStems
  <1>2. Said(other) \subseteq Range(other)
    BY DEF Said, Telling
  <1>3. QED
    BY <1>1, <1>2 DEF StemsOf

\* Two phrasings that tell the same words are filed under one key, whatever their order, their
\* repetitions and the stopwords between them; and two that share a key share every stem, so
\* that a supersession never touches a memory about something else (topic.go, NormalizeTopic).
THEOREM PhrasingsMeetInKeys == TopicSpec => []PhrasingsMeet
  <1>1. TopicInv => PhrasingsMeet
    <2> SUFFICES ASSUME TopicInv, key # Unkeyed
                 PROVE  /\ Singulars(phrase) = Singulars(asked) /\ Singulars(asked) # {}
                              => NormalizeTopic(asked) = key
                        /\ NormalizeTopic(asked) = key
                              => StemsOf(Said(phrase)) \subseteq StemsOf(Range(asked))
      BY DEF PhrasingsMeet
    <2>1. phrase \in Seq(Word) /\ asked \in Seq(Word) /\ key = NormalizeTopic(phrase)
      BY PhraseType DEF TopicInv
    <2>2. QED
      BY <2>1, SameWordsMeet, MetOnlyBySameStems
  <1>2. QED
    BY <1>1, TopicInvHolds, PTL

\* A digit of a word is one of the key that it is joined to.
LEMMA DigitsStay ==
    ASSUME NEW v, NEW w, StemsIn(w) \subseteq StemsIn(v), hasDigit(w)
    PROVE  hasDigit(v)
  <1>1. PICK n \in DOMAIN w : w[n][1] \in Numbered
    BY DEF hasDigit
  <1>2. w[n][1] \in StemsIn(v)
    BY <1>1 DEF StemsIn, Range
  <1>3. QED
    BY <1>1, <1>2 DEF StemsIn, Range, hasDigit

\* What a key must be like for its group to be searched for under another.
LEMMA KeyThatMoves ==
    ASSUME NEW tokens \in Seq(Word), NEW k, k = NormalizeTopic(tokens), k # <<>>,
           NormalizeTopic(<<k>>) # k
    PROVE  /\ Len(k) > 1 /\ Ending(k) = "s"
           /\ Letters(<<Last(k)>>) <= 3 \/ Range(tokens) \subseteq stopwords
  <1>1. Words(tokens) # {}
    BY KeyFacts
  <1>2. PICK ws \in Seq(Word) : ws # <<>> /\ Range(ws) = Words(tokens) /\ Joins(ws, k)
    BY <1>1, KeyFacts
  <1> DEFINE x == ws[Len(ws)]
  <1>3. Len(ws) \in Nat \ {0} /\ x \in Range(ws) /\ x \in Word
    <2>1. Len(ws) \in Nat \ {0} /\ Len(ws) \in DOMAIN ws
      BY <1>2
    <2>2. QED
      BY <2>1 DEF Range
  <1>4. /\ k \in Word /\ Len(k) >= Len(ws) /\ Last(k) = Last(x)
        /\ Len(ws) = 1 => k = x
        /\ StemsIn(x) \subseteq StemsIn(k)
    <2>1. Len(ws) \in 1..Len(ws)
      BY <1>3
    <2>2. QED
      BY <1>2, <2>1 DEF Joins
  <1>5. k \notin stopwords /\ singularize(k) # k
    BY <1>4, KeyOfOneWord
  <1>6. ~(Letters(k) <= 3) /\ ~hasDigit(k) /\ Ending(k) \in Plural
    BY <1>4, <1>5, SingularFacts
  <1>7. Ending(x) = Ending(k) /\ Len(k) \in Nat \ {0} /\ Len(ws) \in Nat
    BY <1>3, <1>4, WordFacts DEF Ending
  <1> HIDE DEF x
  <1>8. CASE Telling(tokens) = {}
    <2>1. x \in Range(tokens) /\ Range(tokens) \subseteq stopwords
      BY <1>2, <1>3, <1>8 DEF Words, Telling
    <2>2. Ending(k) = "s"
      BY <1>6, <1>7, <2>1, TopicAssumption DEF Plural
    <2>3. Len(ws) # 1
      BY <1>4, <1>5, <2>1
    <2>4. Len(k) > 1
      BY <1>3, <1>4, <1>7, <2>3
    <2>5. QED
      BY <2>1, <2>2, <2>4
  <1>9. CASE Telling(tokens) # {}
    <2>1. PICK w \in Telling(tokens) : x = singularize(w)
      BY <1>2, <1>3, <1>9 DEF Words, Singulars
    <2>2. w \in Word
      BY TokensFacts DEF Telling
    <2>3. x = w /\ (Letters(x) <= 3 \/ hasDigit(x))
      BY <1>6, <1>7, <2>1, <2>2, SingularFacts
    <2>4. Letters(x) <= 3
      BY <1>4, <1>6, <2>3, DigitsStay
    <2>5. Last(x) \in Part /\ Last(x)[2] = Ending(x)
      <3>1. Last(x) = x[Len(x)] /\ Len(x) \in 1..Len(x)
        BY <1>3, WordFacts DEF Last
      <3>2. QED
        BY <1>3, <3>1, WordFacts DEF Ending
    <2>6. PartLetters(Last(x)) <= 3 /\ PartLetters(Last(x)) \in Nat
      <3>1. PartLetters(Last(x)) \in Nat
        BY <2>5, PartLettersFacts
      <3>2. PartLetters(Last(x)) <= Letters(x) /\ Letters(x) \in Int
        BY <1>3, LettersFacts
      <3>3. QED
        BY <2>4, <3>1, <3>2
    <2>7. Ending(k) = "s"
      BY <1>6, <1>7, <2>5, <2>6, PartLettersFacts
    <2>8. Letters(<<Last(k)>>) <= 3
      <3> DEFINE one == <<Last(k)>>
      <3>1. one \in Word /\ Len(one) = 1 /\ one[1] = Last(k)
        BY <1>4, <2>5 DEF Word
      <3> HIDE DEF one
      <3>2. Letters(one) = PartLetters(Last(k))
        BY <3>1, LettersFacts
      <3>3. Letters(one) <= 3
        BY <1>4, <2>6, <3>2
      <3>4. QED
        BY <3>3 DEF one
    <2>9. Len(ws) # 1
      BY <1>4, <1>6, <2>4
    <2>10. Len(k) > 1
      BY <1>3, <1>4, <1>7, <2>9
    <2>11. QED
      BY <2>7, <2>8, <2>10
  <1>10. QED
    BY <1>8, <1>9

\* FindConsolidationGroups normalizes the key of a group again to search for its memories
\* (maintenance.go), and finds them: the key comes back as it was, unless its last word is a
\* plural that was spared for being short, or the phrase was nothing but stopwords.
THEOREM GroupsAreFound == TopicSpec => []GroupFoundAgain
  <1>1. TopicInv => GroupFoundAgain
    <2> SUFFICES ASSUME TopicInv, found # Unkeyed, found # key
                 PROVE  /\ Len(key) > 1 /\ Ending(key) = "s"
                        /\ Letters(<<Last(key)>>) <= 3 \/ Range(phrase) \subseteq stopwords
      BY DEF GroupFoundAgain
    <2>1. phrase \in Seq(Word) /\ key = NormalizeTopic(phrase) /\ key # <<>>
          /\ NormalizeTopic(<<key>>) # key
      BY PhraseType DEF TopicInv
    <2>2. QED
      BY <2>1, KeyThatMoves
  <1>2. QED
    BY <1>1, TopicInvHolds, PTL
=============================================================================
