------------------------------- MODULE JSONScan -------------------------------
(***************************************************************************)
(* How a JSON value is cut out of what the model answered                  *)
(* (internal/llm/llm.go, ExtractJSON): out of a Markdown fence if there is *)
(* one, from the first opening bracket to where the depth of that bracket  *)
(* alone returns to zero, byte after byte.  Bytes are classes: what the    *)
(* scanner does not look at is "text".                                     *)
(***************************************************************************)
EXTENDS Integers, Sequences, SequencesExt, FiniteSetsExt

CONSTANTS
    Body,       \* what the model says: sequences of bytes without a fence
    Tag         \* what may follow the opening fence on its line

Byte == {"{", "}", "[", "]", "quote", "backslash", "text", "newline"}
Fence == "fence"

ASSUME BodyAssumption == Body \subseteq Seq(Byte) /\ Tag \subseteq Seq(Byte \ {"newline"})

VARIABLES
    body,       \* what the model means
    completion, \* what it answers: the body, bare or fenced
    s,          \* what is scanned: None before the fence was looked for
    i,          \* the next byte
    depth, inStr, esc,
    answer      \* the value, None while scanning, Err

scanVars == <<body, completion, s, i, depth, inStr, esc, answer>>

Unset == <<"unset">>
Err == <<"no JSON, or unterminated">>

Positions(t, bytes) == {n \in DOMAIN t : t[n] \in bytes}

\* The rest of the line of the opening fence is skipped.
AfterLine(t) ==
    IF Positions(t, {"newline"}) = {} THEN t
    ELSE SubSeq(t, Min(Positions(t, {"newline"})) + 1, Len(t))

\* Mutant: the closing fence is not looked for.
UnfencedToTheEnd(t) ==
    IF Positions(t, {Fence}) = {} THEN t
    ELSE AfterLine(SubSeq(t, Min(Positions(t, {Fence})) + 1, Len(t)))

\* A fence that is not closed leaves the text as it is.
Unfenced(t) ==
    IF Positions(t, {Fence}) = {} THEN t
    ELSE LET rest == AfterLine(SubSeq(t, Min(Positions(t, {Fence})) + 1, Len(t)))
         IN  IF Positions(rest, {Fence}) = {} THEN t
             ELSE SubSeq(rest, 1, Min(Positions(rest, {Fence})) - 1)

Opening(t) == Positions(t, {"{", "["})

Closes(open) == IF open = "[" THEN "]" ELSE "}"

ScanInit ==
    /\ body \in Body
    /\ \/ completion = body
       \/ \E tag \in Tag :
             completion = <<"text", Fence>> \o tag \o <<"newline">> \o body \o <<Fence, "}">>
    /\ s = Unset /\ i = 0
    /\ depth = 0 /\ inStr = FALSE /\ esc = FALSE
    /\ answer = Unset

\* Before the loop.
Locate ==
    /\ s = Unset
    /\ s' = Unfenced(completion)
    /\ IF Opening(s') = {} THEN answer' = Err /\ UNCHANGED i
       ELSE i' = Min(Opening(s')) /\ UNCHANGED answer
    /\ UNCHANGED <<body, completion, depth, inStr, esc>>

\* Mutant: what is inside a string counts as well.
NeverInString == FALSE

InString == inStr

\* One byte.
Scan ==
    /\ s # Unset /\ answer = Unset
    /\ i <= Len(s)
    /\ LET ch == s[i]
           start == Min(Opening(s))
           closing == ~esc /\ ~InString /\ ch = Closes(s[start])
       IN  /\ esc' = (~esc /\ inStr /\ ch = "backslash")
           /\ inStr' = IF ~esc /\ ch = "quote" THEN ~inStr ELSE inStr
           /\ depth' = IF ~esc /\ ~InString /\ ch = s[start] THEN depth + 1
                       ELSE IF closing THEN depth - 1 ELSE depth
           /\ answer' = IF closing /\ depth' = 0 THEN SubSeq(s, start, i) ELSE answer
    /\ i' = i + 1
    /\ UNCHANGED <<body, completion, s>>

Unterminated ==
    /\ s # Unset /\ answer = Unset
    /\ i > Len(s)
    /\ answer' = Err
    /\ UNCHANGED <<body, completion, s, i, depth, inStr, esc>>

ScanNext == Locate \/ Scan \/ Unterminated

ScanSpec == ScanInit /\ [][ScanNext]_scanVars

-----------------------------------------------------------------------------
(* The reference: a text is read with a stack of both kinds of brackets.   *)

\* The reader's state after the bytes from..n of t.
Reader(t, from) ==
    LET read[n \in (from - 1)..Len(t)] ==
          IF n < from THEN [stack |-> <<>>, str |-> FALSE, esc |-> FALSE, ok |-> TRUE]
          ELSE LET r == read[n - 1]
                   ch == t[n]
               IN  CASE r.esc -> [r EXCEPT !.esc = FALSE]
                     [] ~r.esc /\ r.str ->
                          [r EXCEPT !.esc = (ch = "backslash"), !.str = (ch # "quote")]
                     [] ~r.esc /\ ~r.str /\ ch = "quote" -> [r EXCEPT !.str = TRUE]
                     [] ~r.esc /\ ~r.str /\ ch \in {"{", "["} ->
                          [r EXCEPT !.stack = <<Closes(ch)>> \o @]
                     [] ~r.esc /\ ~r.str /\ ch \in {"}", "]"} ->
                          [r EXCEPT !.ok = @ /\ r.stack # <<>> /\ Head(r.stack) = ch,
                                    !.stack = IF @ = <<>> THEN @ ELSE Tail(@)]
                     [] OTHER -> r
    IN  read

\* The first bracketed value of t: empty if its brackets do not pair.
FirstValue(t) ==
    IF Opening(t) = {} THEN <<>>
    ELSE LET from == Min(Opening(t))
             read == Reader(t, from)
             ends == {n \in from..Len(t) :
                        read[n].stack = <<>> /\ ~read[n].str}
         IN  IF ends = {} \/ ~read[Min(ends)].ok THEN <<>>
             ELSE SubSeq(t, from, Min(ends))

\* Whatever the model puts before, after and around a value whose brackets pair, that value,
\* the whole of it and no byte more, is what is answered: brackets of the other kind, quoted
\* brackets and quoted quotes included.  Where there is no such value, no byte is answered
\* that is not the body's: what follows a closing fence never completes a value.
FirstValueAnswered ==
    /\ answer # Unset /\ FirstValue(body) # <<>> => answer = FirstValue(body)
    /\ answer \notin {Unset, Err} =>
          \E n \in 0..(Len(body) - Len(answer)) : SubSeq(body, n + 1, n + Len(answer)) = answer
=============================================================================
