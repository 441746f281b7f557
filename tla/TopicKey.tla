------------------------------- MODULE TopicKey -------------------------------
(***************************************************************************)
(* How a raw topic phrase becomes the key that supersession works on       *)
(* (internal/memory/topic.go, NormalizeTopic), and how that key is looked  *)
(* up again.  A word is a sequence of parts that hyphens join ("on-call"   *)
(* is one word of two parts), a part a stem and an ending; case,           *)
(* punctuation and possessives are gone.  A key is one word again: what    *)
(* its words make when they are joined.                                    *)
(***************************************************************************)
EXTENDS Integers, Sequences, FiniteSets, SequencesExt

CONSTANTS
    Stems,          \* the stems in the order of the alphabet, none ending in "s"
    StemLetters,    \* how many letters each has
    Numbered,       \* those with a digit
    stopwords,      \* the words that are dropped
    Phrase          \* phrases: sequences of words

\* The endings, in the order of the alphabet.
Endings == <<"", "ch", "ches", "ie", "ies", "is", "s", "sh", "shes", "ss", "sses", "us", "y">>
EndingLetters == <<0, 2, 4, 2, 3, 2, 1, 2, 4, 2, 4, 2, 1>>

Part == Range(Stems) \X Range(Endings)
Word == Seq(Part) \ {<<>>}

Ending(w) == Last(w)[2]
WithEnding(w, e) == [w EXCEPT ![Len(w)] = <<@[1], e>>]

\* Of the stopwords "does", "has", "its" and the like look like plurals, none as "classes" does.
ASSUME TopicAssumption ==
    /\ Stems \in Seq(Range(Stems))
    /\ StemLetters \in [Range(Stems) -> Nat \ {0}]
    /\ Numbered \subseteq Range(Stems)
    /\ stopwords \subseteq Word
    /\ \A w \in stopwords : Ending(w) \notin {"ches", "shes", "sses", "ies"}
    /\ Phrase \subseteq Seq(Word)

VARIABLES
    phrase,     \* the topic a memory is filed under
    asked,      \* the topic a reader names
    key,        \* the memory's key, once it is filed
    found       \* the key that FindConsolidationGroups searches for, once it has read `key`

topicVars == <<phrase, asked, key, found>>

Unkeyed == << <<"no key yet", "">> >>

Position(t, x) == CHOOSE n \in DOMAIN t : t[n] = x

\* Letters, digits and hyphens of a word.
Letters(w) ==
    FoldLeft(LAMBDA n, p : n + 1 + StemLetters[p[1]] + EndingLetters[Position(Endings, p[2])], -1, w)

hasDigit(w) == \E n \in DOMAIN w : w[n][1] \in Numbered

\* Mutant: one letter too many is cut.
CutTooMuch == [ches |-> "ch", shes |-> "sh", sses |-> "s", s |-> ""]

\* Plurals that are folded, and what to; "ss", "us" and "is" only look like one.
Folded == [ches |-> "ch", shes |-> "sh", sses |-> "ss", s |-> ""]

singularize(w) ==
    IF Letters(w) <= 3 \/ hasDigit(w) THEN w
    ELSE IF Ending(w) = "ies" THEN WithEnding(w, IF Letters(w) > 4 THEN "y" ELSE "ie")
    ELSE IF Ending(w) \in DOMAIN Folded THEN WithEnding(w, Folded[Ending(w)])
    ELSE w

\* sort.Strings: a hyphen comes before any letter.
Rank(p) == Len(Endings) * Position(Stems, p[1]) + Position(Endings, p[2])

Before(v, w) ==
    \E n \in DOMAIN w :
        /\ n <= Len(v) + 1 /\ \A k \in 1..(n - 1) : v[k] = w[k]
        /\ n > Len(v) \/ Rank(v[n]) < Rank(w[n])

\* Mutant: no dedupe.
JoinedWithRepeats(words) == FlattenSeq(SortSeq(words, Before))

\* Each word once, in order.
Arranged(words) ==
    CHOOSE t \in [1..Cardinality(words) -> words] :
        /\ Range(t) = words
        /\ \A m, n \in DOMAIN t : m < n => Before(t[m], t[n])

\* dedupe, sort, join.
Joined(words) == FlattenSeq(Arranged(Range(words)))

\* Mutant: no fallback.
KeptOnly(kept, tokens) == kept

\* A phrase of nothing but stopwords still needs a key.
Kept(kept, tokens) == IF kept = <<>> THEN tokens ELSE kept

Keep(kept, w) == IF w \in stopwords THEN kept ELSE Append(kept, singularize(w))

NormalizeTopic(tokens) == Joined(Kept(FoldLeft(Keep, <<>>, tokens), tokens))

TopicInit ==
    /\ phrase \in Phrase /\ asked \in Phrase
    /\ key = Unkeyed /\ found = Unkeyed

\* A proposal becomes a memory (pipeline), under the key of its topic.
File ==
    /\ key = Unkeyed
    /\ key' = NormalizeTopic(phrase)
    /\ UNCHANGED <<phrase, asked, found>>

\* FindConsolidationGroups hands the key of a group to Search, which normalizes it again: it
\* is a phrase of one word.
SearchGroup ==
    /\ key # Unkeyed /\ key # <<>> /\ found = Unkeyed
    /\ found' = NormalizeTopic(<<key>>)
    /\ UNCHANGED <<phrase, asked, key>>

TopicNext == File \/ SearchGroup

TopicSpec == TopicInit /\ [][TopicNext]_topicVars

-----------------------------------------------------------------------------
(* Properties. *)

Telling(tokens) == Range(tokens) \ stopwords

Singulars(tokens) == {singularize(w) : w \in Telling(tokens)}

\* What tells a phrase from another.
Said(tokens) == IF Telling(tokens) = {} THEN Range(tokens) ELSE Telling(tokens)

StemsOf(words) == {p[1] : p \in UNION {Range(w) : w \in words}}

\* Two phrasings meet in one key when they tell the same words, in any order, number and
\* repetition and whatever stopwords stand between; and when the keys meet, every part of the
\* one is, up to its plural, a part of the other: nothing is merged that differs in a word, not
\* even what is nothing but stopwords.
PhrasingsMeet ==
    key # Unkeyed =>
        /\ Singulars(phrase) = Singulars(asked) /\ Singulars(asked) # {}
              => NormalizeTopic(asked) = key
        /\ NormalizeTopic(asked) = key
              => StemsOf(Said(phrase)) \subseteq StemsOf(Range(asked))

\* Consolidation finds the memories it counted under a key - normalizing a key again changes
\* nothing - as long as no word was spared only for being short, or for being all there was.
GroupFoundAgain ==
    found # Unkeyed /\ found # key =>
        /\ Len(key) > 1
        /\ Ending(key) = "s"
        /\ \/ Letters(<<Last(key)>>) <= 3
           \/ Range(phrase) \subseteq stopwords
=============================================================================
