------------------------------- MODULE Chunking -------------------------------
(***************************************************************************)
(* How the body of an episode is cut into extraction windows               *)
(* (internal/extract/chunk.go, ChunkBody).  A body is its length: where    *)
(* its paragraphs, sentences and words end is chosen window by window,     *)
(* which loses nothing: a cut is only accepted in the second half of a     *)
(* window, and that half shares no text with the second half of another    *)
(* one as long as an overlap is shorter than half a window.                *)
(***************************************************************************)
EXTENDS Integers, Sequences, FiniteSetsExt

CONSTANTS
    broadChunkChars, chunkOverlapChars, minTailChars,
    BodyLength  \* lengths of a trimmed body

ASSUME ChunkAssumption ==
    /\ broadChunkChars \in Nat /\ chunkOverlapChars \in Nat /\ minTailChars \in Nat \ {0}
    /\ 2 * (chunkOverlapChars + minTailChars) < broadChunkChars
    /\ BodyLength \subseteq Nat

VARIABLES
    length,     \* of the body
    start,      \* of the next window
    chunks,     \* the windows so far
    cut         \* whether ChunkBody has returned

chunkVars == <<length, start, chunks, cut>>

Chunk == [start : Nat, end : Nat]

\* What boundaryBefore looks for, in this order: a paragraph break, the end of a sentence, a
\* line break, a space; and what each is long.  The four ends of a sentence are one entry:
\* what counts of them is where the first that is accepted, in their order, was last seen.
Width == <<2, 2, 1, 1>>

\* Where each was last seen in a window; -1 if nowhere, or too early to be accepted.
LastIndex == {last \in [DOMAIN Width -> {-1} \cup ((broadChunkChars \div 2)..broadChunkChars)] :
                \A n \in DOMAIN Width : last[n] + Width[n] <= broadChunkChars}

\* Never gives back more than half the window.
boundaryBefore(last) ==
    LET accepted == {n \in DOMAIN Width : last[n] > broadChunkChars \div 2}
    IN  IF accepted = {} THEN broadChunkChars
        ELSE last[Min(accepted)] + Width[Min(accepted)]

\* Mutant: a short remainder is a chunk of its own.
NoFold(end) == end

\* A short remainder is folded into the chunk.
Fold(end) == IF length - end < minTailChars THEN length ELSE end

\* Mutant: the windows meet and do not overlap.
WithoutOverlap(end) == end

NextStart(end) ==
    IF end - chunkOverlapChars <= start THEN end ELSE end - chunkOverlapChars

ChunkInit ==
    /\ length \in BodyLength
    /\ start = 0
    /\ chunks = <<>>
    /\ cut = FALSE

\* Nothing to split.
Short ==
    /\ ~cut
    /\ length <= broadChunkChars
    /\ chunks' = IF length = 0 THEN <<>> ELSE <<[start |-> 0, end |-> length]>>
    /\ cut' = TRUE
    /\ UNCHANGED <<length, start>>

\* Mutant: the boundary is that of the window, not of the body.
InWindow(last) == IF start + broadChunkChars >= length THEN length ELSE boundaryBefore(last)

\* Where the window ends, before the remainder is looked at.
WindowEnd(last) ==
    IF start + broadChunkChars >= length THEN length ELSE start + boundaryBefore(last)

\* One turn of the loop.
Window ==
    /\ ~cut
    /\ length > broadChunkChars
    /\ \E last \in LastIndex :
         LET end == Fold(WindowEnd(last))
         IN  /\ chunks' = Append(chunks, [start |-> start, end |-> end])
             /\ cut' = (end >= length)
             /\ start' = IF end >= length THEN start ELSE NextStart(end)
    /\ UNCHANGED length

ChunkNext == Short \/ Window

ChunkSpec == ChunkInit /\ [][ChunkNext]_chunkVars

-----------------------------------------------------------------------------
(* Properties. *)

\* Windows are slices of the body.
ChunkTypeOK ==
    /\ length \in BodyLength
    /\ start \in 0..length
    /\ chunks \in Seq(Chunk)
    /\ \A n \in DOMAIN chunks : chunks[n].start < chunks[n].end /\ chunks[n].end <= length
    /\ cut \in BOOLEAN

\* chunk.go:14-15: what straddles a boundary is not cut in half.  Whatever is no longer than
\* the overlap stands whole in some window, wherever it stands and wherever the cuts fell;
\* nothing of the body is left out.
SpanSeenWhole ==
    cut => \A a, b \in 0..length :
             a < b /\ b - a <= chunkOverlapChars =>
                \E n \in DOMAIN chunks : chunks[n].start <= a /\ b <= chunks[n].end

\* What a call of the model costs and sees: windows advance, each brings at least minTailChars
\* of new text, and none is longer than the limit and a remainder too short to stand alone.
WindowsAdvance ==
    \A n \in DOMAIN chunks :
        /\ chunks[n].end - chunks[n].start < broadChunkChars + minTailChars
        /\ n > 1 => /\ chunks[n - 1].start < chunks[n].start
                    /\ chunks[n - 1].end + minTailChars <= chunks[n].end
=============================================================================
