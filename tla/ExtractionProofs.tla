---------------------------- MODULE ExtractionProofs ----------------------------
(***************************************************************************)
(* What holds of the cutting of a body into windows (Chunking), for every  *)
(* body, limit, overlap and tail, and of what becomes of the answers of    *)
(* the model (Extraction), whatever it answers and however often it fails. *)
(***************************************************************************)
EXTENDS Chunking, Extraction, FiniteSetTheorems, SequenceTheorems, TLAPS

\* A cut gives back less than half of the window.
LEMMA BoundaryInSecondHalf ==
    ASSUME NEW last \in LastIndex
    PROVE  /\ boundaryBefore(last) \in Nat
           /\ boundaryBefore(last) <= broadChunkChars
           /\ 2 * boundaryBefore(last) > broadChunkChars
  <1> DEFINE accepted == {n \in DOMAIN Width : last[n] > broadChunkChars \div 2}
  <1>1. /\ DOMAIN Width = {1, 2, 3, 4}
        /\ Width[1] = 2 /\ Width[2] = 2 /\ Width[3] = 1 /\ Width[4] = 1
    BY DEF Width
  <1>2. \A n \in {1, 2, 3, 4} : last[n] \in Int /\ last[n] + Width[n] <= broadChunkChars
    BY <1>1, ChunkAssumption DEF LastIndex
  <1>3. CASE accepted = {}
    BY <1>3, ChunkAssumption DEF boundaryBefore
  <1>4. CASE accepted # {}
    <2>1. \E m \in accepted : \A n \in accepted : m <= n
      <3>1. CASE 1 \in accepted
        BY <1>1, <3>1
      <3>2. CASE 1 \notin accepted /\ 2 \in accepted
        BY <1>1, <3>2
      <3>3. CASE 1 \notin accepted /\ 2 \notin accepted /\ 3 \in accepted
        BY <1>1, <3>3
      <3>4. CASE accepted = {4}
        BY <3>4
      <3>5. QED
        BY <1>1, <1>4, <3>1, <3>2, <3>3, <3>4
    <2>2. Min(accepted) \in accepted
      BY <2>1 DEF Min
    <2>3. PICK m \in accepted : Min(accepted) = m
      BY <2>2
    <2>4. m \in {1, 2, 3, 4} /\ last[m] > broadChunkChars \div 2
      BY <1>1, <2>3
    <2>5. boundaryBefore(last) = last[m] + Width[m]
      BY <1>4, <2>3 DEF boundaryBefore
    <2>6. Width[m] \in {1, 2}
      BY <1>1, <2>4
    <2>7. QED
      BY <1>2, <2>4, <2>5, <2>6, ChunkAssumption
  <1>5. QED
    BY <1>3, <1>4

\* How far the windows reach.
Reached == IF chunks = <<>> THEN 0 ELSE chunks[Len(chunks)].end

\* What is no longer than the overlap and ends where the windows reach stands whole in one.
SpansSeen ==
    \A a, b \in Nat :
        a < b /\ b <= Reached /\ b - a <= chunkOverlapChars =>
            \E n \in DOMAIN chunks : chunks[n].start <= a /\ b <= chunks[n].end

ChunkInv ==
    /\ ChunkTypeOK
    /\ WindowsAdvance
    /\ SpansSeen
    /\ ~cut => start = IF chunks = <<>> THEN 0 ELSE Reached - chunkOverlapChars
    /\ cut => Reached = length
    /\ ~cut => /\ chunks # <<>> => Reached < length /\ length > broadChunkChars
                                   /\ length - Reached >= minTailChars
               /\ \A n \in DOMAIN chunks : n = Len(chunks) => chunks[n].start < start

LEMMA ReachedType ==
    ASSUME ChunkTypeOK
    PROVE  Reached \in Nat /\ (chunks # <<>> => Len(chunks) \in DOMAIN chunks)
  <1>1. CASE chunks = <<>>
    BY <1>1 DEF Reached
  <1>2. CASE chunks # <<>>
    <2>1. chunks \in Seq(Chunk)
      BY DEF ChunkTypeOK
    <2>2. Len(chunks) \in DOMAIN chunks
      BY <1>2, <2>1
    <2>3. chunks[Len(chunks)] \in Chunk
      BY <2>1, <2>2
    <2>4. QED
      BY <1>2, <2>2, <2>3 DEF Reached, Chunk
  <1>3. QED
    BY <1>1, <1>2

LEMMA ChunkInitInv == ChunkInit => ChunkInv
  <1> SUFFICES ASSUME ChunkInit PROVE ChunkInv
    OBVIOUS
  <1>1. /\ chunks = <<>> /\ DOMAIN chunks = {} /\ chunks \in Seq(Chunk)
        /\ start = 0 /\ ~cut /\ cut \in BOOLEAN /\ length \in BodyLength /\ length \in Nat
    <2>1. length \in BodyLength /\ start = 0 /\ chunks = <<>> /\ cut = FALSE
      BY DEF ChunkInit
    <2>2. length \in Nat
      BY <2>1, ChunkAssumption
    <2>3. DOMAIN chunks = {} /\ chunks \in Seq(Chunk)
      BY <2>1
    <2>4. QED
      BY <2>1, <2>2, <2>3
  <1>2. ChunkTypeOK
    BY <1>1 DEF ChunkTypeOK
  <1>3. Reached = 0
    BY <1>1 DEF Reached
  <1>4. WindowsAdvance /\ SpansSeen
    BY <1>1, <1>3 DEF WindowsAdvance, SpansSeen
  <1>5. QED
    BY <1>1, <1>2, <1>3, <1>4 DEF ChunkInv

LEMMA ShortInv == ASSUME ChunkInv, Short PROVE ChunkInv'
  <1>1. length \in Nat
    BY ChunkAssumption DEF ChunkInv, ChunkTypeOK
  <1>2. chunks = <<>> /\ start = 0
    BY <1>1, ChunkAssumption DEF ChunkInv, Short
  <1>3. CASE length = 0
    BY <1>1, <1>2, <1>3, ChunkAssumption
    DEF Short, ChunkInv, ChunkTypeOK, WindowsAdvance, SpansSeen, Reached
  <1>4. CASE length # 0
    <2> DEFINE whole == [start |-> 0, end |-> length]
    <2>1. /\ chunks' = <<whole>> /\ cut' = TRUE /\ UNCHANGED <<length, start>>
          /\ length <= broadChunkChars
      BY <1>4 DEF Short
    <2>2. Len(chunks') = 1 /\ chunks'[1] = whole /\ DOMAIN chunks' = {1} /\ chunks' # <<>>
      BY <2>1
    <2>3. ChunkTypeOK'
      BY <1>1, <1>2, <1>4, <2>1, <2>2 DEF ChunkTypeOK, Chunk, ChunkInv
    <2>4. Reached' = length
      BY <2>2 DEF Reached
    <2>5. WindowsAdvance'
      BY <1>1, <2>1, <2>2, ChunkAssumption DEF WindowsAdvance
    <2>6. SpansSeen'
      BY <1>1, <2>2, <2>4 DEF SpansSeen
    <2>7. QED
      BY <1>2, <2>1, <2>2, <2>3, <2>4, <2>5, <2>6 DEF ChunkInv
  <1>5. QED
    BY <1>3, <1>4

\* Where a window ends: beyond the one before, and not far beyond the limit.
LEMMA WindowRange ==
    ASSUME ChunkInv, ~cut, length > broadChunkChars, NEW last \in LastIndex
    PROVE  LET end == Fold(WindowEnd(last))
           IN  /\ end \in Nat /\ end <= length
               /\ start < end - chunkOverlapChars
               /\ end - start < broadChunkChars + minTailChars
               /\ Reached + minTailChars <= end
               /\ end < length => length - end >= minTailChars
  <1>1. length \in Nat /\ start \in Nat /\ start <= length
    <2>1. length \in BodyLength /\ start \in 0..length
      BY DEF ChunkInv, ChunkTypeOK
    <2>2. length \in Nat
      BY <2>1, ChunkAssumption
    <2>3. QED
      BY <2>1, <2>2
  <1>2. Reached \in Nat
    BY ReachedType DEF ChunkInv
  <1>3. /\ chunks = <<>> => start = 0 /\ Reached = 0
        /\ chunks # <<>> => start = Reached - chunkOverlapChars
                            /\ length - Reached >= minTailChars
    BY ChunkAssumption DEF ChunkInv, Reached
  <1>4. /\ boundaryBefore(last) \in Nat
        /\ boundaryBefore(last) <= broadChunkChars
        /\ 2 * boundaryBefore(last) > broadChunkChars
    BY BoundaryInSecondHalf
  <1> DEFINE end == WindowEnd(last)
  <1>5. CASE start + broadChunkChars >= length
    <2>1. end = length /\ Fold(end) = length
      BY <1>5 DEF WindowEnd, Fold
    <2>2. QED
      BY <1>1, <1>2, <1>3, <1>5, <2>1, ChunkAssumption
  <1>6. CASE start + broadChunkChars < length
    <2>1. end = start + boundaryBefore(last)
      BY <1>1, <1>6, ChunkAssumption DEF WindowEnd
    <2>2. /\ end \in Nat /\ end <= length /\ start < end - chunkOverlapChars
          /\ end - start <= broadChunkChars /\ Reached + minTailChars <= end
      BY <1>1, <1>2, <1>3, <1>4, <1>6, <2>1, ChunkAssumption
    <2>3. CASE length - end < minTailChars
      <3>1. Fold(end) = length
        BY <2>3 DEF Fold
      <3>2. QED
        BY <1>1, <1>2, <2>2, <2>3, <3>1, ChunkAssumption
    <2>4. CASE ~(length - end < minTailChars)
      <3>1. Fold(end) = end
        BY <2>4 DEF Fold
      <3>2. QED
        BY <1>1, <2>2, <2>4, <3>1, ChunkAssumption
    <2>5. QED
      BY <2>3, <2>4
  <1>7. QED
    BY <1>1, <1>5, <1>6, ChunkAssumption

LEMMA WindowInv == ASSUME ChunkInv, Window PROVE ChunkInv'
  <1>1. PICK last \in LastIndex :
          LET end == Fold(WindowEnd(last))
          IN  /\ chunks' = Append(chunks, [start |-> start, end |-> end])
              /\ cut' = (end >= length)
              /\ start' = IF end >= length THEN start ELSE NextStart(end)
    BY DEF Window
  <1> DEFINE end == Fold(WindowEnd(last))
             new == [start |-> start, end |-> end]
             k == Len(chunks)
  <1>2. /\ chunks' = Append(chunks, new) /\ cut' = (end >= length)
        /\ start' = IF end >= length THEN start ELSE NextStart(end)
        /\ length' = length /\ ~cut /\ length > broadChunkChars
    BY <1>1 DEF Window
  <1>3. /\ end \in Nat /\ end <= length
        /\ start < end - chunkOverlapChars
        /\ end - start < broadChunkChars + minTailChars
        /\ Reached + minTailChars <= end
        /\ end < length => length - end >= minTailChars
    BY <1>2, WindowRange
  <1>4. /\ length \in Nat /\ length \in BodyLength /\ start \in Nat /\ start <= length
        /\ chunks \in Seq(Chunk) /\ k \in Nat /\ DOMAIN chunks = 1..k
    BY ChunkAssumption DEF ChunkInv, ChunkTypeOK
  <1> HIDE DEF end
  <1>5. /\ new \in Chunk /\ chunks' \in Seq(Chunk) /\ Len(chunks') = k + 1
        /\ chunks'[k + 1] = new /\ \A n \in 1..k : chunks'[n] = chunks[n]
        /\ DOMAIN chunks' = 1..(k + 1) /\ chunks' # <<>>
    BY <1>2, <1>3, <1>4 DEF Chunk
  <1>6. Reached' = end
    BY <1>5 DEF Reached
  <1>7. end < length => start' = end - chunkOverlapChars /\ start < start'
    BY <1>2, <1>3, <1>4, ChunkAssumption DEF NextStart
  <1>8. ChunkTypeOK'
    <2>1. start' \in 0..length
      BY <1>2, <1>3, <1>4, <1>7, ChunkAssumption
    <2>2. \A n \in DOMAIN chunks' : chunks'[n].start < chunks'[n].end /\ chunks'[n].end <= length
      BY <1>3, <1>4, <1>5, ChunkAssumption DEF ChunkInv, ChunkTypeOK
    <2>3. cut' \in BOOLEAN
      BY <1>2
    <2>4. QED
      BY <1>2, <1>4, <1>5, <2>1, <2>2, <2>3 DEF ChunkTypeOK
  <1>9. WindowsAdvance'
    <2>1. SUFFICES ASSUME NEW n \in DOMAIN chunks'
                   PROVE  /\ chunks'[n].end - chunks'[n].start < broadChunkChars + minTailChars
                          /\ n > 1 => /\ chunks'[n - 1].start < chunks'[n].start
                                      /\ chunks'[n - 1].end + minTailChars <= chunks'[n].end
      BY DEF WindowsAdvance
    <2>2. CASE n <= k
      <3>1. n \in DOMAIN chunks /\ (n > 1 => n - 1 \in 1..k)
        BY <1>4, <1>5, <2>2
      <3>2. QED
        BY <1>4, <1>5, <2>2, <3>1 DEF ChunkInv, WindowsAdvance
    <2>3. CASE n = k + 1
      <3>1. k >= 1 => Reached = chunks[k].end /\ chunks[k].start < start
        BY <1>2, <1>4 DEF Reached, ChunkInv
      <3>2. chunks'[n] = new
        BY <1>5, <2>3
      <3>3. n > 1 => n - 1 = k /\ k >= 1 /\ chunks'[n - 1] = chunks[k]
        BY <1>4, <1>5, <2>3
      <3>4. QED
        BY <1>3, <3>1, <3>2, <3>3
    <2>4. QED
      BY <1>4, <1>5, <2>2, <2>3
  <1>10. SpansSeen'
    <2>1. SUFFICES ASSUME NEW a \in Nat, NEW b \in Nat,
                          a < b, b <= end, b - a <= chunkOverlapChars
                   PROVE  \E n \in DOMAIN chunks' :
                             chunks'[n].start <= a /\ b <= chunks'[n].end
      BY <1>6 DEF SpansSeen
    <2>2. CASE b <= Reached
      <3>1. PICK n \in DOMAIN chunks : chunks[n].start <= a /\ b <= chunks[n].end
        BY <2>1, <2>2 DEF ChunkInv, SpansSeen
      <3>2. n \in DOMAIN chunks' /\ chunks'[n] = chunks[n]
        BY <1>4, <1>5
      <3>3. QED
        BY <3>1, <3>2
    <2>3. CASE ~(b <= Reached)
      <3>1. start <= a
        <4>1. chunks = <<>> => start = 0
          BY <1>2 DEF ChunkInv
        <4>2. chunks # <<>> => start = Reached - chunkOverlapChars /\ Reached \in Nat
          BY <1>2, ReachedType DEF ChunkInv
        <4>3. QED
          BY <1>4, <2>1, <2>3, <4>1, <4>2, ChunkAssumption
      <3>2. chunks'[k + 1].start <= a /\ b <= chunks'[k + 1].end
        BY <1>5, <2>1, <3>1
      <3>3. QED
        BY <1>4, <1>5, <3>2
    <2>4. QED
      BY <2>2, <2>3
  <1>11. cut' => Reached' = length'
    <2>1. cut' => end >= length
      BY <1>2 DEF end
    <2>2. QED
      BY <1>2, <1>3, <1>4, <1>6, <2>1
  <1>12. ~cut' => /\ start' = Reached' - chunkOverlapChars
                  /\ length' - Reached' >= minTailChars /\ length' > broadChunkChars
                  /\ Reached' < length'
                  /\ \A n \in DOMAIN chunks' : n = Len(chunks') => chunks'[n].start < start'
    <2>1. ~cut' => end < length
      <3>1. ~cut' => ~(end >= length)
        BY <1>2
      <3>2. end \in Int /\ length \in Int
        BY <1>3, <1>4
      <3>3. QED
        BY <3>1, <3>2
    <2>2. \A n \in DOMAIN chunks' : n = Len(chunks') => chunks'[n] = new
      BY <1>5
    <2>3. ~cut' => start' = Reached' - chunkOverlapChars
      BY <1>6, <1>7, <2>1
    <2>4. ~cut' => /\ length' - Reached' >= minTailChars /\ length' > broadChunkChars
                   /\ Reached' < length'
      BY <1>2, <1>3, <1>6, <2>1
    <2>5. new.start = start
      OBVIOUS
    <2>6. ~cut' => \A n \in DOMAIN chunks' : n = Len(chunks') => chunks'[n].start < start'
      BY <1>7, <2>1, <2>2, <2>5
    <2>7. QED
      BY <2>3, <2>4, <2>6
  <1>13. QED
    BY <1>5, <1>8, <1>9, <1>10, <1>11, <1>12 DEF ChunkInv

LEMMA ChunkInvHolds == ChunkSpec => []ChunkInv
  <1>1. ASSUME ChunkInv, [ChunkNext]_chunkVars PROVE ChunkInv'
    <2>1. CASE UNCHANGED chunkVars
      BY <1>1, <2>1 DEF chunkVars, ChunkInv, ChunkTypeOK, WindowsAdvance, SpansSeen, Reached
    <2>2. QED
      BY <1>1, <2>1, ShortInv, WindowInv DEF ChunkNext
  <1>2. QED
    BY <1>1, ChunkInitInv, PTL DEF ChunkSpec

\* Windows are slices of the body (ChunkTypeOK).
THEOREM ChunkTypeCorrect == ChunkSpec => []ChunkTypeOK
  <1>1. ChunkInv => ChunkTypeOK
    BY DEF ChunkInv
  <1>2. QED
    BY <1>1, ChunkInvHolds, PTL

\* Whatever is no longer than the overlap stands whole in some window (SpanSeenWhole), for
\* every body and wherever the cuts fell.
THEOREM StraddlerSeen == ChunkSpec => []SpanSeenWhole
  <1>1. ChunkInv => SpanSeenWhole
    <2>1. SUFFICES ASSUME ChunkInv, cut, NEW a \in 0..length, NEW b \in 0..length,
                          a < b, b - a <= chunkOverlapChars
                   PROVE  \E n \in DOMAIN chunks : chunks[n].start <= a /\ b <= chunks[n].end
      BY DEF SpanSeenWhole
    <2>2. a \in Nat /\ b \in Nat /\ b <= Reached
      BY <2>1, ChunkAssumption DEF ChunkInv, ChunkTypeOK
    <2>3. QED
      BY <2>1, <2>2 DEF ChunkInv, SpansSeen
  <1>2. QED
    BY <1>1, ChunkInvHolds, PTL

\* Windows advance and are bounded (WindowsAdvance).
THEOREM WindowsBounded == ChunkSpec => []WindowsAdvance
  <1>1. ChunkInv => WindowsAdvance
    BY DEF ChunkInv
  <1>2. QED
    BY <1>1, ChunkInvHolds, PTL
-----------------------------------------------------------------------------
(***************************************************************************)
(* Folds.  The step of a fold is an operator, which no lemma can take for  *)
(* a parameter: it is taken as a function F of a position and of what the  *)
(* fold made of the positions before it, with its values in a set S.       *)
(***************************************************************************)

LEMMA LeastElement ==
    ASSUME NEW T, T \subseteq Nat, T # {}
    PROVE  \E x \in T : \A y \in T : x <= y
  <1> DEFINE below == {1..n : n \in T}
  <1>1. \A n \in Nat : 1..n \in FiniteSubsetsOf(Nat)
    BY FS_Interval DEF FiniteSubsetsOf
  <1>2. below \subseteq FiniteSubsetsOf(Nat) /\ below # {}
    BY <1>1
  <1>3. IsWellFoundedOn(StrictSubsetOrdering(Nat), FiniteSubsetsOf(Nat))
    BY FS_StrictSubsetOrderingWellFounded
  <1>4. PICK S \in below : \A R \in below : ~(<<R, S>> \in StrictSubsetOrdering(Nat))
    <2> HIDE DEF below
    <2>1. QED
      BY <1>2, <1>3, WFMin
  <1>5. PICK x \in T : S = 1..x
    BY <1>4
  <1>6. ASSUME NEW y \in T
        PROVE  x <= y
    <2>1. ~(<<1..y, 1..x>> \in StrictSubsetOrdering(Nat))
      BY <1>4, <1>5
    <2>2. ~(1..y \subseteq 1..x /\ 1..y # 1..x)
      BY <2>1 DEF StrictSubsetOrdering
    <2>3. SUFFICES ASSUME y < x PROVE FALSE
      OBVIOUS
    <2>4. x \in 1..x /\ x \notin 1..y
      BY <2>3
    <2>5. QED
      BY <2>2, <2>3, <2>4
  <1>7. QED
    BY <1>6

LEMMA MinIsLeast ==
    ASSUME NEW T, T \subseteq Nat, T # {}
    PROVE  Min(T) \in T /\ \A n \in T : Min(T) <= n
  BY LeastElement DEF Min

LEMMA MaxIsGreatest ==
    ASSUME NEW L \in Nat, NEW s \in SUBSET (1..L), s # {}
    PROVE  Max(s) \in s /\ \A n \in s : Max(s) >= n
  <1> DEFINE above == {m \in 1..L : \A n \in s : m >= n}
  <1>1. L \in above
    <2>1. PICK k \in s : TRUE
      OBVIOUS
    <2>2. k \in 1..L
      BY <2>1
    <2>3. L \in 1..L
      BY <2>2
    <2>4. \A n \in s : L >= n
      OBVIOUS
    <2>5. QED
      BY <2>3, <2>4
  <1>2. PICK m \in above : \A k \in above : m <= k
    <2>1. above \subseteq Nat
      OBVIOUS
    <2> HIDE DEF above
    <2>2. QED
      BY <1>1, <2>1, LeastElement
  <1>3. m \in s
    <2>1. SUFFICES ASSUME m \notin s PROVE FALSE
      OBVIOUS
    <2>2. PICK n \in s : TRUE
      OBVIOUS
    <2>3. m > n /\ \A k \in s : m - 1 >= k
      BY <1>2, <2>1
    <2>4. m - 1 \in above
      BY <1>2, <2>2, <2>3
    <2>5. QED
      BY <1>2, <2>4
  <1>4. QED
    BY <1>2, <1>3 DEF Max

\* Induction up to L, over a set.
LEMMA CountsUp ==
    ASSUME NEW L \in Nat, NEW P, 0 \in P, \A n \in 1..L : n - 1 \in P => n \in P
    PROVE  0..L \subseteq P
  <1> DEFINE left == {n \in 0..L : n \notin P}
  <1>1. SUFFICES ASSUME left # {} PROVE FALSE
    OBVIOUS
  <1>2. left \subseteq Nat
    OBVIOUS
  <1>3. PICK n \in left : \A m \in left : n <= m
    <2> HIDE DEF left
    <2>1. QED
      BY <1>1, <1>2, LeastElement
  <1>4. n # 0 /\ n \in 1..L
    BY <1>3
  <1>5. n - 1 \in P
    BY <1>3, <1>4
  <1>6. QED
    BY <1>3, <1>4, <1>5

\* FoldLeft is defined by recursion over sets of positions, the last one first.
FoldsOver(f, L, base, F) ==
    \A s \in SUBSET (1..L) : f[s] = IF s = {} THEN base ELSE F[<<Max(s), f[s \ {Max(s)}]>>]

\* The same of a function that may leave S.
Recurs(h, L, S, base, F) ==
    /\ h[{}] = base
    /\ \A s \in SUBSET (1..L) :
          s # {} /\ h[s \ {Max(s)}] \in S => h[s] = F[<<Max(s), h[s \ {Max(s)}]>>]

\* What was made of the first n positions, for every n.
CountsOver(g, L, S, base, F) ==
    g \in [0..L -> S] /\ g[0] = base /\ \A n \in 1..L : g[n] = F[<<n, g[n - 1]>>]

FoldType(F, L, S) == F \in [(1..L) \X S -> S]

\* There is such a function.
LEMMA FoldHasValues ==
    ASSUME NEW L, L \in Nat, NEW S, NEW base, base \in S, NEW F, FoldType(F, L, S)
    PROVE  \E f \in [SUBSET (1..L) -> S] : FoldsOver(f, L, base, F)
  <1> DEFINE Folds(f, n) == \A s \in SUBSET (1..n) :
                f[s] = IF s = {} THEN base ELSE F[<<Max(s), f[s \ {Max(s)}]>>]
             P == {n \in 0..L : \E f \in [SUBSET (1..n) -> S] : Folds(f, n)}
  <1>1. 0 \in P
    <2> DEFINE f == [s \in SUBSET (1..0) |-> base]
    <2>1. \A s \in SUBSET (1..0) : s = {}
      OBVIOUS
    <2>2. f \in [SUBSET (1..0) -> S] /\ Folds(f, 0)
      BY <2>1
    <2>3. 0 \in 0..L
      OBVIOUS
    <2> HIDE DEF f, Folds
    <2>4. QED
      BY <2>2, <2>3
  <1>2. ASSUME NEW n \in 1..L, n - 1 \in P PROVE n \in P
    <2>1. PICK f \in [SUBSET (1..(n - 1)) -> S] : Folds(f, n - 1)
      BY <1>2
    <2> DEFINE h == [s \in SUBSET (1..n) |-> IF n \in s THEN F[<<n, f[s \ {n}]>>] ELSE f[s]]
    <2>2. \A s \in SUBSET (1..n) : /\ s \ {n} \in SUBSET (1..(n - 1))
                                   /\ n \notin s => s \in SUBSET (1..(n - 1))
      OBVIOUS
    <2>3. h \in [SUBSET (1..n) -> S]
      <3>1. ASSUME NEW s \in SUBSET (1..n), n \in s PROVE h[s] \in S
        <4>1. f[s \ {n}] \in S /\ n \in 1..L /\ h[s] = F[<<n, f[s \ {n}]>>]
          BY <2>1, <2>2, <3>1
        <4>2. QED
          BY <4>1 DEF FoldType
      <3>2. ASSUME NEW s \in SUBSET (1..n), n \notin s PROVE h[s] \in S
        BY <2>1, <2>2, <3>2
      <3>3. QED
        BY <3>1, <3>2
    <2>4. ASSUME NEW s \in SUBSET (1..n)
          PROVE  h[s] = IF s = {} THEN base ELSE F[<<Max(s), h[s \ {Max(s)}]>>]
      <3>1. CASE n \in s
        <4>1. Max(s) = n
          <5>1. \A m \in s : n >= m
            OBVIOUS
          <5>2. \A m \in s : (\A k \in s : m >= k) => m = n
            BY <3>1
          <5>3. QED
            BY <3>1, <5>1, <5>2 DEF Max
        <4>2. s \ {n} \in SUBSET (1..n) /\ h[s \ {n}] = f[s \ {n}]
          OBVIOUS
        <4>3. h[s] = F[<<n, f[s \ {n}]>>]
          BY <3>1
        <4>4. QED
          BY <3>1, <4>1, <4>2, <4>3
      <3>2. CASE n \notin s
        <4>1. s \ {Max(s)} \in SUBSET (1..n) /\ h[s] = f[s] /\ h[s \ {Max(s)}] = f[s \ {Max(s)}]
          BY <3>2
        <4>2. f[s] = IF s = {} THEN base ELSE F[<<Max(s), f[s \ {Max(s)}]>>]
          BY <2>1, <2>2, <3>2
        <4>3. QED
          BY <4>1, <4>2
      <3>3. QED
        BY <3>1, <3>2
    <2> HIDE DEF h
    <2>5. Folds(h, n)
      BY <2>4
    <2>6. n \in 0..L
      OBVIOUS
    <2> HIDE DEF Folds
    <2>7. QED
      BY <2>3, <2>5, <2>6
  <1>3. 0..L \subseteq P
    <2> HIDE DEF P
    <2>1. QED
      BY <1>1, <1>2, CountsUp
  <1>4. L \in P
    <2> HIDE DEF P
    <2>1. QED
      BY <1>3
  <1>5. \E f \in [SUBSET (1..L) -> S] : Folds(f, L)
    <2> HIDE DEF Folds
    <2>1. QED
      BY <1>4
  <1>6. QED
    BY <1>5 DEF FoldsOver

\* And it is reached by counting up.
LEMMA FoldCountsUp ==
    ASSUME NEW L, L \in Nat, NEW S, NEW base, base \in S, NEW F, FoldType(F, L, S),
           NEW h, Recurs(h, L, S, base, F)
    PROVE  \E g : CountsOver(g, L, S, base, F) /\ h[1..L] = g[L]
  <1> DEFINE g == [n \in 0..L |-> h[1..n]]
             P == {n \in 0..L : g[n] \in S}
  <1>0. /\ h[{}] = base
        /\ \A s \in SUBSET (1..L) :
              s # {} /\ h[s \ {Max(s)}] \in S => h[s] = F[<<Max(s), h[s \ {Max(s)}]>>]
    BY DEF Recurs
  <1>1. 1..0 = {} /\ g[0] = base
    BY <1>0
  <1>2. ASSUME NEW n \in 1..L, g[n - 1] \in S
        PROVE  g[n] = F[<<n, g[n - 1]>>] /\ g[n] \in S
    <2>1. 1..n \in SUBSET (1..L) /\ 1..n # {} /\ (1..n) \ {n} = 1..(n - 1)
      OBVIOUS
    <2>2. Max(1..n) = n
      <3>1. n \in 1..n /\ \A m \in 1..n : n >= m
        OBVIOUS
      <3>2. \A m \in 1..n : (\A k \in 1..n : m >= k) => m = n
        BY <3>1
      <3>3. QED
        BY <3>1, <3>2 DEF Max
    <2>3. g[n - 1] = h[1..(n - 1)] /\ g[n] = h[1..n]
      OBVIOUS
    <2>4. h[1..n] = F[<<n, h[1..(n - 1)]>>]
      BY <1>0, <1>2, <2>1, <2>2, <2>3
    <2>5. QED
      BY <1>2, <2>3, <2>4 DEF FoldType
  <1>3. 0 \in P
    BY <1>1
  <1>4. ASSUME NEW n \in 1..L, n - 1 \in P PROVE n \in P
    <2>1. g[n - 1] \in S
      BY <1>4
    <2>2. g[n] \in S
      <3> HIDE DEF g, P
      <3>1. QED
        BY <1>2, <2>1
    <2>3. n \in 0..L
      OBVIOUS
    <2> HIDE DEF g
    <2>4. QED
      BY <2>2, <2>3
  <1> HIDE DEF g
  <1>5. 0..L \subseteq P
    <2> HIDE DEF P
    <2>1. QED
      BY <1>3, <1>4, CountsUp
  <1>6. g \in [0..L -> S] /\ \A n \in 1..L : g[n] = F[<<n, g[n - 1]>>]
    <2>1. \A n \in 0..L : g[n] \in S
      BY <1>5
    <2>2. \A n \in 1..L : n - 1 \in 0..L
      OBVIOUS
    <2>3. QED
      BY <1>2, <2>1, <2>2 DEF g
  <1>7. h[1..L] = g[L]
    BY DEF g
  <1>8. CountsOver(g, L, S, base, F)
    BY <1>1, <1>6 DEF CountsOver
  <1>9. QED
    BY <1>7, <1>8

-----------------------------------------------------------------------------
(***************************************************************************)
(* Candidates.                                                             *)
(***************************************************************************)

LEMMA CandidateFacts ==
    ASSUME NEW c \in Candidate
    PROVE  /\ c.kind \in Kind /\ c.topic \in Topic /\ c.topic \in Nat /\ c.statement \in Statement
           /\ c.attrs \in Attributes /\ c.confidence \in 1..100 /\ c.quote \in Quote
           /\ c.pass \in Pass /\ c.status \in BOOLEAN
           /\ DOMAIN c.attrs \subseteq AttrName /\ \A k \in DOMAIN c.attrs : c.attrs[k] \in AttrValue
  <1>1. /\ c.kind \in Kind /\ c.topic \in Topic /\ c.statement \in Statement
        /\ c.attrs \in Attributes /\ c.confidence \in 1..100 /\ c.quote \in Quote
        /\ c.pass \in Pass /\ c.status \in BOOLEAN
    BY DEF Candidate
  <1>2. c.topic \in Nat
    BY <1>1, BoundAssumption DEF Topic
  <1>3. PICK S \in SUBSET AttrName : c.attrs \in [S -> AttrValue]
    BY <1>1 DEF Attributes
  <1>4. QED
    BY <1>1, <1>2, <1>3

\* Two candidates that say the same: what merging leaves of one that it keeps.
SameSaying(c, d) == SameTopic(c, d) /\ c.statement = d.statement

\* e has what c has, and of d what c has not.
Adds(e, c, d) ==
    \A k \in DOMAIN e.attrs : \/ k \in DOMAIN c.attrs /\ e.attrs[k] = c.attrs[k]
                              \/ k \in DOMAIN d.attrs /\ e.attrs[k] = d.attrs[k]

LEMMA WithSpecificsFacts ==
    ASSUME NEW c \in Candidate, NEW d \in Candidate
    PROVE  /\ WithSpecifics(c, d) \in Candidate
           /\ SameSaying(WithSpecifics(c, d), c)
           /\ DOMAIN WithSpecifics(c, d).attrs = DOMAIN c.attrs \cup DOMAIN d.attrs
           /\ Adds(WithSpecifics(c, d), c, d)
  <1> DEFINE attrs == [k \in DOMAIN c.attrs \cup DOMAIN d.attrs |->
                          IF k \in DOMAIN c.attrs THEN c.attrs[k] ELSE d.attrs[k]]
             confidence == Higher(c.confidence, d.confidence)
             r == [c EXCEPT !.attrs = attrs, !.confidence = confidence]
  <1>1. WithSpecifics(c, d) = r
    BY DEF WithSpecifics
  <1>2. DOMAIN attrs = DOMAIN c.attrs \cup DOMAIN d.attrs
    OBVIOUS
  <1>7. \A k \in DOMAIN attrs : (k \in DOMAIN c.attrs /\ attrs[k] = c.attrs[k])
                                \/ (k \in DOMAIN d.attrs /\ attrs[k] = d.attrs[k])
    <2>1. \A k \in DOMAIN c.attrs \cup DOMAIN d.attrs :
             attrs[k] = IF k \in DOMAIN c.attrs THEN c.attrs[k] ELSE d.attrs[k]
      OBVIOUS
    <2> HIDE DEF attrs
    <2>2. QED
      BY <1>2, <2>1
  <1>3. attrs \in Attributes
    <2>1. attrs \in [DOMAIN c.attrs \cup DOMAIN d.attrs -> AttrValue]
      BY CandidateFacts
    <2>2. DOMAIN c.attrs \cup DOMAIN d.attrs \in SUBSET AttrName
      BY CandidateFacts
    <2> HIDE DEF attrs
    <2>3. QED
      BY <2>1, <2>2 DEF Attributes
  <1>4. confidence \in 1..100
    BY CandidateFacts DEF Higher
  <1> HIDE DEF attrs, confidence
  <1>5. r \in Candidate /\ r.attrs = attrs /\ r.kind = c.kind /\ r.topic = c.topic
        /\ r.statement = c.statement
    BY <1>3, <1>4 DEF Candidate
  <1> HIDE DEF r
  <1>6. Adds(r, c, d)
    BY <1>5, <1>7 DEF Adds
  <1>8. QED
    BY <1>1, <1>2, <1>5, <1>6 DEF SameSaying, SameTopic

LEMMA GraftedFacts ==
    ASSUME NEW c \in Candidate, NEW d \in Candidate
    PROVE  /\ Grafted(c, d) \in Candidate
           /\ SameSaying(Grafted(c, d), c)
           /\ DOMAIN Grafted(c, d).attrs = DOMAIN c.attrs \cup DOMAIN d.attrs
           /\ Adds(Grafted(c, d), c, d)
  <1> DEFINE w == WithSpecifics(c, d)
             quote == IF Length[d.quote] > Length[w.quote] THEN d.quote ELSE w.quote
             r == [w EXCEPT !.quote = quote, !.pass = "merged"]
  <1>1. Grafted(c, d) = r
    BY DEF Grafted
  <1>2. /\ w \in Candidate /\ SameSaying(w, c)
        /\ DOMAIN w.attrs = DOMAIN c.attrs \cup DOMAIN d.attrs
        /\ Adds(w, c, d)
    BY WithSpecificsFacts
  <1> HIDE DEF w
  <1>3. quote \in Quote
    BY <1>2, CandidateFacts
  <1> HIDE DEF quote
  <1>4. "merged" \in Pass
    BY DEF Pass
  <1>5. r \in Candidate /\ r.attrs = w.attrs /\ r.kind = w.kind /\ r.topic = w.topic
        /\ r.statement = w.statement
    BY <1>2, <1>3, <1>4 DEF Candidate
  <1> HIDE DEF r
  <1>6. Adds(r, c, d)
    BY <1>2, <1>5 DEF Adds
  <1>7. QED
    BY <1>1, <1>2, <1>5, <1>6 DEF SameSaying, SameTopic

\* The position of the first element that passes a test.
LEMMA FirstOf ==
    ASSUME NEW I, I \subseteq Nat \ {0}
    PROVE  LET first == IF I # {} THEN Min(I) ELSE 0
           IN  /\ first = 0 => I = {}
               /\ first # 0 => first \in I /\ \A n \in I : first <= n
  <1>1. I # {} => Min(I) \in I /\ \A n \in I : Min(I) <= n
    BY MinIsLeast
  <1>2. QED
    BY <1>1

-----------------------------------------------------------------------------
(* What the verifier accepts, one candidate after the other. *)

Marked(c) == [c EXCEPT !.confidence = @ - Penalty(c)]

Screened(prior, c) == IF Verify(c, prior) THEN Append(prior, Marked(c)) ELSE prior

LEMMA MarkedFacts ==
    ASSUME NEW c \in Candidate, checkShape(c)
    PROVE  /\ Marked(c) \in Candidate /\ SameSaying(Marked(c), c) /\ Marked(c).attrs = c.attrs
  <1>1. Penalty(c) \in {0, 10, 15} /\ c.confidence \in 1..100 /\ c.confidence >= 35
    BY CandidateFacts DEF Penalty, checkShape
  <1>2. c.confidence - Penalty(c) \in 1..100
    BY <1>1
  <1> DEFINE r == [c EXCEPT !.confidence = c.confidence - Penalty(c)]
  <1>3. r \in Candidate /\ r.attrs = c.attrs /\ r.kind = c.kind /\ r.topic = c.topic
        /\ r.statement = c.statement
    BY <1>2 DEF Candidate
  <1>4. Marked(c) = r
    BY DEF Marked
  <1> HIDE DEF r
  <1>5. QED
    BY <1>3, <1>4 DEF SameSaying, SameTopic

LEMMA ScreenedType ==
    ASSUME NEW prior \in Seq(Candidate), NEW c \in Candidate
    PROVE  Screened(prior, c) \in Seq(Candidate)
  BY MarkedFacts DEF Screened, Verify

\* VerifyAll counts up: the two lemmas on folds, for its step.  The same is done for each of
\* the folds below.
LEMMA VerifyAllFolds ==
    ASSUME NEW cs \in Seq(Candidate)
    PROVE  \E g \in [0..Len(cs) -> Seq(Candidate)] :
              /\ g[0] = <<>>
              /\ \A n \in 1..Len(cs) : g[n] = Screened(g[n - 1], cs[n])
              /\ VerifyAll(cs) = g[Len(cs)]
  <1> DEFINE L == Len(cs)
             S == Seq(Candidate)
             base == <<>>
             F == [p \in (1..L) \X S |-> Screened(p[2], cs[p[1]])]
             Is(f) == f = [s \in SUBSET (1..L) |->
                              IF s = {} THEN base ELSE Screened(f[s \ {Max(s)}], cs[Max(s)])]
             h == CHOOSE f : Is(f)
  <1>1. L \in Nat /\ DOMAIN cs = 1..L /\ \A n \in 1..L : cs[n] \in Candidate
    OBVIOUS
  <1>2. VerifyAll(cs) = h[1..L]
    BY <1>1 DEF VerifyAll, Screened, Marked, FoldLeft, MapThenFoldSet
  <1>3. FoldType(F, L, S)
    BY <1>1, ScreenedType DEF FoldType
  <1>4. \A n \in 1..L, out \in S : F[<<n, out>>] = Screened(out, cs[n])
    OBVIOUS
  <1>5. base \in S
    OBVIOUS
  <1> HIDE DEF L, S, F, base
  <1>6. PICK f \in [SUBSET (1..L) -> S] : FoldsOver(f, L, base, F)
    BY <1>1, <1>3, <1>5, FoldHasValues
  <1>7. Is(f)
    <2>1. ASSUME NEW s \in SUBSET (1..L)
          PROVE  f[s] = IF s = {} THEN base ELSE Screened(f[s \ {Max(s)}], cs[Max(s)])
      <3>1. f[s] = IF s = {} THEN base ELSE F[<<Max(s), f[s \ {Max(s)}]>>]
        BY <1>6 DEF FoldsOver
      <3>2. s # {} => Max(s) \in 1..L /\ f[s \ {Max(s)}] \in S
        BY <1>1, MaxIsGreatest
      <3>3. QED
        BY <1>4, <3>1, <3>2
    <2>2. QED
      BY <2>1
  <1>8. Is(h)
    <2> HIDE DEF Is
    <2>1. QED
      BY <1>7
  <1> HIDE DEF h
  <1>9. Recurs(h, L, S, base, F)
    <2>1. ASSUME NEW s \in SUBSET (1..L), s # {}, h[s \ {Max(s)}] \in S
          PROVE  h[s] = F[<<Max(s), h[s \ {Max(s)}]>>]
      <3>1. h[s] = Screened(h[s \ {Max(s)}], cs[Max(s)])
        BY <1>8, <2>1
      <3>2. Max(s) \in 1..L
        BY <1>1, <2>1, MaxIsGreatest
      <3>3. QED
        BY <1>4, <2>1, <3>1, <3>2
    <2>2. QED
      BY <1>8, <2>1 DEF Recurs
  <1> HIDE DEF Is
  <1>10. PICK g : CountsOver(g, L, S, base, F) /\ h[1..L] = g[L]
    BY <1>1, <1>3, <1>5, <1>9, FoldCountsUp
  <1>11. g \in [0..L -> S] /\ g[0] = base /\ \A n \in 1..L : g[n] = F[<<n, g[n - 1]>>]
    BY <1>10 DEF CountsOver
  <1>12. \A n \in 1..L : n - 1 \in 0..L
    BY <1>1
  <1>13. \A n \in 1..L : g[n] = Screened(g[n - 1], cs[n])
    BY <1>4, <1>11, <1>12
  <1>14. QED
    BY <1>2, <1>10, <1>11, <1>13 DEF L, S, base

-----------------------------------------------------------------------------
(* What merging keeps of a list: every element, as it was worded, and its specifics. *)

Keeps(r, out) ==
    \A i \in DOMAIN out : /\ i \in DOMAIN r
                          /\ SameSaying(r[i], out[i])
                          /\ DOMAIN out[i].attrs \subseteq DOMAIN r[i].attrs

Deduped(out, c) ==
    LET twin == SelectInSeq(out, LAMBDA o : Twins(o, c))
    IN  IF twin = 0 THEN Append(out, c) ELSE [out EXCEPT ![twin] = WithSpecifics(@, c)]

\* Every value c carries was said of its key by one of S.
Told(c, S) ==
    \A k \in DOMAIN c.attrs :
        \E d \in S : SameTopic(c, d) /\ k \in DOMAIN d.attrs /\ d.attrs[k] = c.attrs[k]

AllTold(s, S) == \A i \in DOMAIN s : Told(s[i], S)

LEMMA AddsTold ==
    ASSUME NEW S, NEW c, NEW d, NEW e,
           SameSaying(e, c), SameTopic(c, d), Adds(e, c, d), Told(c, S), Told(d, S)
    PROVE  Told(e, S)
  <1>1. SUFFICES ASSUME NEW k \in DOMAIN e.attrs
                 PROVE  \E t \in S : SameTopic(e, t) /\ k \in DOMAIN t.attrs /\ t.attrs[k] = e.attrs[k]
    BY DEF Told
  <1>2. \A t : (SameTopic(c, t) => SameTopic(e, t)) /\ (SameTopic(d, t) => SameTopic(e, t))
    BY DEF SameSaying, SameTopic
  <1>3. CASE k \in DOMAIN c.attrs /\ e.attrs[k] = c.attrs[k]
    <2>1. PICK t \in S : SameTopic(c, t) /\ k \in DOMAIN t.attrs /\ t.attrs[k] = c.attrs[k]
      BY <1>3 DEF Told
    <2>2. QED
      BY <1>2, <1>3, <2>1
  <1>4. CASE k \in DOMAIN d.attrs /\ e.attrs[k] = d.attrs[k]
    <2>1. PICK t \in S : SameTopic(d, t) /\ k \in DOMAIN t.attrs /\ t.attrs[k] = d.attrs[k]
      BY <1>4 DEF Told
    <2>2. QED
      BY <1>2, <1>4, <2>1
  <1>5. QED
    BY <1>1, <1>3, <1>4 DEF Adds

\* Both steps of merging: what is not matched is appended, what is gains specifics.
LEMMA AppendKeeps ==
    ASSUME NEW out \in Seq(Candidate), NEW c \in Candidate
    PROVE  LET r == Append(out, c)
           IN  /\ r \in Seq(Candidate) /\ Keeps(r, out)
               /\ Len(out) + 1 \in DOMAIN r /\ r[Len(out) + 1] = c
               /\ \A S : AllTold(out, S) /\ Told(c, S) => AllTold(r, S)
  <1>1. /\ Append(out, c) \in Seq(Candidate) /\ Len(out) \in Nat
        /\ Len(Append(out, c)) = Len(out) + 1 /\ Append(out, c)[Len(out) + 1] = c
        /\ \A i \in 1..Len(out) : Append(out, c)[i] = out[i]
    BY AppendProperties, LenProperties
  <1>2. DOMAIN out = 1..Len(out) /\ DOMAIN Append(out, c) = 1..(Len(out) + 1)
    BY <1>1, LenProperties
  <1> DEFINE r == Append(out, c)
  <1>3. r \in Seq(Candidate) /\ Keeps(r, out) /\ Len(out) + 1 \in DOMAIN r /\ r[Len(out) + 1] = c
    BY <1>1, <1>2 DEF Keeps, SameSaying, SameTopic
  <1>4. \A i \in DOMAIN r : (i \in DOMAIN out /\ r[i] = out[i]) \/ r[i] = c
    BY <1>1, <1>2
  <1> HIDE DEF r
  <1>5. \A S : AllTold(out, S) /\ Told(c, S) => AllTold(r, S)
    BY <1>4 DEF AllTold
  <1>6. QED
    BY <1>3, <1>5 DEF r

LEMMA ExceptKeeps ==
    ASSUME NEW out \in Seq(Candidate), NEW i \in DOMAIN out, NEW e \in Candidate,
           SameSaying(e, out[i]), DOMAIN out[i].attrs \subseteq DOMAIN e.attrs
    PROVE  LET r == [out EXCEPT ![i] = e]
           IN  /\ r \in Seq(Candidate) /\ Keeps(r, out)
               /\ i \in DOMAIN r /\ r[i] = e
  <1>1. i \in 1..Len(out) /\ DOMAIN out = 1..Len(out)
    BY LenProperties
  <1> DEFINE r == [out EXCEPT ![i] = e]
  <1>2. /\ r \in Seq(Candidate) /\ DOMAIN r = DOMAIN out
        /\ \A j \in DOMAIN out : r[j] = IF j = i THEN e ELSE out[j]
    BY <1>1, ExceptSeq
  <1> HIDE DEF r
  <1>3. Keeps(r, out)
    BY <1>2 DEF Keeps, SameSaying, SameTopic
  <1>4. QED
    BY <1>2, <1>3 DEF r

LEMMA ExceptTold ==
    ASSUME NEW out \in Seq(Candidate), NEW c, NEW i \in DOMAIN out, NEW e \in Candidate,
           SameSaying(e, out[i]), SameTopic(out[i], c), Adds(e, out[i], c)
    PROVE  \A S : AllTold(out, S) /\ Told(c, S) => AllTold([out EXCEPT ![i] = e], S)
  <1> DEFINE r == [out EXCEPT ![i] = e]
  <1>1. SUFFICES ASSUME NEW S, AllTold(out, S), Told(c, S) PROVE AllTold(r, S)
    OBVIOUS
  <1>2. DOMAIN r = DOMAIN out /\ \A j \in DOMAIN out : r[j] = IF j = i THEN e ELSE out[j]
    OBVIOUS
  <1> HIDE DEF r
  <1>3. Told(out[i], S)
    BY <1>1 DEF AllTold
  <1>4. Told(e, S)
    BY <1>1, <1>3, AddsTold
  <1>5. QED
    BY <1>1, <1>2, <1>4 DEF AllTold

LEMMA KeepsOn ==
    ASSUME NEW a \in Seq(Candidate), NEW b \in Seq(Candidate), NEW c \in Seq(Candidate),
           Keeps(b, a), Keeps(c, b)
    PROVE  Keeps(c, a)
  BY DEF Keeps, SameSaying, SameTopic

LEMMA DedupedCases ==
    ASSUME NEW out \in Seq(Candidate), NEW c \in Candidate
    PROVE  \/ Deduped(out, c) = Append(out, c)
           \/ \E i \in DOMAIN out :
                 Twins(out[i], c) /\ Deduped(out, c) = [out EXCEPT ![i] = WithSpecifics(out[i], c)]
  <1> DEFINE I == {i \in 1..Len(out) : Twins(out[i], c)}
             twin == IF I # {} THEN Min(I) ELSE 0
  <1>1. twin = SelectInSeq(out, LAMBDA o : Twins(o, c))
    BY DEF SelectInSeq
  <1>2. twin # 0 => twin \in I
    <2>1. I \subseteq Nat \ {0}
      OBVIOUS
    <2> HIDE DEF I
    <2>2. QED
      BY <2>1, FirstOf
  <1>3. Deduped(out, c) = IF twin = 0 THEN Append(out, c)
                          ELSE [out EXCEPT ![twin] = WithSpecifics(out[twin], c)]
    BY <1>1 DEF Deduped
  <1>4. twin # 0 => twin \in DOMAIN out /\ Twins(out[twin], c)
    BY <1>2
  <1> HIDE DEF twin
  <1>5. QED
    BY <1>3, <1>4

LEMMA DedupedFacts ==
    ASSUME NEW out \in Seq(Candidate), NEW c \in Candidate
    PROVE  /\ Deduped(out, c) \in Seq(Candidate)
           /\ Keeps(Deduped(out, c), out)
           /\ \E i \in DOMAIN Deduped(out, c) :
                 /\ Twins(Deduped(out, c)[i], c)
                 /\ DOMAIN c.attrs \subseteq DOMAIN Deduped(out, c)[i].attrs
           /\ \A S : AllTold(out, S) /\ Told(c, S) => AllTold(Deduped(out, c), S)
  <1>1. CASE Deduped(out, c) = Append(out, c)
    <2>1. Twins(c, c)
      BY DEF Twins, SameTopic
    <2>2. QED
      BY <1>1, <2>1, AppendKeeps
  <1>2. ASSUME NEW i \in DOMAIN out, Twins(out[i], c),
               Deduped(out, c) = [out EXCEPT ![i] = WithSpecifics(out[i], c)]
        PROVE  /\ Deduped(out, c) \in Seq(Candidate)
               /\ Keeps(Deduped(out, c), out)
               /\ \E n \in DOMAIN Deduped(out, c) :
                     /\ Twins(Deduped(out, c)[n], c)
                     /\ DOMAIN c.attrs \subseteq DOMAIN Deduped(out, c)[n].attrs
               /\ \A S : AllTold(out, S) /\ Told(c, S) => AllTold(Deduped(out, c), S)
    <2> DEFINE e == WithSpecifics(out[i], c)
    <2>1. /\ e \in Candidate /\ SameSaying(e, out[i]) /\ Adds(e, out[i], c)
          /\ DOMAIN e.attrs = DOMAIN out[i].attrs \cup DOMAIN c.attrs
      BY WithSpecificsFacts
    <2>2. Deduped(out, c) = [out EXCEPT ![i] = e]
      BY <1>2
    <2> HIDE DEF e
    <2>3. Twins(e, c)
      BY <1>2, <2>1 DEF Twins, SameSaying, SameTopic
    <2>4. SameTopic(out[i], c)
      BY <1>2 DEF Twins
    <2> DEFINE r == [out EXCEPT ![i] = e]
    <2>5. r \in Seq(Candidate) /\ Keeps(r, out) /\ i \in DOMAIN r /\ r[i] = e
      BY <2>1, ExceptKeeps
    <2>6. \A S : AllTold(out, S) /\ Told(c, S) => AllTold(r, S)
      BY <2>1, <2>4, ExceptTold
    <2> HIDE DEF r
    <2>7. Twins(r[i], c) /\ DOMAIN c.attrs \subseteq DOMAIN r[i].attrs
      BY <2>1, <2>3, <2>5
    <2>8. Deduped(out, c) = r
      BY <2>2 DEF r
    <2>9. QED
      BY <2>5, <2>6, <2>7, <2>8
  <1>3. QED
    BY <1>1, <1>2, DedupedCases

LEMMA DedupedType ==
    ASSUME NEW out \in Seq(Candidate), NEW c \in Candidate
    PROVE  Deduped(out, c) \in Seq(Candidate)
  BY DedupedFacts

LEMMA FoldDetailCases ==
    ASSUME NEW out \in Seq(Candidate), NEW c \in Candidate
    PROVE  \/ FoldDetail(out, c) = Append(out, c)
           \/ \E i \in DOMAIN out :
                 SameTopic(out[i], c) /\ FoldDetail(out, c) = [out EXCEPT ![i] = Grafted(out[i], c)]
  <1> DEFINE I == {i \in 1..Len(out) : SameTopic(out[i], c)}
             target == IF I # {} THEN Min(I) ELSE 0
  <1>1. target = SelectInSeq(out, LAMBDA o : SameTopic(o, c))
    BY DEF SelectInSeq
  <1>2. target # 0 => target \in I
    <2>1. I \subseteq Nat \ {0}
      OBVIOUS
    <2> HIDE DEF I
    <2>2. QED
      BY <2>1, FirstOf
  <1>3. FoldDetail(out, c) = IF target = 0 THEN Append(out, c)
                             ELSE [out EXCEPT ![target] = Grafted(out[target], c)]
    BY <1>1 DEF FoldDetail
  <1>4. target # 0 => target \in DOMAIN out /\ SameTopic(out[target], c)
    BY <1>2
  <1> HIDE DEF target
  <1>5. QED
    BY <1>3, <1>4

LEMMA FoldDetailFacts ==
    ASSUME NEW out \in Seq(Candidate), NEW c \in Candidate
    PROVE  /\ FoldDetail(out, c) \in Seq(Candidate)
           /\ Keeps(FoldDetail(out, c), out)
           /\ \E i \in DOMAIN FoldDetail(out, c) :
                 /\ SameTopic(FoldDetail(out, c)[i], c)
                 /\ DOMAIN c.attrs \subseteq DOMAIN FoldDetail(out, c)[i].attrs
           /\ \A S : AllTold(out, S) /\ Told(c, S) => AllTold(FoldDetail(out, c), S)
  <1>1. CASE FoldDetail(out, c) = Append(out, c)
    <2>1. SameTopic(c, c)
      BY DEF SameTopic
    <2>2. QED
      BY <1>1, <2>1, AppendKeeps
  <1>2. ASSUME NEW i \in DOMAIN out, SameTopic(out[i], c),
               FoldDetail(out, c) = [out EXCEPT ![i] = Grafted(out[i], c)]
        PROVE  /\ FoldDetail(out, c) \in Seq(Candidate)
               /\ Keeps(FoldDetail(out, c), out)
               /\ \E n \in DOMAIN FoldDetail(out, c) :
                     /\ SameTopic(FoldDetail(out, c)[n], c)
                     /\ DOMAIN c.attrs \subseteq DOMAIN FoldDetail(out, c)[n].attrs
               /\ \A S : AllTold(out, S) /\ Told(c, S) => AllTold(FoldDetail(out, c), S)
    <2> DEFINE e == Grafted(out[i], c)
    <2>1. /\ e \in Candidate /\ SameSaying(e, out[i]) /\ Adds(e, out[i], c)
          /\ DOMAIN e.attrs = DOMAIN out[i].attrs \cup DOMAIN c.attrs
      BY GraftedFacts
    <2>2. FoldDetail(out, c) = [out EXCEPT ![i] = e]
      BY <1>2
    <2> HIDE DEF e
    <2>3. SameTopic(e, c)
      BY <1>2, <2>1 DEF SameSaying, SameTopic
    <2> DEFINE r == [out EXCEPT ![i] = e]
    <2>4. r \in Seq(Candidate) /\ Keeps(r, out) /\ i \in DOMAIN r /\ r[i] = e
      BY <2>1, ExceptKeeps
    <2>5. \A S : AllTold(out, S) /\ Told(c, S) => AllTold(r, S)
      BY <1>2, <2>1, ExceptTold
    <2> HIDE DEF r
    <2>6. SameTopic(r[i], c) /\ DOMAIN c.attrs \subseteq DOMAIN r[i].attrs
      BY <2>1, <2>3, <2>4
    <2>7. FoldDetail(out, c) = r
      BY <2>2 DEF r
    <2>8. QED
      BY <2>4, <2>5, <2>6, <2>7
  <1>3. QED
    BY <1>1, <1>2, FoldDetailCases

LEMMA FoldDetailType ==
    ASSUME NEW out \in Seq(Candidate), NEW c \in Candidate
    PROVE  FoldDetail(out, c) \in Seq(Candidate)
  BY FoldDetailFacts

LEMMA DedupeFolds ==
    ASSUME NEW cs \in Seq(Candidate)
    PROVE  \E g \in [0..Len(cs) -> Seq(Candidate)] :
              /\ g[0] = <<>>
              /\ \A n \in 1..Len(cs) : g[n] = Deduped(g[n - 1], cs[n])
              /\ dedupe(cs) = g[Len(cs)]
  <1> DEFINE L == Len(cs)
             S == Seq(Candidate)
             base == <<>>
             F == [p \in (1..L) \X S |-> Deduped(p[2], cs[p[1]])]
             Is(f) == f = [s \in SUBSET (1..L) |->
                              IF s = {} THEN base ELSE Deduped(f[s \ {Max(s)}], cs[Max(s)])]
             h == CHOOSE f : Is(f)
  <1>1. L \in Nat /\ DOMAIN cs = 1..L /\ \A n \in 1..L : cs[n] \in Candidate
    OBVIOUS
  <1>2. dedupe(cs) = h[1..L]
    BY <1>1 DEF dedupe, Deduped, FoldLeft, MapThenFoldSet
  <1>3. FoldType(F, L, S)
    BY <1>1, DedupedType DEF FoldType
  <1>4. \A n \in 1..L, out \in S : F[<<n, out>>] = Deduped(out, cs[n])
    OBVIOUS
  <1>5. base \in S
    OBVIOUS
  <1> HIDE DEF L, S, F, base
  <1>6. PICK f \in [SUBSET (1..L) -> S] : FoldsOver(f, L, base, F)
    BY <1>1, <1>3, <1>5, FoldHasValues
  <1>7. Is(f)
    <2>1. ASSUME NEW s \in SUBSET (1..L)
          PROVE  f[s] = IF s = {} THEN base ELSE Deduped(f[s \ {Max(s)}], cs[Max(s)])
      <3>1. f[s] = IF s = {} THEN base ELSE F[<<Max(s), f[s \ {Max(s)}]>>]
        BY <1>6 DEF FoldsOver
      <3>2. s # {} => Max(s) \in 1..L /\ f[s \ {Max(s)}] \in S
        BY <1>1, MaxIsGreatest
      <3>3. QED
        BY <1>4, <3>1, <3>2
    <2>2. QED
      BY <2>1
  <1>8. Is(h)
    <2> HIDE DEF Is
    <2>1. QED
      BY <1>7
  <1> HIDE DEF h
  <1>9. Recurs(h, L, S, base, F)
    <2>1. ASSUME NEW s \in SUBSET (1..L), s # {}, h[s \ {Max(s)}] \in S
          PROVE  h[s] = F[<<Max(s), h[s \ {Max(s)}]>>]
      <3>1. h[s] = Deduped(h[s \ {Max(s)}], cs[Max(s)])
        BY <1>8, <2>1
      <3>2. Max(s) \in 1..L
        BY <1>1, <2>1, MaxIsGreatest
      <3>3. QED
        BY <1>4, <2>1, <3>1, <3>2
    <2>2. QED
      BY <1>8, <2>1 DEF Recurs
  <1> HIDE DEF Is
  <1>10. PICK g : CountsOver(g, L, S, base, F) /\ h[1..L] = g[L]
    BY <1>1, <1>3, <1>5, <1>9, FoldCountsUp
  <1>11. g \in [0..L -> S] /\ g[0] = base /\ \A n \in 1..L : g[n] = F[<<n, g[n - 1]>>]
    BY <1>10 DEF CountsOver
  <1>12. \A n \in 1..L : n - 1 \in 0..L
    BY <1>1
  <1>13. \A n \in 1..L : g[n] = Deduped(g[n - 1], cs[n])
    BY <1>4, <1>11, <1>12
  <1>14. QED
    BY <1>2, <1>10, <1>11, <1>13 DEF L, S, base

LEMMA DetailFolds ==
    ASSUME NEW merged \in Seq(Candidate), NEW cs \in Seq(Candidate)
    PROVE  \E g \in [0..Len(cs) -> Seq(Candidate)] :
              /\ g[0] = merged
              /\ \A n \in 1..Len(cs) : g[n] = FoldDetail(g[n - 1], cs[n])
              /\ FoldLeft(FoldDetail, merged, cs) = g[Len(cs)]
  <1> DEFINE L == Len(cs)
             S == Seq(Candidate)
             base == merged
             F == [p \in (1..L) \X S |-> FoldDetail(p[2], cs[p[1]])]
             Is(f) == f = [s \in SUBSET (1..L) |->
                              IF s = {} THEN base ELSE FoldDetail(f[s \ {Max(s)}], cs[Max(s)])]
             h == CHOOSE f : Is(f)
  <1>1. L \in Nat /\ DOMAIN cs = 1..L /\ \A n \in 1..L : cs[n] \in Candidate
    OBVIOUS
  <1>2. FoldLeft(FoldDetail, merged, cs) = h[1..L]
    BY <1>1 DEF FoldLeft, MapThenFoldSet
  <1>3. FoldType(F, L, S)
    BY <1>1, FoldDetailType DEF FoldType
  <1>4. \A n \in 1..L, out \in S : F[<<n, out>>] = FoldDetail(out, cs[n])
    OBVIOUS
  <1>5. base \in S
    OBVIOUS
  <1> HIDE DEF L, S, F, base
  <1>6. PICK f \in [SUBSET (1..L) -> S] : FoldsOver(f, L, base, F)
    BY <1>1, <1>3, <1>5, FoldHasValues
  <1>7. Is(f)
    <2>1. ASSUME NEW s \in SUBSET (1..L)
          PROVE  f[s] = IF s = {} THEN base ELSE FoldDetail(f[s \ {Max(s)}], cs[Max(s)])
      <3>1. f[s] = IF s = {} THEN base ELSE F[<<Max(s), f[s \ {Max(s)}]>>]
        BY <1>6 DEF FoldsOver
      <3>2. s # {} => Max(s) \in 1..L /\ f[s \ {Max(s)}] \in S
        BY <1>1, MaxIsGreatest
      <3>3. QED
        BY <1>4, <3>1, <3>2
    <2>2. QED
      BY <2>1
  <1>8. Is(h)
    <2> HIDE DEF Is
    <2>1. QED
      BY <1>7
  <1> HIDE DEF h
  <1>9. Recurs(h, L, S, base, F)
    <2>1. ASSUME NEW s \in SUBSET (1..L), s # {}, h[s \ {Max(s)}] \in S
          PROVE  h[s] = F[<<Max(s), h[s \ {Max(s)}]>>]
      <3>1. h[s] = FoldDetail(h[s \ {Max(s)}], cs[Max(s)])
        BY <1>8, <2>1
      <3>2. Max(s) \in 1..L
        BY <1>1, <2>1, MaxIsGreatest
      <3>3. QED
        BY <1>4, <2>1, <3>1, <3>2
    <2>2. QED
      BY <1>8, <2>1 DEF Recurs
  <1> HIDE DEF Is
  <1>10. PICK g : CountsOver(g, L, S, base, F) /\ h[1..L] = g[L]
    BY <1>1, <1>3, <1>5, <1>9, FoldCountsUp
  <1>11. g \in [0..L -> S] /\ g[0] = base /\ \A n \in 1..L : g[n] = F[<<n, g[n - 1]>>]
    BY <1>10 DEF CountsOver
  <1>12. \A n \in 1..L : n - 1 \in 0..L
    BY <1>1
  <1>13. \A n \in 1..L : g[n] = FoldDetail(g[n - 1], cs[n])
    BY <1>4, <1>11, <1>12
  <1>14. QED
    BY <1>2, <1>10, <1>11, <1>13 DEF L, S, base

\* No candidate is lost by dedupe: each has a twin that knows at least as much.
LEMMA DedupeKeeps ==
    ASSUME NEW cs \in Seq(Candidate)
    PROVE  /\ dedupe(cs) \in Seq(Candidate)
           /\ \A m \in DOMAIN cs : \E i \in DOMAIN dedupe(cs) :
                 /\ Twins(dedupe(cs)[i], cs[m])
                 /\ DOMAIN cs[m].attrs \subseteq DOMAIN dedupe(cs)[i].attrs
           /\ \A S : AllTold(cs, S) => AllTold(dedupe(cs), S)
  <1> DEFINE L == Len(cs)
             HasTwin(out, m) == \E i \in DOMAIN out : /\ Twins(out[i], cs[m])
                                                    /\ DOMAIN cs[m].attrs \subseteq DOMAIN out[i].attrs
  <1>1. PICK g \in [0..L -> Seq(Candidate)] :
          /\ g[0] = <<>>
          /\ \A n \in 1..L : g[n] = Deduped(g[n - 1], cs[n])
          /\ dedupe(cs) = g[L]
    BY DedupeFolds
  <1>2. L \in Nat /\ DOMAIN cs = 1..L /\ \A n \in 1..L : cs[n] \in Candidate
    OBVIOUS
  <1> HIDE DEF L
  <1> DEFINE P == {n \in 0..L : \A m \in 1..n : HasTwin(g[n], m)}
  <1>3. 0 \in P
    BY <1>2
  <1>4. ASSUME NEW n \in 1..L, n - 1 \in P PROVE n \in P
    <2>1. g[n - 1] \in Seq(Candidate) /\ g[n] \in Seq(Candidate) /\ cs[n] \in Candidate
      BY <1>2
    <2>2. g[n] = Deduped(g[n - 1], cs[n])
      BY <1>1
    <2>3. Keeps(g[n], g[n - 1]) /\ HasTwin(g[n], n)
      BY <2>1, <2>2, DedupedFacts
    <2>4. ASSUME NEW m \in 1..n PROVE HasTwin(g[n], m)
      <3>1. CASE m = n
        BY <2>3, <3>1
      <3>2. CASE m # n
        <4>1. HasTwin(g[n - 1], m)
          <5>1. m \in 1..(n - 1)
            BY <3>2
          <5> HIDE DEF HasTwin
          <5>2. QED
            BY <1>4, <5>1
        <4>2. PICK i \in DOMAIN g[n - 1] :
                Twins(g[n - 1][i], cs[m]) /\ DOMAIN cs[m].attrs \subseteq DOMAIN g[n - 1][i].attrs
          BY <4>1
        <4>3. /\ i \in DOMAIN g[n] /\ SameSaying(g[n][i], g[n - 1][i])
              /\ DOMAIN g[n - 1][i].attrs \subseteq DOMAIN g[n][i].attrs
          BY <2>3 DEF Keeps
        <4>4. Twins(g[n][i], cs[m])
          BY <4>2, <4>3 DEF Twins, SameSaying, SameTopic
        <4>5. QED
          BY <4>2, <4>3, <4>4
      <3>3. QED
        BY <3>1, <3>2
    <2> HIDE DEF HasTwin
    <2>5. QED
      BY <1>2, <2>4
  <1>5. L \in P
    <2> HIDE DEF P
    <2>1. 0..L \subseteq P
      BY <1>2, <1>3, <1>4, CountsUp
    <2>2. QED
      BY <1>2, <2>1
  <1>6. dedupe(cs) \in Seq(Candidate)
    BY <1>1, <1>2
  <1>7. ASSUME NEW S, AllTold(cs, S) PROVE AllTold(dedupe(cs), S)
    <2> DEFINE Q == {n \in 0..L : AllTold(g[n], S)}
    <2>1. 0 \in Q
      BY <1>1, <1>2 DEF AllTold
    <2>2. ASSUME NEW n \in 1..L, n - 1 \in Q PROVE n \in Q
      <3>1. g[n - 1] \in Seq(Candidate) /\ cs[n] \in Candidate /\ n \in DOMAIN cs
        BY <1>2
      <3>2. Told(cs[n], S)
        BY <1>7, <3>1, Zenon DEF AllTold
      <3>3. g[n] = Deduped(g[n - 1], cs[n]) /\ n \in 0..L
        BY <1>1, <1>2
      <3>4. AllTold(g[n - 1], S)
        BY <2>2, Zenon
      <3>5. AllTold(Deduped(g[n - 1], cs[n]), S)
        BY <3>1, <3>2, <3>4, DedupedFacts, Zenon
      <3>6. QED
        BY <3>3, <3>5, Zenon
    <2> HIDE DEF Q
    <2>3. 0..L \subseteq Q
      BY <1>2, <2>1, <2>2, CountsUp
    <2>4. L \in Q
      BY <1>2, <2>3
    <2>5. QED
      BY <1>1, <2>4 DEF Q
  <1>8. QED
    BY <1>1, <1>2, <1>5, <1>6, <1>7

\* Nor are the statements merged before, nor the specifics of a detail.
LEMMA DetailKeeps ==
    ASSUME NEW merged \in Seq(Candidate), NEW cs \in Seq(Candidate)
    PROVE  LET r == FoldLeft(FoldDetail, merged, cs)
           IN  /\ r \in Seq(Candidate) /\ Keeps(r, merged)
               /\ \A m \in DOMAIN cs : \E i \in DOMAIN r :
                     SameTopic(r[i], cs[m]) /\ DOMAIN cs[m].attrs \subseteq DOMAIN r[i].attrs
               /\ \A S : AllTold(merged, S) /\ AllTold(cs, S) => AllTold(r, S)
  <1> DEFINE L == Len(cs)
             Carried(out, m) == \E i \in DOMAIN out : /\ SameTopic(out[i], cs[m])
                                                      /\ DOMAIN cs[m].attrs \subseteq DOMAIN out[i].attrs
  <1>1. PICK g \in [0..L -> Seq(Candidate)] :
          /\ g[0] = merged
          /\ \A n \in 1..L : g[n] = FoldDetail(g[n - 1], cs[n])
          /\ FoldLeft(FoldDetail, merged, cs) = g[L]
    BY DetailFolds
  <1>2. L \in Nat /\ DOMAIN cs = 1..L /\ \A n \in 1..L : cs[n] \in Candidate
    OBVIOUS
  <1> HIDE DEF L
  <1> DEFINE P == {n \in 0..L : Keeps(g[n], merged) /\ \A m \in 1..n : Carried(g[n], m)}
  <1>3. 0 \in P
    BY <1>1, <1>2 DEF Keeps, SameSaying, SameTopic
  <1>4. ASSUME NEW n \in 1..L, n - 1 \in P PROVE n \in P
    <2>1. g[n - 1] \in Seq(Candidate) /\ g[n] \in Seq(Candidate) /\ cs[n] \in Candidate
      BY <1>2
    <2>2. g[n] = FoldDetail(g[n - 1], cs[n])
      BY <1>1
    <2>3. Keeps(g[n], g[n - 1]) /\ Carried(g[n], n)
      BY <2>1, <2>2, FoldDetailFacts
    <2>4. ASSUME NEW m \in 1..n PROVE Carried(g[n], m)
      <3>1. CASE m = n
        BY <2>3, <3>1
      <3>2. CASE m # n
        <4>1. Carried(g[n - 1], m)
          <5>1. m \in 1..(n - 1)
            BY <3>2
          <5> HIDE DEF Carried
          <5>2. QED
            BY <1>4, <5>1
        <4>2. PICK i \in DOMAIN g[n - 1] :
                SameTopic(g[n - 1][i], cs[m]) /\ DOMAIN cs[m].attrs \subseteq DOMAIN g[n - 1][i].attrs
          BY <4>1
        <4>3. /\ i \in DOMAIN g[n] /\ SameSaying(g[n][i], g[n - 1][i])
              /\ DOMAIN g[n - 1][i].attrs \subseteq DOMAIN g[n][i].attrs
          BY <2>3 DEF Keeps
        <4>4. SameTopic(g[n][i], cs[m])
          BY <4>2, <4>3 DEF SameSaying, SameTopic
        <4>5. QED
          BY <4>2, <4>3, <4>4
      <3>3. QED
        BY <3>1, <3>2
    <2>5. Keeps(g[n], merged)
      <3>1. Keeps(g[n - 1], merged)
        BY <1>4
      <3>2. QED
        BY <2>1, <2>3, <3>1, KeepsOn
    <2> HIDE DEF Carried
    <2>6. QED
      BY <1>2, <2>4, <2>5
  <1>5. L \in P
    <2> HIDE DEF P
    <2>1. 0..L \subseteq P
      BY <1>2, <1>3, <1>4, CountsUp
    <2>2. QED
      BY <1>2, <2>1
  <1>6. g[L] \in Seq(Candidate)
    BY <1>2
  <1>7. ASSUME NEW S, AllTold(merged, S), AllTold(cs, S) PROVE AllTold(g[L], S)
    <2> DEFINE Q == {n \in 0..L : AllTold(g[n], S)}
    <2>1. 0 \in Q
      BY <1>1, <1>2, <1>7
    <2>2. ASSUME NEW n \in 1..L, n - 1 \in Q PROVE n \in Q
      <3>1. g[n - 1] \in Seq(Candidate) /\ cs[n] \in Candidate /\ n \in DOMAIN cs
        BY <1>2
      <3>2. Told(cs[n], S)
        BY <1>7, <3>1, Zenon DEF AllTold
      <3>3. g[n] = FoldDetail(g[n - 1], cs[n]) /\ n \in 0..L
        BY <1>1, <1>2
      <3>4. AllTold(g[n - 1], S)
        BY <2>2, Zenon
      <3>5. AllTold(FoldDetail(g[n - 1], cs[n]), S)
        BY <3>1, <3>2, <3>4, FoldDetailFacts, Zenon
      <3>6. QED
        BY <3>3, <3>5, Zenon
    <2> HIDE DEF Q
    <2>3. 0..L \subseteq Q
      BY <1>2, <2>1, <2>2, CountsUp
    <2>4. L \in Q
      BY <1>2, <2>3
    <2>5. QED
      BY <2>4 DEF Q
  <1>8. QED
    BY <1>1, <1>2, <1>5, <1>6, <1>7

-----------------------------------------------------------------------------
(* The order of the claims. *)

LEMMA KindRankFacts ==
    ASSUME NEW c \in Candidate
    PROVE  KindRank(c) \in Nat /\ c.kind = Kinds[KindRank(c)]
  <1>1. c.kind \in Kind
    BY CandidateFacts
  <1>2. \E n \in DOMAIN Kinds : Kinds[n] = c.kind
    BY <1>1 DEF Kind, ToSet
  <1>3. DOMAIN Kinds = 1..5
    BY DEF Kinds
  <1> HIDE DEF Kinds
  <1>4. KindRank(c) \in DOMAIN Kinds /\ Kinds[KindRank(c)] = c.kind
    BY <1>2 DEF KindRank
  <1>5. QED
    BY <1>3, <1>4

\* Less orders keys.
LEMMA LessIsStrict ==
    ASSUME NEW a \in Candidate, NEW b \in Candidate, NEW c \in Candidate
    PROVE  /\ Less(a, b) => ~Less(b, a)
           /\ Less(a, b) /\ Less(b, c) => Less(a, c)
  <1>1. /\ KindRank(a) \in Nat /\ KindRank(b) \in Nat /\ KindRank(c) \in Nat
        /\ a.kind = Kinds[KindRank(a)] /\ b.kind = Kinds[KindRank(b)] /\ c.kind = Kinds[KindRank(c)]
        /\ a.kind = b.kind => KindRank(a) = KindRank(b)
        /\ c.kind = b.kind => KindRank(c) = KindRank(b)
    BY KindRankFacts DEF KindRank
  <1>2. a.topic \in Nat /\ b.topic \in Nat /\ c.topic \in Nat
    BY CandidateFacts
  <1> HIDE DEF KindRank, Kinds
  <1>3. QED
    BY <1>1, <1>2 DEF Less

InOrder(s) == \A i, j \in DOMAIN s : i < j => ~Less(s[j], s[i])

\* Inserted at a position, as positions see it.
LEMMA InsertedFacts ==
    ASSUME NEW out \in Seq(Candidate), NEW c \in Candidate, NEW i \in 1..Len(out)
    PROVE  /\ InsertAt(out, i, c) \in Seq(Candidate)
           /\ Len(InsertAt(out, i, c)) = Len(out) + 1
           /\ \A k \in 1..(Len(out) + 1) :
                 InsertAt(out, i, c)[k] = IF k < i THEN out[k] ELSE IF k = i THEN c ELSE out[k - 1]
  <1> DEFINE L == Len(out)
             a == SubSeq(out, 1, i - 1)
             b == <<c>>
             d == SubSeq(out, i, L)
  <1>1. L \in Nat /\ DOMAIN out = 1..L /\ \A k \in 1..L : out[k] \in Candidate
    OBVIOUS
  <1>2. /\ a \in Seq(Candidate) /\ Len(a) = i - 1 /\ \A k \in 1..(i - 1) : a[k] = out[k]
    BY SubSeqProperties
  <1>3. /\ d \in Seq(Candidate) /\ Len(d) = L - i + 1
        /\ \A k \in 1..(L - i + 1) : d[k] = out[i + k - 1]
    BY SubSeqProperties
  <1>4. b \in Seq(Candidate) /\ Len(b) = 1 /\ b[1] = c
    OBVIOUS
  <1>5. InsertAt(out, i, c) = (a \o b) \o d
    BY DEF InsertAt
  <1> HIDE DEF a, b, d
  <1> DEFINE e == a \o b
  <1>6. /\ e \in Seq(Candidate) /\ Len(e) = Len(a) + Len(b)
         /\ \A k \in 1..(Len(a) + Len(b)) : e[k] = IF k <= Len(a) THEN a[k] ELSE b[k - Len(a)]
    BY <1>2, <1>4, ConcatProperties
  <1> HIDE DEF e
  <1>7. /\ e \in Seq(Candidate) /\ Len(e) = i
        /\ \A k \in 1..i : e[k] = IF k < i THEN out[k] ELSE c
    <2>1. Len(e) = i
      BY <1>2, <1>4, <1>6
    <2>2. \A k \in 1..i : k < i => k \in 1..(i - 1) /\ e[k] = a[k]
      BY <1>2, <1>4, <1>6
    <2>3. e[i] = b[1]
      BY <1>2, <1>4, <1>6
    <2>4. QED
      BY <1>2, <1>4, <1>6, <2>1, <2>2, <2>3
  <1> DEFINE r == e \o d
  <1>8. /\ r \in Seq(Candidate) /\ Len(r) = i + (L - i + 1)
        /\ \A k \in 1..(i + (L - i + 1)) : r[k] = IF k <= i THEN e[k] ELSE d[k - i]
    <2>1. /\ r \in Seq(Candidate) /\ Len(r) = Len(e) + Len(d)
          /\ \A k \in 1..(Len(e) + Len(d)) : r[k] = IF k <= Len(e) THEN e[k] ELSE d[k - Len(e)]
      BY <1>3, <1>7, ConcatProperties
    <2> HIDE DEF r
    <2>2. QED
      BY <1>3, <1>7, <2>1
  <1>9. i + (L - i + 1) = L + 1
    BY <1>1
  <1> HIDE DEF r
  <1>10. ASSUME NEW k \in 1..(L + 1)
        PROVE  r[k] = IF k < i THEN out[k] ELSE IF k = i THEN c ELSE out[k - 1]
    <2>1. CASE k <= i
      <3>1. k \in 1..i
        BY <1>1, <2>1
      <3>2. QED
        BY <1>7, <1>8, <1>9, <2>1, <3>1
    <2>2. CASE ~(k <= i)
      <3>1. k - i \in 1..(L - i + 1) /\ i + (k - i) - 1 = k - 1
        BY <1>1, <2>2
      <3>2. d[k - i] = out[i + (k - i) - 1]
        BY <1>3, <3>1
      <3>3. r[k] = d[k - i]
        BY <1>1, <1>8, <1>9, <2>2
      <3>4. ~(k < i) /\ k # i
        BY <1>1, <2>2
      <3>5. QED
        BY <3>1, <3>2, <3>3, <3>4
    <2>3. QED
      BY <2>1, <2>2
  <1>11. QED
    BY <1>5, <1>8, <1>9, <1>10 DEF r, e

LEMMA PlacedFacts ==
    ASSUME NEW out \in Seq(Candidate), NEW c \in Candidate
    PROVE  /\ Placed(out, c) \in Seq(Candidate)
           /\ InOrder(out) => InOrder(Placed(out, c))
           /\ ToSet(Placed(out, c)) = ToSet(out) \cup {c}
  <1> DEFINE L == Len(out)
             I == {i \in 1..L : Less(c, out[i])}
             next == IF I # {} THEN Min(I) ELSE 0
             r == Placed(out, c)
  <1>1. next = SelectInSeq(out, LAMBDA o : Less(c, o))
    BY DEF SelectInSeq
  <1>2. /\ next = 0 => I = {}
        /\ next # 0 => next \in I /\ \A n \in I : next <= n
    <2>1. I \subseteq Nat \ {0}
      OBVIOUS
    <2> HIDE DEF I
    <2>2. QED
      BY <2>1, FirstOf
  <1>3. r = IF next = 0 THEN Append(out, c) ELSE InsertAt(out, next, c)
    BY <1>1 DEF Placed
  <1>4. L \in Nat /\ DOMAIN out = 1..L /\ \A k \in 1..L : out[k] \in Candidate
    OBVIOUS
  <1> HIDE DEF next, r
  <1>5. CASE next = 0
    <2>1. /\ r \in Seq(Candidate) /\ Len(r) = L + 1 /\ r[L + 1] = c
          /\ \A i \in 1..L : r[i] = out[i]
      BY <1>3, <1>5, AppendProperties
    <2>2. DOMAIN r = 1..(L + 1)
      BY <2>1
    <2>3. \A k \in 1..L : ~Less(c, out[k])
      BY <1>2, <1>5
    <2> HIDE DEF L
    <2>4. InOrder(out) => InOrder(r)
      BY <1>4, <2>1, <2>2, <2>3 DEF InOrder
    <2>5. ToSet(r) = ToSet(out) \cup {c}
      BY <1>4, <2>1, <2>2 DEF ToSet
    <2>6. QED
      BY <2>1, <2>4, <2>5 DEF r
  <1>6. CASE next # 0
    <2>1. next \in 1..L /\ Less(c, out[next]) /\ \A n \in 1..L : Less(c, out[n]) => next <= n
      BY <1>2, <1>6
    <2>2. /\ r \in Seq(Candidate) /\ Len(r) = L + 1
          /\ \A k \in 1..(L + 1) :
                r[k] = IF k < next THEN out[k] ELSE IF k = next THEN c ELSE out[k - 1]
      BY <1>3, <1>6, <2>1, InsertedFacts
    <2>3. DOMAIN r = 1..(L + 1)
      BY <2>2
    <2> HIDE DEF L
    <2>4. ASSUME InOrder(out) PROVE InOrder(r)
      <3>1. \A k \in 1..L : k < next => ~Less(c, out[k])
        BY <1>4, <2>1
      <3>2. ASSUME NEW k \in 1..L, next <= k PROVE ~Less(out[k], c)
        <4>1. k = next \/ ~Less(out[k], out[next])
          BY <1>4, <2>1, <2>4, <3>2 DEF InOrder
        <4>2. Less(out[k], c) => Less(out[k], out[next]) /\ ~Less(c, out[k])
          BY <1>4, <2>1, LessIsStrict
        <4>3. QED
          BY <2>1, <4>1, <4>2
      <3>3. SUFFICES ASSUME NEW i \in 1..(L + 1), NEW j \in 1..(L + 1), i < j
                     PROVE  ~Less(r[j], r[i])
        BY <2>3 DEF InOrder
      <3>4. CASE i = next
        BY <1>4, <2>1, <2>2, <3>2, <3>3, <3>4
      <3>5. CASE j = next
        BY <1>4, <2>1, <2>2, <3>1, <3>3, <3>5
      <3>6. CASE i # next /\ j # next
        <4> DEFINE a == IF i < next THEN i ELSE i - 1
                   b == IF j < next THEN j ELSE j - 1
        <4>1. a \in 1..L /\ b \in 1..L /\ a < b /\ r[i] = out[a] /\ r[j] = out[b]
          BY <1>4, <2>1, <2>2, <3>3, <3>6
        <4> HIDE DEF a, b
        <4>2. QED
          BY <1>4, <2>4, <4>1 DEF InOrder
      <3>7. QED
        BY <3>4, <3>5, <3>6
    <2>5. ToSet(r) = ToSet(out) \cup {c}
      <3>1. ASSUME NEW k \in 1..(L + 1) PROVE r[k] \in ToSet(out) \cup {c}
        <4>1. (k < next => k \in 1..L) /\ (next < k => k - 1 \in 1..L)
          BY <1>4, <2>1
        <4>2. QED
          BY <1>4, <2>1, <2>2, <4>1 DEF ToSet
      <3>2. ASSUME NEW k \in 1..L PROVE out[k] \in ToSet(r)
        <4>1. CASE k < next
          BY <1>4, <2>1, <2>2, <2>3, <4>1 DEF ToSet
        <4>2. CASE ~(k < next)
          <5>1. k + 1 \in 1..(L + 1) /\ ~(k + 1 < next) /\ k + 1 # next /\ (k + 1) - 1 = k
            BY <1>4, <2>1, <4>2
          <5>2. r[k + 1] = out[k]
            BY <2>2, <5>1
          <5>3. QED
            BY <2>3, <5>1, <5>2 DEF ToSet
        <4>3. QED
          BY <4>1, <4>2
      <3>3. c \in ToSet(r)
        <4>1. next \in 1..(L + 1) /\ r[next] = c
          BY <1>4, <2>1, <2>2
        <4>2. QED
          BY <2>3, <4>1 DEF ToSet
      <3>4. QED
        BY <1>4, <2>3, <3>1, <3>2, <3>3 DEF ToSet
    <2>6. QED
      BY <2>2, <2>4, <2>5 DEF r
  <1>7. QED
    BY <1>5, <1>6

LEMMA PlacedType ==
    ASSUME NEW out \in Seq(Candidate), NEW c \in Candidate
    PROVE  Placed(out, c) \in Seq(Candidate)
  BY PlacedFacts

LEMMA SortedFolds ==
    ASSUME NEW cs \in Seq(Candidate)
    PROVE  \E g \in [0..Len(cs) -> Seq(Candidate)] :
              /\ g[0] = <<>>
              /\ \A n \in 1..Len(cs) : g[n] = Placed(g[n - 1], cs[n])
              /\ Sorted(cs) = g[Len(cs)]
  <1> DEFINE L == Len(cs)
             S == Seq(Candidate)
             base == <<>>
             F == [p \in (1..L) \X S |-> Placed(p[2], cs[p[1]])]
             Is(f) == f = [s \in SUBSET (1..L) |->
                              IF s = {} THEN base ELSE Placed(f[s \ {Max(s)}], cs[Max(s)])]
             h == CHOOSE f : Is(f)
  <1>1. L \in Nat /\ DOMAIN cs = 1..L /\ \A n \in 1..L : cs[n] \in Candidate
    OBVIOUS
  <1>2. Sorted(cs) = h[1..L]
    BY <1>1 DEF Sorted, FoldLeft, MapThenFoldSet
  <1>3. FoldType(F, L, S)
    BY <1>1, PlacedType DEF FoldType
  <1>4. \A n \in 1..L, out \in S : F[<<n, out>>] = Placed(out, cs[n])
    OBVIOUS
  <1>5. base \in S
    OBVIOUS
  <1> HIDE DEF L, S, F, base
  <1>6. PICK f \in [SUBSET (1..L) -> S] : FoldsOver(f, L, base, F)
    BY <1>1, <1>3, <1>5, FoldHasValues
  <1>7. Is(f)
    <2>1. ASSUME NEW s \in SUBSET (1..L)
          PROVE  f[s] = IF s = {} THEN base ELSE Placed(f[s \ {Max(s)}], cs[Max(s)])
      <3>1. f[s] = IF s = {} THEN base ELSE F[<<Max(s), f[s \ {Max(s)}]>>]
        BY <1>6 DEF FoldsOver
      <3>2. s # {} => Max(s) \in 1..L /\ f[s \ {Max(s)}] \in S
        BY <1>1, MaxIsGreatest
      <3>3. QED
        BY <1>4, <3>1, <3>2
    <2>2. QED
      BY <2>1
  <1>8. Is(h)
    <2> HIDE DEF Is
    <2>1. QED
      BY <1>7
  <1> HIDE DEF h
  <1>9. Recurs(h, L, S, base, F)
    <2>1. ASSUME NEW s \in SUBSET (1..L), s # {}, h[s \ {Max(s)}] \in S
          PROVE  h[s] = F[<<Max(s), h[s \ {Max(s)}]>>]
      <3>1. h[s] = Placed(h[s \ {Max(s)}], cs[Max(s)])
        BY <1>8, <2>1
      <3>2. Max(s) \in 1..L
        BY <1>1, <2>1, MaxIsGreatest
      <3>3. QED
        BY <1>4, <2>1, <3>1, <3>2
    <2>2. QED
      BY <1>8, <2>1 DEF Recurs
  <1> HIDE DEF Is
  <1>10. PICK g : CountsOver(g, L, S, base, F) /\ h[1..L] = g[L]
    BY <1>1, <1>3, <1>5, <1>9, FoldCountsUp
  <1>11. g \in [0..L -> S] /\ g[0] = base /\ \A n \in 1..L : g[n] = F[<<n, g[n - 1]>>]
    BY <1>10 DEF CountsOver
  <1>12. \A n \in 1..L : n - 1 \in 0..L
    BY <1>1
  <1>13. \A n \in 1..L : g[n] = Placed(g[n - 1], cs[n])
    BY <1>4, <1>11, <1>12
  <1>14. QED
    BY <1>2, <1>10, <1>11, <1>13 DEF L, S, base

LEMMA SortedFacts ==
    ASSUME NEW cs \in Seq(Candidate)
    PROVE  /\ Sorted(cs) \in Seq(Candidate)
           /\ InOrder(Sorted(cs))
           /\ ToSet(Sorted(cs)) = ToSet(cs)
  <1> DEFINE L == Len(cs)
  <1>1. PICK g \in [0..L -> Seq(Candidate)] :
          /\ g[0] = <<>>
          /\ \A n \in 1..L : g[n] = Placed(g[n - 1], cs[n])
          /\ Sorted(cs) = g[L]
    BY SortedFolds
  <1>2. L \in Nat /\ DOMAIN cs = 1..L /\ \A n \in 1..L : cs[n] \in Candidate
    OBVIOUS
  <1> HIDE DEF L
  <1> DEFINE P == {n \in 0..L : InOrder(g[n]) /\ ToSet(g[n]) = {cs[m] : m \in 1..n}}
  <1>3. 0 \in P
    <2>1. DOMAIN g[0] = {} /\ 1..0 = {}
      BY <1>1
    <2>2. InOrder(g[0]) /\ ToSet(g[0]) = {cs[m] : m \in 1..0}
      BY <2>1 DEF InOrder, ToSet
    <2>3. QED
      BY <1>2, <2>2
  <1>4. ASSUME NEW n \in 1..L, n - 1 \in P PROVE n \in P
    <2>1. g[n - 1] \in Seq(Candidate) /\ cs[n] \in Candidate
      BY <1>2
    <2>2. g[n] = Placed(g[n - 1], cs[n])
      BY <1>1
    <2>3. InOrder(g[n - 1]) /\ ToSet(g[n - 1]) = {cs[m] : m \in 1..(n - 1)}
      BY <1>4
    <2>4. InOrder(g[n]) /\ ToSet(g[n]) = ToSet(g[n - 1]) \cup {cs[n]}
      BY <2>1, <2>2, <2>3, PlacedFacts
    <2>5. 1..n = (1..(n - 1)) \cup {n}
      BY <1>2
    <2>6. {cs[m] : m \in 1..n} = {cs[m] : m \in 1..(n - 1)} \cup {cs[n]}
      BY <2>5
    <2>7. n \in 0..L
      BY <1>2
    <2>8. QED
      BY <2>3, <2>4, <2>6, <2>7
  <1>5. L \in P
    <2> HIDE DEF P
    <2>1. 0..L \subseteq P
      BY <1>2, <1>3, <1>4, CountsUp
    <2>2. QED
      BY <1>2, <2>1
  <1>6. g[L] \in Seq(Candidate)
    BY <1>2
  <1>7. QED
    BY <1>1, <1>2, <1>5, <1>6 DEF ToSet

\* What comes of merging: nothing that was said is lost, and keys are in order.
LEMMA MergeFacts ==
    ASSUME NEW b \in Seq(Candidate), NEW d \in Seq(Candidate)
    PROVE  /\ Merge(b, d) \in Seq(Candidate)
           /\ InOrder(Merge(b, d))
           /\ \A c \in ToSet(b) : \E e \in ToSet(Merge(b, d)) : Twins(c, e)
           /\ \A c \in ToSet(d) : \E e \in ToSet(Merge(b, d)) :
                 SameTopic(e, c) /\ DOMAIN c.attrs \subseteq DOMAIN e.attrs
           /\ (\A c \in ToSet(b) : DOMAIN c.attrs = {}) =>
                 \A e \in ToSet(Merge(b, d)) : Told(e, ToSet(d))
  <1> DEFINE bs == dedupe(b)
             ds == dedupe(d)
             r == FoldLeft(FoldDetail, bs, ds)
  <1>1. /\ bs \in Seq(Candidate)
        /\ \A m \in DOMAIN b : \E i \in DOMAIN bs : Twins(bs[i], b[m])
        /\ \A S : AllTold(b, S) => AllTold(bs, S)
    BY DedupeKeeps
  <1>2. /\ ds \in Seq(Candidate)
        /\ \A m \in DOMAIN d : \E i \in DOMAIN ds :
              Twins(ds[i], d[m]) /\ DOMAIN d[m].attrs \subseteq DOMAIN ds[i].attrs
        /\ \A S : AllTold(d, S) => AllTold(ds, S)
    BY DedupeKeeps
  <1>3. Merge(b, d) = Sorted(r)
    BY DEF Merge
  <1> HIDE DEF bs, ds
  <1>4. /\ r \in Seq(Candidate) /\ Keeps(r, bs)
        /\ \A m \in DOMAIN ds : \E i \in DOMAIN r :
              SameTopic(r[i], ds[m]) /\ DOMAIN ds[m].attrs \subseteq DOMAIN r[i].attrs
        /\ \A S : AllTold(bs, S) /\ AllTold(ds, S) => AllTold(r, S)
    BY <1>1, <1>2, DetailKeeps
  <1> HIDE DEF r
  <1>5. Sorted(r) \in Seq(Candidate) /\ InOrder(Sorted(r)) /\ ToSet(Sorted(r)) = ToSet(r)
    BY <1>4, SortedFacts
  <1>6. ASSUME NEW c \in ToSet(b) PROVE \E e \in ToSet(r) : Twins(c, e)
    <2>1. PICK m \in DOMAIN b : c = b[m]
      BY DEF ToSet
    <2>2. PICK i \in DOMAIN bs : Twins(bs[i], b[m])
      BY <1>1
    <2>3. i \in DOMAIN r /\ SameSaying(r[i], bs[i]) /\ r[i] \in ToSet(r)
      BY <1>4 DEF Keeps, ToSet
    <2>4. c \in Candidate /\ bs[i] \in Candidate
      BY <1>1, <2>1
    <2>5. Likeness[bs[i].statement, c.statement] = Likeness[c.statement, bs[i].statement]
      BY <2>4, CandidateFacts, TextAssumption
    <2>6. Twins(c, r[i])
      BY <2>1, <2>2, <2>3, <2>5 DEF Twins, SameSaying, SameTopic
    <2>7. QED
      BY <2>3, <2>6
  <1>7. ASSUME NEW c \in ToSet(d)
        PROVE  \E e \in ToSet(r) : SameTopic(e, c) /\ DOMAIN c.attrs \subseteq DOMAIN e.attrs
    <2>1. PICK m \in DOMAIN d : c = d[m]
      BY DEF ToSet
    <2>2. PICK i \in DOMAIN ds : Twins(ds[i], d[m]) /\ DOMAIN d[m].attrs \subseteq DOMAIN ds[i].attrs
      BY <1>2
    <2>3. PICK k \in DOMAIN r : SameTopic(r[k], ds[i]) /\ DOMAIN ds[i].attrs \subseteq DOMAIN r[k].attrs
      BY <1>4
    <2>4. r[k] \in ToSet(r)
      BY DEF ToSet
    <2>5. SameTopic(r[k], c)
      BY <2>1, <2>2, <2>3 DEF Twins, SameTopic
    <2>6. QED
      BY <2>1, <2>2, <2>3, <2>4, <2>5
  <1>8. ASSUME \A c \in ToSet(b) : DOMAIN c.attrs = {}, NEW e \in ToSet(r) PROVE Told(e, ToSet(d))
    <2>1. AllTold(b, ToSet(d))
      <3>1. \A m \in DOMAIN b : DOMAIN b[m].attrs = {}
        BY <1>8 DEF ToSet
      <3>2. QED
        BY <3>1 DEF AllTold, Told
    <2>2. AllTold(d, ToSet(d))
      BY DEF AllTold, Told, ToSet, SameTopic
    <2>3. AllTold(r, ToSet(d))
      BY <1>1, <1>2, <1>4, <2>1, <2>2
    <2>4. PICK i \in DOMAIN r : e = r[i]
      BY DEF ToSet
    <2>5. QED
      BY <2>3, <2>4 DEF AllTold
  <1>9. QED
    BY <1>3, <1>5, <1>6, <1>7, <1>8

-----------------------------------------------------------------------------
(* What the verifier lets through. *)

\* The list of accepted claims, when the first n of cs are looked at.
Sound(out, cs, n) ==
    /\ \A i, j \in DOMAIN out :
          i # j /\ SameTopic(out[i], out[j]) => Likeness[out[i].statement, out[j].statement] < 70
    /\ \A i \in DOMAIN out : \E m \in 1..n : SameSaying(out[i], cs[m])
    /\ InOrder(out)

LEMMA ScreenedSound ==
    ASSUME NEW cs \in Seq(Candidate), InOrder(cs), NEW n \in 1..Len(cs),
           NEW out \in Seq(Candidate), Sound(out, cs, n - 1)
    PROVE  Sound(Screened(out, cs[n]), cs, n)
  <1> DEFINE L == Len(out)
             c == Marked(cs[n])
             r == Screened(out, cs[n])
  <1>1. /\ L \in Nat /\ DOMAIN out = 1..L /\ \A k \in 1..L : out[k] \in Candidate
        /\ cs[n] \in Candidate /\ Len(cs) \in Nat /\ DOMAIN cs = 1..Len(cs)
    OBVIOUS
  <1>2. CASE ~Verify(cs[n], out)
    <2>1. r = out
      BY <1>2 DEF Screened
    <2>2. \A m \in 1..(n - 1) : m \in 1..n
      BY <1>1
    <2>3. QED
      BY <2>1, <2>2 DEF Sound
  <1>3. CASE Verify(cs[n], out)
    <2>1. checkShape(cs[n]) /\ ~restates(cs[n], out)
      BY <1>3 DEF Verify
    <2>2. c \in Candidate /\ SameSaying(c, cs[n])
      BY <1>1, <2>1, MarkedFacts
    <2> HIDE DEF c
    <2>3. /\ r \in Seq(Candidate) /\ Len(r) = L + 1 /\ r[L + 1] = c
          /\ \A i \in 1..L : r[i] = out[i]
      BY <1>3, <2>2, AppendProperties DEF Screened, c
    <2>4. DOMAIN r = 1..(L + 1)
      BY <2>3
    <2> HIDE DEF r, L
    <2>5. ASSUME NEW i \in 1..L, SameTopic(out[i], c)
          PROVE  /\ Likeness[out[i].statement, c.statement] < 70
                 /\ Likeness[c.statement, out[i].statement] < 70
      <3>1. ~(Likeness[out[i].statement, cs[n].statement] >= 70)
        BY <1>1, <2>1, <2>2, <2>5 DEF restates, SameSaying, SameTopic
      <3>2. c.statement = cs[n].statement
        BY <2>2 DEF SameSaying
      <3>3. out[i].statement \in Statement /\ c.statement \in Statement
        BY <1>1, <2>2, CandidateFacts
      <3>4. /\ Likeness[out[i].statement, c.statement] \in 0..100
            /\ Likeness[c.statement, out[i].statement] = Likeness[out[i].statement, c.statement]
        BY <3>3, TextAssumption
      <3>5. \A percent \in 0..100 : ~(percent >= 70) => percent < 70
        OBVIOUS
      <3>6. Likeness[out[i].statement, c.statement] < 70
        BY <3>1, <3>2, <3>4, <3>5, Zenon
      <3>7. QED
        BY <3>4, <3>6, Zenon
    <2>6. ASSUME NEW i \in DOMAIN r, NEW j \in DOMAIN r, i # j, SameTopic(r[i], r[j])
          PROVE  Likeness[r[i].statement, r[j].statement] < 70
      <3>1. CASE i = L + 1
        <4>1. j \in 1..L /\ SameTopic(out[j], c)
          BY <1>1, <2>3, <2>4, <2>6, <3>1 DEF SameTopic
        <4>2. QED
          BY <2>3, <2>5, <3>1, <4>1
      <3>2. CASE j = L + 1
        <4>1. i \in 1..L /\ SameTopic(out[i], c)
          BY <1>1, <2>3, <2>4, <2>6, <3>2 DEF SameTopic
        <4>2. QED
          BY <2>3, <2>5, <3>2, <4>1
      <3>3. CASE i # L + 1 /\ j # L + 1
        <4>1. i \in 1..L /\ j \in 1..L
          BY <1>1, <2>4, <3>3
        <4>2. QED
          BY <1>1, <2>3, <2>6, <4>1 DEF Sound
      <3>4. QED
        BY <3>1, <3>2, <3>3
    <2>7. ASSUME NEW i \in DOMAIN r
          PROVE  \E m \in 1..n : SameSaying(r[i], cs[m])
      <3>1. CASE i = L + 1
        <4>1. r[i] = c
          BY <2>3, <3>1
        <4>2. n \in 1..n
          BY <1>1
        <4>3. QED
          BY <2>2, <4>1, <4>2
      <3>2. CASE i # L + 1
        <4>1. i \in 1..L /\ r[i] = out[i]
          BY <1>1, <2>3, <2>4, <3>2
        <4>2. \A m \in 1..(n - 1) : m \in 1..n
          BY <1>1
        <4>3. QED
          BY <1>1, <4>1, <4>2 DEF Sound
      <3>3. QED
        BY <3>1, <3>2
    <2>8. InOrder(r)
      <3>1. SUFFICES ASSUME NEW i \in DOMAIN r, NEW j \in DOMAIN r, i < j PROVE ~Less(r[j], r[i])
        BY DEF InOrder
      <3>2. i \in 1..L /\ r[i] = out[i]
        BY <1>1, <2>3, <2>4, <3>1
      <3>3. CASE j = L + 1
        <4>1. PICK m \in 1..(n - 1) : SameSaying(out[i], cs[m])
          BY <1>1, <3>2 DEF Sound
        <4>2. m \in DOMAIN cs /\ n \in DOMAIN cs /\ m < n
          BY <1>1
        <4>3. ~Less(cs[n], cs[m])
          BY <4>2 DEF InOrder
        <4>4. r[j] = c
          BY <2>3, <3>3
        <4>5. QED
          BY <2>2, <3>2, <4>1, <4>3, <4>4 DEF Less, KindRank, SameSaying, SameTopic
      <3>4. CASE j # L + 1
        <4>1. j \in 1..L /\ r[j] = out[j]
          BY <1>1, <2>3, <2>4, <3>4
        <4>2. QED
          BY <1>1, <3>1, <3>2, <4>1 DEF Sound, InOrder
      <3>5. QED
        BY <3>3, <3>4
    <2>9. QED
      BY <2>6, <2>7, <2>8 DEF Sound, r
  <1>4. QED
    BY <1>2, <1>3

LEMMA VerifyAllFacts ==
    ASSUME NEW cs \in Seq(Candidate), InOrder(cs)
    PROVE  /\ VerifyAll(cs) \in Seq(Candidate)
           /\ Sound(VerifyAll(cs), cs, Len(cs))
  <1> DEFINE L == Len(cs)
  <1>1. PICK g \in [0..L -> Seq(Candidate)] :
          /\ g[0] = <<>>
          /\ \A n \in 1..L : g[n] = Screened(g[n - 1], cs[n])
          /\ VerifyAll(cs) = g[L]
    BY VerifyAllFolds
  <1>2. L \in Nat
    OBVIOUS
  <1> DEFINE P == {n \in 0..L : Sound(g[n], cs, n)}
  <1>3. 0 \in P
    <2>1. DOMAIN g[0] = {}
      BY <1>1
    <2>2. Sound(g[0], cs, 0)
      BY <2>1, Zenon DEF Sound, InOrder
    <2>3. QED
      BY <1>2, <2>2
  <1>4. ASSUME NEW n \in 1..L, n - 1 \in P PROVE n \in P
    <2>1. g[n - 1] \in Seq(Candidate) /\ n \in 0..L
      BY <1>2
    <2>2. g[n] = Screened(g[n - 1], cs[n])
      BY <1>1
    <2>3. Sound(g[n - 1], cs, n - 1)
      BY <1>4
    <2>4. QED
      BY <2>1, <2>2, <2>3, ScreenedSound
  <1>5. L \in P
    <2> HIDE DEF P, L
    <2>1. 0..L \subseteq P
      BY <1>2, <1>3, <1>4, CountsUp
    <2>2. QED
      BY <1>2, <2>1
  <1>6. QED
    BY <1>1, <1>2, <1>5

-----------------------------------------------------------------------------
(* What the model's items become. *)

BroadKept(out, m) ==
    IF m.kind \in Kind THEN Append(out, ToCandidate(m, m.kind, NoAttributes, "broad")) ELSE out

DetailKept(out, d) ==
    IF DOMAIN d.attrs # {}
    THEN Append(out, ToCandidate(d, IF d.kind \in Kind THEN d.kind ELSE "fact", d.attrs, "detail"))
    ELSE out

LEMMA ToCandidateType ==
    ASSUME NEW item \in Item, NEW kind \in Kind, NEW attrs \in Attributes, NEW from \in Pass
    PROVE  ToCandidate(item, kind, attrs, from) \in Candidate
  <1> DEFINE status == kind = "task" /\ from = "broad"
             confidence == Clamped(item.confidence)
  <1>1. item.topic \in Topic /\ item.statement \in Statement /\ item.quote \in Quote
        /\ item.confidence \in 0..200
    BY DEF Item
  <1>2. confidence \in 1..100
    BY <1>1 DEF Clamped
  <1>3. status \in BOOLEAN
    OBVIOUS
  <1>4. ToCandidate(item, kind, attrs, from) =
          [kind |-> kind, topic |-> item.topic, statement |-> item.statement, attrs |-> attrs,
           confidence |-> confidence, quote |-> item.quote, pass |-> from, status |-> status]
    BY DEF ToCandidate
  <1> HIDE DEF status, confidence
  <1>5. QED
    BY <1>1, <1>2, <1>3, <1>4 DEF Candidate

LEMMA BroadKeptType ==
    ASSUME NEW out \in Seq(Candidate), NEW m \in Item
    PROVE  BroadKept(out, m) \in Seq(Candidate)
  <1>1. NoAttributes \in Attributes
    <2>1. NoAttributes \in [{} -> AttrValue]
      BY DEF NoAttributes
    <2>2. {} \in SUBSET AttrName
      OBVIOUS
    <2>3. QED
      BY <2>1, <2>2 DEF Attributes
  <1>2. "broad" \in Pass
    BY DEF Pass
  <1>3. m.kind \in Kind => ToCandidate(m, m.kind, NoAttributes, "broad") \in Candidate
    BY <1>1, <1>2, ToCandidateType
  <1>4. QED
    BY <1>3, AppendProperties DEF BroadKept

LEMMA DetailKeptType ==
    ASSUME NEW out \in Seq(Candidate), NEW d \in Item
    PROVE  DetailKept(out, d) \in Seq(Candidate)
  <1> DEFINE kind == IF d.kind \in Kind THEN d.kind ELSE "fact"
  <1>1. kind \in Kind
    <2>1. Kinds[3] = "fact" /\ 3 \in DOMAIN Kinds
      BY DEF Kinds
    <2>2. QED
      BY <2>1 DEF Kind, ToSet
  <1>2. "detail" \in Pass /\ d.attrs \in Attributes
    BY DEF Pass, Item
  <1>3. DetailKept(out, d) = IF DOMAIN d.attrs # {}
                             THEN Append(out, ToCandidate(d, kind, d.attrs, "detail")) ELSE out
    BY DEF DetailKept
  <1> HIDE DEF kind
  <1>4. ToCandidate(d, kind, d.attrs, "detail") \in Candidate
    BY <1>1, <1>2, ToCandidateType
  <1>5. QED
    BY <1>3, <1>4, AppendProperties

LEMMA BroadFolds ==
    ASSUME NEW cs \in Seq(Item)
    PROVE  \E g \in [0..Len(cs) -> Seq(Candidate)] :
              /\ g[0] = <<>>
              /\ \A n \in 1..Len(cs) : g[n] = BroadKept(g[n - 1], cs[n])
              /\ BroadCandidates(cs) = g[Len(cs)]
  <1> DEFINE L == Len(cs)
             S == Seq(Candidate)
             base == <<>>
             F == [p \in (1..L) \X S |-> BroadKept(p[2], cs[p[1]])]
             Is(f) == f = [s \in SUBSET (1..L) |->
                              IF s = {} THEN base ELSE BroadKept(f[s \ {Max(s)}], cs[Max(s)])]
             h == CHOOSE f : Is(f)
  <1>1. L \in Nat /\ DOMAIN cs = 1..L /\ \A n \in 1..L : cs[n] \in Item
    OBVIOUS
  <1>2. BroadCandidates(cs) = h[1..L]
    BY <1>1 DEF BroadCandidates, BroadKept, FoldLeft, MapThenFoldSet
  <1>3. FoldType(F, L, S)
    BY <1>1, BroadKeptType DEF FoldType
  <1>4. \A n \in 1..L, out \in S : F[<<n, out>>] = BroadKept(out, cs[n])
    OBVIOUS
  <1>5. base \in S
    OBVIOUS
  <1> HIDE DEF L, S, F, base
  <1>6. PICK f \in [SUBSET (1..L) -> S] : FoldsOver(f, L, base, F)
    BY <1>1, <1>3, <1>5, FoldHasValues
  <1>7. Is(f)
    <2>1. ASSUME NEW s \in SUBSET (1..L)
          PROVE  f[s] = IF s = {} THEN base ELSE BroadKept(f[s \ {Max(s)}], cs[Max(s)])
      <3>1. f[s] = IF s = {} THEN base ELSE F[<<Max(s), f[s \ {Max(s)}]>>]
        BY <1>6 DEF FoldsOver
      <3>2. s # {} => Max(s) \in 1..L /\ f[s \ {Max(s)}] \in S
        BY <1>1, MaxIsGreatest
      <3>3. QED
        BY <1>4, <3>1, <3>2
    <2>2. QED
      BY <2>1
  <1>8. Is(h)
    <2> HIDE DEF Is
    <2>1. QED
      BY <1>7
  <1> HIDE DEF h
  <1>9. Recurs(h, L, S, base, F)
    <2>1. ASSUME NEW s \in SUBSET (1..L), s # {}, h[s \ {Max(s)}] \in S
          PROVE  h[s] = F[<<Max(s), h[s \ {Max(s)}]>>]
      <3>1. h[s] = BroadKept(h[s \ {Max(s)}], cs[Max(s)])
        BY <1>8, <2>1
      <3>2. Max(s) \in 1..L
        BY <1>1, <2>1, MaxIsGreatest
      <3>3. QED
        BY <1>4, <2>1, <3>1, <3>2
    <2>2. QED
      BY <1>8, <2>1 DEF Recurs
  <1> HIDE DEF Is
  <1>10. PICK g : CountsOver(g, L, S, base, F) /\ h[1..L] = g[L]
    BY <1>1, <1>3, <1>5, <1>9, FoldCountsUp
  <1>11. g \in [0..L -> S] /\ g[0] = base /\ \A n \in 1..L : g[n] = F[<<n, g[n - 1]>>]
    BY <1>10 DEF CountsOver
  <1>12. \A n \in 1..L : n - 1 \in 0..L
    BY <1>1
  <1>13. \A n \in 1..L : g[n] = BroadKept(g[n - 1], cs[n])
    BY <1>4, <1>11, <1>12
  <1>14. QED
    BY <1>2, <1>10, <1>11, <1>13 DEF L, S, base

LEMMA DetailItemFolds ==
    ASSUME NEW cs \in Seq(Item)
    PROVE  \E g \in [0..Len(cs) -> Seq(Candidate)] :
              /\ g[0] = <<>>
              /\ \A n \in 1..Len(cs) : g[n] = DetailKept(g[n - 1], cs[n])
              /\ DetailCandidates(cs) = g[Len(cs)]
  <1> DEFINE L == Len(cs)
             S == Seq(Candidate)
             base == <<>>
             F == [p \in (1..L) \X S |-> DetailKept(p[2], cs[p[1]])]
             Is(f) == f = [s \in SUBSET (1..L) |->
                              IF s = {} THEN base ELSE DetailKept(f[s \ {Max(s)}], cs[Max(s)])]
             h == CHOOSE f : Is(f)
  <1>1. L \in Nat /\ DOMAIN cs = 1..L /\ \A n \in 1..L : cs[n] \in Item
    OBVIOUS
  <1>2. DetailCandidates(cs) = h[1..L]
    BY <1>1 DEF DetailCandidates, DetailKept, FoldLeft, MapThenFoldSet
  <1>3. FoldType(F, L, S)
    BY <1>1, DetailKeptType DEF FoldType
  <1>4. \A n \in 1..L, out \in S : F[<<n, out>>] = DetailKept(out, cs[n])
    OBVIOUS
  <1>5. base \in S
    OBVIOUS
  <1> HIDE DEF L, S, F, base
  <1>6. PICK f \in [SUBSET (1..L) -> S] : FoldsOver(f, L, base, F)
    BY <1>1, <1>3, <1>5, FoldHasValues
  <1>7. Is(f)
    <2>1. ASSUME NEW s \in SUBSET (1..L)
          PROVE  f[s] = IF s = {} THEN base ELSE DetailKept(f[s \ {Max(s)}], cs[Max(s)])
      <3>1. f[s] = IF s = {} THEN base ELSE F[<<Max(s), f[s \ {Max(s)}]>>]
        BY <1>6 DEF FoldsOver
      <3>2. s # {} => Max(s) \in 1..L /\ f[s \ {Max(s)}] \in S
        BY <1>1, MaxIsGreatest
      <3>3. QED
        BY <1>4, <3>1, <3>2
    <2>2. QED
      BY <2>1
  <1>8. Is(h)
    <2> HIDE DEF Is
    <2>1. QED
      BY <1>7
  <1> HIDE DEF h
  <1>9. Recurs(h, L, S, base, F)
    <2>1. ASSUME NEW s \in SUBSET (1..L), s # {}, h[s \ {Max(s)}] \in S
          PROVE  h[s] = F[<<Max(s), h[s \ {Max(s)}]>>]
      <3>1. h[s] = DetailKept(h[s \ {Max(s)}], cs[Max(s)])
        BY <1>8, <2>1
      <3>2. Max(s) \in 1..L
        BY <1>1, <2>1, MaxIsGreatest
      <3>3. QED
        BY <1>4, <2>1, <3>1, <3>2
    <2>2. QED
      BY <1>8, <2>1 DEF Recurs
  <1> HIDE DEF Is
  <1>10. PICK g : CountsOver(g, L, S, base, F) /\ h[1..L] = g[L]
    BY <1>1, <1>3, <1>5, <1>9, FoldCountsUp
  <1>11. g \in [0..L -> S] /\ g[0] = base /\ \A n \in 1..L : g[n] = F[<<n, g[n - 1]>>]
    BY <1>10 DEF CountsOver
  <1>12. \A n \in 1..L : n - 1 \in 0..L
    BY <1>1
  <1>13. \A n \in 1..L : g[n] = DetailKept(g[n - 1], cs[n])
    BY <1>4, <1>11, <1>12
  <1>14. QED
    BY <1>2, <1>10, <1>11, <1>13 DEF L, S, base

\* What the broad pass brings has no attributes.
Unspecific(s) == \A i \in DOMAIN s : DOMAIN s[i].attrs = {}

LEMMA BroadKeptUnspecific ==
    ASSUME NEW out \in Seq(Candidate), NEW m \in Item, Unspecific(out)
    PROVE  Unspecific(BroadKept(out, m))
  <1> DEFINE c == ToCandidate(m, m.kind, NoAttributes, "broad")
  <1>1. DOMAIN c.attrs = {}
    BY DEF ToCandidate, NoAttributes
  <1> HIDE DEF c
  <1>2. \A i \in DOMAIN Append(out, c) :
          \/ i \in DOMAIN out /\ Append(out, c)[i] = out[i]
          \/ Append(out, c)[i] = c
    OBVIOUS
  <1>3. Unspecific(Append(out, c))
    BY <1>1, <1>2 DEF Unspecific
  <1>4. QED
    BY <1>3 DEF BroadKept, c

LEMMA CandidatesType ==
    ASSUME NEW items \in Seq(Item)
    PROVE  /\ BroadCandidates(items) \in Seq(Candidate) /\ DetailCandidates(items) \in Seq(Candidate)
           /\ Unspecific(BroadCandidates(items))
  <1> DEFINE L == Len(items)
  <1>1. L \in Nat /\ \A n \in 1..L : items[n] \in Item
    OBVIOUS
  <1>2. PICK g \in [0..L -> Seq(Candidate)] :
          /\ g[0] = <<>>
          /\ \A n \in 1..L : g[n] = BroadKept(g[n - 1], items[n])
          /\ BroadCandidates(items) = g[L]
    BY BroadFolds
  <1> HIDE DEF L
  <1> DEFINE Q == {n \in 0..L : Unspecific(g[n])}
  <1>3. 0 \in Q
    BY <1>1, <1>2 DEF Unspecific
  <1>4. ASSUME NEW n \in 1..L, n - 1 \in Q PROVE n \in Q
    <2>1. g[n - 1] \in Seq(Candidate) /\ items[n] \in Item /\ n \in 0..L
      BY <1>1
    <2>2. g[n] = BroadKept(g[n - 1], items[n]) /\ Unspecific(g[n - 1])
      BY <1>2, <1>4
    <2>3. QED
      BY <2>1, <2>2, BroadKeptUnspecific
  <1>5. L \in Q
    <2> HIDE DEF Q
    <2>1. 0..L \subseteq Q
      BY <1>1, <1>3, <1>4, CountsUp
    <2>2. QED
      BY <1>1, <2>1
  <1>6. BroadCandidates(items) \in Seq(Candidate) /\ Unspecific(BroadCandidates(items))
    BY <1>1, <1>2, <1>5
  <1>7. DetailCandidates(items) \in Seq(Candidate)
    BY <1>1, DetailItemFolds DEF L
  <1>8. QED
    BY <1>6, <1>7

-----------------------------------------------------------------------------
(* Process. *)

LEMMA ConcatUnspecific ==
    ASSUME NEW s \in Seq(Candidate), NEW t \in Seq(Candidate), Unspecific(s), Unspecific(t)
    PROVE  s \o t \in Seq(Candidate) /\ Unspecific(s \o t)
  <1> DEFINE r == s \o t
  <1>1. /\ r \in Seq(Candidate) /\ Len(r) = Len(s) + Len(t) /\ Len(s) \in Nat /\ Len(t) \in Nat
        /\ \A i \in 1..(Len(s) + Len(t)) : r[i] = IF i <= Len(s) THEN s[i] ELSE t[i - Len(s)]
    BY ConcatProperties, LenProperties
  <1>2. DOMAIN r = 1..Len(r) /\ DOMAIN s = 1..Len(s) /\ DOMAIN t = 1..Len(t)
    BY <1>1, LenProperties
  <1> HIDE DEF r
  <1>3. \A i \in DOMAIN r : (\E j \in DOMAIN s : r[i] = s[j]) \/ (\E j \in DOMAIN t : r[i] = t[j])
    <2>1. SUFFICES ASSUME NEW i \in DOMAIN r
                   PROVE  (\E j \in DOMAIN s : r[i] = s[j]) \/ (\E j \in DOMAIN t : r[i] = t[j])
      OBVIOUS
    <2>2. CASE i <= Len(s)
      BY <1>1, <1>2, <2>2
    <2>3. CASE ~(i <= Len(s))
      <3>1. i - Len(s) \in DOMAIN t
        BY <1>1, <1>2, <2>3
      <3>2. QED
        BY <1>1, <1>2, <2>3, <3>1
    <2>4. QED
      BY <2>2, <2>3
  <1>4. Unspecific(r)
    BY <1>3 DEF Unspecific
  <1>5. QED
    BY <1>1, <1>4 DEF r

\* Calls that have ended.
Ended == 2 * (chunk - 1) + (IF pass = "detail" THEN 1 ELSE 0)

\* Each call either adds to the candidates or to the failures; only when all have ended
\* does the verifier take over, and then not with failures only.
ExtractionInv ==
    /\ timely \in BOOLEAN
    /\ chunk \in 1..(Chunks + 1) /\ pass \in {"broad", "detail"} /\ attempt \in 1..MaxRetries
    /\ context \in {"live", "expired"}
    /\ broad \in Seq(Candidate) /\ detail \in Seq(Candidate)
    /\ Unspecific(broad)
    /\ stage \in {"extracting", "screened", "committed", "refused"}
    /\ errs \in Nat /\ errs <= Ended
    /\ chunk = Chunks + 1 => pass = "broad"
    /\ errs = Ended => broad = <<>> /\ detail = <<>>
    /\ stage # "extracting" => chunk = Chunks + 1
    /\ stage \in {"screened", "committed"} => errs = 0 \/ errs < Ended

LEMMA ExtractionInit == Init => ExtractionInv
  BY BoundAssumption DEF Init, ExtractionInv, Ended, Unspecific

LEMMA NextPassEnds ==
    ASSUME ExtractionInv, Calling, NextPass
    PROVE  /\ chunk' \in 1..(Chunks + 1) /\ pass' \in {"broad", "detail"} /\ attempt' \in 1..MaxRetries
           /\ chunk' = Chunks + 1 => pass' = "broad"
           /\ Ended' = Ended + 1 /\ Ended \in Nat
  BY BoundAssumption DEF ExtractionInv, Calling, NextPass, Ended

LEMMA ExtractionNext == ASSUME ExtractionInv, [Next]_vars PROVE ExtractionInv'
  <1>1. CASE Answered
    <2>1. broad' \in Seq(Candidate) /\ detail' \in Seq(Candidate) /\ Unspecific(broad')
      <3>1. CASE pass = "broad"
        <4>1. PICK items \in BroadAnswer : broad' = broad \o BroadCandidates(items)
          BY <1>1, <3>1 DEF Answered
        <4>2. BroadCandidates(items) \in Seq(Candidate) /\ Unspecific(BroadCandidates(items))
          BY CandidatesType, AnswerAssumption
        <4>3. broad \in Seq(Candidate) /\ Unspecific(broad) /\ detail \in Seq(Candidate) /\ detail' = detail
          BY <1>1, <3>1 DEF Answered, ExtractionInv
        <4>4. QED
          BY <4>1, <4>2, <4>3, ConcatUnspecific
      <3>2. CASE pass # "broad"
        <4>1. PICK items \in DetailAnswer : detail' = detail \o DetailCandidates(items)
          BY <1>1, <3>2 DEF Answered
        <4>2. DetailCandidates(items) \in Seq(Candidate)
          BY CandidatesType, AnswerAssumption
        <4>3. QED
          BY <1>1, <3>2, <4>1, <4>2, ConcatProperties DEF Answered, ExtractionInv
      <3>3. QED
        BY <3>1, <3>2
    <2>2. Calling /\ NextPass /\ UNCHANGED <<timely, context, errs, stage>>
      BY <1>1 DEF Answered
    <2>3. /\ chunk' \in 1..(Chunks + 1) /\ pass' \in {"broad", "detail"} /\ attempt' \in 1..MaxRetries
          /\ chunk' = Chunks + 1 => pass' = "broad"
          /\ Ended' = Ended + 1 /\ Ended \in Nat
      BY <2>2, NextPassEnds
    <2>4. errs' < Ended' /\ stage' = "extracting"
      BY <2>2, <2>3 DEF ExtractionInv, Calling
    <2>5. QED
      BY <2>1, <2>2, <2>3, <2>4 DEF ExtractionInv
  <1>2. ASSUME Calling, PassFails PROVE ExtractionInv'
    <2>1. NextPass /\ UNCHANGED <<timely, context, broad, detail, stage>> /\ errs' = errs + 1
      BY <1>2 DEF PassFails
    <2>2. /\ chunk' \in 1..(Chunks + 1) /\ pass' \in {"broad", "detail"} /\ attempt' \in 1..MaxRetries
          /\ chunk' = Chunks + 1 => pass' = "broad"
          /\ Ended' = Ended + 1 /\ Ended \in Nat
      BY <1>2, <2>1, NextPassEnds
    <2>3. /\ errs' \in Nat /\ errs' <= Ended' /\ stage' = "extracting"
          /\ errs' = Ended' => errs = Ended
      BY <1>2, <2>1, <2>2 DEF ExtractionInv, Calling
    <2>4. QED
      BY <2>1, <2>2, <2>3 DEF ExtractionInv
  <1>3. CASE Malformed
    BY <1>2, <1>3 DEF Malformed
  <1>4. CASE Unavailable
    BY <1>2, <1>4 DEF Unavailable
  <1>5. CASE Retry
    BY <1>5, BoundAssumption DEF Retry, Calling, ExtractionInv, Ended
  <1>6. CASE Screen
    <2>1. /\ stage = "extracting" /\ chunk > Chunks
          /\ stage' = IF broad \o detail = <<>> /\ errs > 0 THEN "refused" ELSE "screened"
          /\ UNCHANGED <<timely, chunk, pass, attempt, context, broad, detail, errs>>
      BY <1>6 DEF Screen
    <2>2. chunk' = Chunks + 1
      BY <2>1, BoundAssumption DEF ExtractionInv
    <2>3. broad = <<>> /\ detail = <<>> => broad \o detail = <<>>
      OBVIOUS
    <2>4. errs = 0 \/ errs < Ended \/ stage' = "refused"
      <3>1. errs \in Nat /\ errs <= Ended /\ Ended \in Int
        BY BoundAssumption DEF ExtractionInv, Ended
      <3>2. errs = Ended => broad \o detail = <<>>
        BY <2>3 DEF ExtractionInv
      <3>3. QED
        BY <2>1, <3>1, <3>2
    <2>5. Ended' = Ended
      BY <2>1 DEF Ended
    <2>6. QED
      BY <2>1, <2>2, <2>4, <2>5 DEF ExtractionInv
  <1>7. CASE CommitEpisode
    BY <1>7 DEF CommitEpisode, ExtractionInv, Ended
  <1>8. CASE CommitFails
    BY <1>8 DEF CommitFails, ExtractionInv, Ended
  <1>9. CASE Expire
    BY <1>9 DEF Expire, ExtractionInv, Ended
  <1>10. CASE UNCHANGED vars
    BY <1>10 DEF vars, ExtractionInv, Ended
  <1>11. QED
    BY <1>1, <1>3, <1>4, <1>5, <1>6, <1>7, <1>8, <1>9, <1>10 DEF Next, Step

LEMMA ExtractionInvHolds == Spec => []ExtractionInv
  BY ExtractionInit, ExtractionNext, PTL DEF Spec

\* The claims of any two lists of candidates.
LEMMA AcceptedFacts ==
    ASSUME ExtractionInv
    PROVE  /\ Merged \in Seq(Candidate) /\ InOrder(Merged)
           /\ Accepted \in Seq(Candidate)
           /\ Sound(Accepted, Merged, Len(Merged))
  <1>1. Merged \in Seq(Candidate) /\ InOrder(Merged)
    BY MergeFacts DEF ExtractionInv, Merged
  <1>2. QED
    BY <1>1, VerifyAllFacts DEF Accepted

\* Whatever the model answers, the candidates and the claims are well-formed, each with a
\* confidence of its own (TypeOK).
THEOREM ExtractionTypeCorrect == Spec => []TypeOK
  <1>1. ASSUME ExtractionInv PROVE TypeOK
    <2>1. Accepted \in Seq(Candidate)
      BY <1>1, AcceptedFacts
    <2>2. pass \in Pass \ {"merged"}
      BY <1>1 DEF ExtractionInv, Pass
    <2>3. errs \in 0..(2 * Chunks)
      BY <1>1, BoundAssumption DEF ExtractionInv, Ended
    <2>4. QED
      BY <1>1, <2>1, <2>2, <2>3 DEF TypeOK, ExtractionInv
  <1>2. QED
    BY <1>1, ExtractionInvHolds, PTL

\* No two claims of one key an episode commits restate each other, whatever the chunks and
\* the passes repeated (AcceptedAreDistinct).
THEOREM ClaimsAreDistinct == Spec => []AcceptedAreDistinct
  <1>1. ExtractionInv => AcceptedAreDistinct
    BY AcceptedFacts DEF Sound, AcceptedAreDistinct
  <1>2. QED
    BY <1>1, ExtractionInvHolds, PTL

\* The claims of every episode come in one order of their keys (InLockOrder), the order in
\* which Commit takes its locks.
THEOREM ClaimsAreInOrder == Spec => []InLockOrder
  <1>1. ASSUME ExtractionInv PROVE InLockOrder
    <2>1. SUFFICES ASSUME NEW m \in DOMAIN Accepted, NEW n \in DOMAIN Accepted, m < n
                   PROVE  /\ KindRank(Accepted[m]) <= KindRank(Accepted[n])
                          /\ Accepted[m].kind = Accepted[n].kind =>
                                Accepted[m].topic <= Accepted[n].topic
      BY DEF InLockOrder
    <2>2. ~Less(Accepted[n], Accepted[m])
      BY <1>1, <2>1, AcceptedFacts DEF Sound, InOrder
    <2>3. Accepted[m] \in Candidate /\ Accepted[n] \in Candidate
      BY <1>1, AcceptedFacts
    <2> DEFINE a == Accepted[m]
               b == Accepted[n]
    <2> HIDE DEF a, b
    <2>4. /\ KindRank(a) \in Nat /\ KindRank(b) \in Nat /\ a.topic \in Nat /\ b.topic \in Nat
          /\ ~(KindRank(b) < KindRank(a)) /\ ~(b.kind = a.kind /\ b.topic < a.topic)
      BY <2>2, <2>3, KindRankFacts, CandidateFacts DEF Less, a, b
    <2>5. KindRank(a) <= KindRank(b) /\ (a.kind = b.kind => a.topic <= b.topic)
      BY <2>4
    <2>6. QED
      BY <2>5 DEF a, b
  <1>2. QED
    BY <1>1, ExtractionInvHolds, PTL

\* Merging loses no statement of the broad pass and no name of an attribute, and makes up
\* no value, for any number of chunks and candidates (MergeKeepsWhatWasSaid).
THEOREM NothingSaidIsLost == Spec => []MergeKeepsWhatWasSaid
  <1>1. ASSUME ExtractionInv PROVE MergeKeepsWhatWasSaid
    <2>1. broad \in Seq(Candidate) /\ detail \in Seq(Candidate)
      BY <1>1 DEF ExtractionInv
    <2>2. \A c \in ToSet(broad) : DOMAIN c.attrs = {}
      BY <1>1 DEF ExtractionInv, Unspecific, ToSet
    <2>3. /\ \A b \in ToSet(broad) : \E c \in ToSet(Merge(broad, detail)) : Twins(b, c)
          /\ \A d \in ToSet(detail) : \E c \in ToSet(Merge(broad, detail)) :
                SameTopic(c, d) /\ DOMAIN d.attrs \subseteq DOMAIN c.attrs
      BY <2>1, MergeFacts
    <2>4. \A c \in ToSet(Merge(broad, detail)) : Told(c, ToSet(detail))
      BY <2>1, <2>2, MergeFacts, Zenon
    <2>5. QED
      BY <2>3, <2>4, Zenon DEF MergeKeepsWhatWasSaid, Merged, Told
  <1>2. QED
    BY <1>1, ExtractionInvHolds, PTL

\* An episode all of whose calls failed is never marked processed (AllFailedIsRetried).
THEOREM OutageIsRetried == Spec => []AllFailedIsRetried
  <1>1. ExtractionInv => AllFailedIsRetried
    BY BoundAssumption DEF ExtractionInv, Ended, AllFailedIsRetried
  <1>2. QED
    BY <1>1, ExtractionInvHolds, PTL

=============================================================================
