----------------------------- MODULE DecayProofs -----------------------------
(***************************************************************************)
(* Proofs about Decay, for any kinds, half-lives, replicas and bounds.     *)
(***************************************************************************)
EXTENDS Decay, TLAPS

\* What was decided from a scan agrees with itself, as the row does.
PendingAgrees ==
    \A r \in Replica :
        pending[r] # None =>
            (pending[r].archive <=> pending[r].salience < Floor /\ kind \notin Exempt)

Inv == TypeOK /\ ArchivedIsFaded /\ PendingAgrees

LEMMA FractionIsLess ==
    ASSUME NEW a \in Nat, NEW b \in Nat, NEW c \in Nat \ {0}, b <= c
    PROVE  (a * b) \div c \in 0..a
<1> DEFINE q == (a * b) \div c
<1>1. a * b \in Nat /\ a * b <= a * c
  OBVIOUS
<1>2. q \in Int /\ c * q <= a * b /\ a * b < c * (q + 1)
  OBVIOUS
<1> HIDE DEF q
<1>3. q >= 0
  <2> SUFFICES ASSUME q + 1 <= 0 PROVE FALSE
    BY <1>2
  <2>1. c * (q + 1) <= 0
    BY <1>2
  <2> QED
    BY <2>1, <1>1, <1>2
<1>4. q <= a
  <2> SUFFICES ASSUME q >= a + 1 PROVE FALSE
    BY <1>2
  <2>1. c * q >= c * (a + 1)
    BY <1>2
  <2>2. c * (a + 1) = c * a + c /\ c * a = a * c
    OBVIOUS
  <2> QED
    BY <2>1, <2>2, <1>1, <1>2
<1> QED
  BY <1>2, <1>3, <1>4 DEF q

LEMMA DecayedIsSalience ==
    ASSUME TypeOK, Elapsed > 0
    PROVE  Decayed \in 0..MaxSalience
<1>1. Elapsed \in Time
  BY TimeAssumption DEF TypeOK, Elapsed, Time
<1>2. Remains[kind][Elapsed] \in 0..One
  BY <1>1, RemainsAssumption DEF TypeOK
<1>3. salience \in 0..MaxSalience
  BY DEF TypeOK
<1> HIDE DEF Elapsed
<1>4. Decayed \in 0..salience
  <2> DEFINE b == Remains[kind][Elapsed]
  <2>1. b \in Nat /\ b <= One /\ One \in Nat \ {0} /\ salience \in Nat
    BY <1>2, <1>3, SalienceAssumption
  <2> HIDE DEF b
  <2>2. (salience * b) \div One \in 0..salience
    BY <2>1, FractionIsLess
  <2> QED
    BY <2>2 DEF Decayed, b
<1> QED
  BY <1>3, <1>4, SalienceAssumption

LEMMA InvInit == Init => Inv
<1> SUFFICES ASSUME Init PROVE Inv
  OBVIOUS
<1>1. TypeOK
  <2>1. salience \in 0..MaxSalience /\ reinforced \in 0..MaxSeen
    BY SalienceAssumption, TimeAssumption DEF Init
  <2>2. archived \in BOOLEAN /\ open \in BOOLEAN
    BY DEF Init
  <2>3. pending \in [Replica -> Update \cup {None}]
    BY DEF Init
  <2> QED
    BY <2>1, <2>2, <2>3 DEF Init, TypeOK
<1>2. ~archived /\ ~(salience < Floor)
  BY SalienceAssumption DEF Init
<1>3. PendingAgrees
  BY DEF Init, PendingAgrees
<1> QED
  BY <1>1, <1>2, <1>3 DEF Inv, ArchivedIsFaded

LEMMA InvNext == Inv /\ [Next]_vars => Inv'
<1> SUFFICES ASSUME Inv, [Next]_vars PROVE Inv'
  OBVIOUS
<1> USE SalienceAssumption, TimeAssumption DEF Inv, TypeOK, ArchivedIsFaded, PendingAgrees
<1>1. CASE Tick
  BY <1>1 DEF Tick, row, Time
<1>2. ASSUME NEW r \in Replica, Scan(r) PROVE Inv'
  <2>1. Decayed \in 0..MaxSalience
    BY <1>2, DecayedIsSalience DEF Scan
  <2> DEFINE u == [salience |-> Decayed, archive |-> Archive(Decayed)]
  <2>2. u \in Update /\ (u.archive <=> u.salience < Floor /\ kind \notin Exempt)
    BY <2>1 DEF Archive, Update
  <2> HIDE DEF u
  <2>3. pending' = [pending EXCEPT ![r] = u] /\ UNCHANGED <<now, row, reinforced>>
    BY <1>2 DEF Scan, u
  <2> QED
    BY <2>2, <2>3 DEF row
<1>3. ASSUME NEW r \in Replica, Apply(r) PROVE Inv'
  <2>1. pending[r] \in Update /\ pending[r] # None
    BY <1>3 DEF Apply
  <2>2. salience' \in 0..MaxSalience /\ archived' \in BOOLEAN
    BY <2>1, <1>3 DEF Apply, Update
  <2>3. pending' \in [Replica -> Update \cup {None}] /\ PendingAgrees'
    BY <1>3 DEF Apply
  <2>4. ArchivedIsFaded'
    <3>1. pending[r].archive <=> pending[r].salience < Floor /\ kind \notin Exempt
      BY <2>1
    <3> QED
      BY <3>1, <1>3 DEF Apply
  <2>5. UNCHANGED <<now, kind, seen, open, reinforced>>
    BY <1>3 DEF Apply
  <2>6. TypeOK'
    <3>1. open' \in BOOLEAN /\ archived' \in BOOLEAN
      BY <2>2, <2>5
    <3> QED
      BY <3>1, <2>2, <2>3, <2>5
  <2> HIDE DEF TypeOK, ArchivedIsFaded, PendingAgrees
  <2> QED
    BY <2>3, <2>4, <2>6
<1>4. ASSUME NEW r \in Replica, Stop(r) PROVE Inv'
  BY <1>4 DEF Stop, row
<1>5. ASSUME NEW t \in 0..now, Reinforce(t) PROVE Inv'
  <2>1. Bumped \in 0..MaxSalience /\ (salience >= Floor => Bumped >= Floor)
    BY DEF Bumped
  <2>2. ~archived /\ salience' = Bumped /\ archived' = FALSE /\ UNCHANGED <<now, kind, open, pending>>
    BY <1>5 DEF Reinforce
  <2>3. ArchivedIsFaded'
    <3>1. salience >= Floor \/ kind \in Exempt
      BY <2>2
    <3>2. salience' >= Floor \/ kind' \in Exempt
      BY <3>1, <2>1, <2>2
    <3>3. ~(salience' < Floor) \/ kind' \in Exempt
      BY <3>2, <2>1, <2>2
    <3> QED
      BY <3>3, <2>2
  <2>4. PendingAgrees'
    BY <2>2
  <2>5. seen' \in 0..now' /\ reinforced' \in 0..MaxSeen
    BY <1>5, <2>2 DEF Reinforce, Time
  <2>6. open' \in BOOLEAN /\ archived' \in BOOLEAN
    BY <2>2
  <2>7. TypeOK'
    BY <2>1, <2>2, <2>5, <2>6
  <2> HIDE DEF TypeOK, ArchivedIsFaded, PendingAgrees
  <2> QED
    BY <2>3, <2>4, <2>7
<1>6. CASE Close
  BY <1>6 DEF Close
<1>7. CASE UNCHANGED vars
  BY <1>7 DEF vars, row
<1> QED
  BY <1>1, <1>2, <1>3, <1>4, <1>5, <1>6, <1>7 DEF Next

LEMMA InvHolds == Spec => []Inv
  BY InvInit, InvNext, PTL DEF Spec

\* Decay: the row and the pending updates keep their types.
THEOREM DecayTypeCorrect == Spec => []TypeOK
<1>1. Inv => TypeOK
  BY DEF Inv
<1> QED
  BY <1>1, InvHolds, PTL

\* ApplyDecay and reinforce: however many replicas sweep and however late their updates are
\* written, a memory is archived exactly when its stored salience is below the floor and its
\* kind may be archived.
THEOREM ArchivedMatchesFloor == Spec => []ArchivedIsFaded
<1>1. Inv => ArchivedIsFaded
  BY DEF Inv
<1> QED
  BY <1>1, InvHolds, PTL
=============================================================================
