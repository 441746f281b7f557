--------------------------------- MODULE Decay ---------------------------------
(***************************************************************************)
(* Salience over time: ApplyDecay (internal/store/maintenance.go) run by   *)
(* every replica on its own timer (internal/jobs), and the reinforcements  *)
(* and closings of Commit and InvalidateByDocument that fall between a     *)
(* sweep's scan and its updates.                                           *)
(*                                                                         *)
(* One memory: a sweep decides on each row alone and writes each row in a  *)
(* transaction of its own, so rows never meet.  Salience is a whole number *)
(* of parts of One (the column is a double); what math.Pow makes of a      *)
(* half-life is the constant Remains.                                      *)
(***************************************************************************)
EXTENDS Integers, FiniteSets

CONSTANTS
    Replica,        \* replicas, each with its own ticker
    Kind,           \* the kinds of memory
    Exempt,         \* the kinds decay never archives
    HalfLife,       \* of each kind, in units of time
    Remains,        \* Remains[kind][elapsed]: what is left of One after that time
    One,            \* salience 1.0, what a memory is inserted with
    MaxSalience,    \* maxSalience
    Bump,           \* reinforcementBump
    Floor,          \* MEMORY_SALIENCE_FLOOR
    Negligible,     \* the change too small to be written
    MaxTime,        \* bound: the last instant
    MaxSeen,        \* bound: how often the memory is reinforced
    None

Time == 0..MaxTime

ASSUME SalienceAssumption ==
    /\ One \in Nat \ {0} /\ MaxSalience \in Nat /\ One <= MaxSalience
    /\ Bump \in Nat /\ Floor \in Nat /\ Negligible \in Nat
    /\ Floor <= One
ASSUME TimeAssumption == MaxTime \in Nat /\ MaxSeen \in Nat
ASSUME KindAssumption == Exempt \subseteq Kind /\ HalfLife \in [Kind -> Nat \ {0}]
ASSUME NoneAssumption == None \notin [salience : Nat, archive : BOOLEAN]

\* 0.5 ^ (elapsed / half-life): nothing is lost at once, nothing comes back, and half is
\* left after a half-life.
ASSUME RemainsAssumption ==
    /\ Remains \in [Kind -> [Time -> 0..One]]
    /\ \A kind \in Kind :
         /\ Remains[kind][0] = One
         /\ \A s, t \in Time : s <= t => Remains[kind][t] <= Remains[kind][s]
         /\ \A t \in Time : 2 * Remains[kind][t] < One - Negligible => t > HalfLife[kind]

VARIABLES
    now,            \* the clock of the replicas
    kind,           \* of the memory
    salience,
    seen,           \* last_seen_at
    archived,
    open,           \* valid_to IS NULL
    pending,        \* per replica, the update its scan decided and it has not made
    reinforced      \* how often the memory was reinforced

row == <<kind, salience, seen, archived, open>>
vars == <<now, row, pending, reinforced>>

Update == [salience : 0..MaxSalience, archive : BOOLEAN]

\* A memory just inserted by Commit or Consolidate, of an episode of whatever age.
Init ==
    /\ now \in Time
    /\ kind \in Kind
    /\ salience = One
    /\ seen \in 0..now
    /\ archived = FALSE
    /\ open = TRUE
    /\ pending = [r \in Replica |-> None]
    /\ reinforced = 0

Tick ==
    /\ now < MaxTime
    /\ now' = now + 1
    /\ UNCHANGED <<row, pending, reinforced>>

-----------------------------------------------------------------------------
(* ApplyDecay. *)

\* Mutant: lastSeen.Sub(now).
ElapsedBackwards == seen - now

Elapsed == now - seen

\* What is stored is multiplied by what would be left of it since it was last seen.
Decayed == (salience * Remains[kind][Elapsed]) \div One

\* Mutant: judged by the salience before the sweep, not by what the sweep leaves.
ArchiveByStored(decayed) == salience < Floor /\ kind \notin Exempt

Archive(decayed) == decayed < Floor /\ kind \notin Exempt

\* The scan, and the decision on the row it found.
Scan(r) ==
    /\ pending[r] = None
    /\ open /\ ~archived
    /\ Elapsed > 0
    /\ salience - Decayed >= Negligible
    /\ pending' = [pending EXCEPT ![r] = [salience |-> Decayed, archive |-> Archive(Decayed)]]
    /\ UNCHANGED <<now, row, reinforced>>

\* The UPDATE: by id alone, whatever became of the row.
Apply(r) ==
    /\ pending[r] # None
    /\ salience' = pending[r].salience
    /\ archived' = pending[r].archive
    /\ pending' = [pending EXCEPT ![r] = None]
    /\ UNCHANGED <<now, kind, seen, open, reinforced>>

\* The sweep ends before it reaches the row: an earlier UPDATE fails, the replica stops.
Stop(r) ==
    /\ pending[r] # None
    /\ pending' = [pending EXCEPT ![r] = None]
    /\ UNCHANGED <<now, row, reinforced>>

-----------------------------------------------------------------------------
(* What Commit and deletions do to the row in the meantime. *)

\* Mutant: no LEAST.
Uncapped == salience + Bump

Bumped == IF salience + Bump < MaxSalience THEN salience + Bump ELSE MaxSalience

\* An episode that occurred at t restates the memory; lockCurrent finds it only while it
\* is current.
Reinforce(t) ==
    /\ reinforced < MaxSeen
    /\ open /\ ~archived
    /\ salience' = Bumped
    /\ seen' = IF t > seen THEN t ELSE seen
    /\ archived' = FALSE
    /\ reinforced' = reinforced + 1
    /\ UNCHANGED <<now, kind, open, pending>>

\* Superseded, withdrawn or consolidated.
Close ==
    /\ open
    /\ open' = FALSE
    /\ UNCHANGED <<now, kind, salience, seen, archived, pending, reinforced>>

-----------------------------------------------------------------------------
Next ==
    \/ Tick
    \/ \E r \in Replica : Scan(r) \/ Apply(r) \/ Stop(r)
    \/ \E t \in 0..now : Reinforce(t)
    \/ Close

Spec == Init /\ [][Next]_vars

\* The tickers tick, and a replica that keeps sweeping gets to the row: strongly, since a
\* sweep may be stopped or find its row decided on by another.
Fairness ==
    \A r \in Replica : WF_vars(Scan(r)) /\ SF_vars(Apply(r))

FairSpec == Spec /\ Fairness

-----------------------------------------------------------------------------
(* Properties. *)

TypeOK ==
    /\ now \in Time
    /\ kind \in Kind
    /\ salience \in 0..MaxSalience
    /\ seen \in 0..now
    /\ archived \in BOOLEAN
    /\ open \in BOOLEAN
    /\ pending \in [Replica -> Update \cup {None}]
    /\ reinforced \in 0..MaxSeen

\* The salience column and the archived column tell the same story, although sweeps of
\* several replicas write them late and out of order between reinforcements: archived is
\* exactly what has fallen through the floor and may, so what search leaves out is cold and
\* a decision or an instruction is never left out.
ArchivedIsFaded == archived <=> salience < Floor /\ kind \notin Exempt

\* A memory that stays open and is no longer reinforced ends up archived for good, unless
\* its kind is exempt: no sweep of another replica brings it back for ever.
ColdIsArchived == <>[](open /\ seen < now) => <>[](archived \/ kind \in Exempt)

-----------------------------------------------------------------------------
(* What the repository says and the code does not keep; refuted by a run.  *)

\* README.md:173-174: "exponential decay on a per-kind half-life from the last
\* reinforcement", which leaves a memory above the floor for more than a half-life.  Every
\* sweep applies the whole time since the last reinforcement to what the sweeps before it
\* left, and an update decided before a reinforcement overwrites it.
LastsItsHalfLife == archived => Elapsed >= HalfLife[kind]
=============================================================================
