-------------------------------- MODULE MCDecay --------------------------------
(* Values for TLC: time in units of 30 days, salience in twentieths. *)
EXTENDS Decay

MCKind == {"fact", "event", "instruction", "task", "decision"}
MCExempt == {"decision", "instruction"}

\* memory.go:51-67; an instruction's 365 days are rounded down.
MCHalfLife == [decision |-> 24, instruction |-> 12, fact |-> 6, event |-> 3, task |-> 2]

\* What one unit leaves of 10000: 0.5 ^ (30 / half-life in days).
Unit == [decision |-> 9715, instruction |-> 9446, fact |-> 8909, event |-> 7937, task |-> 7071]

\* Rounded to the nearest twentieth.
MCRemains ==
    [k \in MCKind |->
        LET left[t \in Time] == IF t = 0 THEN 10000 ELSE (left[t - 1] * Unit[k]) \div 10000
        IN  [t \in Time |-> (left[t] + 250) \div 500]]
=============================================================================
