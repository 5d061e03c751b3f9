----------------------------- MODULE LaborDomain -----------------------------
(***************************************************************************)
(* The domain rules of labor-performance that the state machines share:    *)
(* the lenient parsing of a wire task type, the derivation of an idle gap  *)
(* and the half-open interval in which a labor standard is in force.       *)
(* An instant is a number of clock ticks; durations on the wire and in the *)
(* tables are whole seconds, so a gap is truncated when it is measured.    *)
(***************************************************************************)
EXTENDS Integers

CONSTANT TicksPerSecond      \* resolution of time.Time, seen from a second

ASSUME TicksAssumption == TicksPerSecond \in Nat \ {0}

\* The three task types that carry engineered standards, and the empty task
\* type that means "unclassified".
TaskTypes == {"PICK", "PACK", "SLAM"}

Unclassified == ""

\* A wire value this context does not model (REBIN, a typo, an absent field)
\* becomes Unclassified: a completion is never rejected for its type.
ParseTaskTypeLenient(s) == IF s \in TaskTypes THEN s ELSE Unclassified

-----------------------------------------------------------------------------

\* The default of IDLE_GAP_CAP_SECONDS, used when the configured cap is <= 0.
DefaultIdleGapCapSeconds == 3600

\* RecordTaskPerformance never passes a cap <= 0 to idleness.New.
EffectiveCap(configured) ==
    IF configured <= 0 THEN DefaultIdleGapCapSeconds ELSE configured

\* idleness.New rejects a gap that does not end strictly after it started
\* (ErrNegativeGap); the caller then records none.
GapIsPositive(startedAt, endedAt) == endedAt > startedAt

\* int64(endedAt.Sub(startedAt).Seconds()): a sub-second gap counts 0 seconds.
RawGapSeconds(startedAt, endedAt) == (endedAt - startedAt) \div TicksPerSecond

GapCapped(startedAt, endedAt, cap) ==
    cap > 0 /\ RawGapSeconds(startedAt, endedAt) > cap

\* The reported seconds of a positive gap, clipped at cap (cap <= 0: no cap).
GapSeconds(startedAt, endedAt, cap) ==
    IF GapCapped(startedAt, endedAt, cap)
    THEN cap
    ELSE RawGapSeconds(startedAt, endedAt)

-----------------------------------------------------------------------------

(***************************************************************************)
(* A standard is in force on [effectiveFrom, effectiveTo); effectiveTo is  *)
(* the set holding the closing instant, empty while the standard is open.  *)
(***************************************************************************)
IsActiveAt(standard, t) ==
    /\ standard.effectiveFrom <= t
    /\ \A closed \in standard.effectiveTo : t < closed

=============================================================================
