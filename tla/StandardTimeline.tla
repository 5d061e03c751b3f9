-------------------------- MODULE StandardTimeline --------------------------
(***************************************************************************)
(* What POST /standards promises to whoever asks which standard was in     *)
(* force at an instant.  A revision reads its clock, takes a while and     *)
(* then takes effect from the instant it read, in the past by then: before *)
(* that instant nothing changes, from that instant on the new standard is  *)
(* in force.  Clocks of replicas lag the fastest one by at most MaxSkew,   *)
(* and for that long after its stamp a revision may leave others in force  *)
(* beside it.                                                              *)
(***************************************************************************)
EXTENDS Integers

CONSTANTS
    Types,      \* task types
    Standards,  \* standards, or what a reader tells apart of them
    Instants,   \* the instants considered
    MaxSkew     \* how far a replica's clock may lag

VARIABLES
    clock,     \* the fastest clock
    timeline,  \* type |-> instant |-> standards in force then
    revising   \* type |-> {stamp of the revision under way}

vars == <<clock, timeline, revising>>

TypeOK ==
    /\ clock \in Instants
    /\ timeline \in [Types -> [Instants -> SUBSET Standards]]
    /\ revising \in [Types -> SUBSET Instants]

Init ==
    /\ clock \in Instants /\ \A t \in Instants : clock <= t
    /\ timeline = [type \in Types |-> [t \in Instants |-> {}]]
    /\ revising = [type \in Types |-> {}]

-----------------------------------------------------------------------------

\* Clock.Now() of some replica.
Stamps == {t \in Instants : clock - MaxSkew <= t /\ t <= clock}

Begin(type) ==
    /\ revising[type] = {}
    /\ \E t \in Stamps : revising' = [revising EXCEPT ![type] = {t}]
    /\ UNCHANGED <<clock, timeline>>

\* Instants at which a revision stamped at may leave others in force.
Ambiguous(at) == {t \in Instants : at <= t /\ t < at + MaxSkew}

\* The timeline once standard s, stamped at, is in force; kept are the others
\* that stay in force at the ambiguous instants.
Revised(line, s, at, kept) ==
    [t \in Instants |-> IF t < at THEN line[t]
                        ELSE IF t \in Ambiguous(at) THEN {s} \cup (line[t] \cap kept)
                        ELSE {s}]

Commit(type) ==
    \E at \in revising[type] : \E s \in Standards :
    \E kept \in SUBSET UNION {timeline[type][t] : t \in Ambiguous(at)} :
        /\ timeline' = [timeline EXCEPT ![type] = Revised(@, s, at, kept)]
        /\ revising' = [revising EXCEPT ![type] = {}]
        /\ UNCHANGED clock

\* Refused, failed or cut short.
Abandon(type) ==
    /\ revising[type] # {}
    /\ revising' = [revising EXCEPT ![type] = {}]
    /\ UNCHANGED <<clock, timeline>>

Tick ==
    /\ \E t \in Instants : t > clock
    /\ clock' \in {t \in Instants : t > clock /\ \A u \in Instants : u > clock => t <= u}
    /\ UNCHANGED <<timeline, revising>>

Next ==
    \/ \E type \in Types : Begin(type) \/ Commit(type) \/ Abandon(type)
    \/ Tick

Spec == Init /\ [][Next]_vars

=============================================================================
