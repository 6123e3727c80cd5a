-------------------------------- MODULE Gate --------------------------------
(***************************************************************************)
(* The relevance gate (services/assembler.py, decide_gate): which tiers of *)
(* the answer a recall may fill.                                           *)
(***************************************************************************)

GateState == [tier1 : BOOLEAN, tier2 : BOOLEAN]

\* An entity or memory match opens tier 2, and tier 1 for a question about the
\* user; without one, an open-ended question opens tier 1 only and a matching
\* turn tier 2 only.
DecideGate(profile, openEnded, memorySignal, turnSignal, entityMatch) ==
    LET matched == entityMatch \/ memorySignal
    IN  [tier1 |-> IF matched THEN profile ELSE openEnded,
         tier2 |-> matched \/ (turnSignal /\ ~openEnded)]
=============================================================================
