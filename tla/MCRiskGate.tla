----------------------------- MODULE MCRiskGate -----------------------------
(* Instances of RiskGate for TLC. *)
EXTENDS RiskGate, TLC

CONSTANTS w1, w2, k1, k2

\* Every message trades the one position; or every message is a spread.
MCOneKey == [m \in Msgs |-> {k1}]
MCSpread == [m \in Msgs |-> {k1, k2}]

\* Messages on positions of their own.
MCOwnKeys == [m \in Msgs |-> IF m = 1 THEN {k1} ELSE {k2}]

\* Nothing is filled yet.
MCNoKeys == [m \in Msgs |-> {}]

MCSymmetry == Permutations(Workers)
=============================================================================
