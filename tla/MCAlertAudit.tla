---------------------------- MODULE MCAlertAudit ----------------------------
\* Two keys, one session that starts at the second instant of the clock.
EXTENDS AlertAudit, TLC

CONSTANTS k1, k2, s1

KeysDef == {k1, k2}
SessionsDef == {s1}
StartedAtDef == [s \in {s1} |-> 1]
KeySymmetry == Permutations(KeysDef)
=============================================================================
