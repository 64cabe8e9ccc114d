------------------------------ MODULE MCAudit ------------------------------
(* Small instances of AuditChain for TLC. *)
EXTENDS AuditChain

CONSTANTS c1, c2

\* Digests are numbers; no two chains within the bounds have the same one.
MCDigest == 0..1008
MCEventHash(d, c) == (2 * d + IF c = c1 THEN 1 ELSE 2) % 1009

=============================================================================
