----------------------------- MODULE MCSelector -----------------------------
(* Selector with three management clusters: one of the static candidates    *)
(* has no base domain, one consumer has no secret at first.                  *)
EXTENDS Selector

CONSTANTS m1, m2, m3, d1

MCCandidates ==
    << [name |-> m1, domain |-> d1], [name |-> m2, domain |-> NoDomain],
       [name |-> m3, domain |-> d1] >>

MCSecrets == <<m1, m2>>

MCConsumers == <<m3, m2, m1>>

MCDomains == <<d1>>

ASSUME MCListedOnce == ListedOnce
=============================================================================
