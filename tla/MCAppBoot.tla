----------------------------- MODULE MCAppBoot ------------------------------
(* Two entries, one below the other and running on its service, and the    *)
(* manifests that disable, replace, move, remove and misdeclare them.      *)
EXTENDS AppBoot

CONSTANTS a, b, r1, r2, c1, c2

E(id, parent, revision, enabled, context) ==
  [id |-> id, parent |-> parent, revision |-> revision, enabled |-> enabled,
   context |-> context]

MCIds == {a, b}
MCNeeds == [id \in MCIds |-> IF id = b THEN {a} ELSE {}]

MCManifests ==
  { <<E(a, Root, r1, TRUE, c1), E(b, a, r1, TRUE, c1)>>,     \* both
    <<E(a, Root, r2, FALSE, c1), E(b, a, r1, TRUE, c1)>>,    \* the parent disabled
    <<E(a, Root, r2, TRUE, c1), E(b, a, r2, TRUE, c1)>>,     \* both replaced
    <<E(a, Root, r2, TRUE, c1), E(b, a, r1, TRUE, c1)>>,     \* the provider replaced
    <<E(b, Root, r1, TRUE, c2)>>,                            \* the child alone, moved
    <<>>,                                                    \* dispose()
    <<E(a, b, r1, TRUE, c1), E(b, a, r1, TRUE, c1)>> }       \* a cycle
=============================================================================
