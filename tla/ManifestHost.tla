---------------------------- MODULE ManifestHost ----------------------------
(***************************************************************************)
(* What AppBoot promises its callers: manifests are settled one at a time, *)
(* in the order they were submitted, and each either becomes the committed *)
(* configuration as a whole or changes nothing of it.                      *)
(***************************************************************************)
EXTENDS Naturals, Sequences

CONSTANTS Manifests,        \* the manifests a caller may submit
          NoManifest,       \* the configuration before the first commit
          MaxManifests      \* bound: manifests submitted in one behaviour

VARIABLES submitted,        \* the manifests submitted, oldest first
          settled,          \* how many of them have been settled
          committed         \* the configuration the host describes

hvars == <<submitted, settled, committed>>

Init == submitted = <<>> /\ settled = 0 /\ committed = NoManifest

Submit(m) ==
  /\ Len(submitted) < MaxManifests
  /\ submitted' = Append(submitted, m)
  /\ UNCHANGED <<settled, committed>>

Commit ==
  /\ settled < Len(submitted)
  /\ settled' = settled + 1
  /\ committed' = submitted[settled + 1]
  /\ UNCHANGED submitted

Reject ==
  /\ settled < Len(submitted)
  /\ settled' = settled + 1
  /\ UNCHANGED <<submitted, committed>>

Next == (\E m \in Manifests : Submit(m)) \/ Commit \/ Reject

(* No manifest waits for ever behind another. *)
EverySettles ==
  \A n \in 1 .. MaxManifests : (Len(submitted) >= n) ~> (settled >= n)

Spec == Init /\ [][Next]_hvars /\ EverySettles
=============================================================================
