-------------------------- MODULE MCArtifactLifecycle --------------------------
(* Instances of ArtifactLifecycle for TLC. *)
EXTENDS ArtifactLifecycle

(* Artifacts with a body that lapse some day; whether they do is left open. *)
Lapsing == {[body |-> TRUE, expiry |-> "later"]}
================================================================================
