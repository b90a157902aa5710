-------------------------- MODULE MCImagePipeline --------------------------
(* Two build jobs of one distribution, two images each: one may be         *)
(* critical in one job only.                                               *)
EXTENDS ImagePipeline

MCSeverities ==
  { [j \in Job |-> [i \in Image |-> IF j = "amd64" /\ i = "nova" THEN s ELSE "clean"]] :
      s \in {"high", "critical"} }
============================================================================
