------------------------------ MODULE MCDriver ------------------------------
(* Instances of Driver: one program per way to fail, and two that compile. *)
EXTENDS Driver

MCPrograms == {"good", "other", "badname", "badcode", "crashing"}

MCFailsAt ==
  [p \in MCPrograms |->
     CASE p \in {"good", "other"} -> "none"
       [] p = "badname" -> "decorating" [] p = "badcode" -> "generating" [] p = "crashing" -> "crash"]

MCOptionSets ==
  {{}, {"run"}, {"run", "not-create-object-file"}, {"use-ir"}, {"save-ast-as-code", "view-unknown-function"}}
=============================================================================
