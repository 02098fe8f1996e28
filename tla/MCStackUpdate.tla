---------------------------- MODULE MCStackUpdate ----------------------------
(* StackUpdate alone, with the data of TemplateCLIData.                   *)
EXTENDS StackUpdate, TemplateCLIData
====
