--------------------------- MODULE MCTemplateApply ---------------------------
(* TemplateApply alone, with the data of TemplateCLIData.                 *)
EXTENDS TemplateApply, TemplateCLIData
====
