------------------------------ MODULE MCStacks ------------------------------
(* TLC instance of Stacks: a template that exports a name, one that changes its resource
   and computes the name of the export at deployment, and one that imports it. *)
EXTENDS Stacks, TLC

CONSTANTS a, b, vpc, vpc2, app, x

MCNames == {a, b}
MCResources == {vpc, vpc2, app}
MCLogical == (vpc :> 1) @@ (vpc2 :> 1) @@ (app :> 2)
MCImports == (vpc :> {}) @@ (vpc2 :> {}) @@ (app :> {x})
MCRetained == {vpc2}
MCExporter == [defs |-> {vpc}, exports |-> {x}, spelled |-> TRUE]
MCComputed == [defs |-> {vpc2}, exports |-> {x}, spelled |-> FALSE]
MCImporter == [defs |-> {vpc2, app}, exports |-> {}, spelled |-> TRUE]
MCTemplates == {MCExporter, MCComputed, MCImporter}
MCChangeSets ==
  {[name |-> a, template |-> MCExporter, type |-> "CREATE"],
   [name |-> b, template |-> MCImporter, type |-> "UPDATE"]}
=============================================================================
