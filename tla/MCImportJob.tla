----------------------------- MODULE MCImportJob -----------------------------
(* The import of a document of three tasks: one depends on another and on  *)
(* a name the document lacks, two share a name, and two share a tag.       *)
EXTENDS ImportJob
CONSTANT j1
Jobs == {j1}
Document == <<[name |-> "A", deps |-> <<>>, tags |-> {"setup"}],
              [name |-> "B", deps |-> <<"A", "X">>, tags |-> {"setup"}],
              [name |-> "A", deps |-> <<>>, tags |-> {}]>>

(* What ImportIsComplete (WorkGraph_proofs) supposes of a document.        *)
ASSUME DocumentIsCovered == PlanCovers
=============================================================================
