--------------------------- MODULE MCStagingReview ---------------------------
(* A drawing of two sheets and one of a single sheet; a field read on each  *)
(* sheet and one read once; a text that normalisation changes.              *)
EXTENDS StagingReview
CONSTANTS plan, detail, number, author, rough, neat, typed

MCSheets == <<[path |-> detail, page |-> 0], [path |-> plan, page |-> 0],
              [path |-> plan, page |-> 1]>>
MCClean  == [v \in Values |-> IF v = rough THEN neat ELSE v]
MCRead    == {[text |-> rough, flagged |-> FALSE], [text |-> neat, flagged |-> TRUE]}
MCDefault == {number}
MCTemplates == {{number}, {number, author}}
=============================================================================
