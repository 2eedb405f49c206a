----------------------------- MODULE MCCaptureJob -----------------------------
(* One job, of the panel or of the text tool: jobs have no channel, thread *)
(* or process in common.  Six cells are more than all channels hold.       *)
EXTENDS CaptureJob
CONSTANTS j1

MCCells == [h \in Holders |-> IF h = "panel" THEN 6 ELSE 1]
=============================================================================
