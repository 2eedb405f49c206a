-------------------------- MODULE MCCaptureRegions --------------------------
(* Two drawings of two sheets, three places for a box.                      *)
EXTENDS CaptureRegions

MCDocs == 1..2
MCPages == 0..1
MCBoxes == 1..3
=============================================================================
