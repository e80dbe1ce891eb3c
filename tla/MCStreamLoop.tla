---------------------------- MODULE MCStreamLoop ----------------------------
(* StreamLoop as it is: its constants are numbers and flags.               *)
EXTENDS StreamLoop
=============================================================================
