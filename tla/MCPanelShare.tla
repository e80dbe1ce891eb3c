---------------------------- MODULE MCPanelShare ----------------------------
(* Finite values for PanelShare: the portrait and landscape sizes of one   *)
(* panel, and one square size that turns into itself.                      *)
EXTENDS PanelShare, TLC

CONSTANTS landscape, portrait, square

MCSizes == {landscape, portrait}
MCTurn == (landscape :> portrait) @@ (portrait :> landscape)

(* A third, square size: the only kind MTT's capture can take over that is *)
(* not the hello turned.                                                   *)
MCSizes3 == MCSizes \cup {square}
MCTurn3 == MCTurn @@ (square :> square)
=============================================================================
