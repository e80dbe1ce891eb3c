-------------------------- MODULE MCParsecMonitors --------------------------
(* What may happen around ParsecMonitors: two senders and one kind of      *)
(* event, or one sender and several.                                       *)
EXTENDS ParsecMonitors, TLC

CONSTANTS s1, s2, edge, place

Quiet == [who |-> {s1, s2}, lands |-> {edge}, rotate |-> 0, link |-> 0, declined |-> 0, late |-> 0,
          refused |-> 0, start |-> 0, stop |-> 0, die |-> 0, standby |-> 0, drag |-> 0, layout |-> 0,
          shared |-> None]
Alone == [Quiet EXCEPT !.who = {s1}, !.lands = {edge, place}]

MCBudgets ==
    { [Quiet EXCEPT !.rotate = 1, !.late = 1],
      [Quiet EXCEPT !.standby = 1, !.link = 1],
      [Quiet EXCEPT !.die = 1, !.start = 1],
      [Alone EXCEPT !.drag = 2, !.stop = 1, !.start = 1, !.late = 1],
      [Alone EXCEPT !.drag = 1, !.layout = 1, !.rotate = 1],
      [Alone EXCEPT !.refused = 2, !.declined = 1, !.rotate = 1, !.standby = 1,
                     !.shared = place] }

MCStandby == { [Quiet EXCEPT !.standby = 1, !.link = 1] }
=============================================================================
