-------------------------- MODULE MCSessionLink --------------------------
(* Five kinds of session for SessionLink: each is about a part of what a   *)
(* receiver can say, so that each part gets its depth.                     *)
EXTENDS SessionLink

MCSessions ==
    { [about |-> {"hello", "pointer"}, budget |-> 2],
      [about |-> {"hello", "pointer", "faults"}, budget |-> 1],
      [about |-> {"ping", "faults"}, budget |-> 3],
      [about |-> {"touch", "faults"}, budget |-> 3],
      [about |-> {"pen", "usb", "faults"}, budget |-> 2] }
=============================================================================
