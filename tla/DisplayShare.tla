---------------------------- MODULE DisplayShare ----------------------------
(***************************************************************************)
(* What the panel claim of SenderApp.cpp promises, without saying how it   *)
(* is kept: the virtual display is free, or one sender has it alone (MTT's *)
(* single head), or several senders share it (Parsec monitors of one       *)
(* size).  A sender that leaves is told whether it was the last one, which *)
(* is what decides whether the head is torn down.                          *)
(*                                                                         *)
(* PanelShare implements this module; see PanelShare!Share.                *)
(***************************************************************************)
CONSTANTS Senders     \* the SenderApp objects of one process

VARIABLES users,      \* the senders that have a share of the display
          alone,      \* TRUE while one sender has the display to itself
          last        \* last[s]: s was told that it left the display empty

vars == <<users, alone, last>>

TypeOK == /\ users \subseteq Senders
          /\ alone \in BOOLEAN
          /\ last \in [Senders -> BOOLEAN]

Init == /\ users = {}
        /\ alone = FALSE
        /\ last = [s \in Senders |-> FALSE]

(* s takes a share.  An exclusive share needs a free display, and nobody   *)
(* joins an exclusive one.                                                 *)
Take(s, exclusive) ==
    /\ s \notin users
    /\ users # {} => ~alone /\ ~exclusive
    /\ users' = users \cup {s}
    /\ alone' = exclusive
    /\ last' = [last EXCEPT ![s] = FALSE]

(* s gives its share back and learns whether the display is free now.      *)
Leave(s) ==
    /\ s \in users
    /\ users' = users \ {s}
    /\ alone' = FALSE
    /\ last' = [last EXCEPT ![s] = (users' = {})]

Next == \E s \in Senders : Leave(s) \/ \E x \in BOOLEAN : Take(s, x)

Spec == Init /\ [][Next]_vars
=============================================================================
