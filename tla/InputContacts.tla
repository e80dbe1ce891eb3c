--------------------------- MODULE InputContacts ---------------------------
(***************************************************************************)
(* InputInjector: the touch and pen contacts one sender injects, and what  *)
(* Windows holds of them.  The devices live as long as the worker, so that *)
(* a contact left down at the end of a session would stay down.            *)
(***************************************************************************)
EXTENDS FiniteSets, Naturals

CONSTANTS
    Fingers,      \* contact ids the receiver uses
    MaxContacts   \* kMaxTouchContacts

ASSUME ContactsAssumption == MaxContacts \in Nat

VARIABLES
    touchDev, penDev,  \* "none", "made" or "failed"
    touches,           \* touches_
    pen,               \* penDown_, penInRange_
    held               \* what Windows holds: touch contacts, the pen

injector == <<touchDev, penDev, touches, pen, held>>

Devices == {"none", "made", "failed"}
PenStates == {"out", "hover", "contact"}
Phases == {"down", "up"}
PenEvents == {"down", "move", "up", "hover", "enter", "leave"}

InputInit ==
    /\ touchDev = "none" /\ penDev = "none"
    /\ touches = {}
    /\ pen = [down |-> FALSE, inRange |-> FALSE]
    /\ held = [touch |-> {}, pen |-> "out"]

\* A device is made on first use; one that cannot be made is not tried again.
Ensured(dev) == IF dev = "none" THEN {"made", "failed"} ELSE {dev}

\* One frame with every contact; Windows refuses more than the device has.
Flushed(frame, lifted) ==
    IF Cardinality(frame) > MaxContacts THEN held.touch ELSE frame \ lifted

HandleTouch(f, phase) ==
    /\ \E dev \in Ensured(touchDev) :
          /\ touchDev' = dev
          /\ IF dev = "failed" \/ (phase = "up" /\ f \notin touches)
             THEN UNCHANGED <<touches, held>>
             ELSE /\ touches' = IF phase = "up" THEN touches \ {f} ELSE touches \cup {f}
                  /\ held' = [held EXCEPT !.touch =
                        Flushed(touches \cup {f}, IF phase = "up" THEN {f} ELSE {})]
    /\ UNCHANGED <<penDev, pen>>

\* What the injector notes of a pen event, and what it injects last.
PenAfter(event) ==
    CASE event = "down" -> [down |-> TRUE, inRange |-> TRUE]
      [] event = "move" -> [pen EXCEPT !.inRange = TRUE]
      [] event = "up" -> [pen EXCEPT !.down = FALSE]
      [] event = "hover" -> [down |-> FALSE, inRange |-> TRUE]
      [] event = "enter" -> [pen EXCEPT !.inRange = TRUE]
      [] event = "leave" -> [down |-> pen.down /\ ~pen.inRange, inRange |-> FALSE]

Injected(event) ==
    CASE event = "down" -> "contact"
      [] event = "move" -> IF pen.down THEN "contact" ELSE "hover"
      [] event = "up" -> IF pen.down THEN "hover" ELSE held.pen
      [] event = "hover" -> "hover"
      [] event = "enter" -> IF pen.inRange THEN held.pen ELSE "hover"
      [] event = "leave" -> IF pen.inRange THEN "out" ELSE held.pen

HandlePen(event) ==
    /\ \E dev \in Ensured(penDev) :
          /\ penDev' = dev
          /\ IF dev = "failed"
             THEN UNCHANGED <<pen, held>>
             ELSE /\ pen' = PenAfter(event)
                  /\ held' = [held EXCEPT !.pen = Injected(event)]
    /\ UNCHANGED <<touchDev, touches>>

\* Every contact is lifted and the pen leaves the range it was in.
EndSession ==
    /\ touches' = {}
    /\ pen' = IF penDev = "made" THEN [down |-> FALSE, inRange |-> FALSE] ELSE pen
    /\ held' = [touch |-> IF touchDev = "made" /\ touches # {} THEN Flushed(touches, touches)
                                                             ELSE held.touch,
                pen |-> IF penDev = "made" /\ pen.inRange THEN "out"
                        ELSE IF penDev = "made" /\ pen.down THEN "hover" ELSE held.pen]
    /\ UNCHANGED <<touchDev, penDev>>

InputTypeOK ==
    /\ touchDev \in Devices /\ penDev \in Devices
    /\ touches \subseteq Fingers
    /\ pen \in [down : BOOLEAN, inRange : BOOLEAN]
    /\ held \in [touch : SUBSET Fingers, pen : PenStates]

\* While the device has room for every finger, Windows holds exactly the
\* contacts the injector would lift at the end of the session, and a pen the
\* injector has forgotten about is not down (InputInjector.cpp, the state
\* kept beside each injection).
ContactsKnown ==
    /\ held.touch = touches
    /\ held.pen # "out" => pen.inRange
    /\ held.pen = "contact" <=> pen.down
=============================================================================
