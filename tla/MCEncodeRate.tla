---------------------------- MODULE MCEncodeRate ----------------------------
(* Finite values for EncodeRate: one Dynamic and one Fixed profile, and a  *)
(* receiver that is turned, whose envelope limits pixels per second.       *)
EXTENDS EncodeRate

MCPrefs == {[usb |-> TRUE, dynamic |-> TRUE, preset |-> "speed"],
            [usb |-> FALSE, dynamic |-> FALSE, preset |-> "balanced"]}

MCCaps == {[h264 |-> TRUE, maxWidth |-> 4, maxHeight |-> 4, rate |-> 120, pps |-> 300],
           [h264 |-> FALSE, maxWidth |-> 0, maxHeight |-> 0, rate |-> 24, pps |-> 0]}

MCHellos == {[size |-> [w |-> 4, h |-> 2], display |-> 50, caps |-> MCCaps],
             [size |-> [w |-> 2, h |-> 8], display |-> 120, caps |-> MCCaps]}

\* Enough drops to step from the ceiling of USB to its floor, and a few of
\* them among the other events.
MCBudgets == {[drops |-> 8, others |-> 0], [drops |-> 2, others |-> 1],
              [drops |-> 0, others |-> 2]}

MCRefreshes == {30, 144}
=============================================================================
