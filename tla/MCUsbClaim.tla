----------------------------- MODULE MCUsbClaim -----------------------------
(* Finite values for UsbClaim: one iPad, an entry saved with its id and an *)
(* entry saved with the id it had before its app was installed anew.       *)
EXTENDS UsbClaim, TLC

CONSTANTS s1, s2, p1

OneSender == {s1}
TwoSenders == {s1, s2}
OnePad == {p1}
NoneSaved == s1 :> NoId
NewAndOld == s1 :> p1 @@ s2 :> OldId
=============================================================================
