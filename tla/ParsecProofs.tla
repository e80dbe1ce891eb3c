---------------------------- MODULE ParsecProofs ----------------------------
(***************************************************************************)
(* Proofs about ParsecMonitors for any senders, slots, places and budgets. *)
(* The inductive invariant follows one slot from the add to the claim:     *)
(* under the lock only the display of its holder can come up unseen.       *)
(***************************************************************************)
EXTENDS ParsecMonitors, WellFoundedInduction, TLAPS

(* The records the state is made of.                                       *)
Slot == [plug : BOOLEAN, up : BOOLEAN, leaving : BOOLEAN, pos : Places \cup {None},
         size : BOOLEAN \cup {None}, by : Senders \cup {None}]
Display == [index : Slots \cup {None}, name : Slots \cup {None},
            target : BOOLEAN \cup {None}, want : BOOLEAN, why : {"hello", "turn", "loss"},
            before : SUBSET Slots, pos : Places \cup {None}, last : Places \cup {None}]
Budget == [who : SUBSET Senders, lands : SUBSET Places, shared : Places \cup {None},
           rotate : Nat, link : Nat, declined : Nat, late : Nat, refused : Nat,
           start : Nat, stop : Nat, die : Nat, standby : Nat, drag : Nat, layout : Nat]
EventNames == {"rotate", "link", "declined", "late", "refused", "start", "stop", "die", "standby",
               "drag", "layout"}

Adding == {"leaving", "lock", "snapshot", "add"}
Claimant == {"load", "apply", "attach", "again", "dup", "stream"}

\* The state has its types.
Typed ==
    /\ slot \in [Slots -> Slot] /\ vd \in [Senders -> Display]
    /\ lock \in Senders \cup {None} /\ at \in [Senders -> Where]
    /\ saved \in [Senders -> Places \cup {None}] /\ shared \in Places \cup {None}
    /\ off \subseteq Places /\ odd \subseteq Senders /\ declined \subseteq Senders
    /\ left \in Budget

BlindTyped == blind \subseteq Senders

\* The lock is with a sender that claims.
LockedHolds == lock # None => at[lock] \in Holding

\* The stretch from the snapshot to the release is the lock holder's.
OneHolder == \A s \in Senders : at[s] \in Holding => lock = s

\* Nobody adds a display while it still has one; from the wait on it has one.
IndexInPlace ==
    \A s \in Senders :
        /\ at[s] \in Adding => vd[s].index = None
        /\ \/ at[s] \in Claimant \cup {"wait"}
           \/ at[s] = "prepare" /\ vd[s].why = "loss"
           => vd[s].index # None
        /\ at[s] = "apply" => vd[s].pos # None

\* A slot that is not placed is not shown and has no mode; one that somebody
\* owns is plugged.
PlacedOrOut ==
    \A n \in Slots :
        /\ slot[n].pos = None => ~slot[n].up /\ slot[n].size = None
        /\ slot[n].by # None => slot[n].plug

\* What a sender added is its own, until it gives it up.
IndexIsOwn == \A s \in Senders, n \in Slots : vd[s].index = n => slot[n].by = s

\* The claimed name is that of the sender's slot.
NameIsIndex ==
    \A s \in Senders : at[s] # "wait" /\ vd[s].index # None => vd[s].name = vd[s].index

\* A display that Windows has yet to drop is still shown.
LeavingIsUp == \A n \in Slots : slot[n].leaving => slot[n].up

\* A plugged slot that Windows has yet to show, or to drop first, is that of
\* the sender which waits for it.
Awaited(n) == slot[n].plug /\ (slot[n].pos = None \/ slot[n].leaving)
ComingIsAwaited ==
    \A n \in Slots :
        Awaited(n) => /\ slot[n].by \in Senders
                      /\ at[slot[n].by] = "wait"
                      /\ slot[n].leaving => n \in vd[slot[n].by].before

\* What shows up after the snapshot is what the sender added, and new.
SeenBefore ==
    \A s \in Senders, n \in Slots :
        /\ at[s] = "add" /\ slot[n].up => n \in vd[s].before
        /\ at[s] = "wait" /\ slot[n].up /\ n \notin vd[s].before =>
               vd[s].index = n /\ slot[n].size = None

\* A slot has the size of its last claim; a claim is for the size asked for.
SizeIsTarget ==
    \A s \in Senders \ declined :
        /\ at[s] # "wait" => \A n \in Slots : vd[s].index = n => slot[n].size \in {vd[s].target, None}
        /\ \/ at[s] \in Adding \cup Claimant \cup {"wait"}
           \/ at[s] = "prepare" /\ vd[s].why = "loss"
           => vd[s].target = vd[s].want

Owned ==
    IndexIsOwn /\ NameIsIndex /\ LeavingIsUp /\ ComingIsAwaited /\ SeenBefore /\ SizeIsTarget
Base == Typed /\ BlindTyped /\ LockedHolds /\ OneHolder /\ IndexInPlace /\ PlacedOrOut /\ NoneLeaks
Inv == Base /\ (torn \/ Owned)

-----------------------------------------------------------------------------
(* A set of naturals that is not empty has a least element.                *)
LEMMA LeastExists ==
  ASSUME NEW I \in SUBSET Nat, I # {}
  PROVE  Min(I) \in I
  <1>1. \E x \in I : \A y \in I : <<y, x>> \notin OpToRel(<, Nat)
    BY NatLessThanWellFounded, WFMin
  <1>2. PICK x \in I : \A y \in I : <<y, x>> \notin OpToRel(<, Nat)
    BY <1>1
  <1>3. \A y \in I : x =< y
    <2> SUFFICES ASSUME NEW y \in I, y < x PROVE FALSE
      OBVIOUS
    <2>1. <<y, x>> \in Nat \X Nat /\ <<y, x>>[1] = y /\ <<y, x>>[2] = x
      OBVIOUS
    <2>2. <<y, x>> \in {ss \in Nat \X Nat : ss[1] < ss[2]}
      BY <2>1
    <2> QED BY <1>2, <2>2 DEF OpToRel
  <1> QED BY <1>3 DEF Min


(* What happens is taken off the budget.                                   *)
LEMMA HappensTyped ==
  ASSUME left \in Budget, NEW e \in EventNames, Happens(e)
  PROVE  left' \in Budget
  BY DEF Budget, EventNames, Happens

(* What comes out of the driver for a removed display.                     *)
LEMMA UnpluggedIs ==
  ASSUME slot \in [Slots -> Slot], NEW n
  PROVE  /\ Unplugged(n) \in [Slots -> Slot]
         /\ \A m \in Slots \ {n} : Unplugged(n)[m] = slot[m]
         /\ n \in Slots /\ slot[n].up =>
               Unplugged(n)[n] = [slot[n] EXCEPT !.plug = FALSE, !.leaving = TRUE, !.by = None]
         /\ n \in Slots /\ ~slot[n].up => Unplugged(n)[n] = Out
  <1>1. Out \in Slot
    BY DEF Out, Slot
  <1>2. n \in Slots => [slot[n] EXCEPT !.plug = FALSE, !.leaving = TRUE, !.by = None] \in Slot
    BY DEF Slot
  <1> HIDE DEF Slot, Out
  <1> QED BY <1>1, <1>2 DEF Unplugged

(* The changes the actions make to a sender's display and to a slot.       *)
LEMMA DisplayForms ==
  ASSUME NEW d \in Display
  PROVE  /\ \A z \in BOOLEAN, y \in {"hello", "turn", "loss"} :
               [d EXCEPT !.want = z, !.why = y] \in Display
         /\ [d EXCEPT !.target = d.want] \in Display
         /\ [d EXCEPT !.target = d.want, !.index = None] \in Display
         /\ \A b \in SUBSET Slots : [d EXCEPT !.before = b] \in Display
         /\ \A n \in Slots : [d EXCEPT !.index = n] \in Display
         /\ \A n \in Slots : [d EXCEPT !.name = n, !.before = {}] \in Display
         /\ [d EXCEPT !.index = None, !.before = {}, !.pos = None] \in Display
         /\ \A p \in Places \cup {None} : [d EXCEPT !.pos = p] \in Display
         /\ \A p \in Places \cup {None} : [d EXCEPT !.last = p] \in Display
  BY DEF Display

LEMMA SlotForms ==
  ASSUME NEW c \in Slot
  PROVE  /\ \A p \in Places : [c EXCEPT !.up = TRUE, !.pos = p] \in Slot
         /\ \A p \in Places : [c EXCEPT !.pos = p] \in Slot
         /\ \A s \in Senders : [c EXCEPT !.plug = TRUE, !.by = s] \in Slot
         /\ \A b \in BOOLEAN, p \in Places \cup {None}, z \in BOOLEAN \cup {None} :
               [c EXCEPT !.up = b, !.pos = p, !.size = z] \in Slot
         /\ [Out EXCEPT !.plug = c.plug, !.by = c.by] \in Slot
         /\ [c EXCEPT !.by = None] \in Slot
         /\ Out \in Slot
  BY DEF Slot, Out

LEMMA FreshTyped == Fresh \in Display
  BY DEF Fresh, Display

(* What the fields are.                                                    *)
LEMMA FieldTypes ==
  /\ \A d \in Display :
        /\ d.index \in Slots \cup {None} /\ d.name \in Slots \cup {None}
        /\ d.target \in BOOLEAN \cup {None} /\ d.want \in BOOLEAN
        /\ d.pos \in Places \cup {None} /\ d.before \subseteq Slots
  /\ \A c \in Slot :
        /\ c.plug \in BOOLEAN /\ c.up \in BOOLEAN /\ c.leaving \in BOOLEAN
        /\ c.pos \in Places \cup {None} /\ c.size \in BOOLEAN \cup {None}
        /\ c.by \in Senders \cup {None}
  BY DEF Display, Slot

LEMMA TypesAre == TypeOK /\ left \in Budget <=> Typed /\ BlindTyped /\ LockedHolds
  BY DEF TypeOK, Typed, BlindTyped, LockedHolds, Slot, Display

(* The display a claim takes is one of the slots.                          *)
LEMMA FirstNew ==
  ASSUME NEW b, Attached \ b # {}
  PROVE  Min(Attached \ b) \in Attached \ b
  BY LeastExists, ParsecAssumption DEF Attached

(* A monitor that is moved, with its mode.                                 *)
LEMMA MovedTyped ==
  ASSUME slot \in [Slots -> Slot], NEW n, NEW p \in Places \cup {None},
         NEW z \in BOOLEAN \cup {None}
  PROVE  Moved(n, p, z) \in [Slots -> Slot]
  <1>1. \A c \in Slot : [c EXCEPT !.up = p \notin off, !.pos = p, !.size = z] \in Slot
    BY SlotForms
  <1> QED BY <1>1 DEF Moved

(* A failed claim leaves everything of its type.                           *)
LEMMA GiveBackTyped ==
  ASSUME Typed, NEW s \in Senders, GiveBack(s)
  PROVE  /\ slot' \in [Slots -> Slot] /\ vd' \in [Senders -> Display]
         /\ lock' \in Senders \cup {None} /\ at' \in [Senders -> Where]
  <1>1. slot' \in [Slots -> Slot]
    BY UnpluggedIs DEF Typed, GiveBack
  <1>2. vd' \in [Senders -> Display]
    BY DisplayForms DEF Typed, GiveBack
  <1>3. lock' \in Senders \cup {None} /\ at' \in [Senders -> Where]
    BY DEF Typed, GiveBack, Released, Fails, Go, Where
  <1> QED BY <1>1, <1>2, <1>3

(* Every step keeps the types.                                             *)
LEMMA TypedNext ==
  ASSUME Typed, [Next]_vars
  PROVE  Typed'
  <1> USE DEF Typed
  <1>1. ASSUME NEW s \in Senders, Paused(s) PROVE Typed'
    <2>1. at' \in [Senders -> Where]
      BY <1>1, ParsecAssumption, FieldTypes DEF Paused, TooLate, Go, Where
    <2>2. left' \in Budget
      BY <1>1, HappensTyped DEF Paused, TooLate, EventNames
    <2> QED BY <1>1, <2>1, <2>2 DEF Paused, stored, events, outside
  <1>2. ASSUME NEW s \in Senders, Connect(s) PROVE Typed'
    <2>1. at' \in [Senders -> Where]
      BY <1>2, ParsecAssumption, FieldTypes DEF Connect, Asks, Go, Where
    <2>2. vd' \in [Senders -> Display]
      BY <1>2, ParsecAssumption, DisplayForms, FieldTypes DEF Connect, Asks
    <2> QED BY <1>2, <2>1, <2>2 DEF Connect, stored, events, outside
  <1>3. ASSUME NEW s \in Senders, CaptureLost(s) PROVE Typed'
    <2>1. at' \in [Senders -> Where]
      BY <1>3, ParsecAssumption, FieldTypes DEF CaptureLost, Asks, Go, Where
    <2>2. vd' \in [Senders -> Display]
      BY <1>3, ParsecAssumption, DisplayForms, FieldTypes DEF CaptureLost, Asks
    <2> QED BY <1>3, <2>1, <2>2 DEF CaptureLost, stored, events, outside
  <1>4. ASSUME NEW s \in Senders, Prepare(s) PROVE Typed'
    <2>1. slot' \in [Slots -> Slot]
      <3>1. CASE slot' = slot
        BY <3>1
      <3>2. CASE slot' = Unplugged(vd[s].index)
        BY <3>2, UnpluggedIs
      <3> QED BY <1>4, <3>1, <3>2 DEF Prepare, Renew
    <2>2. at' \in [Senders -> Where]
      BY <1>4 DEF Prepare, Renew, Go, Where
    <2>3. vd' \in [Senders -> Display]
      <3>1. \/ vd' = vd
            \/ vd' = [vd EXCEPT ![s].target = vd[s].want, ![s].index = None]
        BY <1>4 DEF Prepare, Renew
      <3>2. CASE vd' = [vd EXCEPT ![s].target = vd[s].want, ![s].index = None]
        BY <3>2, DisplayForms
      <3> QED BY <3>1, <3>2
    <2> QED BY <1>4, <2>1, <2>2, <2>3 DEF Prepare, stored, outside
  <1>5. ASSUME NEW s \in Senders, Left(s) PROVE Typed'
    <2>1. at' \in [Senders -> Where]
      BY <1>5, ParsecAssumption, FieldTypes DEF Left, TooLate, Go, Where
    <2>2. left' \in Budget
      BY <1>5, HappensTyped DEF Left, TooLate, EventNames
    <2> QED BY <1>5, <2>1, <2>2 DEF Left, stored, events, outside
  <1>6. ASSUME NEW s \in Senders, TakeLock(s) PROVE Typed'
    <2>1. lock' \in Senders \cup {None}
      BY <1>6, ParsecAssumption, FieldTypes DEF TakeLock
    <2>2. at' \in [Senders -> Where]
      BY <1>6, ParsecAssumption, FieldTypes DEF TakeLock, Go, Where
    <2> QED BY <1>6, <2>1, <2>2 DEF TakeLock, stored, events, outside
  <1>7. ASSUME NEW s \in Senders, Snapshot(s) PROVE Typed'
    <2>1. at' \in [Senders -> Where]
      BY <1>7 DEF Snapshot, Go, Where
    <2>2. vd' \in [Senders -> Display]
      <3>1. Attached \in SUBSET Slots
        BY DEF Attached
      <3> QED BY <1>7, <3>1, DisplayForms DEF Snapshot
    <2> QED BY <1>7, <2>1, <2>2 DEF Snapshot, stored, outside
  <1>8. ASSUME NEW s \in Senders, Add(s) PROVE Typed'
    <2>1. CASE \A n \in Slots : slot[n].plug
      <3>1. UNCHANGED slot /\ lock' = Released(s) /\ Fails(s)
        BY <1>8, <2>1 DEF Add
      <3>2. vd' = [vd EXCEPT ![s] = [vd[s] EXCEPT !.before = {}]]
        BY <1>8, <2>1 DEF Add
      <3>3. vd' \in [Senders -> Display]
        BY <3>2, DisplayForms
      <3>4. lock' \in Senders \cup {None} /\ at' \in [Senders -> Where]
        BY <3>1 DEF Released, Fails, Go, Where
      <3> QED BY <1>8, <3>1, <3>3, <3>4 DEF Add, stored, outside
    <2>2. CASE \E n \in Slots : ~slot[n].plug
      <3>1. PICK n \in Slots : /\ slot' = Plugged(n, s) /\ vd' = [vd EXCEPT ![s].index = n]
                               /\ Go(s, "wait") /\ UNCHANGED lock
        BY <1>8, <2>2 DEF Add
      <3>2. slot' \in [Slots -> Slot]
        BY <3>1, SlotForms DEF Plugged
      <3>3. vd' \in [Senders -> Display]
        BY <3>1, DisplayForms
      <3>4. at' \in [Senders -> Where]
        BY <3>1 DEF Go, Where
      <3> QED BY <1>8, <3>1, <3>2, <3>3, <3>4 DEF Add, stored, outside
    <2> QED BY <2>1, <2>2
  <1>9. ASSUME NEW s \in Senders, Claim(s) PROVE Typed'
    <2>1. at' \in [Senders -> Where]
      BY <1>9 DEF Claim, Go, Where
    <2>2. vd' \in [Senders -> Display]
      <3>1. Attached \ vd[s].before # {}
        BY <1>9 DEF Claim
      <3>2. Min(Attached \ vd[s].before) \in Slots
        BY <3>1, FirstNew DEF Attached
      <3>3. vd' = [vd EXCEPT ![s].name = Min(Attached \ vd[s].before), ![s].before = {}]
        BY <1>9 DEF Claim
      <3> QED BY <3>2, <3>3, DisplayForms
    <2> QED BY <1>9, <2>1, <2>2 DEF Claim, stored, outside
  <1>10. ASSUME NEW s \in Senders, NoMonitor(s) PROVE Typed'
    <2>1. slot' \in [Slots -> Slot]
      BY <1>10, GiveBackTyped DEF NoMonitor
    <2>2. lock' \in Senders \cup {None}
      BY <1>10, GiveBackTyped DEF NoMonitor
    <2>3. at' \in [Senders -> Where]
      BY <1>10, GiveBackTyped DEF NoMonitor
    <2>4. vd' \in [Senders -> Display]
      BY <1>10, GiveBackTyped DEF NoMonitor
    <2>5. left' \in Budget
      BY <1>10, HappensTyped DEF NoMonitor, GiveBack, TooLate, EventNames
    <2> QED BY <1>10, <2>1, <2>2, <2>3, <2>4, <2>5 DEF NoMonitor, stored, events, outside
  <1>11. ASSUME NEW s \in Senders, Load(s) PROVE Typed'
    <2>1. PICK p \in Places : vd' = [vd EXCEPT ![s].pos = p]
      BY <1>11, ParsecAssumption DEF Load
    <2>2. vd' \in [Senders -> Display]
      BY <2>1, DisplayForms
    <2>3. at' \in [Senders -> Where]
      BY <1>11 DEF Load, Go, Where
    <2>4. saved' \in [Senders -> Places \cup {None}] /\ shared' \in Places \cup {None}
      BY <1>11, ParsecAssumption DEF Load
    <2> QED BY <1>11, <2>2, <2>3, <2>4 DEF Load, outside
  <1>12. ASSUME NEW s \in Senders, Apply(s) PROVE Typed'
    <2>1. CASE GiveBack(s) /\ left' \in Budget
      BY <1>12, <2>1, GiveBackTyped DEF Apply, stored, events
    <2>2. CASE /\ slot' = Moved(vd[s].name, vd[s].pos, vd[s].target) \/ slot' = slot
               /\ Go(s, "attach") /\ UNCHANGED <<lock, vd>> /\ left' \in Budget
      <3>1. vd[s].pos \in Places \cup {None} /\ vd[s].target \in BOOLEAN \cup {None}
        BY FieldTypes
      <3>2. Moved(vd[s].name, vd[s].pos, vd[s].target) \in [Slots -> Slot]
        BY <3>1, MovedTyped
      <3>3. slot' \in [Slots -> Slot]
        BY <2>2, <3>2
      <3>4. at' \in [Senders -> Where]
        BY <2>2 DEF Go, Where
      <3> QED BY <1>12, <2>2, <3>3, <3>4 DEF Apply, stored, events
    <2> QED BY <1>12, <2>1, <2>2, HappensTyped DEF Apply, EventNames
  <1>13. ASSUME NEW s \in Senders, Claimed(s) PROVE Typed'
    <2>1. lock' \in Senders \cup {None}
      BY <1>13, ParsecAssumption, FieldTypes DEF Claimed, Released
    <2>2. at' \in [Senders -> Where]
      BY <1>13, ParsecAssumption, FieldTypes DEF Claimed, Released, Go, Where
    <2>3. vd' \in [Senders -> Display]
      BY <1>13, ParsecAssumption, DisplayForms, FieldTypes DEF Claimed, Released
    <2>4. saved' \in [Senders -> Places \cup {None}]
      BY <1>13, ParsecAssumption, FieldTypes DEF Claimed, Released
    <2> QED BY <1>13, <2>1, <2>2, <2>3, <2>4 DEF Claimed, stored, events, outside
  <1>14. ASSUME NEW s \in Senders, Fallback(s) PROVE Typed'
    <2>1. slot' \in [Slots -> Slot]
      <3>1. CASE slot' = slot
        BY <3>1
      <3>2. CASE /\ vd[s].name \in Slots
                 /\ slot' = [slot EXCEPT ![vd[s].name] =
                               [slot[vd[s].name] EXCEPT !.up = TRUE, !.pos = Edge, !.size = vd[s].target]]
        BY <3>2, ParsecAssumption, SlotForms, FieldTypes
      <3> QED BY <1>14, <3>1, <3>2 DEF Fallback
    <2>2. at' \in [Senders -> Where]
      BY <1>14, ParsecAssumption, FieldTypes DEF Fallback, Go, Where
    <2>3. left' \in Budget
      BY <1>14, HappensTyped DEF Fallback, EventNames
    <2> QED BY <1>14, <2>1, <2>2, <2>3 DEF Fallback, stored, events
  <1>15. ASSUME NEW s \in Senders, NotAttached(s) PROVE Typed'
    <2>1. slot' \in [Slots -> Slot]
      BY <1>15, GiveBackTyped DEF NotAttached
    <2>2. lock' \in Senders \cup {None}
      BY <1>15, GiveBackTyped DEF NotAttached
    <2>3. at' \in [Senders -> Where]
      BY <1>15, GiveBackTyped DEF NotAttached
    <2>4. vd' \in [Senders -> Display]
      BY <1>15, GiveBackTyped DEF NotAttached
    <2> QED BY <1>15, <2>1, <2>2, <2>3, <2>4 DEF NotAttached, stored, events, outside
  <1>16. ASSUME NEW s \in Senders, Duplicate(s) PROVE Typed'
    <2>1. at' \in [Senders -> Where]
      BY <1>16, ParsecAssumption, FieldTypes DEF Duplicate, Fails, Go, Where
    <2> QED BY <1>16, <2>1 DEF Duplicate, stored, events, outside
  <1>17. ASSUME NEW s \in Senders, PollPosition(s) PROVE Typed'
    <2>1. slot[vd[s].name].pos \in Places \cup {None}
      BY <1>17, FieldTypes DEF PollPosition, Rect
    <2>2. vd' \in [Senders -> Display]
      BY <1>17, <2>1, DisplayForms DEF PollPosition
    <2>3. saved' \in [Senders -> Places \cup {None}]
      BY <1>17, <2>1 DEF PollPosition
    <2>4. odd' \subseteq Senders
      BY <1>17 DEF PollPosition
    <2> QED BY <1>17, <2>2, <2>3, <2>4 DEF PollPosition, outside
  <1>18. ASSUME NEW s \in Senders, Declined(s) PROVE Typed'
    <2>1. at' \in [Senders -> Where]
      BY <1>18, ParsecAssumption, FieldTypes DEF Declined, Fails, Go, Where
    <2>2. vd' \in [Senders -> Display]
      BY <1>18, ParsecAssumption, DisplayForms, FieldTypes DEF Declined, Fails
    <2>3. declined' \subseteq Senders
      BY <1>18, ParsecAssumption, FieldTypes DEF Declined, Fails
    <2>4. left' \in Budget
      BY <1>18, HappensTyped DEF Declined, Fails, EventNames
    <2> QED BY <1>18, <2>1, <2>2, <2>3, <2>4 DEF Declined, stored, events, outside
  <1>19. ASSUME NEW s \in Senders, LockTimesOut(s) PROVE Typed'
    <2>1. at' \in [Senders -> Where]
      BY <1>19, ParsecAssumption, FieldTypes DEF LockTimesOut, Fails, Go, Where
    <2>2. left' \in Budget
      BY <1>19, HappensTyped DEF LockTimesOut, Fails, EventNames
    <2> QED BY <1>19, <2>1, <2>2 DEF LockTimesOut, stored, events, outside
  <1>20. ASSUME NEW s \in Senders, Rotate(s) PROVE Typed'
    <2>1. at' \in [Senders -> Where]
      BY <1>20, ParsecAssumption, FieldTypes DEF Rotate, Asks, Go, Where
    <2>2. vd' \in [Senders -> Display]
      <3>1. PICK z \in BOOLEAN : vd' = [vd EXCEPT ![s].want = z, ![s].why = "turn"]
        BY <1>20 DEF Rotate, Asks
      <3>2. [vd[s] EXCEPT !.want = z, !.why = "turn"] \in Display
        BY DisplayForms
      <3> QED BY <3>1, <3>2
    <2>3. left' \in Budget
      BY <1>20, HappensTyped DEF Rotate, Asks, EventNames
    <2> QED BY <1>20, <2>1, <2>2, <2>3 DEF Rotate, stored, events, outside
  <1>21. ASSUME NEW s \in Senders, LinkLost(s) PROVE Typed'
    <2>1. at' \in [Senders -> Where]
      BY <1>21, ParsecAssumption, FieldTypes DEF LinkLost, Go, Where
    <2>2. left' \in Budget
      BY <1>21, HappensTyped DEF LinkLost, EventNames
    <2> QED BY <1>21, <2>1, <2>2 DEF LinkLost, stored, events, outside
  <1>22. ASSUME NEW s \in Senders, Start(s) PROVE Typed'
    <2>1. at' \in [Senders -> Where]
      BY <1>22, ParsecAssumption, FieldTypes DEF Start, Go, Where
    <2>2. left' \in Budget
      BY <1>22, HappensTyped DEF Start, EventNames
    <2> QED BY <1>22, <2>1, <2>2 DEF Start, stored, events, outside
  <1>23. ASSUME NEW s \in Senders, Close(s) PROVE Typed'
    <2>1. slot' \in [Slots -> Slot]
      BY <1>23, ParsecAssumption, SlotForms, FieldTypes, UnpluggedIs DEF Close, Unplugged
    <2>2. at' \in [Senders -> Where]
      BY <1>23, ParsecAssumption, FieldTypes, UnpluggedIs DEF Close, Unplugged, Go, Where
    <2>3. vd' \in [Senders -> Display]
      BY <1>23, ParsecAssumption, DisplayForms, FieldTypes, FreshTyped, UnpluggedIs DEF Close, Unplugged
    <2>4. odd' \subseteq Senders
      BY <1>23, ParsecAssumption, FieldTypes, UnpluggedIs DEF Close, Unplugged
    <2>5. left' \in Budget
      BY <1>23, HappensTyped DEF Close, Unplugged, EventNames
    <2> QED BY <1>23, <2>1, <2>2, <2>3, <2>4, <2>5 DEF Close, stored, events, outside
  <1>24. ASSUME NEW s \in Senders, Die(s) PROVE Typed'
    <2>1. slot' \in [Slots -> Slot]
      BY <1>24, ParsecAssumption, SlotForms, FieldTypes DEF Die, Released
    <2>2. lock' \in Senders \cup {None}
      BY <1>24, ParsecAssumption, FieldTypes DEF Die, Released
    <2>3. at' \in [Senders -> Where]
      BY <1>24, ParsecAssumption, FieldTypes DEF Die, Released, Go, Where
    <2>4. vd' \in [Senders -> Display]
      BY <1>24, ParsecAssumption, DisplayForms, FieldTypes, FreshTyped DEF Die, Released
    <2>5. odd' \subseteq Senders
      BY <1>24, ParsecAssumption, FieldTypes DEF Die, Released
    <2>6. left' \in Budget
      BY <1>24, HappensTyped DEF Die, Released, EventNames
    <2> QED BY <1>24, <2>1, <2>2, <2>3, <2>4, <2>5, <2>6 DEF Die, stored, events, outside
  <1>25. ASSUME NEW n \in Slots, Appear(n) PROVE Typed'
    <2>1. PICK p \in left.lands : slot' = [slot EXCEPT ![n].up = TRUE, ![n].pos = p]
      BY <1>25 DEF Appear
    <2>2. p \in Places
      BY DEF Budget
    <2>3. slot' \in [Slots -> Slot]
      BY <2>1, <2>2, SlotForms
    <2> QED BY <1>25, <2>3 DEF Appear, stored, outside
  <1>26. ASSUME NEW n \in Slots, Vanish(n) PROVE Typed'
    <2>1. slot' \in [Slots -> Slot]
      BY <1>26, ParsecAssumption, SlotForms, FieldTypes DEF Vanish
    <2> QED BY <1>26, <2>1 DEF Vanish, stored, events, outside
  <1>27. ASSUME NEW n \in Slots, NEW p \in Places, Drag(n, p) PROVE Typed'
    <2>1. slot' \in [Slots -> Slot]
      BY <1>27, ParsecAssumption, SlotForms, FieldTypes DEF Drag
    <2>2. left' \in Budget
      BY <1>27, HappensTyped DEF Drag, EventNames
    <2> QED BY <1>27, <2>1, <2>2 DEF Drag, stored, events, outside
  <1>28. CASE Standby
    <2>1. slot' \in [Slots -> Slot]
      BY <1>28, ParsecAssumption, SlotForms, FieldTypes DEF Standby
    <2>2. left' \in Budget
      BY <1>28, HappensTyped DEF Standby, EventNames
    <2> QED BY <1>28, <2>1, <2>2 DEF Standby, stored, events, outside
  <1>29. ASSUME NEW p \in Places, Layout(p) PROVE Typed'
    <2>1. off' \subseteq Places
      BY <1>29, ParsecAssumption, FieldTypes DEF Layout
    <2>2. left' \in Budget
      BY <1>29, HappensTyped DEF Layout, EventNames
    <2> QED BY <1>29, <2>1, <2>2 DEF Layout, stored, events, outside
  <1>30. CASE UNCHANGED vars
    BY <1>30 DEF vars, stored, outside
  <1> QED
    BY <1>1, <1>2, <1>3, <1>4, <1>5, <1>6, <1>7, <1>8, <1>9, <1>10, <1>11, <1>12, <1>13, <1>14,
       <1>15, <1>16, <1>17, <1>18, <1>19, <1>20, <1>21, <1>22, <1>23, <1>24, <1>25, <1>26, <1>27,
       <1>28, <1>29, <1>30
    DEF Next, Worker, Windows

(* A sender asks for a size.                                               *)
LEMMA AsksIs ==
  ASSUME Typed, NEW s \in Senders, NEW z, NEW y,
         vd' = [vd EXCEPT ![s].want = z, ![s].why = y]
  PROVE  /\ \A t \in Senders \ {s} : vd'[t] = vd[t]
         /\ vd'[s].index = vd[s].index
         /\ vd'[s].name = vd[s].name
         /\ vd'[s].target = vd[s].target
         /\ vd'[s].want = z
         /\ vd'[s].why = y
         /\ vd'[s].before = vd[s].before
         /\ vd'[s].pos = vd[s].pos
  BY DEF Typed, Display

(* The target is the size asked for.                                       *)
LEMMA TargetIs ==
  ASSUME Typed, NEW s \in Senders,
         vd' = [vd EXCEPT ![s].target = vd[s].want]
  PROVE  /\ \A t \in Senders \ {s} : vd'[t] = vd[t]
         /\ vd'[s].index = vd[s].index
         /\ vd'[s].name = vd[s].name
         /\ vd'[s].target = vd[s].want
         /\ vd'[s].want = vd[s].want
         /\ vd'[s].why = vd[s].why
         /\ vd'[s].before = vd[s].before
         /\ vd'[s].pos = vd[s].pos
  BY DEF Typed, Display

(* The sender sets out for a new display.                                  *)
LEMMA DroppedIs ==
  ASSUME Typed, NEW s \in Senders,
         vd' = [vd EXCEPT ![s].target = vd[s].want, ![s].index = None]
  PROVE  /\ \A t \in Senders \ {s} : vd'[t] = vd[t]
         /\ vd'[s].index = None
         /\ vd'[s].name = vd[s].name
         /\ vd'[s].target = vd[s].want
         /\ vd'[s].want = vd[s].want
         /\ vd'[s].why = vd[s].why
         /\ vd'[s].before = vd[s].before
         /\ vd'[s].pos = vd[s].pos
  BY DEF Typed, Display

(* The sender remembers the displays there are.                            *)
LEMMA SnapshotIs ==
  ASSUME Typed, NEW s \in Senders, NEW b,
         vd' = [vd EXCEPT ![s].before = b]
  PROVE  /\ \A t \in Senders \ {s} : vd'[t] = vd[t]
         /\ vd'[s].index = vd[s].index
         /\ vd'[s].name = vd[s].name
         /\ vd'[s].target = vd[s].target
         /\ vd'[s].want = vd[s].want
         /\ vd'[s].why = vd[s].why
         /\ vd'[s].before = b
         /\ vd'[s].pos = vd[s].pos
  BY DEF Typed, Display

(* The display it added.                                                   *)
LEMMA IndexIs ==
  ASSUME Typed, NEW s \in Senders, NEW n,
         vd' = [vd EXCEPT ![s].index = n]
  PROVE  /\ \A t \in Senders \ {s} : vd'[t] = vd[t]
         /\ vd'[s].index = n
         /\ vd'[s].name = vd[s].name
         /\ vd'[s].target = vd[s].target
         /\ vd'[s].want = vd[s].want
         /\ vd'[s].why = vd[s].why
         /\ vd'[s].before = vd[s].before
         /\ vd'[s].pos = vd[s].pos
  BY DEF Typed, Display

(* The monitor it claimed.                                                 *)
LEMMA NameIs ==
  ASSUME Typed, NEW s \in Senders, NEW n,
         vd' = [vd EXCEPT ![s].name = n, ![s].before = {}]
  PROVE  /\ \A t \in Senders \ {s} : vd'[t] = vd[t]
         /\ vd'[s].index = vd[s].index
         /\ vd'[s].name = n
         /\ vd'[s].target = vd[s].target
         /\ vd'[s].want = vd[s].want
         /\ vd'[s].why = vd[s].why
         /\ vd'[s].before = {}
         /\ vd'[s].pos = vd[s].pos
  BY DEF Typed, Display

(* The failed claim is forgotten.                                          *)
LEMMA GivenBackIs ==
  ASSUME Typed, NEW s \in Senders,
         vd' = [vd EXCEPT ![s].index = None, ![s].before = {}, ![s].pos = None]
  PROVE  /\ \A t \in Senders \ {s} : vd'[t] = vd[t]
         /\ vd'[s].index = None
         /\ vd'[s].name = vd[s].name
         /\ vd'[s].target = vd[s].target
         /\ vd'[s].want = vd[s].want
         /\ vd'[s].why = vd[s].why
         /\ vd'[s].before = {}
         /\ vd'[s].pos = None
  BY DEF Typed, Display

(* The position it loaded, or has used.                                    *)
LEMMA PosIs ==
  ASSUME Typed, NEW s \in Senders, NEW p,
         vd' = [vd EXCEPT ![s].pos = p]
  PROVE  /\ \A t \in Senders \ {s} : vd'[t] = vd[t]
         /\ vd'[s].index = vd[s].index
         /\ vd'[s].name = vd[s].name
         /\ vd'[s].target = vd[s].target
         /\ vd'[s].want = vd[s].want
         /\ vd'[s].why = vd[s].why
         /\ vd'[s].before = vd[s].before
         /\ vd'[s].pos = p
  BY DEF Typed, Display

(* The place its poll saw.                                                 *)
LEMMA LastIs ==
  ASSUME Typed, NEW s \in Senders, NEW p,
         vd' = [vd EXCEPT ![s].last = p]
  PROVE  /\ \A t \in Senders \ {s} : vd'[t] = vd[t]
         /\ vd'[s].index = vd[s].index
         /\ vd'[s].name = vd[s].name
         /\ vd'[s].target = vd[s].target
         /\ vd'[s].want = vd[s].want
         /\ vd'[s].why = vd[s].why
         /\ vd'[s].before = vd[s].before
         /\ vd'[s].pos = vd[s].pos
  BY DEF Typed, Display

(* A display comes up.                                                     *)
LEMMA AppearIs ==
  ASSUME Typed, NEW n \in Slots, NEW p,
         slot' = [slot EXCEPT ![n].up = TRUE, ![n].pos = p]
  PROVE  /\ \A m \in Slots \ {n} : slot'[m] = slot[m]
         /\ slot'[n].plug = slot[n].plug
         /\ slot'[n].up = TRUE
         /\ slot'[n].leaving = slot[n].leaving
         /\ slot'[n].pos = p
         /\ slot'[n].size = slot[n].size
         /\ slot'[n].by = slot[n].by
  BY DEF Typed, Slot

(* A monitor is dragged.                                                   *)
LEMMA DragIs ==
  ASSUME Typed, NEW n \in Slots, NEW p,
         slot' = [slot EXCEPT ![n].pos = p]
  PROVE  /\ \A m \in Slots \ {n} : slot'[m] = slot[m]
         /\ slot'[n].plug = slot[n].plug
         /\ slot'[n].up = slot[n].up
         /\ slot'[n].leaving = slot[n].leaving
         /\ slot'[n].pos = p
         /\ slot'[n].size = slot[n].size
         /\ slot'[n].by = slot[n].by
  BY DEF Typed, Slot

(* A display is added.                                                     *)
LEMMA PluggedIs ==
  ASSUME Typed, NEW n \in Slots, NEW s,
         slot' = [slot EXCEPT ![n].plug = TRUE, ![n].by = s]
  PROVE  /\ \A m \in Slots \ {n} : slot'[m] = slot[m]
         /\ slot'[n].plug = TRUE
         /\ slot'[n].up = slot[n].up
         /\ slot'[n].leaving = slot[n].leaving
         /\ slot'[n].pos = slot[n].pos
         /\ slot'[n].size = slot[n].size
         /\ slot'[n].by = s
  BY DEF Typed, Slot

(* A display that is removed: Windows drops it if it showed it.            *)
LEMMA GoneIs ==
  ASSUME Typed, NEW n \in Slots \cup {None}, slot' = Unplugged(n)
  PROVE  /\ \A m \in Slots \ {n} : slot'[m] = slot[m]
         /\ n # None =>
               /\ ~slot'[n].plug /\ slot'[n].by = None
               /\ slot'[n].up = slot[n].up /\ slot'[n].leaving = slot[n].up
               /\ slot[n].up => slot'[n].pos = slot[n].pos /\ slot'[n].size = slot[n].size
               /\ ~slot[n].up => slot'[n].pos = None /\ slot'[n].size = None
  <1> slot \in [Slots -> Slot]
    BY DEF Typed
  <1>1. \A m \in Slots \ {n} : slot'[m] = slot[m]
    BY UnpluggedIs
  <1>2. CASE n # None /\ slot[n].up
    <2>1. slot'[n] = [slot[n] EXCEPT !.plug = FALSE, !.leaving = TRUE, !.by = None]
      BY <1>2, UnpluggedIs, Zenon
    <2>2. slot[n] \in Slot /\ slot[n].up = TRUE
      BY <1>2, FieldTypes
    <2>3. /\ slot'[n].plug = FALSE /\ slot'[n].up = slot[n].up /\ slot'[n].leaving = TRUE
          /\ slot'[n].by = None /\ slot'[n].pos = slot[n].pos /\ slot'[n].size = slot[n].size
      BY <2>1, <2>2 DEF Slot
    <2> QED BY <1>1, <1>2, <2>2, <2>3
  <1>3. CASE n # None /\ ~slot[n].up
    <2>1. slot'[n] = Out
      BY <1>3, UnpluggedIs, Zenon
    <2>2. slot[n].up = FALSE
      BY <1>3, FieldTypes
    <2>3. /\ slot'[n].plug = FALSE /\ slot'[n].up = FALSE /\ slot'[n].leaving = FALSE
          /\ slot'[n].by = None /\ slot'[n].pos = None /\ slot'[n].size = None
      BY <2>1 DEF Out
    <2> QED BY <1>1, <1>3, <2>2, <2>3
  <1>4. CASE n = None
    BY <1>1, <1>4
  <1> QED BY <1>2, <1>3, <1>4

(* Windows drops a display, and shows it anew if it is plugged in again.   *)
LEMMA VanishIs ==
  ASSUME Typed, NEW n \in Slots,
         slot' = [slot EXCEPT ![n] = [Out EXCEPT !.plug = slot[n].plug, !.by = slot[n].by]]
  PROVE  /\ \A m \in Slots \ {n} : slot'[m] = slot[m]
         /\ slot'[n].plug = slot[n].plug /\ slot'[n].by = slot[n].by
         /\ ~slot'[n].up /\ ~slot'[n].leaving /\ slot'[n].pos = None /\ slot'[n].size = None
  BY DEF Typed, Out

(* A monitor is placed by its sender.                                      *)
LEMMA PlacedIs ==
  ASSUME Typed, NEW n \in Slots, NEW u \in BOOLEAN, NEW p, NEW z,
         slot' = [slot EXCEPT ![n] = [slot[n] EXCEPT !.up = u, !.pos = p, !.size = z]]
  PROVE  /\ \A m \in Slots \ {n} : slot'[m] = slot[m]
         /\ slot'[n].plug = slot[n].plug /\ slot'[n].by = slot[n].by
         /\ slot'[n].leaving = slot[n].leaving
         /\ slot'[n].up = u /\ slot'[n].pos = p /\ slot'[n].size = z
  BY DEF Typed, Slot

(* What a move does, and the second try at the right edge.                 *)
LEMMA MovedIs ==
  ASSUME Typed, NEW n, NEW p, NEW z, slot' = Moved(n, p, z)
  PROVE  \/ slot' = slot
         \/ /\ n \in Slots /\ slot[n].up
            /\ slot' = [slot EXCEPT ![n] = [slot[n] EXCEPT !.up = p \notin off, !.pos = p, !.size = z]]
  BY DEF Typed, Moved

LEMMA FallbackIs ==
  ASSUME Typed, NEW s \in Senders, Fallback(s)
  PROVE  \/ slot' = slot
         \/ /\ vd[s].name \in Slots /\ slot[vd[s].name].plug
            /\ slot' = [slot EXCEPT ![vd[s].name] =
                           [slot[vd[s].name] EXCEPT !.up = TRUE, !.pos = Edge, !.size = vd[s].target]]
  BY DEF Typed, Fallback

(* A process is killed: what it added is nobody's.                         *)
LEMMA DeathIs ==
  ASSUME Typed, NEW s \in Senders, Die(s)
  PROVE  \A n \in Slots :
            /\ slot'[n].plug = slot[n].plug /\ slot'[n].up = slot[n].up
            /\ slot'[n].leaving = slot[n].leaving
            /\ slot'[n].pos = slot[n].pos /\ slot'[n].size = slot[n].size
            /\ slot'[n].by = IF slot[n].by = s THEN None ELSE slot[n].by
  BY DEF Typed, Slot, Die

(* The object is made anew.                                                *)
LEMMA FreshIs ==
  ASSUME Typed, NEW s \in Senders, vd' = [vd EXCEPT ![s] = Fresh]
  PROVE  /\ \A t \in Senders \ {s} : vd'[t] = vd[t]
         /\ vd'[s].index = None /\ vd'[s].name = None
  BY DEF Typed, Fresh

(* A failed claim.                                                         *)
LEMMA GiveBackIs ==
  ASSUME Typed, NEW s \in Senders, GiveBack(s)
  PROVE  /\ slot' = Unplugged(vd[s].index) /\ vd[s].index \in Slots \cup {None}
         /\ lock' = IF lock = s THEN None ELSE lock
         /\ at' = [at EXCEPT ![s] = at'[s]] /\ at'[s] \in {"pause", "idle"}
         /\ \A t \in Senders \ {s} : vd'[t] = vd[t]
         /\ vd'[s].index = None /\ vd'[s].target = vd[s].target /\ vd'[s].want = vd[s].want
  <1>1. at' = [at EXCEPT ![s] = at'[s]] /\ at'[s] \in {"pause", "idle"}
    BY DEF GiveBack, Fails, Go, Typed
  <1> QED BY <1>1, GivenBackIs, FieldTypes DEF GiveBack, Released, Typed

-----------------------------------------------------------------------------
(* What the sender's actions do, field by field.                           *)

\* A step of sender s is a step of no other sender.
OthersStay(s) == \A t \in Senders \ {s} : at'[t] = at[t] /\ vd'[t] = vd[t]

\* The slot n is changed and no other.
OnlySlot(n) == \A m \in Slots \ {n} : slot'[m] = slot[m]

\* The slot n is given up; it is nobody's then.
Gone(n) ==
    /\ OnlySlot(n)
    /\ n # None =>
          /\ ~slot'[n].plug /\ slot'[n].by = None
          /\ slot'[n].up = slot[n].up /\ slot'[n].leaving = slot[n].up
          /\ slot[n].up => slot'[n].pos = slot[n].pos /\ slot'[n].size = slot[n].size
          /\ ~slot[n].up => slot'[n].pos = None /\ slot'[n].size = None

\* The slot n is placed by its sender.
Placed(n) ==
    /\ n \in Slots /\ OnlySlot(n)
    /\ slot'[n].plug = slot[n].plug /\ slot'[n].by = slot[n].by
    /\ slot'[n].leaving = slot[n].leaving

\* The display of s keeps all but what it asks for.
DisplayStays(s) ==
    /\ vd'[s].index = vd[s].index /\ vd'[s].name = vd[s].name
    /\ vd'[s].before = vd[s].before /\ vd'[s].pos = vd[s].pos

(* A connect, a rotation and a lost capture ask for a size.                *)
LEMMA AsksDoes ==
  ASSUME Typed, NEW s \in Senders, Connect(s) \/ Rotate(s) \/ CaptureLost(s)
  PROVE  /\ OthersStay(s) /\ DisplayStays(s) /\ vd'[s].target = vd[s].target
         /\ at[s] \in {"idle", "stream"} /\ at'[s] = "prepare" /\ UNCHANGED <<slot, lock, declined>>
         /\ vd'[s].why = "loss" => at[s] = "stream" /\ vd'[s].want = vd[s].want
  <1>1. CASE Connect(s)
    <2>1. vd' = [vd EXCEPT ![s].want = vd[s].want, ![s].why = "hello"]
      BY <1>1 DEF Connect, Asks
    <2>2. at[s] = "idle" /\ at' = [at EXCEPT ![s] = "prepare"] /\ UNCHANGED <<slot, lock, declined>>
      BY <1>1 DEF Connect, Asks, Go, outside
    <2>3. DisplayStays(s) /\ vd'[s].target = vd[s].target /\ vd'[s].why = "hello"
      BY <2>1 DEF DisplayStays, Typed, Display
    <2>4. OthersStay(s) /\ at'[s] = "prepare"
      BY <2>1, <2>2, AsksIs DEF OthersStay, Typed
    <2> QED BY <2>2, <2>3, <2>4
  <1>2. CASE Rotate(s)
    <2>1. PICK z \in BOOLEAN : vd' = [vd EXCEPT ![s].want = z, ![s].why = "turn"]
      BY <1>2 DEF Rotate, Asks
    <2>2. at[s] = "stream" /\ at' = [at EXCEPT ![s] = "prepare"] /\ UNCHANGED <<slot, lock, declined>>
      BY <1>2 DEF Rotate, Asks, Go, events
    <2>3. DisplayStays(s) /\ vd'[s].target = vd[s].target /\ vd'[s].why = "turn"
      BY <2>1 DEF DisplayStays, Typed, Display
    <2>4. OthersStay(s) /\ at'[s] = "prepare"
      BY <2>1, <2>2, AsksIs DEF OthersStay, Typed
    <2> QED BY <2>2, <2>3, <2>4
  <1>3. CASE CaptureLost(s)
    <2>1. vd' = [vd EXCEPT ![s].want = vd[s].want, ![s].why = "loss"]
      BY <1>3 DEF CaptureLost, Asks
    <2>2. at[s] = "stream" /\ at' = [at EXCEPT ![s] = "prepare"] /\ UNCHANGED <<slot, lock, declined>>
      BY <1>3 DEF CaptureLost, Asks, Go, outside
    <2> QED BY <2>1, <2>2, AsksIs DEF OthersStay, DisplayStays, Typed
  <1> QED BY <1>1, <1>2, <1>3

(* A failed claim.                                                         *)
LEMMA GiveBackDoes ==
  ASSUME Typed, NEW s \in Senders, GiveBack(s)
  PROVE  /\ OthersStay(s) /\ Gone(vd[s].index)
         /\ vd[s].index \in Slots \cup {None} /\ vd'[s].index = None
         /\ at'[s] \in {"pause", "idle"} /\ lock' = IF lock = s THEN None ELSE lock
  <1>1. /\ slot' = Unplugged(vd[s].index) /\ vd[s].index \in Slots \cup {None}
        /\ lock' = IF lock = s THEN None ELSE lock
        /\ at' = [at EXCEPT ![s] = at'[s]] /\ at'[s] \in {"pause", "idle"}
        /\ \A t \in Senders \ {s} : vd'[t] = vd[t]
        /\ vd'[s].index = None
    BY GiveBackIs
  <1>2. Gone(vd[s].index)
    BY <1>1, GoneIs DEF Gone, OnlySlot
  <1>3. OthersStay(s)
    BY <1>1 DEF OthersStay, Typed
  <1> QED BY <1>1, <1>2, <1>3

(* The monitor is kept, or its slot given up for a new one.                *)
LEMMA PrepareDoes ==
  ASSUME Typed, NEW s \in Senders, Prepare(s)
  PROVE  /\ OthersStay(s) /\ at[s] = "prepare" /\ UNCHANGED <<lock, declined>>
         /\ \/ /\ Kept(s) \/ Reusable(s)
               /\ at'[s] = "dup" /\ UNCHANGED <<slot, vd>>
            \/ /\ at'[s] \in {"leaving", "lock"} /\ Gone(vd[s].index)
               /\ vd'[s].index = None /\ vd'[s].target = vd[s].want /\ vd'[s].want = vd[s].want
  <1>1. at[s] = "prepare" /\ UNCHANGED <<lock, declined>>
    BY DEF Prepare, outside
  <1>2. CASE Kept(s) \/ Reusable(s)
    BY <1>1, <1>2 DEF Prepare, Go, OthersStay, Typed
  <1>3. CASE ~(Kept(s) \/ Reusable(s))
    <2>1. vd' = [vd EXCEPT ![s].target = vd[s].want, ![s].index = None]
      BY <1>3 DEF Prepare, Renew
    <2>2. vd[s].index \in Slots \cup {None}
      BY FieldTypes DEF Typed
    <2>3. CASE vd[s].index # None
      <3>1. slot' = Unplugged(vd[s].index) /\ at' = [at EXCEPT ![s] = "leaving"]
        BY <1>3, <2>3 DEF Prepare, Renew, Go
      <3>2. Gone(vd[s].index)
        BY <2>2, <3>1, GoneIs DEF Gone, OnlySlot
      <3> QED BY <1>1, <2>1, <3>1, <3>2, DroppedIs DEF OthersStay, Typed
    <2>4. CASE vd[s].index = None
      <3>1. slot' = slot /\ at' = [at EXCEPT ![s] = "lock"]
        BY <1>3, <2>4 DEF Prepare, Renew, Go
      <3>2. Gone(vd[s].index)
        BY <2>4, <3>1 DEF Gone, OnlySlot
      <3> QED BY <1>1, <2>1, <3>1, <3>2, DroppedIs DEF OthersStay, Typed
    <2> QED BY <2>3, <2>4
  <1> QED BY <1>2, <1>3

(* The add fails, or takes a slot that was free.                           *)
LEMMA AddDoes ==
  ASSUME Typed, NEW s \in Senders, Add(s)
  PROVE  /\ OthersStay(s) /\ at[s] = "add" /\ UNCHANGED declined
         /\ vd'[s].name = vd[s].name /\ vd'[s].target = vd[s].target /\ vd'[s].want = vd[s].want
         /\ \/ /\ slot' = slot /\ vd'[s].index = vd[s].index
               /\ at'[s] \in {"pause", "idle"} /\ lock' = IF lock = s THEN None ELSE lock
            \/ /\ at'[s] = "wait" /\ lock' = lock /\ vd'[s].before = vd[s].before
               /\ \E n \in Slots :
                     /\ vd'[s].index = n /\ OnlySlot(n) /\ ~slot[n].plug
                     /\ slot'[n].plug /\ slot'[n].by = s
                     /\ slot'[n].up = slot[n].up /\ slot'[n].leaving = slot[n].leaving
                     /\ slot'[n].pos = slot[n].pos /\ slot'[n].size = slot[n].size
  <1>1. at[s] = "add" /\ UNCHANGED declined
    BY DEF Add, outside
  <1>2. CASE \A n \in Slots : slot[n].plug
    <2>1. /\ slot' = slot /\ lock' = Released(s) /\ Fails(s)
          /\ vd' = [vd EXCEPT ![s].before = {}]
      BY <1>2 DEF Add
    <2>2. at' = [at EXCEPT ![s] = at'[s]] /\ at'[s] \in {"pause", "idle"}
      BY <2>1 DEF Fails, Go, Typed
    <2> QED BY <1>1, <2>1, <2>2, SnapshotIs DEF Released, OthersStay, Typed
  <1>3. CASE \E n \in Slots : ~slot[n].plug
    <2>1. PICK n \in Slots : /\ ~slot[n].plug
                             /\ slot' = Plugged(n, s) /\ vd' = [vd EXCEPT ![s].index = n]
                             /\ at' = [at EXCEPT ![s] = "wait"] /\ UNCHANGED lock
      BY <1>3 DEF Add, Go
    <2>2. slot' = [slot EXCEPT ![n].plug = TRUE, ![n].by = s]
      BY <2>1 DEF Plugged
    <2>3. /\ OnlySlot(n) /\ slot'[n].plug /\ slot'[n].by = s
          /\ slot'[n].up = slot[n].up /\ slot'[n].leaving = slot[n].leaving
          /\ slot'[n].pos = slot[n].pos /\ slot'[n].size = slot[n].size
      BY <2>2, PluggedIs DEF OnlySlot
    <2>4. /\ OthersStay(s) /\ at'[s] = "wait" /\ vd'[s].before = vd[s].before
          /\ vd'[s].index = n
          /\ vd'[s].name = vd[s].name /\ vd'[s].target = vd[s].target /\ vd'[s].want = vd[s].want
      BY <2>1, IndexIs DEF OthersStay, Typed
    <2> QED BY <1>1, <2>1, <2>3, <2>4
  <1> QED BY <1>2, <1>3

(* The first new monitor is claimed.                                       *)
LEMMA ClaimDoes ==
  ASSUME Typed, NEW s \in Senders, Claim(s)
  PROVE  /\ OthersStay(s) /\ at[s] = "wait" /\ at'[s] = "load"
         /\ UNCHANGED <<slot, lock, declined>>
         /\ vd'[s].name \in Attached \ vd[s].before
         /\ vd'[s].index = vd[s].index /\ vd'[s].target = vd[s].target /\ vd'[s].want = vd[s].want
  <1>1. /\ at[s] = "wait" /\ at' = [at EXCEPT ![s] = "load"] /\ UNCHANGED <<slot, lock, declined>>
        /\ Attached \ vd[s].before # {}
        /\ vd' = [vd EXCEPT ![s].name = Min(Attached \ vd[s].before), ![s].before = {}]
    BY DEF Claim, Go, outside
  <1>2. Min(Attached \ vd[s].before) \in Attached \ vd[s].before
    BY <1>1, FirstNew
  <1>3. PICK n : vd' = [vd EXCEPT ![s].name = n, ![s].before = {}] /\ n \in Attached \ vd[s].before
    BY <1>1, <1>2
  <1>4. /\ \A t \in Senders \ {s} : vd'[t] = vd[t]
        /\ vd'[s].name \in Attached \ vd[s].before
        /\ vd'[s].index = vd[s].index /\ vd'[s].target = vd[s].target /\ vd'[s].want = vd[s].want
    BY <1>3 DEF Typed, Display
  <1> QED BY <1>1, <1>4 DEF OthersStay, Typed

(* The position is loaded, and forgotten once the monitor is there.        *)
LEMMA LoadDoes ==
  ASSUME Typed, NEW s \in Senders, Load(s)
  PROVE  /\ OthersStay(s) /\ at[s] = "load" /\ at'[s] = "apply" /\ UNCHANGED <<slot, lock, declined>>
         /\ vd'[s].pos \in Places /\ vd'[s].index = vd[s].index /\ vd'[s].name = vd[s].name
         /\ vd'[s].target = vd[s].target /\ vd'[s].want = vd[s].want
  <1>1. PICK p \in Places : vd' = [vd EXCEPT ![s].pos = p]
    BY ParsecAssumption DEF Load, Typed
  <1>2. at[s] = "load" /\ at' = [at EXCEPT ![s] = "apply"] /\ UNCHANGED <<slot, lock, declined>>
    BY DEF Load, Go, outside
  <1> QED BY <1>1, <1>2, PosIs DEF OthersStay, Typed

LEMMA ClaimedDoes ==
  ASSUME Typed, NEW s \in Senders, Claimed(s)
  PROVE  /\ OthersStay(s) /\ at[s] \in {"attach", "again"} /\ at'[s] = "dup"
         /\ UNCHANGED <<slot, declined>> /\ lock' = IF lock = s THEN None ELSE lock
         /\ vd'[s].index = vd[s].index /\ vd'[s].name = vd[s].name
         /\ vd'[s].target = vd[s].target /\ vd'[s].want = vd[s].want
  <1>1. /\ at[s] \in {"attach", "again"} /\ at' = [at EXCEPT ![s] = "dup"]
        /\ UNCHANGED <<slot, declined>> /\ lock' = IF lock = s THEN None ELSE lock
        /\ vd' = [vd EXCEPT ![s].pos = None]
    BY DEF Claimed, Go, Released, outside
  <1> QED BY <1>1, PosIs DEF OthersStay, Typed

(* Position and mode are set, or refused.                                  *)
LEMMA ApplyDoes ==
  ASSUME Typed, NEW s \in Senders, Apply(s)
  PROVE  /\ at[s] = "apply" /\ UNCHANGED declined
         /\ \/ GiveBack(s)
            \/ /\ OthersStay(s) /\ at'[s] = "attach" /\ UNCHANGED <<lock, vd>>
               /\ \/ slot' = slot
                  \/ /\ Placed(vd[s].name) /\ slot[vd[s].name].up
                     /\ slot'[vd[s].name].pos = vd[s].pos
                     /\ slot'[vd[s].name].size = vd[s].target
  <1>1. at[s] = "apply" /\ UNCHANGED declined
    BY DEF Apply, events
  <1>2. CASE /\ slot' = Moved(vd[s].name, vd[s].pos, vd[s].target)
             /\ Go(s, "attach") /\ UNCHANGED <<lock, vd>>
    <2>1. OthersStay(s) /\ at'[s] = "attach"
      BY <1>2 DEF OthersStay, Go, Typed
    <2>2. CASE ~(vd[s].name \in Slots /\ slot[vd[s].name].up)
      <3>1. slot' = slot
        BY <1>2, <2>2 DEF Moved, Typed
      <3> QED BY <1>1, <1>2, <2>1, <3>1
    <2>3. CASE vd[s].name \in Slots /\ slot[vd[s].name].up
      <3>1. PICK n \in Slots : \E p, u :
                /\ n = vd[s].name /\ p = vd[s].pos /\ u \in BOOLEAN /\ u = (p \notin off)
                /\ slot' = [slot EXCEPT ![n] = [slot[n] EXCEPT !.up = u, !.pos = p, !.size = vd[s].target]]
        BY <1>2, <2>3, (vd[s].pos \notin off) \in BOOLEAN DEF Moved
      <3>2. Placed(n) /\ slot'[n].pos = vd[s].pos /\ slot'[n].size = vd[s].target
        BY <3>1 DEF Placed, OnlySlot, Typed, Slot
      <3>3. /\ Placed(vd[s].name) /\ slot'[vd[s].name].pos = vd[s].pos
            /\ slot'[vd[s].name].size = vd[s].target
        BY <3>1, <3>2
      <3> QED BY <1>1, <1>2, <2>1, <2>3, <3>3
    <2> QED BY <2>2, <2>3
  <1>3. CASE Go(s, "attach") /\ UNCHANGED <<slot, lock, vd>>
    BY <1>1, <1>3 DEF OthersStay, Go, Typed
  <1>4. CASE GiveBack(s)
    BY <1>1, <1>4
  <1> QED BY <1>2, <1>3, <1>4 DEF Apply

(* The second try, at the right edge.                                      *)
LEMMA FallbackDoes ==
  ASSUME Typed, NEW s \in Senders, Fallback(s)
  PROVE  /\ OthersStay(s) /\ at[s] = "attach" /\ at'[s] = "again" /\ UNCHANGED <<lock, vd, declined>>
         /\ \/ slot' = slot
            \/ /\ Placed(vd[s].name) /\ slot[vd[s].name].plug
               /\ slot'[vd[s].name].up /\ slot'[vd[s].name].pos = Edge
               /\ slot'[vd[s].name].size = vd[s].target
  <1>1. /\ OthersStay(s) /\ at[s] = "attach" /\ at'[s] = "again" /\ UNCHANGED <<lock, vd, declined>>
    BY DEF Fallback, Go, events, OthersStay, Typed
  <1>2. CASE slot' = slot
    BY <1>1, <1>2
  <1>3. CASE /\ vd[s].name \in Slots /\ slot[vd[s].name].plug
             /\ slot' = [slot EXCEPT ![vd[s].name] =
                            [slot[vd[s].name] EXCEPT !.up = TRUE, !.pos = Edge, !.size = vd[s].target]]
    <2>1. PICK n : n = vd[s].name /\ n \in Slots /\ slot' = [slot EXCEPT ![n] = [slot[n] EXCEPT !.up = TRUE, !.pos = Edge, !.size = vd[s].target]]
      BY <1>3
    <2>2. Placed(n) /\ slot'[n].up /\ slot'[n].pos = Edge /\ slot'[n].size = vd[s].target
      BY <2>1 DEF Placed, OnlySlot, Typed, Slot
    <2> QED BY <1>1, <1>3, <2>1, <2>2
  <1> QED BY <1>2, <1>3, FallbackIs

(* The sender stops, or its process is killed.                             *)
LEMMA CloseDoes ==
  ASSUME Typed, NEW s \in Senders, Close(s)
  PROVE  /\ OthersStay(s) /\ at[s] \in {"idle", "pause", "stream"} /\ at'[s] = "closed"
         /\ UNCHANGED <<lock, declined>> /\ Gone(vd[s].index) /\ vd'[s].index = None
  <1>1. /\ at[s] \in {"idle", "pause", "stream"} /\ at' = [at EXCEPT ![s] = "closed"]
        /\ UNCHANGED <<lock, declined>> /\ vd' = [vd EXCEPT ![s] = Fresh]
        /\ slot' = IF vd[s].index = None THEN slot ELSE Unplugged(vd[s].index)
    BY DEF Close, Go, events
  <1>2. vd[s].index \in Slots \cup {None}
    BY FieldTypes DEF Typed
  <1>3. CASE vd[s].index = None
    <2>1. Gone(vd[s].index)
      BY <1>1, <1>3 DEF Gone, OnlySlot
    <2> QED BY <1>1, <2>1, FreshIs DEF OthersStay, Typed
  <1>4. CASE vd[s].index # None
    <2>1. slot' = Unplugged(vd[s].index)
      BY <1>1, <1>4
    <2>2. Gone(vd[s].index)
      BY <1>2, <2>1, GoneIs DEF Gone, OnlySlot
    <2> QED BY <1>1, <2>2, FreshIs DEF OthersStay, Typed
  <1> QED BY <1>3, <1>4

LEMMA DieDoes ==
  ASSUME Typed, NEW s \in Senders, Die(s)
  PROVE  /\ OthersStay(s) /\ at[s] # "closed" /\ at'[s] = "closed"
         /\ UNCHANGED declined /\ vd'[s].index = None /\ torn' = (torn \/ at[s] = "wait")
         /\ lock' = IF lock = s THEN None ELSE lock
  <1>1. /\ at[s] # "closed" /\ at' = [at EXCEPT ![s] = "closed"] /\ UNCHANGED declined
        /\ torn' = (torn \/ at[s] = "wait") /\ vd' = [vd EXCEPT ![s] = Fresh]
        /\ lock' = IF lock = s THEN None ELSE lock
    BY DEF Die, Go, Released
  <1> QED BY <1>1, FreshIs DEF OthersStay, Typed

(* The other actions of a sender move nothing but the sender, the lock,    *)
(* and what its display says of sizes, places and what was there before.   *)
Resting(s) ==
    \/ Paused(s) \/ Left(s) \/ TakeLock(s) \/ LockTimesOut(s) \/ LinkLost(s) \/ Start(s)
    \/ Duplicate(s) \/ Snapshot(s) \/ PollPosition(s) \/ Declined(s)

LEMMA RestMoves ==
  ASSUME Typed, NEW s \in Senders, Resting(s)
  PROVE  /\ \A t \in Senders \ {s} : at'[t] = at[t]
         /\ at[s] = "wait" <=> at'[s] = "wait"
         /\ \/ at'[s] = at[s] \/ at'[s] \in {"idle", "pause"}
            \/ at[s] \in Adding /\ at'[s] \in Adding
            \/ at[s] = "dup" /\ at'[s] = "stream"
         /\ \/ lock' = lock /\ (at[s] \in Holding <=> at'[s] \in Holding)
            \/ lock = None /\ lock' = s /\ at'[s] \in Holding
         /\ UNCHANGED slot
  <1> USE DEF Typed, Adding, Holding
  <1>1. CASE Paused(s) \/ Left(s) \/ TakeLock(s) \/ Start(s) \/ LinkLost(s)
    BY <1>1 DEF Paused, Left, TakeLock, Start, LinkLost, Go
  <1>2. CASE LockTimesOut(s) \/ Duplicate(s) \/ Declined(s)
    BY <1>2 DEF LockTimesOut, Duplicate, Declined, Fails, Go
  <1>3. CASE Snapshot(s)
    BY <1>3 DEF Snapshot, Go
  <1>4. CASE PollPosition(s)
    BY <1>4 DEF PollPosition
  <1> QED BY <1>1, <1>2, <1>3, <1>4 DEF Resting

LEMMA RestKeeps ==
  ASSUME Typed, NEW s \in Senders, Resting(s)
  PROVE  /\ \A t \in Senders \ {s} : vd'[t] = vd[t]
         /\ vd'[s].index = vd[s].index /\ vd'[s].name = vd[s].name
         /\ vd'[s].want = vd[s].want /\ vd'[s].why = vd[s].why /\ vd'[s].pos = vd[s].pos
         /\ \/ vd'[s].target = vd[s].target /\ UNCHANGED declined
            \/ at'[s] \in {"idle", "pause"} /\ declined' = declined \cup {s}
         /\ \/ at[s] = "snapshot" /\ at'[s] = "add" /\ vd'[s].before = Attached
            \/ vd'[s].before = vd[s].before /\ (at'[s] = "add" => at[s] = "add")
  <1>1. CASE Paused(s) \/ Left(s) \/ TakeLock(s) \/ Start(s) \/ LinkLost(s)
    BY <1>1 DEF Paused, Left, TakeLock, Start, LinkLost, Go, Typed, events, outside
  <1>2. CASE LockTimesOut(s) \/ Duplicate(s)
    BY <1>2 DEF LockTimesOut, Duplicate, Fails, Go, Typed, events, outside
  <1>3. CASE Snapshot(s)
    <2>1. /\ vd' = [vd EXCEPT ![s].before = Attached]
          /\ at[s] = "snapshot" /\ at' = [at EXCEPT ![s] = "add"] /\ UNCHANGED declined
      BY <1>3 DEF Snapshot, Go, outside
    <2> QED BY <2>1, SnapshotIs DEF Typed
  <1>4. CASE PollPosition(s)
    <2>1. UNCHANGED <<at, declined>>
      BY <1>4 DEF PollPosition, outside
    <2>2. vd' = vd \/ vd' = [vd EXCEPT ![s].last = slot[vd[s].name].pos]
      BY <1>4 DEF PollPosition
    <2>3. CASE vd' = [vd EXCEPT ![s].last = slot[vd[s].name].pos]
      BY <2>1, <2>3, LastIs
    <2> QED BY <2>1, <2>2, <2>3
  <1>5. CASE Declined(s)
    <2>1. vd' = [vd EXCEPT ![s].target = vd[s].want] /\ declined' = declined \cup {s}
      BY <1>5 DEF Declined
    <2>2. at'[s] \in {"idle", "pause"}
      BY <1>5 DEF Declined, Fails, Go, Typed
    <2> QED BY <2>1, <2>2, TargetIs
  <1> QED BY <1>1, <1>2, <1>3, <1>4, <1>5 DEF Resting

(* What Windows and the user do to a slot.                                 *)
LEMMA AppearDoes ==
  ASSUME Typed, NEW n \in Slots, Appear(n)
  PROVE  /\ OnlySlot(n) /\ UNCHANGED <<lock, at, vd, declined>>
         /\ slot[n].plug /\ ~slot[n].up /\ slot[n].pos = None
         /\ slot'[n].plug /\ slot'[n].up /\ slot'[n].pos \in Places
         /\ slot'[n].leaving = slot[n].leaving
         /\ slot'[n].size = slot[n].size /\ slot'[n].by = slot[n].by
  <1>1. /\ UNCHANGED <<lock, at, vd, declined>>
        /\ slot[n].plug /\ ~slot[n].up /\ slot[n].pos = None
    BY DEF Appear, outside
  <1>2. PICK p \in Places : slot' = [slot EXCEPT ![n].up = TRUE, ![n].pos = p]
    BY DEF Appear, Typed, Budget
  <1>3. /\ OnlySlot(n) /\ slot'[n].plug = slot[n].plug /\ slot'[n].up = TRUE /\ slot'[n].pos = p
        /\ slot'[n].leaving = slot[n].leaving
        /\ slot'[n].size = slot[n].size /\ slot'[n].by = slot[n].by
    BY <1>2, AppearIs DEF OnlySlot
  <1> QED BY <1>1, <1>2, <1>3

LEMMA VanishDoes ==
  ASSUME Typed, NEW n \in Slots, Vanish(n)
  PROVE  /\ OnlySlot(n) /\ UNCHANGED <<lock, at, vd, declined>> /\ slot[n].leaving
         /\ slot'[n].plug = slot[n].plug /\ slot'[n].by = slot[n].by
         /\ ~slot'[n].up /\ ~slot'[n].leaving /\ slot'[n].pos = None /\ slot'[n].size = None
  <1>1. /\ UNCHANGED <<lock, at, vd, declined>> /\ slot[n].leaving
        /\ slot' = [slot EXCEPT ![n] = [Out EXCEPT !.plug = slot[n].plug, !.by = slot[n].by]]
    BY DEF Vanish, outside
  <1> QED BY <1>1, VanishIs DEF OnlySlot

LEMMA DragDoes ==
  ASSUME Typed, NEW n \in Slots, NEW p \in Places, Drag(n, p)
  PROVE  /\ OnlySlot(n) /\ UNCHANGED <<lock, at, vd, declined>> /\ slot[n].up
         /\ slot'[n].plug = slot[n].plug /\ slot'[n].up /\ slot'[n].pos \in Places
         /\ slot'[n].leaving = slot[n].leaving
         /\ slot'[n].size = slot[n].size /\ slot'[n].by = slot[n].by
  <1>1. /\ UNCHANGED <<lock, at, vd, declined>> /\ slot[n].up
        /\ slot' = [slot EXCEPT ![n].pos = p]
    BY DEF Drag, events
  <1> QED BY <1>1, DragIs DEF OnlySlot

LEMMA StandbyDoes ==
  ASSUME Standby
  PROVE  /\ UNCHANGED <<lock, at, vd, declined>> /\ torn'
         /\ \A n \in Slots : /\ ~slot'[n].plug /\ ~slot'[n].up /\ ~slot'[n].leaving
                             /\ slot'[n].pos = None /\ slot'[n].size = None /\ slot'[n].by = None
  BY DEF Standby, Out

-----------------------------------------------------------------------------
(* The kinds of steps.                                                     *)

Asking(s) == Connect(s) \/ Rotate(s) \/ CaptureLost(s)
Failing(s) == GiveBack(s) /\ at[s] \in {"wait", "apply", "attach", "again"} /\ UNCHANGED declined
Placing(s) == (Apply(s) /\ ~GiveBack(s)) \/ Fallback(s)

LEMMA Kinds ==
  ASSUME [Next]_vars
  PROVE  \/ \E s \in Senders :
               \/ Asking(s) \/ Prepare(s) \/ Add(s) \/ Claim(s) \/ Load(s) \/ Placing(s)
               \/ Claimed(s) \/ Failing(s) \/ Close(s) \/ Die(s) \/ Resting(s)
         \/ \E n \in Slots : Appear(n) \/ Vanish(n) \/ \E p \in Places : Drag(n, p)
         \/ Standby
         \/ UNCHANGED <<slot, lock, at, vd, declined>>
  <1>1. ASSUME NEW s \in Senders, NoMonitor(s) PROVE Failing(s)
    BY <1>1 DEF NoMonitor, Failing, events
  <1>2. ASSUME NEW s \in Senders, NotAttached(s) PROVE Failing(s)
    BY <1>2 DEF NotAttached, Failing, outside
  <1>3. ASSUME NEW s \in Senders, Apply(s) PROVE Placing(s) \/ Failing(s)
    BY <1>3 DEF Apply, Placing, Failing, events
  <1>4. ASSUME NEW p \in Places, Layout(p) PROVE UNCHANGED <<slot, lock, at, vd, declined>>
    BY <1>4 DEF Layout
  <1>5. ASSUME UNCHANGED vars PROVE UNCHANGED <<slot, lock, at, vd, declined>>
    BY <1>5 DEF vars
  <1> QED BY <1>1, <1>2, <1>3, <1>4, <1>5 DEF Next, Worker, Windows, Asking, Placing, Resting

\* A monitor is placed, or was gone.
LEMMA PlacingDoes ==
  ASSUME Typed, NEW s \in Senders, Placing(s)
  PROVE  /\ OthersStay(s) /\ at[s] \in {"apply", "attach"} /\ at'[s] \in {"attach", "again"}
         /\ UNCHANGED <<lock, vd, declined>>
         /\ \/ slot' = slot
            \/ /\ Placed(vd[s].name) /\ slot'[vd[s].name].size = vd[s].target
               /\ \/ slot'[vd[s].name].pos = Edge
                  \/ at[s] = "apply" /\ slot'[vd[s].name].pos = vd[s].pos
  BY ApplyDoes, FallbackDoes DEF Placing

\* Standby and deaths are not forgotten.
LEMMA TornStays ==
  ASSUME [Next]_vars, torn
  PROVE  torn'
  <1>1. ASSUME NEW s \in Senders, Worker(s) PROVE UNCHANGED torn
    BY <1>1 DEF Worker, Paused, Connect, CaptureLost, Prepare, Left, TakeLock, Snapshot, Add, Claim,
                NoMonitor, Load, Apply, Claimed, Fallback, NotAttached, Duplicate, events, outside
  <1>2. ASSUME NEW s \in Senders,
               \/ PollPosition(s) \/ Declined(s) \/ LockTimesOut(s) \/ Rotate(s)
               \/ LinkLost(s) \/ Start(s) \/ Close(s)
        PROVE  UNCHANGED torn
    BY <1>2 DEF PollPosition, Declined, LockTimesOut, Rotate, LinkLost, Start, Close, events, outside
  <1>3. ASSUME NEW s \in Senders, Die(s) PROVE torn'
    BY <1>3 DEF Die
  <1>4. ASSUME NEW n \in Slots, Windows(n) \/ \E p \in Places : Drag(n, p) PROVE UNCHANGED torn
    BY <1>4 DEF Windows, Appear, Vanish, Drag, events, outside
  <1>5. ASSUME NEW p \in Places, Layout(p) PROVE UNCHANGED torn
    BY <1>5 DEF Layout
  <1>6. CASE Standby
    BY <1>6 DEF Standby
  <1>7. CASE UNCHANGED vars
    BY <1>7 DEF vars
  <1> QED BY <1>1, <1>2, <1>3, <1>4, <1>5, <1>6, <1>7 DEF Next

-----------------------------------------------------------------------------
(* What holds even when standby interferes.                                *)

\* The lock is with the one sender between its snapshot and the release.
LEMMA LockNext ==
  ASSUME Typed, LockedHolds, OneHolder, [Next]_vars
  PROVE  LockedHolds' /\ OneHolder'
  <1> USE DEF LockedHolds, OneHolder, Holding, OthersStay
  <1> None \notin Senders /\ at \in [Senders -> Where] /\ lock \in Senders \cup {None}
    BY ParsecAssumption DEF Typed
  <1>1. ASSUME NEW s \in Senders, Asking(s) PROVE LockedHolds' /\ OneHolder'
    BY <1>1, AsksDoes DEF Asking
  <1>2. ASSUME NEW s \in Senders, Prepare(s) PROVE LockedHolds' /\ OneHolder'
    BY <1>2, PrepareDoes
  <1>3. ASSUME NEW s \in Senders, Add(s) PROVE LockedHolds' /\ OneHolder'
    BY <1>3, AddDoes
  <1>4. ASSUME NEW s \in Senders, Claim(s) PROVE LockedHolds' /\ OneHolder'
    BY <1>4, ClaimDoes
  <1>5. ASSUME NEW s \in Senders, Load(s) PROVE LockedHolds' /\ OneHolder'
    BY <1>5, LoadDoes
  <1>6. ASSUME NEW s \in Senders, Placing(s) PROVE LockedHolds' /\ OneHolder'
    BY <1>6, PlacingDoes
  <1>7. ASSUME NEW s \in Senders, Claimed(s) PROVE LockedHolds' /\ OneHolder'
    BY <1>7, ClaimedDoes
  <1>8. ASSUME NEW s \in Senders, Failing(s) PROVE LockedHolds' /\ OneHolder'
    BY <1>8, GiveBackDoes DEF Failing
  <1>9. ASSUME NEW s \in Senders, Close(s) PROVE LockedHolds' /\ OneHolder'
    BY <1>9, CloseDoes
  <1>10. ASSUME NEW s \in Senders, Die(s) PROVE LockedHolds' /\ OneHolder'
    BY <1>10, DieDoes
  <1>11. ASSUME NEW s \in Senders, Resting(s) PROVE LockedHolds' /\ OneHolder'
    BY <1>11, RestMoves
  <1>12. ASSUME NEW n \in Slots, Appear(n) \/ Vanish(n) \/ \E p \in Places : Drag(n, p)
         PROVE  UNCHANGED <<lock, at>>
    BY <1>12, AppearDoes, VanishDoes, DragDoes
  <1>13. Standby => UNCHANGED <<lock, at>>
    BY StandbyDoes
  <1> QED BY <1>1, <1>2, <1>3, <1>4, <1>5, <1>6, <1>7, <1>8, <1>9, <1>10, <1>11, <1>12, <1>13, Kinds

\* A sender has a display from the wait on, and none while it adds one.
LEMMA IndexNext ==
  ASSUME Typed, IndexInPlace, [Next]_vars
  PROVE  IndexInPlace'
  <1> USE DEF IndexInPlace, Adding, Claimant, OthersStay, DisplayStays
  <1> None \notin Slots \cup Places /\ Edge \in Places
    BY ParsecAssumption
  <1>1. ASSUME NEW s \in Senders, Asking(s) PROVE IndexInPlace'
    BY <1>1, AsksDoes DEF Asking
  <1>2. ASSUME NEW s \in Senders, Prepare(s) PROVE IndexInPlace'
    BY <1>2, PrepareDoes DEF Kept, Reusable
  <1>3. ASSUME NEW s \in Senders, Add(s) PROVE IndexInPlace'
    BY <1>3, AddDoes
  <1>4. ASSUME NEW s \in Senders, Claim(s) PROVE IndexInPlace'
    BY <1>4, ClaimDoes
  <1>5. ASSUME NEW s \in Senders, Load(s) PROVE IndexInPlace'
    BY <1>5, LoadDoes
  <1>6. ASSUME NEW s \in Senders, Placing(s) PROVE IndexInPlace'
    BY <1>6, PlacingDoes
  <1>7. ASSUME NEW s \in Senders, Claimed(s) PROVE IndexInPlace'
    BY <1>7, ClaimedDoes
  <1>8. ASSUME NEW s \in Senders, Failing(s) PROVE IndexInPlace'
    BY <1>8, GiveBackDoes DEF Failing
  <1>9. ASSUME NEW s \in Senders, Close(s) PROVE IndexInPlace'
    BY <1>9, CloseDoes
  <1>10. ASSUME NEW s \in Senders, Die(s) PROVE IndexInPlace'
    BY <1>10, DieDoes
  <1>11. ASSUME NEW s \in Senders, Resting(s) PROVE IndexInPlace'
    BY <1>11, RestMoves, RestKeeps
  <1>12. ASSUME NEW n \in Slots, Appear(n) \/ Vanish(n) \/ \E p \in Places : Drag(n, p)
         PROVE  UNCHANGED <<at, vd>>
    BY <1>12, AppearDoes, VanishDoes, DragDoes
  <1>13. Standby => UNCHANGED <<at, vd>>
    BY StandbyDoes
  <1> QED BY <1>1, <1>2, <1>3, <1>4, <1>5, <1>6, <1>7, <1>8, <1>9, <1>10, <1>11, <1>12, <1>13, Kinds

\* What is not placed is not shown, and what is owned is plugged.
LEMMA PlacedNext ==
  ASSUME Typed, PlacedOrOut, IndexInPlace, [Next]_vars
  PROVE  PlacedOrOut'
  <1> USE DEF PlacedOrOut, OnlySlot
  <1> None \notin Slots \cup Places /\ Edge \in Places
    BY ParsecAssumption
  <1>1. ASSUME NEW s \in Senders, Gone(vd[s].index) PROVE PlacedOrOut'
    BY <1>1 DEF Gone
  <1>2. ASSUME NEW s \in Senders, Prepare(s) PROVE PlacedOrOut'
    BY <1>1, <1>2, PrepareDoes
  <1>3. ASSUME NEW s \in Senders, Add(s) PROVE PlacedOrOut'
    BY <1>3, AddDoes
  <1>4. ASSUME NEW s \in Senders, Placing(s) PROVE PlacedOrOut'
    BY <1>4, PlacingDoes DEF Placed, IndexInPlace
  <1>5. ASSUME NEW s \in Senders, Failing(s) PROVE PlacedOrOut'
    BY <1>1, <1>5, GiveBackDoes DEF Failing
  <1>6. ASSUME NEW s \in Senders, Close(s) PROVE PlacedOrOut'
    BY <1>1, <1>6, CloseDoes
  <1>7. ASSUME NEW s \in Senders, Die(s) PROVE PlacedOrOut'
    BY <1>7, DeathIs
  <1>8. ASSUME NEW n \in Slots, Appear(n) PROVE PlacedOrOut'
    BY <1>8, AppearDoes
  <1>9. ASSUME NEW n \in Slots, Vanish(n) PROVE PlacedOrOut'
    BY <1>9, VanishDoes
  <1>10. ASSUME NEW n \in Slots, NEW p \in Places, Drag(n, p) PROVE PlacedOrOut'
    BY <1>10, DragDoes
  <1>11. ASSUME NEW s \in Senders, Asking(s) \/ Claim(s) \/ Load(s) \/ Claimed(s) \/ Resting(s)
         PROVE  UNCHANGED slot
    BY <1>11, AsksDoes, ClaimDoes, LoadDoes, ClaimedDoes, RestMoves DEF Asking
  <1>12. Standby => PlacedOrOut'
    BY StandbyDoes
  <1> QED BY <1>2, <1>3, <1>4, <1>5, <1>6, <1>7, <1>8, <1>9, <1>10, <1>11, <1>12, Kinds

\* What is plugged in is some sender's to remove: whoever loses the index of
\* its display has removed it.
LEMMA LeaksNext ==
  ASSUME Typed, IndexInPlace, NoneLeaks, [Next]_vars
  PROVE  NoneLeaks'
  <1> USE DEF NoneLeaks, OnlySlot, OthersStay
  <1> /\ None \notin Slots \cup Senders
      /\ \A n \in Slots : slot[n].by \in Senders \cup {None}
      /\ \A s \in Senders : vd[s].index \in Slots \cup {None}
    BY ParsecAssumption, FieldTypes DEF Typed
  <1>1. ASSUME NEW s \in Senders, Gone(vd[s].index), OthersStay(s) PROVE NoneLeaks'
    BY <1>1 DEF Gone
  <1>2. ASSUME NEW s \in Senders, Prepare(s) PROVE NoneLeaks'
    BY <1>1, <1>2, PrepareDoes
  <1>3. ASSUME NEW s \in Senders, Add(s) PROVE NoneLeaks'
    <2>1. vd[s].index = None
      BY <1>3, AddDoes DEF IndexInPlace, Adding
    <2>2. \A n \in Slots : slot[n].by # s
      BY <2>1
    <2> QED BY <1>3, <2>1, <2>2, AddDoes
  <1>4. ASSUME NEW s \in Senders, Placing(s) PROVE NoneLeaks'
    BY <1>4, PlacingDoes DEF Placed
  <1>5. ASSUME NEW s \in Senders, Failing(s) PROVE NoneLeaks'
    BY <1>1, <1>5, GiveBackDoes DEF Failing
  <1>6. ASSUME NEW s \in Senders, Close(s) PROVE NoneLeaks'
    BY <1>1, <1>6, CloseDoes
  <1>7. ASSUME NEW s \in Senders, Die(s) PROVE NoneLeaks'
    BY <1>7, DieDoes, DeathIs
  <1>8. ASSUME NEW n \in Slots, Appear(n) \/ Vanish(n) \/ \E p \in Places : Drag(n, p)
        PROVE  NoneLeaks'
    BY <1>8, AppearDoes, VanishDoes, DragDoes
  <1>9. ASSUME NEW s \in Senders, Asking(s) \/ Claim(s) \/ Load(s) \/ Claimed(s) \/ Resting(s)
        PROVE  NoneLeaks'
    <2>1. UNCHANGED slot /\ vd'[s].index = vd[s].index /\ \A t \in Senders \ {s} : vd'[t] = vd[t]
      BY <1>9, AsksDoes, ClaimDoes, LoadDoes, ClaimedDoes, RestMoves, RestKeeps DEF Asking, DisplayStays
    <2> QED BY <2>1
  <1>10. Standby => NoneLeaks'
    BY StandbyDoes
  <1> QED BY <1>2, <1>3, <1>4, <1>5, <1>6, <1>7, <1>8, <1>9, <1>10, Kinds

(* A capture that lost its output is a sender's.                           *)
LEMMA BlindNext ==
  ASSUME BlindTyped, [Next]_vars
  PROVE  BlindTyped'
  <1> USE DEF BlindTyped, outside, events
  <1>1. ASSUME NEW s \in Senders,
               Connect(s) \/ CaptureLost(s) \/ Rotate(s)
        PROVE  BlindTyped'
    BY <1>1 DEF Connect, CaptureLost, Rotate, Asks
  <1>2. ASSUME NEW s \in Senders, Apply(s) PROVE BlindTyped'
    BY <1>2 DEF Apply, BlindOn
  <1>3. ASSUME NEW n \in Slots, Vanish(n) PROVE BlindTyped'
    BY <1>3 DEF Vanish, BlindOn
  <1>4. Standby => BlindTyped'
    BY DEF Standby, BlindOn
  <1>5. ASSUME NEW s \in Senders,
               \/ Paused(s) \/ Prepare(s) \/ Left(s) \/ TakeLock(s) \/ Snapshot(s) \/ Add(s)
               \/ Claim(s) \/ NoMonitor(s) \/ Load(s) \/ Claimed(s) \/ Fallback(s)
               \/ NotAttached(s) \/ Duplicate(s)
        PROVE  UNCHANGED blind
    BY <1>5 DEF Paused, Prepare, Left, TakeLock, Snapshot, Add, Claim, NoMonitor, Load, Claimed,
                Fallback, NotAttached, Duplicate
  <1>6. ASSUME NEW s \in Senders,
               \/ PollPosition(s) \/ Declined(s) \/ LockTimesOut(s) \/ LinkLost(s) \/ Start(s)
               \/ Close(s) \/ Die(s)
        PROVE  UNCHANGED blind
    BY <1>6 DEF PollPosition, Declined, LockTimesOut, LinkLost, Start, Close, Die
  <1>7. ASSUME NEW n \in Slots, NEW p \in Places, Drag(n, p) PROVE UNCHANGED blind
    BY <1>7 DEF Drag
  <1>8. ASSUME NEW p \in Places, Layout(p) PROVE UNCHANGED blind
    BY <1>8 DEF Layout
  <1>9. ASSUME NEW n \in Slots, Appear(n) PROVE UNCHANGED blind
    BY <1>9 DEF Appear
  <1> QED BY <1>1, <1>2, <1>3, <1>4, <1>5, <1>6, <1>7, <1>8, <1>9 DEF Next, Worker, Windows, vars

LEMMA BaseNext ==
  ASSUME Base, [Next]_vars
  PROVE  Base'
  BY TypedNext, BlindNext, LockNext, IndexNext, PlacedNext, LeaksNext DEF Base

-----------------------------------------------------------------------------
(* What holds unless standby, or a death in the middle of an add, comes    *)
(* between.                                                                *)

\* What a sender added stays its own.
LEMMA OwnNext ==
  ASSUME Base, Owned, [Next]_vars, ~torn'
  PROVE  IndexIsOwn'
  <1> USE DEF Base, Owned, IndexIsOwn, OnlySlot, OthersStay
  <1> /\ None \notin Slots \cup Senders
      /\ \A s \in Senders : vd[s].index \in Slots \cup {None}
    BY ParsecAssumption, FieldTypes DEF Typed
  <1>1. ASSUME NEW s \in Senders, Gone(vd[s].index), OthersStay(s), vd'[s].index = None PROVE IndexIsOwn'
    BY <1>1 DEF Gone
  <1>2. ASSUME NEW s \in Senders, Prepare(s) PROVE IndexIsOwn'
    BY <1>1, <1>2, PrepareDoes
  <1>3. ASSUME NEW s \in Senders, Add(s) PROVE IndexIsOwn'
    BY <1>3, AddDoes DEF PlacedOrOut
  <1>4. ASSUME NEW s \in Senders, Placing(s) PROVE IndexIsOwn'
    BY <1>4, PlacingDoes DEF Placed
  <1>5. ASSUME NEW s \in Senders, Failing(s) PROVE IndexIsOwn'
    BY <1>1, <1>5, GiveBackDoes DEF Failing
  <1>6. ASSUME NEW s \in Senders, Close(s) PROVE IndexIsOwn'
    BY <1>1, <1>6, CloseDoes
  <1>7. ASSUME NEW s \in Senders, Die(s) PROVE IndexIsOwn'
    BY <1>7, DieDoes, DeathIs
  <1>8. ASSUME NEW n \in Slots, Appear(n) \/ Vanish(n) \/ \E p \in Places : Drag(n, p)
        PROVE  IndexIsOwn'
    BY <1>8, AppearDoes, VanishDoes, DragDoes
  <1>9. ASSUME NEW s \in Senders, Asking(s) \/ Claim(s) \/ Load(s) \/ Claimed(s) \/ Resting(s)
        PROVE  IndexIsOwn'
    <2>1. UNCHANGED slot /\ vd'[s].index = vd[s].index /\ \A t \in Senders \ {s} : vd'[t] = vd[t]
      BY <1>9, AsksDoes, ClaimDoes, LoadDoes, ClaimedDoes, RestMoves, RestKeeps DEF Asking, DisplayStays
    <2> QED BY <2>1
  <1>10. ~Standby
    BY StandbyDoes
  <1> QED BY <1>2, <1>3, <1>4, <1>5, <1>6, <1>7, <1>8, <1>9, <1>10, Kinds

\* The monitor a sender claims is the one it added.
LEMMA NewIsOwn ==
  ASSUME Base, Owned, NEW s \in Senders, at[s] = "wait", NEW n \in Attached \ vd[s].before
  PROVE  vd[s].index = n /\ slot[n].size = None
  BY DEF Owned, SeenBefore, Attached

LEMMA NameNext ==
  ASSUME Base, Owned, [Next]_vars, ~torn'
  PROVE  NameIsIndex'
  <1> USE DEF Owned, NameIsIndex, OthersStay
  <1> Typed
    BY DEF Base
  <1>1. ASSUME NEW s \in Senders, Asking(s) PROVE NameIsIndex'
    BY <1>1, AsksDoes DEF Asking, DisplayStays
  <1>2. ASSUME NEW s \in Senders, Prepare(s) PROVE NameIsIndex'
    BY <1>2, PrepareDoes
  <1>3. ASSUME NEW s \in Senders, Add(s) PROVE NameIsIndex'
    BY <1>3, AddDoes
  <1>4. ASSUME NEW s \in Senders, Claim(s) PROVE NameIsIndex'
    BY <1>4, ClaimDoes, NewIsOwn
  <1>5. ASSUME NEW s \in Senders, Load(s) \/ Claimed(s) PROVE NameIsIndex'
    BY <1>5, LoadDoes, ClaimedDoes
  <1>6. ASSUME NEW s \in Senders, Placing(s) PROVE NameIsIndex'
    BY <1>6, PlacingDoes
  <1>7. ASSUME NEW s \in Senders, Failing(s) \/ Close(s) \/ Die(s) PROVE NameIsIndex'
    BY <1>7, GiveBackDoes, CloseDoes, DieDoes DEF Failing
  <1>8. ASSUME NEW s \in Senders, Resting(s) PROVE NameIsIndex'
    BY <1>8, RestMoves, RestKeeps
  <1>9. ASSUME NEW n \in Slots, Appear(n) \/ Vanish(n) \/ \E p \in Places : Drag(n, p)
        PROVE  UNCHANGED <<at, vd>>
    BY <1>9, AppearDoes, VanishDoes, DragDoes
  <1>10. ~Standby
    BY StandbyDoes
  <1> QED BY <1>1, <1>2, <1>3, <1>4, <1>5, <1>6, <1>7, <1>8, <1>9, <1>10, Kinds

\* A sender that places its monitor does not see it leave.
LEMMA PlacesOwn ==
  ASSUME Base, Owned, NEW s \in Senders, at[s] \in {"apply", "attach"}
  PROVE  vd[s].name = vd[s].index /\ vd[s].name \in Slots /\ ~slot[vd[s].name].leaving
  <1>1. vd[s].name = vd[s].index /\ vd[s].index \in Slots
    BY FieldTypes DEF Base, Owned, NameIsIndex, IndexInPlace, Claimant, Typed
  <1>2. slot[vd[s].index].by = s /\ slot[vd[s].index].plug
    <2>1. slot[vd[s].index].by = s /\ s # None
      BY <1>1, ParsecAssumption DEF Owned, IndexIsOwn
    <2> QED BY <1>1, <2>1 DEF Base, PlacedOrOut
  <1>3. slot[vd[s].index].leaving => at[s] = "wait"
    <2>1. slot[vd[s].index].leaving => Awaited(vd[s].index)
      BY <1>2 DEF Awaited
    <2> QED BY <1>1, <1>2, <2>1 DEF Owned, ComingIsAwaited
  <1> QED BY <1>1, <1>3

LEMMA LeavingNext ==
  ASSUME Base, Owned, [Next]_vars, ~torn'
  PROVE  LeavingIsUp'
  <1> USE DEF Base, Owned, LeavingIsUp, OnlySlot
  <1>1. ASSUME NEW s \in Senders, Gone(vd[s].index) PROVE LeavingIsUp'
    BY <1>1, ParsecAssumption DEF Gone
  <1>2. ASSUME NEW s \in Senders, Prepare(s) PROVE LeavingIsUp'
    BY <1>1, <1>2, PrepareDoes
  <1>3. ASSUME NEW s \in Senders, Add(s) PROVE LeavingIsUp'
    BY <1>3, AddDoes
  <1>4. ASSUME NEW s \in Senders, Placing(s) PROVE LeavingIsUp'
    BY <1>4, PlacingDoes, PlacesOwn DEF Placed
  <1>5. ASSUME NEW s \in Senders, Failing(s) PROVE LeavingIsUp'
    BY <1>1, <1>5, GiveBackDoes DEF Failing
  <1>6. ASSUME NEW s \in Senders, Close(s) PROVE LeavingIsUp'
    BY <1>1, <1>6, CloseDoes
  <1>7. ASSUME NEW s \in Senders, Die(s) PROVE LeavingIsUp'
    BY <1>7, DeathIs
  <1>8. ASSUME NEW n \in Slots, Appear(n) \/ Vanish(n) \/ \E p \in Places : Drag(n, p)
        PROVE  LeavingIsUp'
    BY <1>8, AppearDoes, VanishDoes, DragDoes
  <1>9. ASSUME NEW s \in Senders, Asking(s) \/ Claim(s) \/ Load(s) \/ Claimed(s) \/ Resting(s)
        PROVE  UNCHANGED slot
    BY <1>9, AsksDoes, ClaimDoes, LoadDoes, ClaimedDoes, RestMoves DEF Asking
  <1>10. ~Standby
    BY StandbyDoes
  <1> QED BY <1>2, <1>3, <1>4, <1>5, <1>6, <1>7, <1>8, <1>9, <1>10, Kinds


\* A slot that is to come up is awaited: only a sender in the wait has one.
LEMMA AwaitedIs ==
  ASSUME Base, Owned, NEW n \in Slots, Awaited(n)
  PROVE  /\ slot[n].by \in Senders /\ at[slot[n].by] = "wait" /\ lock = slot[n].by
         /\ vd[slot[n].by].index = n
         /\ slot[n].leaving => n \in vd[slot[n].by].before
  BY ParsecAssumption DEF Base, Owned, ComingIsAwaited, OneHolder, Holding, NoneLeaks

\* Every slot that is awaited after a step was so before it, or is added by it.
LEMMA ComingNext ==
  ASSUME Base, Owned, [Next]_vars, ~torn'
  PROVE  ComingIsAwaited'
  <1> USE DEF OnlySlot, OthersStay
  <1> Typed
    BY DEF Base
  <1>1. ASSUME NEW s \in Senders, at[s] # "wait", OthersStay(s),
               \A n \in Slots : Awaited(n)' => /\ Awaited(n) /\ slot'[n].by = slot[n].by
                                               /\ slot'[n].leaving => slot[n].leaving
        PROVE  ComingIsAwaited'
    <2>1. ASSUME NEW n \in Slots, Awaited(n)'
          PROVE  /\ slot'[n].by \in Senders /\ at'[slot'[n].by] = "wait"
                 /\ slot'[n].leaving => n \in vd'[slot'[n].by].before
      <3>1. Awaited(n) /\ slot'[n].by = slot[n].by /\ (slot'[n].leaving => slot[n].leaving)
        BY <1>1, <2>1
      <3>2. /\ slot[n].by \in Senders /\ at[slot[n].by] = "wait"
            /\ slot[n].leaving => n \in vd[slot[n].by].before
        BY <3>1, AwaitedIs
      <3> QED BY <1>1, <3>1, <3>2
    <2> QED BY <2>1 DEF ComingIsAwaited
  <1>2. ASSUME NEW s \in Senders, at[s] # "wait", OthersStay(s), Gone(vd[s].index)
        PROVE  ComingIsAwaited'
    <2>1. ASSUME NEW n \in Slots, Awaited(n)' PROVE slot'[n] = slot[n]
      BY <1>2, <2>1, ParsecAssumption DEF Gone, Awaited
    <2>2. ASSUME NEW n \in Slots, Awaited(n)' PROVE Awaited(n)
      BY <2>1, <2>2 DEF Awaited
    <2> QED BY <1>1, <1>2, <2>1, <2>2
  <1>3. ASSUME NEW s \in Senders, Asking(s) PROVE ComingIsAwaited'
    BY <1>1, <1>3, AsksDoes DEF Asking, Awaited
  <1>4. ASSUME NEW s \in Senders, Prepare(s) PROVE ComingIsAwaited'
    BY <1>1, <1>2, <1>4, PrepareDoes DEF Awaited
  <1>5. ASSUME NEW s \in Senders, Add(s) PROVE ComingIsAwaited'
    <2>1. at[s] = "add" /\ OthersStay(s)
      BY <1>5, AddDoes
    <2>2. CASE slot' = slot
      BY <1>1, <2>1, <2>2 DEF Awaited
    <2>3. CASE slot' # slot
      <3>1. PICK n \in Slots :
                /\ OnlySlot(n) /\ slot'[n].by = s /\ at'[s] = "wait" /\ vd'[s].before = vd[s].before
                /\ slot'[n].leaving = slot[n].leaving
        BY <1>5, <2>3, AddDoes
      <3>2. slot'[n].leaving => n \in vd'[s].before
        BY <2>1, <3>1 DEF Owned, LeavingIsUp, SeenBefore
      <3>3. ASSUME NEW m \in Slots \ {n}, Awaited(m)'
            PROVE  /\ slot'[m].by \in Senders /\ at'[slot'[m].by] = "wait"
                   /\ slot'[m].leaving => m \in vd'[slot'[m].by].before
        BY <2>1, <3>1, <3>3, AwaitedIs DEF Awaited
      <3> QED BY <3>1, <3>2, <3>3 DEF ComingIsAwaited
    <2> QED BY <2>2, <2>3
  <1>6. ASSUME NEW s \in Senders, Claim(s) PROVE ComingIsAwaited'
    <2>1. /\ OthersStay(s) /\ at[s] = "wait" /\ UNCHANGED slot
          /\ vd'[s].name \in Attached \ vd[s].before
      BY <1>6, ClaimDoes
    <2>2. vd[s].index = vd'[s].name
      BY <2>1, NewIsOwn
    <2>3. ASSUME NEW n \in Slots, Awaited(n) PROVE slot[n].by # s
      <3> SUFFICES ASSUME slot[n].by = s PROVE FALSE
        OBVIOUS
      <3>1. n = vd'[s].name /\ (slot[n].leaving => n \in vd[s].before)
        BY <2>2, <2>3, AwaitedIs
      <3>2. slot[n].up /\ n \notin vd[s].before
        BY <2>1, <3>1 DEF Attached
      <3> QED BY <2>3, <3>1, <3>2 DEF Awaited, Base, PlacedOrOut
    <2> QED BY <2>1, <2>3, AwaitedIs DEF ComingIsAwaited, Awaited
  <1>7. ASSUME NEW s \in Senders, Load(s) \/ Claimed(s) PROVE ComingIsAwaited'
    BY <1>1, <1>7, LoadDoes, ClaimedDoes DEF Awaited
  <1>8. ASSUME NEW s \in Senders, Placing(s) PROVE ComingIsAwaited'
    <2>1. at[s] # "wait" /\ OthersStay(s)
      BY <1>8, PlacingDoes
    <2>2. CASE slot' = slot
      BY <1>1, <2>1, <2>2 DEF Awaited
    <2>3. CASE slot' # slot
      <3>1. Placed(vd[s].name) /\ ~slot[vd[s].name].leaving
        BY <1>8, <2>3, PlacingDoes, PlacesOwn
      <3>2. slot'[vd[s].name].pos # None
        BY <1>8, <2>3, PlacingDoes, ParsecAssumption DEF Base, IndexInPlace
      <3> QED BY <1>1, <2>1, <3>1, <3>2 DEF Placed, Awaited
    <2> QED BY <2>2, <2>3
  <1>9. ASSUME NEW s \in Senders, Failing(s) PROVE ComingIsAwaited'
    <2>1. OthersStay(s) /\ Gone(vd[s].index) /\ vd[s].index # None
      BY <1>9, GiveBackDoes DEF Failing, Base, IndexInPlace, Claimant
    <2>2. ASSUME NEW n \in Slots, Awaited(n)' PROVE slot'[n] = slot[n] /\ n # vd[s].index
      BY <2>1, <2>2 DEF Gone, Awaited
    <2> QED BY <2>1, <2>2, AwaitedIs DEF ComingIsAwaited, Awaited
  <1>10. ASSUME NEW s \in Senders, Close(s) PROVE ComingIsAwaited'
    BY <1>2, <1>10, CloseDoes
  <1>11. ASSUME NEW s \in Senders, Die(s) PROVE ComingIsAwaited'
    <2>1. at[s] # "wait" /\ OthersStay(s)
      BY <1>11, DieDoes
    <2>2. ASSUME NEW n \in Slots, Awaited(n)'
          PROVE  Awaited(n) /\ slot'[n].by = slot[n].by /\ slot'[n].leaving = slot[n].leaving
      <3>1. Awaited(n)
        BY <1>11, <2>2, DeathIs DEF Awaited
      <3> QED BY <1>11, <2>1, <3>1, DeathIs, AwaitedIs
    <2> QED BY <1>1, <2>1, <2>2
  <1>12. ASSUME NEW s \in Senders, Resting(s) PROVE ComingIsAwaited'
    <2>1. ASSUME NEW n \in Slots, Awaited(n)' PROVE Awaited(n) /\ slot'[n] = slot[n]
      BY <1>12, <2>1, RestMoves DEF Awaited
    <2>2. /\ \A t \in Senders \ {s} : at'[t] = at[t] /\ vd'[t] = vd[t]
          /\ at[s] = "wait" => at'[s] = "wait" /\ vd'[s].before = vd[s].before
      BY <1>12, RestMoves, RestKeeps
    <2> QED BY <2>1, <2>2, AwaitedIs DEF ComingIsAwaited
  <1>13. ASSUME NEW n \in Slots, Appear(n) \/ Vanish(n) \/ \E p \in Places : Drag(n, p)
         PROVE  ComingIsAwaited'
    <2>1. OnlySlot(n) /\ UNCHANGED <<at, vd>>
      BY <1>13, AppearDoes, VanishDoes, DragDoes
    <2>2. Awaited(n)' => /\ Awaited(n) /\ slot'[n].by = slot[n].by
                         /\ slot'[n].leaving => slot[n].leaving
      BY <1>13, AppearDoes, VanishDoes, DragDoes, ParsecAssumption DEF Awaited, Owned, LeavingIsUp
    <2>3. ASSUME NEW m \in Slots, Awaited(m)'
          PROVE  /\ Awaited(m) /\ slot'[m].by = slot[m].by /\ (slot'[m].leaving => slot[m].leaving)
      BY <2>1, <2>2, <2>3 DEF Awaited
    <2> QED BY <2>1, <2>3, AwaitedIs DEF ComingIsAwaited
  <1>14. ASSUME UNCHANGED <<slot, lock, at, vd, declined>> PROVE ComingIsAwaited'
    BY <1>14 DEF Owned, ComingIsAwaited, Awaited
  <1>15. ~Standby
    BY StandbyDoes
  <1> QED BY <1>3, <1>4, <1>5, <1>6, <1>7, <1>8, <1>9, <1>10, <1>11, <1>12, <1>13, <1>14, <1>15, Kinds

\* Nothing but the display that its sender waits for comes up under the lock.
LEMMA SeenNext ==
  ASSUME Base, Owned, [Next]_vars, ~torn'
  PROVE  SeenBefore'
  <1> USE DEF OnlySlot, OthersStay
  <1> Typed
    BY DEF Base
  <1>1. ASSUME NEW s \in Senders, OthersStay(s), at'[s] \notin {"add", "wait"},
               \A n \in Slots : slot'[n].up => slot[n].up /\ slot'[n].size = slot[n].size
        PROVE  SeenBefore'
    BY <1>1 DEF Owned, SeenBefore
  <1>2. ASSUME NEW s \in Senders, OthersStay(s), at'[s] \notin {"add", "wait"}, Gone(vd[s].index)
        PROVE  SeenBefore'
    <2>1. ASSUME NEW n \in Slots, slot'[n].up PROVE slot[n].up /\ slot'[n].size = slot[n].size
      BY <1>2, <2>1, ParsecAssumption DEF Gone
    <2> QED BY <1>1, <1>2, <2>1
  <1>3. ASSUME NEW s \in Senders, Asking(s) PROVE SeenBefore'
    BY <1>1, <1>3, AsksDoes DEF Asking
  <1>4. ASSUME NEW s \in Senders, Prepare(s) PROVE SeenBefore'
    BY <1>1, <1>2, <1>4, PrepareDoes
  <1>5. ASSUME NEW s \in Senders, Add(s) PROVE SeenBefore'
    <2>1. at[s] = "add" /\ OthersStay(s) /\ \A t \in Senders \ {s} : at[t] \notin {"add", "wait"}
      BY <1>5, AddDoes DEF Base, OneHolder, Holding
    <2>2. \A n \in Slots : slot'[n].up => slot[n].up
      BY <1>5, AddDoes
    <2>3. at'[s] # "add" /\ (at'[s] = "wait" => vd'[s].before = vd[s].before)
      BY <1>5, AddDoes
    <2> QED BY <2>1, <2>2, <2>3 DEF Owned, SeenBefore
  <1>6. ASSUME NEW s \in Senders, Claim(s) \/ Load(s) \/ Claimed(s) PROVE SeenBefore'
    BY <1>1, <1>6, ClaimDoes, LoadDoes, ClaimedDoes
  <1>7. ASSUME NEW s \in Senders, Placing(s) PROVE SeenBefore'
    <2>1. /\ at[s] \in {"apply", "attach"} /\ at'[s] \in {"attach", "again"} /\ OthersStay(s)
      BY <1>7, PlacingDoes
    <2>2. \A t \in Senders : at'[t] \notin {"add", "wait"}
      BY <2>1 DEF Base, OneHolder, Holding
    <2> QED BY <2>2 DEF SeenBefore
  <1>8. ASSUME NEW s \in Senders, Failing(s) \/ Close(s) PROVE SeenBefore'
    BY <1>2, <1>8, GiveBackDoes, CloseDoes DEF Failing
  <1>9. ASSUME NEW s \in Senders, Die(s) PROVE SeenBefore'
    BY <1>1, <1>9, DieDoes, DeathIs
  <1>10. ASSUME NEW s \in Senders, Resting(s) PROVE SeenBefore'
    <2>1. /\ UNCHANGED slot /\ \A t \in Senders \ {s} : at'[t] = at[t] /\ vd'[t] = vd[t]
          /\ vd'[s].index = vd[s].index /\ (at'[s] = "wait" => at[s] = "wait")
          /\ \/ at[s] = "snapshot" /\ at'[s] = "add" /\ vd'[s].before = Attached
             \/ vd'[s].before = vd[s].before /\ (at'[s] = "add" => at[s] = "add")
      BY <1>10, RestMoves, RestKeeps
    <2> QED BY <2>1 DEF Owned, SeenBefore, Attached
  <1>11. ASSUME NEW n \in Slots, Appear(n) PROVE SeenBefore'
    <2>1. /\ OnlySlot(n) /\ UNCHANGED <<at, vd>> /\ slot'[n].size = slot[n].size
          /\ Awaited(n) /\ slot[n].pos = None
      BY <1>11, AppearDoes DEF Awaited
    <2>2. PICK t \in Senders : at[t] = "wait" /\ lock = t /\ vd[t].index = n
      BY <2>1, AwaitedIs
    <2>3. slot'[n].size = None
      BY <2>1 DEF Base, PlacedOrOut
    <2>4. \A s \in Senders \ {t} : at[s] \notin {"add", "wait"}
      BY <2>2 DEF Base, OneHolder, Holding
    <2> QED BY <2>1, <2>2, <2>3, <2>4 DEF Owned, SeenBefore
  <1>12. ASSUME NEW n \in Slots, Vanish(n) \/ \E p \in Places : Drag(n, p) PROVE SeenBefore'
    <2>1. /\ UNCHANGED <<at, vd>>
          /\ \A m \in Slots : slot'[m].up => slot[m].up /\ slot'[m].size = slot[m].size
      BY <1>12, VanishDoes, DragDoes
    <2> QED BY <2>1 DEF Owned, SeenBefore
  <1>13. ASSUME UNCHANGED <<slot, lock, at, vd, declined>> PROVE SeenBefore'
    BY <1>13 DEF Owned, SeenBefore
  <1>14. ~Standby
    BY StandbyDoes
  <1> QED BY <1>3, <1>4, <1>5, <1>6, <1>7, <1>8, <1>9, <1>10, <1>11, <1>12, <1>13, <1>14, Kinds

\* A display has the size its sender asked for last, whoever takes what slot.
LEMMA SizeNext ==
  ASSUME Base, Owned, [Next]_vars, ~torn'
  PROVE  SizeIsTarget'
  <1> USE DEF OnlySlot, OthersStay
  <1> Typed /\ None \notin Slots \cup Senders
    BY ParsecAssumption DEF Base
  <1>1. ASSUME NEW s \in Senders, OthersStay(s), declined \subseteq declined',
               \A n \in Slots : slot'[n].size \in {slot[n].size, None} \/ n = vd[s].index,
               s \notin declined' =>
                   /\ \/ at'[s] = "wait" \/ vd'[s].index = None
                      \/ /\ vd'[s].index \in Slots
                         /\ slot'[vd'[s].index].size \in {vd'[s].target, None}
                   /\ \/ at'[s] \in Adding \cup Claimant \cup {"wait"}
                      \/ at'[s] = "prepare" /\ vd'[s].why = "loss"
                      => vd'[s].target = vd'[s].want
        PROVE  SizeIsTarget'
    <2>1. ASSUME NEW t \in Senders \ {s}, t \notin declined', at'[t] # "wait",
                 NEW n \in Slots, vd'[t].index = n
          PROVE  slot'[n].size \in {vd'[t].target, None}
      <3>1. vd[t].index = n /\ t \notin declined /\ at[t] # "wait" /\ vd'[t] = vd[t]
        BY <1>1, <2>1
      <3>2. n # vd[s].index
        BY <3>1 DEF Owned, IndexIsOwn
      <3> QED BY <1>1, <3>1, <3>2 DEF Owned, SizeIsTarget
    <2>2. ASSUME NEW t \in Senders \ {s}, t \notin declined',
                 \/ at'[t] \in Adding \cup Claimant \cup {"wait"}
                 \/ at'[t] = "prepare" /\ vd'[t].why = "loss"
          PROVE  vd'[t].target = vd'[t].want
      BY <1>1, <2>2 DEF Owned, SizeIsTarget
    <2> QED BY <1>1, <2>1, <2>2 DEF SizeIsTarget
  <1>2. ASSUME NEW s \in Senders, OthersStay(s), declined \subseteq declined',
               Gone(vd[s].index), vd'[s].index = None,
               \/ vd'[s].target = vd'[s].want
               \/ at'[s] \in {"idle", "pause", "closed"}
        PROVE  SizeIsTarget'
    <2>1. ASSUME NEW n \in Slots PROVE slot'[n].size \in {slot[n].size, None} \/ n = vd[s].index
      BY <1>2 DEF Gone
    <2> QED BY <1>1, <1>2, <2>1 DEF Adding, Claimant
  <1>3. ASSUME NEW s \in Senders, s \notin declined
        PROVE  /\ at[s] = "wait" \/ vd[s].index = None
                  \/ (vd[s].index \in Slots /\ slot[vd[s].index].size \in {vd[s].target, None})
               /\ \/ at[s] \in Adding \cup Claimant \cup {"wait"}
                  \/ at[s] = "prepare" /\ vd[s].why = "loss"
                  => vd[s].target = vd[s].want
    BY <1>3, FieldTypes DEF Owned, SizeIsTarget, Typed
  <1>4. ASSUME NEW s \in Senders, Asking(s) PROVE SizeIsTarget'
    <2>1. /\ OthersStay(s) /\ vd'[s].index = vd[s].index /\ vd'[s].target = vd[s].target
          /\ at[s] \in {"idle", "stream"} /\ at'[s] = "prepare" /\ UNCHANGED <<slot, declined>>
          /\ vd'[s].why = "loss" => at[s] = "stream" /\ vd'[s].want = vd[s].want
      BY <1>4, AsksDoes DEF Asking, DisplayStays
    <2> QED BY <1>1, <1>3, <2>1 DEF Adding, Claimant
  <1>5. ASSUME NEW s \in Senders, Prepare(s) PROVE SizeIsTarget'
    <2>1. CASE at'[s] = "dup"
      <3>1. /\ OthersStay(s) /\ at[s] = "prepare" /\ UNCHANGED <<slot, vd, declined>>
            /\ Kept(s) \/ Reusable(s)
        BY <1>5, <2>1, PrepareDoes
      <3> QED BY <1>1, <1>3, <2>1, <3>1 DEF Kept, Reusable
    <2>2. CASE at'[s] # "dup"
      BY <1>2, <1>5, <2>2, PrepareDoes
    <2> QED BY <2>1, <2>2
  <1>6. ASSUME NEW s \in Senders, Add(s) PROVE SizeIsTarget'
    <2>1. /\ OthersStay(s) /\ at[s] = "add" /\ UNCHANGED declined
          /\ vd'[s].target = vd[s].target /\ vd'[s].want = vd[s].want
          /\ \A n \in Slots : slot'[n].size = slot[n].size
          /\ at'[s] \in {"wait", "idle", "pause"}
          /\ at'[s] # "wait" => vd'[s].index = vd[s].index
      BY <1>6, AddDoes
    <2>2. vd[s].index = None
      BY <2>1 DEF Base, IndexInPlace, Adding
    <2> QED BY <1>1, <1>3, <2>1, <2>2 DEF Adding, Claimant
  <1>7. ASSUME NEW s \in Senders, Claim(s) PROVE SizeIsTarget'
    <2>1. /\ OthersStay(s) /\ at[s] = "wait" /\ at'[s] = "load" /\ UNCHANGED <<slot, declined>>
          /\ vd'[s].index = vd[s].index /\ vd'[s].target = vd[s].target /\ vd'[s].want = vd[s].want
          /\ vd'[s].name \in Attached \ vd[s].before
      BY <1>7, ClaimDoes
    <2>2. vd[s].index \in Slots /\ slot[vd[s].index].size = None
      BY <2>1, NewIsOwn DEF Attached
    <2> QED BY <1>1, <1>3, <2>1, <2>2
  <1>8. ASSUME NEW s \in Senders, Load(s) \/ Claimed(s) PROVE SizeIsTarget'
    <2>1. /\ OthersStay(s) /\ at[s] \in {"load", "attach", "again"} /\ UNCHANGED <<slot, declined>>
          /\ vd'[s].index = vd[s].index /\ vd'[s].target = vd[s].target /\ vd'[s].want = vd[s].want
      BY <1>8, LoadDoes, ClaimedDoes
    <2> QED BY <1>1, <1>3, <2>1 DEF Claimant
  <1>9. ASSUME NEW s \in Senders, Placing(s) PROVE SizeIsTarget'
    <2>1. /\ OthersStay(s) /\ at[s] \in {"apply", "attach"} /\ UNCHANGED <<vd, declined>>
          /\ vd[s].name = vd[s].index /\ vd[s].name \in Slots
      BY <1>9, PlacingDoes, PlacesOwn
    <2>2. slot' = slot \/ (OnlySlot(vd[s].name) /\ slot'[vd[s].name].size = vd[s].target)
      BY <1>9, PlacingDoes DEF Placed
    <2>3. ASSUME NEW n \in Slots PROVE slot'[n].size \in {slot[n].size, None} \/ n = vd[s].index
      BY <2>1, <2>2
    <2> QED BY <1>1, <1>3, <2>1, <2>2, <2>3 DEF Claimant
  <1>10. ASSUME NEW s \in Senders, Failing(s) \/ Close(s) PROVE SizeIsTarget'
    BY <1>2, <1>10, GiveBackDoes, CloseDoes DEF Failing
  <1>11. ASSUME NEW s \in Senders, Die(s) PROVE SizeIsTarget'
    <2>1. /\ OthersStay(s) /\ at'[s] = "closed" /\ UNCHANGED declined /\ vd'[s].index = None
          /\ \A n \in Slots : slot'[n].size = slot[n].size
      BY <1>11, DieDoes, DeathIs
    <2> QED BY <1>1, <2>1 DEF Adding, Claimant
  <1>12. ASSUME NEW s \in Senders, Resting(s) PROVE SizeIsTarget'
    <2>1. /\ UNCHANGED slot /\ OthersStay(s)
          /\ at[s] = "wait" <=> at'[s] = "wait"
          /\ \/ at'[s] = at[s] \/ at'[s] \in {"idle", "pause"}
             \/ at[s] \in Adding /\ at'[s] \in Adding
             \/ at[s] = "dup" /\ at'[s] = "stream"
      BY <1>12, RestMoves, RestKeeps
    <2>2. /\ vd'[s].index = vd[s].index /\ vd'[s].want = vd[s].want /\ vd'[s].why = vd[s].why
          /\ \/ vd'[s].target = vd[s].target /\ UNCHANGED declined
             \/ declined' = declined \cup {s}
      BY <1>12, RestKeeps
    <2> QED BY <1>1, <1>3, <2>1, <2>2 DEF Adding, Claimant
  <1>13. ASSUME NEW n \in Slots, Appear(n) \/ Vanish(n) \/ \E p \in Places : Drag(n, p)
         PROVE  SizeIsTarget'
    <2>1. /\ UNCHANGED <<at, vd, declined>>
          /\ \A m \in Slots : slot'[m].size \in {slot[m].size, None}
      BY <1>13, AppearDoes, VanishDoes, DragDoes
    <2> QED BY <2>1 DEF Owned, SizeIsTarget
  <1>14. ASSUME UNCHANGED <<slot, lock, at, vd, declined>> PROVE SizeIsTarget'
    BY <1>14 DEF Owned, SizeIsTarget
  <1>15. ~Standby
    BY StandbyDoes
  <1> QED BY <1>4, <1>5, <1>6, <1>7, <1>8, <1>9, <1>10, <1>11, <1>12, <1>13, <1>14, <1>15, Kinds

LEMMA OwnedNext ==
  ASSUME Base, Owned, [Next]_vars, ~torn'
  PROVE  Owned'
  <1>1. IndexIsOwn' /\ NameIsIndex' /\ LeavingIsUp'
    BY OwnNext, NameNext, LeavingNext
  <1>2. ComingIsAwaited' /\ SeenBefore' /\ SizeIsTarget'
    BY ComingNext, SeenNext, SizeNext
  <1> QED BY <1>1, <1>2 DEF Owned

-----------------------------------------------------------------------------
(* The invariant, and what it is for.                                      *)

LEMMA InitInv == Init => Inv
  <1> SUFFICES ASSUME Init PROVE Inv
    OBVIOUS
  <1> USE DEF Init
  <1>1. \A n \in Slots : /\ slot[n] = Out /\ slot[n] \in Slot /\ ~slot[n].plug /\ ~slot[n].up
                         /\ ~slot[n].leaving /\ slot[n].pos = None /\ slot[n].size = None
                         /\ slot[n].by = None
    BY DEF Out, Slot
  <1>2. \A s \in Senders : /\ vd[s] = Fresh /\ vd[s].index = None /\ at[s] \in {"idle", "closed"}
    BY DEF Fresh
  <1>3. Typed
    <2>1. left \in Budget /\ shared \in Places \cup {None}
      BY ParsecAssumption DEF Budget
    <2> QED BY <1>1, <2>1, FreshTyped DEF Typed, Where
  <1>4. BlindTyped /\ LockedHolds /\ OneHolder /\ IndexInPlace /\ PlacedOrOut /\ NoneLeaks
    BY <1>1, <1>2 DEF BlindTyped, LockedHolds, OneHolder, Holding, IndexInPlace, Adding, Claimant,
                      PlacedOrOut, NoneLeaks
  <1>5. IndexIsOwn /\ NameIsIndex /\ LeavingIsUp /\ ComingIsAwaited /\ SeenBefore /\ SizeIsTarget
    BY <1>1, <1>2, ParsecAssumption
       DEF IndexIsOwn, NameIsIndex, LeavingIsUp, ComingIsAwaited, Awaited, SeenBefore,
           SizeIsTarget, Adding, Claimant
  <1> QED BY <1>3, <1>4, <1>5 DEF Inv, Base, Owned

LEMMA InvNext ==
  ASSUME Inv, [Next]_vars
  PROVE  Inv'
  BY BaseNext, OwnedNext, TornStays DEF Inv

LEMMA InvMeans ==
  ASSUME Inv
  PROVE  MonitorOwned /\ NoneLeaks
  <1>1. TypeOK /\ NoneLeaks
    BY TypesAre DEF Inv, Base
  <1>2. ASSUME Owned, NEW s \in Senders, at[s] = "stream"
        PROVE  /\ slot[vd[s].name].by = s
               /\ s \notin declined => slot[vd[s].name].size \in {vd[s].want, None}
    <2>1. vd[s].name = vd[s].index /\ vd[s].index \in Slots
      BY <1>2, FieldTypes DEF Inv, Base, Typed, IndexInPlace, Claimant, Owned, NameIsIndex
    <2> QED BY <1>2, <2>1 DEF Owned, IndexIsOwn, SizeIsTarget, Claimant
  <1>3. Owned => OwnMonitor /\ SizeFits
    BY <1>2 DEF OwnMonitor, SizeFits
  <1> QED BY <1>1, <1>3 DEF Inv, MonitorOwned

THEOREM InvHolds == Spec => []Inv
  <1>1. Init => Inv
    BY InitInv
  <1>2. Inv /\ [Next]_vars => Inv'
    BY InvNext
  <1> QED BY <1>1, <1>2, PTL DEF Spec

\* Whatever the senders, Windows, the user and the driver do, and whoever dies:
\* a display that is plugged in is some living sender's to remove.  Failed
\* claims, rotations and stops remove what they lose hold of
\* (VirtualDisplay.cpp: Remove, Close).
THEOREM NothingLeaks == Spec => []NoneLeaks
  <1>1. Inv => NoneLeaks
    BY InvMeans
  <1> QED BY <1>1, InvHolds, PTL

\* A sender that streams is on the display its own add produced, in the size it
\* last asked for, standby, a death between an add and its claim and refused
\* modes apart: the machine-wide mutex from the snapshot to the claim is enough
\* for any number of senders and slots (VirtualDisplay.cpp: EnsureResolution).
THEOREM MonitorIsOwned == Spec => []MonitorOwned
  <1>1. Inv => MonitorOwned
    BY InvMeans
  <1> QED BY <1>1, InvHolds, PTL

\* Two senders never capture the same monitor, the case the code's comment is
\* about (VirtualDisplay.cpp:73-76), unless standby has dropped a display or a
\* sender died between its add and its claim: those are the only ways, and a
\* lost capture as such (DisplayBackend.cpp:294) is none.
THEOREM SharedOnlyTorn ==
  Spec => [](\/ torn
             \/ \A s, t \in Senders :
                   s # t /\ Captures(s) /\ Captures(t) => vd[s].name # vd[t].name)
  <1>1. Inv => \/ torn
               \/ \A s, t \in Senders :
                     s # t /\ Captures(s) /\ Captures(t) => vd[s].name # vd[t].name
    <2> SUFFICES ASSUME Inv, ~torn, NEW s \in Senders, NEW t \in Senders, s # t,
                        at[s] = "stream", at[t] = "stream"
                 PROVE  vd[s].name # vd[t].name
      BY DEF Captures
    <2>1. slot[vd[s].name].by = s /\ slot[vd[t].name].by = t
      BY InvMeans DEF MonitorOwned, OwnMonitor
    <2> QED BY <2>1
  <1> QED BY <1>1, InvHolds, PTL
=============================================================================
