--------------------------- MODULE ParsecMonitors ---------------------------
(***************************************************************************)
(* The parsec-vdd monitors: every sender plugs one of its own into a slot  *)
(* of the driver and claims the display name that comes up, under a        *)
(* machine-wide mutex.  A slot's name is permanent, so slots stand for     *)
(* names too.  Windows shows and drops monitors later than the driver      *)
(* plugs them; standby, the user and a crash interfere.  The position of   *)
(* a sender's monitor is kept in the registry, by a poll of its own.       *)
(***************************************************************************)
EXTENDS Integers, FiniteSets, FiniteSetsExt

CONSTANTS
    Senders, Slots,
    Places, Edge, \* where on the desktop; the right edge, the default
    None,
    Budgets      \* who runs, where Windows puts a new display, and how often
                 \* each thing outside the program may happen

ASSUME ParsecAssumption ==
    /\ Slots \subseteq Nat /\ IsFiniteSet(Slots)
    /\ Edge \in Places /\ None \notin Senders \cup Slots \cup Places
    /\ Budgets \subseteq [who : SUBSET Senders, lands : SUBSET Places, shared : Places \cup {None},
                          rotate : Nat, link : Nat, declined : Nat, late : Nat, refused : Nat,
                          start : Nat, stop : Nat, die : Nat, standby : Nat, drag : Nat,
                          layout : Nat]

VARIABLES
    slot,        \* the driver's slots and Windows' monitors in them
    lock,        \* who owns Global\opendisplay-win-vdd-claim
    at,          \* where each worker is
    vd,          \* its VirtualDisplay
    saved,       \* monitorX_<identity>, monitorY_<identity>
    shared,      \* monitorX, monitorY of the one-iPad layout
    off,         \* the places that are off screen
    blind,       \* whose capture has lost its output: ACCESS_LOST is next
    odd,         \* whose poll began from a place that is not stored (history)
    declined,    \* who was refused a new mode (history)
    torn,        \* standby, or a death in the middle of an add (history)
    left         \* the budget

vars == <<slot, lock, at, vd, saved, shared, off, blind, odd, declined, torn, left>>
stored == <<saved, shared, odd>>
events == <<off, blind, declined, torn>>
outside == <<off, blind, declined, torn, left>>

Where == {"closed", "idle", "pause", "prepare", "leaving", "lock", "snapshot", "add", "wait", "load",
          "apply", "attach", "again", "dup", "stream"}
Holding == {"snapshot", "add", "wait", "load", "apply", "attach", "again"}

\* The object as made: no index, no name.  A size is a panel, turned or not.
Fresh == [index |-> None, name |-> None, target |-> None, want |-> FALSE, why |-> "hello",
          before |-> {}, pos |-> None, last |-> None]
Out == [plug |-> FALSE, up |-> FALSE, leaving |-> FALSE, pos |-> None, size |-> None, by |-> None]

Attached == {n \in Slots : slot[n].up}
Go(s, l) == at' = [at EXCEPT ![s] = l]
Happens(e) == left[e] > 0 /\ left' = [left EXCEPT ![e] = @ - 1]

-----------------------------------------------------------------------------
(* The driver and Windows.                                                 *)

\* VddAddDisplay: some slot that is free.
Plugged(n, s) == [slot EXCEPT ![n].plug = TRUE, ![n].by = s]

\* VddRemoveDisplay: by index, whoever plugged it.
Unplugged(n) ==
    [slot EXCEPT ![n] = IF @.up THEN [@ EXCEPT !.plug = FALSE, !.leaving = TRUE, !.by = None] ELSE Out]

\* A plugged display comes up, somewhere, in some mode; an unplugged one goes.
Appear(n) ==
    /\ slot[n].plug /\ ~slot[n].up /\ slot[n].pos = None
    /\ \E p \in left.lands \ off : slot' = [slot EXCEPT ![n].up = TRUE, ![n].pos = p]
    /\ UNCHANGED <<lock, at, vd, stored, outside>>

\* A duplication does not outlive its output, whatever takes the name after.
BlindOn(shown) == blind \cup {s \in Senders : at[s] = "stream" /\ ~shown[vd[s].name].up}

Vanish(n) ==
    /\ slot[n].leaving
    /\ slot' = [slot EXCEPT ![n] = [Out EXCEPT !.plug = slot[n].plug, !.by = slot[n].by]]
    /\ blind' = BlindOn(slot')
    /\ UNCHANGED <<lock, at, vd, stored, off, declined, torn, left>>

Rect(n) == n # None /\ slot[n].up

-----------------------------------------------------------------------------
(* The worker, over its pipeline.                                          *)

\* A failed rebuild ends the session; after a failed first build of one, the
\* worker pauses before it dials again.
Fails(s) == Go(s, IF vd[s].why = "hello" THEN "pause" ELSE "idle")

\* What is awaited for some seconds comes later only now and then.
TooLate(coming) == IF coming THEN Happens("late") ELSE UNCHANGED left

Paused(s) ==
    /\ at[s] = "pause"
    /\ TooLate(\E n \in Slots : slot[n].leaving)
    /\ Go(s, "idle")
    /\ UNCHANGED <<slot, lock, vd, stored, events>>

\* A pipeline is built for this size, for this reason: the old capture goes,
\* then the backend prepares.
Asks(s, z, why) ==
    /\ Go(s, "prepare")
    /\ blind' = blind \ {s}
    /\ vd' = [vd EXCEPT ![s].want = z, ![s].why = why]

\* A hello arrives and the pipeline is built; a rotation rebuilds it.
Connect(s) ==
    /\ at[s] = "idle"
    /\ Asks(s, vd[s].want, "hello")
    /\ UNCHANGED <<slot, lock, stored, off, declined, torn, left>>

Rotate(s) ==
    /\ at[s] = "stream" /\ Happens("rotate")
    /\ Asks(s, ~vd[s].want, "turn")
    /\ UNCHANGED <<slot, lock, stored, off, declined, torn>>

\* ACCESS_LOST: a rebuild that only looks for the monitor.
CaptureLost(s) ==
    /\ at[s] = "stream" /\ s \in blind
    /\ Asks(s, vd[s].want, "loss")
    /\ UNCHANGED <<slot, lock, stored, off, declined, torn, left>>

LinkLost(s) ==
    /\ at[s] = "stream" /\ Happens("link")
    /\ Go(s, "idle")
    /\ UNCHANGED <<slot, lock, vd, stored, events>>

\* A capture rebuild looks only whether the name is there.
Kept(s) == vd[s].why = "loss" /\ Rect(vd[s].name)

(* Variant: without looking for the monitor. *)
ReusableBlindly(s) == vd[s].index # None /\ vd[s].target = vd[s].want

Reusable(s) == vd[s].index # None /\ vd[s].target = vd[s].want /\ Rect(vd[s].name)

\* EnsureResolution up to the claim: an old slot is given up and must leave
\* the desktop.
Renew(s) ==
    /\ vd' = [vd EXCEPT ![s].target = vd[s].want, ![s].index = None]
    /\ IF vd[s].index # None
       THEN slot' = Unplugged(vd[s].index) /\ Go(s, "leaving")
       ELSE Go(s, "lock") /\ UNCHANGED slot

\* ParsecBackend::Prepare.
Prepare(s) ==
    /\ at[s] = "prepare"
    /\ IF Kept(s) \/ Reusable(s) THEN Go(s, "dup") /\ UNCHANGED <<slot, vd>> ELSE Renew(s)
    /\ UNCHANGED <<lock, stored, outside>>

\* The size is no registered mode and the UAC prompt is declined.
Declined(s) ==
    /\ at[s] = "prepare" /\ ~Reusable(s) /\ ~Kept(s)
    /\ Happens("declined")
    /\ vd' = [vd EXCEPT ![s].target = vd[s].want]
    /\ declined' = declined \cup {s}
    /\ Fails(s)
    /\ UNCHANGED <<slot, lock, stored, off, blind, torn>>

Left(s) ==
    /\ at[s] = "leaving"
    /\ IF Rect(vd[s].name) THEN TooLate(slot[vd[s].name].leaving) ELSE UNCHANGED left
    /\ Go(s, "lock")
    /\ UNCHANGED <<slot, lock, vd, stored, events>>

\* VddClaimLock.
TakeLock(s) ==
    /\ at[s] = "lock" /\ lock = None
    /\ lock' = s
    /\ Go(s, "snapshot")
    /\ UNCHANGED <<slot, vd, stored, outside>>

(* Variant: goes ahead without the lock. *)
GoesAhead(s) ==
    /\ at[s] = "lock" /\ lock # None /\ Happens("late")
    /\ Go(s, "snapshot")
    /\ UNCHANGED <<slot, lock, vd, stored, events>>

LockTimesOut(s) ==
    /\ at[s] = "lock" /\ lock # None /\ Happens("late")
    /\ Fails(s)
    /\ UNCHANGED <<slot, lock, vd, stored, events>>

Snapshot(s) ==
    /\ at[s] = "snapshot"
    /\ vd' = [vd EXCEPT ![s].before = Attached]
    /\ Go(s, "add")
    /\ UNCHANGED <<slot, lock, stored, outside>>

Released(s) == IF lock = s THEN None ELSE lock

Add(s) ==
    /\ at[s] = "add"
    /\ LET free == {n \in Slots : ~slot[n].plug}
       IN  \/ /\ free = {}
              /\ lock' = Released(s) /\ Fails(s)
              /\ vd' = [vd EXCEPT ![s].before = {}]
              /\ UNCHANGED slot
           \/ \E n \in free :
                  /\ slot' = Plugged(n, s)
                  /\ vd' = [vd EXCEPT ![s].index = n]
                  /\ Go(s, "wait") /\ UNCHANGED lock
    /\ UNCHANGED <<stored, outside>>

\* FindMonitorGeometry: the first display that was not attached before.
Claim(s) ==
    /\ at[s] = "wait" /\ Attached \ vd[s].before # {}
    /\ vd' = [vd EXCEPT ![s].name = Min(Attached \ vd[s].before), ![s].before = {}]
    /\ Go(s, "load")
    /\ UNCHANGED <<slot, lock, stored, outside>>

(* Variant: forgets the display without dropping it. *)
Forgets(s) ==
    /\ UNCHANGED slot
    /\ vd' = [vd EXCEPT ![s].index = None, ![s].before = {}, ![s].pos = None]
    /\ lock' = Released(s)
    /\ Fails(s)

\* A failed claim drops the display, so that the next connect adds it anew.
GiveBack(s) ==
    /\ slot' = Unplugged(vd[s].index)
    /\ vd' = [vd EXCEPT ![s].index = None, ![s].before = {}, ![s].pos = None]
    /\ lock' = Released(s)
    /\ Fails(s)

NoMonitor(s) ==
    /\ at[s] = "wait" /\ Attached \ vd[s].before = {}
    /\ TooLate(\E n \in Slots : slot[n].plug /\ n \notin vd[s].before)
    /\ GiveBack(s)
    /\ UNCHANGED <<stored, events>>

\* LoadSavedPosition, with the move of the shared one; else the right edge.
Load(s) ==
    /\ at[s] = "load"
    /\ LET own == saved[s] # None
           old == IF own THEN saved[s] ELSE shared
           pos == IF old = None THEN Edge ELSE old
       IN  /\ vd' = [vd EXCEPT ![s].pos = pos]
           /\ shared' = IF own THEN shared ELSE None
           /\ saved' = IF old = None THEN [saved EXCEPT ![s] = Edge] ELSE saved
    /\ Go(s, "apply")
    /\ UNCHANGED <<slot, lock, odd, outside>>

\* Position and mode in one; off screen, Windows detaches the monitor.
Moved(n, p, z) ==
    IF slot[n].up
    THEN [slot EXCEPT ![n] = [@ EXCEPT !.up = p \notin off, !.pos = p, !.size = z]]
    ELSE slot

Apply(s) ==
    /\ at[s] = "apply"
    /\ \/ /\ slot' = Moved(vd[s].name, vd[s].pos, vd[s].target)
          /\ Go(s, "attach") /\ UNCHANGED <<lock, vd, left>>
       \/ Happens("refused") /\ Go(s, "attach") /\ UNCHANGED <<slot, lock, vd>>
       \/ Happens("refused") /\ GiveBack(s)
    /\ blind' = BlindOn(slot')
    /\ UNCHANGED <<stored, off, declined, torn>>

Claimed(s) ==
    /\ at[s] \in {"attach", "again"} /\ Rect(vd[s].name)
    /\ saved' = IF at[s] = "again" THEN [saved EXCEPT ![s] = Edge] ELSE saved
    /\ vd' = [vd EXCEPT ![s].pos = None]
    /\ lock' = Released(s)
    /\ Go(s, "dup")
    /\ UNCHANGED <<slot, shared, odd, outside>>

\* It did not attach there: the right edge, once, unless Windows refuses.
Fallback(s) ==
    /\ at[s] = "attach" /\ ~Rect(vd[s].name) /\ vd[s].pos # Edge
    /\ LET n == vd[s].name
       IN  \/ /\ slot' = IF slot[n].plug
                          THEN [slot EXCEPT ![n] = [@ EXCEPT !.up = TRUE, !.pos = Edge, !.size = vd[s].target]]
                          ELSE slot
              /\ UNCHANGED left
           \/ Happens("refused") /\ UNCHANGED slot
    /\ Go(s, "again")
    /\ UNCHANGED <<lock, vd, stored, events>>

NotAttached(s) ==
    /\ ~Rect(vd[s].name)
    /\ at[s] = "again" \/ (at[s] = "attach" /\ vd[s].pos = Edge)
    /\ GiveBack(s)
    /\ UNCHANGED <<stored, outside>>

\* DesktopDuplication::Open, on the name the backend published.
Duplicate(s) ==
    /\ at[s] = "dup"
    /\ IF Rect(vd[s].name) THEN Go(s, "stream") ELSE Fails(s)
    /\ UNCHANGED <<slot, lock, vd, stored, outside>>

-----------------------------------------------------------------------------
(* The keepalive thread's poll, while the driver is open.                  *)

(* Variant: compares with the first place it saw, for ever. *)
PollFirst(s) ==
    /\ at[s] # "closed" /\ Rect(vd[s].name) /\ slot[vd[s].name].pos # vd[s].last
    /\ LET p == slot[vd[s].name].pos
       IN  IF vd[s].last = None
           THEN /\ vd' = [vd EXCEPT ![s].last = p] /\ UNCHANGED saved
                /\ odd' = IF saved[s] = p THEN odd ELSE odd \cup {s}
           ELSE saved' = [saved EXCEPT ![s] = p] /\ UNCHANGED <<vd, odd>>
    /\ UNCHANGED <<slot, lock, at, shared, outside>>

PollPosition(s) ==
    /\ at[s] # "closed" /\ Rect(vd[s].name) /\ slot[vd[s].name].pos # vd[s].last
    /\ LET p == slot[vd[s].name].pos
       IN  /\ vd' = [vd EXCEPT ![s].last = p]
           /\ IF vd[s].last = None
              THEN odd' = (IF saved[s] = p THEN odd ELSE odd \cup {s}) /\ UNCHANGED saved
              ELSE saved' = [saved EXCEPT ![s] = p] /\ UNCHANGED odd
    /\ UNCHANGED <<slot, lock, at, shared, outside>>

-----------------------------------------------------------------------------
(* Starts, stops, deaths, standby and the user.                            *)

Start(s) ==
    /\ at[s] = "closed" /\ Happens("start")
    /\ Go(s, "idle")
    /\ UNCHANGED <<slot, lock, vd, stored, events>>

\* Close: the keepalive thread is joined first.
Close(s) ==
    /\ at[s] \in {"idle", "pause", "stream"} /\ Happens("stop")
    /\ slot' = IF vd[s].index = None THEN slot ELSE Unplugged(vd[s].index)
    /\ vd' = [vd EXCEPT ![s] = Fresh]
    /\ odd' = odd \ {s}
    /\ Go(s, "closed")
    /\ UNCHANGED <<lock, saved, shared, events>>

\* The process is killed: its display stays plugged, its mutex is abandoned.
Die(s) ==
    /\ at[s] # "closed" /\ Happens("die")
    /\ torn' = (torn \/ at[s] = "wait")
    /\ slot' = [n \in Slots |-> IF slot[n].by = s THEN [slot[n] EXCEPT !.by = None] ELSE slot[n]]
    /\ vd' = [vd EXCEPT ![s] = Fresh]
    /\ odd' = odd \ {s}
    /\ lock' = Released(s)
    /\ Go(s, "closed")
    /\ UNCHANGED <<saved, shared, off, blind, declined>>

\* The driver drops every display.
Standby ==
    /\ Happens("standby")
    /\ slot' = [n \in Slots |-> Out]
    /\ blind' = BlindOn(slot')
    /\ torn' = TRUE
    /\ UNCHANGED <<lock, at, vd, stored, off, declined>>

Drag(n, p) ==
    /\ slot[n].up /\ slot[n].pos # p /\ p \notin off /\ Happens("drag")
    /\ slot' = [slot EXCEPT ![n].pos = p]
    /\ UNCHANGED <<lock, at, vd, stored, events>>

\* The other monitors change: a place nobody is at is gone.
Layout(p) ==
    /\ p # Edge /\ p \notin off /\ \A n \in Slots : slot[n].pos # p
    /\ Happens("layout")
    /\ off' = off \cup {p}
    /\ UNCHANGED <<slot, lock, at, vd, stored, blind, declined, torn>>

-----------------------------------------------------------------------------

Init ==
    /\ left \in Budgets
    /\ slot = [n \in Slots |-> Out]
    /\ lock = None
    /\ at = [s \in Senders |-> IF s \in left.who THEN "idle" ELSE "closed"]
    /\ vd = [s \in Senders |-> Fresh]
    /\ saved = [s \in Senders |-> None]
    /\ shared = left.shared
    /\ off = {} /\ blind = {} /\ odd = {} /\ declined = {} /\ torn = FALSE

Worker(s) ==
    \/ Paused(s) \/ Connect(s) \/ CaptureLost(s) \/ Prepare(s) \/ Left(s) \/ TakeLock(s) \/ Snapshot(s)
    \/ Add(s) \/ Claim(s) \/ NoMonitor(s) \/ Load(s) \/ Apply(s) \/ Claimed(s) \/ Fallback(s)
    \/ NotAttached(s) \/ Duplicate(s)

Windows(n) == Appear(n) \/ Vanish(n)

Next ==
    \/ \E s \in Senders :
           \/ Worker(s) \/ PollPosition(s) \/ Declined(s) \/ LockTimesOut(s) \/ Rotate(s)
           \/ LinkLost(s) \/ Start(s) \/ Close(s) \/ Die(s)
    \/ \E n \in Slots : Windows(n) \/ \E p \in Places : Drag(n, p)
    \/ Standby
    \/ \E p \in Places : Layout(p)

Spec == Init /\ [][Next]_vars

\* Threads run and Windows gets round to it.  Of what is outside only one thing
\* has to happen: an iPad that is dialled answers with a hello in the end
\* (Connect is a step of the worker).
LiveSpec ==
    /\ Spec
    /\ \A s \in Senders : WF_vars(Worker(s)) /\ WF_vars(PollPosition(s))
    /\ \A n \in Slots : WF_vars(Windows(n))

-----------------------------------------------------------------------------

\* Type correctness of the senders' displays and of the driver's slots.
TypeOK ==
    /\ slot \in [Slots -> [plug : BOOLEAN, up : BOOLEAN, leaving : BOOLEAN, pos : Places \cup {None},
                           size : BOOLEAN \cup {None}, by : Senders \cup {None}]]
    /\ lock \in Senders \cup {None}
    /\ at \in [Senders -> Where]
    /\ vd \in [Senders -> [index : Slots \cup {None}, name : Slots \cup {None},
                           target : BOOLEAN \cup {None}, want : BOOLEAN, why : {"hello", "turn", "loss"},
                           before : SUBSET Slots, pos : Places \cup {None}, last : Places \cup {None}]]
    /\ saved \in [Senders -> Places \cup {None}]
    /\ shared \in Places \cup {None}
    /\ off \subseteq Places /\ blind \cup odd \cup declined \subseteq Senders
    /\ lock # None => at[lock] \in Holding

Captures(s) == at[s] = "stream" /\ s \notin blind

OwnMonitor == \A s \in Senders : at[s] = "stream" => slot[vd[s].name].by = s

SizeFits ==
    \A s \in Senders \ declined :
        at[s] = "stream" /\ Rect(vd[s].name) => slot[vd[s].name].size \in {vd[s].want, None}

\* A sender that streams is on the display its own add produced, whatever the
\* others add, drop and time out on meanwhile (VirtualDisplay.h:16-19), and
\* that display has the size it last asked for, or one Windows insists on
\* (VirtualDisplay.h:40-43); standby, a death between an add and its claim and
\* refused modes apart.
MonitorOwned == TypeOK /\ (torn \/ (OwnMonitor /\ SizeFits))

\* A sender whose capture was lost to a standby finds its monitor or adds one
\* again (DisplayBackend.cpp:286-293): it never comes to capture, and to inject
\* into, the one another sender captures (VirtualDisplay.cpp:73-76).
NobodyShares ==
    \A s, t \in Senders :
        s # t /\ Captures(s) /\ Captures(t) /\ vd[s].why = "loss" => vd[s].name # vd[t].name

\* A display that is plugged in is some sender's to remove, unless the process
\* that plugged it died: failed claims, rotations and stops leave none behind.
NoneLeaks == \A n \in Slots : slot[n].by # None => vd[slot[n].by].index = n

\* Whatever failed, a sender that is alone and whose iPad answers captures its
\* monitor again in the end, or is closed (VirtualDisplay.cpp:370-376, 436-440):
\* no loop of failing connects.
Recovers == \A s \in Senders : left.who = {s} => []<>(Captures(s) \/ at[s] = "closed")

Rests(s, p) == Captures(s) /\ slot[vd[s].name].pos = p /\ s \notin odd

\* A monitor that stays where it is has that place stored for the next launch
\* (VirtualDisplay.cpp:655-657), once its poll began from the stored place.
RestsSaved == \A s \in Senders, p \in Places : <>[]Rests(s, p) => <>[](Rests(s, p) => saved[s] = p)
=============================================================================
