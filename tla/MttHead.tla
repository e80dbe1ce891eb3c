------------------------------ MODULE MttHead ------------------------------
(***************************************************************************)
(* The MTT virtual head of src/src/display/MttVddSettings.cpp: who attaches *)
(* it, who owns it, when its saved layout is applied, and how it is torn   *)
(* down - at once when the user asks, or after a grace period when only    *)
(* the link was lost.                                                      *)
(*                                                                         *)
(* The actors are the sender workers (SenderApp::RunLoop through           *)
(* MttBackend), the grace worker threads that a link loss leaves behind,   *)
(* and the tray thread, which starts, stops and shuts down.  They share    *)
(* the grace state (under g.mu: one action per critical section), the      *)
(* topology mutex, the head and its flags.  The process may crash; the     *)
(* head and the ownership marker outlive it.                               *)
(*                                                                         *)
(* A thread is named by its epoch: RequestMttVddTeardown gives every grace *)
(* worker the epoch it was requested at.  The panel claim appears here as  *)
(* PanelShare shows it to be for MTT: one sender at a time.                *)
(***************************************************************************)
EXTENDS Naturals, FiniteSets

CONSTANTS
    Senders,      \* the SenderApp objects of the process
    NoSender,     \* nobody has the panel
    MaxSessions,  \* bound: panel claims over the whole run
    MaxRebuilds,  \* bound: capture rebuilds over the whole run
    MaxOutside,   \* bound: display changes made outside the program
    MaxCrashes,   \* bound: crashes of the process
    MaxEpoch      \* bound: grace epochs; large enough for the other bounds

ASSUME SendersAssumption == IsFiniteSet(Senders) /\ NoSender \notin Senders
ASSUME BoundsAssumption ==
    /\ MaxSessions \in Nat /\ MaxRebuilds \in Nat /\ MaxOutside \in Nat
    /\ MaxCrashes \in Nat /\ MaxEpoch \in Nat

NoThread == 0
Epochs == 1..MaxEpoch

VARIABLES
    panel,        \* the sender holding the panel claim, or NoSender
    pc,           \* where each sender's worker is
    stop,         \* stopRequested_ of each sender
    built,        \* the attempt has reached Streaming
    using,        \* MttBackend::using_
    joins,        \* the grace worker a thread is joining, or NoThread
    my,           \* myEpoch of the request a sender is making
    pending,      \* MttGraceState::pending
    epoch,        \* MttGraceState::epoch
    slot,         \* MttGraceState::worker: a thread, or NoThread
    grace,        \* where each grace worker is
    topo,         \* MttTopoMutex is held
    head,         \* the head on the desktop: none, ours or another tool's
    owned,        \* g_mttOwnedState, loaded from the marker
    marker,       \* mtt_head_owned.txt exists
    positioned,   \* g_mttPositionedThisAttach
    quitting,     \* g_mttShuttingDown
    tray,         \* where the tray thread is
    left,         \* what is left of each bound
    restored,     \* history: layouts applied to the current attachment
    disturbed     \* history: a crash inside the mutex, an outside change of
                  \* our head or a failed detach

grVars == <<pending, epoch, slot, grace>>
headVars == <<head, owned, marker, positioned, restored>>
sendVars == <<panel, pc, stop, built, using, my>>
vars == <<panel, pc, stop, built, using, joins, my, pending, epoch, slot,
          grace, topo, head, owned, marker, positioned, quitting, tray, left,
          restored, disturbed>>

PCs == {"off",      \* no worker thread
        "idle",     \* in the reconnect loop, without the panel
        "edid",     \* panel taken: the per-iPad modes come first
        "ensure",   \* at the head of EnsureMttVddAttached
        "join",     \* in CancelPending, joining a grace worker
        "lock",     \* waiting for the topology mutex
        "mark",     \* has the mutex, head attached, marker not written
        "find",     \* back in Prepare: is the head there?
        "stream",   \* session streaming
        "request",  \* panel released, about to call RequestTeardown
        "cancel",   \* UserInitiated: joining the grace worker
        "teardown", \* UserInitiated: waiting for the mutex
        "unmark",   \* UserInitiated: head detached, marker not deleted
        "takeprev", \* LinkLoss: request made, previous worker not taken
        "joinprev", \* LinkLoss: joining the previous worker
        "spawn"}    \* LinkLoss: about to start the grace worker

GraceStates == {"none",    \* not started, or joined
                "waiting", \* until the deadline, a cancel or a new request
                "expired", \* the grace is over, TearDownMttVdd comes next
                "unmark",  \* has the mutex, head detached, marker not deleted
                "done"}    \* finished, not joined yet

TrayStates == {"down",      \* no process
               "adopt",     \* starting: a head may be left over
               "run",       \* message loop
               "stopping",  \* SenderApp::Stop: waiting for one worker
               "quit",      \* BeginMttShutdown done, stopping all senders
               "exitjoin",  \* ShutdownMttVddForExit: joining the worker
               "exitlock",  \* ShutdownMttVddForExit: wants the mutex
               "exitunmark",\* head detached, marker not deleted
               "exited"}    \* the process is about to end

Threads == Senders \cup {NoSender}      \* NoSender stands for the tray

TypeOK ==
    /\ panel \in Senders \cup {NoSender}
    /\ pc \in [Senders -> PCs]
    /\ stop \in [Senders -> BOOLEAN]
    /\ built \in [Senders -> BOOLEAN]
    /\ using \in [Senders -> BOOLEAN]
    /\ joins \in [Threads -> Epochs \cup {NoThread}]
    /\ my \in [Senders -> 0..MaxEpoch]
    /\ pending \in BOOLEAN
    /\ epoch \in 0..MaxEpoch
    /\ slot \in Epochs \cup {NoThread}
    /\ grace \in [Epochs -> GraceStates]
    /\ topo \in BOOLEAN
    /\ head \in {"none", "app", "other"}
    /\ owned \in BOOLEAN /\ marker \in BOOLEAN /\ positioned \in BOOLEAN
    /\ quitting \in BOOLEAN
    /\ tray \in TrayStates
    /\ left \in [{"sessions", "rebuilds", "outside", "crashes"} -> Nat]
    /\ restored \in 0..2
    /\ disturbed \in BOOLEAN

Init ==
    /\ panel = NoSender
    /\ pc = [s \in Senders |-> "off"]
    /\ stop = [s \in Senders |-> FALSE]
    /\ built = [s \in Senders |-> FALSE]
    /\ using = [s \in Senders |-> FALSE]
    /\ joins = [t \in Threads |-> NoThread]
    /\ my = [s \in Senders |-> 0]
    /\ pending = FALSE
    /\ epoch = 0
    /\ slot = NoThread
    /\ grace = [w \in Epochs |-> "none"]
    /\ topo = FALSE
    /\ head \in {"none", "other"}
    /\ owned = FALSE /\ marker = FALSE
    /\ positioned = FALSE
    /\ quitting = FALSE
    /\ tray = "adopt"
    /\ left = [sessions |-> MaxSessions, rebuilds |-> MaxRebuilds,
               outside |-> MaxOutside, crashes |-> MaxCrashes]
    /\ restored = 0
    /\ disturbed = FALSE

Goto(s, label) == pc' = [pc EXCEPT ![s] = label]
Spend(bound) == /\ left[bound] > 0
                /\ left' = [left EXCEPT ![bound] = @ - 1]

-----------------------------------------------------------------------------
(* The grace state, one operator per critical section of g.mu.             *)

(* Variant: the joined thread stays in the slot.                           *)
CancelSectionKeepsSlot(t) ==
    /\ epoch < MaxEpoch
    /\ epoch' = epoch + 1
    /\ pending' = FALSE
    /\ joins' = [joins EXCEPT ![t] = slot]
    /\ UNCHANGED <<slot, grace>>

(* CancelPendingMttVddTeardown: disarm, wake the waiting worker and take   *)
(* its thread object out of the slot, to be joined outside the lock.       *)
CancelSection(t) ==
    /\ epoch < MaxEpoch
    /\ epoch' = epoch + 1
    /\ pending' = FALSE
    /\ joins' = [joins EXCEPT ![t] = slot]
    /\ slot' = NoThread
    /\ UNCHANGED grace

(* thread.join(), also of no thread at all.                                *)
JoinDone(t) ==
    /\ joins[t] # NoThread => grace[joins[t]] = "done"
    /\ grace' = [w \in Epochs |-> IF w = joins[t] THEN "none" ELSE grace[w]]
    /\ joins' = [joins EXCEPT ![t] = NoThread]

Cancelled(w) == ~pending \/ epoch # w

-----------------------------------------------------------------------------
(* The tray thread.                                                        *)

(* AdoptStaleMttHeadAtStartup: an owned head left over from a previous run *)
(* gets a grace teardown before any sender is started.                     *)
Adopt ==
    /\ tray = "adopt"
    /\ tray' = "run"
    /\ IF head # "none" /\ owned
       THEN /\ epoch < MaxEpoch
            /\ positioned' = FALSE
            /\ epoch' = epoch + 1
            /\ pending' = TRUE
            /\ slot' = epoch'
            /\ grace' = [grace EXCEPT ![epoch'] = "waiting"]
       ELSE UNCHANGED <<positioned, grVars>>
    /\ UNCHANGED <<sendVars, joins, topo, head, owned, marker, quitting, left,
                   restored, disturbed>>

StartSender(s) ==
    /\ tray = "run" /\ pc[s] = "off"
    /\ Goto(s, "idle")
    /\ UNCHANGED <<panel, stop, built, using, my, joins, grVars, topo,
                   headVars, quitting, tray, left, disturbed>>

(* SenderApp::Stop from the tray menu, or in the loop over all senders     *)
(* that quitting runs: one worker at a time is asked to stop and joined.   *)
StopSender(s) ==
    /\ tray \in {"run", "quit"} /\ pc[s] # "off"
    /\ \A t \in Senders : ~stop[t]
    /\ stop' = [stop EXCEPT ![s] = TRUE]
    /\ tray' = IF tray = "run" THEN "stopping" ELSE tray
    /\ UNCHANGED <<panel, pc, built, using, my, joins, grVars, topo, headVars,
                   quitting, left, disturbed>>

Stopped(s) ==
    /\ pc[s] = "idle" /\ stop[s]
    /\ Goto(s, "off")
    /\ stop' = [stop EXCEPT ![s] = FALSE]
    /\ tray' = IF tray = "stopping" THEN "run" ELSE tray
    /\ UNCHANGED <<panel, built, using, my, joins, grVars, topo, headVars,
                   quitting, left, disturbed>>

(* WM_DESTROY and WM_ENDSESSION: BeginMttShutdown before the first Stop.   *)
Quit ==
    /\ tray = "run"
    /\ quitting' = TRUE
    /\ tray' = "quit"
    /\ UNCHANGED <<sendVars, joins, grVars, topo, headVars, left, disturbed>>

(* ShutdownMttVddForExit: cancel, join, then tear down under the mutex.    *)
ExitCancel ==
    /\ tray = "quit" /\ \A s \in Senders : pc[s] = "off"
    /\ CancelSection(NoSender)
    /\ tray' = "exitjoin"
    /\ UNCHANGED <<sendVars, topo, headVars, quitting, left, disturbed>>

(* Variant: exit only calls off the grace and leaves the head where it is. *)
ExitJoinOnly ==
    /\ tray = "exitjoin"
    /\ JoinDone(NoSender)
    /\ tray' = "exited"
    /\ UNCHANGED <<sendVars, pending, epoch, slot, topo, headVars, quitting,
                   left, disturbed>>

ExitJoin ==
    /\ tray = "exitjoin"
    /\ JoinDone(NoSender)
    /\ tray' = "exitlock"
    /\ UNCHANGED <<sendVars, pending, epoch, slot, topo, headVars, quitting,
                   left, disturbed>>

-----------------------------------------------------------------------------
(* TearDownMttVdd, which runs under the topology mutex in a grace worker,  *)
(* in a sender and in the tray.  <count> is taken to be at least 1: the    *)
(* program only ever raises it.                                            *)

(* Nothing of ours to detach: clear the flags and leave.                   *)
NothingToDetach ==
    /\ ~topo
    /\ head = "none" \/ ~owned
    /\ positioned' = FALSE
    /\ owned' = FALSE /\ marker' = FALSE
    /\ UNCHANGED <<topo, head, restored, disturbed>>

(* The head leaves the desktop; the marker is still there.                 *)
Detach ==
    /\ ~topo
    /\ head # "none" /\ owned
    /\ topo' = TRUE
    /\ head' = "none" /\ restored' = 0
    /\ UNCHANGED <<owned, marker, positioned, disturbed>>

(* Neither the CDS detach nor the SetupAPI fallback removed it.            *)
DetachFails ==
    /\ ~topo
    /\ head # "none" /\ owned
    /\ disturbed' = TRUE
    /\ UNCHANGED <<topo, headVars>>

(* Variant: the ownership marker is forgotten.                             *)
UnmarkKeepsMarker ==
    /\ topo' = FALSE
    /\ positioned' = FALSE
    /\ UNCHANGED <<head, owned, marker, restored>>

Unmark ==
    /\ topo' = FALSE
    /\ positioned' = FALSE
    /\ owned' = FALSE /\ marker' = FALSE
    /\ UNCHANGED <<head, restored>>

ExitTearDown ==
    /\ tray = "exitlock"
    /\ \/ ~topo /\ (head = "none" \/ ~owned)
          /\ tray' = "exited" /\ UNCHANGED <<topo, headVars, disturbed>>
       \/ Detach /\ tray' = "exitunmark"
       \/ DetachFails /\ tray' = "exited"
    /\ UNCHANGED <<sendVars, joins, grVars, quitting, left>>

ExitUnmark ==
    /\ tray = "exitunmark"
    /\ Unmark
    /\ tray' = "exited"
    /\ UNCHANGED <<sendVars, joins, grVars, quitting, left, disturbed>>

-----------------------------------------------------------------------------
(* A grace worker.                                                         *)

(* Variant: an expired grace stays pending.                                *)
GraceExpiresPending(w) ==
    /\ grace[w] = "waiting" /\ ~Cancelled(w)
    /\ grace' = [grace EXCEPT ![w] = "expired"]
    /\ UNCHANGED <<sendVars, joins, pending, epoch, slot, topo, headVars,
                   quitting, tray, left, disturbed>>

(* The deadline passes while nobody has cancelled or requested again.      *)
GraceExpires(w) ==
    /\ grace[w] = "waiting" /\ ~Cancelled(w)
    /\ pending' = FALSE
    /\ grace' = [grace EXCEPT ![w] = "expired"]
    /\ UNCHANGED <<sendVars, joins, epoch, slot, topo, headVars, quitting,
                   tray, left, disturbed>>

GraceCancelled(w) ==
    /\ grace[w] = "waiting" /\ Cancelled(w)
    /\ grace' = [grace EXCEPT ![w] = "done"]
    /\ UNCHANGED <<sendVars, joins, pending, epoch, slot, topo, headVars,
                   quitting, tray, left, disturbed>>

GraceDetach(w) ==
    /\ grace[w] = "expired"
    /\ Detach
    /\ grace' = [grace EXCEPT ![w] = "unmark"]
    /\ UNCHANGED <<sendVars, joins, pending, epoch, slot, quitting, tray,
                   left>>

GraceSkip(w) ==
    /\ grace[w] = "expired"
    /\ NothingToDetach \/ DetachFails
    /\ grace' = [grace EXCEPT ![w] = "done"]
    /\ UNCHANGED <<sendVars, joins, pending, epoch, slot, quitting, tray,
                   left>>

GraceUnmark(w) ==
    /\ grace[w] = "unmark"
    /\ Unmark
    /\ grace' = [grace EXCEPT ![w] = "done"]
    /\ UNCHANGED <<sendVars, joins, pending, epoch, slot, quitting, tray,
                   left, disturbed>>

-----------------------------------------------------------------------------
(* A sender: from the panel claim to the head (MttBackend::Prepare).       *)

Claim(s) ==
    /\ pc[s] = "idle" /\ panel = NoSender
    /\ Spend("sessions")
    /\ panel' = s
    /\ Goto(s, "edid")
    /\ UNCHANGED <<stop, built, using, my, joins, grVars, topo, headVars,
                   quitting, tray, disturbed>>

(* EnsureMttResolutionsForHello: a new iPad's modes reload the driver,     *)
(* which enumerates the head anew.  No mutex is held.                      *)
EnsureModes(s) ==
    /\ pc[s] = "edid"
    /\ \/ positioned' = FALSE /\ restored' = 0
       \/ UNCHANGED <<positioned, restored>>
    /\ Goto(s, "ensure")
    /\ UNCHANGED <<panel, stop, built, using, my, joins, grVars, topo, head,
                   owned, marker, quitting, tray, left, disturbed>>

(* EnsureMttVddAttached, refused while the program quits.                  *)
EnsureRefused(s) ==
    /\ \/ pc[s] = "ensure"
       \/ pc[s] = "lock" /\ ~topo
    /\ quitting
    /\ Goto(s, "find")
    /\ UNCHANGED <<panel, stop, built, using, my, joins, grVars, topo,
                   headVars, quitting, tray, left, disturbed>>

EnsureCancel(s) ==
    /\ pc[s] = "ensure" /\ ~quitting
    /\ CancelSection(s)
    /\ Goto(s, "join")
    /\ UNCHANGED <<panel, stop, built, using, my, topo, headVars, quitting,
                   tray, left, disturbed>>

EnsureJoin(s) ==
    /\ pc[s] = "join"
    /\ JoinDone(s)
    /\ Goto(s, "lock")
    /\ UNCHANGED <<panel, stop, built, using, my, pending, epoch, slot, topo,
                   headVars, quitting, tray, left, disturbed>>

(* The head is there: apply the saved layout unless this attachment has    *)
(* had it, and only to a head of our own.                                  *)
EnsurePresent(s) ==
    /\ pc[s] = "lock" /\ ~topo /\ ~quitting
    /\ head # "none"
    /\ positioned' = TRUE
    /\ restored' = IF ~positioned /\ owned THEN restored + 1 ELSE restored
    /\ Goto(s, "find")
    /\ UNCHANGED <<panel, stop, built, using, my, joins, grVars, topo, head,
                   owned, marker, quitting, tray, left, disturbed>>

EnsureAttach(s) ==
    /\ pc[s] = "lock" /\ ~topo /\ ~quitting
    /\ head = "none"
    /\ topo' = TRUE
    /\ head' = "app" /\ restored' = 0
    /\ Goto(s, "mark")
    /\ UNCHANGED <<panel, stop, built, using, my, joins, grVars, owned,
                   marker, positioned, quitting, tray, left, disturbed>>

(* The wait for the head is given up.  One that comes up after that is not *)
(* marked: no different from one Outside attaches.                         *)
EnsureAttachFails(s) ==
    /\ pc[s] = "lock" /\ ~topo /\ ~quitting
    /\ head = "none"
    /\ Goto(s, "find")
    /\ UNCHANGED <<panel, stop, built, using, my, joins, grVars, topo,
                   headVars, quitting, tray, left, disturbed>>

(* Variant: the fresh attachment is not noted as positioned.               *)
EnsureMarkUnpositioned(s) ==
    /\ pc[s] = "mark"
    /\ owned' = TRUE /\ marker' = TRUE
    /\ restored' = restored + 1
    /\ topo' = FALSE
    /\ Goto(s, "find")
    /\ UNCHANGED <<panel, stop, built, using, my, joins, grVars, head,
                   positioned, quitting, tray, left, disturbed>>

(* Attached: write the marker, apply the saved layout, let go of the mutex.*)
EnsureMark(s) ==
    /\ pc[s] = "mark"
    /\ owned' = TRUE /\ marker' = TRUE
    /\ positioned' = TRUE
    /\ restored' = restored + 1
    /\ topo' = FALSE
    /\ Goto(s, "find")
    /\ UNCHANGED <<panel, stop, built, using, my, joins, grVars, head,
                   quitting, tray, left, disturbed>>

(* The rest of Prepare and of buildPipeline: duplication and encoder.      *)
Build(s) ==
    /\ pc[s] = "find" /\ head # "none"
    /\ using' = [using EXCEPT ![s] = TRUE]
    /\ built' = [built EXCEPT ![s] = TRUE]
    /\ Goto(s, "stream")
    /\ UNCHANGED <<panel, stop, my, joins, grVars, topo, headVars, quitting,
                   tray, left, disturbed>>

(* Variant: the backend is not told that the pipeline failed.              *)
BuildFailsQuietly(s) ==
    /\ pc[s] = "find"
    /\ using' = [using EXCEPT ![s] = head # "none"]
    /\ panel' = NoSender
    /\ built' = [built EXCEPT ![s] = FALSE]
    /\ Goto(s, "idle")
    /\ UNCHANGED <<stop, my, joins, grVars, topo, headVars, quitting,
                   tray, left, disturbed>>

(* No head, no duplication or no encoder: the claim goes first, then the   *)
(* backend is told.                                                        *)
BuildFails(s) ==
    /\ pc[s] = "find"
    /\ using' = [using EXCEPT ![s] = head # "none"]
    /\ panel' = NoSender
    /\ Goto(s, "request")
    /\ UNCHANGED <<stop, built, my, joins, grVars, topo, headVars, quitting,
                   tray, left, disturbed>>

(* ACCESS_LOST, always when the head is gone: rebuild through Prepare.     *)
Rebuild(s) ==
    /\ pc[s] = "stream"
    /\ IF head = "none" THEN UNCHANGED left ELSE Spend("rebuilds")
    /\ Goto(s, "ensure")
    /\ UNCHANGED <<panel, stop, built, using, my, joins, grVars, topo,
                   headVars, quitting, tray, disturbed>>

(* The session ends: ReleasePanel now, OnSessionEnd in a later step.       *)
SessionEnd(s) ==
    /\ pc[s] = "stream"
    /\ panel' = NoSender
    /\ Goto(s, "request")
    /\ UNCHANGED <<stop, built, using, my, joins, grVars, topo, headVars,
                   quitting, tray, left, disturbed>>

-----------------------------------------------------------------------------
(* OnSessionEnd and OnPipelineFailed: RequestMttVddTeardown.               *)

UserInitiated(s) == built[s] /\ stop[s]

(* The call returns; myEpoch was a local of it.                            *)
AttemptOver(s) == /\ Goto(s, "idle")
                  /\ built' = [built EXCEPT ![s] = FALSE]
                  /\ my' = [my EXCEPT ![s] = 0]

(* The backend was not on the head: nothing to request.                    *)
NoRequest(s) ==
    /\ pc[s] = "request" /\ ~using[s]
    /\ AttemptOver(s)
    /\ UNCHANGED <<panel, stop, using, joins, grVars, topo, headVars,
                   quitting, tray, left, disturbed>>

RequestUser(s) ==
    /\ pc[s] = "request" /\ using[s] /\ UserInitiated(s)
    /\ CancelSection(s)
    /\ Goto(s, "cancel")
    /\ UNCHANGED <<panel, stop, built, using, my, topo, headVars, quitting,
                   tray, left, disturbed>>

UserJoin(s) ==
    /\ pc[s] = "cancel"
    /\ JoinDone(s)
    /\ Goto(s, "teardown")
    /\ UNCHANGED <<panel, stop, built, using, my, pending, epoch, slot, topo,
                   headVars, quitting, tray, left, disturbed>>

UserDetach(s) ==
    /\ pc[s] = "teardown"
    /\ Detach
    /\ Goto(s, "unmark")
    /\ UNCHANGED <<panel, stop, built, using, my, joins, grVars, quitting,
                   tray, left>>

UserSkip(s) ==
    /\ pc[s] = "teardown"
    /\ NothingToDetach \/ DetachFails
    /\ AttemptOver(s)
    /\ using' = [using EXCEPT ![s] = FALSE]
    /\ UNCHANGED <<panel, stop, joins, grVars, quitting, tray, left>>

UserUnmark(s) ==
    /\ pc[s] = "unmark"
    /\ Unmark
    /\ AttemptOver(s)
    /\ using' = [using EXCEPT ![s] = FALSE]
    /\ UNCHANGED <<panel, stop, joins, grVars, quitting, tray, left,
                   disturbed>>

(* LinkLoss, in three critical sections: arm a new epoch, take the         *)
(* previous worker's thread, and - after joining it - start the new worker *)
(* if nobody has cancelled or requested again meanwhile.                   *)
RequestLinkLoss(s) ==
    /\ pc[s] = "request" /\ using[s] /\ ~UserInitiated(s)
    /\ epoch < MaxEpoch
    /\ epoch' = epoch + 1
    /\ pending' = TRUE
    /\ my' = [my EXCEPT ![s] = epoch']
    /\ Goto(s, "takeprev")
    /\ UNCHANGED <<panel, stop, built, using, joins, slot, grace, topo,
                   headVars, quitting, tray, left, disturbed>>

TakePrevious(s) ==
    /\ pc[s] = "takeprev"
    /\ joins' = [joins EXCEPT ![s] = slot]
    /\ slot' = NoThread
    /\ Goto(s, "joinprev")
    /\ UNCHANGED <<panel, stop, built, using, my, pending, epoch, grace, topo,
                   headVars, quitting, tray, left, disturbed>>

JoinPrevious(s) ==
    /\ pc[s] = "joinprev"
    /\ JoinDone(s)
    /\ Goto(s, "spawn")
    /\ UNCHANGED <<panel, stop, built, using, my, pending, epoch, slot, topo,
                   headVars, quitting, tray, left, disturbed>>

(* Variant: the worker is started without looking again.                   *)
SpawnGraceUnchecked(s) ==
    /\ pc[s] = "spawn"
    /\ slot' = my[s]
    /\ grace' = [grace EXCEPT ![my[s]] = "waiting"]
    /\ AttemptOver(s)
    /\ UNCHANGED <<panel, stop, using, joins, pending, epoch, topo,
                   headVars, quitting, tray, left, disturbed>>

SpawnGrace(s) ==
    /\ pc[s] = "spawn"
    /\ IF Cancelled(my[s])
       THEN UNCHANGED <<slot, grace>>
       ELSE /\ slot' = my[s]
            /\ grace' = [grace EXCEPT ![my[s]] = "waiting"]
    /\ AttemptOver(s)
    /\ UNCHANGED <<panel, stop, using, joins, pending, epoch, topo,
                   headVars, quitting, tray, left, disturbed>>

-----------------------------------------------------------------------------
(* The environment.                                                        *)

(* Display Settings, or another tool, detaches the head or attaches one.   *)
(* It does not race the program inside the mutex.                          *)
Outside ==
    /\ ~topo
    /\ Spend("outside")
    /\ head' = IF head = "none" THEN "other" ELSE "none"
    /\ restored' = 0
    /\ disturbed' = (disturbed \/ head = "app")
    /\ UNCHANGED <<sendVars, joins, grVars, topo, owned, marker, positioned,
                   quitting, tray>>

(* The process dies: its memory is gone, the head and the marker stay.     *)
Crash ==
    /\ tray \notin {"down", "exited"}
    /\ Spend("crashes")
    /\ tray' = "down"
    /\ panel' = NoSender
    /\ pc' = [s \in Senders |-> "off"]
    /\ stop' = [s \in Senders |-> FALSE]
    /\ built' = [s \in Senders |-> FALSE]
    /\ using' = [s \in Senders |-> FALSE]
    /\ joins' = [t \in Threads |-> NoThread]
    /\ my' = [s \in Senders |-> 0]
    /\ pending' = FALSE /\ epoch' = 0 /\ slot' = NoThread
    /\ grace' = [w \in Epochs |-> "none"]
    /\ topo' = FALSE
    /\ owned' = FALSE /\ positioned' = FALSE /\ restored' = 0
    /\ quitting' = FALSE
    /\ disturbed' = (disturbed \/ topo)
    /\ UNCHANGED <<head, marker>>

(* The next run of the program reads the marker.                           *)
Restart ==
    /\ tray = "down"
    /\ tray' = "adopt"
    /\ owned' = marker
    /\ UNCHANGED <<sendVars, joins, grVars, topo, head, marker, positioned,
                   quitting, left, restored, disturbed>>

(* The process has ended.                                                  *)
Ended == tray = "exited" /\ UNCHANGED vars

-----------------------------------------------------------------------------
TrayStep == \/ Adopt \/ ExitCancel \/ ExitJoin \/ ExitTearDown \/ ExitUnmark

GraceStep(w) == \/ GraceExpires(w) \/ GraceCancelled(w)
                \/ GraceDetach(w) \/ GraceSkip(w) \/ GraceUnmark(w)

(* What a sender's worker does by itself, as opposed to what the iPad, the *)
(* network or the user make it do.                                         *)
SenderStep(s) ==
    \/ Stopped(s)
    \/ EnsureModes(s) \/ EnsureRefused(s) \/ EnsureCancel(s) \/ EnsureJoin(s)
    \/ EnsurePresent(s) \/ EnsureAttach(s) \/ EnsureAttachFails(s)
    \/ EnsureMark(s) \/ Build(s) \/ BuildFails(s)
    \/ NoRequest(s)
    \/ RequestUser(s) \/ UserJoin(s) \/ UserDetach(s) \/ UserSkip(s)
    \/ UserUnmark(s)
    \/ RequestLinkLoss(s) \/ TakePrevious(s) \/ JoinPrevious(s)
    \/ SpawnGrace(s)

Next ==
    \/ TrayStep \/ Quit
    \/ \E w \in Epochs : GraceStep(w)
    \/ \E s \in Senders :
          \/ StartSender(s) \/ StopSender(s)
          \/ Claim(s) \/ Rebuild(s) \/ SessionEnd(s) \/ SenderStep(s)
    \/ Outside \/ Crash \/ Restart \/ Ended

Spec == Init /\ [][Next]_vars

(* Threads run.  Quitting goes on to stop the senders one by one, and a    *)
(* streaming sender notices that it is to stop or that its head is gone.   *)
Fairness ==
    /\ WF_vars(TrayStep)
    /\ \A w \in Epochs : WF_vars(GraceStep(w))
    /\ \A s \in Senders :
          /\ WF_vars(SenderStep(s))
          /\ WF_vars(StopSender(s) /\ tray = "quit")
          /\ WF_vars(SessionEnd(s) /\ stop[s])
          /\ WF_vars(Rebuild(s) /\ head = "none")

FairSpec == Spec /\ Fairness

-----------------------------------------------------------------------------
(* Properties.                                                             *)

(* Every grace worker that was started and not joined yet has an owner: it *)
(* is in MttGraceState::worker or some thread is joining it.  In           *)
(* particular g.worker is never assigned over a joinable thread, which     *)
(* would terminate the process, and nothing outlives ShutdownMttVddForExit.*)
WorkersOwned ==
    /\ \A w \in Epochs :
          grace[w] # "none" => slot = w \/ \E t \in Threads : joins[t] = w
    /\ tray = "exited" => \A w \in Epochs : grace[w] = "none"

(* A pending teardown has someone to carry it out: the request that armed  *)
(* it is still being made, or its worker waits for the deadline.  No       *)
(* interleaving of requests and cancels leaves the head waiting for a      *)
(* worker that is never started.                                           *)
PendingServed ==
    pending => \/ \E s \in Senders : /\ pc[s] \in {"takeprev", "joinprev", "spawn"}
                                     /\ my[s] = epoch
               \/ epoch \in Epochs /\ grace[epoch] = "waiting"

(* "The saved layout is applied once per attachment": rebuilds, returning  *)
(* clients and concurrent teardowns never move the user's head again, and  *)
(* no head the program attached passes for positioned without it.          *)
LayoutOnce ==
    /\ restored <= 1
    /\ ~topo /\ owned /\ head = "app" /\ positioned => restored = 1

(* Outside the mutex the marker says what g_mttOwnedState says, and unless *)
(* something outside the program interfered a head on the desktop is ours  *)
(* exactly when it is marked.  A crash changes neither, unless it falls    *)
(* inside the mutex: the next run finds whose head it is.                  *)
MarkedIsOurs ==
    ~topo =>
        /\ tray # "down" => marker = owned
        /\ ~disturbed => (marker <=> head = "app")

(* After Quit our head is off the desktop - whatever rebuild, grace worker *)
(* or user teardown was under way when the tray began to quit.             *)
ExitRemovesHead == tray = "exited" /\ ~disturbed => head # "app"

(* A head nobody uses any more is removed in the end, after a crash by the *)
(* next run, if there is one.                                              *)
AbandonedHeadGoes ==
    head = "app" /\ panel = NoSender
        ~> head # "app" \/ panel # NoSender \/ disturbed \/ tray = "down"

(* Quitting comes to an end: no cycle of joins and the topology mutex.     *)
QuitEnds == tray = "quit" ~> tray \in {"exited", "down"}
=============================================================================
