----------------------------- MODULE PanelShare -----------------------------
(***************************************************************************)
(* The panel claim of src/src/app/SenderApp.cpp: the process-wide          *)
(* PanelState with AcquirePanel, ReleasePanel, RetunePanel and the RAII    *)
(* PanelHolder, driven by the worker thread of every SenderApp through one *)
(* connection attempt after another (RunLoop).                             *)
(*                                                                         *)
(* A step is atomic where the code holds panel.mutex.  Dialling, the hello *)
(* wait, building the pipeline and the capture loop are the gaps in which  *)
(* the other senders move.  A panel size is an element of Sizes; Turn      *)
(* swaps its width and height.                                             *)
(***************************************************************************)
EXTENDS Naturals, FiniteSets

CONSTANTS
    Senders,      \* the SenderApp objects: one per configured iPad
    Sizes,        \* the panel sizes the iPads' hellos carry
    Turn,         \* Turn[w]: the size w rotated by 90 degrees
    NoSender,     \* stands for a null const void*
    NoSize        \* stands for 0 x 0, and for the size of no attempt

ASSUME SendersAssumption == IsFiniteSet(Senders) /\ NoSender \notin Senders
ASSUME SizesAssumption   == NoSize \notin Sizes
ASSUME TurnAssumption    == /\ Turn \in [Sizes -> Sizes]
                            /\ \A w \in Sizes : Turn[Turn[w]] = w

Kinds == {"Mtt", "Parsec"}        \* DisplayBackendKind
Attempts == Kinds \cup {"none"}    \* "none" outside an attempt
States == {"Idle", "Connecting", "Streaming", "Blocked", "DriverMissing"}

VARIABLES
    panel,        \* PanelState: size, holders, exclusive, first
    pc,           \* where the sender's worker is in its loop
    stop,         \* stopRequested_
    held,         \* PanelHolder::held of the attempt
    kind,         \* backend->Kind() as selected for the attempt
    size,         \* the locals width x height of the attempt
    want,         \* the size of a changed hello that is being rebuilt for
    state,        \* state_
    blockedBy,    \* blockedByWidth_ x blockedByHeight_ and blockedByApp_
    lastClient,   \* what ReleasePanel() returned to the ending attempt
    turned        \* history: how the sender's size left the panel's size

vars == <<panel, pc, stop, held, kind, size, want, state, blockedBy,
          lastClient, turned>>

-----------------------------------------------------------------------------
(* PanelState and the functions that change it under its mutex.            *)

FreePanel == [size |-> NoSize, holders |-> 0, exclusive |-> FALSE,
              first |-> NoSender]

(* Variants of the definitions below, each with one plausible slip; they   *)
(* are not part of the specification.                                      *)
AdmitsIntoExclusive(w, x) == panel.holders = 0 \/ (~x /\ panel.size = w)
AdmitsBySizeOnly(w, x) == ~x /\ ~panel.exclusive /\ panel.size = w
EmptiesPanelLate == panel.holders < 1
MayRetuneShared == panel.holders <= 2

(* AcquirePanel's test, negated: may a sender with size w and an exclusive *)
(* or shared wish x take a share now?                                      *)
Admits(w, x) == \/ panel.holders = 0
                \/ ~x /\ ~panel.exclusive /\ panel.size = w

PanelTaken(s, w, x) ==
    [size      |-> w,
     holders   |-> panel.holders + 1,
     exclusive |-> IF panel.holders = 0 THEN x ELSE panel.exclusive,
     first     |-> IF panel.holders = 0 THEN s ELSE panel.first]

(* ReleasePanel: the last holder out resets everything, the others only    *)
(* count down.  Its result is EmptiesPanel.                                *)
EmptiesPanel == panel.holders <= 1

PanelReleased == IF EmptiesPanel
                 THEN FreePanel
                 ELSE [panel EXCEPT !.holders = @ - 1]

(* RetunePanel: refused while more than one sender holds the panel.        *)
MayRetune == panel.holders <= 1

PanelRetuned(w) == IF MayRetune THEN [panel EXCEPT !.size = w] ELSE panel

-----------------------------------------------------------------------------
PCs == {"off",       \* no worker thread
        "top",       \* at the head of the reconnect loop, or sleeping there
        "dial",      \* connecting, then waiting for the hello
        "acquire",   \* hello received, about to ask for the panel
        "build",     \* holds the panel, building the pipeline
        "stream",    \* reader and capture loop running
        "rebuild",   \* the reader rebuilds for a hello of another size
        "scope"}     \* leaving the attempt: PanelHolder's destructor runs

Holding == {s \in Senders : held[s]}
OnAir == {s \in Senders : pc[s] \in {"stream", "rebuild"}}

TypeOK ==
    /\ panel \in [size : Sizes \cup {NoSize}, holders : Nat,
                  exclusive : BOOLEAN, first : Senders \cup {NoSender}]
    /\ pc \in [Senders -> PCs]
    /\ stop \in [Senders -> BOOLEAN]
    /\ held \in [Senders -> BOOLEAN]
    /\ kind \in [Senders -> Attempts]
    /\ size \in [Senders -> Sizes \cup {NoSize}]
    /\ want \in [Senders -> Sizes \cup {NoSize}]
    /\ state \in [Senders -> States]
    /\ blockedBy \in [Senders -> [size : Sizes \cup {NoSize},
                                  app : Senders \cup {NoSender}]]
    /\ lastClient \in [Senders -> BOOLEAN]
    /\ turned \in [Senders -> {"no", "refused", "windows"}]

NotBlocked == [size |-> NoSize, app |-> NoSender]

Init ==
    /\ panel = FreePanel
    /\ pc = [s \in Senders |-> "off"]
    /\ stop = [s \in Senders |-> FALSE]
    /\ held = [s \in Senders |-> FALSE]
    /\ kind = [s \in Senders |-> "none"]
    /\ size = [s \in Senders |-> NoSize]
    /\ want = [s \in Senders |-> NoSize]
    /\ state = [s \in Senders |-> "Idle"]
    /\ blockedBy = [s \in Senders |-> NotBlocked]
    /\ lastClient = [s \in Senders |-> FALSE]
    /\ turned = [s \in Senders |-> "no"]

Goto(s, label) == pc' = [pc EXCEPT ![s] = label]
SetState(s, st) == state' = [state EXCEPT ![s] = st]

(* The attempt's locals go out of scope.                                   *)
EndAttempt(s) == /\ Goto(s, "top")
                 /\ kind' = [kind EXCEPT ![s] = "none"]
                 /\ size' = [size EXCEPT ![s] = NoSize]
                 /\ want' = [want EXCEPT ![s] = NoSize]
                 /\ turned' = [turned EXCEPT ![s] = "no"]

-----------------------------------------------------------------------------
(* The tray: Start spawns the worker, Stop asks it to end and joins it.    *)

Start(s) ==
    /\ pc[s] = "off"
    /\ Goto(s, "top")
    /\ UNCHANGED <<panel, stop, held, kind, size, want, state, blockedBy,
                   lastClient, turned>>

RequestStop(s) ==
    /\ pc[s] # "off" /\ ~stop[s]
    /\ stop' = [stop EXCEPT ![s] = TRUE]
    /\ UNCHANGED <<panel, pc, held, kind, size, want, state, blockedBy,
                   lastClient, turned>>

(* The worker leaves its loop and Stop() returns.  blockedBy is not        *)
(* cleared here.                                                           *)
Stopped(s) ==
    /\ pc[s] = "top" /\ stop[s]
    /\ Goto(s, "off")
    /\ stop' = [stop EXCEPT ![s] = FALSE]
    /\ SetState(s, "Idle")
    /\ UNCHANGED <<panel, held, kind, size, want, blockedBy, lastClient,
                   turned>>

-----------------------------------------------------------------------------
(* One connection attempt, up to the panel claim.                          *)

(* The head of the loop: a Blocked sender keeps showing Blocked, and the   *)
(* driver is chosen afresh from the configuration of the moment.           *)
SelectBackend(s) ==
    /\ pc[s] = "top" /\ ~stop[s]
    /\ \E k \in Kinds : kind' = [kind EXCEPT ![s] = k]
    /\ SetState(s, IF state[s] = "Blocked" THEN "Blocked" ELSE "Connecting")
    /\ Goto(s, "dial")
    /\ UNCHANGED <<panel, stop, held, size, want, blockedBy, lastClient,
                   turned>>

(* The chosen driver is not installed: say so and come back later.         *)
DriverMissing(s) ==
    /\ pc[s] = "top" /\ ~stop[s]
    /\ SetState(s, "DriverMissing")
    /\ UNCHANGED <<panel, pc, stop, held, kind, size, want, blockedBy,
                   lastClient, turned>>

(* No connection, no hello on it, or the wrong iPad on the cable: back to  *)
(* the head of the loop with the state as it was.                          *)
NoHello(s) ==
    /\ pc[s] = "dial"
    /\ kind' = [kind EXCEPT ![s] = "none"]
    /\ Goto(s, "top")
    /\ UNCHANGED <<panel, stop, held, size, want, state, blockedBy,
                   lastClient, turned>>

Hello(s) ==
    /\ pc[s] = "dial"
    /\ \E w \in Sizes : size' = [size EXCEPT ![s] = w]
    /\ Goto(s, "acquire")
    /\ UNCHANGED <<panel, stop, held, kind, want, state, blockedBy,
                   lastClient, turned>>

Exclusive(s) == kind[s] = "Mtt"

Acquire(s) ==
    /\ pc[s] = "acquire"
    /\ Admits(size[s], Exclusive(s))
    /\ panel' = PanelTaken(s, size[s], Exclusive(s))
    /\ held' = [held EXCEPT ![s] = TRUE]
    /\ blockedBy' = [blockedBy EXCEPT ![s] = NotBlocked]
    /\ lastClient' = [lastClient EXCEPT ![s] = FALSE]
    /\ Goto(s, "build")
    /\ UNCHANGED <<stop, kind, size, want, state, turned>>

(* Refused: report who holds the display, hang up and keep checking back.  *)
Refused(s) ==
    /\ pc[s] = "acquire"
    /\ ~Admits(size[s], Exclusive(s))
    /\ blockedBy' = [blockedBy EXCEPT ![s] = [size |-> panel.size,
                                              app |-> panel.first]]
    /\ SetState(s, "Blocked")
    /\ EndAttempt(s)
    /\ UNCHANGED <<panel, stop, held, lastClient>>

-----------------------------------------------------------------------------
(* The pipeline and the session.                                           *)

Release(s) ==
    /\ panel' = PanelReleased
    /\ held' = [held EXCEPT ![s] = FALSE]
    /\ lastClient' = [lastClient EXCEPT ![s] = EmptiesPanel]

BuildDone(s) ==
    /\ pc[s] = "build"
    /\ SetState(s, "Streaming")
    /\ Goto(s, "stream")
    /\ UNCHANGED <<panel, stop, held, kind, size, want, blockedBy,
                   lastClient, turned>>

(* Variant: the claim is released but still marked as held.                *)
BuildFailedStillHeld(s) ==
    /\ pc[s] = "build"
    /\ panel' = PanelReleased
    /\ lastClient' = [lastClient EXCEPT ![s] = EmptiesPanel]
    /\ Goto(s, "scope")
    /\ UNCHANGED <<stop, held, kind, size, want, state, blockedBy, turned>>

(* The backend, the duplication or the encoder failed: the claim goes      *)
(* before the attempt does.                                                *)
BuildFailed(s) ==
    /\ pc[s] = "build"
    /\ Release(s)
    /\ Goto(s, "scope")
    /\ UNCHANGED <<stop, kind, size, want, state, blockedBy, turned>>

(* The iPad was turned: its reader thread takes the new size into the      *)
(* claim, or carries on without it while another iPad is attached.         *)
HelloAgain(s) ==
    /\ pc[s] = "stream"
    /\ \E w \in Sizes \ {size[s]} :
          /\ want' = [want EXCEPT ![s] = w]
          /\ panel' = PanelRetuned(w)
    /\ turned' = [turned EXCEPT ![s] = IF MayRetune THEN "no" ELSE "refused"]
    /\ Goto(s, "rebuild")
    /\ UNCHANGED <<stop, held, kind, size, state, blockedBy, lastClient>>

RebuildDone(s) ==
    /\ pc[s] = "rebuild"
    /\ size' = [size EXCEPT ![s] = want[s]]
    /\ want' = [want EXCEPT ![s] = NoSize]
    /\ Goto(s, "stream")
    /\ UNCHANGED <<panel, stop, held, kind, state, blockedBy, lastClient,
                   turned>>

(* The head was rotated or resized in Windows and the capture loop takes   *)
(* the new size over: Parsec adopts a rotation, MTT any other size that is *)
(* not the hello turned.  The claim is not told.                           *)
AdoptCapture(s) ==
    /\ pc[s] = "stream"
    /\ \E w \in Sizes \ {size[s]} :
          /\ IF kind[s] = "Parsec" THEN w = Turn[size[s]]
                                   ELSE w # Turn[size[s]]
          /\ size' = [size EXCEPT ![s] = w]
    /\ turned' = [turned EXCEPT ![s] = "windows"]
    /\ UNCHANGED <<panel, pc, stop, held, kind, want, state, blockedBy,
                   lastClient>>

(* The session ends: link loss, Stop, back to USB, or a rebuild that       *)
(* failed.  The reader is joined before the claim is released.             *)
SessionEnd(s) ==
    /\ pc[s] \in {"stream", "rebuild"}
    /\ Release(s)
    /\ Goto(s, "scope")
    /\ UNCHANGED <<stop, kind, size, want, state, blockedBy, turned>>

(* The attempt's scope ends.  ~PanelHolder releases a claim that is still  *)
(* held: after either path above there must be none left.                  *)
ScopeEnd(s) ==
    /\ pc[s] = "scope"
    /\ IF held[s] THEN Release(s) ELSE UNCHANGED <<panel, held, lastClient>>
    /\ EndAttempt(s)
    /\ UNCHANGED <<stop, state, blockedBy>>

-----------------------------------------------------------------------------
Next == \E s \in Senders :
    \/ Start(s) \/ RequestStop(s) \/ Stopped(s)
    \/ SelectBackend(s) \/ DriverMissing(s) \/ NoHello(s) \/ Hello(s)
    \/ Acquire(s) \/ Refused(s)
    \/ BuildDone(s) \/ BuildFailed(s)
    \/ HelloAgain(s) \/ RebuildDone(s) \/ AdoptCapture(s)
    \/ SessionEnd(s) \/ ScopeEnd(s)

Spec == Init /\ [][Next]_vars

(* A worker thread that can take a step takes one: nothing in the loop     *)
(* waits without a timeout except the reads, which the iPad ends.          *)
WorkerFairness ==
    \A s \in Senders :
        /\ WF_vars(Stopped(s))
        /\ WF_vars(SelectBackend(s) \/ DriverMissing(s) \/ Stopped(s))
        /\ WF_vars(NoHello(s) \/ Hello(s))
        /\ WF_vars(Acquire(s) \/ Refused(s))
        /\ WF_vars(BuildDone(s) \/ BuildFailed(s))
        /\ WF_vars(RebuildDone(s) \/ (SessionEnd(s) /\ pc[s] = "rebuild"))
        /\ WF_vars(SessionEnd(s) /\ stop[s])
        /\ WF_vars(ScopeEnd(s))

FairSpec == Spec /\ WorkerFairness

-----------------------------------------------------------------------------
(* Properties.                                                             *)

(* panel.holders is the number of senders whose PanelHolder is held: no    *)
(* path out of an attempt leaks a share or gives one back twice.           *)
HoldersCounted == panel.holders = Cardinality(Holding)

(* While MTT's head is claimed exclusively one sender holds the panel, and *)
(* every sender that is building or streaming holds it.                    *)
ExclusiveAlone ==
    /\ panel.exclusive => \E s \in Senders : Holding = {s}
    /\ \A s \in Senders :
          pc[s] \in {"build", "stream", "rebuild"} => held[s]

(* A sender whose size was not changed behind the claim's back - by a      *)
(* refused rotation or by a rotation in Windows - works at the size in the *)
(* claim, or is on its way there.                                          *)
UnturnedShareSize ==
    \A s \in Senders :
        held[s] /\ turned[s] = "no"
            => panel.size = IF pc[s] = "rebuild" THEN want[s] ELSE size[s]

(* The panel claim implements the abstract display share.                  *)
Share == INSTANCE DisplayShare WITH users <- Holding,
                                    alone <- panel.exclusive,
                                    last  <- lastClient

ShareSpec == Share!Spec

(* A different iPad waits and "starts by itself once the other iPad        *)
(* disconnects": a sender that keeps asking for the panel while, from some *)
(* moment on, nobody else has a share, does get it.  The claim never stays *)
(* stuck behind senders that are gone.                                     *)
StartsByItself ==
    \A s \in Senders :
        /\ <>[](Holding \subseteq {s})
        /\ []<>(pc[s] = "acquire")
        => []<>held[s]
=============================================================================
