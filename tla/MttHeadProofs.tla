--------------------------- MODULE MttHeadProofs ---------------------------
(***************************************************************************)
(* Proofs about MttHead for any finite set of senders and any bounds.  The *)
(* inductive invariant has two parts that do not need each other.          *)
(*                                                                         *)
(* OwnInv is about the grace state alone: who may be joining a thread,     *)
(* that a request for a teardown which is still the newest finds the slot  *)
(* empty, and that no two requests have the same epoch.                    *)
(*                                                                         *)
(* HeadInv is about the head and its flags: what holds inside the topology *)
(* mutex, between the detach or attach and the marker, and what is left    *)
(* for the next holder of the mutex.                                       *)
(***************************************************************************)
EXTENDS MttHead, TLAPS

JoinLabels == {"join", "cancel", "joinprev"}
LossLabels == {"takeprev", "joinprev", "spawn"}
HoldLabels == {"mark", "unmark"}
NotYet     == {"down", "adopt"}
Exiting    == {"exitjoin", "exitlock", "exitunmark", "exited"}

-----------------------------------------------------------------------------
(* The grace state.                                                        *)

(* A thread is joined only where the code joins one.                       *)
JoinsWhereCalled ==
    /\ \A s \in Senders : joins[s] # NoThread => pc[s] \in JoinLabels
    /\ joins[NoSender] # NoThread => tray = "exitjoin"

(* A worker that was started is in the slot or being joined.               *)
Owned == \A w \in Epochs :
            grace[w] # "none" => slot = w \/ \E t \in Threads : joins[t] = w

(* The requests in progress have epochs of their own, already given out.   *)
EpochsGiven ==
    \A s \in Senders : pc[s] \in LossLabels => my[s] \in 1..epoch

EpochsDiffer ==
    \A s, t \in Senders :
       pc[s] \in LossLabels /\ pc[t] \in LossLabels /\ my[s] = my[t] => s = t

(* The newest request has the slot to itself once it has emptied it.       *)
SlotKept ==
    \A s \in Senders :
       pc[s] \in {"joinprev", "spawn"} /\ my[s] = epoch => slot = NoThread

(* Before the message loop and after the last Stop no worker runs.         *)
Quiet == tray \in NotYet \cup Exiting =>
            slot = NoThread /\ \A s \in Senders : pc[s] = "off"

OwnInv == /\ JoinsWhereCalled
          /\ Owned
          /\ PendingServed
          /\ EpochsGiven
          /\ EpochsDiffer
          /\ SlotKept
          /\ Quiet

-----------------------------------------------------------------------------
(* The head.                                                               *)

(* Whoever is between a change of the topology and its marker has the      *)
(* mutex, and is alone there.                                              *)
MutexHeld ==
    /\ \A s \in Senders : pc[s] \in HoldLabels => topo
    /\ \A w \in Epochs : grace[w] = "unmark" => topo
    /\ tray = "exitunmark" => topo

MutexAlone ==
    /\ \A s, t \in Senders :
          pc[s] \in HoldLabels /\ pc[t] \in HoldLabels => s = t
    /\ \A v, w \in Epochs : grace[v] = "unmark" /\ grace[w] = "unmark" => v = w
    /\ \A s \in Senders, w \in Epochs :
          ~(pc[s] \in HoldLabels /\ grace[w] = "unmark")
    /\ tray = "exitunmark" =>
          /\ \A s \in Senders : pc[s] \notin HoldLabels
          /\ \A w \in Epochs : grace[w] # "unmark"

(* Inside the mutex the head is as it was left a moment ago.               *)
HeadInside ==
    /\ \A s \in Senders : pc[s] = "mark" => head = "app" /\ restored = 0
    /\ \A s \in Senders : pc[s] = "unmark" => head = "none" /\ restored = 0
    /\ \A w \in Epochs : grace[w] = "unmark" => head = "none" /\ restored = 0
    /\ tray = "exitunmark" => head = "none" /\ restored = 0

(* A layout that was applied is remembered as applied, and what is         *)
(* remembered was applied.                                                 *)
LayoutNoted ==
    /\ \/ restored = 0
       \/ restored = 1 /\ head # "none" /\ owned /\ positioned
    /\ ~topo /\ owned /\ head = "app" /\ positioned => restored = 1

(* Before the message loop nothing was applied, and the senders are off as *)
(* in Quiet.  A crash leaves no thread, no mutex and no flag behind.       *)
HeadAtStart ==
    /\ tray \in NotYet => restored = 0
    /\ tray \in NotYet \cup Exiting => \A s \in Senders : pc[s] = "off"
    /\ tray = "down" =>
          ~topo /\ ~positioned /\ \A w \in Epochs : grace[w] = "none"

(* The two halves of MarkedIsOurs, without the mutex for the first.        *)
MarkerTold == tray # "down" => marker = owned

OursMarked == ~topo /\ ~disturbed => (marker <=> head = "app")

HeadInv == /\ MutexHeld
           /\ MutexAlone
           /\ HeadInside
           /\ LayoutNoted
           /\ HeadAtStart
           /\ MarkerTold
           /\ OursMarked
           /\ ExitRemovesHead

Inv == TypeOK /\ OwnInv /\ HeadInv

-----------------------------------------------------------------------------
(* Type correctness.                                                       *)

(* The initial values have their types.                                    *)
LEMMA TypeInit == Init => TypeOK
  <1> SUFFICES ASSUME Init PROVE TypeOK
    OBVIOUS
  <1>1. epoch \in 0..MaxEpoch /\ my \in [Senders -> 0..MaxEpoch]
    BY BoundsAssumption DEF Init
  <1>2. left \in [{"sessions", "rebuilds", "outside", "crashes"} -> Nat]
    BY BoundsAssumption DEF Init
  <1>3. pc \in [Senders -> PCs] /\ grace \in [Epochs -> GraceStates]
    BY DEF Init, PCs, GraceStates
  <1>4. tray \in TrayStates /\ head \in {"none", "app", "other"}
    BY DEF Init, TrayStates
  <1>5. joins \in [Threads -> Epochs \cup {NoThread}] /\ restored \in 0..2
    BY DEF Init
  <1> QED BY <1>1, <1>2, <1>3, <1>4, <1>5 DEF Init, TypeOK

(* A critical section that cancels leaves the grace state well-typed.      *)
LEMMA CancelSectionType ==
  ASSUME TypeOK, NEW t \in Threads, CancelSection(t)
  PROVE  /\ pending' \in BOOLEAN
         /\ epoch' \in 0..MaxEpoch
         /\ joins' \in [Threads -> Epochs \cup {NoThread}]
         /\ slot' \in Epochs \cup {NoThread}
         /\ grace' \in [Epochs -> GraceStates]
  <1>1. epoch' \in 0..MaxEpoch
    BY BoundsAssumption DEF TypeOK, CancelSection
  <1> QED BY <1>1 DEF TypeOK, CancelSection

(* So does a join.                                                         *)
LEMMA JoinDoneType ==
  ASSUME TypeOK, NEW t \in Threads, JoinDone(t)
  PROVE  /\ joins' \in [Threads -> Epochs \cup {NoThread}]
         /\ grace' \in [Epochs -> GraceStates]
  BY DEF TypeOK, JoinDone, GraceStates

(* The end of an attempt leaves the sender well-typed.                     *)
LEMMA AttemptOverType ==
  ASSUME TypeOK, NEW s \in Senders, AttemptOver(s)
  PROVE  /\ pc' \in [Senders -> PCs]
         /\ built' \in [Senders -> BOOLEAN]
         /\ my' \in [Senders -> 0..MaxEpoch]
  BY BoundsAssumption DEF TypeOK, AttemptOver, Goto, PCs

(* TearDownMttVdd leaves the head and its flags well-typed.                *)
LEMMA TearDownType ==
  ASSUME TypeOK, Detach \/ NothingToDetach \/ DetachFails
  PROVE  /\ topo' \in BOOLEAN
         /\ head' \in {"none", "app", "other"}
         /\ owned' \in BOOLEAN /\ marker' \in BOOLEAN
         /\ positioned' \in BOOLEAN
         /\ restored' \in 0..2
         /\ disturbed' \in BOOLEAN
  <1>1. CASE Detach
    BY <1>1 DEF TypeOK, Detach
  <1>2. CASE NothingToDetach
    BY <1>2 DEF TypeOK, NothingToDetach
  <1>3. CASE DetachFails
    BY <1>3 DEF TypeOK, DetachFails, headVars
  <1> QED BY <1>1, <1>2, <1>3

(* A step of a sender keeps the types; that a layout is not applied a      *)
(* second time keeps the count of them small.                              *)
LEMMA TypeSender ==
  ASSUME TypeOK, LayoutNoted, HeadInside, NEW s \in Senders,
         \/ StartSender(s) \/ StopSender(s) \/ Claim(s) \/ Rebuild(s)
         \/ SessionEnd(s) \/ SenderStep(s)
  PROVE  TypeOK'
  <1>1. CASE StartSender(s)
    <2>1. pc' \in [Senders -> PCs]
      BY <1>1 DEF TypeOK, StartSender, Goto, PCs
    <2> QED BY <1>1, <2>1 DEF TypeOK, StartSender, grVars, headVars
  <1>2. CASE StopSender(s)
    <2>1. tray' \in TrayStates
      BY <1>2 DEF TypeOK, StopSender, TrayStates
    <2>2. stop' \in [Senders -> BOOLEAN]
      BY <1>2 DEF TypeOK, StopSender
    <2> QED BY <1>2, <2>1, <2>2 DEF TypeOK, StopSender, grVars, headVars
  <1>3. CASE Claim(s)
    <2>1. pc' \in [Senders -> PCs]
      BY <1>3 DEF TypeOK, Claim, Goto, PCs
    <2>2. left' \in [{"sessions", "rebuilds", "outside", "crashes"} -> Nat]
      BY <1>3 DEF TypeOK, Claim, Spend
    <2> QED BY <1>3, <2>1, <2>2 DEF TypeOK, Claim, grVars, headVars
  <1>4. CASE Rebuild(s)
    <2>1. pc' \in [Senders -> PCs]
      BY <1>4 DEF TypeOK, Rebuild, Goto, PCs
    <2>2. left' \in [{"sessions", "rebuilds", "outside", "crashes"} -> Nat]
      BY <1>4 DEF TypeOK, Rebuild, Spend
    <2> QED BY <1>4, <2>1, <2>2 DEF TypeOK, Rebuild, grVars, headVars
  <1>5. CASE SessionEnd(s)
    <2>1. pc' \in [Senders -> PCs]
      BY <1>5 DEF TypeOK, SessionEnd, Goto, PCs
    <2> QED BY <1>5, <2>1 DEF TypeOK, SessionEnd, grVars, headVars
  <1>6. CASE Stopped(s)
    <2>1. pc' \in [Senders -> PCs]
      BY <1>6 DEF TypeOK, Stopped, Goto, PCs
    <2>2. tray' \in TrayStates
      BY <1>6 DEF TypeOK, Stopped, TrayStates
    <2>3. stop' \in [Senders -> BOOLEAN]
      BY <1>6 DEF TypeOK, Stopped
    <2> QED BY <1>6, <2>1, <2>2, <2>3 DEF TypeOK, Stopped, grVars, headVars
  <1>7. CASE EnsureModes(s)
    <2>1. pc' \in [Senders -> PCs]
      BY <1>7 DEF TypeOK, EnsureModes, Goto, PCs
    <2>2. positioned' \in BOOLEAN
      BY <1>7 DEF TypeOK, EnsureModes
    <2>3. restored' \in 0..2
      BY <1>7 DEF TypeOK, EnsureModes
    <2> QED BY <1>7, <2>1, <2>2, <2>3 DEF TypeOK, EnsureModes, grVars
  <1>8. CASE EnsureRefused(s)
    <2>1. pc' \in [Senders -> PCs]
      BY <1>8 DEF TypeOK, EnsureRefused, Goto, PCs
    <2> QED BY <1>8, <2>1 DEF TypeOK, EnsureRefused, grVars, headVars
  <1>9. CASE EnsureCancel(s)
    <2>1. pc' \in [Senders -> PCs]
      BY <1>9 DEF TypeOK, EnsureCancel, Goto, PCs
    <2>2. s \in Threads
      BY <1>9 DEF Threads
    <2> QED BY <1>9, <2>1, <2>2, CancelSectionType DEF TypeOK, EnsureCancel,
       headVars
  <1>10. CASE EnsureJoin(s)
    <2>1. pc' \in [Senders -> PCs]
      BY <1>10 DEF TypeOK, EnsureJoin, Goto, PCs
    <2>2. s \in Threads
      BY <1>10 DEF Threads
    <2> QED BY <1>10, <2>1, <2>2, JoinDoneType DEF TypeOK, EnsureJoin, headVars
  <1>11. CASE EnsurePresent(s)
    <2>1. pc' \in [Senders -> PCs]
      BY <1>11 DEF TypeOK, EnsurePresent, Goto, PCs
    <2>2. restored' \in 0..2 /\ positioned' \in BOOLEAN
      BY <1>11 DEF TypeOK, EnsurePresent, LayoutNoted
    <2> QED BY <1>11, <2>1, <2>2 DEF TypeOK, EnsurePresent, grVars
  <1>12. CASE EnsureAttach(s)
    <2>1. pc' \in [Senders -> PCs]
      BY <1>12 DEF TypeOK, EnsureAttach, Goto, PCs
    <2>2. restored' \in 0..2
      BY <1>12 DEF EnsureAttach
    <2> QED BY <1>12, <2>1, <2>2 DEF TypeOK, EnsureAttach, grVars
  <1>13. CASE EnsureAttachFails(s)
    <2>1. pc' \in [Senders -> PCs]
      BY <1>13 DEF TypeOK, EnsureAttachFails, Goto, PCs
    <2> QED BY <1>13, <2>1 DEF TypeOK, EnsureAttachFails, grVars,
       headVars
  <1>14. CASE EnsureMark(s)
    <2>1. pc' \in [Senders -> PCs]
      BY <1>14 DEF TypeOK, EnsureMark, Goto, PCs
    <2>2. restored' \in 0..2
      BY <1>14 DEF EnsureMark, HeadInside
    <2> QED BY <1>14, <2>1, <2>2 DEF TypeOK, EnsureMark, grVars
  <1>15. CASE Build(s)
    <2>1. pc' \in [Senders -> PCs]
      BY <1>15 DEF TypeOK, Build, Goto, PCs
    <2>2. using' \in [Senders -> BOOLEAN] /\ built' \in [Senders -> BOOLEAN]
      BY <1>15 DEF TypeOK, Build
    <2> QED BY <1>15, <2>1, <2>2 DEF TypeOK, Build, grVars, headVars
  <1>16. CASE BuildFails(s)
    <2>1. pc' \in [Senders -> PCs]
      BY <1>16 DEF TypeOK, BuildFails, Goto, PCs
    <2>2. using' \in [Senders -> BOOLEAN]
      BY <1>16 DEF TypeOK, BuildFails
    <2> QED BY <1>16, <2>1, <2>2 DEF TypeOK, BuildFails, grVars, headVars
  <1>17. CASE NoRequest(s)
    BY <1>17, AttemptOverType DEF TypeOK, NoRequest, grVars, headVars
  <1>18. CASE RequestUser(s)
    <2>1. pc' \in [Senders -> PCs]
      BY <1>18 DEF TypeOK, RequestUser, Goto, PCs
    <2>2. s \in Threads
      BY <1>18 DEF Threads
    <2> QED BY <1>18, <2>1, <2>2, CancelSectionType DEF TypeOK, RequestUser,
       headVars
  <1>19. CASE UserJoin(s)
    <2>1. pc' \in [Senders -> PCs]
      BY <1>19 DEF TypeOK, UserJoin, Goto, PCs
    <2>2. s \in Threads
      BY <1>19 DEF Threads
    <2> QED BY <1>19, <2>1, <2>2, JoinDoneType DEF TypeOK, UserJoin, headVars
  <1>20. CASE UserDetach(s)
    <2>1. pc' \in [Senders -> PCs]
      BY <1>20 DEF TypeOK, UserDetach, Goto, PCs
    <2> QED BY <1>20, <2>1, TearDownType DEF TypeOK, UserDetach, grVars
  <1>21. CASE UserSkip(s)
    <2>1. using' \in [Senders -> BOOLEAN]
      BY <1>21 DEF TypeOK, UserSkip
    <2> QED BY <1>21, <2>1, AttemptOverType, TearDownType DEF TypeOK, UserSkip,
       grVars
  <1>22. CASE UserUnmark(s)
    <2>1. using' \in [Senders -> BOOLEAN]
      BY <1>22 DEF TypeOK, UserUnmark
    <2> QED BY <1>22, <2>1, AttemptOverType DEF TypeOK, UserUnmark, Unmark,
       grVars
  <1>23. CASE RequestLinkLoss(s)
    <2>1. pc' \in [Senders -> PCs]
      BY <1>23 DEF TypeOK, RequestLinkLoss, Goto, PCs
    <2>2. epoch' \in 0..MaxEpoch
      BY <1>23, BoundsAssumption DEF TypeOK, RequestLinkLoss
    <2>3. my' \in [Senders -> 0..MaxEpoch]
      BY <1>23, <2>2 DEF TypeOK, RequestLinkLoss
    <2> QED BY <1>23, <2>1, <2>2, <2>3 DEF TypeOK, RequestLinkLoss, headVars
  <1>24. CASE TakePrevious(s)
    <2>1. pc' \in [Senders -> PCs]
      BY <1>24 DEF TypeOK, TakePrevious, Goto, PCs
    <2>2. joins' \in [Threads -> Epochs \cup {NoThread}]
      BY <1>24 DEF TypeOK, TakePrevious, Threads
    <2> QED BY <1>24, <2>1, <2>2 DEF TypeOK, TakePrevious, headVars
  <1>25. CASE JoinPrevious(s)
    <2>1. pc' \in [Senders -> PCs]
      BY <1>25 DEF TypeOK, JoinPrevious, Goto, PCs
    <2>2. s \in Threads
      BY <1>25 DEF Threads
    <2> QED BY <1>25, <2>1, <2>2, JoinDoneType DEF TypeOK, JoinPrevious,
       headVars
  <1>26. CASE SpawnGrace(s)
    <2>1. slot' \in Epochs \cup {NoThread}
      BY <1>26 DEF TypeOK, SpawnGrace, Epochs, NoThread
    <2>2. grace' \in [Epochs -> GraceStates]
      BY <1>26 DEF TypeOK, SpawnGrace, GraceStates
    <2> QED BY <1>26, <2>1, <2>2, AttemptOverType DEF TypeOK, SpawnGrace,
       headVars
  <1> QED BY <1>1, <1>2, <1>3, <1>4, <1>5, <1>6, <1>7, <1>8, <1>9, <1>10,
     <1>11, <1>12, <1>13, <1>14, <1>15, <1>16, <1>17, <1>18, <1>19, <1>20,
     <1>21, <1>22, <1>23, <1>24, <1>25, <1>26 DEF SenderStep

(* So does a step of a grace worker, of the tray or of the environment.    *)
LEMMA TypeOther ==
  ASSUME TypeOK,
         \/ TrayStep \/ Quit \/ \E w \in Epochs : GraceStep(w)
         \/ Outside \/ Crash \/ Restart \/ Ended
  PROVE  TypeOK'
  <1>1. CASE Adopt
    <2>1. tray' \in TrayStates
      BY <1>1 DEF TypeOK, Adopt, TrayStates
    <2>2. epoch' \in 0..MaxEpoch /\ slot' \in Epochs \cup {NoThread}
      BY <1>1, BoundsAssumption DEF TypeOK, Adopt, Epochs, grVars
    <2>3. grace' \in [Epochs -> GraceStates]
      BY <1>1 DEF TypeOK, Adopt, GraceStates, grVars
    <2>4. pending' \in BOOLEAN /\ positioned' \in BOOLEAN
      BY <1>1 DEF TypeOK, Adopt, grVars
    <2> QED BY <1>1, <2>1, <2>2, <2>3, <2>4 DEF TypeOK, Adopt, sendVars
  <1>2. CASE ExitCancel
    <2>1. tray' \in TrayStates
      BY <1>2 DEF TypeOK, ExitCancel, TrayStates
    <2> QED BY <1>2, <2>1, CancelSectionType DEF TypeOK, ExitCancel, Threads,
       sendVars, headVars
  <1>3. CASE ExitJoin
    <2>1. tray' \in TrayStates
      BY <1>3 DEF TypeOK, ExitJoin, TrayStates
    <2> QED BY <1>3, <2>1, JoinDoneType DEF TypeOK, ExitJoin, Threads,
       sendVars, headVars
  <1>4. CASE ExitTearDown
    <2>1. tray' \in TrayStates
      BY <1>4 DEF TypeOK, ExitTearDown, TrayStates
    <2>2. /\ topo' \in BOOLEAN /\ disturbed' \in BOOLEAN
          /\ head' \in {"none", "app", "other"} /\ restored' \in 0..2
          /\ owned' \in BOOLEAN /\ marker' \in BOOLEAN /\ positioned' \in BOOLEAN
      BY <1>4, TearDownType DEF TypeOK, ExitTearDown, headVars
    <2> QED BY <1>4, <2>1, <2>2 DEF TypeOK, ExitTearDown, sendVars, grVars
  <1>5. CASE ExitUnmark
    <2>1. tray' \in TrayStates
      BY <1>5 DEF TypeOK, ExitUnmark, TrayStates
    <2> QED BY <1>5, <2>1 DEF TypeOK, ExitUnmark, Unmark, sendVars, grVars
  <1>6. CASE Quit
    <2>1. tray' \in TrayStates
      BY <1>6 DEF TypeOK, Quit, TrayStates
    <2> QED BY <1>6, <2>1 DEF TypeOK, Quit, sendVars, headVars, grVars
  <1>7. CASE Outside
    <2>1. left' \in [{"sessions", "rebuilds", "outside", "crashes"} -> Nat]
      BY <1>7 DEF TypeOK, Outside, Spend
    <2>2. head' \in {"none", "app", "other"} /\ restored' \in 0..2
      BY <1>7 DEF TypeOK, Outside
    <2> QED BY <1>7, <2>1, <2>2 DEF TypeOK, Outside, sendVars, grVars
  <1>8. CASE Crash
    <2>1. left' \in [{"sessions", "rebuilds", "outside", "crashes"} -> Nat]
      BY <1>8 DEF TypeOK, Crash, Spend
    <2>2. pc' \in [Senders -> PCs] /\ grace' \in [Epochs -> GraceStates]
      BY <1>8 DEF Crash, PCs, GraceStates
    <2>3. my' \in [Senders -> 0..MaxEpoch] /\ epoch' \in 0..MaxEpoch
      BY <1>8, BoundsAssumption DEF Crash
    <2>4. tray' \in TrayStates /\ restored' \in 0..2
      BY <1>8 DEF Crash, TrayStates
    <2>5. joins' \in [Threads -> Epochs \cup {NoThread}]
      BY <1>8 DEF Crash
    <2> QED BY <1>8, <2>1, <2>2, <2>3, <2>4, <2>5 DEF TypeOK, Crash
  <1>9. CASE Restart
    <2>1. tray' \in TrayStates
      BY <1>9 DEF TypeOK, Restart, TrayStates
    <2> QED BY <1>9, <2>1 DEF TypeOK, Restart, sendVars, grVars
  <1>10. CASE Ended
    BY <1>10 DEF TypeOK, Ended, vars
  <1>11. ASSUME NEW w \in Epochs, GraceStep(w) PROVE TypeOK'
    <2>1. CASE GraceExpires(w)
      <3>1. grace' \in [Epochs -> GraceStates]
        BY <2>1 DEF TypeOK, GraceExpires, GraceStates
      <3> QED BY <2>1, <3>1 DEF TypeOK, GraceExpires, sendVars, headVars
    <2>2. CASE GraceCancelled(w)
      <3>1. grace' \in [Epochs -> GraceStates]
        BY <2>2 DEF TypeOK, GraceCancelled, GraceStates
      <3> QED BY <2>2, <3>1 DEF TypeOK, GraceCancelled, sendVars, headVars
    <2>3. CASE GraceDetach(w)
      <3>1. grace' \in [Epochs -> GraceStates]
        BY <2>3 DEF TypeOK, GraceDetach, GraceStates
      <3> QED BY <2>3, <3>1, TearDownType DEF TypeOK, GraceDetach, sendVars
    <2>4. CASE GraceSkip(w)
      <3>1. grace' \in [Epochs -> GraceStates]
        BY <2>4 DEF TypeOK, GraceSkip, GraceStates
      <3> QED BY <2>4, <3>1, TearDownType DEF TypeOK, GraceSkip, sendVars
    <2>5. CASE GraceUnmark(w)
      <3>1. grace' \in [Epochs -> GraceStates]
        BY <2>5 DEF TypeOK, GraceUnmark, GraceStates
      <3> QED BY <2>5, <3>1 DEF TypeOK, GraceUnmark, Unmark, sendVars
    <2> QED BY <1>11, <2>1, <2>2, <2>3, <2>4, <2>5 DEF GraceStep
  <1> QED BY <1>1, <1>2, <1>3, <1>4, <1>5, <1>6, <1>7, <1>8, <1>9, <1>10, <1>11
     DEF TrayStep

(* Every step keeps the types.                                             *)
LEMMA TypeStep == TypeOK /\ LayoutNoted /\ HeadInside /\ [Next]_vars => TypeOK'
  <1> SUFFICES ASSUME TypeOK, LayoutNoted, HeadInside, [Next]_vars
              PROVE  TypeOK'
    OBVIOUS
  <1>1. CASE UNCHANGED vars
    BY <1>1 DEF TypeOK, vars
  <1>2. CASE Next
    BY <1>2, TypeSender, TypeOther DEF Next
  <1> QED BY <1>1, <1>2

-----------------------------------------------------------------------------
(* The grace state.  Most steps only move a sender between places that     *)
(* have nothing to do with it.                                             *)

(* A step that leaves the grace state, the joins and the requests alone    *)
(* keeps the invariant.                                                    *)
LEMMA OwnUnmoved ==
  ASSUME TypeOK, OwnInv, UNCHANGED <<joins, pending, epoch, slot, grace>>,
         \A s \in Senders :
            \/ pc'[s] = pc[s]
            \/ /\ pc[s] \notin JoinLabels \cup LossLabels
               /\ pc'[s] \notin JoinLabels \cup LossLabels,
         \A s \in Senders : pc[s] \in LossLabels => my'[s] = my[s],
         tray = "exitjoin" => tray' = "exitjoin",
         tray' \in NotYet \cup Exiting =>
            tray \in NotYet \cup Exiting /\ pc' = pc
  PROVE  OwnInv'
  <1> USE DEF OwnInv
  <1>1. JoinsWhereCalled'
    BY DEF JoinsWhereCalled
  <1>2. Owned'
    BY DEF Owned
  <1>3. PendingServed'
    BY DEF PendingServed, LossLabels
  <1>4. EpochsGiven' /\ EpochsDiffer'
    BY DEF EpochsGiven, EpochsDiffer
  <1>5. SlotKept'
    BY DEF SlotKept, LossLabels
  <1>6. Quiet'
    BY DEF Quiet
  <1> QED BY <1>1, <1>2, <1>3, <1>4, <1>5, <1>6

(* A step of a grace worker keeps it: what has been started stays owned,   *)
(* and a worker only stops waiting when nothing is pending for it.         *)
LEMMA OwnGraceMoves ==
  ASSUME TypeOK, OwnInv, NEW w \in Epochs,
         NEW v \in GraceStates \ {"none"}, grace[w] # "none",
         grace' = [grace EXCEPT ![w] = v],
         UNCHANGED <<joins, epoch, slot, pc, my, tray>>,
         pending' => pending /\ ~(epoch = w /\ grace[w] = "waiting")
  PROVE  OwnInv'
  <1> USE DEF OwnInv
  <1>1. JoinsWhereCalled'
    BY DEF JoinsWhereCalled
  <1>2. Owned'
    BY DEF Owned, TypeOK
  <1>3. PendingServed'
    BY DEF PendingServed, TypeOK
  <1>4. EpochsGiven' /\ EpochsDiffer' /\ SlotKept' /\ Quiet'
    BY DEF EpochsGiven, EpochsDiffer, SlotKept, Quiet
  <1> QED BY <1>1, <1>2, <1>3, <1>4

(* CancelPendingMttVddTeardown by a thread that joins nobody yet: it takes *)
(* over what was in the slot.                                              *)
LEMMA OwnCancel ==
  ASSUME TypeOK, OwnInv, NEW t \in Threads, joins[t] = NoThread,
         CancelSection(t)
  PROVE  Owned' /\ PendingServed' /\ slot' = NoThread
  <1>1. Owned'
    <2> SUFFICES ASSUME NEW w \in Epochs, grace[w] # "none"
                 PROVE  \E u \in Threads : joins'[u] = w
      BY DEF Owned, CancelSection
    <2>1. CASE slot = w
      BY <2>1 DEF CancelSection, TypeOK
    <2>2. CASE slot # w
      <3>1. PICK u \in Threads : joins[u] = w
        BY <2>2 DEF OwnInv, Owned
      <3>2. u # t
        BY <3>1 DEF Epochs, NoThread
      <3> QED BY <3>1, <3>2 DEF CancelSection, TypeOK
    <2> QED BY <2>1, <2>2
  <1> QED BY <1>1 DEF CancelSection, PendingServed

(* thread.join(): only a finished worker stops being owned.                *)
LEMMA OwnJoin ==
  ASSUME TypeOK, OwnInv, NEW t \in Threads, JoinDone(t), UNCHANGED slot
  PROVE  /\ Owned'
         /\ joins'[t] = NoThread
         /\ \A u \in Threads : u # t => joins'[u] = joins[u]
         /\ \A w \in Epochs : grace[w] = "waiting" => grace'[w] = "waiting"
  <1>1. /\ joins'[t] = NoThread
        /\ \A u \in Threads : u # t => joins'[u] = joins[u]
    BY DEF JoinDone, TypeOK
  <1>2. \A w \in Epochs : grace[w] = "waiting" => grace'[w] = "waiting"
    BY DEF JoinDone, TypeOK, Epochs, NoThread
  <1>3. Owned'
    <2> SUFFICES ASSUME NEW w \in Epochs, grace'[w] # "none"
                 PROVE  slot = w \/ \E u \in Threads : joins'[u] = w
      BY DEF Owned
    <2>1. grace[w] # "none" /\ w # joins[t]
      BY DEF JoinDone, TypeOK
    <2> QED BY <1>1, <2>1 DEF OwnInv, Owned
  <1> QED BY <1>1, <1>2, <1>3

(* At the start nothing is pending and no worker runs.                     *)
LEMMA OwnInit == Init => OwnInv
  <1> SUFFICES ASSUME Init PROVE OwnInv
    OBVIOUS
  <1>1. /\ \A s \in Senders : pc[s] = "off"
        /\ \A t \in Threads : joins[t] = NoThread
        /\ ~pending /\ slot = NoThread
        /\ \A w \in Epochs : grace[w] = "none"
    BY DEF Init
  <1> QED BY <1>1
          DEF OwnInv, JoinsWhereCalled, Owned, PendingServed, EpochsGiven,
              EpochsDiffer, SlotKept, Quiet, LossLabels, Threads

(* The steps of a sender keep the invariant.                               *)
LEMMA OwnSender ==
  ASSUME TypeOK, OwnInv, NEW s \in Senders,
         \/ StartSender(s) \/ StopSender(s) \/ Claim(s) \/ Rebuild(s)
         \/ SessionEnd(s) \/ SenderStep(s)
  PROVE  OwnInv'
  <1> DEFINE NewPC(l) == pc' = [pc EXCEPT ![s] = l]
  <1>1. s \in Threads /\ s # NoSender
    BY SendersAssumption DEF Threads
  <1>2. tray \in NotYet \cup Exiting => pc[s] = "off"
    BY DEF OwnInv, Quiet
  <1>3. CASE StartSender(s) \/ StopSender(s) \/ Stopped(s)
    <2>1. /\ UNCHANGED <<joins, pending, epoch, slot, grace, my>>
          /\ pc' = pc \/ NewPC("idle") \/ NewPC("off")
          /\ pc[s] \in {"off", "idle"} \/ pc' = pc
          /\ tray \notin NotYet \cup Exiting
          /\ tray' \notin NotYet \cup Exiting
      BY <1>2, <1>3 DEF StartSender, StopSender, Stopped, Goto, grVars, NotYet,
         Exiting
    <2> QED BY <2>1, OwnUnmoved
            DEF JoinLabels, LossLabels, NotYet, Exiting, TypeOK
  <1>4. CASE Claim(s) \/ Rebuild(s) \/ SessionEnd(s)
    <2>1. UNCHANGED <<joins, pending, epoch, slot, grace, tray>>
      BY <1>4 DEF Claim, Rebuild, SessionEnd, grVars
    <2>2. pc[s] # "off" /\ pc[s] \notin JoinLabels \cup LossLabels
      BY <1>4 DEF Claim, Rebuild, SessionEnd, JoinLabels, LossLabels
    <2>3. PICK l \in PCs \ (JoinLabels \cup LossLabels) : NewPC(l)
      BY <1>4 DEF Claim, Rebuild, SessionEnd, Goto, PCs, JoinLabels, LossLabels
    <2>4. \A t \in Senders : t # s => my'[t] = my[t]
      BY <1>4 DEF Claim, Rebuild, SessionEnd, TypeOK
    <2> QED BY <1>2, <2>1, <2>2, <2>3, <2>4, OwnUnmoved DEF TypeOK
  <1>5. CASE EnsureModes(s) \/ EnsureRefused(s) \/ EnsurePresent(s)
    <2>1. UNCHANGED <<joins, pending, epoch, slot, grace, tray>>
      BY <1>5 DEF EnsureModes, EnsureRefused, EnsurePresent, grVars
    <2>2. pc[s] # "off" /\ pc[s] \notin JoinLabels \cup LossLabels
      BY <1>5 DEF EnsureModes, EnsureRefused, EnsurePresent, JoinLabels,
         LossLabels
    <2>3. PICK l \in PCs \ (JoinLabels \cup LossLabels) : NewPC(l)
      BY <1>5 DEF EnsureModes, EnsureRefused, EnsurePresent, Goto, PCs,
         JoinLabels, LossLabels
    <2>4. \A t \in Senders : t # s => my'[t] = my[t]
      BY <1>5 DEF EnsureModes, EnsureRefused, EnsurePresent, TypeOK
    <2> QED BY <1>2, <2>1, <2>2, <2>3, <2>4, OwnUnmoved DEF TypeOK
  <1>6. CASE EnsureAttach(s) \/ EnsureAttachFails(s) \/ EnsureMark(s)
    <2>1. UNCHANGED <<joins, pending, epoch, slot, grace, tray>>
      BY <1>6 DEF EnsureAttach, EnsureAttachFails, EnsureMark, grVars
    <2>2. pc[s] # "off" /\ pc[s] \notin JoinLabels \cup LossLabels
      BY <1>6 DEF EnsureAttach, EnsureAttachFails, EnsureMark, JoinLabels,
         LossLabels
    <2>3. PICK l \in PCs \ (JoinLabels \cup LossLabels) : NewPC(l)
      BY <1>6 DEF EnsureAttach, EnsureAttachFails, EnsureMark, Goto, PCs,
         JoinLabels, LossLabels
    <2>4. \A t \in Senders : t # s => my'[t] = my[t]
      BY <1>6 DEF EnsureAttach, EnsureAttachFails, EnsureMark, TypeOK
    <2> QED BY <1>2, <2>1, <2>2, <2>3, <2>4, OwnUnmoved DEF TypeOK
  <1>7. CASE Build(s) \/ BuildFails(s) \/ NoRequest(s)
    <2>1. UNCHANGED <<joins, pending, epoch, slot, grace, tray>>
      BY <1>7 DEF Build, BuildFails, NoRequest, grVars
    <2>2. pc[s] # "off" /\ pc[s] \notin JoinLabels \cup LossLabels
      BY <1>7 DEF Build, BuildFails, NoRequest, JoinLabels, LossLabels
    <2>3. PICK l \in PCs \ (JoinLabels \cup LossLabels) : NewPC(l)
      BY <1>7 DEF Build, BuildFails, NoRequest, AttemptOver, Goto, PCs,
         JoinLabels, LossLabels
    <2>4. \A t \in Senders : t # s => my'[t] = my[t]
      BY <1>7 DEF Build, BuildFails, NoRequest, AttemptOver, TypeOK
    <2> QED BY <1>2, <2>1, <2>2, <2>3, <2>4, OwnUnmoved DEF TypeOK
  <1>8. CASE UserDetach(s) \/ UserSkip(s) \/ UserUnmark(s)
    <2>1. UNCHANGED <<joins, pending, epoch, slot, grace, tray>>
      BY <1>8 DEF UserDetach, UserSkip, UserUnmark, grVars
    <2>2. pc[s] # "off" /\ pc[s] \notin JoinLabels \cup LossLabels
      BY <1>8 DEF UserDetach, UserSkip, UserUnmark, JoinLabels, LossLabels
    <2>3. PICK l \in PCs \ (JoinLabels \cup LossLabels) : NewPC(l)
      BY <1>8 DEF UserDetach, UserSkip, UserUnmark, AttemptOver, Goto, PCs,
         JoinLabels, LossLabels
    <2>4. \A t \in Senders : t # s => my'[t] = my[t]
      BY <1>8 DEF UserDetach, UserSkip, UserUnmark, AttemptOver, TypeOK
    <2> QED BY <1>2, <2>1, <2>2, <2>3, <2>4, OwnUnmoved DEF TypeOK
  <1>9. CASE EnsureCancel(s) \/ RequestUser(s)
    <2>1. CancelSection(s) /\ pc[s] \in {"ensure", "request"}
      BY <1>9 DEF EnsureCancel, RequestUser
    <2>2. PICK l \in {"join", "cancel"} : NewPC(l)
      BY <1>9 DEF EnsureCancel, RequestUser, Goto
    <2>3. UNCHANGED <<my, tray>>
      BY <1>9 DEF EnsureCancel, RequestUser
    <2>4. joins[s] = NoThread
      BY <2>1 DEF OwnInv, JoinsWhereCalled, JoinLabels
    <2>5. JoinsWhereCalled'
      BY <1>1, <2>1, <2>2, <2>3
         DEF OwnInv, JoinsWhereCalled, JoinLabels, CancelSection, TypeOK, Threads
    <2>6. EpochsGiven' /\ EpochsDiffer'
      BY <2>1, <2>2, <2>3
         DEF OwnInv, EpochsGiven, EpochsDiffer, LossLabels, CancelSection, TypeOK
    <2>7. SlotKept' /\ Quiet'
      BY <1>2, <2>1, <2>2, <2>3
         DEF OwnInv, SlotKept, Quiet, CancelSection, TypeOK
    <2> QED BY <1>1, <2>1, <2>4, <2>5, <2>6, <2>7, OwnCancel DEF OwnInv
  <1>10. CASE EnsureJoin(s) \/ UserJoin(s) \/ JoinPrevious(s)
    <2>1. /\ JoinDone(s)
          /\ UNCHANGED <<pending, epoch, slot, my, tray>>
      BY <1>10 DEF EnsureJoin, UserJoin, JoinPrevious
    <2>2. \/ pc[s] = "join" /\ NewPC("lock")
          \/ pc[s] = "cancel" /\ NewPC("teardown")
          \/ pc[s] = "joinprev" /\ NewPC("spawn")
      BY <1>10 DEF EnsureJoin, UserJoin, JoinPrevious, Goto
    <2>3. /\ Owned' /\ joins'[s] = NoThread
          /\ \A u \in Threads : u # s => joins'[u] = joins[u]
          /\ \A w \in Epochs : grace[w] = "waiting" => grace'[w] = "waiting"
      BY <1>1, <2>1, OwnJoin
    <2>4. JoinsWhereCalled'
      BY <1>1, <2>1, <2>2, <2>3 DEF OwnInv, JoinsWhereCalled, TypeOK, Threads
    <2>5. \A t \in Senders : pc'[t] \in LossLabels <=> pc[t] \in LossLabels
      BY <2>2 DEF LossLabels, TypeOK
    <2>6. PendingServed'
      BY <2>1, <2>3, <2>5 DEF OwnInv, PendingServed, LossLabels
    <2>7. EpochsGiven' /\ EpochsDiffer'
      BY <2>1, <2>5 DEF OwnInv, EpochsGiven, EpochsDiffer
    <2>8. SlotKept' /\ Quiet'
      BY <1>2, <2>1, <2>2 DEF OwnInv, SlotKept, Quiet, TypeOK
    <2> QED BY <2>3, <2>4, <2>6, <2>7, <2>8 DEF OwnInv
  <1>11. CASE RequestLinkLoss(s)
    <2>1. /\ pc[s] = "request" /\ NewPC("takeprev")
          /\ epoch' = epoch + 1 /\ my' = [my EXCEPT ![s] = epoch']
          /\ UNCHANGED <<joins, slot, grace, tray>>
      BY <1>11 DEF RequestLinkLoss, Goto
    <2>2. epoch \in Nat /\ epoch' > epoch /\ epoch' # epoch
      BY <2>1 DEF TypeOK
    <2>3. /\ my'[s] = epoch' /\ pc'[s] = "takeprev"
          /\ \A t \in Senders : t # s => my'[t] = my[t] /\ pc'[t] = pc[t]
      BY <2>1 DEF TypeOK
    <2>4. \A t \in Senders : t # s /\ pc[t] \in LossLabels => my[t] \in 1..epoch
      BY DEF OwnInv, EpochsGiven
    <2>5. \A t \in Senders : t # s /\ pc[t] \in LossLabels => my'[t] # epoch'
      BY <2>2, <2>3, <2>4
    <2>6. JoinsWhereCalled' /\ Owned' /\ Quiet'
      BY <1>1, <1>2, <2>1, <2>3
         DEF OwnInv, JoinsWhereCalled, JoinLabels, Owned, Quiet
    <2>7. PendingServed'
      BY <2>3 DEF PendingServed
    <2>8. EpochsGiven'
      <3>1. my'[s] \in 1..epoch'
        BY <2>1, <2>2, <2>3
      <3>2. 1..epoch \subseteq 1..epoch'
        BY <2>1, <2>2
      <3> QED BY <2>3, <2>4, <3>1, <3>2 DEF EpochsGiven
    <2>9. EpochsDiffer'
      BY <2>3, <2>5 DEF OwnInv, EpochsDiffer
    <2>10. SlotKept'
      BY <2>3, <2>5 DEF SlotKept, LossLabels
    <2> QED BY <2>6, <2>7, <2>8, <2>9, <2>10 DEF OwnInv
  <1>12. CASE TakePrevious(s)
    <2>1. /\ pc[s] = "takeprev" /\ NewPC("joinprev")
          /\ joins' = [joins EXCEPT ![s] = slot] /\ slot' = NoThread
          /\ UNCHANGED <<my, pending, epoch, grace, tray>>
      BY <1>12 DEF TakePrevious, Goto
    <2>2. joins[s] = NoThread
      BY <2>1 DEF OwnInv, JoinsWhereCalled, JoinLabels
    <2>3. JoinsWhereCalled'
      BY <1>1, <2>1 DEF OwnInv, JoinsWhereCalled, JoinLabels, TypeOK, Threads
    <2>4. Owned'
      <3> SUFFICES ASSUME NEW w \in Epochs, grace[w] # "none"
                   PROVE  \E u \in Threads : joins'[u] = w
        BY <2>1 DEF Owned
      <3>1. CASE slot = w
        BY <1>1, <2>1, <3>1 DEF TypeOK
      <3>2. CASE slot # w
        <4>1. PICK u \in Threads : joins[u] = w
          BY <3>2 DEF OwnInv, Owned
        <4>2. u # s
          BY <2>2, <4>1 DEF Epochs, NoThread
        <4> QED BY <2>1, <4>1, <4>2 DEF TypeOK
      <3> QED BY <3>1, <3>2
    <2>5. \A t \in Senders : pc'[t] \in LossLabels <=> pc[t] \in LossLabels
      BY <2>1 DEF LossLabels, TypeOK
    <2>6. PendingServed' /\ EpochsGiven' /\ EpochsDiffer'
      BY <2>1, <2>5
         DEF OwnInv, PendingServed, EpochsGiven, EpochsDiffer, LossLabels
    <2>7. SlotKept' /\ Quiet'
      BY <1>2, <2>1 DEF OwnInv, SlotKept, Quiet
    <2> QED BY <2>3, <2>4, <2>6, <2>7 DEF OwnInv
  <1>13. CASE SpawnGrace(s)
    <2>1. /\ pc[s] = "spawn" /\ NewPC("idle")
          /\ my' = [my EXCEPT ![s] = 0]
          /\ UNCHANGED <<joins, pending, epoch, tray>>
      BY <1>13 DEF SpawnGrace, AttemptOver, Goto
    <2>2. my[s] \in 1..epoch /\ epoch \in 0..MaxEpoch
      BY <2>1 DEF OwnInv, EpochsGiven, LossLabels, TypeOK
    <2>3. \A t \in Senders :
             IF t = s THEN pc'[t] = "idle"
                      ELSE pc'[t] = pc[t] /\ my'[t] = my[t]
      BY <2>1 DEF TypeOK
    <2>4. JoinsWhereCalled' /\ EpochsGiven' /\ EpochsDiffer'
      BY <1>1, <2>1, <2>3
         DEF OwnInv, JoinsWhereCalled, JoinLabels, EpochsGiven, EpochsDiffer,
             LossLabels
    <2>5. CASE Cancelled(my[s])
      <3>1. UNCHANGED <<slot, grace>>
        BY <1>13, <2>5 DEF SpawnGrace
      <3>2. Owned' /\ SlotKept' /\ Quiet'
        BY <1>2, <2>1, <2>3, <3>1 DEF OwnInv, Owned, SlotKept, Quiet
      <3>3. PendingServed'
        BY <2>1, <2>3, <2>5, <3>1 DEF OwnInv, PendingServed, Cancelled
      <3> QED BY <2>4, <3>2, <3>3 DEF OwnInv
    <2>6. CASE ~Cancelled(my[s])
      <3>1. /\ slot' = my[s] /\ grace' = [grace EXCEPT ![my[s]] = "waiting"]
            /\ epoch = my[s]
        BY <1>13, <2>6 DEF SpawnGrace, Cancelled
      <3>2. slot = NoThread
        BY <2>1, <3>1 DEF OwnInv, SlotKept
      <3>3. epoch \in Epochs
        BY <2>2, <3>1, BoundsAssumption DEF Epochs
      <3>4. Owned'
        BY <2>1, <3>1, <3>2, <3>3 DEF OwnInv, Owned, TypeOK, Epochs, NoThread
      <3>5. PendingServed'
        BY <2>1, <3>1, <3>3 DEF PendingServed, TypeOK
      <3>6. SlotKept'
        BY <2>1, <2>3, <3>1 DEF OwnInv, SlotKept, EpochsDiffer, LossLabels
      <3>7. Quiet'
        BY <1>2, <2>1 DEF Quiet
      <3> QED BY <2>4, <3>4, <3>5, <3>6, <3>7 DEF OwnInv
    <2> QED BY <2>5, <2>6
  <1> QED BY <1>3, <1>4, <1>5, <1>6, <1>7, <1>8, <1>9, <1>10, <1>11, <1>12,
     <1>13 DEF SenderStep

(* The steps of a grace worker, the tray and the environment keep it.      *)
LEMMA OwnOther ==
  ASSUME TypeOK, OwnInv,
         \/ TrayStep \/ Quit \/ \E w \in Epochs : GraceStep(w)
         \/ Outside \/ Crash \/ Restart \/ Ended
  PROVE  OwnInv'
  <1>1. CASE Adopt
    <2>1. /\ slot = NoThread /\ joins[NoSender] = NoThread
          /\ \A s \in Senders : pc[s] = "off" /\ joins[s] = NoThread
      BY <1>1 DEF Adopt, OwnInv, Quiet, JoinsWhereCalled, JoinLabels, NotYet
    <2>2. \A w \in Epochs : grace[w] = "none"
      BY <2>1 DEF OwnInv, Owned, Threads, Epochs, NoThread
    <2>3. tray' = "run" /\ UNCHANGED <<pc, my, joins>>
      BY <1>1 DEF Adopt, sendVars
    <2>4. JoinsWhereCalled' /\ EpochsGiven' /\ EpochsDiffer' /\ SlotKept' /\ Quiet'
      BY <2>1, <2>3
         DEF JoinsWhereCalled, EpochsGiven, EpochsDiffer, SlotKept, Quiet,
             LossLabels, NotYet, Exiting
    <2>5. CASE head # "none" /\ owned
      <3>1. /\ slot' = epoch' /\ epoch' \in Epochs
            /\ grace' = [grace EXCEPT ![epoch'] = "waiting"]
        BY <1>1, <2>5, BoundsAssumption DEF Adopt, TypeOK, Epochs
      <3>2. Owned' /\ PendingServed'
        BY <2>2, <3>1 DEF Owned, PendingServed, TypeOK
      <3> QED BY <2>4, <3>2 DEF OwnInv
    <2>6. CASE ~(head # "none" /\ owned)
      <3>1. UNCHANGED <<pending, epoch, slot, grace>>
        BY <1>1, <2>6 DEF Adopt, grVars
      <3>2. Owned' /\ PendingServed'
        BY <2>1, <2>3, <3>1 DEF OwnInv, Owned, PendingServed
      <3> QED BY <2>4, <3>2 DEF OwnInv
    <2> QED BY <2>5, <2>6
  <1>2. CASE ExitCancel
    <2>1. /\ CancelSection(NoSender) /\ NoSender \in Threads
          /\ tray = "quit" /\ tray' = "exitjoin" /\ UNCHANGED <<pc, my>>
          /\ \A s \in Senders : pc[s] = "off"
      BY <1>2 DEF ExitCancel, sendVars, Threads
    <2>2. joins[NoSender] = NoThread
      BY <2>1 DEF OwnInv, JoinsWhereCalled
    <2>3. Owned' /\ PendingServed' /\ slot' = NoThread
      BY <2>1, <2>2, OwnCancel
    <2>4. \A s \in Senders : s # NoSender /\ s \in Threads
      BY SendersAssumption DEF Threads
    <2>5. JoinsWhereCalled'
      BY <2>1, <2>4 DEF OwnInv, JoinsWhereCalled, CancelSection, TypeOK
    <2>6. EpochsGiven' /\ EpochsDiffer' /\ SlotKept' /\ Quiet'
      BY <2>1, <2>3 DEF EpochsGiven, EpochsDiffer, SlotKept, Quiet, LossLabels
    <2> QED BY <2>3, <2>5, <2>6 DEF OwnInv
  <1>3. CASE ExitJoin
    <2>1. /\ JoinDone(NoSender) /\ NoSender \in Threads
          /\ tray = "exitjoin" /\ tray' = "exitlock"
          /\ UNCHANGED <<pc, my, pending, epoch, slot>>
      BY <1>3 DEF ExitJoin, sendVars, Threads
    <2>2. slot = NoThread /\ \A s \in Senders : pc[s] = "off"
      BY <2>1 DEF OwnInv, Quiet, Exiting
    <2>3. /\ Owned' /\ joins'[NoSender] = NoThread
          /\ \A u \in Threads : u # NoSender => joins'[u] = joins[u]
          /\ \A w \in Epochs : grace[w] = "waiting" => grace'[w] = "waiting"
      BY <2>1, OwnJoin
    <2>4. \A s \in Senders : s # NoSender /\ s \in Threads
      BY SendersAssumption DEF Threads
    <2>5. JoinsWhereCalled' /\ PendingServed'
      BY <2>1, <2>3, <2>4 DEF OwnInv, JoinsWhereCalled, PendingServed
    <2>6. EpochsGiven' /\ EpochsDiffer' /\ SlotKept' /\ Quiet'
      BY <2>1, <2>2 DEF EpochsGiven, EpochsDiffer, SlotKept, Quiet, LossLabels
    <2> QED BY <2>3, <2>5, <2>6 DEF OwnInv
  <1>4. CASE ExitTearDown \/ ExitUnmark
    <2>1. /\ tray \in {"exitlock", "exitunmark"}
          /\ tray' \in {"exitunmark", "exited"}
          /\ UNCHANGED <<pc, my, joins, pending, epoch, slot, grace>>
      BY <1>4 DEF ExitTearDown, ExitUnmark, sendVars, grVars
    <2> QED BY <2>1, OwnUnmoved DEF Exiting
  <1>5. CASE Quit \/ Outside
    <2>1. /\ tray' \notin NotYet \cup Exiting \/ tray' = tray
          /\ UNCHANGED <<pc, my, joins, pending, epoch, slot, grace>>
          /\ tray' = tray \/ tray = "run"
      BY <1>5 DEF Quit, Outside, sendVars, grVars, NotYet, Exiting
    <2> QED BY <2>1, OwnUnmoved
  <1>6. CASE Restart
    <2>1. /\ tray = "down" /\ tray' = "adopt"
          /\ UNCHANGED <<pc, my, joins, pending, epoch, slot, grace>>
      BY <1>6 DEF Restart, sendVars, grVars
    <2> QED BY <2>1, OwnUnmoved DEF NotYet
  <1>7. CASE Crash
    <2>1. /\ \A s \in Senders : pc'[s] = "off"
          /\ \A t \in Threads : joins'[t] = NoThread
          /\ ~pending' /\ slot' = NoThread
          /\ \A w \in Epochs : grace'[w] = "none"
      BY <1>7 DEF Crash
    <2> QED BY <2>1
            DEF OwnInv, JoinsWhereCalled, Owned, PendingServed, EpochsGiven,
                EpochsDiffer, SlotKept, Quiet, LossLabels, Threads
  <1>8. CASE Ended
    BY <1>8, OwnUnmoved DEF Ended, vars
  <1>9. ASSUME NEW w \in Epochs, GraceStep(w) PROVE OwnInv'
    <2>1. UNCHANGED <<joins, epoch, slot, pc, my, tray>>
      BY <1>9 DEF GraceStep, GraceExpires, GraceCancelled, GraceDetach,
                  GraceSkip, GraceUnmark, sendVars
    <2>2. pending' => pending /\ ~(epoch = w /\ grace[w] = "waiting")
      BY <1>9 DEF GraceStep, GraceExpires, GraceCancelled, GraceDetach,
                  GraceSkip, GraceUnmark, Cancelled, TypeOK
    <2>3. grace[w] # "none"
      BY <1>9 DEF GraceStep, GraceExpires, GraceCancelled, GraceDetach,
                  GraceSkip, GraceUnmark
    <2>4. PICK v \in GraceStates \ {"none"} : grace' = [grace EXCEPT ![w] = v]
      BY <1>9 DEF GraceStep, GraceExpires, GraceCancelled, GraceDetach,
                  GraceSkip, GraceUnmark, GraceStates
    <2> QED BY <2>1, <2>2, <2>3, <2>4, OwnGraceMoves
  <1> QED BY <1>1, <1>2, <1>3, <1>4, <1>5, <1>6, <1>7, <1>8, <1>9 DEF TrayStep

(* Every step keeps the invariant of the grace state.                      *)
LEMMA OwnStep == TypeOK /\ OwnInv /\ [Next]_vars => OwnInv'
  <1> SUFFICES ASSUME TypeOK, OwnInv, [Next]_vars PROVE OwnInv'
    OBVIOUS
  <1>1. CASE UNCHANGED vars
    BY <1>1, OwnUnmoved DEF vars
  <1>2. CASE Next
    BY <1>2, OwnSender, OwnOther DEF Next
  <1> QED BY <1>1, <1>2

(* What the invariant is for: no thread is lost or overwritten.            *)
LEMMA OwnImplies == OwnInv => WorkersOwned /\ PendingServed
  <1> SUFFICES ASSUME OwnInv PROVE WorkersOwned
    BY DEF OwnInv
  <1>1. ASSUME tray = "exited", NEW w \in Epochs, grace[w] # "none"
        PROVE  FALSE
    <2>1. slot = NoThread /\ \A t \in Threads : joins[t] = NoThread
      BY <1>1 DEF OwnInv, Quiet, JoinsWhereCalled, JoinLabels, Exiting, Threads
    <2> QED BY <1>1, <2>1 DEF OwnInv, Owned, Epochs, NoThread
  <1> QED BY <1>1 DEF OwnInv, Owned, WorkersOwned

-----------------------------------------------------------------------------
(* The head.  Nobody is between a change of the topology and its marker    *)
(* while the mutex is free; a thread that enters or leaves is alone.       *)

NobodyInside == /\ \A s \in Senders : pc[s] \notin HoldLabels
                /\ \A w \in Epochs : grace[w] # "unmark"
                /\ tray # "exitunmark"

(* A free mutex means that nobody is inside.                               *)
LEMMA FreeMutex == MutexHeld /\ ~topo => NobodyInside
  BY DEF MutexHeld, NobodyInside

(* With nobody inside after a step there is nothing to say about it.       *)
LEMMA NobodyThere == NobodyInside' => (MutexHeld /\ MutexAlone /\ HeadInside)'
  BY DEF MutexHeld, MutexAlone, HeadInside, NobodyInside, HoldLabels

(* A step that leaves the head, its flags and the mutex alone and lets     *)
(* nobody in keeps the invariant.                                          *)
LEMMA HeadUnmoved ==
  ASSUME HeadInv,
         UNCHANGED <<topo, head, owned, marker, positioned, restored, disturbed>>,
         \A s \in Senders : pc'[s] \in HoldLabels => pc'[s] = pc[s],
         \A w \in Epochs : grace'[w] = "unmark" => grace[w] = "unmark",
         tray' \in NotYet => tray \in NotYet,
         tray' \in NotYet \cup Exiting => \A s \in Senders : pc'[s] = "off",
         tray' = "down" => tray = "down" /\ UNCHANGED grace,
         tray' # "down" => tray # "down",
         tray' = "exitunmark" => tray = "exitunmark",
         tray' = "exited" => tray = "exited"
  PROVE  HeadInv'
  <1> USE DEF HeadInv
  <1>1. MutexHeld'
    BY DEF MutexHeld
  <1>2. MutexAlone'
    BY DEF MutexAlone
  <1>3. HeadInside'
    BY DEF HeadInside, HoldLabels
  <1>4. LayoutNoted' /\ HeadAtStart'
    BY DEF LayoutNoted, HeadAtStart
  <1>5. MarkerTold' /\ OursMarked' /\ ExitRemovesHead'
    BY DEF MarkerTold, OursMarked, ExitRemovesHead
  <1> QED BY <1>1, <1>2, <1>3, <1>4, <1>5

(* TearDownMttVdd without a detach: flags are cleared only where there is  *)
(* nothing of ours, and a failed detach is on record.                      *)
LEMMA HeadSkip ==
  ASSUME TypeOK, HeadInv, tray # "down", NothingToDetach \/ DetachFails
  PROVE  /\ NobodyInside
         /\ LayoutNoted' /\ OursMarked'
         /\ tray' = tray => MarkerTold' /\ ExitRemovesHead'
         /\ restored' = restored /\ (disturbed => disturbed')
  <1>1. NobodyInside
    BY FreeMutex DEF HeadInv, NothingToDetach, DetachFails
  <1>2. CASE NothingToDetach
    <2>1. /\ head = "none" \/ ~owned
          /\ ~positioned' /\ ~owned' /\ ~marker'
          /\ UNCHANGED <<topo, head, restored, disturbed>> /\ ~topo
      BY <1>2 DEF NothingToDetach
    <2>2. ~disturbed => head # "app"
      BY <2>1 DEF HeadInv, OursMarked, MarkerTold
    <2>3. LayoutNoted' /\ OursMarked'
      BY <2>1, <2>2 DEF HeadInv, LayoutNoted, OursMarked
    <2>4. MarkerTold'
      BY <1>2 DEF NothingToDetach, MarkerTold
    <2>5. ~disturbed' => head' # "app"
      BY <2>1, <2>2
    <2> QED BY <1>1, <2>1, <2>3, <2>4, <2>5 DEF ExitRemovesHead
  <1>3. CASE DetachFails
    BY <1>1, <1>3 DEF HeadInv, DetachFails, headVars, LayoutNoted, OursMarked,
                      MarkerTold, ExitRemovesHead
  <1> QED BY <1>2, <1>3

(* The head comes off: the marker still says that it is ours, and the      *)
(* mutex keeps everybody from looking.                                     *)
LEMMA HeadDetach ==
  ASSUME HeadInv, Detach
  PROVE  /\ NobodyInside
         /\ topo' /\ head' = "none" /\ restored' = 0
         /\ LayoutNoted' /\ OursMarked' /\ ExitRemovesHead'
         /\ UNCHANGED <<owned, marker, disturbed>>
  BY FreeMutex DEF HeadInv, Detach, LayoutNoted, OursMarked, ExitRemovesHead

(* The marker follows: the flags say again what is on the desktop.         *)
LEMMA HeadUnmark ==
  ASSUME Unmark, head = "none", restored = 0
  PROVE  /\ ~topo' /\ restored' = 0
         /\ LayoutNoted' /\ MarkerTold' /\ OursMarked' /\ ExitRemovesHead'
  BY DEF Unmark, LayoutNoted, MarkerTold, OursMarked, ExitRemovesHead

(* At the start there is no head of ours and no flag is set.               *)
LEMMA HeadInit == Init => HeadInv
  <1> SUFFICES ASSUME Init PROVE HeadInv
    OBVIOUS
  <1>1. NobodyInside
    BY DEF Init, NobodyInside, HoldLabels
  <1>2. LayoutNoted /\ HeadAtStart /\ MarkerTold /\ OursMarked /\ ExitRemovesHead
    BY DEF Init, LayoutNoted, HeadAtStart, MarkerTold, OursMarked,
           ExitRemovesHead
  <1>3. MutexHeld /\ MutexAlone /\ HeadInside
    BY <1>1 DEF MutexHeld, MutexAlone, HeadInside, NobodyInside, HoldLabels
  <1> QED BY <1>2, <1>3 DEF HeadInv

(* The steps of a sender keep the invariant.                               *)
LEMMA HeadSender ==
  ASSUME TypeOK, HeadInv, NEW s \in Senders,
         \/ StartSender(s) \/ StopSender(s) \/ Claim(s) \/ Rebuild(s)
         \/ SessionEnd(s) \/ SenderStep(s)
  PROVE  HeadInv'
  <1> DEFINE NewPC(l) == pc' = [pc EXCEPT ![s] = l]
  <1>1. tray \in NotYet \cup Exiting => pc[s] = "off"
    BY DEF HeadInv, HeadAtStart
  <1>2. ASSUME pc[s] # "off", UNCHANGED tray
        PROVE  /\ tray' \notin NotYet \cup Exiting
               /\ tray' # "down" /\ tray' # "exitunmark" /\ tray' # "exited"
               /\ HeadAtStart'
    BY <1>1, <1>2 DEF HeadAtStart, NotYet, Exiting
  <1>3. CASE StartSender(s) \/ StopSender(s) \/ Stopped(s)
    <2>1. UNCHANGED <<topo, head, owned, marker, positioned,
                      restored, disturbed>>
      BY <1>3 DEF StartSender, StopSender, Stopped, headVars
    <2>2. \A t \in Senders : pc'[t] \in HoldLabels => pc'[t] = pc[t]
      BY <1>3 DEF StartSender, StopSender, Stopped, Goto, HoldLabels, TypeOK
    <2>3. \A w \in Epochs : grace'[w] = "unmark" => grace[w] = "unmark"
      BY <1>3 DEF StartSender, StopSender, Stopped, grVars, TypeOK
    <2>4. tray' \notin NotYet \cup Exiting /\ tray \notin NotYet \cup Exiting
      BY <1>1, <1>3 DEF StartSender, StopSender, Stopped, NotYet, Exiting
    <2> QED BY <2>1, <2>2, <2>3, <2>4, HeadUnmoved DEF NotYet, Exiting
  <1>4. CASE Claim(s) \/ Rebuild(s) \/ SessionEnd(s)
    <2>1. UNCHANGED <<topo, head, owned, marker, positioned,
                      restored, disturbed>>
      BY <1>4 DEF Claim, Rebuild, SessionEnd, headVars
    <2>2. \A t \in Senders : pc'[t] \in HoldLabels => pc'[t] = pc[t]
      BY <1>4 DEF Claim, Rebuild, SessionEnd, Goto, HoldLabels, TypeOK
    <2>3. \A w \in Epochs : grace'[w] = "unmark" => grace[w] = "unmark"
      BY <1>4 DEF Claim, Rebuild, SessionEnd, grVars, TypeOK
    <2>4. tray' \notin NotYet \cup Exiting /\ tray \notin NotYet \cup Exiting
      BY <1>1, <1>4 DEF Claim, Rebuild, SessionEnd, NotYet, Exiting
    <2> QED BY <2>1, <2>2, <2>3, <2>4, HeadUnmoved DEF NotYet, Exiting
  <1>5. CASE EnsureRefused(s) \/ EnsureCancel(s)
             \/ EnsureJoin(s) \/ EnsureAttachFails(s)
    <2>1. UNCHANGED <<topo, head, owned, marker, positioned,
                      restored, disturbed>>
      BY <1>5 DEF EnsureRefused, EnsureCancel, EnsureJoin, EnsureAttachFails,
         headVars
    <2>2. \A t \in Senders : pc'[t] \in HoldLabels => pc'[t] = pc[t]
      BY <1>5 DEF EnsureRefused, EnsureCancel, EnsureJoin, EnsureAttachFails,
         Goto, HoldLabels, TypeOK
    <2>3. \A w \in Epochs : grace'[w] = "unmark" => grace[w] = "unmark"
      BY <1>5 DEF EnsureRefused, EnsureCancel, EnsureJoin, EnsureAttachFails,
         CancelSection, JoinDone, grVars, TypeOK
    <2>4. tray' \notin NotYet \cup Exiting /\ tray \notin NotYet \cup Exiting
      BY <1>1, <1>5 DEF EnsureRefused, EnsureCancel, EnsureJoin,
         EnsureAttachFails, NotYet, Exiting
    <2> QED BY <2>1, <2>2, <2>3, <2>4, HeadUnmoved DEF NotYet, Exiting
  <1>6. CASE Build(s) \/ BuildFails(s) \/ NoRequest(s)
    <2>1. UNCHANGED <<topo, head, owned, marker, positioned,
                      restored, disturbed>>
      BY <1>6 DEF Build, BuildFails, NoRequest, headVars
    <2>2. \A t \in Senders : pc'[t] \in HoldLabels => pc'[t] = pc[t]
      BY <1>6 DEF Build, BuildFails, NoRequest, AttemptOver, Goto, HoldLabels,
         TypeOK
    <2>3. \A w \in Epochs : grace'[w] = "unmark" => grace[w] = "unmark"
      BY <1>6 DEF Build, BuildFails, NoRequest, grVars, TypeOK
    <2>4. tray' \notin NotYet \cup Exiting /\ tray \notin NotYet \cup Exiting
      BY <1>1, <1>6 DEF Build, BuildFails, NoRequest, NotYet, Exiting
    <2> QED BY <2>1, <2>2, <2>3, <2>4, HeadUnmoved DEF NotYet, Exiting
  <1>7. CASE RequestUser(s) \/ UserJoin(s)
             \/ RequestLinkLoss(s) \/ TakePrevious(s)
    <2>1. UNCHANGED <<topo, head, owned, marker, positioned,
                      restored, disturbed>>
      BY <1>7 DEF RequestUser, UserJoin, RequestLinkLoss, TakePrevious,
         headVars
    <2>2. \A t \in Senders : pc'[t] \in HoldLabels => pc'[t] = pc[t]
      BY <1>7 DEF RequestUser, UserJoin, RequestLinkLoss, TakePrevious, Goto,
         HoldLabels, TypeOK
    <2>3. \A w \in Epochs : grace'[w] = "unmark" => grace[w] = "unmark"
      BY <1>7 DEF RequestUser, UserJoin, RequestLinkLoss, TakePrevious,
         CancelSection, JoinDone, TypeOK
    <2>4. tray' \notin NotYet \cup Exiting /\ tray \notin NotYet \cup Exiting
      BY <1>1, <1>7 DEF RequestUser, UserJoin, RequestLinkLoss, TakePrevious,
         NotYet, Exiting
    <2> QED BY <2>1, <2>2, <2>3, <2>4, HeadUnmoved DEF NotYet, Exiting
  <1>8. CASE JoinPrevious(s) \/ SpawnGrace(s)
    <2>1. UNCHANGED <<topo, head, owned, marker, positioned,
                      restored, disturbed>>
      BY <1>8 DEF JoinPrevious, SpawnGrace, headVars
    <2>2. \A t \in Senders : pc'[t] \in HoldLabels => pc'[t] = pc[t]
      BY <1>8 DEF JoinPrevious, SpawnGrace, AttemptOver, Goto, HoldLabels,
         TypeOK
    <2>3. \A w \in Epochs : grace'[w] = "unmark" => grace[w] = "unmark"
      BY <1>8 DEF JoinPrevious, SpawnGrace, JoinDone, TypeOK
    <2>4. tray' \notin NotYet \cup Exiting /\ tray \notin NotYet \cup Exiting
      BY <1>1, <1>8 DEF JoinPrevious, SpawnGrace, NotYet, Exiting
    <2> QED BY <2>1, <2>2, <2>3, <2>4, HeadUnmoved DEF NotYet, Exiting
  <1>9. CASE EnsureModes(s)
    <2>1. /\ pc[s] = "edid" /\ NewPC("ensure")
          /\ UNCHANGED <<topo, grace, tray, head, owned, marker, disturbed>>
          /\ \/ ~positioned' /\ restored' = 0
             \/ UNCHANGED <<positioned, restored>>
      BY <1>9 DEF EnsureModes, Goto, grVars
    <2>2. MutexHeld' /\ MutexAlone'
      BY <2>1 DEF HeadInv, MutexHeld, MutexAlone, HoldLabels, TypeOK
    <2>3. HeadInside'
      BY <2>1 DEF HeadInv, HeadInside, TypeOK
    <2>4. LayoutNoted' /\ MarkerTold' /\ OursMarked' /\ ExitRemovesHead'
      BY <2>1 DEF HeadInv, LayoutNoted, MarkerTold, OursMarked, ExitRemovesHead
    <2> QED BY <1>2, <2>1, <2>2, <2>3, <2>4 DEF HeadInv
  <1>10. CASE EnsurePresent(s)
    <2>1. /\ pc[s] = "lock" /\ NewPC("find") /\ ~topo /\ head # "none"
          /\ positioned'
          /\ restored' = IF ~positioned /\ owned THEN restored + 1 ELSE restored
          /\ UNCHANGED <<topo, grace, tray, head, owned, marker, disturbed>>
      BY <1>10 DEF EnsurePresent, Goto, grVars
    <2>2. NobodyInside'
      BY <2>1, FreeMutex DEF HeadInv, NobodyInside, HoldLabels, TypeOK
    <2>3. LayoutNoted'
      BY <2>1 DEF HeadInv, LayoutNoted
    <2>4. MarkerTold' /\ OursMarked' /\ ExitRemovesHead'
      BY <2>1 DEF HeadInv, MarkerTold, OursMarked, ExitRemovesHead
    <2> QED BY <1>2, <2>1, <2>2, <2>3, <2>4, NobodyThere DEF HeadInv
  <1>11. CASE EnsureAttach(s)
    <2>1. /\ pc[s] = "lock" /\ NewPC("mark") /\ ~topo /\ topo'
          /\ head' = "app" /\ restored' = 0
          /\ UNCHANGED <<grace, tray, owned, marker, positioned, disturbed>>
      BY <1>11 DEF EnsureAttach, Goto, grVars
    <2>2. NobodyInside
      BY <2>1, FreeMutex DEF HeadInv
    <2>3. MutexHeld' /\ MutexAlone' /\ HeadInside'
      BY <1>2, <2>1, <2>2
         DEF MutexHeld, MutexAlone, HeadInside, NobodyInside, HoldLabels, TypeOK
    <2>4. LayoutNoted' /\ MarkerTold' /\ OursMarked' /\ ExitRemovesHead'
      BY <1>2, <2>1
         DEF HeadInv, LayoutNoted, MarkerTold, OursMarked, ExitRemovesHead
    <2> QED BY <1>2, <2>1, <2>3, <2>4 DEF HeadInv
  <1>12. CASE EnsureMark(s)
    <2>1. /\ pc[s] = "mark" /\ NewPC("find") /\ ~topo'
          /\ owned' /\ marker' /\ positioned' /\ restored' = restored + 1
          /\ UNCHANGED <<grace, tray, head, disturbed>>
      BY <1>12 DEF EnsureMark, Goto, grVars
    <2>2. NobodyInside'
      BY <1>2, <2>1 DEF HeadInv, MutexAlone, NobodyInside, HoldLabels, TypeOK
    <2>3. head = "app" /\ restored = 0
      BY <2>1 DEF HeadInv, HeadInside
    <2>4. LayoutNoted' /\ MarkerTold' /\ OursMarked' /\ ExitRemovesHead'
      BY <1>2, <2>1, <2>3
         DEF LayoutNoted, MarkerTold, OursMarked, ExitRemovesHead, TypeOK
    <2> QED BY <1>2, <2>1, <2>2, <2>4, NobodyThere DEF HeadInv
  <1>13. CASE UserDetach(s)
    <2>1. /\ pc[s] = "teardown" /\ NewPC("unmark") /\ Detach
          /\ UNCHANGED <<grace, tray>>
      BY <1>13 DEF UserDetach, Goto, grVars
    <2>2. /\ NobodyInside
          /\ topo' /\ head' = "none" /\ restored' = 0
          /\ LayoutNoted' /\ OursMarked' /\ ExitRemovesHead'
          /\ UNCHANGED <<owned, marker, disturbed>>
      BY <2>1, HeadDetach
    <2>3. MutexHeld' /\ MutexAlone' /\ HeadInside'
      BY <1>2, <2>1, <2>2
         DEF MutexHeld, MutexAlone, HeadInside, NobodyInside, HoldLabels, TypeOK
    <2>4. MarkerTold'
      BY <2>1, <2>2 DEF HeadInv, MarkerTold
    <2> QED BY <1>2, <2>1, <2>2, <2>3, <2>4 DEF HeadInv
  <1>14. CASE UserSkip(s)
    <2>1. /\ pc[s] = "teardown" /\ NewPC("idle")
          /\ NothingToDetach \/ DetachFails
          /\ UNCHANGED <<grace, tray>>
      BY <1>14 DEF UserSkip, AttemptOver, Goto, grVars
    <2>2. /\ NobodyInside
          /\ LayoutNoted' /\ OursMarked' /\ MarkerTold' /\ ExitRemovesHead'
      BY <1>2, <2>1, HeadSkip
    <2>3. NobodyInside'
      BY <2>1, <2>2 DEF NobodyInside, HoldLabels, TypeOK
    <2> QED BY <1>2, <2>1, <2>2, <2>3, NobodyThere DEF HeadInv
  <1>15. CASE UserUnmark(s)
    <2>1. /\ pc[s] = "unmark" /\ NewPC("idle") /\ Unmark
          /\ UNCHANGED <<grace, tray>>
      BY <1>15 DEF UserUnmark, AttemptOver, Goto, grVars
    <2>2. head = "none" /\ restored = 0
      BY <2>1 DEF HeadInv, HeadInside
    <2>3. NobodyInside'
      BY <1>2, <2>1 DEF HeadInv, MutexAlone, NobodyInside, HoldLabels, TypeOK
    <2> QED BY <1>2, <2>1, <2>2, <2>3, HeadUnmark, NobodyThere DEF HeadInv
  <1> QED BY <1>3, <1>4, <1>5, <1>6, <1>7, <1>8, <1>9, <1>10, <1>11, <1>12,
     <1>13, <1>14, <1>15 DEF SenderStep

(* The steps of a grace worker keep it.                                    *)
LEMMA HeadGrace ==
  ASSUME TypeOK, HeadInv, NEW w \in Epochs, GraceStep(w)
  PROVE  HeadInv'
  <1>1. UNCHANGED <<pc, tray>>
    BY DEF GraceStep, GraceExpires, GraceCancelled, GraceDetach, GraceSkip,
           GraceUnmark, sendVars
  <1>0. tray # "down"
    BY DEF HeadInv, HeadAtStart, GraceStep, GraceExpires, GraceCancelled, GraceDetach, GraceSkip,
           GraceUnmark
  <1>2. CASE GraceExpires(w) \/ GraceCancelled(w)
    <2>1. UNCHANGED <<topo, head, owned, marker, positioned,
                      restored, disturbed>>
      BY <1>2 DEF GraceExpires, GraceCancelled, headVars
    <2>2. \A v \in Epochs : grace'[v] = "unmark" => grace[v] = "unmark"
      BY <1>2 DEF GraceExpires, GraceCancelled, TypeOK
    <2>3. tray \in NotYet \cup Exiting => \A s \in Senders : pc[s] = "off"
      BY DEF HeadInv, HeadAtStart
    <2> QED BY <1>0, <1>1, <2>1, <2>2, <2>3, HeadUnmoved
  <1>3. CASE GraceDetach(w)
    <2>1. Detach /\ grace' = [grace EXCEPT ![w] = "unmark"]
      BY <1>3 DEF GraceDetach
    <2>2. /\ NobodyInside
          /\ topo' /\ head' = "none" /\ restored' = 0
          /\ LayoutNoted' /\ OursMarked' /\ ExitRemovesHead'
          /\ UNCHANGED <<owned, marker, disturbed>>
      BY <2>1, HeadDetach
    <2>3. MutexHeld' /\ MutexAlone' /\ HeadInside'
      BY <1>1, <2>1, <2>2
         DEF MutexHeld, MutexAlone, HeadInside, NobodyInside, HoldLabels, TypeOK
    <2>4. MarkerTold' /\ HeadAtStart'
      BY <1>0, <1>1, <2>2 DEF HeadInv, MarkerTold, HeadAtStart
    <2> QED BY <2>2, <2>3, <2>4 DEF HeadInv
  <1>4. CASE GraceSkip(w)
    <2>1. /\ NothingToDetach \/ DetachFails
          /\ grace' = [grace EXCEPT ![w] = "done"]
      BY <1>4 DEF GraceSkip
    <2>2. /\ NobodyInside
          /\ LayoutNoted' /\ OursMarked' /\ MarkerTold' /\ ExitRemovesHead'
          /\ restored' = restored /\ (disturbed => disturbed')
      BY <1>0, <1>1, <2>1, HeadSkip
    <2>3. NobodyInside'
      BY <1>1, <2>1, <2>2 DEF NobodyInside, TypeOK
    <2>4. HeadAtStart'
      BY <1>0, <1>1, <2>2 DEF HeadInv, HeadAtStart
    <2> QED BY <2>2, <2>3, <2>4, NobodyThere DEF HeadInv
  <1>5. CASE GraceUnmark(w)
    <2>1. /\ grace[w] = "unmark" /\ Unmark
          /\ grace' = [grace EXCEPT ![w] = "done"] /\ UNCHANGED disturbed
      BY <1>5 DEF GraceUnmark
    <2>2. head = "none" /\ restored = 0
      BY <2>1 DEF HeadInv, HeadInside
    <2>3. NobodyInside'
      BY <1>1, <2>1 DEF HeadInv, MutexAlone, NobodyInside, TypeOK
    <2>4. HeadAtStart'
      BY <1>1, <2>1, <2>2, HeadUnmark DEF HeadInv, HeadAtStart
    <2> QED BY <2>1, <2>2, <2>3, <2>4, HeadUnmark, NobodyThere DEF HeadInv
  <1> QED BY <1>2, <1>3, <1>4, <1>5 DEF GraceStep

(* The steps of the tray and of the environment keep it.                   *)
LEMMA HeadOther ==
  ASSUME TypeOK, HeadInv,
         TrayStep \/ Quit \/ Outside \/ Crash \/ Restart \/ Ended
  PROVE  HeadInv'
  <1>1. CASE Adopt
    <2>1. /\ tray = "adopt" /\ tray' = "run" /\ (positioned' => positioned)
          /\ UNCHANGED <<pc, topo, head, owned, marker, restored, disturbed>>
      BY <1>1 DEF Adopt, sendVars
    <2>2. \A w \in Epochs : grace'[w] = "unmark" => grace[w] = "unmark"
      BY <1>1 DEF Adopt, grVars, TypeOK
    <2>3. restored = 0 /\ \A s \in Senders : pc[s] = "off"
      BY <2>1 DEF HeadInv, HeadAtStart, NotYet
    <2>4. MutexHeld' /\ MutexAlone' /\ HeadInside'
      BY <2>1, <2>2, <2>3
         DEF HeadInv, MutexHeld, MutexAlone, HeadInside, HoldLabels
    <2>5. LayoutNoted' /\ HeadAtStart'
      BY <2>1, <2>3 DEF HeadInv, LayoutNoted, HeadAtStart, NotYet, Exiting
    <2>6. MarkerTold' /\ OursMarked' /\ ExitRemovesHead'
      BY <2>1 DEF HeadInv, MarkerTold, OursMarked, ExitRemovesHead
    <2> QED BY <2>4, <2>5, <2>6 DEF HeadInv
  <1>2. CASE ExitCancel \/ ExitJoin \/ Quit
    <2>1. /\ UNCHANGED <<topo, head, owned, marker, positioned, restored,
                         disturbed, pc>>
          /\ tray \in {"run", "quit", "exitjoin"}
          /\ tray' = "quit" \/ tray' \in {"exitjoin", "exitlock"}
      BY <1>2 DEF ExitCancel, ExitJoin, Quit, headVars, sendVars
    <2>2. \A w \in Epochs : grace'[w] = "unmark" => grace[w] = "unmark"
      BY <1>2 DEF ExitCancel, CancelSection, ExitJoin, JoinDone, Quit, grVars,
                  TypeOK
    <2>3. tray' \in Exiting => \A s \in Senders : pc[s] = "off"
      BY <1>2 DEF ExitCancel, ExitJoin, Quit, HeadInv, HeadAtStart, Exiting
    <2> QED BY <2>1, <2>2, <2>3, HeadUnmoved DEF NotYet
  <1>3. CASE ExitTearDown
    <2>1. tray = "exitlock" /\ UNCHANGED <<pc, grace>>
      BY <1>3 DEF ExitTearDown, sendVars, grVars
    <2>2. \A s \in Senders : pc[s] = "off"
      BY <2>1 DEF HeadInv, HeadAtStart, Exiting
    <2>3. CASE ~topo /\ (head = "none" \/ ~owned) /\ tray' = "exited"
               /\ UNCHANGED <<topo, headVars, disturbed>>
      <3>1. NobodyInside'
        BY <2>1, <2>2, <2>3, FreeMutex DEF HeadInv, NobodyInside
      <3>2. LayoutNoted' /\ MarkerTold' /\ OursMarked'
        BY <2>1, <2>3
           DEF HeadInv, LayoutNoted, MarkerTold, OursMarked, headVars
      <3>3. ExitRemovesHead' /\ HeadAtStart'
        BY <2>1, <2>2, <2>3
           DEF HeadInv, MarkerTold, OursMarked, ExitRemovesHead, HeadAtStart, headVars, NotYet,
               TypeOK
      <3> QED BY <3>1, <3>2, <3>3, NobodyThere DEF HeadInv
    <2>4. CASE Detach /\ tray' = "exitunmark"
      <3>1. /\ NobodyInside
            /\ topo' /\ head' = "none" /\ restored' = 0
            /\ LayoutNoted' /\ OursMarked' /\ ExitRemovesHead'
            /\ UNCHANGED <<owned, marker, disturbed>>
        BY <2>4, HeadDetach
      <3>2. MutexHeld' /\ MutexAlone' /\ HeadInside'
        BY <2>1, <2>2, <2>4, <3>1
           DEF MutexHeld, MutexAlone, HeadInside, NobodyInside, HoldLabels
      <3>3. MarkerTold' /\ HeadAtStart'
        BY <2>1, <2>2, <2>4, <3>1
           DEF HeadInv, MarkerTold, HeadAtStart, NotYet
      <3> QED BY <3>1, <3>2, <3>3 DEF HeadInv
    <2>5. CASE DetachFails /\ tray' = "exited"
      <3>1. /\ NobodyInside /\ disturbed'
            /\ UNCHANGED <<head, owned, marker, positioned, restored>>
        BY <2>1, <2>5, HeadSkip DEF DetachFails, headVars
      <3>2. NobodyInside'
        BY <2>1, <2>5, <3>1 DEF NobodyInside
      <3>3. LayoutNoted' /\ MarkerTold' /\ OursMarked' /\ ExitRemovesHead'
        BY <2>1, <2>5, <3>1
           DEF HeadInv, DetachFails, LayoutNoted, MarkerTold, OursMarked, ExitRemovesHead
      <3>4. HeadAtStart'
        BY <2>1, <2>2, <2>5 DEF HeadAtStart, NotYet
      <3> QED BY <3>2, <3>3, <3>4, NobodyThere DEF HeadInv
    <2> QED BY <1>3, <2>3, <2>4, <2>5 DEF ExitTearDown
  <1>4. CASE ExitUnmark
    <2>1. /\ tray = "exitunmark" /\ tray' = "exited" /\ Unmark
          /\ UNCHANGED <<pc, grace, disturbed>>
      BY <1>4 DEF ExitUnmark, sendVars, grVars
    <2>2. head = "none" /\ restored = 0
      BY <2>1 DEF HeadInv, HeadInside
    <2>3. NobodyInside'
      BY <2>1 DEF HeadInv, MutexAlone, NobodyInside
    <2>4. HeadAtStart'
      BY <2>1 DEF HeadInv, HeadAtStart, NotYet, Exiting
    <2> QED BY <2>1, <2>2, <2>3, <2>4, HeadUnmark, NobodyThere DEF HeadInv
  <1>5. CASE Outside
    <2>1. /\ ~topo /\ restored' = 0
          /\ head' = IF head = "none" THEN "other" ELSE "none"
          /\ disturbed' = (disturbed \/ head = "app")
          /\ UNCHANGED <<pc, grace, tray, topo, owned, marker, positioned>>
      BY <1>5 DEF Outside, sendVars, grVars
    <2>2. NobodyInside'
      BY <2>1, FreeMutex DEF HeadInv, NobodyInside
    <2>3. OursMarked'
      BY <2>1 DEF HeadInv, OursMarked, TypeOK
    <2>4. LayoutNoted' /\ MarkerTold' /\ ExitRemovesHead' /\ HeadAtStart'
      BY <2>1
         DEF HeadInv, LayoutNoted, MarkerTold, ExitRemovesHead, HeadAtStart
    <2> QED BY <2>2, <2>3, <2>4, NobodyThere DEF HeadInv
  <1>6. CASE Crash
    <2>1. /\ tray' = "down" /\ restored' = 0 /\ ~owned' /\ ~topo' /\ ~positioned'
          /\ disturbed' = (disturbed \/ topo) /\ UNCHANGED <<head, marker>>
          /\ \A s \in Senders : pc'[s] = "off"
          /\ \A w \in Epochs : grace'[w] = "none"
      BY <1>6 DEF Crash
    <2>2. NobodyInside'
      BY <2>1 DEF NobodyInside, HoldLabels
    <2> QED BY <2>1, <2>2, NobodyThere
            DEF HeadInv, LayoutNoted, HeadAtStart, MarkerTold, OursMarked,
                ExitRemovesHead
  <1>7. CASE Restart
    <2>1. /\ tray = "down" /\ tray' = "adopt" /\ owned' = marker
          /\ UNCHANGED <<pc, grace, topo, head, marker, positioned, restored, disturbed>>
      BY <1>7 DEF Restart, sendVars, grVars
    <2>2. restored = 0 /\ ~positioned /\ \A s \in Senders : pc[s] = "off"
      BY <2>1 DEF HeadInv, HeadAtStart, NotYet
    <2>3. MutexHeld' /\ MutexAlone' /\ HeadInside'
      BY <2>1 DEF HeadInv, MutexHeld, MutexAlone, HeadInside
    <2> QED BY <2>1, <2>2, <2>3
            DEF HeadInv, LayoutNoted, HeadAtStart, MarkerTold, OursMarked,
                ExitRemovesHead
  <1>8. CASE Ended
    BY <1>8, HeadUnmoved DEF Ended, vars, HeadInv, HeadAtStart
  <1> QED BY <1>1, <1>2, <1>3, <1>4, <1>5, <1>6, <1>7, <1>8 DEF TrayStep

(* Every step keeps the invariant of the head.                             *)
LEMMA HeadStep == TypeOK /\ HeadInv /\ [Next]_vars => HeadInv'
  <1> SUFFICES ASSUME TypeOK, HeadInv, [Next]_vars PROVE HeadInv'
    OBVIOUS
  <1>1. CASE UNCHANGED vars
    BY <1>1, HeadUnmoved DEF vars, HeadInv, HeadAtStart
  <1>2. CASE Next
    BY <1>2, HeadSender, HeadGrace, HeadOther DEF Next
  <1> QED BY <1>1, <1>2

-----------------------------------------------------------------------------
(* The theorems.                                                           *)

(* Init establishes the invariant and every step keeps it.                 *)
THEOREM Invariant == Spec => []Inv
  <1>1. Init => Inv
    BY TypeInit, OwnInit, HeadInit DEF Inv
  <1>2. Inv /\ [Next]_vars => Inv'
    BY TypeStep, OwnStep, HeadStep DEF Inv, HeadInv
  <1> QED BY <1>1, <1>2, PTL DEF Spec

(* Every variable of MttHead keeps its type.                               *)
THEOREM TypeCorrect == Spec => []TypeOK
  <1>1. Inv => TypeOK
    BY DEF Inv
  <1> QED BY <1>1, Invariant, PTL

(* RequestMttVddTeardown, CancelPendingMttVddTeardown and                  *)
(* ShutdownMttVddForExit never lose or overwrite a grace worker's thread.  *)
THEOREM NoThreadLost == Spec => []WorkersOwned
  <1>1. Inv => WorkersOwned
    BY OwnImplies DEF Inv
  <1> QED BY <1>1, Invariant, PTL

(* A pending teardown always has a thread that will carry it out.          *)
THEOREM PendingIsServed == Spec => []PendingServed
  <1>1. Inv => PendingServed
    BY OwnImplies DEF Inv
  <1> QED BY <1>1, Invariant, PTL

(* EnsureMttVddAttached applies the saved layout once per attachment.      *)
THEOREM LayoutAppliedOnce == Spec => []LayoutOnce
  <1>1. Inv => LayoutOnce
    BY DEF Inv, HeadInv, LayoutNoted, LayoutOnce
  <1> QED BY <1>1, Invariant, PTL

(* Outside the mutex marker, flag and head agree.                          *)
THEOREM MarkerIsRight == Spec => []MarkedIsOurs
  <1>1. Inv => MarkedIsOurs
    BY DEF Inv, HeadInv, MarkerTold, OursMarked, MarkedIsOurs
  <1> QED BY <1>1, Invariant, PTL

(* ShutdownMttVddForExit leaves no head of ours behind.                    *)
THEOREM ExitIsClean == Spec => []ExitRemovesHead
  <1>1. Inv => ExitRemovesHead
    BY DEF Inv, HeadInv
  <1> QED BY <1>1, Invariant, PTL

=============================================================================
