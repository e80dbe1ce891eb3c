--------------------------- MODULE UsbClaimProofs ---------------------------
(***************************************************************************)
(* Proofs about UsbClaim for any set of senders and of iPads, any saved    *)
(* and learned ids and any number of attempts.  The inductive invariant    *)
(* adds to the properties where in an attempt a cable is picked and held,  *)
(* and that a cable is only ever picked by a sender that has an id.        *)
(***************************************************************************)
EXTENDS UsbClaim, TLAPS

(* A claim is held from Take to the end of the attempt.                    *)
HeldInside ==
    \A s \in Senders :
       /\ held[s] => pc[s] \notin {"off", "top", "take"}
       /\ pc[s] = "dial" => held[s]

(* What is claimed is a cable that was picked.                             *)
HeldIsPicked ==
    \A s \in Senders : held[s] \/ pc[s] = "take" => picked[s] \in Pads

(* Only an attempt of an entry with an id picks a cable.                   *)
PickedForId ==
    \A s \in Senders :
       picked[s] \in Pads => known[s] # NoId /\ pc[s] \notin {"off", "top"}

(* A USB session is on a claimed cable.                                    *)
UsbIsHeld ==
    \A s \in Senders :
       /\ usb[s] => held[s]
       /\ pc[s] \in {"load", "save", "verify"} => usb[s]

CableInv == /\ OneSenderPerCable
            /\ HeldInside
            /\ HeldIsPicked
            /\ PickedForId
            /\ UsbIsHeld
            /\ OwnPadOnCable

Inv == TypeOK /\ CableInv

AnyStep ==
    \/ ListenOpens \/ ListenHears \/ ListenDrops \/ ListenKicked
    \/ \E p \in Pads : Plug(p) \/ Pull(p)
    \/ DaemonStops \/ DaemonStarts

-----------------------------------------------------------------------------
(* Type correctness.                                                       *)

(* The initial values have their types.                                    *)
LEMMA TypeInit == Init => TypeOK
  <1> SUFFICES ASSUME Init PROVE TypeOK
    OBVIOUS
  <1>1. SavedId \in [Senders -> Ids] /\ NoCopy \in [Pads -> Ids] /\ left \in Nat
    BY EntriesAssumption, LimitAssumption DEF Init, NoCopy, Ids
  <1>2. /\ claims \subseteq Pads /\ link \in [Pads -> Ids]
        /\ plugged \subseteq Pads /\ listen \in Listens
    BY DEF Init, Listens
  <1>3. /\ daemon \in BOOLEAN /\ posted \in BOOLEAN
        /\ lost \in BOOLEAN /\ kick \in BOOLEAN
    BY DEF Init
  <1>4. /\ pc \in [Senders -> PCs] /\ watch \in [Senders -> Watches]
        /\ said \in [Senders -> Ids] /\ copy \in [Senders -> [Pads -> Ids]]
        /\ entryId \in [Senders -> Ids] /\ known \in [Senders -> Ids]
    BY <1>1 DEF Init, Everyone, PCs, Watches, Ids
  <1>5. /\ picked \in [Senders -> Pads \cup {NoPad}]
        /\ rejected \in [Senders -> Pads \cup {NoPad}]
    BY DEF Init, Everyone
  <1>6. /\ Everyone(TRUE) \in [Senders -> BOOLEAN]
        /\ Everyone(FALSE) \in [Senders -> BOOLEAN]
    BY DEF Everyone
  <1> QED BY <1>1, <1>2, <1>3, <1>4, <1>5, <1>6 DEF Init, TypeOK

(* What PickUsbForEntry finds is cables, and only for an id.               *)
LEMMA ChoicesAreCables ==
  ASSUME TypeOK, NEW id, NEW skipped, NEW strict \in BOOLEAN,
         NEW p \in Choices(id, skipped, strict)
  PROVE  p \in Pads /\ id # NoId
  BY DEF Choices, TypeOK

(* Every step of the watcher, of usbmuxd and of the cables keeps the types. *)
LEMMA TypeAround == TypeOK /\ AnyStep => TypeOK'
  <1> SUFFICES ASSUME TypeOK, AnyStep PROVE TypeOK'
    OBVIOUS
  <1> USE DEF TypeOK, Listens, loopVars, attemptVars, watchVars, Bump, Everyone,
              Post
  <1>1. CASE ListenOpens
    BY <1>1 DEF ListenOpens
  <1>2. CASE ListenHears
    BY <1>2 DEF ListenHears
  <1>3. CASE ListenDrops
    BY <1>3 DEF ListenDrops
  <1>4. CASE ListenKicked
    BY <1>4 DEF ListenKicked
  <1>5. CASE DaemonStops
    BY <1>5 DEF DaemonStops
  <1>6. CASE DaemonStarts
    BY <1>6 DEF DaemonStarts
  <1>7. ASSUME NEW p \in Pads, Plug(p) PROVE TypeOK'
    BY <1>7 DEF Plug
  <1>8. ASSUME NEW p \in Pads, Pull(p) PROVE TypeOK'
    BY <1>8 DEF Pull
  <1> QED BY <1>1, <1>2, <1>3, <1>4, <1>5, <1>6, <1>7, <1>8 DEF AnyStep

(* Every step of a sender's worker and of its usbWatch keeps the types.    *)
LEMMA TypeWorker ==
  ASSUME Inv, NEW s \in Senders, SenderStep(s) \/ WatchStep(s)
  PROVE  TypeOK'
  <1> TypeOK /\ CableInv
    BY DEF Inv
  <1> USE DEF TypeOK, Goto, loopVars, attemptVars, watchVars, muxVars
  <1>1. CASE Start(s)
    BY <1>1, EntriesAssumption DEF Start, PCs, Ids
  <1>2. CASE Stopped(s)
    BY <1>2 DEF Stopped, PCs
  <1>3. CASE Pick(s)
    <2>1. PICK f \in Failover :
             /\ failover' = [failover EXCEPT ![s] = f]
             /\ \/ Goto(s, "wifi") /\ UNCHANGED <<picked, kick>>
                \/ Query /\ Goto(s, "wifi") /\ UNCHANGED picked
                \/ /\ Query
                   /\ \E p \in Choices(known[s], rejected[s], FALSE) :
                         picked' = [picked EXCEPT ![s] = p]
                   /\ Goto(s, "take")
      BY <1>3 DEF Pick
    <2>2. kick' \in BOOLEAN
      BY <2>1 DEF Query
    <2>3. \A p \in Choices(known[s], rejected[s], FALSE) : p \in Pads
      BY ChoicesAreCables
    <2>4. picked' = picked \/ \E p \in Pads : picked' = [picked EXCEPT ![s] = p]
      BY <2>1, <2>3
    <2>5. picked' \in [Senders -> Pads \cup {NoPad}]
      BY <2>4
    <2>6. failover' \in [Senders -> BOOLEAN] /\ pc' \in [Senders -> PCs]
      BY <2>1, SetupAssumption DEF PCs
    <2>7. left' \in Nat /\ forceWifi' \in [Senders -> BOOLEAN]
      BY <1>3 DEF Pick
    <2> QED BY <1>3, <2>2, <2>5, <2>6, <2>7 DEF Pick
  <1>4. CASE Take(s)
    <2>1. picked[s] \in Pads
      BY <1>4 DEF Take, CableInv, HeldIsPicked
    <2>2. claims' \subseteq Pads
      BY <1>4, <2>1 DEF Take
    <2>3. held' \in [Senders -> BOOLEAN]
      BY <1>4 DEF Take
    <2>4. \/ pc' = [pc EXCEPT ![s] = "wifi"]
          \/ pc' = [pc EXCEPT ![s] = "dial"]
      BY <1>4 DEF Take
    <2>5. pc' \in [Senders -> PCs]
      BY <2>4 DEF PCs
    <2>6. UNCHANGED <<link, muxVars, news, loopVars, failover, picked, cut, usb,
                      said, copy, watchVars, left>>
      BY <1>4 DEF Take
    <2> QED BY <2>2, <2>3, <2>5, <2>6
  <1>5. CASE Dial(s)
    BY <1>5 DEF Dial, PCs
  <1>6. CASE DialFails(s)
    BY <1>6 DEF DialFails, PCs
  <1>7. CASE WifiConnect(s)
    BY <1>7 DEF WifiConnect, PCs
  <1>8. CASE WifiFails(s)
    BY <1>8 DEF WifiFails, PCs
  <1>9. CASE UsbHello(s)
    BY <1>9 DEF UsbHello, PCs, HelloId, Ids, HeldIsPicked, UsbIsHeld, Inv, CableInv
  <1>10. CASE NoHello(s)
    BY <1>10 DEF NoHello, PCs
  <1>11. CASE Load(s)
    BY <1>11 DEF Load, PCs
  <1>12. CASE Save(s)
    BY <1>12 DEF Save, PCs, NoCopy, Ids
  <1>13. CASE Accept(s)
    BY <1>13 DEF Accept, PCs
  <1>14. CASE Reject(s)
    BY <1>14 DEF Reject, PCs
  <1>15. CASE WifiHello(s)
    <2>1. PICK p \in Pads :
             /\ known'   = [known EXCEPT ![s] = HelloId(p)] \/ UNCHANGED known
             /\ entryId' = [entryId EXCEPT ![s] = HelloId(p)] \/ UNCHANGED entryId
             /\ allowed' = [allowed EXCEPT ![s] = TRUE] \/ UNCHANGED allowed
      BY <1>15 DEF WifiHello
    <2>2. HelloId(p) \in Ids
      BY DEF HelloId, Ids
    <2> DEFINE id == HelloId(p)
    <2> HIDE DEF id
    <2>3. known' \in [Senders -> Ids] /\ entryId' \in [Senders -> Ids]
      <3>1. known' = [known EXCEPT ![s] = id] \/ UNCHANGED known
        BY <2>1 DEF id
      <3>2. entryId' = [entryId EXCEPT ![s] = id] \/ UNCHANGED entryId
        BY <2>1 DEF id
      <3>3. id \in Ids
        BY <2>2 DEF id
      <3>4. known' \in [Senders -> Ids]
        BY <3>1, <3>3
      <3>5. entryId' \in [Senders -> Ids]
        BY <3>2, <3>3
      <3> QED BY <3>4, <3>5
    <2>4. allowed' \in [Senders -> BOOLEAN]
      BY <2>1
    <2> QED BY <1>15, <2>3, <2>4 DEF WifiHello, PCs
  <1>16. CASE Blocked(s)
    BY <1>16 DEF Blocked, PCs
  <1>17. CASE Stream(s)
    BY <1>17 DEF Stream, PCs, Watches, Listens, StartedListen
  <1>18. CASE SessionEnd(s)
    BY <1>18 DEF SessionEnd, PCs, Bump, Everyone
  <1>19. CASE Joined(s)
    BY <1>19 DEF Joined, PCs, Watches
  <1>20. CASE ScopeEnd(s)
    BY <1>20 DEF ScopeEnd, PCs, Ids
  <1>21. CASE BackoffEnds(s)
    BY <1>21 DEF BackoffEnds
  <1>22. CASE RejectionEnds(s)
    BY <1>22 DEF RejectionEnds
  <1>23. CASE WatchLook(s)
    BY <1>23 DEF WatchLook, Query, Watches
  <1>24. CASE WatchArm(s)
    BY <1>24 DEF WatchArm, Watches
  <1>25. CASE WatchWakes(s)
    BY <1>25 DEF WatchWakes, Watches
  <1> QED BY <1>1, <1>2, <1>3, <1>4, <1>5, <1>6, <1>7, <1>8, <1>9, <1>10, <1>11, <1>12, <1>13, <1>14, <1>15, <1>16, <1>17, <1>18, <1>19, <1>20, <1>21, <1>22, <1>23, <1>24, <1>25 DEF Inv, SenderStep, WatchStep

-----------------------------------------------------------------------------
(* The cables.                                                             *)

(* Nothing is picked or claimed at the start.                              *)
LEMMA CableInit == Init => CableInv
  BY IdsAssumption
  DEF Init, Everyone, CableInv, OneSenderPerCable, HeldInside, HeldIsPicked,
      PickedForId, UsbIsHeld, OwnPadOnCable

(* The claims depend on what is picked and held alone.                     *)
LEMMA ClaimsUnmoved ==
  ASSUME OneSenderPerCable, UNCHANGED <<claims, picked, held>>
  PROVE  OneSenderPerCable'
  BY DEF OneSenderPerCable

(* Steps that leave the workers and their cables alone.                    *)
LEMMA CableUnmoved ==
  ASSUME CableInv, UNCHANGED <<claims, pc, known, picked, held, usb, said>>
  PROVE  CableInv'
  BY DEF CableInv, OneSenderPerCable, HeldInside, HeldIsPicked, PickedForId,
         UsbIsHeld, OwnPadOnCable

(* The other threads, usbmuxd, the user and time do.                       *)
LEMMA CableAround ==
  ASSUME CableInv,
         \/ AnyStep
         \/ \E s \in Senders :
               WatchStep(s) \/ BackoffEnds(s) \/ RejectionEnds(s)
  PROVE  CableInv'
  <1>1. UNCHANGED <<claims, pc, known, picked, held, usb, said>>
    BY DEF AnyStep, ListenOpens, ListenHears, ListenDrops, ListenKicked, Plug,
           Pull, DaemonStops, DaemonStarts, WatchStep, WatchLook, WatchArm,
           WatchWakes, BackoffEnds, RejectionEnds, loopVars, attemptVars
  <1> QED BY <1>1, CableUnmoved

(* A step of a worker within its attempt, the claim unchanged.             *)
LEMMA CableKept ==
  ASSUME Inv, NEW s \in Senders, UNCHANGED <<claims, known, picked, held>>,
         usb' = usb \/ (usb' = [usb EXCEPT ![s] = TRUE] /\ held[s]),
         said' = said \/ pc[s] = "hello",
         \A t \in Senders \ {s} : pc'[t] = pc[t] /\ said'[t] = said[t],
         held[s] => pc'[s] \notin {"off", "top", "take"},
         pc'[s] \notin {"off", "top", "take", "dial"},
         pc'[s] \in {"load", "save", "verify"} => usb'[s],
         pc'[s] \in {"panel", "stream", "join"} =>
            ~usb'[s] \/ (held[s] /\ said'[s] \in {known[s], NoId})
  PROVE  CableInv'
  <1>1. OneSenderPerCable'
    BY ClaimsUnmoved DEF Inv, CableInv
  <1>2. HeldInside' /\ HeldIsPicked' /\ PickedForId'
    BY DEF Inv, CableInv, HeldInside, HeldIsPicked, PickedForId
  <1>3. UsbIsHeld'
    BY DEF Inv, CableInv, UsbIsHeld, TypeOK
  <1>4. OwnPadOnCable'
    <2>1. ASSUME NEW t \in Senders \ {s}, pc'[t] \in {"panel", "stream", "join"}, usb'[t]
          PROVE  held'[t] /\ said'[t] \in {known'[t], NoId}
      <3>1. usb[t] /\ pc[t] = pc'[t] /\ said[t] = said'[t]
        BY <2>1 DEF Inv, TypeOK
      <3> QED BY <2>1, <3>1 DEF Inv, CableInv, OwnPadOnCable
    <2>2. ASSUME pc'[s] \in {"panel", "stream", "join"}, usb'[s]
          PROVE  held'[s] /\ said'[s] \in {known'[s], NoId}
      BY <2>2
    <2> QED BY <2>1, <2>2 DEF OwnPadOnCable
  <1> QED BY <1>1, <1>2, <1>3, <1>4 DEF CableInv

(* Every step of a worker.                                                 *)
LEMMA CableWorker ==
  ASSUME Inv, NEW s \in Senders, SenderStep(s)
  PROVE  CableInv'
  <1> TypeOK /\ CableInv
    BY DEF Inv
  <1> USE DEF Goto, loopVars, attemptVars
  <1>1. CASE Start(s)
    <2>1. OneSenderPerCable'
      BY <1>1, ClaimsUnmoved DEF Start, CableInv
    <2>2. ~held[s] /\ picked[s] \notin Pads /\ ~usb[s]
      BY <1>1 DEF Start, CableInv, HeldInside, PickedForId, UsbIsHeld
    <2> QED BY <1>1, <2>1, <2>2 DEF Start, TypeOK, CableInv, HeldInside, HeldIsPicked, PickedForId, UsbIsHeld, OwnPadOnCable
  <1>2. CASE Stopped(s)
    <2>1. OneSenderPerCable'
      BY <1>2, ClaimsUnmoved DEF Stopped, CableInv
    <2>2. ~held[s] /\ picked[s] \notin Pads /\ ~usb[s]
      BY <1>2 DEF Stopped, CableInv, HeldInside, PickedForId, UsbIsHeld
    <2> QED BY <1>2, <2>1, <2>2 DEF Stopped, TypeOK, CableInv, HeldInside, HeldIsPicked, PickedForId, UsbIsHeld, OwnPadOnCable
  <1>3. CASE Pick(s)
    <2>1. ~held[s] /\ picked[s] \notin Pads /\ ~usb[s]
      BY <1>3 DEF Pick, CableInv, HeldInside, PickedForId, UsbIsHeld
    <2>2. \A p \in Choices(known[s], rejected[s], FALSE) :
             p \in Pads /\ known[s] # NoId
      BY ChoicesAreCables
    <2>3. \/ pc' = [pc EXCEPT ![s] = "wifi"] /\ picked' = picked
          \/ /\ pc' = [pc EXCEPT ![s] = "take"]
             /\ known[s] # NoId
             /\ \E p \in Pads : picked' = [picked EXCEPT ![s] = p]
      BY <1>3, <2>2 DEF Pick
    <2>4. /\ UNCHANGED <<claims, held, known, usb, said>>
          /\ \A t \in Senders \ {s} : picked'[t] = picked[t] /\ pc'[t] = pc[t]
      BY <1>3, <2>3 DEF Pick, TypeOK
    <2>5. OneSenderPerCable'
      <3>1. \A t \in Senders : held[t] => picked'[t] = picked[t]
        BY <2>1, <2>4
      <3>2. {picked'[t] : t \in {u \in Senders : held[u]}}
               = {picked[t] : t \in {u \in Senders : held[u]}}
        BY <3>1
      <3> QED BY <2>4, <3>1, <3>2 DEF CableInv, OneSenderPerCable
    <2>6. HeldInside' /\ UsbIsHeld' /\ OwnPadOnCable'
      BY <2>1, <2>3, <2>4 DEF TypeOK, CableInv, HeldInside, UsbIsHeld,
                              OwnPadOnCable
    <2>7. HeldIsPicked' /\ PickedForId'
      BY <2>1, <2>3, <2>4 DEF TypeOK, CableInv, HeldIsPicked, PickedForId
    <2> QED BY <2>5, <2>6, <2>7 DEF CableInv
  <1>4. CASE Take(s)
    <2>1. ~held[s] /\ picked[s] \in Pads /\ ~usb[s] /\ pc[s] = "take"
      BY <1>4 DEF Take, CableInv, HeldInside, HeldIsPicked, UsbIsHeld
    <2>2. \A t \in Senders \ {s} : pc'[t] = pc[t] /\ held'[t] = held[t]
      BY <1>4 DEF Take, TypeOK
    <2>3. \/ pc'[s] = "wifi" /\ UNCHANGED <<claims, held>>
          \/ /\ pc'[s] = "dial" /\ held' = [held EXCEPT ![s] = TRUE]
             /\ claims' = claims \cup {picked[s]} /\ picked[s] \notin claims
      BY <1>4 DEF Take, TypeOK
    <2>4. UNCHANGED <<picked, known, usb, said>>
      BY <1>4 DEF Take
    <2>5. OneSenderPerCable'
      <3>1. CASE UNCHANGED <<claims, held>>
        BY <2>4, <3>1, ClaimsUnmoved DEF CableInv
      <3>2. CASE /\ held' = [held EXCEPT ![s] = TRUE]
                 /\ claims' = claims \cup {picked[s]} /\ picked[s] \notin claims
        <4>1. {u \in Senders : held'[u]} = {u \in Senders : held[u]} \cup {s}
          BY <3>2 DEF TypeOK
        <4>2. claims' = {picked[t] : t \in {u \in Senders : held'[u]}}
          BY <3>2, <4>1 DEF CableInv, OneSenderPerCable
        <4>3. \A t \in Senders : held[t] => picked[t] # picked[s]
          BY <3>2 DEF CableInv, OneSenderPerCable
        <4>4. \A t, u \in Senders :
                 held'[t] /\ held'[u] /\ picked[t] = picked[u] => t = u
          BY <2>1, <2>2, <4>3 DEF CableInv, OneSenderPerCable
        <4> QED BY <2>4, <4>2, <4>4 DEF OneSenderPerCable
      <3> QED BY <2>3, <3>1, <3>2
    <2>6. HeldInside'
      BY <2>1, <2>2, <2>3, <2>4 DEF TypeOK, CableInv, HeldInside
    <2>7. HeldIsPicked'
      BY <2>1, <2>2, <2>3, <2>4 DEF TypeOK, CableInv, HeldIsPicked
    <2>8. PickedForId'
      BY <2>1, <2>2, <2>3, <2>4 DEF TypeOK, CableInv, PickedForId
    <2>9. UsbIsHeld'
      BY <2>1, <2>2, <2>3, <2>4 DEF TypeOK, CableInv, UsbIsHeld
    <2>10. OwnPadOnCable'
      BY <2>1, <2>2, <2>3, <2>4 DEF TypeOK, CableInv, OwnPadOnCable
    <2> QED BY <2>5, <2>6, <2>7, <2>8, <2>9, <2>10 DEF CableInv
  <1>5. CASE Dial(s)
    BY <1>5, CableKept
    DEF Dial, TypeOK, CableInv, HeldInside, PickedForId, UsbIsHeld,
        OwnPadOnCable
  <1>6. CASE DialFails(s)
    <2>1. /\ pc[s] = "dial"
          /\ pc' \in {[pc EXCEPT ![s] = "wifi"], [pc EXCEPT ![s] = "scope"]}
          /\ UNCHANGED <<claims, known, picked, held, usb, said>>
      BY <1>6 DEF DialFails
    <2>2. pc'[s] \in {"wifi", "scope"} /\ \A t \in Senders \ {s} : pc'[t] = pc[t]
      BY <2>1 DEF TypeOK
    <2> QED BY <2>1, <2>2, CableKept
  <1>7. CASE WifiConnect(s)
    BY <1>7, CableKept
    DEF WifiConnect, TypeOK, CableInv, HeldInside, PickedForId, UsbIsHeld,
        OwnPadOnCable
  <1>8. CASE WifiFails(s)
    BY <1>8, CableKept
    DEF WifiFails, TypeOK, CableInv, HeldInside, PickedForId, UsbIsHeld,
        OwnPadOnCable
  <1>9. CASE UsbHello(s)
    BY <1>9, CableKept
    DEF UsbHello, TypeOK, CableInv, HeldInside, PickedForId, UsbIsHeld,
        OwnPadOnCable
  <1>10. CASE NoHello(s)
    BY <1>10, CableKept
    DEF NoHello, TypeOK, CableInv, HeldInside, PickedForId, UsbIsHeld,
        OwnPadOnCable
  <1>11. CASE Load(s)
    <2>1. /\ pc[s] = "load"
          /\ pc' \in {[pc EXCEPT ![s] = "save"], [pc EXCEPT ![s] = "verify"]}
          /\ UNCHANGED <<claims, known, picked, held, usb, said>>
      BY <1>11 DEF Load
    <2>2. pc'[s] \in {"save", "verify"} /\ \A t \in Senders \ {s} : pc'[t] = pc[t]
      BY <2>1 DEF TypeOK
    <2>3. usb[s]
      BY <2>1 DEF CableInv, UsbIsHeld
    <2> QED BY <2>1, <2>2, <2>3, CableKept
  <1>12. CASE Save(s)
    <2>1. /\ pc[s] = "save" /\ pc' = [pc EXCEPT ![s] = "verify"]
          /\ UNCHANGED <<claims, known, picked, held, usb, said>>
      BY <1>12 DEF Save
    <2>2. pc'[s] = "verify" /\ \A t \in Senders \ {s} : pc'[t] = pc[t]
      BY <2>1 DEF TypeOK
    <2>3. usb[s]
      BY <2>1 DEF CableInv, UsbIsHeld
    <2> QED BY <2>1, <2>2, <2>3, CableKept
  <1>13. CASE Accept(s)
    <2>1. /\ pc[s] = "verify" /\ pc' = [pc EXCEPT ![s] = "panel"]
          /\ UNCHANGED <<claims, known, picked, held, usb, said>>
      BY <1>13 DEF Accept
    <2>2. pc'[s] = "panel" /\ \A t \in Senders \ {s} : pc'[t] = pc[t]
      BY <2>1 DEF TypeOK
    <2>3. usb[s] /\ held[s] /\ picked[s] \in Pads
      BY <2>1 DEF CableInv, UsbIsHeld, HeldIsPicked
    <2>4. known[s] # NoId
      BY <2>3 DEF CableInv, PickedForId
    <2>5. said[s] \in {known[s], NoId}
      BY <1>13, <2>4 DEF Accept, WrongPad
    <2> QED BY <2>1, <2>2, <2>3, <2>5, CableKept
  <1>14. CASE Reject(s)
    BY <1>14, CableKept
    DEF Reject, TypeOK, CableInv, HeldInside, PickedForId, UsbIsHeld,
        OwnPadOnCable
  <1>15. CASE WifiHello(s)
    <2>1. /\ ~usb[s] /\ pc' = [pc EXCEPT ![s] = "panel"] /\ pc[s] = "hello"
          /\ UNCHANGED <<claims, picked, held, usb, said>>
      BY <1>15 DEF WifiHello
    <2>2. \/ UNCHANGED known
          \/ \E id \in Ids : id # NoId /\ known' = [known EXCEPT ![s] = id]
      BY <1>15 DEF WifiHello, HelloId, Ids
    <2>3. \A t \in Senders : /\ t # s => known'[t] = known[t] /\ pc'[t] = pc[t]
                             /\ known[t] # NoId => known'[t] # NoId
      BY <2>1, <2>2 DEF TypeOK
    <2>4. OneSenderPerCable'
      BY <2>1, ClaimsUnmoved DEF CableInv
    <2>5. HeldInside' /\ HeldIsPicked' /\ PickedForId'
      BY <2>1, <2>3 DEF TypeOK, CableInv, HeldInside, HeldIsPicked, PickedForId
    <2>6. UsbIsHeld' /\ OwnPadOnCable'
      BY <2>1, <2>3 DEF TypeOK, CableInv, UsbIsHeld, OwnPadOnCable
    <2> QED BY <2>4, <2>5, <2>6 DEF CableInv
  <1>16. CASE Blocked(s)
    BY <1>16, CableKept
    DEF Blocked, TypeOK, CableInv, HeldInside, PickedForId, UsbIsHeld,
        OwnPadOnCable
  <1>17. CASE Stream(s)
    BY <1>17, CableKept
    DEF Stream, TypeOK, CableInv, HeldInside, PickedForId, UsbIsHeld,
        OwnPadOnCable
  <1>18. CASE SessionEnd(s)
    BY <1>18, CableKept
    DEF SessionEnd, Bump, TypeOK, CableInv, HeldInside, PickedForId, UsbIsHeld,
        OwnPadOnCable
  <1>19. CASE Joined(s)
    BY <1>19, CableKept
    DEF Joined, TypeOK, CableInv, HeldInside, PickedForId, UsbIsHeld,
        OwnPadOnCable
  <1>20. CASE ScopeEnd(s)
    <2>1. /\ \A t \in Senders \ {s} : /\ pc'[t] = pc[t] /\ held'[t] = held[t]
                                      /\ picked'[t] = picked[t]
                                      /\ usb'[t] = usb[t] /\ said'[t] = said[t]
          /\ pc'[s] = "top" /\ ~held'[s] /\ ~usb'[s] /\ picked'[s] = NoPad
          /\ UNCHANGED known
      BY <1>20 DEF ScopeEnd, TypeOK
    <2>2. claims' = IF held[s] THEN claims \ {picked[s]} ELSE claims
      BY <1>20 DEF ScopeEnd
    <2>3. OneSenderPerCable'
      BY <2>1, <2>2 DEF CableInv, OneSenderPerCable
    <2>4. HeldInside' /\ HeldIsPicked' /\ PickedForId'
      BY <2>1, IdsAssumption DEF CableInv, HeldInside, HeldIsPicked, PickedForId
    <2>5. UsbIsHeld' /\ OwnPadOnCable'
      BY <2>1 DEF CableInv, UsbIsHeld, OwnPadOnCable
    <2> QED BY <2>3, <2>4, <2>5 DEF CableInv
  <1>21. CASE BackoffEnds(s)
    BY <1>21, CableAround
  <1>22. CASE RejectionEnds(s)
    BY <1>22, CableAround
  <1> QED BY <1>1, <1>2, <1>3, <1>4, <1>5, <1>6, <1>7, <1>8, <1>9, <1>10, <1>11, <1>12, <1>13, <1>14, <1>15, <1>16, <1>17, <1>18, <1>19, <1>20, <1>21, <1>22 DEF SenderStep

-----------------------------------------------------------------------------
(* The theorems.                                                           *)

(* The invariant is kept by every step.                                    *)
LEMMA InvStep == Inv /\ [Next]_vars => Inv'
  <1> SUFFICES ASSUME Inv, [Next]_vars PROVE Inv'
    OBVIOUS
  <1>1. CASE UNCHANGED vars
    <2>1. TypeOK'
      BY <1>1 DEF vars, Inv, TypeOK
    <2>2. CableInv'
      BY <1>1, CableUnmoved DEF vars, Inv
    <2> QED BY <2>1, <2>2 DEF Inv
  <1>2. CASE AnyStep
    BY <1>2, TypeAround, CableAround DEF Inv
  <1>3. ASSUME NEW s \in Senders, SenderStep(s) PROVE Inv'
    BY <1>3, TypeWorker, CableWorker DEF Inv
  <1>4. ASSUME NEW s \in Senders, WatchStep(s) PROVE Inv'
    BY <1>4, TypeWorker, CableAround DEF Inv
  <1> QED BY <1>1, <1>2, <1>3, <1>4 DEF Next, ListenStep, AnyStep

(* The inductive invariant of UsbClaim.                                    *)
THEOREM Invariant == Spec => []Inv
  <1>1. Init => Inv
    BY TypeInit, CableInit DEF Inv
  <1> QED BY <1>1, InvStep, PTL DEF Spec

(* Every variable of UsbClaim keeps its type.                              *)
THEOREM TypeCorrect == Spec => []TypeOK
  <1>1. Inv => TypeOK
    BY DEF Inv
  <1> QED BY <1>1, Invariant, PTL

(* "One USB cable feeds one sender": whatever the order of the picks, the  *)
(* claims are those of the senders that hold one, each of another cable.   *)
THEOREM CableFeedsOneSender == Spec => []OneSenderPerCable
  <1>1. Inv => OneSenderPerCable
    BY DEF Inv, CableInv
  <1> QED BY <1>1, Invariant, PTL

(* "The cable we dialed must be this entry's iPad": a USB session is on a  *)
(* cable its sender has claimed, and with an iPad that does not contradict *)
(* its entry.                                                              *)
THEOREM UsbSessionIsOwn == Spec => []OwnPadOnCable
  <1>1. Inv => OwnPadOnCable
    BY DEF Inv, CableInv
  <1> QED BY <1>1, Invariant, PTL
=============================================================================
