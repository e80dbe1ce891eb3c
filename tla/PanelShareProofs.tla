-------------------------- MODULE PanelShareProofs --------------------------
(***************************************************************************)
(* Proofs about PanelShare for any finite set of senders and any panel     *)
(* sizes.  The inductive invariant adds to the properties what they leave  *)
(* implicit: which program counters hold the claim, and that an exclusive  *)
(* claim has exactly one holder.                                           *)
(***************************************************************************)
EXTENDS PanelShare, FiniteSetTheorems, TLAPS

HolderPCs == {"build", "stream", "rebuild"}

HeldByPC == \A s \in Senders : held[s] <=> pc[s] \in HolderPCs

ExclusiveIsOne == panel.exclusive => panel.holders = 1

Inv == /\ TypeOK
       /\ HoldersCounted
       /\ HeldByPC
       /\ ExclusiveIsOne
       /\ UnturnedShareSize

-----------------------------------------------------------------------------
(* Counting holders.                                                       *)

(* The holders are some of the finitely many senders.                      *)
LEMMA HoldingFinite == IsFiniteSet(Holding)
  <1>1. Holding \in SUBSET Senders
    BY DEF Holding
  <1> QED BY <1>1, FS_Subset, SendersAssumption

(* No holder is counted exactly when there is none.                        *)
LEMMA CountZero == Cardinality(Holding) = 0 <=> Holding = {}
  BY HoldingFinite, FS_EmptySet

(* A holder that counts at most one is the only one.                       *)
LEMMA CountOne ==
  ASSUME NEW s \in Holding, Cardinality(Holding) <= 1
  PROVE  Cardinality(Holding) = 1 /\ Holding = {s}
  <1>1. Cardinality(Holding) \in Nat /\ Cardinality(Holding) # 0
    BY HoldingFinite, FS_CardinalityType, CountZero
  <1>2. Cardinality(Holding) = 1
    BY <1>1
  <1> QED BY <1>2, HoldingFinite, FS_Singleton

-----------------------------------------------------------------------------
(* Type correctness.                                                       *)

(* The initial values have their types.                                    *)
LEMMA TypeInit == Init => TypeOK
  BY DEF Init, TypeOK, FreePanel, NotBlocked, PCs, States, Attempts

(* Every step of every sender keeps the types.                             *)
LEMMA TypeStep == TypeOK /\ [Next]_vars => TypeOK'
  <1> SUFFICES ASSUME TypeOK, [Next]_vars PROVE TypeOK'
    OBVIOUS
  <1> USE DEF TypeOK, Goto, SetState, PCs, States, Attempts, Kinds
  <1>1. CASE UNCHANGED vars
    BY <1>1 DEF vars
  <1>2. CASE Next
    <2> PICK s \in Senders :
          \/ Start(s) \/ RequestStop(s) \/ Stopped(s)
          \/ SelectBackend(s) \/ DriverMissing(s) \/ NoHello(s) \/ Hello(s)
          \/ Acquire(s) \/ Refused(s)
          \/ BuildDone(s) \/ BuildFailed(s)
          \/ HelloAgain(s) \/ RebuildDone(s) \/ AdoptCapture(s)
          \/ SessionEnd(s) \/ ScopeEnd(s)
      BY <1>2 DEF Next
    <2>0. ASSUME Release(s)
          PROVE  /\ panel' \in [size : Sizes \cup {NoSize}, holders : Nat,
                                exclusive : BOOLEAN,
                                first : Senders \cup {NoSender}]
                 /\ held' \in [Senders -> BOOLEAN]
                 /\ lastClient' \in [Senders -> BOOLEAN]
      BY <2>0 DEF Release, PanelReleased, EmptiesPanel, FreePanel
    <2>1. CASE Start(s)
      BY <2>1 DEF Start
    <2>2. CASE RequestStop(s)
      BY <2>2 DEF RequestStop
    <2>3. CASE Stopped(s)
      BY <2>3 DEF Stopped
    <2>4. CASE SelectBackend(s)
      BY <2>4 DEF SelectBackend
    <2>5. CASE DriverMissing(s)
      BY <2>5 DEF DriverMissing
    <2>6. CASE NoHello(s)
      BY <2>6 DEF NoHello
    <2>7. CASE Hello(s)
      BY <2>7 DEF Hello
    <2>8. CASE Acquire(s)
      <3>1. size[s] \in Sizes \cup {NoSize} /\ Exclusive(s) \in BOOLEAN
        BY DEF Exclusive
      <3>2. panel' \in [size : Sizes \cup {NoSize}, holders : Nat,
                        exclusive : BOOLEAN,
                        first : Senders \cup {NoSender}]
        BY <2>8, <3>1 DEF Acquire, PanelTaken
      <3> QED BY <2>8, <3>2 DEF Acquire, NotBlocked
    <2>9. CASE Refused(s)
      BY <2>9 DEF Refused, EndAttempt
    <2>10. CASE BuildDone(s)
      BY <2>10 DEF BuildDone
    <2>11. CASE BuildFailed(s)
      BY <2>0, <2>11 DEF BuildFailed
    <2>12. CASE HelloAgain(s)
      BY <2>12 DEF HelloAgain, PanelRetuned, MayRetune
    <2>13. CASE RebuildDone(s)
      BY <2>13 DEF RebuildDone
    <2>14. CASE AdoptCapture(s)
      BY <2>14 DEF AdoptCapture
    <2>15. CASE SessionEnd(s)
      BY <2>0, <2>15 DEF SessionEnd
    <2>16. CASE ScopeEnd(s)
      BY <2>0, <2>16 DEF ScopeEnd, EndAttempt
    <2> QED BY <2>1, <2>2, <2>3, <2>4, <2>5, <2>6, <2>7, <2>8, <2>9, <2>10,
               <2>11, <2>12, <2>13, <2>14, <2>15, <2>16
  <1> QED BY <1>1, <1>2

(* Every variable of PanelShare keeps its type.                            *)
THEOREM TypeCorrect == Spec => []TypeOK
  BY TypeInit, TypeStep, PTL DEF Spec

-----------------------------------------------------------------------------
(* The claim.                                                              *)

(* ReleasePanel by a holder: the count stays right, and it reports         *)
(* "last" exactly to the sender that leaves nobody behind.                 *)
LEMMA ReleaseCounts ==
  ASSUME NEW s \in Senders, TypeOK, HoldersCounted, ExclusiveIsOne,
         held[s], Release(s)
  PROVE  /\ Holding' = Holding \ {s}
         /\ HoldersCounted'
         /\ ~panel'.exclusive
         /\ EmptiesPanel <=> Holding' = {}
         /\ Holding' # {} => panel'.size = panel.size
  <1>1. s \in Holding
    BY DEF Holding
  <1>2. Holding' = Holding \ {s}
    BY DEF Holding, Release, TypeOK
  <1>3. Cardinality(Holding') = panel.holders - 1
    BY <1>1, <1>2, HoldingFinite, FS_RemoveElement DEF HoldersCounted
  <1>4. CASE EmptiesPanel
    <2>1. Holding = {s}
      BY <1>1, <1>4, CountOne DEF EmptiesPanel, HoldersCounted
    <2>2. Holding' = {}
      BY <1>2, <2>1
    <2>3. panel' = FreePanel
      BY <1>4 DEF Release, PanelReleased
    <2> QED BY <1>2, <1>4, <2>2, <2>3, FS_EmptySet DEF HoldersCounted, FreePanel
  <1>5. CASE ~EmptiesPanel
    <2>1. panel.holders \in Nat /\ panel.holders > 1
      BY <1>5 DEF EmptiesPanel, TypeOK
    <2>2. panel' = [panel EXCEPT !.holders = @ - 1]
      BY <1>5 DEF Release, PanelReleased
    <2>3. /\ panel'.holders = panel.holders - 1
          /\ panel'.exclusive = panel.exclusive
          /\ panel'.size = panel.size
      BY <2>2 DEF TypeOK
    <2>4. ~panel.exclusive
      BY <2>1 DEF ExclusiveIsOne
    <2>5. Holding' # {}
      <3>1. Cardinality(Holding') # 0
        BY <1>3, <2>1
      <3> QED BY <3>1, FS_EmptySet
    <2> QED BY <1>2, <1>3, <1>5, <2>3, <2>4, <2>5 DEF HoldersCounted
  <1> QED BY <1>4, <1>5

(* A holder's ReleasePanel keeps the whole invariant, provided it leaves   *)
(* the sizes alone and goes where the claim is not held.                   *)
LEMMA ReleaseKeepsInv ==
  ASSUME NEW s \in Senders, Inv, TypeOK', held[s], Release(s),
         pc' = [pc EXCEPT ![s] = "scope"],
         UNCHANGED <<size, want, turned>>
  PROVE  Inv'
  <1> USE DEF Inv
  <1>1. /\ Holding' = Holding \ {s}
        /\ HoldersCounted'
        /\ ~panel'.exclusive
        /\ Holding' # {} => panel'.size = panel.size
    BY ReleaseCounts
  <1>2. HeldByPC'
    BY DEF HeldByPC, HolderPCs, Release, TypeOK
  <1>3. UnturnedShareSize'
    <2> SUFFICES ASSUME NEW t \in Senders, held'[t], turned'[t] = "no"
                 PROVE  panel'.size = IF pc'[t] = "rebuild" THEN want'[t]
                                                            ELSE size'[t]
      BY DEF UnturnedShareSize
    <2>1. t # s /\ held[t] /\ t \in Holding'
      BY DEF Release, TypeOK, Holding
    <2> QED BY <1>1, <2>1 DEF UnturnedShareSize, TypeOK
  <1> QED BY <1>1, <1>2, <1>3 DEF ExclusiveIsOne

(* Nobody holds the panel before the first sender starts.                  *)
LEMMA InvInit == Init => Inv
  <1> SUFFICES ASSUME Init PROVE Inv
    OBVIOUS
  <1>1. Holding = {}
    BY DEF Init, Holding
  <1>2. HoldersCounted
    BY <1>1, FS_EmptySet DEF Init, FreePanel, HoldersCounted
  <1>3. HeldByPC /\ ExclusiveIsOne /\ UnturnedShareSize
    BY DEF Init, HeldByPC, HolderPCs, ExclusiveIsOne, UnturnedShareSize,
           FreePanel
  <1> QED BY <1>2, <1>3, TypeInit DEF Inv

(* Every step keeps the invariant.                                         *)
LEMMA InvStep == Inv /\ [Next]_vars => Inv'
  <1> SUFFICES ASSUME Inv, [Next]_vars PROVE Inv'
    OBVIOUS
  <1>0. TypeOK'
    BY TypeStep DEF Inv
  <1> USE DEF Inv
  <1>1. CASE UNCHANGED vars
    <2>1. Holding' = Holding
      BY <1>1 DEF vars, Holding
    <2> QED BY <1>0, <1>1, <2>1 DEF vars, HoldersCounted, HeldByPC,
               ExclusiveIsOne, UnturnedShareSize
  <1>2. ASSUME NEW s \in Senders, UNCHANGED <<panel, held>>,
               pc[s] \in HolderPCs <=> pc'[s] \in HolderPCs,
               \A t \in Senders \ {s} : /\ pc'[t] = pc[t]
                                        /\ size'[t] = size[t]
                                        /\ want'[t] = want[t]
                                        /\ turned'[t] = turned[t],
               held[s] /\ turned'[s] = "no" =>
                  /\ turned[s] = "no"
                  /\ (IF pc'[s] = "rebuild" THEN want'[s] ELSE size'[s])
                       = IF pc[s] = "rebuild" THEN want[s] ELSE size[s]
        PROVE  Inv'
    <2>1. Holding' = Holding
      BY <1>2 DEF Holding
    <2>2. HoldersCounted' /\ ExclusiveIsOne'
      BY <1>2, <2>1 DEF HoldersCounted, ExclusiveIsOne
    <2>3. HeldByPC'
      BY <1>2 DEF HeldByPC
    <2>4. UnturnedShareSize'
      <3> SUFFICES ASSUME NEW t \in Senders, held'[t], turned'[t] = "no"
                   PROVE  panel'.size = IF pc'[t] = "rebuild" THEN want'[t]
                                                              ELSE size'[t]
        BY DEF UnturnedShareSize
      <3> QED BY <1>2 DEF UnturnedShareSize
    <2> QED BY <1>0, <2>2, <2>3, <2>4
  <1>3. CASE Next
    <2> PICK s \in Senders :
          \/ Start(s) \/ RequestStop(s) \/ Stopped(s)
          \/ SelectBackend(s) \/ DriverMissing(s) \/ NoHello(s) \/ Hello(s)
          \/ Acquire(s) \/ Refused(s)
          \/ BuildDone(s) \/ BuildFailed(s)
          \/ HelloAgain(s) \/ RebuildDone(s) \/ AdoptCapture(s)
          \/ SessionEnd(s) \/ ScopeEnd(s)
      BY <1>3 DEF Next
    <2>1. CASE \/ Start(s) \/ RequestStop(s) \/ Stopped(s)
               \/ SelectBackend(s) \/ DriverMissing(s) \/ NoHello(s)
      <3>1. /\ UNCHANGED <<panel, held, size, want, turned>>
            /\ pc[s] \in HolderPCs <=> pc'[s] \in HolderPCs
            /\ \A t \in Senders \ {s} : pc'[t] = pc[t]
            /\ RequestStop(s) => pc' = pc
            /\ ~RequestStop(s) => pc[s] \notin HolderPCs
        BY <2>1 DEF Start, RequestStop, Stopped, SelectBackend, DriverMissing,
             NoHello, Goto, HolderPCs, TypeOK
      <3> QED BY <1>2, <3>1 DEF HeldByPC
    <2>2. CASE Hello(s) \/ Refused(s)
      <3>1. /\ UNCHANGED <<panel, held>>
            /\ pc[s] \notin HolderPCs /\ pc'[s] \notin HolderPCs
            /\ \A t \in Senders \ {s} : /\ pc'[t] = pc[t]
                                        /\ size'[t] = size[t]
                                        /\ want'[t] = want[t]
                                        /\ turned'[t] = turned[t]
        BY <2>2 DEF Hello, Refused, EndAttempt, Goto, HolderPCs, TypeOK
      <3> QED BY <1>2, <3>1 DEF HeldByPC
    <2>3. CASE Acquire(s)
      <3>1. s \notin Holding
        BY <2>3 DEF Acquire, HeldByPC, HolderPCs, Holding
      <3>2. Holding' = Holding \cup {s}
        BY <2>3 DEF Acquire, Holding, TypeOK
      <3>3. /\ panel'.holders = panel.holders + 1
            /\ panel'.size = size[s]
            /\ panel'.exclusive = IF panel.holders = 0 THEN Exclusive(s)
                                                       ELSE panel.exclusive
        BY <2>3 DEF Acquire, PanelTaken
      <3>4. Cardinality(Holding') = Cardinality(Holding) + 1
        BY <3>1, <3>2, HoldingFinite, FS_AddElement
      <3>5. HoldersCounted'
        BY <3>3, <3>4 DEF HoldersCounted
      <3>6. ExclusiveIsOne'
        BY <2>3, <3>3 DEF ExclusiveIsOne, Acquire, Admits, TypeOK
      <3>7. HeldByPC'
        BY <2>3 DEF Acquire, Goto, HeldByPC, HolderPCs, TypeOK
      <3>8. UnturnedShareSize'
        <4> SUFFICES ASSUME NEW t \in Senders, held'[t], turned'[t] = "no"
                     PROVE  panel'.size = IF pc'[t] = "rebuild" THEN want'[t]
                                                                ELSE size'[t]
          BY DEF UnturnedShareSize
        <4>1. CASE t = s
          BY <2>3, <3>3, <4>1 DEF Acquire, Goto, TypeOK
        <4>2. CASE t # s
          <5>1. held[t] /\ pc'[t] = pc[t] /\ t \in Holding
            BY <2>3, <4>2 DEF Acquire, Goto, TypeOK, Holding
          <5>2. panel.holders # 0
            BY <5>1, CountZero DEF HoldersCounted
          <5>3. panel'.size = panel.size
            BY <2>3, <3>3, <5>2 DEF Acquire, Admits
          <5> QED BY <2>3, <5>1, <5>3 DEF Acquire, UnturnedShareSize
        <4> QED BY <4>1, <4>2
      <3> QED BY <1>0, <3>5, <3>6, <3>7, <3>8
    <2>4. CASE BuildDone(s)
      <3>1. /\ UNCHANGED <<panel, held, size, want, turned>>
            /\ pc[s] = "build" /\ pc'[s] = "stream"
            /\ \A t \in Senders \ {s} : pc'[t] = pc[t]
        BY <2>4 DEF BuildDone, Goto, TypeOK
      <3> QED BY <1>2, <3>1 DEF HolderPCs
    <2>5. CASE BuildFailed(s)
      <3>1. held[s]
        BY <2>5 DEF BuildFailed, HeldByPC, HolderPCs
      <3> QED BY <1>0, <2>5, <3>1, ReleaseKeepsInv DEF BuildFailed, Goto
    <2>6. CASE HelloAgain(s)
      <3>1. /\ UNCHANGED <<held, size>>
            /\ pc[s] = "stream" /\ pc'[s] = "rebuild"
            /\ \A t \in Senders \ {s} : /\ pc'[t] = pc[t]
                                        /\ want'[t] = want[t]
                                        /\ turned'[t] = turned[t]
        BY <2>6 DEF HelloAgain, Goto, TypeOK
      <3>2. s \in Holding
        BY <3>1 DEF HeldByPC, HolderPCs, Holding
      <3>3. Holding' = Holding /\ HeldByPC'
        BY <3>1 DEF Holding, HeldByPC, HolderPCs
      <3>4. /\ panel'.holders = panel.holders
            /\ panel'.exclusive = panel.exclusive
            /\ ~MayRetune => panel'.size = panel.size
            /\ MayRetune => panel'.size = want'[s]
            /\ ~MayRetune => turned'[s] = "refused"
        BY <2>6 DEF HelloAgain, PanelRetuned, TypeOK
      <3>5. HoldersCounted' /\ ExclusiveIsOne'
        BY <3>3, <3>4 DEF HoldersCounted, ExclusiveIsOne
      <3>6. UnturnedShareSize'
        <4> SUFFICES ASSUME NEW t \in Senders, held'[t], turned'[t] = "no"
                     PROVE  panel'.size = IF pc'[t] = "rebuild" THEN want'[t]
                                                                ELSE size'[t]
          BY DEF UnturnedShareSize
        <4>1. CASE MayRetune
          <5>1. Holding = {s}
            BY <3>2, <4>1, CountOne DEF MayRetune, HoldersCounted
          <5>2. t = s
            BY <3>1, <5>1 DEF Holding
          <5> QED BY <3>1, <3>4, <4>1, <5>2
        <4>2. CASE ~MayRetune
          BY <3>1, <3>4, <4>2 DEF UnturnedShareSize
        <4> QED BY <4>1, <4>2
      <3> QED BY <1>0, <3>3, <3>5, <3>6
    <2>7. CASE RebuildDone(s)
      <3>1. /\ UNCHANGED <<panel, held, turned>>
            /\ pc[s] = "rebuild" /\ pc'[s] = "stream"
            /\ size'[s] = want[s]
            /\ \A t \in Senders \ {s} : /\ pc'[t] = pc[t]
                                        /\ size'[t] = size[t]
                                        /\ want'[t] = want[t]
        BY <2>7 DEF RebuildDone, Goto, TypeOK
      <3> QED BY <1>2, <3>1 DEF HolderPCs
    <2>8. CASE AdoptCapture(s)
      <3>1. /\ UNCHANGED <<panel, held, pc, want>>
            /\ turned'[s] = "windows"
            /\ \A t \in Senders \ {s} : /\ size'[t] = size[t]
                                        /\ turned'[t] = turned[t]
        BY <2>8 DEF AdoptCapture, TypeOK
      <3> QED BY <1>2, <3>1
    <2>9. CASE SessionEnd(s)
      <3>1. held[s]
        BY <2>9 DEF SessionEnd, HeldByPC, HolderPCs
      <3> QED BY <1>0, <2>9, <3>1, ReleaseKeepsInv DEF SessionEnd, Goto
    <2>10. CASE ScopeEnd(s)
      <3>1. ~held[s]
        BY <2>10 DEF ScopeEnd, HeldByPC, HolderPCs
      <3>2. /\ UNCHANGED <<panel, held>>
            /\ pc[s] = "scope" /\ pc'[s] = "top"
            /\ \A t \in Senders \ {s} : /\ pc'[t] = pc[t]
                                        /\ size'[t] = size[t]
                                        /\ want'[t] = want[t]
                                        /\ turned'[t] = turned[t]
        BY <2>10, <3>1 DEF ScopeEnd, EndAttempt, Goto, TypeOK
      <3> QED BY <1>2, <3>1, <3>2 DEF HolderPCs
    <2> QED BY <2>1, <2>2, <2>3, <2>4, <2>5, <2>6, <2>7, <2>8, <2>9, <2>10
  <1> QED BY <1>1, <1>3

(* The invariant holds throughout.                                         *)
LEMMA Invariance == Spec => []Inv
  BY InvInit, InvStep, PTL DEF Spec

(* panel.holders counts the PanelHolders that are held: however the        *)
(* attempts of the senders overlap and end, no share leaks and none is     *)
(* given back twice.                                                       *)
THEOREM HoldersAreCounted == Spec => []HoldersCounted
  <1>1. Inv => HoldersCounted
    BY DEF Inv
  <1> QED BY <1>1, Invariance, PTL

(* MTT's exclusive claim has one holder, and whoever builds or streams     *)
(* holds the panel.                                                        *)
THEOREM ExclusiveIsAlone == Spec => []ExclusiveAlone
  <1>1. Inv => ExclusiveAlone
    <2> SUFFICES ASSUME Inv PROVE ExclusiveAlone
      OBVIOUS
    <2>1. ASSUME panel.exclusive PROVE \E s \in Senders : Holding = {s}
      <3>1. Cardinality(Holding) = 1
        BY <2>1 DEF Inv, ExclusiveIsOne, HoldersCounted
      <3>2. PICK s : Holding = {s}
        BY <3>1, HoldingFinite, FS_Singleton
      <3>3. s \in Senders
        BY <3>2 DEF Holding
      <3> QED BY <3>2, <3>3
    <2>2. \A s \in Senders :
             pc[s] \in {"build", "stream", "rebuild"} => held[s]
      BY DEF Inv, HeldByPC, HolderPCs
    <2> QED BY <2>1, <2>2 DEF ExclusiveAlone
  <1> QED BY <1>1, Invariance, PTL

(* Holders that were not turned behind the claim's back work at its size.  *)
THEOREM UnturnedAtClaimedSize == Spec => []UnturnedShareSize
  <1>1. Inv => UnturnedShareSize
    BY DEF Inv
  <1> QED BY <1>1, Invariance, PTL

-----------------------------------------------------------------------------
(* The claim implements the abstract display share.                        *)

(* A sender that takes the panel takes a share.                            *)
LEMMA AcquireTakes ==
  ASSUME NEW s \in Senders, Inv, Acquire(s)
  PROVE  Share!Take(s, Exclusive(s))
  <1> USE DEF Inv
  <1>1. s \notin Holding
    BY DEF Acquire, HeldByPC, HolderPCs, Holding
  <1>2. Holding' = Holding \cup {s}
    BY DEF Acquire, Holding, TypeOK
  <1>3. Holding # {} => panel.holders # 0
    BY CountZero DEF HoldersCounted
  <1>4. Holding # {} => ~panel.exclusive /\ ~Exclusive(s)
    BY <1>3 DEF Acquire, Admits
  <1>5. panel'.exclusive = Exclusive(s)
    <2>1. panel.holders # 0 => panel.exclusive = Exclusive(s)
      BY DEF Acquire, Admits, Exclusive, TypeOK
    <2>2. panel'.exclusive = IF panel.holders = 0 THEN Exclusive(s)
                                                  ELSE panel.exclusive
      BY DEF Acquire, PanelTaken
    <2> QED BY <2>1, <2>2
  <1>6. lastClient' = [lastClient EXCEPT ![s] = FALSE]
    BY DEF Acquire
  <1> QED BY <1>1, <1>2, <1>4, <1>5, <1>6 DEF Share!Take

(* A holder that releases the panel leaves the share.                      *)
LEMMA ReleaseLeaves ==
  ASSUME NEW s \in Senders, Inv, held[s], Release(s)
  PROVE  Share!Leave(s)
  <1>1. s \in Holding
    BY DEF Holding
  <1>2. /\ Holding' = Holding \ {s}
        /\ ~panel'.exclusive
        /\ EmptiesPanel <=> Holding' = {}
    BY ReleaseCounts DEF Inv
  <1>3. panel'.exclusive = FALSE
    BY <1>2 DEF Release, PanelReleased, FreePanel, Inv, TypeOK
  <1>4. EmptiesPanel = (Holding' = {})
    BY <1>2 DEF EmptiesPanel
  <1>5. lastClient' = [lastClient EXCEPT ![s] = (Holding' = {})]
    BY <1>4 DEF Release
  <1> QED BY <1>1, <1>2, <1>3, <1>5 DEF Share!Leave

(* Every step of the senders is a step of the share or leaves it alone.    *)
LEMMA ShareStep == Inv /\ [Next]_vars => [Share!Next]_(Share!vars)
  <1> SUFFICES ASSUME Inv, [Next]_vars PROVE [Share!Next]_(Share!vars)
    OBVIOUS
  <1>1. ASSUME UNCHANGED <<held, lastClient>>,
               panel'.exclusive = panel.exclusive
        PROVE  UNCHANGED Share!vars
    BY <1>1 DEF Share!vars, Holding
  <1>2. CASE UNCHANGED vars
    BY <1>1, <1>2 DEF vars
  <1>3. CASE Next
    <2> PICK s \in Senders :
          \/ Start(s) \/ RequestStop(s) \/ Stopped(s)
          \/ SelectBackend(s) \/ DriverMissing(s) \/ NoHello(s) \/ Hello(s)
          \/ Acquire(s) \/ Refused(s)
          \/ BuildDone(s) \/ BuildFailed(s)
          \/ HelloAgain(s) \/ RebuildDone(s) \/ AdoptCapture(s)
          \/ SessionEnd(s) \/ ScopeEnd(s)
      BY <1>3 DEF Next
    <2>1. CASE \/ Start(s) \/ RequestStop(s) \/ Stopped(s)
               \/ SelectBackend(s) \/ DriverMissing(s) \/ NoHello(s)
               \/ Hello(s) \/ Refused(s) \/ BuildDone(s) \/ RebuildDone(s)
               \/ AdoptCapture(s)
      BY <1>1, <2>1 DEF Start, RequestStop, Stopped, SelectBackend,
         DriverMissing, NoHello, Hello, Refused, BuildDone, RebuildDone,
         AdoptCapture
    <2>2. CASE HelloAgain(s)
      <3>1. panel'.exclusive = panel.exclusive
        BY <2>2 DEF HelloAgain, PanelRetuned, Inv, TypeOK
      <3> QED BY <1>1, <2>2, <3>1 DEF HelloAgain
    <2>3. CASE Acquire(s)
      <3>1. Exclusive(s) \in BOOLEAN
        BY DEF Exclusive
      <3>2. Share!Take(s, Exclusive(s))
        BY <2>3, AcquireTakes
      <3> QED BY <3>1, <3>2 DEF Share!Next
    <2>4. CASE BuildFailed(s) \/ SessionEnd(s)
      <3>1. held[s] /\ Release(s)
        BY <2>4 DEF BuildFailed, SessionEnd, Inv, HeldByPC, HolderPCs
      <3>2. Share!Leave(s)
        BY <3>1, ReleaseLeaves
      <3> QED BY <3>2 DEF Share!Next
    <2>5. CASE ScopeEnd(s)
      <3>1. ~held[s]
        BY <2>5 DEF ScopeEnd, Inv, HeldByPC, HolderPCs
      <3> QED BY <1>1, <2>5, <3>1 DEF ScopeEnd
    <2> QED BY <2>1, <2>2, <2>3, <2>4, <2>5
  <1> QED BY <1>2, <1>3

(* PanelShare implements DisplayShare: nobody joins an exclusive display   *)
(* or takes one exclusively that is in use, and "last client", on which    *)
(* the head's teardown hangs, is told to the sender that leaves the        *)
(* display empty and to no other.                                          *)
THEOREM PanelImplementsShare == Spec => ShareSpec
  <1>1. Init => Share!Init
    BY DEF Init, Share!Init, Holding, FreePanel
  <1>2. Inv /\ [Next]_vars => [Share!Next]_(Share!vars)
    BY ShareStep
  <1> QED BY <1>1, <1>2, Invariance, PTL DEF Spec, ShareSpec, Share!Spec
=============================================================================
