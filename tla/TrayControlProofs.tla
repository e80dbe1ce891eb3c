-------------------------- MODULE TrayControlProofs --------------------------
(***************************************************************************)
(* Proofs about TrayControl for any addresses, ids and files.  The         *)
(* inductive invariant says who is between a load and a save of the file,  *)
(* and that, while no two such stretches overlap, the file, the tray's     *)
(* copy of it and what a sender is about to save agree.                    *)
(***************************************************************************)
EXTENDS TrayControl, FiniteSetTheorems, SequenceTheorems, WellFoundedInduction, TLAPS

(* Entries and files without leftovers.                                    *)
Device == [addr : Addrs, id : Ids \cup {None}, hello : BOOLEAN]
Clean == [devs : Seq(Device), link : Ids \cup {None}]
Saving == {"cut", "write"}
App == [entry : Addrs, addr : Addrs, run : BOOLEAN, st : {"idle", "connecting", "streaming"},
        id : Ids \cup {None}, follows : BOOLEAN, work : Working \cup {"none", "lock", "ended"},
        usb : BOOLEAN, mine : Clean]
PCs == {"boot", "start", "update", "idle", "learn", "cut", "write", "join", "rebuild", "over"}
Tray == [pc : PCs, join : Seq(Nat), then : {"idle", "update", "rebuild", "restart", "over"}]
Dialog == [open : BOOLEAN, rows : Seq(Addrs), pending : [Addrs -> Ids \cup {None}], old : Seq(Device)]

-----------------------------------------------------------------------------
(* What Load drops.                                                        *)

\* A set of naturals that is not empty has a least element.
LEMMA Least ==
  ASSUME NEW I \in SUBSET Nat, I # {}
  PROVE  \E x \in I : \A y \in I : x =< y
  <1>1. \E x \in I : \A y \in I : <<y, x>> \notin OpToRel(<, Nat)
    BY NatLessThanWellFounded, WFMin
  <1>2. PICK x \in I : \A y \in I : <<y, x>> \notin OpToRel(<, Nat)
    BY <1>1
  <1>3. \A y \in I : x =< y
    <2> SUFFICES ASSUME NEW y \in I, y < x PROVE FALSE
      OBVIOUS
    <2>1. <<y, x>> \in Nat \X Nat /\ <<y, x>>[1] = y /\ <<y, x>>[2] = x
      OBVIOUS
    <2>2. <<y, x>> \in {ss \in Nat \X Nat : ss[1] < ss[2]}
      BY <2>1
    <2> QED BY <1>2, <2>2 DEF OpToRel
  <1> QED BY <1>3

\* The element after the first ones of a finite set of naturals.
LEMMA After ==
  ASSUME NEW K \in SUBSET Nat, IsFiniteSet(K), NEW D \in SUBSET K,
         \A d \in D, j \in K \ D : d < j, Cardinality(D) < Cardinality(K)
  PROVE  \E i \in K \ D : Cardinality({j \in K : j =< i}) = Cardinality(D) + 1
  <1>1. IsFiniteSet(D)
    BY FS_Subset
  <1>5. K \ D # {}
    <2> SUFFICES ASSUME K = D PROVE FALSE
      OBVIOUS
    <2>1. Cardinality(D) \in Nat
      BY <1>1, FS_CardinalityType
    <2> QED BY <2>1
  <1>2. PICK i \in K \ D : \A y \in K \ D : i =< y
    BY <1>5, Least
  <1>3. {j \in K : j =< i} = D \cup {i}
    <2>1. ASSUME NEW j \in K, j =< i PROVE j \in D \cup {i}
      <3>1. CASE j \in D
        BY <3>1
      <3>2. CASE j \in K \ D
        <4>1. i =< j /\ i \in Nat /\ j \in Nat
          BY <1>2, <3>2
        <4> QED BY <2>1, <4>1
      <3> QED BY <3>1, <3>2
    <2>2. ASSUME NEW j \in D PROVE j \in K /\ j =< i
      <3>1. j < i /\ i \in Nat /\ j \in Nat
        BY <1>2
      <3> QED BY <3>1
    <2>3. i \in K /\ i =< i
      OBVIOUS
    <2> QED BY <2>1, <2>2, <2>3
  <1>4. Cardinality(D \cup {i}) = Cardinality(D) + 1
    BY <1>1, FS_AddElement
  <1> QED BY <1>3, <1>4

\* Every place up to the size of a finite set of naturals is some element's.
LEMMA Ranked ==
  ASSUME NEW K \in SUBSET Nat, IsFiniteSet(K), NEW k \in 1 .. Cardinality(K)
  PROVE  \E i \in K : Cardinality({j \in K : j =< i}) = k
  <1> DEFINE Bad == {n \in 1 .. Cardinality(K) :
                         ~ \E i \in K : Cardinality({j \in K : j =< i}) = n}
  <1> SUFFICES ASSUME Bad # {} PROVE FALSE
    OBVIOUS
  <1>1. Cardinality(K) \in Nat /\ Bad \in SUBSET Nat
    BY FS_CardinalityType
  <1>2. PICK n \in Bad : \A m \in Bad : n =< m
    BY <1>1, Least
  <1>3. CASE n = 1
    <2>1. Cardinality({}) = 0
      BY FS_EmptySet
    <2>2. \E i \in K \ {} : Cardinality({j \in K : j =< i}) = Cardinality({}) + 1
      <3> HIDE DEF Bad
      <3>1. 0 < Cardinality(K)
        BY <1>1
      <3>2. {} \in SUBSET K /\ \A d \in {}, j \in K \ {} : d < j
        OBVIOUS
      <3>3. Cardinality({}) < Cardinality(K)
        BY <2>1, <3>1
      <3> QED BY <3>2, <3>3, After
    <2>5. PICK i \in K \ {} : Cardinality({j \in K : j =< i}) = Cardinality({}) + 1
      BY <2>2
    <2>3. \E h \in K : Cardinality({j \in K : j =< h}) = 1
      <3>1. i \in K /\ Cardinality({j \in K : j =< i}) = 1
        BY <2>1, <2>5
      <3> QED BY <3>1
    <2>4. n \in Bad
      BY <1>2
    <2> QED BY <1>3, <2>3, <2>4
  <1>4. CASE n # 1
    <2>1. n - 1 \in 1 .. Cardinality(K) /\ n - 1 \notin Bad
      BY <1>1, <1>2, <1>4
    <2>2. PICK i \in K : Cardinality({j \in K : j =< i}) = n - 1
      BY <2>1
    <2>3. PICK m \in K : Cardinality({j \in K : j =< m}) = n - 1 + 1
      <3> DEFINE D == {j \in K : j =< i}
      <3>1. D \in SUBSET K /\ \A d \in D, j \in K \ D : d < j
        OBVIOUS
      <3>4. Cardinality(D) = n - 1
        BY <2>2
      <3>2. Cardinality(D) < Cardinality(K)
        BY <1>1, <1>2, <3>4
      <3> HIDE DEF D
      <3>3. \E m \in K \ D : Cardinality({j \in K : j =< m}) = Cardinality(D) + 1
        BY <3>1, <3>2, After
      <3>5. PICK m \in K \ D : Cardinality({j \in K : j =< m}) = Cardinality(D) + 1
        BY <3>3
      <3>6. m \in K
        BY <3>5
      <3> QED BY <3>4, <3>5, <3>6
    <2>4. Cardinality({j \in K : j =< m}) = n
      BY <1>1, <1>2, <2>3
    <2>5. n \in Bad
      BY <1>2
    <2> QED BY <2>4, <2>5
  <1> QED BY <1>3, <1>4

\* A function on the first n naturals is a sequence of length n.
LEMMA FunctionIsSeq ==
  ASSUME NEW S, NEW n \in Nat, NEW f \in [1 .. n -> S]
  PROVE  f \in Seq(S) /\ Len(f) = n
  OBVIOUS

\* What is left are entries of the list, none of them a leftover.
LEMMA PrunedIs ==
  ASSUME NEW q \in Seq(Entry)
  PROVE  /\ Pruned(q) \in Seq(Device)
         /\ \A k \in DOMAIN Pruned(q) : \E i \in DOMAIN q :
               Pruned(q)[k] = q[i] /\ q[i].addr # Placeholder
  <1> DEFINE kept == {i \in DOMAIN q : q[i].addr # Placeholder}
             nth(k) == CHOOSE i \in kept : Cardinality({j \in kept : j =< i}) = k
  <1>1. kept \in SUBSET Nat /\ IsFiniteSet(kept) /\ Cardinality(kept) \in Nat
    <2>1. kept \in SUBSET (1 .. Len(q)) /\ Len(q) \in Nat
      OBVIOUS
    <2>2. IsFiniteSet(1 .. Len(q))
      BY <2>1, FS_Interval
    <2> QED BY <2>1, <2>2, FS_Subset, FS_CardinalityType
  <1>2. ASSUME NEW k \in 1 .. Cardinality(kept) PROVE nth(k) \in kept
    <2> HIDE DEF kept
    <2> QED BY <1>1, Ranked
  <1>3. Pruned(q) = [k \in 1 .. Cardinality(kept) |-> q[nth(k)]]
    BY DEF Pruned
  <1>4. ASSUME NEW i \in kept PROVE q[i] \in Device /\ q[i].addr # Placeholder /\ i \in DOMAIN q
    <2>1. q[i] \in Entry /\ q[i].addr # Placeholder
      OBVIOUS
    <2> QED BY <2>1 DEF Entry, Device
  <1> HIDE DEF nth, kept
  <1>5. \A k \in 1 .. Cardinality(kept) : q[nth(k)] \in Device
    BY <1>2, <1>4
  <1>6. Pruned(q) \in [1 .. Cardinality(kept) -> Device]
    BY <1>3, <1>5
  <1>7. Pruned(q) \in Seq(Device)
    BY <1>1, <1>6, FunctionIsSeq
  <1>8. ASSUME NEW k \in DOMAIN Pruned(q)
        PROVE  \E i \in DOMAIN q : Pruned(q)[k] = q[i] /\ q[i].addr # Placeholder
    <2>1. k \in 1 .. Cardinality(kept) /\ Pruned(q)[k] = q[nth(k)]
      BY <1>3
    <2> QED BY <1>2, <1>4, <2>1
  <1> QED BY <1>7, <1>8

\* Nothing is left out of a list without leftovers.
LEMMA PrunedSame ==
  ASSUME NEW q \in Seq(Device)
  PROVE  Pruned(q) = q
  <1> DEFINE kept == {i \in DOMAIN q : q[i].addr # Placeholder}
             nth(k) == CHOOSE i \in kept : Cardinality({j \in kept : j =< i}) = k
  <1>1. kept = 1 .. Len(q) /\ Len(q) \in Nat /\ DOMAIN q = 1 .. Len(q)
    <2>1. ASSUME NEW i \in DOMAIN q PROVE q[i].addr # Placeholder
      <3>1. q[i] \in Device
        OBVIOUS
      <3> QED BY <3>1, TrayAssumption DEF Device
    <2> QED BY <2>1
  <1>2. Cardinality(kept) = Len(q)
    <2> HIDE DEF kept
    <2>1. 1 \in Int /\ Len(q) \in Int
      BY <1>1
    <2>2. Cardinality(1 .. Len(q)) = IF 1 > Len(q) THEN 0 ELSE Len(q) - 1 + 1
      BY <2>1, FS_Interval
    <2> QED BY <1>1, <2>2
  <1>3. ASSUME NEW i \in kept PROVE Cardinality({j \in kept : j =< i}) = i
    <2> HIDE DEF kept
    <2>1. {j \in kept : j =< i} = 1 .. i /\ i \in Nat \ {0} /\ 1 \in Int /\ i \in Int
      BY <1>1
    <2>2. Cardinality(1 .. i) = IF 1 > i THEN 0 ELSE i - 1 + 1
      BY <2>1, FS_Interval
    <2>3. Cardinality(1 .. i) = i
      BY <2>1, <2>2
    <2>4. Cardinality({j \in kept : j =< i}) = Cardinality(1 .. i)
      BY <2>1, Zenon
    <2> QED BY <2>3, <2>4
  <1>4. ASSUME NEW k \in 1 .. Len(q) PROVE nth(k) = k
    <2> HIDE DEF kept
    <2> QED BY <1>1, <1>3
  <1>5. Pruned(q) = [k \in 1 .. Cardinality(kept) |-> q[nth(k)]]
    BY DEF Pruned
  <1> HIDE DEF nth, kept
  <1>6. Pruned(q) = [k \in 1 .. Len(q) |-> q[k]]
    BY <1>2, <1>4, <1>5
  <1> QED BY <1>1, <1>6

\* What a load gives.
LEMMA LoadedIs ==
  ASSUME NEW f \in Config
  PROVE  /\ Loaded(f) \in Clean /\ Loaded(f).link = f.link /\ Loaded(f).devs = Pruned(f.devs)
         /\ f \in Clean => Loaded(f) = f
  BY PrunedIs, PrunedSame DEF Loaded, Config, Clean

LEMMA CleanIsConfig == Clean \subseteq Config
  <1>1. Device \subseteq Entry
    BY DEF Device, Entry
  <1>2. Seq(Device) \subseteq Seq(Entry)
    BY <1>1
  <1> QED BY <1>2 DEF Clean, Config

-----------------------------------------------------------------------------
(* The inductive invariant.                                                *)

\* Everything has a value of its type; the tray's copy and what a sender is
\* about to save have no leftovers, nor has the file once it was loaded.
TypeInv ==
    /\ file \in Config /\ (tray.pc # "boot" => file \in Clean)
    /\ cfg \in Clean /\ apps \in Seq(App) /\ tray \in Tray /\ dialog \in Dialog
    /\ posted \in BOOLEAN /\ queue \in Nat /\ left \in Nat
    /\ lives \in [Addrs -> Ids \cup {None}] /\ cable \in Ids
    /\ heard \in [Ids -> Addrs \cup {None}]
    /\ overlapped \in BOOLEAN /\ bound \in Ids \cup {None}
    /\ told \in [Addrs -> SUBSET (Ids \cup {None})]
    /\ \A i \in DOMAIN apps : apps[i].work # "none" => apps[i].run

\* The senders are made by the first load, and made anew only when every one
\* of them has stopped.
AllStop ==
    /\ tray.pc = "boot" => apps = <<>>
    /\ tray.pc = "join" =>
          /\ tray.then \in {"update", "rebuild", "over"}
          /\ \A k \in DOMAIN tray.join : tray.join[k] \in DOMAIN apps
    /\ tray.pc \in Saving => tray.then \in {"update", "restart", "idle"}
    /\ tray.pc = "rebuild" => \A i \in DOMAIN apps : apps[i].work = "none"
    /\ tray.pc = "join" /\ tray.then = "rebuild" =>
          \A i \in DOMAIN apps :
             apps[i].work = "none" \/ \E k \in DOMAIN tray.join : tray.join[k] = i

\* Who is between a load and a save; without an overlap, at most one.
Writers ==
    /\ open \subseteq DOMAIN apps \cup {0}
    /\ 0 \in open <=> tray.pc \in Saving
    /\ \A i \in DOMAIN apps : i \in open <=> apps[i].work \in Saving
    /\ ~overlapped => \A v, w \in open : v = w

\* The last binding learned is in the file, or in what the tray will save.
Link ==
    ~overlapped =>
        /\ open = {} => file.link = bound
        /\ 0 \in open => cfg.link = bound

\* The tray's list of devices is the file's, and the one a sender will save.
Same ==
    ~overlapped /\ tray.pc # "boot" =>
        /\ open = {} => file.devs = cfg.devs
        /\ \A i \in DOMAIN apps : i \in open => apps[i].mine.devs = cfg.devs

\* The senders are those of the tray's list: not before the first load, nor
\* once the user has changed the list, until they are made anew.
Settled ==
    /\ tray.pc \notin {"boot", "rebuild"}
    /\ ~(tray.pc \in Saving /\ tray.then = "restart")
    /\ ~(tray.pc = "join" /\ tray.then = "rebuild")

Aligned ==
    ~overlapped /\ Settled =>
        /\ DOMAIN apps = DOMAIN cfg.devs
        /\ \A i \in DOMAIN apps : apps[i].entry = cfg.devs[i].addr

\* What Settings was opened with are the rows there are, as they were or with
\* an id learned since.
OpenedRows ==
    /\ dialog.open => Settled
    /\ ~overlapped /\ dialog.open =>
          /\ DOMAIN dialog.old = DOMAIN cfg.devs
          /\ \A k \in DOMAIN cfg.devs :
                /\ dialog.old[k].addr = cfg.devs[k].addr
                /\ dialog.old[k] = cfg.devs[k] \/ cfg.devs[k].hello

\* A learned id was heard by a sender of that row's address; a sender's id was
\* heard by it too, or is the one the user gave the row.
LearnedIds ==
    ~overlapped =>
        /\ \A k \in DOMAIN cfg.devs : cfg.devs[k].hello => cfg.devs[k].id \in told[cfg.devs[k].addr]
        /\ \A k \in DOMAIN file.devs :
              file.devs[k].hello /\ file.devs[k].addr # Placeholder =>
                  file.devs[k].id \in told[file.devs[k].addr]
        /\ Settled =>
              \A i \in DOMAIN apps :
                 \/ apps[i].id = None
                 \/ apps[i].id \in told[apps[i].entry]
                 \/ ~cfg.devs[i].hello /\ cfg.devs[i].id = apps[i].id

Files == TypeInv /\ AllStop /\ Writers /\ Link
Inv == Files /\ Same /\ Aligned /\ OpenedRows /\ LearnedIds

-----------------------------------------------------------------------------
(* What a worker's step does.                                              *)

LEMMA Put ==
  ASSUME NEW S, NEW s \in Seq(S), NEW i \in DOMAIN s, NEW v \in S
  PROVE  /\ Upd(s, i, v) \in Seq(S) /\ DOMAIN Upd(s, i, v) = DOMAIN s
         /\ Upd(s, i, v)[i] = v /\ \A j \in DOMAIN s : j # i => Upd(s, i, v)[j] = s[j]
  BY DEF Upd

LEMMA AppsIs ==
  ASSUME TypeInv
  PROVE  /\ DOMAIN apps = 1 .. Len(apps) /\ Len(apps) \in Nat /\ 0 \notin DOMAIN apps
         /\ DOMAIN apps \subseteq Nat /\ \A i \in DOMAIN apps : apps[i] \in App
  BY DEF TypeInv

LEMMA CfgIs ==
  ASSUME TypeInv
  PROVE  /\ cfg.devs \in Seq(Device) /\ cfg.link \in Ids \cup {None}
         /\ DOMAIN cfg.devs = 1 .. Len(cfg.devs) /\ Len(cfg.devs) \in Nat
         /\ \A k \in DOMAIN cfg.devs : cfg.devs[k] \in Device
  <1>1. cfg.devs \in Seq(Device) /\ cfg.link \in Ids \cup {None}
    BY DEF TypeInv, Clean
  <1> QED BY <1>1

LEMMA DefaultsIs == Defaults \in Clean /\ Defaults.devs = <<>> /\ Defaults.link = None
                    /\ Defaults \in Config
  BY DEF Defaults, Clean, Config

LEMMA NotifyIs ==
  ASSUME posted \in BOOLEAN, queue \in Nat, NotifyStatus \/ UNCHANGED status
  PROVE  posted' \in BOOLEAN /\ queue' \in Nat
  <1>1. CASE NotifyStatus
    <2>1. posted' \in BOOLEAN
      BY <1>1, Zenon DEF NotifyStatus
    <2>2. queue' = queue \/ queue' = queue + 1
      BY <1>1 DEF NotifyStatus
    <2> QED BY <2>1, <2>2
  <1>2. CASE UNCHANGED status
    BY <1>2 DEF status
  <1> QED BY <1>1, <1>2

\* Worker i changes its own record, but not whose sender it is, where it dials
\* and whether it runs.
Own(i) ==
    /\ apps' \in Seq(App) /\ DOMAIN apps' = DOMAIN apps
    /\ \A j \in DOMAIN apps : j # i => apps'[j] = apps[j]
    /\ apps'[i].entry = apps[i].entry /\ apps'[i].addr = apps[i].addr
    /\ apps'[i].run = apps[i].run

\* The ways a worker's step can touch the file.
Quiet(i) ==
    /\ file' = file /\ open' = open /\ bound' = bound /\ overlapped' \in BOOLEAN
    /\ overlapped => overlapped'
    /\ apps[i].work \notin Saving /\ apps'[i].work \notin Saving
Begins(i) ==
    /\ file' = file /\ bound' = bound /\ Begin(i)
    /\ apps[i].work \notin Saving /\ apps'[i].work \in Saving
    /\ apps'[i].mine.devs = Loaded(file).devs
Cuts(i) ==
    /\ file' = Defaults /\ open' = open /\ bound' = bound /\ overlapped' = overlapped
    /\ apps[i].work \in Saving /\ apps'[i].work \in Saving /\ apps'[i].mine = apps[i].mine
Saves(i) ==
    /\ file' = apps[i].mine /\ bound' = apps[i].mine.link /\ open' = open \ {i}
    /\ overlapped' = overlapped
    /\ apps[i].work \in Saving /\ apps'[i].work \notin Saving

\* All there is to say of it.
Effect(i) ==
    /\ UNCHANGED <<cfg, tray, dialog, world>>
    /\ posted' \in BOOLEAN /\ queue' \in Nat /\ left' \in Nat
    /\ told' \in [Addrs -> SUBSET (Ids \cup {None})] /\ \A a \in Addrs : told[a] \subseteq told'[a]
    /\ Own(i)
    /\ apps[i].work # "none" /\ apps'[i].work # "none"
    /\ apps'[i].work \in Working => apps[i].work \in Working \/ ~LockTaken(i)
    /\ apps'[i].id = apps[i].id \/ apps'[i].id \in told'[apps[i].entry]
    /\ Quiet(i) \/ Begins(i) \/ Cuts(i) \/ Saves(i)

\* A step that leaves the file alone and changes the worker's record to b.
LEMMA OwnIs ==
  ASSUME TypeInv, NEW i \in DOMAIN apps, NEW b \in App, apps' = Upd(apps, i, b),
         b.entry = apps[i].entry, b.addr = apps[i].addr, b.run = apps[i].run
  PROVE  Own(i) /\ apps'[i] = b
  <1>1. apps \in Seq(App)
    BY DEF TypeInv
  <1>2. /\ apps' \in Seq(App) /\ DOMAIN apps' = DOMAIN apps /\ apps'[i] = b
        /\ \A j \in DOMAIN apps : j # i => apps'[j] = apps[j]
    BY <1>1, Put
  <1>3. apps'[i].run = apps[i].run
    BY <1>2, Zenon
  <1> QED BY <1>2, <1>3, Zenon DEF Own

LEMMA SetStateIs ==
  ASSUME TypeInv, NEW i \in DOMAIN apps, NEW b \in App,
         NEW s \in {"idle", "connecting", "streaming"}, SetState(i, b, s),
         b.entry = apps[i].entry, b.addr = apps[i].addr, b.run = apps[i].run
  PROVE  /\ Own(i) /\ apps'[i].work = b.work /\ apps'[i].id = b.id
         /\ posted' \in BOOLEAN /\ queue' \in Nat
  <1>1. [b EXCEPT !.st = s] \in App /\ [b EXCEPT !.st = s].entry = b.entry
        /\ [b EXCEPT !.st = s].addr = b.addr /\ [b EXCEPT !.st = s].run = b.run
        /\ [b EXCEPT !.st = s].work = b.work /\ [b EXCEPT !.st = s].id = b.id
    BY DEF App
  <1>2. apps' = Upd(apps, i, [b EXCEPT !.st = s])
    BY DEF SetState
  <1>3. Own(i) /\ apps'[i] = [b EXCEPT !.st = s]
    BY <1>1, <1>2, OwnIs
  <1>4. posted' \in BOOLEAN /\ queue' \in Nat
    BY NotifyIs DEF SetState, TypeInv
  <1> QED BY <1>1, <1>3, <1>4

LEMMA ToldIs ==
  ASSUME TypeInv, told' = told
  PROVE  told' \in [Addrs -> SUBSET (Ids \cup {None})] /\ \A a \in Addrs : told[a] \subseteq told'[a]
  BY DEF TypeInv

LEMMA TakeLockDoes ==
  ASSUME TypeInv, NEW i \in DOMAIN apps, TakeLock(i)
  PROVE  Effect(i)
  <1> DEFINE w == IF LockTaken(i) THEN "ended" ELSE "try"
  <1>1. w \in Working \cup {"none", "lock", "ended"} /\ w \notin Saving /\ w # "none"
        /\ (w \in Working => ~LockTaken(i))
    BY DEF Working, Saving
  <1>2. apps[i] \in App /\ apps[i].work = "lock" /\ apps' = Upd(apps, i, [apps[i] EXCEPT !.work = w])
        /\ UNCHANGED <<cfg, tray, dialog, status, world, disk, told, left>>
    BY AppsIs DEF TakeLock
  <1> HIDE DEF w
  <1>3. [apps[i] EXCEPT !.work = w] \in App
    BY <1>1, <1>2 DEF App
  <1>4. Own(i) /\ apps'[i] = [apps[i] EXCEPT !.work = w]
    <2>1. /\ [apps[i] EXCEPT !.work = w].entry = apps[i].entry
          /\ [apps[i] EXCEPT !.work = w].addr = apps[i].addr
          /\ [apps[i] EXCEPT !.work = w].run = apps[i].run
      BY <1>2 DEF App
    <2> QED BY <1>2, <1>3, <2>1, OwnIs
  <1>5. apps'[i].work = w /\ apps'[i].id = apps[i].id
    BY <1>2, <1>4 DEF App
  <1>6. Quiet(i)
    BY <1>1, <1>2, <1>5 DEF Quiet, disk, TypeInv, Saving
  <1>7. told' \in [Addrs -> SUBSET (Ids \cup {None})] /\ \A a \in Addrs : told[a] \subseteq told'[a]
    BY <1>2, ToldIs
  <1>8. posted' \in BOOLEAN /\ queue' \in Nat /\ left' \in Nat
    BY <1>2, NotifyIs DEF TypeInv
  <1>9. UNCHANGED <<cfg, tray, dialog, world>>
    BY <1>2
  <1> QED BY <1>1, <1>2, <1>4, <1>5, <1>6, <1>7, <1>8, <1>9, Zenon DEF Effect

LEMMA AttemptDoes ==
  ASSUME TypeInv, NEW i \in DOMAIN apps, Attempt(i)
  PROVE  Effect(i)
  <1> DEFINE b == [apps[i] EXCEPT !.work = "dial", !.usb = FALSE]
  <1>1. apps[i] \in App /\ apps[i].work = "try" /\ SetState(i, b, "connecting")
        /\ UNCHANGED <<cfg, tray, dialog, world, disk, told, left>>
    BY AppsIs DEF Attempt
  <1>2. b \in App
    BY <1>1 DEF App, Working
  <1>3. b.entry = apps[i].entry /\ b.addr = apps[i].addr /\ b.run = apps[i].run /\ b.work = "dial"
        /\ b.id = apps[i].id
    BY <1>1 DEF App
  <1> HIDE DEF b
  <1>4. Own(i) /\ apps'[i].work = "dial" /\ apps'[i].id = apps[i].id
        /\ posted' \in BOOLEAN /\ queue' \in Nat
    BY <1>1, <1>2, <1>3, SetStateIs
  <1>6. Quiet(i)
    BY <1>1, <1>4 DEF Quiet, disk, TypeInv, Saving
  <1>7. told' \in [Addrs -> SUBSET (Ids \cup {None})] /\ \A a \in Addrs : told[a] \subseteq told'[a]
    BY <1>1, ToldIs
  <1>8. left' \in Nat
    BY <1>1 DEF TypeInv
  <1>9. UNCHANGED <<cfg, tray, dialog, world>>
    BY <1>1
  <1> QED BY <1>1, <1>4, <1>6, <1>7, <1>8, <1>9 DEF Effect, Working

LEMMA WifiHelloDoes ==
  ASSUME TypeInv, NEW i \in DOMAIN apps, WifiHello(i)
  PROVE  Effect(i)
  <1> DEFINE id == lives[apps[i].addr]
             b == [apps[i] EXCEPT !.id = id, !.work = "welcome"]
             c == [apps[i] EXCEPT !.work = "welcome"]
  <1>1. apps[i] \in App /\ apps[i].work = "dial"
        /\ told' = Upd(told, apps[i].entry, told[apps[i].entry] \cup {id})
        /\ UNCHANGED <<cfg, tray, dialog, world, disk, left>>
        /\ \/ apps' = Upd(apps, i, b) /\ NotifyStatus
           \/ apps' = Upd(apps, i, c) /\ UNCHANGED status
    BY AppsIs DEF WifiHello
  <1>2. id \in Ids \cup {None}
    BY <1>1 DEF TypeInv, App
  <1>3. b \in App /\ c \in App
    BY <1>1, <1>2 DEF App, Working
  <1>4. /\ b.entry = apps[i].entry /\ b.addr = apps[i].addr /\ b.run = apps[i].run
        /\ b.work = "welcome" /\ b.id = id
        /\ c.entry = apps[i].entry /\ c.addr = apps[i].addr /\ c.run = apps[i].run
        /\ c.work = "welcome" /\ c.id = apps[i].id
    BY <1>1 DEF App
  <1>5. told' \in [Addrs -> SUBSET (Ids \cup {None})] /\ id \in told'[apps[i].entry]
        /\ \A a \in Addrs : told[a] \subseteq told'[a]
    <2>1. apps[i].entry \in Addrs
      BY <1>1 DEF App
    <2> HIDE DEF id
    <2> QED BY <1>1, <1>2, <2>1 DEF TypeInv, Upd
  <1> HIDE DEF b, c, id
  <1>6. Own(i) /\ apps'[i].work = "welcome" /\ apps'[i].id \in {id, apps[i].id}
    <2>1. CASE apps' = Upd(apps, i, b)
      BY <1>3, <1>4, <2>1, OwnIs
    <2>2. CASE apps' = Upd(apps, i, c)
      BY <1>3, <1>4, <2>2, OwnIs
    <2> QED BY <1>1, <2>1, <2>2
  <1>7. Quiet(i)
    BY <1>1, <1>6 DEF Quiet, disk, TypeInv, Saving
  <1>8. posted' \in BOOLEAN /\ queue' \in Nat /\ left' \in Nat
    BY <1>1, NotifyIs DEF TypeInv
  <1>9. UNCHANGED <<cfg, tray, dialog, world>>
    BY <1>1
  <1> QED BY <1>1, <1>5, <1>6, <1>7, <1>8, <1>9 DEF Effect, Working

LEMMA UsbHelloDoes ==
  ASSUME TypeInv, NEW i \in DOMAIN apps, UsbHello(i)
  PROVE  Effect(i)
  <1> DEFINE now == Loaded(file)
             m == [now EXCEPT !.link = cable]
             b == [apps[i] EXCEPT !.usb = TRUE, !.work = "cut", !.mine = m]
             w == Checked(i, cable)
             c == [apps[i] EXCEPT !.usb = TRUE, !.work = w]
  <1>1. apps[i] \in App /\ apps[i].work = "dial"
        /\ UNCHANGED <<file, bound, cfg, tray, dialog, status, world, told, left>>
        /\ \/ apps' = Upd(apps, i, b) /\ Begin(i)
           \/ apps' = Upd(apps, i, c) /\ Reads /\ open' = open
    BY AppsIs DEF UsbHello
  <1>2. m \in Clean /\ m.devs = now.devs
    <2>1. now \in Clean /\ cable \in Ids
      BY LoadedIs DEF TypeInv
    <2> HIDE DEF now
    <2> QED BY <2>1 DEF Clean
  <1>3. w \in {"welcome", "try"}
    BY DEF Checked
  <1> HIDE DEF m, w
  <1>4. b \in App /\ c \in App
    BY <1>1, <1>2, <1>3 DEF App, Working
  <1>5. /\ b.entry = apps[i].entry /\ b.addr = apps[i].addr /\ b.run = apps[i].run
        /\ b.work = "cut" /\ b.id = apps[i].id /\ b.mine = m
        /\ c.entry = apps[i].entry /\ c.addr = apps[i].addr /\ c.run = apps[i].run
        /\ c.work = w /\ c.id = apps[i].id
    BY <1>1 DEF App
  <1>6. told' \in [Addrs -> SUBSET (Ids \cup {None})] /\ \A a \in Addrs : told[a] \subseteq told'[a]
    BY <1>1, ToldIs
  <1>7. posted' \in BOOLEAN /\ queue' \in Nat /\ left' \in Nat
    BY <1>1, NotifyIs DEF TypeInv
  <1>8. UNCHANGED <<cfg, tray, dialog, world>>
    BY <1>1
  <1> HIDE DEF b, c
  <1>9. CASE apps' = Upd(apps, i, b) /\ Begin(i)
    <2>1. Own(i) /\ apps'[i] = b
      BY <1>4, <1>5, <1>9, OwnIs
    <2>2. Begins(i)
      BY <1>1, <1>2, <1>5, <1>9, <2>1 DEF Begins, Saving
    <2> QED BY <1>1, <1>5, <1>6, <1>7, <1>8, <2>1, <2>2 DEF Effect, Working
  <1>10. CASE apps' = Upd(apps, i, c) /\ Reads /\ open' = open
    <2>1. Own(i) /\ apps'[i] = c
      BY <1>4, <1>5, <1>10, OwnIs
    <2>2. overlapped' \in BOOLEAN /\ (overlapped => overlapped')
      BY <1>10, Zenon DEF Reads
    <2>3. Quiet(i)
      BY <1>1, <1>3, <1>5, <1>10, <2>1, <2>2 DEF Quiet, Saving
    <2> QED BY <1>1, <1>3, <1>5, <1>6, <1>7, <1>8, <2>1, <2>3 DEF Effect, Working
  <1> QED BY <1>1, <1>9, <1>10

LEMMA SenderSavesDoes ==
  ASSUME TypeInv, NEW i \in DOMAIN apps, SenderSaves(i)
  PROVE  Effect(i)
  <1>1. apps[i] \in App
        /\ UNCHANGED <<overlapped, cfg, tray, dialog, status, world, told, left>>
    BY AppsIs DEF SenderSaves
  <1>2. told' \in [Addrs -> SUBSET (Ids \cup {None})] /\ \A a \in Addrs : told[a] \subseteq told'[a]
    BY <1>1, ToldIs
  <1>3. posted' \in BOOLEAN /\ queue' \in Nat /\ left' \in Nat
    BY <1>1, NotifyIs DEF TypeInv
  <1>4. UNCHANGED <<cfg, tray, dialog, world>>
    BY <1>1
  <1>5. CASE apps[i].work = "cut"
    <2> DEFINE b == [apps[i] EXCEPT !.work = "write"]
    <2>1. file' = Defaults /\ apps' = Upd(apps, i, b) /\ UNCHANGED <<open, bound>>
      BY <1>5 DEF SenderSaves
    <2>2. b \in App
      BY <1>1 DEF App, Working
    <2>3. b.entry = apps[i].entry /\ b.addr = apps[i].addr /\ b.run = apps[i].run
          /\ b.work = "write" /\ b.id = apps[i].id /\ b.mine = apps[i].mine
      BY <1>1 DEF App
    <2> HIDE DEF b
    <2>4. Own(i) /\ apps'[i] = b
      BY <2>1, <2>2, <2>3, OwnIs
    <2>5. Cuts(i)
      BY <1>1, <1>5, <2>1, <2>3, <2>4 DEF Cuts, Saving
    <2> QED BY <1>2, <1>3, <1>4, <1>5, <2>3, <2>4, <2>5 DEF Effect, Working
  <1>6. CASE apps[i].work = "write"
    <2> DEFINE w == Checked(i, apps[i].mine.link)
               b == [apps[i] EXCEPT !.work = w, !.mine = Defaults]
    <2>1. /\ file' = apps[i].mine /\ bound' = apps[i].mine.link /\ open' = open \ {i}
          /\ apps' = Upd(apps, i, b)
      BY <1>6 DEF SenderSaves
    <2>6. w \in {"welcome", "try"}
      BY DEF Checked
    <2> HIDE DEF w
    <2>2. b \in App
      BY <1>1, <2>6, DefaultsIs DEF App, Working
    <2>3. b.entry = apps[i].entry /\ b.addr = apps[i].addr /\ b.run = apps[i].run
          /\ b.work = w /\ b.id = apps[i].id
      BY <1>1 DEF App
    <2> HIDE DEF b
    <2>4. Own(i) /\ apps'[i] = b
      BY <2>1, <2>2, <2>3, OwnIs
    <2>5. Saves(i)
      BY <1>1, <1>6, <2>1, <2>3, <2>4, <2>6 DEF Saves, Saving
    <2> QED BY <1>2, <1>3, <1>4, <1>6, <2>3, <2>4, <2>5, <2>6 DEF Effect, Working
  <1> QED BY <1>5, <1>6 DEF SenderSaves

LEMMA WelcomeDoes ==
  ASSUME TypeInv, NEW i \in DOMAIN apps, Welcome(i)
  PROVE  Effect(i)
  <1> DEFINE b == [apps[i] EXCEPT !.work = "session"]
  <1>1. apps[i] \in App /\ apps[i].work = "welcome" /\ SetState(i, b, "streaming")
        /\ UNCHANGED <<cfg, tray, dialog, world, disk, told, left>>
    BY AppsIs DEF Welcome
  <1>2. b \in App
    BY <1>1 DEF App, Working
  <1>3. b.entry = apps[i].entry /\ b.addr = apps[i].addr /\ b.run = apps[i].run
        /\ b.work = "session" /\ b.id = apps[i].id
    BY <1>1 DEF App
  <1> HIDE DEF b
  <1>4. Own(i) /\ apps'[i].work = "session" /\ apps'[i].id = apps[i].id
        /\ posted' \in BOOLEAN /\ queue' \in Nat
    BY <1>1, <1>2, <1>3, SetStateIs
  <1>6. Quiet(i)
    BY <1>1, <1>4 DEF Quiet, disk, TypeInv, Saving
  <1>7. told' \in [Addrs -> SUBSET (Ids \cup {None})] /\ \A a \in Addrs : told[a] \subseteq told'[a]
    BY <1>1, ToldIs
  <1>8. left' \in Nat
    BY <1>1 DEF TypeInv
  <1>9. UNCHANGED <<cfg, tray, dialog, world>>
    BY <1>1
  <1> QED BY <1>1, <1>4, <1>6, <1>7, <1>8, <1>9 DEF Effect, Working

LEMMA WorkerStopsDoes ==
  ASSUME TypeInv, NEW i \in DOMAIN apps, WorkerStops(i)
  PROVE  Effect(i)
  <1> DEFINE b == [apps[i] EXCEPT !.work = "ended", !.usb = FALSE]
  <1>1. apps[i] \in App /\ apps[i].work \in {"try", "dial", "welcome", "session"}
        /\ SetState(i, b, "idle")
        /\ UNCHANGED <<cfg, tray, dialog, world, disk, told, left>>
    BY AppsIs DEF WorkerStops
  <1>2. b \in App
    BY <1>1 DEF App, Working
  <1>3. b.entry = apps[i].entry /\ b.addr = apps[i].addr /\ b.run = apps[i].run
        /\ b.work = "ended" /\ b.id = apps[i].id
    BY <1>1 DEF App
  <1> HIDE DEF b
  <1>4. Own(i) /\ apps'[i].work = "ended" /\ apps'[i].id = apps[i].id
        /\ posted' \in BOOLEAN /\ queue' \in Nat
    BY <1>1, <1>2, <1>3, SetStateIs
  <1>6. Quiet(i)
    BY <1>1, <1>4 DEF Quiet, disk, TypeInv, Saving
  <1>7. told' \in [Addrs -> SUBSET (Ids \cup {None})] /\ \A a \in Addrs : told[a] \subseteq told'[a]
    BY <1>1, ToldIs
  <1>8. left' \in Nat
    BY <1>1 DEF TypeInv
  <1>9. UNCHANGED <<cfg, tray, dialog, world>>
    BY <1>1
  <1> QED BY <1>1, <1>4, <1>6, <1>7, <1>8, <1>9 DEF Effect, Working

LEMMA SessionEndsDoes ==
  ASSUME TypeInv, NEW i \in DOMAIN apps, SessionEnds(i)
  PROVE  Effect(i)
  <1> DEFINE b == [apps[i] EXCEPT !.work = "try", !.usb = FALSE]
  <1>1. apps[i] \in App /\ apps[i].work = "session" /\ apps' = Upd(apps, i, b)
        /\ left > 0 /\ left' = left - 1
        /\ UNCHANGED <<cfg, tray, dialog, status, world, disk, told>>
    BY AppsIs DEF SessionEnds, Hiccup
  <1>2. b \in App
    BY <1>1 DEF App, Working
  <1>3. b.entry = apps[i].entry /\ b.addr = apps[i].addr /\ b.run = apps[i].run
        /\ b.work = "try" /\ b.id = apps[i].id
    BY <1>1 DEF App
  <1> HIDE DEF b
  <1>4. Own(i) /\ apps'[i] = b
    BY <1>1, <1>2, <1>3, OwnIs
  <1>6. Quiet(i)
    BY <1>1, <1>3, <1>4 DEF Quiet, disk, TypeInv, Saving
  <1>7. told' \in [Addrs -> SUBSET (Ids \cup {None})] /\ \A a \in Addrs : told[a] \subseteq told'[a]
    BY <1>1, ToldIs
  <1>8. posted' \in BOOLEAN /\ queue' \in Nat /\ left' \in Nat
    BY <1>1, NotifyIs DEF TypeInv
  <1>9. UNCHANGED <<cfg, tray, dialog, world>>
    BY <1>1
  <1> QED BY <1>1, <1>3, <1>4, <1>6, <1>7, <1>8, <1>9 DEF Effect, Working

\* Every step of a worker.
LEMMA WorkerDoes ==
  ASSUME TypeInv, NEW i \in DOMAIN apps, Worker(i) \/ SessionEnds(i)
  PROVE  Effect(i)
  BY TakeLockDoes, AttemptDoes, WifiHelloDoes, UsbHelloDoes, SenderSavesDoes, WelcomeDoes,
     WorkerStopsDoes, SessionEndsDoes DEF Worker

-----------------------------------------------------------------------------
(* A worker keeps the invariant.                                           *)

LEMMA WorkerTypes ==
  ASSUME TypeInv, Writers, NEW i \in DOMAIN apps, Effect(i)
  PROVE  TypeInv'
  <1>1. Own(i) /\ UNCHANGED <<cfg, tray, dialog, lives, cable, heard>>
        /\ posted' \in BOOLEAN /\ queue' \in Nat /\ left' \in Nat
        /\ told' \in [Addrs -> SUBSET (Ids \cup {None})]
    BY DEF Effect, world
  <1>2. apps[i] \in App
    BY AppsIs
  <1>3. file' \in Config /\ (tray'.pc # "boot" => file' \in Clean) /\ bound' \in Ids \cup {None}
    <2>1. CASE Quiet(i) \/ Begins(i)
      BY <1>1, <2>1 DEF Quiet, Begins, TypeInv
    <2>2. CASE Cuts(i)
      BY <1>1, <2>2, DefaultsIs DEF Cuts, TypeInv
    <2>3. CASE Saves(i)
      <3>1. apps[i].mine \in Clean /\ apps[i].mine.link \in Ids \cup {None}
        BY <1>2 DEF App, Clean
      <3> QED BY <2>3, <3>1, CleanIsConfig DEF Saves
    <2> QED BY <2>1, <2>2, <2>3 DEF Effect
  <1>4. overlapped' \in BOOLEAN
    <2>1. CASE Quiet(i)
      BY <2>1 DEF Quiet
    <2>2. CASE Begins(i)
      BY <2>2, Zenon DEF Begins, Begin
    <2>3. CASE Cuts(i) \/ Saves(i)
      BY <2>3 DEF Cuts, Saves, TypeInv
    <2> QED BY <2>1, <2>2, <2>3 DEF Effect
  <1>5. ASSUME NEW j \in DOMAIN apps', apps'[j].work # "none" PROVE apps'[j].run
    <2>1. CASE j = i
      <3>1. apps[i].work # "none" /\ apps'[i].run = apps[i].run
        BY DEF Effect, Own
      <3>2. apps[i].run
        BY <3>1 DEF TypeInv
      <3> QED BY <2>1, <3>1, <3>2, Zenon
    <2>2. CASE j # i
      <3>1. j \in DOMAIN apps /\ apps'[j] = apps[j]
        BY <1>1, <2>2 DEF Own
      <3> QED BY <1>5, <3>1 DEF TypeInv
    <2> QED BY <2>1, <2>2
  <1>6. apps' \in Seq(App)
    BY <1>1 DEF Own
  <1> QED BY <1>1, <1>3, <1>4, <1>5, <1>6 DEF TypeInv

LEMMA WorkerAllStop ==
  ASSUME TypeInv, AllStop, NEW i \in DOMAIN apps, Effect(i)
  PROVE  AllStop'
  <1>1. Own(i) /\ tray' = tray /\ apps[i].work # "none"
    BY DEF Effect
  <1>2. tray.pc \notin {"boot", "rebuild"}
    BY <1>1, AppsIs DEF AllStop
  <1>3. DOMAIN apps' = DOMAIN apps
    BY <1>1 DEF Own
  <1>4. ASSUME tray.pc = "join" /\ tray.then = "rebuild", NEW j \in DOMAIN apps
        PROVE  apps'[j].work = "none" \/ \E k \in DOMAIN tray.join : tray.join[k] = j
    <2>1. j # i => apps'[j] = apps[j]
      BY <1>1 DEF Own
    <2> QED BY <1>1, <1>4, <2>1 DEF AllStop
  <1> QED BY <1>1, <1>2, <1>3, <1>4 DEF AllStop

LEMMA WorkerWriters ==
  ASSUME TypeInv, Writers, NEW i \in DOMAIN apps, Effect(i)
  PROVE  Writers'
  <1>1. Own(i) /\ tray' = tray /\ i # 0
    BY AppsIs DEF Effect
  <1>2. DOMAIN apps' = DOMAIN apps
    BY <1>1 DEF Own
  <1>3. open' \subseteq DOMAIN apps \cup {0} /\ (0 \in open' <=> 0 \in open)
        /\ (i \in open' <=> apps'[i].work \in Saving)
        /\ \A j \in DOMAIN apps : j # i => (j \in open' <=> j \in open)
    <2>1. CASE Quiet(i)
      BY <2>1 DEF Quiet, Writers
    <2>2. CASE Begins(i)
      BY <1>1, <2>2 DEF Begins, Begin, Writers
    <2>3. CASE Cuts(i)
      BY <2>3 DEF Cuts, Writers
    <2>4. CASE Saves(i)
      BY <1>1, <2>4 DEF Saves, Writers
    <2> QED BY <2>1, <2>2, <2>3, <2>4 DEF Effect
  <1>4. ASSUME NEW j \in DOMAIN apps PROVE j \in open' <=> apps'[j].work \in Saving
    <2>1. CASE j = i
      BY <1>3, <2>1
    <2>2. CASE j # i
      <3>1. apps'[j] = apps[j] /\ (j \in open' <=> j \in open)
        BY <1>1, <1>3, <2>2 DEF Own
      <3>2. j \in open <=> apps[j].work \in Saving
        BY DEF Writers
      <3> QED BY <3>1, <3>2
    <2> QED BY <2>1, <2>2
  <1>5. ASSUME ~overlapped' PROVE \A v, w \in open' : v = w
    <2>1. CASE Quiet(i)
      BY <1>5, <2>1 DEF Quiet, Writers
    <2>2. CASE Begins(i)
      <3>1. open = {} /\ open' = {i}
        BY <1>5, <2>2 DEF Begins, Begin
      <3> QED BY <3>1
    <2>3. CASE Cuts(i) \/ Saves(i)
      BY <1>5, <2>3 DEF Cuts, Saves, Writers
    <2> QED BY <2>1, <2>2, <2>3 DEF Effect
  <1> QED BY <1>1, <1>2, <1>3, <1>4, <1>5 DEF Writers

\* A worker that begins while nobody else is at it; one that is at it is alone.
LEMMA Alone ==
  ASSUME TypeInv, Writers, NEW i \in DOMAIN apps, Effect(i), ~overlapped'
  PROVE  /\ ~overlapped
         /\ Begins(i) => open = {} /\ open' = {i}
         /\ Cuts(i) => open = {i} /\ open' = {i}
         /\ Saves(i) => open = {i} /\ open' = {}
  <1>1. ~overlapped
    BY DEF Effect, Quiet, Begins, Begin, Cuts, Saves
  <1>2. Begins(i) => open = {} /\ open' = {i}
    BY DEF Begins, Begin
  <1>3. apps[i].work \in Saving => open = {i}
    BY <1>1 DEF Writers
  <1>4. Cuts(i) => open = {i} /\ open' = {i}
    BY <1>3 DEF Cuts
  <1>5. Saves(i) => open = {i} /\ open' = {}
    BY <1>3 DEF Saves
  <1> QED BY <1>1, <1>2, <1>4, <1>5

LEMMA WorkerLink ==
  ASSUME TypeInv, Writers, Link, NEW i \in DOMAIN apps, Effect(i)
  PROVE  Link'
  <1> SUFFICES ASSUME ~overlapped'
               PROVE  (open' = {} => file'.link = bound') /\ (0 \in open' => cfg'.link = bound')
    BY DEF Link
  <1>1. ~overlapped /\ cfg' = cfg /\ i # 0
    BY Alone, AppsIs DEF Effect
  <1>2. CASE Quiet(i)
    BY <1>1, <1>2 DEF Quiet, Link
  <1>3. CASE Begins(i) \/ Cuts(i)
    <2>1. open' = {i}
      BY <1>3, Alone
    <2> QED BY <1>1, <2>1
  <1>4. CASE Saves(i)
    <2>1. open' = {}
      BY <1>4, Alone
    <2> QED BY <1>4, <2>1 DEF Saves
  <1> QED BY <1>2, <1>3, <1>4 DEF Effect

LEMMA WorkerSame ==
  ASSUME TypeInv, AllStop, Writers, Same, NEW i \in DOMAIN apps, Effect(i)
  PROVE  Same'
  <1> SUFFICES ASSUME ~overlapped'
               PROVE  /\ open' = {} => file'.devs = cfg'.devs
                      /\ \A j \in DOMAIN apps' : j \in open' => apps'[j].mine.devs = cfg'.devs
    BY DEF Same
  <1>1. ~overlapped /\ cfg' = cfg /\ Own(i) /\ DOMAIN apps' = DOMAIN apps
    BY Alone DEF Effect, Own
  <1>2. tray.pc # "boot"
    BY DEF AllStop
  <1>3. /\ open = {} => file.devs = cfg.devs
        /\ \A j \in DOMAIN apps : j \in open => apps[j].mine.devs = cfg.devs
    BY <1>1, <1>2 DEF Same
  <1>4. CASE Quiet(i)
    <2>1. ASSUME NEW j \in DOMAIN apps, j \in open' PROVE apps'[j].mine.devs = cfg.devs
      <3>1. j # i
        BY <1>4, <2>1 DEF Quiet, Writers
      <3>2. apps'[j] = apps[j] /\ j \in open
        BY <1>1, <1>4, <2>1, <3>1 DEF Own, Quiet
      <3> QED BY <1>3, <3>2
    <2> QED BY <1>1, <1>3, <1>4, <2>1 DEF Quiet
  <1>5. CASE Begins(i)
    <2>1. open = {} /\ open' = {i}
      BY <1>5, Alone
    <2>2. Loaded(file).devs = file.devs
      BY <1>2, LoadedIs DEF TypeInv
    <2> QED BY <1>1, <1>3, <1>5, <2>1, <2>2 DEF Begins
  <1>6. CASE Cuts(i)
    <2>1. open = {i} /\ open' = {i}
      BY <1>6, Alone
    <2> QED BY <1>1, <1>3, <1>6, <2>1 DEF Cuts
  <1>7. CASE Saves(i)
    <2>1. open = {i} /\ open' = {}
      BY <1>7, Alone
    <2> QED BY <1>1, <1>3, <1>7, <2>1 DEF Saves
  <1> QED BY <1>4, <1>5, <1>6, <1>7 DEF Effect

LEMMA WorkerAligned ==
  ASSUME TypeInv, Writers, Aligned, OpenedRows, NEW i \in DOMAIN apps, Effect(i)
  PROVE  Aligned' /\ OpenedRows'
  <1>1. Own(i) /\ UNCHANGED <<cfg, tray, dialog>> /\ (overlapped => overlapped')
    BY Alone DEF Effect
  <1>2. DOMAIN apps' = DOMAIN apps /\ \A j \in DOMAIN apps : apps'[j].entry = apps[j].entry
    BY <1>1 DEF Own
  <1>3. Settled' <=> Settled
    BY <1>1 DEF Settled
  <1>4. Aligned'
    BY <1>1, <1>2, <1>3 DEF Aligned
  <1>5. OpenedRows'
    BY <1>1, <1>3 DEF OpenedRows
  <1> QED BY <1>4, <1>5

LEMMA WorkerLearned ==
  ASSUME TypeInv, AllStop, Writers, Same, Aligned, LearnedIds, NEW i \in DOMAIN apps, Effect(i)
  PROVE  LearnedIds'
  <1> SUFFICES ASSUME ~overlapped' PROVE LearnedIds'
    BY DEF LearnedIds
  <1>1. Own(i) /\ UNCHANGED <<cfg, tray, dialog>> /\ ~overlapped
        /\ \A a \in Addrs : told[a] \subseteq told'[a]
    BY Alone DEF Effect
  <1>2. /\ \A k \in DOMAIN cfg.devs : cfg.devs[k].hello => cfg.devs[k].id \in told[cfg.devs[k].addr]
        /\ \A k \in DOMAIN file.devs :
              file.devs[k].hello /\ file.devs[k].addr # Placeholder =>
                  file.devs[k].id \in told[file.devs[k].addr]
        /\ Settled =>
              \A j \in DOMAIN apps :
                 \/ apps[j].id = None
                 \/ apps[j].id \in told[apps[j].entry]
                 \/ ~cfg.devs[j].hello /\ cfg.devs[j].id = apps[j].id
    BY <1>1 DEF LearnedIds
  <1>3. ASSUME NEW k \in DOMAIN cfg.devs, cfg.devs[k].hello
        PROVE  cfg.devs[k].id \in told'[cfg.devs[k].addr]
    <2>1. cfg.devs[k].addr \in Addrs
      BY CfgIs DEF Device
    <2> QED BY <1>1, <1>2, <1>3, <2>1
  <1>4. ASSUME NEW k \in DOMAIN file'.devs, file'.devs[k].hello, file'.devs[k].addr # Placeholder
        PROVE  file'.devs[k].id \in told'[file'.devs[k].addr]
    <2>1. CASE Quiet(i) \/ Begins(i)
      <3>1. file' = file
        BY <2>1 DEF Quiet, Begins
      <3>2. file.devs[k] \in Entry
        BY <3>1 DEF TypeInv, Config
      <3>3. file.devs[k].addr \in Addrs
        BY <1>4, <3>1, <3>2 DEF Entry
      <3> QED BY <1>1, <1>2, <1>4, <3>1, <3>3
    <2>2. CASE Cuts(i)
      BY <1>4, <2>2, DefaultsIs DEF Cuts
    <2>3. CASE Saves(i)
      <3>1. file'.devs = cfg.devs
        <4>1. open = {i}
          BY <2>3, Alone
        <4>2. tray.pc # "boot"
          BY DEF AllStop
        <4> QED BY <1>1, <2>3, <4>1, <4>2 DEF Saves, Same
      <3> QED BY <1>3, <1>4, <3>1
    <2> QED BY <2>1, <2>2, <2>3 DEF Effect
  <1>5. ASSUME Settled, NEW j \in DOMAIN apps
        PROVE  \/ apps'[j].id = None
               \/ apps'[j].id \in told'[apps'[j].entry]
               \/ ~cfg.devs[j].hello /\ cfg.devs[j].id = apps'[j].id
    <2>1. apps[j].entry \in Addrs /\ apps'[j].entry = apps[j].entry
      BY <1>1, AppsIs DEF App, Own
    <2>2. apps'[j].id = apps[j].id \/ apps'[j].id \in told'[apps[j].entry]
      <3>1. CASE j = i
        BY <3>1 DEF Effect
      <3>2. CASE j # i
        BY <1>1, <3>2 DEF Own
      <3> QED BY <3>1, <3>2
    <2>3. \/ apps[j].id = None
          \/ apps[j].id \in told[apps[j].entry]
          \/ ~cfg.devs[j].hello /\ cfg.devs[j].id = apps[j].id
      BY <1>2, <1>5
    <2> QED BY <1>1, <2>1, <2>2, <2>3
  <1>6. DOMAIN apps' = DOMAIN apps /\ (Settled' <=> Settled)
    BY <1>1 DEF Own, Settled
  <1> QED BY <1>1, <1>3, <1>4, <1>5, <1>6 DEF LearnedIds

\* Only a worker that finds its address free goes to work.
LEMMA WorkerAlone ==
  ASSUME TypeInv, OneSender, NEW i \in DOMAIN apps, Effect(i)
  PROVE  OneSender'
  <1>1. Own(i) /\ (apps'[i].work \in Working => apps[i].work \in Working \/ ~LockTaken(i))
    BY DEF Effect
  <1>2. DOMAIN apps' = DOMAIN apps /\ \A j \in DOMAIN apps : apps'[j].addr = apps[j].addr
        /\ (j # i => apps'[j].work = apps[j].work)
    BY <1>1 DEF Own
  <1>3. ASSUME NEW j \in DOMAIN apps, j # i, apps'[i].work \in Working, apps'[j].work \in Working
        PROVE  apps[j].addr # apps[i].addr
    <2>1. apps[j].work \in Working
      BY <1>2, <1>3
    <2>2. CASE apps[i].work \in Working
      BY <1>3, <2>1, <2>2 DEF OneSender
    <2>3. CASE ~LockTaken(i)
      BY <1>3, <2>1, <2>3 DEF LockTaken
    <2> QED BY <1>1, <1>3, <2>2, <2>3
  <1>4. ASSUME NEW j \in DOMAIN apps, NEW k \in DOMAIN apps, j # k,
               apps'[j].work \in Working, apps'[k].work \in Working
        PROVE  apps'[j].addr # apps'[k].addr
    <2>1. CASE j = i
      BY <1>2, <1>3, <1>4, <2>1
    <2>2. CASE k = i
      BY <1>2, <1>3, <1>4, <2>2
    <2>3. CASE j # i /\ k # i
      BY <1>2, <1>4, <2>3 DEF OneSender
    <2> QED BY <2>1, <2>2, <2>3
  <1> QED BY <1>2, <1>4 DEF OneSender

-----------------------------------------------------------------------------
(* The tray, the user and the network.                                     *)

\* Settings is open after the step only with what it was opened with.
SteadyDialog == dialog'.open => dialog.open /\ dialog'.old = dialog.old /\ Settled'

\* Steps after which the file, the tray's list and the senders are as before,
\* but for what the senders do with the list's ids.
Steady ==
    /\ UNCHANGED <<file, cfg, disk, told>>
    /\ tray'.pc \in Saving <=> tray.pc \in Saving
    /\ tray'.pc # "boot" => tray.pc # "boot"
    /\ Settled' => Settled
    /\ SteadyDialog
    /\ DOMAIN apps' = DOMAIN apps
    /\ \A i \in DOMAIN apps :
          /\ apps'[i].entry = apps[i].entry /\ apps'[i].mine = apps[i].mine
          /\ apps'[i].work \in Saving <=> apps[i].work \in Saving
          /\ \/ apps'[i].id = apps[i].id
             \/ i \in DOMAIN cfg.devs /\ apps'[i].id = cfg.devs[i].id

LEMMA SameDialog ==
  ASSUME dialog' = dialog, dialog.open => Settled'
  PROVE  SteadyDialog
  BY Zenon DEF SteadyDialog

LEMMA SteadyKeeps ==
  ASSUME Inv, Steady
  PROVE  Writers' /\ Link' /\ Same' /\ Aligned' /\ OpenedRows' /\ LearnedIds'
  <1>1. /\ file' = file /\ cfg' = cfg /\ open' = open /\ overlapped' = overlapped
        /\ bound' = bound /\ told' = told /\ DOMAIN apps' = DOMAIN apps
    BY DEF Steady, disk
  <1>2. ASSUME NEW i \in DOMAIN apps
        PROVE  /\ apps'[i].entry = apps[i].entry /\ apps'[i].mine = apps[i].mine
               /\ apps'[i].work \in Saving <=> apps[i].work \in Saving
               /\ \/ apps'[i].id = apps[i].id
                  \/ i \in DOMAIN cfg.devs /\ apps'[i].id = cfg.devs[i].id
    BY DEF Steady
  <1>3. Writers'
    <2>1. 0 \in open <=> tray'.pc \in Saving
      BY DEF Steady, Inv, Files, Writers
    <2>2. ASSUME NEW i \in DOMAIN apps PROVE i \in open <=> apps'[i].work \in Saving
      BY <1>2 DEF Inv, Files, Writers
    <2>3. open \subseteq DOMAIN apps \cup {0} /\ (~overlapped => \A v, w \in open : v = w)
      BY DEF Inv, Files, Writers
    <2> QED BY <1>1, <2>1, <2>2, <2>3 DEF Writers
  <1>4. Link'
    BY <1>1 DEF Inv, Files, Link
  <1>5. Same'
    <2> SUFFICES ASSUME ~overlapped, tray'.pc # "boot"
                 PROVE  /\ open = {} => file.devs = cfg.devs
                        /\ \A i \in DOMAIN apps : i \in open => apps'[i].mine.devs = cfg.devs
      BY <1>1 DEF Same
    <2>1. /\ open = {} => file.devs = cfg.devs
          /\ \A i \in DOMAIN apps : i \in open => apps[i].mine.devs = cfg.devs
      BY DEF Inv, Same, Steady
    <2> QED BY <1>2, <2>1
  <1>6. Aligned'
    <2> SUFFICES ASSUME ~overlapped, Settled'
                 PROVE  /\ DOMAIN apps = DOMAIN cfg.devs
                        /\ \A i \in DOMAIN apps : apps'[i].entry = cfg.devs[i].addr
      BY <1>1 DEF Aligned
    <2>1. Settled
      BY DEF Steady
    <2> QED BY <1>2, <2>1 DEF Inv, Aligned
  <1>7. OpenedRows'
    <2>1. dialog'.open => Settled' /\ dialog.open /\ dialog'.old = dialog.old
      BY DEF Steady, SteadyDialog
    <2> QED BY <1>1, <2>1 DEF Inv, OpenedRows
  <1>8. LearnedIds'
    <2> SUFFICES ASSUME ~overlapped PROVE LearnedIds'
      BY <1>1 DEF LearnedIds
    <2>1. /\ \A k \in DOMAIN cfg.devs : cfg.devs[k].hello => cfg.devs[k].id \in told[cfg.devs[k].addr]
          /\ \A k \in DOMAIN file.devs :
                file.devs[k].hello /\ file.devs[k].addr # Placeholder =>
                    file.devs[k].id \in told[file.devs[k].addr]
      BY DEF Inv, LearnedIds
    <2>2. ASSUME Settled', NEW i \in DOMAIN apps
          PROVE  \/ apps'[i].id = None
                 \/ apps'[i].id \in told[apps'[i].entry]
                 \/ ~cfg.devs[i].hello /\ cfg.devs[i].id = apps'[i].id
      <3>1. Settled
        BY <2>2 DEF Steady
      <3>2. /\ apps[i].entry = cfg.devs[i].addr /\ i \in DOMAIN cfg.devs
            /\ \/ apps[i].id = None
               \/ apps[i].id \in told[apps[i].entry]
               \/ ~cfg.devs[i].hello /\ cfg.devs[i].id = apps[i].id
        BY <3>1 DEF Inv, Aligned, LearnedIds
      <3>3. CASE apps'[i].id = apps[i].id
        BY <1>2, <3>2, <3>3
      <3>4. CASE apps'[i].id = cfg.devs[i].id
        <4>1. CASE cfg.devs[i].hello
          BY <1>2, <2>1, <3>2, <3>4, <4>1
        <4>2. CASE ~cfg.devs[i].hello
          BY <3>4, <4>2
        <4> QED BY <4>1, <4>2
      <3> QED BY <1>2, <3>3, <3>4
    <2> QED BY <1>1, <2>1, <2>2 DEF LearnedIds
  <1> QED BY <1>3, <1>4, <1>5, <1>6, <1>7, <1>8

\* The tray's places.
LEMMA GotoIs ==
  ASSUME TypeInv, NEW p \in PCs, Goto(p)
  PROVE  tray' \in Tray /\ tray'.pc = p /\ tray'.join = tray.join /\ tray'.then = tray.then
  BY DEF TypeInv, Tray, Goto

LEMMA StopAllIs ==
  ASSUME TypeInv, NEW t \in {"update", "rebuild", "over"}, StopAll(t)
  PROVE  /\ tray' \in Tray /\ tray'.pc = "join" /\ tray'.then = t
         /\ DOMAIN tray'.join = DOMAIN apps
         /\ \A k \in DOMAIN tray'.join : tray'.join[k] = k
  <1> DEFINE j == [i \in 1 .. Len(apps) |-> i]
  <1>1. tray' = [pc |-> "join", join |-> j, then |-> t]
    BY DEF StopAll
  <1>2. DOMAIN apps = 1 .. Len(apps) /\ Len(apps) \in Nat
    BY AppsIs
  <1>3. j \in [1 .. Len(apps) -> Nat]
    OBVIOUS
  <1>4. j \in Seq(Nat)
    BY <1>2, <1>3, FunctionIsSeq
  <1>5. DOMAIN j = DOMAIN apps /\ \A k \in DOMAIN j : j[k] = k
    BY <1>2
  <1> HIDE DEF j
  <1> QED BY <1>1, <1>4, <1>5 DEF Tray, PCs

LEMMA TrayIs ==
  ASSUME TypeInv
  PROVE  tray \in Tray /\ tray.pc \in PCs /\ tray.join \in Seq(Nat)
         /\ tray.then \in {"idle", "update", "rebuild", "restart", "over"}
  BY DEF TypeInv, Tray

\* SenderApp::Start.
LEMMA StartedIs ==
  ASSUME TypeInv, NEW i \in DOMAIN apps, NEW e \in Device
  PROVE  LET b == Started(apps[i], e)
         IN  /\ b \in App /\ b.entry = apps[i].entry /\ b.mine = apps[i].mine
             /\ b.work # "none" => b.run
             /\ b.id = apps[i].id \/ b.id = e.id
             /\ b = apps[i] \/ (apps[i].work = "none" /\ b.work = "lock")
  <1>1. apps[i] \in App
    BY AppsIs
  <1>2. CASE apps[i].run
    BY <1>1, <1>2 DEF Started
  <1>3. CASE ~apps[i].run
    <2> DEFINE r == Resolved(e)
               f == IdFollowsHello(e)
               b == [apps[i] EXCEPT !.addr = r, !.run = TRUE, !.id = e.id, !.follows = f,
                                    !.work = "lock"]
    <2>1. r \in Addrs
      <3>1. CASE e.id # None /\ heard[e.id] # None
        <4>1. e.id \in Ids
          BY <3>1 DEF Device
        <4> QED BY <3>1, <4>1 DEF Resolved, TypeInv
      <3>2. CASE ~(e.id # None /\ heard[e.id] # None)
        BY <3>2 DEF Resolved, Device
      <3> QED BY <3>1, <3>2
    <2>2. f \in BOOLEAN
      BY Zenon DEF IdFollowsHello, Device
    <2>3. e.id \in Ids \cup {None}
      BY DEF Device
    <2>4. Started(apps[i], e) = b
      BY <1>3 DEF Started
    <2>5. apps[i].work = "none"
      BY <1>3 DEF TypeInv
    <2> HIDE DEF r, f
    <2>6. b \in App
      BY <1>1, <2>1, <2>2, <2>3 DEF App
    <2>7. b.entry = apps[i].entry /\ b.mine = apps[i].mine /\ b.id = e.id /\ b.work = "lock"
      BY <1>1 DEF App
    <2>8. b.run = TRUE
      BY <1>1 DEF App
    <2> HIDE DEF b
    <2> QED BY <2>4, <2>5, <2>6, <2>7, <2>8
  <1> QED BY <1>2, <1>3

LEMMA StillAlone ==
  ASSUME OneSender, DOMAIN apps' = DOMAIN apps,
         \A i \in DOMAIN apps : apps'[i].work \in Working => apps'[i] = apps[i]
  PROVE  OneSender'
  BY DEF OneSender

\* Only the tray's place, the status and the icon change.
LEMMA PassingKeeps ==
  ASSUME Inv, OneSender, UNCHANGED <<cfg, apps, dialog, world, disk, told>>, tray' \in Tray,
         posted' \in BOOLEAN, queue' \in Nat, left' \in Nat,
         tray.pc \notin Saving, tray'.pc \notin Saving, Settled, Settled', tray'.pc # "boot",
         tray'.pc = "join" =>
            /\ tray'.then \in {"update", "rebuild", "over"}
            /\ \A k \in DOMAIN tray'.join : tray'.join[k] \in DOMAIN apps
  PROVE  Inv' /\ OneSender'
  <1>1. Steady
    <2>1. SteadyDialog
      BY SameDialog
    <2> QED BY <2>1 DEF Steady, Settled, disk
  <1>2. TypeInv'
    BY DEF Inv, Files, TypeInv, world, disk, Settled
  <1>3. AllStop'
    BY DEF Settled, AllStop, Saving
  <1>4. OneSender'
    BY DEF OneSender
  <1> QED BY <1>1, <1>2, <1>3, <1>4, SteadyKeeps DEF Inv, Files

LEMMA UpdateKeeps ==
  ASSUME Inv, OneSender, Update
  PROVE  Inv' /\ OneSender'
  <1>1. TypeInv /\ tray.pc = "update" /\ Goto("idle")
        /\ UNCHANGED <<cfg, apps, dialog, status, world, disk, told, left>>
    BY DEF Inv, Files, Update
  <1>2. tray' \in Tray /\ tray'.pc = "idle"
    BY <1>1, GotoIs DEF PCs
  <1>3. posted' \in BOOLEAN /\ queue' \in Nat /\ left' \in Nat
    BY <1>1, NotifyIs DEF TypeInv
  <1> QED BY <1>1, <1>2, <1>3, PassingKeeps DEF Settled, Saving

LEMMA TakeStatusKeeps ==
  ASSUME Inv, OneSender, TakeStatus
  PROVE  Inv' /\ OneSender'
  <1>1. TypeInv /\ tray.pc = "idle" /\ Goto("learn") /\ queue > 0 /\ queue' = queue - 1
        /\ posted' = FALSE /\ UNCHANGED <<cfg, apps, dialog, world, disk, told, left>>
    BY DEF Inv, Files, TakeStatus, StatusMessageHandled
  <1>2. tray' \in Tray /\ tray'.pc = "learn"
    BY <1>1, GotoIs DEF PCs
  <1>3. posted' \in BOOLEAN /\ queue' \in Nat /\ left' \in Nat
    <2>1. posted' \in BOOLEAN
      BY <1>1, Zenon
    <2> QED BY <1>1, <2>1 DEF TypeInv
  <1> QED BY <1>1, <1>2, <1>3, PassingKeeps DEF Settled, Saving

LEMMA QuitKeeps ==
  ASSUME Inv, OneSender, Quit
  PROVE  Inv' /\ OneSender'
  <1>1. TypeInv /\ tray.pc = "idle" /\ StopAll("over") /\ left > 0 /\ left' = left - 1
        /\ UNCHANGED <<cfg, apps, dialog, status, world, disk, told>>
    BY DEF Inv, Files, Quit, Hiccup
  <1>2. /\ tray' \in Tray /\ tray'.pc = "join" /\ tray'.then = "over"
        /\ \A k \in DOMAIN tray'.join : tray'.join[k] \in DOMAIN apps
    BY <1>1, StopAllIs
  <1>3. posted' \in BOOLEAN /\ queue' \in Nat /\ left' \in Nat
    BY <1>1, NotifyIs DEF TypeInv
  <1> QED BY <1>1, <1>2, <1>3, PassingKeeps DEF Settled, Saving

\* Senders that are not running are started; the tray goes on.
LEMMA StartingKeeps ==
  ASSUME Inv, OneSender, UNCHANGED <<cfg, dialog, status, world, disk, told>>, left' \in Nat,
         tray.pc \in {"start", "idle"}, Goto("update"),
         apps' \in Seq(App), DOMAIN apps' = DOMAIN apps,
         \A i \in DOMAIN apps :
            \/ apps'[i] = apps[i]
            \/ i \in DOMAIN cfg.devs /\ apps'[i] = Started(apps[i], cfg.devs[i])
  PROVE  Inv' /\ OneSender'
  <1>1. TypeInv
    BY DEF Inv, Files
  <1>2. tray' \in Tray /\ tray'.pc = "update" /\ tray'.join = tray.join
    BY <1>1, GotoIs DEF PCs
  <1>3. ASSUME NEW i \in DOMAIN apps
        PROVE  /\ apps'[i].entry = apps[i].entry /\ apps'[i].mine = apps[i].mine
               /\ apps'[i].work # "none" => apps'[i].run
               /\ \/ apps'[i].id = apps[i].id
                  \/ i \in DOMAIN cfg.devs /\ apps'[i].id = cfg.devs[i].id
               /\ apps'[i] = apps[i] \/ (apps[i].work = "none" /\ apps'[i].work = "lock")
    <2>1. CASE apps'[i] = apps[i]
      <3>1. apps[i].work # "none" => apps[i].run
        BY <1>1 DEF TypeInv
      <3> QED BY <2>1, <3>1
    <2>2. CASE i \in DOMAIN cfg.devs /\ apps'[i] = Started(apps[i], cfg.devs[i])
      <3>1. cfg.devs[i] \in Device
        BY <1>1, <2>2, CfgIs
      <3> QED BY <1>1, <2>2, <3>1, StartedIs
    <2> QED BY <2>1, <2>2
  <1>8. SteadyDialog
    BY <1>2, SameDialog DEF Settled, Saving
  <1>4. Steady
    BY <1>2, <1>3, <1>8 DEF Steady, Settled, Saving, disk
  <1>5. TypeInv'
    <2>1. posted' \in BOOLEAN /\ queue' \in Nat
      BY <1>1, NotifyIs DEF TypeInv
    <2> QED BY <1>1, <1>2, <1>3, <2>1 DEF TypeInv, world, disk
  <1>6. AllStop'
    BY <1>2 DEF AllStop, Saving
  <1>7. OneSender'
    BY <1>3, StillAlone DEF Working
  <1> QED BY <1>4, <1>5, <1>6, <1>7, SteadyKeeps DEF Inv, Files

LEMMA StartAllKeeps ==
  ASSUME Inv, OneSender, StartAll
  PROVE  Inv' /\ OneSender'
  <1>1. TypeInv /\ tray.pc = "start" /\ Goto("update") /\ apps' = StartedAll
        /\ UNCHANGED <<cfg, dialog, status, world, disk, told, left>>
    BY DEF Inv, Files, StartAll
  <1>2. DOMAIN apps = 1 .. Len(apps) /\ Len(apps) \in Nat /\ left' \in Nat
    BY <1>1, AppsIs DEF TypeInv
  <1>3. ASSUME NEW i \in DOMAIN apps
        PROVE  /\ apps'[i] \in App
               /\ \/ apps'[i] = apps[i]
                  \/ i \in DOMAIN cfg.devs /\ apps'[i] = Started(apps[i], cfg.devs[i])
    <2>1. CASE i \in DOMAIN cfg.devs
      <3>1. apps'[i] = Started(apps[i], cfg.devs[i])
        BY <1>1, <2>1 DEF StartedAll
      <3>2. cfg.devs[i] \in Device
        BY <1>1, <2>1, CfgIs
      <3> QED BY <1>1, <2>1, <3>1, <3>2, StartedIs
    <2>2. CASE i \notin DOMAIN cfg.devs
      BY <1>1, <2>2, AppsIs DEF StartedAll
    <2> QED BY <2>1, <2>2
  <1>4. DOMAIN apps' = DOMAIN apps /\ apps' \in [1 .. Len(apps) -> App]
    <2>1. apps' = [i \in DOMAIN apps |-> apps'[i]]
      BY <1>1 DEF StartedAll
    <2> QED BY <1>2, <1>3, <2>1
  <1>5. apps' \in Seq(App)
    BY <1>2, <1>4, FunctionIsSeq
  <1> QED BY <1>1, <1>2, <1>3, <1>4, <1>5, StartingKeeps

LEMMA CommandKeeps ==
  ASSUME Inv, OneSender, Command
  PROVE  Inv' /\ OneSender'
  <1>1. TypeInv /\ tray.pc = "idle" /\ left > 0 /\ left' = left - 1
        /\ UNCHANGED <<cfg, dialog, status, world, disk, told>>
    BY DEF Inv, Files, Command, Hiccup
  <1>2. posted' \in BOOLEAN /\ queue' \in Nat /\ left' \in Nat
    BY <1>1, NotifyIs DEF TypeInv
  <1>3. CASE Goto("start") /\ apps' = apps
    <2>1. tray' \in Tray /\ tray'.pc = "start"
      BY <1>1, <1>3, GotoIs DEF PCs
    <2> QED BY <1>1, <1>2, <1>3, <2>1, PassingKeeps DEF Settled, Saving
  <1>4. CASE StopAll("update") /\ apps' = apps
    <2>1. /\ tray' \in Tray /\ tray'.pc = "join" /\ tray'.then = "update"
          /\ \A k \in DOMAIN tray'.join : tray'.join[k] \in DOMAIN apps
      BY <1>1, <1>4, StopAllIs
    <2> QED BY <1>1, <1>2, <1>4, <2>1, PassingKeeps DEF Settled, Saving
  <1>5. ASSUME NEW i \in DOMAIN apps \cap DOMAIN cfg.devs,
               tray' = [pc |-> "join", join |-> <<i>>, then |-> "update"], apps' = apps
        PROVE  Inv' /\ OneSender'
    <2>1. <<i>> \in Seq(Nat) /\ DOMAIN <<i>> = {1} /\ <<i>>[1] = i
      BY <1>1, AppsIs
    <2>2. /\ tray' \in Tray /\ tray'.pc = "join" /\ tray'.then = "update" /\ tray'.join = <<i>>
      BY <1>5, <2>1 DEF Tray, PCs
    <2>3. \A k \in DOMAIN tray'.join : tray'.join[k] \in DOMAIN apps
      BY <2>1, <2>2
    <2> QED BY <1>1, <1>2, <1>5, <2>2, <2>3, PassingKeeps DEF Settled, Saving
  <1>6. ASSUME NEW i \in DOMAIN apps \cap DOMAIN cfg.devs,
               apps' = Upd(apps, i, Started(apps[i], cfg.devs[i])), Goto("update")
        PROVE  Inv' /\ OneSender'
    <2>1. Started(apps[i], cfg.devs[i]) \in App
      <3>1. cfg.devs[i] \in Device
        BY <1>1, CfgIs
      <3> QED BY <1>1, <3>1, StartedIs
    <2>2. /\ apps' \in Seq(App) /\ DOMAIN apps' = DOMAIN apps
          /\ apps'[i] = Started(apps[i], cfg.devs[i])
          /\ \A j \in DOMAIN apps : j # i => apps'[j] = apps[j]
      <3>1. apps \in Seq(App)
        BY <1>1 DEF TypeInv
      <3> QED BY <1>6, <2>1, <3>1, Put
    <2>3. ASSUME NEW j \in DOMAIN apps
          PROVE  \/ apps'[j] = apps[j]
                 \/ j \in DOMAIN cfg.devs /\ apps'[j] = Started(apps[j], cfg.devs[j])
      BY <2>2
    <2> QED BY <1>1, <1>2, <1>6, <2>2, <2>3, StartingKeeps
  <1> QED BY <1>3, <1>4, <1>5, <1>6 DEF Command

LEMMA JoinKeeps ==
  ASSUME Inv, OneSender, Join
  PROVE  Inv' /\ OneSender'
  <1>1. TypeInv /\ tray.pc = "join" /\ UNCHANGED <<cfg, dialog, world, disk, told, left>>
        /\ tray.then \in {"update", "rebuild", "over"}
        /\ \A k \in DOMAIN tray.join : tray.join[k] \in DOMAIN apps
    BY DEF Inv, Files, AllStop, Join
  <1>2. CASE tray.join = <<>>
    <2>1. Goto(tray.then) /\ UNCHANGED <<apps, status>>
      BY <1>2 DEF Join
    <2>2. tray' \in Tray /\ tray'.pc = tray.then
      BY <1>1, <2>1, GotoIs DEF PCs
    <2>3. Steady
      <3>1. Settled' => Settled
        BY <1>1, <2>2 DEF Settled, Saving
      <3>2. SteadyDialog
        <4>1. dialog.open => Settled
          BY DEF Inv, OpenedRows
        <4>2. Settled => Settled'
          BY <1>1, <2>2 DEF Settled, Saving
        <4> QED BY <1>1, <4>1, <4>2, SameDialog
      <3> QED BY <1>1, <2>1, <2>2, <3>1, <3>2 DEF Steady, Saving, disk
    <2>4. TypeInv'
      BY <1>1, <2>1, <2>2 DEF TypeInv, world, disk, status
    <2>5. AllStop'
      <3>1. ASSUME tray.then = "rebuild", NEW i \in DOMAIN apps PROVE apps[i].work = "none"
        BY <1>1, <1>2, <3>1 DEF Inv, Files, AllStop
      <3> QED BY <1>1, <2>1, <2>2, <3>1 DEF AllStop, Saving
    <2>6. OneSender'
      BY <2>1 DEF OneSender
    <2> QED BY <2>3, <2>4, <2>5, <2>6, SteadyKeeps DEF Inv, Files
  <1>3. CASE tray.join # <<>>
    <2> DEFINE i == Head(tray.join)
               b == [apps[i] EXCEPT !.run = FALSE, !.work = "none"]
               t == [tray EXCEPT !.join = Tail(tray.join)]
    <2>1. apps[i].work \in {"none", "ended"} /\ SetState(i, b, "idle") /\ tray' = t
      BY <1>3 DEF Join
    <2>2. tray \in Tray /\ tray.join \in Seq(Nat)
      BY <1>1, TrayIs
    <2>3. /\ tray' \in Tray /\ tray'.pc = "join" /\ tray'.then = tray.then
          /\ tray'.join = Tail(tray.join)
      <3>1. Tail(tray.join) \in Seq(Nat)
        BY <1>3, <2>2
      <3> QED BY <1>1, <2>1, <2>2, <3>1 DEF Tray
    <2>4. i \in DOMAIN apps /\ i = tray.join[1] /\ 1 \in DOMAIN tray.join
      <3>1. Len(tray.join) > 0
        BY <1>3, <2>2
      <3> QED BY <1>1, <2>2, <3>1
    <2>5. \A k \in DOMAIN Tail(tray.join) :
             k + 1 \in DOMAIN tray.join /\ Tail(tray.join)[k] = tray.join[k + 1]
      BY <1>3, <2>2
    <2>6. \A k \in DOMAIN tray.join :
             k # 1 => k - 1 \in DOMAIN Tail(tray.join) /\ Tail(tray.join)[k - 1] = tray.join[k]
      BY <1>3, <2>2
    <2> HIDE DEF i, b
    <2>7. apps[i] \in App
      BY <1>1, <2>4, AppsIs
    <2> DEFINE c == [b EXCEPT !.st = "idle"]
    <2>8. c \in App /\ c.entry = apps[i].entry /\ c.mine = apps[i].mine /\ c.id = apps[i].id
          /\ c.work = "none"
      BY <2>7 DEF b, App
    <2>9. apps' = Upd(apps, i, c) /\ posted' \in BOOLEAN /\ queue' \in Nat
      BY <1>1, <2>1, NotifyIs DEF SetState, TypeInv
    <2> HIDE DEF c
    <2>10. /\ apps' \in Seq(App) /\ DOMAIN apps' = DOMAIN apps /\ apps'[i] = c
           /\ \A j \in DOMAIN apps : j # i => apps'[j] = apps[j]
      <3>1. apps \in Seq(App)
        BY <1>1 DEF TypeInv
      <3>2. c \in App /\ i \in DOMAIN apps
        BY <2>4, <2>8
      <3>3. /\ Upd(apps, i, c) \in Seq(App) /\ DOMAIN Upd(apps, i, c) = DOMAIN apps
            /\ Upd(apps, i, c)[i] = c /\ \A j \in DOMAIN apps : j # i => Upd(apps, i, c)[j] = apps[j]
        BY <3>1, <3>2, Put
      <3> QED BY <2>9, <3>3, Zenon
    <2>11. ASSUME NEW j \in DOMAIN apps
           PROVE  /\ apps'[j].entry = apps[j].entry /\ apps'[j].mine = apps[j].mine
                  /\ apps'[j].id = apps[j].id
                  /\ apps'[j].work \in Saving <=> apps[j].work \in Saving
                  /\ apps'[j].work # "none" => apps'[j] = apps[j]
      <3>1. CASE j = i
        BY <2>1, <2>8, <2>10, <3>1 DEF Saving
      <3>2. CASE j # i
        BY <2>10, <3>2
      <3> QED BY <3>1, <3>2
    <2>12. Steady
      <3>1. Settled' <=> Settled
        BY <1>1, <2>3 DEF Settled
      <3>2. SteadyDialog
        <4>1. dialog.open => Settled
          BY DEF Inv, OpenedRows
        <4> QED BY <1>1, <3>1, <4>1, SameDialog
      <3> QED BY <1>1, <2>3, <2>10, <2>11, <3>1, <3>2 DEF Steady, disk
    <2>13. TypeInv'
      <3>1. ASSUME NEW j \in DOMAIN apps, apps'[j].work # "none" PROVE apps'[j].run
        BY <1>1, <2>11, <3>1 DEF TypeInv
      <3> QED BY <1>1, <2>3, <2>9, <2>10, <3>1 DEF TypeInv, world, disk
    <2>14. AllStop'
      <3>1. \A k \in DOMAIN tray'.join : tray'.join[k] \in DOMAIN apps
        BY <1>1, <2>3, <2>5
      <3>2. ASSUME tray.then = "rebuild", NEW j \in DOMAIN apps, apps'[j].work # "none"
            PROVE  \E k \in DOMAIN Tail(tray.join) : Tail(tray.join)[k] = j
        <4>1. j # i /\ apps[j].work # "none"
          BY <2>8, <2>10, <2>11, <3>2
        <4>2. PICK k \in DOMAIN tray.join : tray.join[k] = j
          BY <1>1, <3>2, <4>1 DEF Inv, Files, AllStop
        <4>3. k # 1
          BY <2>4, <4>1, <4>2
        <4> QED BY <2>6, <4>2, <4>3
      <3> QED BY <1>1, <2>3, <2>10, <3>1, <3>2 DEF AllStop, Saving
    <2>15. OneSender'
      BY <2>10, <2>11, StillAlone DEF Working
    <2> QED BY <2>12, <2>13, <2>14, <2>15, SteadyKeeps DEF Inv, Files
  <1> QED BY <1>2, <1>3

\* What happens around the tray: nothing moves but the world, the dialog's
\* rows and the status.
LEMMA StayKeeps ==
  ASSUME Inv, OneSender, UNCHANGED <<cfg, apps, tray, disk, told>>, SteadyDialog,
         dialog' \in Dialog, posted' \in BOOLEAN, queue' \in Nat, left' \in Nat,
         lives' \in [Addrs -> Ids \cup {None}], cable' \in Ids,
         heard' \in [Ids -> Addrs \cup {None}]
  PROVE  Inv' /\ OneSender'
  <1>1. Steady
    BY DEF Steady, Settled, disk
  <1>2. TypeInv'
    BY DEF Inv, Files, TypeInv, disk
  <1>3. AllStop'
    BY DEF Inv, Files, AllStop
  <1>4. OneSender'
    BY DEF OneSender
  <1> QED BY <1>1, <1>2, <1>3, <1>4, SteadyKeeps DEF Inv, Files

LEMMA ClosedIs == Closed \in Dialog /\ Closed.open = FALSE
  BY DEF Closed, Dialog

LEMMA NetworkKeeps ==
  ASSUME Inv, OneSender,
         Reinstalled \/ \E id \in Ids : Hears(id) \/ \E a \in Addrs : Moves(id, a)
  PROVE  Inv' /\ OneSender'
  <1>1. TypeInv /\ (dialog.open => Settled)
    BY DEF Inv, Files, OpenedRows
  <1>2. ASSUME UNCHANGED <<tray, dialog>> PROVE SteadyDialog
    BY <1>1, <1>2, SameDialog DEF Settled
  <1>3. CASE Reinstalled
    <2>1. UNCHANGED <<cfg, apps, tray, dialog, status, lives, heard, disk, told>>
          /\ cable' \in Ids /\ left > 0 /\ left' = left - 1
      BY <1>3 DEF Reinstalled, Hiccup
    <2>2. posted' \in BOOLEAN /\ queue' \in Nat /\ left' \in Nat
      BY <1>1, <2>1, NotifyIs DEF TypeInv
    <2> QED BY <1>1, <1>2, <2>1, <2>2, StayKeeps DEF TypeInv
  <1>4. ASSUME NEW id \in Ids, Hears(id) PROVE Inv' /\ OneSender'
    <2>1. UNCHANGED <<cfg, apps, tray, dialog, posted, lives, cable, disk, told>>
          /\ queue' = queue + 1 /\ left > 0 /\ left' = left - 1
      BY <1>4 DEF Hears, Hiccup
    <2>2. heard' \in [Ids -> Addrs \cup {None}]
      BY <1>1, <1>4 DEF Hears, Upd, TypeInv
    <2>3. posted' \in BOOLEAN /\ queue' \in Nat /\ left' \in Nat
      BY <1>1, <2>1 DEF TypeInv
    <2> QED BY <1>1, <1>2, <2>1, <2>2, <2>3, StayKeeps DEF TypeInv
  <1>5. ASSUME NEW id \in Ids, NEW a \in Addrs, Moves(id, a) PROVE Inv' /\ OneSender'
    <2>1. UNCHANGED <<cfg, apps, tray, dialog, status, cable, heard, disk, told>>
          /\ left > 0 /\ left' = left - 1
      BY <1>5 DEF Moves, Hiccup
    <2>2. lives' \in [Addrs -> Ids \cup {None}]
      BY <1>1, <1>5 DEF Moves, TypeInv
    <2>3. posted' \in BOOLEAN /\ queue' \in Nat /\ left' \in Nat
      BY <1>1, <2>1, NotifyIs DEF TypeInv
    <2> QED BY <1>1, <1>2, <2>1, <2>2, <2>3, StayKeeps DEF TypeInv
  <1> QED BY <1>3, <1>4, <1>5

LEMMA CancelKeeps ==
  ASSUME Inv, OneSender, CancelSettings
  PROVE  Inv' /\ OneSender'
  <1>1. TypeInv /\ dialog' = Closed
        /\ UNCHANGED <<cfg, apps, tray, status, world, disk, told, left>>
    BY DEF Inv, Files, CancelSettings
  <1>2. SteadyDialog /\ dialog' \in Dialog
    BY <1>1, ClosedIs DEF SteadyDialog
  <1>3. posted' \in BOOLEAN /\ queue' \in Nat
    BY <1>1, NotifyIs DEF TypeInv
  <1> QED BY <1>1, <1>2, <1>3, StayKeeps DEF TypeInv, world

\* The rows and the ids pending for their addresses.
LEMMA EditIs ==
  ASSUME TypeInv, NEW r \in Seq(Addrs), NEW p \in [Addrs -> Ids \cup {None}],
         dialog' = [dialog EXCEPT !.rows = r, !.pending = p]
  PROVE  dialog' \in Dialog /\ (dialog'.open <=> dialog.open) /\ dialog'.old = dialog.old
  <1>1. dialog \in Dialog
    BY DEF TypeInv
  <1> QED BY <1>1 DEF Dialog

LEMMA EditKeeps ==
  ASSUME Inv, OneSender, EditSettings
  PROVE  Inv' /\ OneSender'
  <1>1. TypeInv /\ tray.pc = "idle" /\ left > 0 /\ left' = left - 1
        /\ UNCHANGED <<cfg, apps, tray, status, world, disk, told>>
    BY DEF Inv, Files, EditSettings, Hiccup
  <1>2. /\ dialog \in Dialog /\ dialog.rows \in Seq(Addrs)
        /\ dialog.pending \in [Addrs -> Ids \cup {None}]
    BY <1>1 DEF TypeInv, Dialog
  <1>3. \E r \in Seq(Addrs), p \in [Addrs -> Ids \cup {None}] :
           dialog' = [dialog EXCEPT !.rows = r, !.pending = p]
    <2>1. ASSUME NEW a \in Addrs, AddNearby(a)
          PROVE  \E r \in Seq(Addrs), p \in [Addrs -> Ids \cup {None}] :
                    dialog' = [dialog EXCEPT !.rows = r, !.pending = p]
      <3> DEFINE l == lives[a]
      <3>1. l \in Ids \cup {None}
        BY <1>1 DEF TypeInv
      <3>2. CASE a \in Rows
        <4> DEFINE p == [dialog.pending EXCEPT ![a] = IF @ = None THEN l ELSE @]
        <4>1. p \in [Addrs -> Ids \cup {None}]
          <5> HIDE DEF l
          <5> QED BY <1>2, <3>1
        <4>2. dialog' = [dialog EXCEPT !.pending = p]
          BY <2>1, <3>2 DEF AddNearby
        <4> HIDE DEF p
        <4>3. dialog' = [dialog EXCEPT !.rows = dialog.rows, !.pending = p]
          BY <1>2, <4>2 DEF Dialog
        <4> QED BY <1>2, <4>1, <4>3
      <3>3. CASE a \notin Rows
        <4> DEFINE p == [dialog.pending EXCEPT ![a] = l]
                   r == Append(dialog.rows, a)
        <4>1. p \in [Addrs -> Ids \cup {None}] /\ r \in Seq(Addrs)
          <5> HIDE DEF l
          <5> QED BY <1>2, <3>1
        <4>2. dialog' = [dialog EXCEPT !.rows = r, !.pending = p]
          BY <2>1, <3>3 DEF AddNearby
        <4> HIDE DEF p, r
        <4> QED BY <4>1, <4>2
      <3> QED BY <3>2, <3>3
    <2>2. ASSUME NEW r \in Seq(Addrs), dialog' = [dialog EXCEPT !.rows = r]
          PROVE  \E q \in Seq(Addrs), p \in [Addrs -> Ids \cup {None}] :
                    dialog' = [dialog EXCEPT !.rows = q, !.pending = p]
      <3>1. dialog' = [dialog EXCEPT !.rows = r, !.pending = dialog.pending]
        BY <1>2, <2>2 DEF Dialog
      <3> QED BY <1>2, <3>1
    <2>3. ASSUME NEW a \in Addrs, TypeIn(a)
          PROVE  \E r \in Seq(Addrs) : dialog' = [dialog EXCEPT !.rows = r]
      <3>1. Append(dialog.rows, a) \in Seq(Addrs)
        BY <1>2
      <3> QED BY <2>3, <3>1 DEF TypeIn
    <2>4. ASSUME NEW i \in DOMAIN dialog.rows, RemoveRow(i)
          PROVE  \E r \in Seq(Addrs) : dialog' = [dialog EXCEPT !.rows = r]
      <3> DEFINE r == SubSeq(dialog.rows, 1, i - 1) \o SubSeq(dialog.rows, i + 1, Len(dialog.rows))
      <3>1. r \in Seq(Addrs)
        <4>1. i \in 1 .. Len(dialog.rows) /\ Len(dialog.rows) \in Nat
          BY <1>2
        <4>2. SubSeq(dialog.rows, 1, i - 1) \in Seq(Addrs)
          BY <1>2, <4>1, SubSeqProperties
        <4>3. SubSeq(dialog.rows, i + 1, Len(dialog.rows)) \in Seq(Addrs)
          BY <1>2, <4>1, SubSeqProperties
        <4> QED BY <4>2, <4>3, ConcatProperties
      <3>2. dialog' = [dialog EXCEPT !.rows = r]
        BY <2>4 DEF RemoveRow
      <3> HIDE DEF r
      <3> QED BY <3>1, <3>2
    <2>5. \/ \E a \in Addrs : AddNearby(a) \/ TypeIn(a)
          \/ \E i \in DOMAIN dialog.rows : RemoveRow(i)
      BY DEF EditSettings
    <2> QED BY <2>1, <2>2, <2>3, <2>4, <2>5
  <1>4. dialog' \in Dialog /\ (dialog'.open <=> dialog.open) /\ dialog'.old = dialog.old
    BY <1>1, <1>3, EditIs
  <1>5. SteadyDialog
    <2>1. Settled'
      BY <1>1 DEF Settled, Saving
    <2> QED BY <1>4, <2>1 DEF SteadyDialog
  <1>6. posted' \in BOOLEAN /\ queue' \in Nat /\ left' \in Nat
    BY <1>1, NotifyIs DEF TypeInv
  <1> QED BY <1>1, <1>4, <1>5, <1>6, StayKeeps DEF TypeInv, world

\* New senders: one per row, idle, none of them knows an id.
LEMMA RebuiltIs ==
  ASSUME NEW q \in Seq(Device)
  PROVE  /\ Rebuilt(q) \in Seq(App) /\ DOMAIN Rebuilt(q) = DOMAIN q
         /\ \A i \in DOMAIN q :
               /\ Rebuilt(q)[i].entry = q[i].addr /\ Rebuilt(q)[i].work = "none"
               /\ Rebuilt(q)[i].id = None
  <1>1. DOMAIN q = 1 .. Len(q) /\ Len(q) \in Nat /\ \A i \in DOMAIN q : q[i] \in Device
    OBVIOUS
  <1>2. ASSUME NEW e \in Device
        PROVE  NewApp(e) \in App /\ NewApp(e).entry = e.addr /\ NewApp(e).work = "none"
               /\ NewApp(e).id = None
    BY DefaultsIs DEF NewApp, App, Device, Working
  <1>3. Rebuilt(q) = [i \in 1 .. Len(q) |-> NewApp(q[i])]
    BY <1>1 DEF Rebuilt
  <1>4. Rebuilt(q) \in [1 .. Len(q) -> App]
    BY <1>1, <1>2, <1>3
  <1>5. Rebuilt(q) \in Seq(App)
    BY <1>1, <1>4, FunctionIsSeq
  <1> QED BY <1>1, <1>2, <1>3, <1>5

\* Nobody is between a load and a save when the senders are made.
LEMMA RebuildKeepsWriters ==
  ASSUME Inv, tray.pc \in {"boot", "rebuild"}, tray'.pc = "start", open' = open,
         \A i \in DOMAIN apps' : apps'[i].work = "none"
  PROVE  open = {} /\ Writers'
  <1>1. open \subseteq DOMAIN apps \cup {0}
    BY DEF Inv, Files, Writers
  <1>2. 0 \notin open
    BY DEF Inv, Files, Writers, Saving
  <1>3. ASSUME NEW i \in DOMAIN apps PROVE i \notin open
    <2>1. CASE tray.pc = "boot"
      <3>1. apps = <<>>
        BY <2>1 DEF Inv, Files, AllStop
      <3> QED BY <3>1
    <2>2. CASE tray.pc = "rebuild"
      <3>1. apps[i].work = "none"
        BY <2>2 DEF Inv, Files, AllStop
      <3> QED BY <3>1 DEF Inv, Files, Writers, Saving
    <2> QED BY <2>1, <2>2
  <1>4. open = {}
    BY <1>1, <1>2, <1>3
  <1> QED BY <1>4 DEF Writers, Saving

LEMMA BootKeeps ==
  ASSUME Inv, OneSender, Boot
  PROVE  Inv' /\ OneSender'
  <1>1. TypeInv /\ tray.pc = "boot" /\ Goto("start") /\ cfg' = Loaded(file) /\ file' = Loaded(file)
        /\ apps' = Rebuilt(cfg'.devs)
        /\ UNCHANGED <<dialog, status, world, open, overlapped, bound, told, left>>
    BY DEF Inv, Files, Boot
  <1>2. tray' \in Tray /\ tray'.pc = "start"
    BY <1>1, GotoIs DEF PCs
  <1>3. /\ cfg' \in Clean /\ file' \in Clean /\ file' \in Config /\ file'.link = file.link
        /\ cfg'.devs = Pruned(file.devs) /\ cfg'.devs \in Seq(Device)
    <2>1. file \in Config
      BY <1>1 DEF TypeInv
    <2> QED BY <1>1, <2>1, LoadedIs, CleanIsConfig DEF Clean
  <1>4. /\ apps' \in Seq(App) /\ DOMAIN apps' = DOMAIN cfg'.devs
        /\ \A i \in DOMAIN apps' :
              apps'[i].entry = cfg'.devs[i].addr /\ apps'[i].work = "none" /\ apps'[i].id = None
    BY <1>1, <1>3, RebuiltIs
  <1>5. TypeInv'
    <2>1. posted' \in BOOLEAN /\ queue' \in Nat
      BY <1>1, NotifyIs DEF TypeInv
    <2>2. \A i \in DOMAIN apps' : apps'[i].work # "none" => apps'[i].run
      BY <1>4
    <2> QED BY <1>1, <1>2, <1>3, <1>4, <2>1, <2>2 DEF TypeInv, world
  <1>6. AllStop'
    BY <1>2 DEF AllStop, Saving
  <1>7. open = {} /\ Writers'
    BY <1>1, <1>2, <1>4, RebuildKeepsWriters
  <1>8. Link'
    BY <1>1, <1>3, <1>7 DEF Inv, Files, Link
  <1>9. Same' /\ Aligned'
    BY <1>1, <1>4, <1>7 DEF Same, Aligned
  <1>10. OpenedRows'
    BY <1>1 DEF Inv, OpenedRows, Settled
  <1>11. LearnedIds'
    <2> SUFFICES ASSUME ~overlapped PROVE LearnedIds'
      BY <1>1 DEF LearnedIds
    <2>1. ASSUME NEW k \in DOMAIN cfg'.devs, cfg'.devs[k].hello
          PROVE  cfg'.devs[k].id \in told[cfg'.devs[k].addr]
      <3>1. file.devs \in Seq(Entry)
        BY <1>1 DEF TypeInv, Config
      <3>2. k \in DOMAIN Pruned(file.devs) /\ cfg'.devs[k] = Pruned(file.devs)[k]
        BY <1>3, <2>1
      <3>3. \E i \in DOMAIN file.devs :
               Pruned(file.devs)[k] = file.devs[i] /\ file.devs[i].addr # Placeholder
        BY <3>1, <3>2, PrunedIs
      <3>4. PICK i \in DOMAIN file.devs :
               cfg'.devs[k] = file.devs[i] /\ file.devs[i].addr # Placeholder
        BY <3>2, <3>3
      <3> QED BY <2>1, <3>4 DEF Inv, LearnedIds
    <2> QED BY <1>1, <1>4, <2>1 DEF LearnedIds
  <1>12. OneSender'
    BY <1>4 DEF OneSender, Working
  <1> QED BY <1>5, <1>6, <1>7, <1>8, <1>9, <1>10, <1>11, <1>12 DEF Inv, Files

LEMMA RebuildKeeps ==
  ASSUME Inv, OneSender, RebuildSenders
  PROVE  Inv' /\ OneSender'
  <1>1. TypeInv /\ tray.pc = "rebuild" /\ Goto("start") /\ apps' = Rebuilt(cfg.devs)
        /\ UNCHANGED <<cfg, dialog, status, world, disk, told, left>>
    BY DEF Inv, Files, RebuildSenders
  <1>2. tray' \in Tray /\ tray'.pc = "start"
    BY <1>1, GotoIs DEF PCs
  <1>3. cfg.devs \in Seq(Device)
    BY <1>1, CfgIs
  <1>4. /\ apps' \in Seq(App) /\ DOMAIN apps' = DOMAIN cfg.devs
        /\ \A i \in DOMAIN apps' :
              apps'[i].entry = cfg.devs[i].addr /\ apps'[i].work = "none" /\ apps'[i].id = None
    BY <1>1, <1>3, RebuiltIs
  <1>5. TypeInv'
    <2>1. posted' \in BOOLEAN /\ queue' \in Nat
      BY <1>1, NotifyIs DEF TypeInv
    <2>2. \A i \in DOMAIN apps' : apps'[i].work # "none" => apps'[i].run
      BY <1>4
    <2> QED BY <1>1, <1>2, <1>4, <2>1, <2>2 DEF TypeInv, world, disk
  <1>6. AllStop'
    BY <1>2 DEF AllStop, Saving
  <1>7. open = {} /\ Writers'
    BY <1>1, <1>2, <1>4, RebuildKeepsWriters DEF disk
  <1>8. Link'
    BY <1>1 DEF Inv, Files, Link, disk
  <1>9. Same' /\ Aligned'
    BY <1>1, <1>4, <1>7 DEF Inv, Same, Aligned, disk
  <1>10. OpenedRows'
    BY <1>1 DEF Inv, OpenedRows, Settled
  <1>11. LearnedIds'
    BY <1>1, <1>4 DEF Inv, LearnedIds, disk
  <1>12. OneSender'
    BY <1>4 DEF OneSender, Working
  <1> QED BY <1>5, <1>6, <1>7, <1>8, <1>9, <1>10, <1>11, <1>12 DEF Inv, Files

\* What SaveLearnedIds makes of the list: the same rows, some with a sender's id.
LEMMA LearnedIs ==
  ASSUME TypeInv
  PROVE  /\ WithLearned \in Seq(Device) /\ DOMAIN WithLearned = DOMAIN cfg.devs
         /\ \A i \in DOMAIN cfg.devs :
               /\ WithLearned[i].addr = cfg.devs[i].addr
               /\ \/ WithLearned[i] = cfg.devs[i]
                  \/ /\ i \in DOMAIN apps /\ apps[i].id # None
                     /\ IdFollowsHello(cfg.devs[i]) /\ WithLearned[i].id = apps[i].id
                     /\ WithLearned[i].hello
  <1>1. /\ cfg.devs \in Seq(Device) /\ Len(cfg.devs) \in Nat /\ DOMAIN cfg.devs = 1 .. Len(cfg.devs)
        /\ \A i \in DOMAIN cfg.devs : cfg.devs[i] \in Device
    BY CfgIs
  <1>2. ASSUME NEW i \in DOMAIN cfg.devs
        PROVE  /\ WithLearned[i] \in Device
               /\ WithLearned[i].addr = cfg.devs[i].addr
               /\ \/ WithLearned[i] = cfg.devs[i]
                  \/ /\ i \in DOMAIN apps /\ apps[i].id # None
                     /\ IdFollowsHello(cfg.devs[i]) /\ WithLearned[i].id = apps[i].id
                     /\ WithLearned[i].hello
    <2>1. CASE i \in DOMAIN apps /\ IdFollowsHello(cfg.devs[i]) /\ apps[i].id # None
      <3> DEFINE h == cfg.devs[i].hello \/ cfg.devs[i].id # apps[i].id
                 n == apps[i].id
      <3>1. WithLearned[i] = [cfg.devs[i] EXCEPT !.id = n, !.hello = h]
        BY <2>1 DEF WithLearned
      <3>2. h \in BOOLEAN /\ h
        <4>1. h
          BY <2>1 DEF IdFollowsHello
        <4> QED BY <4>1
      <3>3. n \in Ids \cup {None}
        BY <2>1, AppsIs DEF App
      <3>4. h = TRUE
        BY <3>2
      <3> HIDE DEF h, n
      <3>5. WithLearned[i] = [cfg.devs[i] EXCEPT !.id = n, !.hello = TRUE]
        BY <3>1, <3>4
      <3>6. /\ WithLearned[i] \in Device /\ WithLearned[i].addr = cfg.devs[i].addr
            /\ WithLearned[i].id = n /\ WithLearned[i].hello = TRUE
        BY <1>1, <3>3, <3>5 DEF Device
      <3> QED BY <2>1, <3>6 DEF n
    <2>2. CASE ~(i \in DOMAIN apps /\ IdFollowsHello(cfg.devs[i]) /\ apps[i].id # None)
      <3>1. WithLearned[i] = cfg.devs[i]
        BY <2>2 DEF WithLearned
      <3> QED BY <1>1, <3>1
    <2> QED BY <2>1, <2>2
  <1>3. WithLearned = [i \in DOMAIN cfg.devs |-> WithLearned[i]]
    BY DEF WithLearned
  <1>4. WithLearned \in [1 .. Len(cfg.devs) -> Device] /\ DOMAIN WithLearned = DOMAIN cfg.devs
    <2> DEFINE q == WithLearned
    <2> HIDE DEF q
    <2> QED BY <1>1, <1>2, <1>3
  <1>5. WithLearned \in Seq(Device)
    BY <1>1, <1>4, FunctionIsSeq
  <1> QED BY <1>2, <1>4, <1>5

LEMMA LinkIs ==
  ASSUME TypeInv
  PROVE  LinkOnDisk \in Ids \cup {None} /\ LinkOnDisk = file.link
  <1>1. file \in Config
    BY DEF TypeInv
  <1> QED BY <1>1, LoadedIs DEF LinkOnDisk, Config

\* The tray begins to save a list it made.
LEMMA TrayBegins ==
  ASSUME Inv, tray.pc \notin Saving, tray'.pc = "cut", Begin(0), apps' = apps
  PROVE  Writers' /\ (~overlapped' => ~overlapped /\ open = {} /\ open' = {0})
         /\ overlapped' \in BOOLEAN
  <1>1. overlapped' \in BOOLEAN
    BY Zenon DEF Begin
  <1>2. ~overlapped' => ~overlapped /\ open = {} /\ open' = {0}
    BY DEF Begin
  <1>3. TypeInv /\ open' = open \cup {0}
    BY DEF Inv, Files, Begin
  <1>4. \A i \in DOMAIN apps : i \in open' <=> apps[i].work \in Saving
    BY <1>3, AppsIs DEF Inv, Files, Writers
  <1>5. open' \subseteq DOMAIN apps \cup {0} /\ 0 \in open'
    BY <1>3 DEF Inv, Files, Writers
  <1> QED BY <1>1, <1>2, <1>4, <1>5 DEF Writers, Saving

LEMMA SaveLearnedKeeps ==
  ASSUME Inv, OneSender, SaveLearnedIds
  PROVE  Inv' /\ OneSender'
  <1>1. TypeInv /\ tray.pc = "learn"
        /\ UNCHANGED <<file, bound, apps, dialog, status, world, told, left>>
    BY DEF Inv, Files, SaveLearnedIds
  <1>2. posted' \in BOOLEAN /\ queue' \in Nat /\ left' \in Nat
    BY <1>1, NotifyIs DEF TypeInv
  <1>3. CASE WithLearned = cfg.devs
    <2>1. Goto("update") /\ UNCHANGED <<cfg, open, overlapped>>
      BY <1>3 DEF SaveLearnedIds
    <2>2. tray' \in Tray /\ tray'.pc = "update"
      BY <1>1, <2>1, GotoIs DEF PCs
    <2> QED BY <1>1, <1>2, <2>1, <2>2, PassingKeeps DEF Settled, Saving, disk
  <1>4. CASE WithLearned # cfg.devs
    <2>1. /\ cfg' = [devs |-> WithLearned, link |-> LinkOnDisk] /\ Begin(0)
          /\ tray' = [tray EXCEPT !.pc = "cut", !.then = "update"]
      BY <1>4 DEF SaveLearnedIds
    <2>2. tray' \in Tray /\ tray'.pc = "cut" /\ tray'.then = "update"
      BY <1>1, <2>1, TrayIs DEF Tray, PCs
    <2> DEFINE q == WithLearned
    <2>3. /\ q \in Seq(Device) /\ DOMAIN q = DOMAIN cfg.devs
          /\ \A i \in DOMAIN cfg.devs :
                /\ q[i].addr = cfg.devs[i].addr
                /\ \/ q[i] = cfg.devs[i]
                   \/ /\ i \in DOMAIN apps /\ apps[i].id # None
                      /\ IdFollowsHello(cfg.devs[i]) /\ q[i].id = apps[i].id
                      /\ q[i].hello
      BY <1>1, LearnedIs
    <2> HIDE DEF q
    <2>4. cfg' \in Clean /\ cfg'.devs = q /\ cfg'.link = file.link
      BY <1>1, <2>1, <2>3, LinkIs DEF Clean, q
    <2>5. Writers' /\ (~overlapped' => ~overlapped /\ open = {} /\ open' = {0})
          /\ overlapped' \in BOOLEAN
      BY <1>1, <2>1, <2>2, TrayBegins DEF Saving
    <2>6. TypeInv'
      BY <1>1, <1>2, <2>2, <2>4, <2>5 DEF TypeInv, world
    <2>7. AllStop'
      BY <2>2 DEF AllStop, Saving
    <2>8. Link'
      BY <1>1, <2>4, <2>5 DEF Inv, Files, Link
    <2>9. Same'
      <3>1. ~overlapped' => \A i \in DOMAIN apps : i \notin open'
        BY <1>1, <2>5, AppsIs
      <3> QED BY <1>1, <2>5, <3>1 DEF Same
    <2>10. Settled /\ Settled'
      BY <1>1, <2>2 DEF Settled, Saving
    <2>11. ~overlapped' =>
              /\ DOMAIN apps = DOMAIN cfg.devs
              /\ \A i \in DOMAIN apps : apps[i].entry = cfg.devs[i].addr
      BY <2>5, <2>10 DEF Inv, Aligned
    <2>12. Aligned'
      BY <1>1, <2>3, <2>4, <2>11 DEF Aligned
    <2>13. OpenedRows'
      <3> SUFFICES ASSUME ~overlapped', dialog.open
                   PROVE  /\ DOMAIN dialog.old = DOMAIN q
                          /\ \A k \in DOMAIN q :
                                /\ dialog.old[k].addr = q[k].addr
                                /\ dialog.old[k] = q[k] \/ q[k].hello
        BY <1>1, <2>4, <2>10 DEF OpenedRows
      <3>1. /\ DOMAIN dialog.old = DOMAIN cfg.devs
            /\ \A k \in DOMAIN cfg.devs :
                  /\ dialog.old[k].addr = cfg.devs[k].addr
                  /\ dialog.old[k] = cfg.devs[k] \/ cfg.devs[k].hello
        BY <2>5 DEF Inv, OpenedRows
      <3> QED BY <2>3, <3>1
    <2>14. LearnedIds'
      <3> SUFFICES ASSUME ~overlapped' PROVE LearnedIds'
        BY DEF LearnedIds
      <3>1. /\ \A k \in DOMAIN cfg.devs : cfg.devs[k].hello => cfg.devs[k].id \in told[cfg.devs[k].addr]
            /\ \A i \in DOMAIN apps :
                 \/ apps[i].id = None
                 \/ apps[i].id \in told[apps[i].entry]
                 \/ ~cfg.devs[i].hello /\ cfg.devs[i].id = apps[i].id
        BY <2>5, <2>10 DEF Inv, LearnedIds
      <3>2. \A k \in DOMAIN file.devs :
               file.devs[k].hello /\ file.devs[k].addr # Placeholder =>
                   file.devs[k].id \in told[file.devs[k].addr]
        BY <2>5 DEF Inv, LearnedIds
      <3>3. ASSUME NEW k \in DOMAIN q, q[k].hello PROVE q[k].id \in told[q[k].addr]
        <4>1. CASE q[k] = cfg.devs[k]
          BY <2>3, <3>1, <3>3, <4>1
        <4>2. CASE q[k] # cfg.devs[k]
          <5>1. /\ k \in DOMAIN apps /\ apps[k].id # None /\ q[k].addr = cfg.devs[k].addr
                /\ IdFollowsHello(cfg.devs[k]) /\ q[k].id = apps[k].id
            BY <2>3, <4>2
          <5>2. ~(~cfg.devs[k].hello /\ cfg.devs[k].id = apps[k].id)
            BY <5>1 DEF IdFollowsHello
          <5> QED BY <2>11, <3>1, <5>1, <5>2
        <4> QED BY <4>1, <4>2
      <3>4. ASSUME NEW i \in DOMAIN apps
            PROVE  \/ apps[i].id = None
                   \/ apps[i].id \in told[apps[i].entry]
                   \/ ~q[i].hello /\ q[i].id = apps[i].id
        <4>1. CASE q[i] = cfg.devs[i]
          BY <3>1, <4>1
        <4>2. CASE q[i] # cfg.devs[i]
          <5>1. q[i].hello /\ q[i].id = apps[i].id /\ i \in DOMAIN q /\ q[i].addr = apps[i].entry
            BY <2>3, <2>11, <4>2
          <5> QED BY <3>3, <5>1
        <4> QED BY <4>1, <4>2
      <3> QED BY <1>1, <2>4, <3>2, <3>3, <3>4 DEF LearnedIds
    <2>15. OneSender'
      BY <1>1 DEF OneSender
    <2> QED BY <2>5, <2>6, <2>7, <2>8, <2>9, <2>12, <2>13, <2>14, <2>15 DEF Inv, Files
  <1> QED BY <1>3, <1>4

LEMMA TrayCutsKeeps ==
  ASSUME Inv, OneSender, TraySaves, tray.pc = "cut"
  PROVE  Inv' /\ OneSender'
  <1>1. TypeInv /\ file' = Defaults /\ Goto("write") /\ open' = open
        /\ UNCHANGED <<overlapped, bound, cfg, apps, dialog, status, world, told, left>>
    BY DEF Inv, Files, TraySaves
  <1>2. tray' \in Tray /\ tray'.pc = "write" /\ tray'.then = tray.then
    BY <1>1, GotoIs DEF PCs
  <1>3. 0 \in open
    BY DEF Inv, Files, Writers, Saving
  <1>4. posted' \in BOOLEAN /\ queue' \in Nat
    BY <1>1, NotifyIs DEF TypeInv
  <1>5. TypeInv'
    BY <1>1, <1>2, <1>4, DefaultsIs DEF TypeInv, world
  <1>6. AllStop'
    BY <1>2 DEF Inv, Files, AllStop, Saving
  <1>7. Writers'
    BY <1>1, <1>2 DEF Inv, Files, Writers, Saving
  <1>8. Link'
    BY <1>1, <1>3 DEF Inv, Files, Link
  <1>9. Same'
    BY <1>1, <1>3 DEF Inv, Same
  <1>10. Settled' <=> Settled
    BY <1>2 DEF Settled, Saving
  <1>11. Aligned' /\ OpenedRows'
    BY <1>1, <1>10 DEF Inv, Aligned, OpenedRows
  <1>12. LearnedIds'
    BY <1>1, <1>10, DefaultsIs DEF Inv, LearnedIds
  <1>13. OneSender'
    BY <1>1 DEF OneSender
  <1> QED BY <1>5, <1>6, <1>7, <1>8, <1>9, <1>11, <1>12, <1>13 DEF Inv, Files

LEMMA TrayWritesKeeps ==
  ASSUME Inv, OneSender, TraySaves, tray.pc = "write"
  PROVE  Inv' /\ OneSender'
  <1>1. TypeInv /\ file' = cfg /\ open' = open \ {0} /\ cfg \in Clean
        /\ UNCHANGED <<overlapped, bound, cfg, apps, dialog, status, world, told, left>>
        /\ (IF tray.then = "restart" THEN StopAll("rebuild") ELSE Goto(tray.then))
    BY DEF Inv, Files, TraySaves, TypeInv
  <1>2. tray.then \in {"update", "restart", "idle"} /\ 0 \in open
    BY DEF Inv, Files, AllStop, Writers, Saving
  <1>3. /\ tray' \in Tray /\ tray'.pc \in {"join", "update", "idle"}
        /\ tray.then = "restart" => tray'.pc = "join"
        /\ tray.then # "restart" => tray'.pc \in {"update", "idle"}
        /\ tray'.pc = "join" =>
              /\ tray'.then = "rebuild" /\ tray.then = "restart"
              /\ DOMAIN tray'.join = DOMAIN apps
              /\ \A k \in DOMAIN tray'.join : tray'.join[k] = k
    <2>1. CASE tray.then = "restart"
      BY <1>1, <2>1, StopAllIs
    <2>2. CASE tray.then # "restart"
      BY <1>1, <1>2, <2>2, GotoIs DEF PCs
    <2> QED BY <2>1, <2>2
  <1>4. posted' \in BOOLEAN /\ queue' \in Nat
    BY <1>1, NotifyIs DEF TypeInv
  <1>5. TypeInv'
    BY <1>1, <1>3, <1>4, CleanIsConfig DEF TypeInv, world
  <1>6. AllStop'
    BY <1>1, <1>3 DEF AllStop, Saving
  <1>7. Writers'
    <2>1. \A i \in DOMAIN apps : i \in open' <=> i \in open
      BY <1>1, AppsIs
    <2>2. 0 \notin open' /\ open' \subseteq open /\ tray'.pc \notin Saving
      BY <1>1, <1>3 DEF Saving
    <2> QED BY <1>1, <2>1, <2>2 DEF Inv, Files, Writers
  <1>8. Link'
    BY <1>1, <1>2, <1>7 DEF Inv, Files, Link, Writers
  <1>9. Same'
    <2>1. ~overlapped => \A i \in DOMAIN apps : i \notin open'
      BY <1>1, <1>2 DEF Inv, Files, Writers
    <2> QED BY <1>1, <2>1 DEF Same
  <1>10. Settled' <=> Settled
    BY <1>2, <1>3 DEF Settled, Saving
  <1>11. Aligned' /\ OpenedRows'
    BY <1>1, <1>10 DEF Inv, Aligned, OpenedRows
  <1>12. LearnedIds'
    BY <1>1, <1>10 DEF Inv, LearnedIds
  <1>13. OneSender'
    BY <1>1 DEF OneSender
  <1> QED BY <1>5, <1>6, <1>7, <1>8, <1>9, <1>11, <1>12, <1>13 DEF Inv, Files

LEMMA OpenSettingsKeeps ==
  ASSUME Inv, OneSender, OpenSettings
  PROVE  Inv' /\ OneSender'
  <1> DEFINE now == Loaded(file)
             r == [i \in DOMAIN now.devs |-> now.devs[i].addr]
             p == [a \in Addrs |->
                      IF \E i \in DOMAIN now.devs : now.devs[i].addr = a
                      THEN now.devs[CHOOSE i \in DOMAIN now.devs : now.devs[i].addr = a].id
                      ELSE None]
  <1>1. TypeInv /\ tray.pc = "idle" /\ left > 0 /\ left' = left - 1 /\ cfg' = now /\ Reads
        /\ dialog' = [open |-> TRUE, rows |-> r, pending |-> p, old |-> now.devs]
        /\ UNCHANGED <<file, open, bound, apps, tray, status, world, told>>
    BY DEF Inv, Files, OpenSettings, Hiccup
  <1>2. now = file /\ file \in Clean
    BY <1>1, LoadedIs DEF TypeInv
  <1>3. /\ now.devs \in Seq(Device) /\ DOMAIN now.devs = 1 .. Len(now.devs) /\ Len(now.devs) \in Nat
        /\ \A i \in DOMAIN now.devs : now.devs[i] \in Device
    <2>1. file.devs \in Seq(Device)
      BY <1>2 DEF Clean
    <2> HIDE DEF now
    <2> QED BY <1>2, <2>1
  <1> HIDE DEF now
  <1>4. r \in Seq(Addrs)
    <2>1. r \in [1 .. Len(now.devs) -> Addrs]
      BY <1>3 DEF Device
    <2> HIDE DEF r
    <2> QED BY <1>3, <2>1, FunctionIsSeq
  <1>5. p \in [Addrs -> Ids \cup {None}]
    BY <1>3 DEF Device
  <1> HIDE DEF r, p
  <1>6. dialog' \in Dialog /\ dialog'.open /\ dialog'.old = file.devs
    BY <1>1, <1>2, <1>3, <1>4, <1>5 DEF Dialog
  <1>7. posted' \in BOOLEAN /\ queue' \in Nat /\ left' \in Nat
    BY <1>1, NotifyIs DEF TypeInv
  <1>8. overlapped' \in BOOLEAN /\ (~overlapped' => ~overlapped /\ open = {})
    BY <1>1, Zenon DEF Reads
  <1>9. cfg' = file
    BY <1>1, <1>2
  <1>10. TypeInv'
    BY <1>1, <1>2, <1>6, <1>7, <1>8, <1>9 DEF TypeInv, world
  <1>11. AllStop'
    BY <1>1 DEF Inv, Files, AllStop
  <1>12. Writers'
    BY <1>1, <1>8 DEF Inv, Files, Writers
  <1>13. Link'
    BY <1>1, <1>8 DEF Inv, Files, Link
  <1>14. ~overlapped' => file.devs = cfg.devs
    BY <1>1, <1>8 DEF Inv, Same
  <1>15. Same'
    BY <1>1, <1>8, <1>9 DEF Same
  <1>16. Settled /\ Settled'
    BY <1>1 DEF Settled, Saving
  <1>17. Aligned'
    BY <1>1, <1>8, <1>9, <1>14, <1>16 DEF Inv, Aligned
  <1>18. OpenedRows'
    BY <1>6, <1>9, <1>16 DEF OpenedRows
  <1>19. LearnedIds'
    BY <1>1, <1>8, <1>9, <1>14, <1>16 DEF Inv, LearnedIds
  <1>20. OneSender'
    BY <1>1 DEF OneSender
  <1> QED BY <1>10, <1>11, <1>12, <1>13, <1>15, <1>17, <1>18, <1>19, <1>20 DEF Inv, Files

\* What OK saves of row k: its address, an id of a receiver or none, and as
\* learned only what a row of that address had learned.
LEMMA LearnedForIs ==
  ASSUME TypeInv, NEW a \in Addrs
  PROVE  /\ Learned(a) \in Ids \cup {None}
         /\ Learned(a) # None =>
               \E k \in DOMAIN cfg.devs :
                  cfg.devs[k].addr = a /\ cfg.devs[k].hello /\ cfg.devs[k].id = Learned(a)
  <1> DEFINE rows == {i \in DOMAIN cfg.devs : cfg.devs[i].addr = a /\ cfg.devs[i].hello}
             c == CHOOSE i \in rows : TRUE
  <1>1. CASE rows = {}
    BY <1>1 DEF Learned
  <1>2. CASE rows # {}
    <2>1. c \in rows
      BY <1>2
    <2>2. Learned(a) = cfg.devs[c].id
      BY <1>2 DEF Learned
    <2> HIDE DEF c
    <2>3. c \in DOMAIN cfg.devs /\ cfg.devs[c].addr = a /\ cfg.devs[c].hello
      BY <2>1
    <2>4. cfg.devs[c].id \in Ids \cup {None}
      BY <2>3, CfgIs DEF Device
    <2> QED BY <2>2, <2>3, <2>4
  <1> QED BY <1>1, <1>2

LEMMA RowIs ==
  ASSUME TypeInv, NEW k \in DOMAIN dialog.rows
  PROVE  /\ Row(k) \in Device /\ dialog.rows[k] \in Addrs
         /\ Row(k).hello => Row(k).id # None /\ Learned(Row(k).addr) = Row(k).id
  <1>1. dialog.rows \in Seq(Addrs) /\ dialog.pending \in [Addrs -> Ids \cup {None}]
    BY DEF TypeInv, Dialog
  <1> DEFINE a == dialog.rows[k]
             pend == dialog.pending[a]
             id == IF pend # None THEN pend ELSE Learned(a)
             h == id # None /\ Learned(a) = id
  <1>2. Row(k) = [addr |-> a, id |-> id, hello |-> h]
    BY DEF Row
  <1>3. a \in Addrs
    BY <1>1
  <1>4. id \in Ids \cup {None}
    <2>1. pend \in Ids \cup {None}
      BY <1>1, <1>3
    <2>2. Learned(a) \in Ids \cup {None}
      BY <1>3, LearnedForIs
    <2> QED BY <2>1, <2>2
  <1>5. h \in BOOLEAN /\ (h => id # None /\ Learned(a) = id)
    OBVIOUS
  <1> HIDE DEF h, id, pend, a
  <1>6. Row(k) \in Device
    BY <1>2, <1>3, <1>4, <1>5 DEF Device
  <1>7. Row(k).addr = a /\ Row(k).id = id
    BY <1>2
  <1>8. Row(k).hello => id # None /\ Learned(a) = id
    BY <1>2, <1>5
  <1> QED BY <1>3, <1>6, <1>7, <1>8 DEF a

LEMMA OkKeeps ==
  ASSUME Inv, OneSender, OkSettings
  PROVE  Inv' /\ OneSender'
  <1> DEFINE q == [k \in DOMAIN dialog.rows |-> Row(k)]
             then == IF Targets(q) # Targets(dialog.old) THEN "restart" ELSE "idle"
  <1>1. TypeInv /\ tray.pc = "idle" /\ dialog.open /\ Begin(0)
        /\ cfg' = [devs |-> q, link |-> LinkOnDisk]
        /\ dialog' = Closed /\ tray' = [tray EXCEPT !.pc = "cut", !.then = then]
        /\ UNCHANGED <<file, bound, apps, status, world, told, left>>
    BY DEF Inv, Files, OkSettings
  <1>2. /\ DOMAIN dialog.rows = 1 .. Len(dialog.rows) /\ Len(dialog.rows) \in Nat
        /\ dialog.old \in Seq(Device) /\ dialog.pending \in [Addrs -> Ids \cup {None}]
    <2>1. dialog.rows \in Seq(Addrs) /\ dialog.old \in Seq(Device)
          /\ dialog.pending \in [Addrs -> Ids \cup {None}]
      BY <1>1 DEF TypeInv, Dialog
    <2> QED BY <2>1
  <1>3. \A k \in DOMAIN dialog.rows : q[k] = Row(k)
    OBVIOUS
  <1>4. q \in Seq(Device) /\ DOMAIN q = DOMAIN dialog.rows
    <2>1. q \in [1 .. Len(dialog.rows) -> Device] /\ DOMAIN q = DOMAIN dialog.rows
      BY <1>1, <1>2, RowIs
    <2> HIDE DEF q
    <2> QED BY <1>2, <2>1, FunctionIsSeq
  <1>5. then \in {"restart", "idle"}
    OBVIOUS
  <1>6. then = "idle" => Targets(q) = Targets(dialog.old)
    OBVIOUS
  <1> HIDE DEF q, then
  <1>7. tray' \in Tray /\ tray'.pc = "cut" /\ tray'.then = then
    BY <1>1, <1>5, TrayIs DEF Tray, PCs
  <1>8. cfg' \in Clean /\ cfg'.devs = q /\ cfg'.link = file.link
    BY <1>1, <1>4, LinkIs DEF Clean
  <1>9. Writers' /\ (~overlapped' => ~overlapped /\ open = {} /\ open' = {0})
        /\ overlapped' \in BOOLEAN
    BY <1>1, <1>7, TrayBegins DEF Saving
  <1>10. TypeInv'
    <2>1. posted' \in BOOLEAN /\ queue' \in Nat
      BY <1>1, NotifyIs DEF TypeInv
    <2> QED BY <1>1, <1>7, <1>8, <1>9, <2>1, ClosedIs DEF TypeInv, world
  <1>11. AllStop'
    BY <1>5, <1>7 DEF AllStop, Saving
  <1>12. Link'
    BY <1>1, <1>8, <1>9 DEF Inv, Files, Link
  <1>13. Same'
    <2>1. ~overlapped' => \A i \in DOMAIN apps : i \notin open'
      BY <1>1, <1>9, AppsIs
    <2> QED BY <1>1, <1>9, <2>1 DEF Same
  <1>14. OpenedRows'
    BY <1>1, ClosedIs DEF OpenedRows
  <1>15. Settled /\ (Settled' => then = "idle")
    BY <1>1, <1>5, <1>7 DEF Settled, Saving
  \* When the senders stay, the rows are those Settings was opened with.
  <1>16. ASSUME ~overlapped', Settled'
         PROVE  /\ DOMAIN q = DOMAIN cfg.devs
                /\ \A k \in DOMAIN q : q[k].addr = cfg.devs[k].addr /\ q[k].id = dialog.old[k].id
    <2>1. Targets(q) = Targets(dialog.old)
      BY <1>6, <1>15, <1>16
    <2>2. DOMAIN q = DOMAIN dialog.old
      <3>1. DOMAIN Targets(q) = DOMAIN q /\ DOMAIN Targets(dialog.old) = DOMAIN dialog.old
        BY DEF Targets
      <3> QED BY <2>1, <3>1
    <2>3. ASSUME NEW k \in DOMAIN q
          PROVE  q[k].addr = dialog.old[k].addr /\ q[k].id = dialog.old[k].id
      <3>1. Targets(q)[k] = <<q[k].addr, q[k].id>>
        BY <2>3 DEF Targets
      <3>2. Targets(dialog.old)[k] = <<dialog.old[k].addr, dialog.old[k].id>>
        BY <2>2, <2>3 DEF Targets
      <3>3. <<q[k].addr, q[k].id>> = <<dialog.old[k].addr, dialog.old[k].id>>
        BY <2>1, <3>1, <3>2
      <3> QED BY <3>3
    <2>4. /\ DOMAIN dialog.old = DOMAIN cfg.devs
          /\ \A k \in DOMAIN cfg.devs : dialog.old[k].addr = cfg.devs[k].addr
      BY <1>1, <1>9, <1>16 DEF Inv, OpenedRows
    <2> QED BY <2>2, <2>3, <2>4
  <1>17. Aligned'
    <2> SUFFICES ASSUME ~overlapped', Settled'
                 PROVE  DOMAIN apps = DOMAIN q /\ \A i \in DOMAIN apps : apps[i].entry = q[i].addr
      BY <1>1, <1>8 DEF Aligned
    <2>1. DOMAIN apps = DOMAIN cfg.devs /\ \A i \in DOMAIN apps : apps[i].entry = cfg.devs[i].addr
      BY <1>9, <1>15 DEF Inv, Aligned
    <2> QED BY <1>16, <2>1
  <1>18. LearnedIds'
    <2> SUFFICES ASSUME ~overlapped' PROVE LearnedIds'
      BY DEF LearnedIds
    <2>1. /\ \A k \in DOMAIN cfg.devs : cfg.devs[k].hello => cfg.devs[k].id \in told[cfg.devs[k].addr]
          /\ \A k \in DOMAIN file.devs :
                file.devs[k].hello /\ file.devs[k].addr # Placeholder =>
                    file.devs[k].id \in told[file.devs[k].addr]
          /\ \A i \in DOMAIN apps :
                \/ apps[i].id = None
                \/ apps[i].id \in told[apps[i].entry]
                \/ ~cfg.devs[i].hello /\ cfg.devs[i].id = apps[i].id
      BY <1>9, <1>15 DEF Inv, LearnedIds
    <2>2. ASSUME NEW k \in DOMAIN q, q[k].hello PROVE q[k].id \in told[q[k].addr]
      <3>1. q[k].id # None /\ Learned(q[k].addr) = q[k].id /\ q[k].addr \in Addrs
        <4>1. q[k] = Row(k) /\ k \in DOMAIN dialog.rows
          BY <1>3, <1>4, <2>2
        <4>2. q[k] \in Device
          BY <1>1, <4>1, RowIs
        <4>3. Row(k).id # None /\ Learned(Row(k).addr) = Row(k).id
          BY <1>1, <2>2, <4>1, RowIs
        <4> QED BY <4>1, <4>2, <4>3 DEF Device
      <3>2. PICK j \in DOMAIN cfg.devs :
               cfg.devs[j].addr = q[k].addr /\ cfg.devs[j].hello /\ cfg.devs[j].id = q[k].id
        BY <1>1, <3>1, LearnedForIs
      <3> QED BY <2>1, <3>2
    <2>3. ASSUME Settled', NEW i \in DOMAIN apps
          PROVE  \/ apps[i].id = None
                 \/ apps[i].id \in told[apps[i].entry]
                 \/ ~q[i].hello /\ q[i].id = apps[i].id
      <3>1. i \in DOMAIN q /\ i \in DOMAIN cfg.devs /\ apps[i].entry = cfg.devs[i].addr
            /\ q[i].addr = cfg.devs[i].addr /\ q[i].id = dialog.old[i].id
        BY <1>9, <1>15, <1>16, <2>3 DEF Inv, Aligned
      <3>2. CASE apps[i].id = None \/ apps[i].id \in told[apps[i].entry]
        BY <3>2
      <3>3. CASE ~cfg.devs[i].hello /\ cfg.devs[i].id = apps[i].id
        <4>1. dialog.old[i] = cfg.devs[i]
          BY <1>1, <1>9, <3>1, <3>3 DEF Inv, OpenedRows
        <4>2. q[i].id = apps[i].id
          BY <3>1, <3>3, <4>1
        <4> QED BY <2>2, <3>1, <4>2
      <3> QED BY <2>1, <3>2, <3>3
    <2> QED BY <1>1, <1>8, <2>1, <2>2, <2>3 DEF LearnedIds
  <1>19. OneSender'
    BY <1>1 DEF OneSender
  <1> QED BY <1>9, <1>10, <1>11, <1>12, <1>13, <1>14, <1>17, <1>18, <1>19 DEF Inv, Files

-----------------------------------------------------------------------------
(* The theorems.                                                           *)

LEMMA InitHolds ==
  ASSUME Init
  PROVE  Inv /\ OneSender
  <1>1. PICK s \in Starts :
           /\ file = s.file /\ left = s.budget /\ cable = s.id
           /\ lives = [a \in Addrs |-> IF a = s.at THEN s.id ELSE None]
    BY DEF Init
  <1>2. s.file \in Config /\ s.at \in Addrs /\ s.id \in Ids /\ s.budget \in Nat
    BY TrayAssumption
  <1>3. /\ cfg = Defaults /\ apps = <<>> /\ tray = [pc |-> "boot", join |-> <<>>, then |-> "idle"]
        /\ dialog = Closed /\ posted = FALSE /\ queue = 0 /\ heard = [id \in Ids |-> None]
        /\ open = {} /\ overlapped = FALSE /\ bound = file.link
        /\ told = [a \in Addrs |-> {e.id : e \in LearnedRows(file, a)}]
    BY DEF Init
  <1>4. file \in Config /\ file.devs \in Seq(Entry) /\ file.link \in Ids \cup {None}
        /\ \A i \in DOMAIN file.devs : file.devs[i] \in Entry
    <2>1. file \in Config
      BY <1>1, <1>2
    <2>2. file.devs \in Seq(Entry) /\ file.link \in Ids \cup {None}
      BY <2>1 DEF Config
    <2> QED BY <2>1, <2>2
  <1>5. told \in [Addrs -> SUBSET (Ids \cup {None})]
    <2>1. ASSUME NEW a \in Addrs
          PROVE  {e.id : e \in LearnedRows(file, a)} \in SUBSET (Ids \cup {None})
      <3>1. \A e \in LearnedRows(file, a) : e \in Entry
        BY <1>4 DEF LearnedRows
      <3> QED BY <3>1 DEF Entry
    <2> QED BY <1>3, <2>1
  <1>6. TypeInv
    <2>1. lives \in [Addrs -> Ids \cup {None}] /\ cable \in Ids /\ left \in Nat
      BY <1>1, <1>2
    <2>2. heard \in [Ids -> Addrs \cup {None}] /\ queue \in Nat
      BY <1>3
    <2>3. tray \in Tray /\ tray.pc = "boot"
      BY <1>3 DEF Tray, PCs
    <2>4. posted \in BOOLEAN /\ overlapped \in BOOLEAN
      BY <1>3, Zenon
    <2>5. apps \in Seq(App) /\ DOMAIN apps = {}
      BY <1>3
    <2> QED BY <1>3, <1>4, <1>5, <2>1, <2>2, <2>3, <2>4, <2>5, DefaultsIs, ClosedIs DEF TypeInv
  <1>7. tray.pc = "boot" /\ DOMAIN apps = {} /\ DOMAIN cfg.devs = {} /\ ~dialog.open
    BY <1>3, ClosedIs, DefaultsIs
  <1>8. AllStop /\ Writers /\ Link /\ Same /\ Aligned /\ OpenedRows
    BY <1>3, <1>7 DEF AllStop, Writers, Link, Same, Aligned, OpenedRows, Settled, Saving
  <1>9. LearnedIds
    <2>1. ASSUME NEW k \in DOMAIN file.devs, file.devs[k].hello, file.devs[k].addr # Placeholder
          PROVE  file.devs[k].id \in told[file.devs[k].addr]
      <3>1. file.devs[k].addr \in Addrs
        BY <1>4, <2>1 DEF Entry
      <3>2. file.devs[k] \in LearnedRows(file, file.devs[k].addr)
        BY <2>1 DEF LearnedRows
      <3> QED BY <1>3, <3>1, <3>2
    <2> QED BY <1>7, <2>1 DEF LearnedIds, Settled
  <1>10. OneSender
    BY <1>7 DEF OneSender
  <1> QED BY <1>6, <1>8, <1>9, <1>10 DEF Inv, Files

LEMMA WorkerKeeps ==
  ASSUME Inv, OneSender, NEW i \in DOMAIN apps, Worker(i) \/ SessionEnds(i)
  PROVE  Inv' /\ OneSender'
  <1>1. TypeInv /\ AllStop /\ Writers /\ Link /\ Same /\ Aligned /\ OpenedRows /\ LearnedIds
    BY DEF Inv, Files
  <1>2. Effect(i)
    BY <1>1, WorkerDoes
  <1>3. TypeInv' /\ AllStop' /\ Writers' /\ Link'
    BY <1>1, <1>2, WorkerTypes, WorkerAllStop, WorkerWriters, WorkerLink
  <1>4. Same' /\ Aligned' /\ OpenedRows' /\ LearnedIds' /\ OneSender'
    BY <1>1, <1>2, WorkerSame, WorkerAligned, WorkerLearned, WorkerAlone
  <1> QED BY <1>3, <1>4 DEF Inv, Files

LEMMA StutterKeeps ==
  ASSUME Inv, OneSender, UNCHANGED vars
  PROVE  Inv' /\ OneSender'
  <1>1. TypeInv /\ UNCHANGED <<cfg, apps, tray, dialog, disk, told, lives, cable, heard, posted,
                               queue, left>>
    BY DEF Inv, Files, vars, disk
  <1>2. SteadyDialog
    BY <1>1, SameDialog DEF Inv, OpenedRows, Settled
  <1> QED BY <1>1, <1>2, StayKeeps DEF TypeInv

LEMMA NextKeeps ==
  ASSUME Inv, OneSender, [Next]_vars
  PROVE  Inv' /\ OneSender'
  <1>1. CASE TrayThread
    BY <1>1, BootKeeps, StartAllKeeps, UpdateKeeps, TakeStatusKeeps, SaveLearnedKeeps,
       TrayCutsKeeps, TrayWritesKeeps, JoinKeeps, RebuildKeeps DEF TrayThread, TraySaves
  <1>2. CASE User
    BY <1>2, CommandKeeps, QuitKeeps, OpenSettingsKeeps, EditKeeps, OkKeeps, CancelKeeps DEF User
  <1>3. CASE Network
    BY <1>3, NetworkKeeps, WorkerKeeps DEF Network
  <1>4. CASE \E i \in DOMAIN apps : Worker(i)
    BY <1>4, WorkerKeeps
  <1>5. CASE UNCHANGED vars
    BY <1>5, StutterKeeps
  <1> QED BY <1>1, <1>2, <1>3, <1>4, <1>5 DEF Next

\* The inductive invariant holds of every behaviour.
THEOREM InvHolds == Spec => [](Inv /\ OneSender)
  <1>1. Init => Inv /\ OneSender
    BY InitHolds
  <1>2. Inv /\ OneSender /\ [Next]_vars => Inv' /\ OneSender'
    BY NextKeeps
  <1> QED BY <1>1, <1>2, PTL DEF Spec

\* No two senders work on the same address, wherever mDNS sends them: the
\* address can change only while a sender is stopped, and a started one goes
\* to work only after the named mutex showed the address to be free.
THEOREM OneSenderAlways == Spec => []OneSender
  BY InvHolds, PTL

\* The binding a sender saved stays in the file through everything the tray
\* saves: it reads it anew before each save, and whoever is between a load and
\* a save is alone there unless two stretches overlapped.
THEOREM BindingsStay == Spec => []BindingsKept
  <1>1. Inv => BindingsKept
    BY DEF Inv, Files, Link, BindingsKept
  <1> QED BY <1>1, InvHolds, PTL

\* The senders are the devices of the tray's list, in the list's order,
\* whenever the tray handles a message, and an id is marked as learned only in
\* a row whose address's senders heard it.
THEOREM RowsStayAligned == Spec => []RowsAligned
  <1>1. ASSUME Inv PROVE TypeOK
    <2>1. TypeInv /\ Writers
      BY <1>1 DEF Inv, Files
    <2>2. ASSUME NEW i \in DOMAIN apps
          PROVE  /\ apps[i].entry \in Addrs /\ apps[i].addr \in Addrs
                 /\ apps[i].st \in {"idle", "connecting", "streaming"}
                 /\ apps[i].work \in Working \cup {"none", "lock", "ended"}
                 /\ apps[i].work # "none" => apps[i].run
                 /\ apps[i].id \in Ids \cup {None} /\ apps[i].mine \in Config
      <3>1. apps[i] \in App
        BY <2>1, AppsIs
      <3>2. apps[i].work # "none" => apps[i].run
        BY <2>1 DEF TypeInv
      <3>3. apps[i].mine \in Config
        BY <3>1, CleanIsConfig DEF App
      <3> QED BY <3>1, <3>2, <3>3 DEF App
    <2>3. file \in Config /\ cfg \in Config /\ queue \in Nat /\ left \in Nat
          /\ posted \in BOOLEAN
      BY <2>1, CleanIsConfig DEF TypeInv
    <2>4. tray.pc \in PCs /\ open \subseteq DOMAIN apps \cup {0}
      BY <2>1, TrayIs DEF Writers
    <2> QED BY <2>2, <2>3, <2>4 DEF TypeOK, PCs
  <1>2. Inv => AppsAligned
    BY DEF Inv, Aligned, AppsAligned, Settled, Saving
  <1>3. Inv => IdsBelong
    BY DEF Inv, LearnedIds, IdsBelong
  <1>4. Inv => RowsAligned
    BY <1>1, <1>2, <1>3 DEF RowsAligned
  <1> QED BY <1>4, InvHolds, PTL

=============================================================================
