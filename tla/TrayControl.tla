---------------------------- MODULE TrayControl ----------------------------
(***************************************************************************)
(* The tray: one sender per configured iPad, the Settings dialog, the      *)
(* coalesced status message, and config.json, which the tray and its       *)
(* senders load, change and save without a lock.  Senders are reduced to   *)
(* what the tray sees of them: state, id and the USB binding they learn.   *)
(* A new file is written in two steps: opening it empties it.              *)
(***************************************************************************)
EXTENDS Integers, Sequences, FiniteSets

CONSTANTS
    Addrs, Ids,  \* addresses on the network; ids receivers present
    Starts       \* config.json at the start, the iPad that is there, and a
                 \* budget: what the user, the receivers and the network do

CONSTANTS None, Placeholder   \* no id; 127.0.0.1, a leftover of older versions

Entry == [addr : Addrs \cup {Placeholder}, id : Ids \cup {None}, hello : BOOLEAN]
Config == [devs : Seq(Entry), link : Ids \cup {None}]

ASSUME TrayAssumption ==
    /\ None \notin Ids /\ Placeholder \notin Addrs
    /\ \A s \in Starts : s.file \in Config /\ s.at \in Addrs /\ s.id \in Ids /\ s.budget \in Nat

VARIABLES
    file,        \* config.json: the devices and the binding of the cable's serial
    cfg,         \* TrayContext::cfg
    apps,        \* TrayContext::apps
    tray,        \* the tray thread: where it is, whom it stops, what follows
    dialog,      \* the Settings dialog; its rows, pendingIds and what was loaded
    posted, queue, \* g_statusPosted; status messages in the queue
    shown,       \* the states the icon's tooltip shows
    lives, cable, heard, \* which id answers where; on the cable; discoveredById
    open,        \* who is between a Load and its Save: senders, or 0, the tray
    overlapped,  \* two such stretches have overlapped (history)
    bound, told, \* histories: the last binding learned; ids heard by an
                 \* entry's senders
    left

vars == <<file, cfg, apps, tray, dialog, posted, queue, shown, lives, cable, heard, open,
          overlapped, bound, told, left>>
world == <<lives, cable, heard>>
status == <<posted, queue>>
disk == <<file, open, overlapped, bound>>

Defaults == [devs |-> <<>>, link |-> None]
Closed == [open |-> FALSE, rows |-> <<>>, pending |-> [a \in Addrs |-> None], old |-> <<>>]
Working == {"try", "dial", "cut", "write", "welcome", "session"}

Hiccup == left > 0 /\ left' = left - 1
Upd(s, i, v) == [s EXCEPT ![i] = v]

-----------------------------------------------------------------------------
(* Config.                                                                 *)

\* PruneUsbOnlyDevices: the k-th entry that is no leftover comes to place k.
Pruned(q) ==
    LET kept == {i \in DOMAIN q : q[i].addr # Placeholder}
        nth(k) == CHOOSE i \in kept : Cardinality({j \in kept : j =< i}) = k
    IN  [k \in 1 .. Cardinality(kept) |-> q[nth(k)]]

\* Config::Load; of an emptied file: the defaults.  A Load that pruned saves
\* the list as well: the tray's first one does (Boot), and after it no file
\* has leftovers, so that no later Load has anything to prune.
Loaded(f) == [f EXCEPT !.devs = Pruned(@)]

IdFollowsHello(e) == e.id = None \/ e.hello

\* A stretch from a Load to a Save begins; it is not the only one.
Begin(who) == open' = open \cup {who} /\ overlapped' = (overlapped \/ open # {})
Reads == overlapped' = (overlapped \/ open # {})

-----------------------------------------------------------------------------
(* Senders, as started by the tray.                                        *)

NewApp(e) ==
    [entry |-> e.addr, addr |-> e.addr, run |-> FALSE, st |-> "idle", id |-> None,
     follows |-> FALSE, work |-> "none", usb |-> FALSE, mine |-> Defaults]

\* RebuildSenders, once the old ones have stopped.
Rebuilt(devs) == [i \in DOMAIN devs |-> NewApp(devs[i])]

\* ResolveDeviceAddress: where mDNS last heard the entry's id, if ever.
Resolved(e) == IF e.id # None /\ heard[e.id] # None THEN heard[e.id] ELSE e.addr

\* SenderApp::Start, by the tray for entry e; an index past the devices is
\* not followed.
Started(app, e) ==
    IF app.run THEN app
    ELSE [app EXCEPT !.addr = Resolved(e), !.run = TRUE, !.id = e.id,
                     !.follows = IdFollowsHello(e), !.work = "lock"]
StartedAll ==
    [i \in DOMAIN apps |-> IF i \in DOMAIN cfg.devs THEN Started(apps[i], cfg.devs[i]) ELSE apps[i]]

\* NotifyStatus: at most one message is under way.
NotifyStatus == posted' = TRUE /\ queue' = IF posted THEN queue ELSE queue + 1

SetState(i, app, s) ==
    /\ apps' = Upd(apps, i, [app EXCEPT !.st = s])
    /\ IF app.st # s THEN NotifyStatus ELSE UNCHANGED status

Stopping(i) == tray.pc = "join" /\ tray.join # <<>> /\ Head(tray.join) = i

(* Variant: no named mutex per address. *)
NotTaken(i) == FALSE

LockTaken(i) ==
    \E j \in DOMAIN apps \ {i} : apps[j].addr = apps[i].addr /\ apps[j].work \in Working

\* The worker leaves at once, still marked running, if its address is taken.
TakeLock(i) ==
    /\ apps[i].work = "lock"
    /\ apps' = Upd(apps, i, [apps[i] EXCEPT !.work = IF LockTaken(i) THEN "ended" ELSE "try"])
    /\ UNCHANGED <<cfg, tray, dialog, status, shown, world, disk, told, left>>

Attempt(i) ==
    /\ apps[i].work = "try" /\ ~Stopping(i)
    /\ SetState(i, [apps[i] EXCEPT !.work = "dial", !.usb = FALSE], "connecting")
    /\ UNCHANGED <<cfg, tray, dialog, shown, world, disk, told, left>>

\* A typed-in address takes the id of the iPad that answers there.
WifiHello(i) ==
    LET id == lives[apps[i].addr]
    IN  /\ apps[i].work = "dial" /\ ~Stopping(i) /\ id # None
        /\ told' = Upd(told, apps[i].entry, told[apps[i].entry] \cup {id})
        /\ IF apps[i].follows /\ id # apps[i].id
           THEN apps' = Upd(apps, i, [apps[i] EXCEPT !.id = id, !.work = "welcome"]) /\ NotifyStatus
           ELSE apps' = Upd(apps, i, [apps[i] EXCEPT !.work = "welcome"]) /\ UNCHANGED status
        /\ UNCHANGED <<cfg, tray, dialog, shown, world, disk, left>>

\* After a hello over USB the iPad must be this entry's.
Checked(i, id) == IF id = apps[i].id THEN "welcome" ELSE "try"

\* The cable is bound to this entry's id, or to none yet, and unclaimed.  A
\* new binding is saved before the iPad is checked.
UsbHello(i) ==
    LET now == Loaded(file)
    IN  /\ apps[i].work = "dial" /\ ~Stopping(i) /\ apps[i].id # None
        /\ now.link \in {apps[i].id, None} /\ \A j \in DOMAIN apps : ~apps[j].usb
        /\ IF now.link # cable
           THEN /\ apps' = Upd(apps, i, [apps[i] EXCEPT !.usb = TRUE, !.work = "cut",
                                                   !.mine = [now EXCEPT !.link = cable]])
                /\ Begin(i)
           ELSE /\ apps' = Upd(apps, i, [apps[i] EXCEPT !.usb = TRUE, !.work = Checked(i, cable)])
                /\ Reads /\ open' = open
        /\ UNCHANGED <<file, bound, cfg, tray, dialog, status, shown, world, told, left>>

SenderSaves(i) ==
    /\ \/ /\ apps[i].work = "cut"
          /\ file' = Defaults
          /\ apps' = Upd(apps, i, [apps[i] EXCEPT !.work = "write"])
          /\ UNCHANGED <<open, bound>>
       \/ /\ apps[i].work = "write"
          /\ file' = apps[i].mine
          /\ bound' = apps[i].mine.link
          /\ open' = open \ {i}
          /\ apps' = Upd(apps, i, [apps[i] EXCEPT !.work = Checked(i, apps[i].mine.link),
                                              !.mine = Defaults])
    /\ UNCHANGED <<overlapped, cfg, tray, dialog, status, shown, world, told, left>>

Welcome(i) ==
    /\ apps[i].work = "welcome" /\ ~Stopping(i)
    /\ SetState(i, [apps[i] EXCEPT !.work = "session"], "streaming")
    /\ UNCHANGED <<cfg, tray, dialog, shown, world, disk, told, left>>

SessionEnds(i) ==
    /\ apps[i].work = "session" /\ Hiccup
    /\ apps' = Upd(apps, i, [apps[i] EXCEPT !.work = "try", !.usb = FALSE])
    /\ UNCHANGED <<cfg, tray, dialog, status, shown, world, disk, told>>

\* Between attempts, while dialling, waiting or streaming.
WorkerStops(i) ==
    /\ apps[i].work \in {"try", "dial", "welcome", "session"} /\ Stopping(i)
    /\ SetState(i, [apps[i] EXCEPT !.work = "ended", !.usb = FALSE], "idle")
    /\ UNCHANGED <<cfg, tray, dialog, shown, world, disk, told, left>>

-----------------------------------------------------------------------------
(* The tray thread.                                                        *)

Goto(pc) == tray' = [tray EXCEPT !.pc = pc]
StopAll(then) == tray' = [pc |-> "join", join |-> [i \in 1 .. Len(apps) |-> i], then |-> then]

\* RunTray: load, drop leftovers (and save without them), start.
Boot ==
    /\ tray.pc = "boot"
    /\ cfg' = Loaded(file) /\ file' = Loaded(file)
    /\ apps' = Rebuilt(cfg'.devs)
    /\ Goto("start")
    /\ UNCHANGED <<dialog, status, shown, world, open, overlapped, bound, told, left>>

StartAll ==
    /\ tray.pc = "start"
    /\ apps' = StartedAll
    /\ Goto("update")
    /\ UNCHANGED <<cfg, dialog, status, shown, world, disk, told, left>>

\* UpdateStatus.
Update ==
    /\ tray.pc = "update"
    /\ shown' = [i \in DOMAIN apps |-> apps[i].st]
    /\ Goto("idle")
    /\ UNCHANGED <<cfg, apps, dialog, status, world, disk, told, left>>

StatusMessageHandled == posted' = FALSE

(* Variant: the status is shown, then the flag cleared. *)
ShowThenClear ==
    \/ /\ tray.pc = "idle" /\ queue > 0
       /\ queue' = queue - 1
       /\ shown' = [i \in DOMAIN apps |-> apps[i].st]
       /\ Goto("clear")
       /\ UNCHANGED <<cfg, apps, dialog, posted, world, disk, told, left>>
    \/ /\ tray.pc = "clear"
       /\ StatusMessageHandled
       /\ Goto("idle")
       /\ UNCHANGED <<cfg, apps, dialog, queue, shown, world, disk, told, left>>

\* The flag is cleared before anything is read.
TakeStatus ==
    /\ tray.pc = "idle" /\ queue > 0
    /\ queue' = queue - 1
    /\ StatusMessageHandled
    /\ Goto("learn")
    /\ UNCHANGED <<cfg, apps, dialog, shown, world, disk, told, left>>

(* Variant: only an entry without an id takes a learned one. *)
WithFirstLearned ==
    [i \in DOMAIN cfg.devs |->
        IF i \in DOMAIN apps /\ cfg.devs[i].id = None /\ apps[i].id # None
        THEN [cfg.devs[i] EXCEPT !.id = apps[i].id, !.hello = TRUE]
        ELSE cfg.devs[i]]

\* What SaveLearnedIds makes of the devices.
WithLearned ==
    [i \in DOMAIN cfg.devs |->
        IF i \in DOMAIN apps /\ IdFollowsHello(cfg.devs[i]) /\ apps[i].id # None
        THEN [cfg.devs[i] EXCEPT !.id = apps[i].id,
                                 !.hello = @ \/ cfg.devs[i].id # apps[i].id]
        ELSE cfg.devs[i]]

(* Variant: the tray's own copy of the binding is saved. *)
TraysLink == cfg.link

LinkOnDisk == Loaded(file).link

SaveLearnedIds ==
    /\ tray.pc = "learn"
    /\ IF WithLearned = cfg.devs
       THEN Goto("update") /\ UNCHANGED <<cfg, open, overlapped>>
       ELSE /\ cfg' = [devs |-> WithLearned, link |-> LinkOnDisk]
            /\ tray' = [tray EXCEPT !.pc = "cut", !.then = "update"]
            /\ Begin(0)
    /\ UNCHANGED <<file, bound, apps, dialog, status, shown, world, told, left>>

TraySaves ==
    /\ \/ tray.pc = "cut" /\ file' = Defaults /\ Goto("write") /\ open' = open
       \/ /\ tray.pc = "write"
          /\ file' = cfg
          /\ open' = open \ {0}
          /\ IF tray.then = "restart" THEN StopAll("rebuild") ELSE Goto(tray.then)
    /\ UNCHANGED <<overlapped, bound, cfg, apps, dialog, status, shown, world, told, left>>

\* SenderApp::Stop, one sender after the other; the worker is joined.
Join ==
    /\ tray.pc = "join"
    /\ IF tray.join = <<>>
       THEN /\ Goto(tray.then)
            /\ UNCHANGED <<apps, status>>
       ELSE LET i == Head(tray.join)
            IN  /\ apps[i].work \in {"none", "ended"}
                /\ SetState(i, [apps[i] EXCEPT !.run = FALSE, !.work = "none"], "idle")
                /\ tray' = [tray EXCEPT !.join = Tail(@)]
    /\ UNCHANGED <<cfg, dialog, shown, world, disk, told, left>>

(* Variant: the senders there are are started again. *)
SendersReused ==
    /\ tray.pc = "rebuild"
    /\ Goto("start")
    /\ UNCHANGED <<apps, cfg, dialog, status, shown, world, disk, told, left>>

RebuildSenders ==
    /\ tray.pc = "rebuild"
    /\ apps' = Rebuilt(cfg.devs)
    /\ Goto("start")
    /\ UNCHANGED <<cfg, dialog, status, shown, world, disk, told, left>>

-----------------------------------------------------------------------------
(* The user.                                                               *)

\* The menu's Connect, Disconnect and the toggle of one iPad.
Command ==
    /\ tray.pc = "idle" /\ Hiccup
    /\ \/ (\A i \in DOMAIN apps : ~apps[i].run) /\ Goto("start") /\ apps' = apps
       \/ (\E i \in DOMAIN apps : apps[i].run) /\ StopAll("update") /\ apps' = apps
       \/ \E i \in DOMAIN apps \cap DOMAIN cfg.devs :
             IF apps[i].run
             THEN tray' = [pc |-> "join", join |-> <<i>>, then |-> "update"] /\ apps' = apps
             ELSE apps' = Upd(apps, i, Started(apps[i], cfg.devs[i])) /\ Goto("update")
    /\ UNCHANGED <<cfg, dialog, status, shown, world, disk, told>>

Quit ==
    /\ tray.pc = "idle" /\ ~dialog.open /\ Hiccup
    /\ StopAll("over")
    /\ UNCHANGED <<cfg, apps, dialog, status, shown, world, disk, told>>

OpenSettings ==
    LET now == Loaded(file)
    IN  /\ tray.pc = "idle" /\ ~dialog.open /\ Hiccup
        /\ cfg' = now
        /\ Reads
        /\ dialog' = [open |-> TRUE,
                      rows |-> [i \in DOMAIN now.devs |-> now.devs[i].addr],
                      pending |-> [a \in Addrs |->
                                      IF \E i \in DOMAIN now.devs : now.devs[i].addr = a
                                      THEN now.devs[CHOOSE i \in DOMAIN now.devs :
                                                        now.devs[i].addr = a].id
                                      ELSE None],
                      old |-> now.devs]
        /\ UNCHANGED <<file, open, bound, apps, tray, status, shown, world, told>>

Rows == {dialog.rows[i] : i \in DOMAIN dialog.rows}

\* AddSelectedNearby; for an address listed without an id: its id.
AddNearby(a) ==
    /\ lives[a] # None
    /\ IF a \in Rows
       THEN dialog' = [dialog EXCEPT !.pending[a] = IF @ = None THEN lives[a] ELSE @]
       ELSE /\ \A b \in Rows : dialog.pending[b] # lives[a]
            /\ dialog' = [dialog EXCEPT !.rows = Append(@, a),
                                        !.pending[a] = lives[a]]

\* A line typed in on the Advanced tab.
TypeIn(a) ==
    /\ a \notin Rows
    /\ dialog' = [dialog EXCEPT !.rows = Append(@, a)]

\* RemoveSelectedSaved; pendingIds keeps the address's id.
RemoveRow(i) ==
    dialog' = [dialog EXCEPT !.rows = SubSeq(@, 1, i - 1) \o SubSeq(@, i + 1, Len(@))]

EditSettings ==
    /\ tray.pc = "idle" /\ dialog.open /\ Hiccup
    /\ \/ \E a \in Addrs : AddNearby(a) \/ TypeIn(a)
       \/ \E i \in DOMAIN dialog.rows : RemoveRow(i)
    /\ UNCHANGED <<cfg, apps, tray, status, shown, world, disk, told>>

\* What the hellos had taught by now: address -> id.
Learned(a) ==
    LET rows == {i \in DOMAIN cfg.devs : cfg.devs[i].addr = a /\ cfg.devs[i].hello}
    IN  IF rows = {} THEN None ELSE cfg.devs[CHOOSE i \in rows : TRUE].id

\* The row as saved: the id pending for its address, else the learned one.
Row(k) ==
    LET a == dialog.rows[k]
        pend == dialog.pending[a]
        id == IF pend # None THEN pend ELSE Learned(a)
    IN  [addr |-> a, id |-> id, hello |-> id # None /\ Learned(a) = id]

\* IDOK, and OpenSettingsAndApply from there.
Targets(devs) == [i \in DOMAIN devs |-> <<devs[i].addr, devs[i].id>>]
OkSettings ==
    LET devs == [k \in DOMAIN dialog.rows |-> Row(k)]
        then == IF Targets(devs) # Targets(dialog.old) THEN "restart" ELSE "idle"
    IN  /\ tray.pc = "idle" /\ dialog.open
        /\ cfg' = [devs |-> devs, link |-> LinkOnDisk]
        /\ dialog' = Closed
        /\ tray' = [tray EXCEPT !.pc = "cut", !.then = then]
        /\ Begin(0)
        /\ UNCHANGED <<file, bound, apps, status, shown, world, told, left>>

CancelSettings ==
    /\ tray.pc = "idle" /\ dialog.open
    /\ dialog' = Closed
    /\ UNCHANGED <<cfg, apps, tray, status, shown, world, disk, told, left>>

-----------------------------------------------------------------------------
(* The network: an iPad gets an address, discovery hears one, the app is   *)
(* reinstalled and presents another id over the cable.                     *)

Moves(id, a) ==
    /\ lives[a] # id /\ Hiccup
    /\ lives' = [b \in Addrs |-> IF b = a THEN id ELSE IF lives[b] = id THEN None ELSE lives[b]]
    /\ UNCHANGED <<cfg, apps, tray, dialog, status, shown, cable, heard, disk, told>>

\* MergeDiscovered; its own message is not coalesced.
Hears(id) ==
    /\ \E a \in Addrs :
          lives[a] = id /\ heard[id] # a /\ heard' = Upd(heard, id, a)
    /\ Hiccup
    /\ queue' = queue + 1
    /\ UNCHANGED <<cfg, apps, tray, dialog, posted, shown, lives, cable, disk, told>>

Reinstalled ==
    /\ Hiccup
    /\ cable' \in Ids \ {cable}
    /\ UNCHANGED <<cfg, apps, tray, dialog, status, shown, lives, heard, disk, told>>

-----------------------------------------------------------------------------
LearnedRows(f, a) == {e \in {f.devs[i] : i \in DOMAIN f.devs} : e.addr = a /\ e.hello}

Init ==
    /\ \E s \in Starts :
          /\ file = s.file /\ left = s.budget /\ cable = s.id
          /\ lives = [a \in Addrs |-> IF a = s.at THEN s.id ELSE None]
    /\ cfg = Defaults /\ apps = <<>>
    /\ tray = [pc |-> "boot", join |-> <<>>, then |-> "idle"]
    /\ dialog = Closed
    /\ posted = FALSE /\ queue = 0 /\ shown = <<>>
    /\ heard = [id \in Ids |-> None]
    /\ open = {} /\ overlapped = FALSE
    /\ bound = file.link
    /\ told = [a \in Addrs |-> {e.id : e \in LearnedRows(file, a)}]

Worker(i) ==
    \/ TakeLock(i) \/ Attempt(i) \/ WifiHello(i) \/ UsbHello(i) \/ SenderSaves(i) \/ Welcome(i)
    \/ WorkerStops(i)
TrayThread ==
    \/ Boot \/ StartAll \/ Update \/ TakeStatus \/ SaveLearnedIds \/ TraySaves \/ Join
    \/ RebuildSenders
User == Command \/ Quit \/ OpenSettings \/ EditSettings \/ OkSettings \/ CancelSettings
Network ==
    \/ \E id \in Ids : Hears(id) \/ \E a \in Addrs : Moves(id, a)
    \/ Reinstalled
    \/ \E i \in DOMAIN apps : SessionEnds(i)

Next == TrayThread \/ User \/ Network \/ \E i \in DOMAIN apps : Worker(i)
Spec == Init /\ [][Next]_vars

\* The message loop runs, and so does every worker.
Fairness ==
    /\ WF_vars(TrayThread)
    /\ \A i \in 1 .. Cardinality(Addrs) : WF_vars(i \in DOMAIN apps /\ Worker(i))
LiveSpec == Spec /\ Fairness

-----------------------------------------------------------------------------
\* The file, the senders and the tray have values of their types.
TypeOK ==
    /\ file \in Config /\ cfg \in Config
    /\ \A i \in DOMAIN apps :
          /\ apps[i].entry \in Addrs /\ apps[i].addr \in Addrs
          /\ apps[i].st \in {"idle", "connecting", "streaming"}
          /\ apps[i].work \in Working \cup {"none", "lock", "ended"}
          /\ apps[i].work # "none" => apps[i].run
          /\ apps[i].id \in Ids \cup {None} /\ apps[i].mine \in Config
    /\ tray.pc \in {"boot", "start", "update", "idle", "learn", "cut", "write", "join", "rebuild",
                    "over"}
    /\ posted \in BOOLEAN /\ queue \in Nat
    /\ open \subseteq DOMAIN apps \cup {0}
    /\ left \in Nat

\* The tooltip ends up with every sender's state, though at most one message
\* is under way and the states change while one is handled.
StatusShown ==
    <>[](tray.pc = "over" \/ shown = [i \in DOMAIN apps |-> apps[i].st])

\* TrayApp.cpp:438: the binding a sender saved stays in the file through
\* everything the tray saves, unless two load-and-save stretches overlapped.
BindingsKept == ~overlapped /\ open = {} => file.link = bound

AppsAligned ==
    ~overlapped /\ tray.pc \in {"idle", "learn", "update"} =>
        /\ DOMAIN apps = DOMAIN cfg.devs
        /\ \A i \in DOMAIN apps : apps[i].entry = cfg.devs[i].addr

IdsBelong ==
    ~overlapped => \A i \in DOMAIN file.devs :
        file.devs[i].hello /\ file.devs[i].addr # Placeholder =>
            file.devs[i].id \in told[file.devs[i].addr]

\* TrayApp.cpp:67-69: the senders are index-aligned with the devices whenever
\* the tray handles a message, in and after a Settings dialog too, and a
\* learned id is saved for the entry whose sender heard it, through rows
\* removed and added, and ids learned, while Settings is open; unless two
\* load-and-save stretches overlapped, which may bring removed rows back.
RowsAligned == TypeOK /\ AppsAligned /\ IdsBelong

\* No two senders work on the same address, even when mDNS sends two entries
\* to it.
OneSender ==
    \A i, j \in DOMAIN apps :
        i # j /\ apps[i].work \in Working /\ apps[j].work \in Working =>
            apps[i].addr # apps[j].addr

\* An id a sender has learned, the first or a changed one, ends up in the
\* file: unless Settings was confirmed over it and made the older id the
\* user's own, which it does even when nothing was edited.
LearnedWritten ==
    <>[](tray.pc = "over" \/ overlapped
         \/ \A i \in DOMAIN apps : apps[i].run /\ apps[i].follows /\ ~dialog.open =>
                /\ i \in DOMAIN file.devs
                /\ IdFollowsHello(file.devs[i]) => file.devs[i].id = apps[i].id)
=============================================================================
