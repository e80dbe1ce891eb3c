------------------------------ MODULE UsbClaim ------------------------------
(***************************************************************************)
(* Which cable a sender dials, and how a Wi-Fi session finds out that its  *)
(* iPad has been plugged in: PickUsbForEntry, UsbClaim, the learned        *)
(* serials and the usbWatch thread of src/src/app/SenderApp.cpp, with the  *)
(* attach/detach watcher of src/src/net/UsbMux.cpp.                        *)
(*                                                                         *)
(* The actors are the senders' workers, one usbWatch thread for each Wi-Fi *)
(* session, the shared watcher thread, usbmuxd and the user, who plugs and *)
(* unplugs.  Every sender and the tray share the claims and the file with  *)
(* the learned bindings.                                                   *)
(*                                                                         *)
(* An iPad is the cable it hangs on: its serial and the id it gives in its *)
(* hello are both the iPad.  OldId is the id of an earlier installation of *)
(* the app, NoId no id at all.  What happens before the claim on the panel *)
(* and after the session is PanelShare's and MttHead's.                    *)
(***************************************************************************)
EXTENDS Naturals, FiniteSets

CONSTANTS
    Senders,      \* the SenderApp objects of the process
    Pads,         \* the iPads, and their cables
    NoPad,        \* no cable
    NoId,         \* an empty id
    OldId,        \* the id an iPad had before its app was installed anew
    SavedId,      \* the id each entry was started with
    Typed,        \* the entries with a typed-in address
    OldApps,      \* the iPads whose app gives no id
    Failover,     \* the values usbWifiFailover may take
    MaxAttempts   \* bound: attempts of all senders to connect

ASSUME IdsAssumption == /\ NoPad \notin Pads /\ NoId \notin Pads
                        /\ OldId \notin Pads /\ NoId # OldId
ASSUME EntriesAssumption == /\ SavedId \in [Senders -> Pads \cup {NoId, OldId}]
                            /\ Typed \subseteq Senders
ASSUME SetupAssumption == OldApps \subseteq Pads /\ Failover \subseteq BOOLEAN
ASSUME LimitAssumption == MaxAttempts \in Nat

Ids == Pads \cup {NoId, OldId}

(* What an iPad calls itself in its hello.                                 *)
HelloId(p) == IF p \in OldApps THEN NoId ELSE p

VARIABLES
    \* shared by the senders
    claims,     \* g_usbClaims
    link,       \* the id the configuration file has for each serial
    \* usbmuxd and UsbMuxWatch
    daemon,     \* usbmuxd answers
    plugged,    \* the cables it knows
    listen,     \* where the watcher thread is
    posted,     \* an attach or detach message is under way to the watcher
    lost,       \* its connection is broken, not noticed yet
    kick,       \* UsbMuxWatch::kick is set
    news,       \* the generation has moved since a usbWatch saw it
    \* each sender's worker
    pc,         \* where it is
    entryId,    \* SenderApp::entryId_
    known,      \* knownId
    allowed,    \* usbAllowed
    forceWifi,  \* forceWifiOnce
    stick,      \* stickToUsbAfterSession
    backoff,    \* usbFailCount > 0 and usbFailUntil has not passed
    rejected,   \* rejectedSerial while it counts, or NoPad
    \* the locals of one attempt
    failover,   \* allowWifiFailover
    picked,     \* usbDev, or NoPad
    held,       \* usbClaim has a key
    cut,        \* the cable was pulled, or usbmuxd died, since the pick
    usb,        \* usbSession
    said,       \* hello.id of a USB session
    copy,       \* the configuration loaded to learn a binding
    \* each session's usbWatch thread
    watch,      \* where it is
    check,      \* check
    timed,      \* deadline is the end of the backoff, not max
    over,       \* the thread has ended the session (movedToUsb)
    left        \* attempts left of the bound

muxVars == <<daemon, plugged, listen, posted, lost, kick>>
loopVars == <<entryId, known, allowed, forceWifi, stick, backoff, rejected>>
attemptVars == <<failover, picked, held, cut, usb, said, copy>>
watchVars == <<watch, check, timed, over>>
vars == <<claims, link, daemon, plugged, listen, posted, lost, kick, news, pc,
          entryId, known, allowed, forceWifi, stick, backoff, rejected,
          failover, picked, held, cut, usb, said, copy, watch, check, timed,
          over, left>>

PCs == {"off",    \* no worker
        "top",    \* at the head of the reconnect loop
        "take",   \* a cable is picked, not claimed
        "dial",   \* claimed, ConnectUsbMux
        "wifi",   \* about to connect over Wi-Fi
        "hello",  \* connected, waiting for the hello
        "load",   \* USB hello: about to load the bindings
        "save",   \* about to save them
        "verify", \* is it this entry's iPad?
        "panel",  \* asks for the panel
        "stream", \* session
        "join",   \* session over: joining usbWatch
        "scope"}  \* attempt over, the locals not destroyed yet

Watches == {"off", "look", "arm", "wait", "done"}
Listens == {"none",  \* the watcher thread has not been created
            "open",  \* about to connect
            "up",    \* listening
            "down"}  \* waiting to be kicked

NoCopy == [p \in Pads |-> NoId]

TypeOK ==
    /\ claims \subseteq Pads
    /\ link \in [Pads -> Ids]
    /\ plugged \subseteq Pads
    /\ listen \in Listens
    /\ daemon \in BOOLEAN /\ posted \in BOOLEAN
    /\ lost \in BOOLEAN /\ kick \in BOOLEAN
    /\ pc \in [Senders -> PCs]
    /\ entryId \in [Senders -> Ids] /\ known \in [Senders -> Ids]
    /\ said \in [Senders -> Ids]
    /\ copy \in [Senders -> [Pads -> Ids]]
    /\ picked \in [Senders -> Pads \cup {NoPad}]
    /\ rejected \in [Senders -> Pads \cup {NoPad}]
    /\ watch \in [Senders -> Watches]
    /\ news \in [Senders -> BOOLEAN]
    /\ allowed \in [Senders -> BOOLEAN] /\ forceWifi \in [Senders -> BOOLEAN]
    /\ stick \in [Senders -> BOOLEAN] /\ backoff \in [Senders -> BOOLEAN]
    /\ failover \in [Senders -> BOOLEAN] /\ held \in [Senders -> BOOLEAN]
    /\ cut \in [Senders -> BOOLEAN] /\ usb \in [Senders -> BOOLEAN]
    /\ check \in [Senders -> BOOLEAN] /\ timed \in [Senders -> BOOLEAN]
    /\ over \in [Senders -> BOOLEAN]
    /\ left \in Nat

Everyone(v) == [s \in Senders |-> v]

(* Bindings learned in earlier runs may be there, right or out of date.    *)
Init ==
    /\ claims = {}
    /\ link \in {f \in [Pads -> Ids] : \A p \in Pads : f[p] \in {NoId, OldId, p}}
    /\ daemon \in BOOLEAN
    /\ plugged \in SUBSET Pads
    /\ listen = "none" /\ posted = FALSE /\ lost = FALSE /\ kick = FALSE
    /\ news = Everyone(FALSE)
    /\ pc = Everyone("off")
    /\ entryId = SavedId /\ known = SavedId
    /\ allowed = Everyone(FALSE) /\ forceWifi = Everyone(FALSE)
    /\ stick = Everyone(FALSE) /\ backoff = Everyone(FALSE)
    /\ rejected = Everyone(NoPad)
    /\ failover = Everyone(TRUE)
    /\ picked = Everyone(NoPad) /\ held = Everyone(FALSE)
    /\ cut = Everyone(FALSE) /\ usb = Everyone(FALSE)
    /\ said = Everyone(NoId) /\ copy = Everyone(NoCopy)
    /\ watch = Everyone("off") /\ check = Everyone(FALSE)
    /\ timed = Everyone(FALSE) /\ over = Everyone(FALSE)
    /\ left = MaxAttempts

Goto(s, label) == pc' = [pc EXCEPT ![s] = label]

-----------------------------------------------------------------------------
(* UsbMuxWatch: the shared watcher thread and the generation.              *)

Bump == news' = Everyone(TRUE)

(* ListUsbMuxDevices: an answer kicks the watcher when it is not up.       *)
Query == kick' = (kick \/ (daemon /\ listen \in {"open", "down"}))

(* Watch(): the first user of the generation starts the thread.            *)
StartedListen == IF listen = "none" THEN "open" ELSE listen

ListenOpens ==
    /\ listen = "open"
    /\ IF daemon THEN listen' = "up" /\ Bump
                 ELSE listen' = "down" /\ UNCHANGED news
    /\ lost' = FALSE /\ posted' = FALSE
    /\ UNCHANGED <<claims, link, daemon, plugged, kick, pc, loopVars,
                   attemptVars, watchVars, left>>

ListenHears ==
    /\ listen = "up" /\ posted
    /\ posted' = FALSE
    /\ Bump
    /\ UNCHANGED <<claims, link, daemon, plugged, listen, lost, kick, pc,
                   loopVars, attemptVars, watchVars, left>>

(* The connection drops: waiters look again, and it is reopened once.      *)
ListenDrops ==
    /\ listen = "up" /\ lost /\ ~posted
    /\ listen' = "open"
    /\ Bump
    /\ UNCHANGED <<claims, link, daemon, plugged, posted, lost, kick, pc,
                   loopVars, attemptVars, watchVars, left>>

ListenKicked ==
    /\ listen = "down" /\ kick
    /\ kick' = FALSE
    /\ listen' = "open"
    /\ UNCHANGED <<claims, link, daemon, plugged, posted, lost, news, pc,
                   loopVars, attemptVars, watchVars, left>>

-----------------------------------------------------------------------------
(* usbmuxd and the cables.                                                 *)

Post == posted' = (posted \/ (daemon /\ listen = "up" /\ ~lost))

Plug(p) ==
    /\ p \notin plugged
    /\ plugged' = plugged \cup {p}
    /\ Post
    /\ UNCHANGED <<claims, link, daemon, listen, lost, kick, news, pc,
                   loopVars, attemptVars, watchVars, left>>

(* Pulling a cable breaks every connection over it.                        *)
Pull(p) ==
    /\ p \in plugged
    /\ plugged' = plugged \ {p}
    /\ cut' = [s \in Senders |-> cut[s] \/ picked[s] = p]
    /\ Post
    /\ UNCHANGED <<claims, link, daemon, listen, lost, kick, news, pc,
                   loopVars, failover, picked, held, usb, said, copy,
                   watchVars, left>>

DaemonStops ==
    /\ daemon
    /\ daemon' = FALSE
    /\ lost' = TRUE
    /\ cut' = [s \in Senders |-> cut[s] \/ picked[s] # NoPad]
    /\ UNCHANGED <<claims, link, plugged, listen, posted, kick, news, pc,
                   loopVars, failover, picked, held, usb, said, copy,
                   watchVars, left>>

DaemonStarts ==
    /\ ~daemon
    /\ daemon' = TRUE
    /\ UNCHANGED <<claims, link, plugged, listen, posted, lost, kick, news, pc,
                   loopVars, attemptVars, watchVars, left>>

-----------------------------------------------------------------------------
(* A sender's attempt.                                                     *)

(* RunLoop begins: the locals that outlive an attempt.                     *)
Start(s) ==
    /\ pc[s] = "off"
    /\ Goto(s, "top")
    /\ entryId' = [entryId EXCEPT ![s] = SavedId[s]]
    /\ known' = [known EXCEPT ![s] = SavedId[s]]
    /\ allowed' = [allowed EXCEPT ![s] = SavedId[s] # NoId]
    /\ forceWifi' = [forceWifi EXCEPT ![s] = FALSE]
    /\ stick' = [stick EXCEPT ![s] = FALSE]
    /\ backoff' = [backoff EXCEPT ![s] = FALSE]
    /\ rejected' = [rejected EXCEPT ![s] = NoPad]
    /\ UNCHANGED <<claims, link, muxVars, news, attemptVars, watchVars, left>>

Stopped(s) ==
    /\ pc[s] = "top"
    /\ Goto(s, "off")
    /\ UNCHANGED <<claims, link, muxVars, news, loopVars, attemptVars,
                   watchVars, left>>

(* PickUsbForEntry: the cable bound to this entry's id, else - when not    *)
(* strict - the only free cable nothing is known about.                    *)
Choices(id, skipped, strict) ==
    LET free    == IF daemon THEN plugged \ claims ELSE {}
        mine    == {p \in free : link[p] = id}
        unknown == {p \in free \ {skipped} : link[p] = NoId}
    IN  IF id = NoId THEN {}
        ELSE IF mine # {} THEN mine
        ELSE IF ~strict /\ Cardinality(unknown) = 1 THEN unknown ELSE {}

(* An attempt begins: USB first, unless it is to be skipped this time.     *)
Pick(s) ==
    /\ pc[s] = "top"
    /\ left > 0 /\ left' = left - 1
    /\ \E f \in Failover :
          /\ failover' = [failover EXCEPT ![s] = f]
          /\ IF ~allowed[s] \/ forceWifi[s] \/ (f /\ backoff[s])
             THEN Goto(s, "wifi") /\ UNCHANGED <<picked, kick>>
             ELSE /\ Query
                  /\ IF Choices(known[s], rejected[s], FALSE) = {}
                     THEN Goto(s, "wifi") /\ UNCHANGED picked
                     ELSE /\ \E p \in Choices(known[s], rejected[s], FALSE) :
                                picked' = [picked EXCEPT ![s] = p]
                          /\ Goto(s, "take")
    /\ forceWifi' = [forceWifi EXCEPT ![s] = FALSE]
    /\ UNCHANGED <<claims, link, daemon, plugged, listen, posted, lost, news,
                   entryId, known, allowed, stick, backoff, rejected, held,
                   cut, usb, said, copy, watchVars>>

(* Variant: the pick is taken for granted.                                 *)
TakeUnchecked(s) ==
    /\ pc[s] = "take"
    /\ claims' = claims \cup {picked[s]}
    /\ held' = [held EXCEPT ![s] = TRUE]
    /\ Goto(s, "dial")
    /\ UNCHANGED <<link, muxVars, news, loopVars, failover, picked, cut, usb,
                   said, copy, watchVars, left>>

(* UsbClaim::Take: somebody else may have taken the cable since the pick.  *)
Take(s) ==
    /\ pc[s] = "take"
    /\ IF picked[s] \in claims
       THEN Goto(s, "wifi") /\ UNCHANGED <<claims, held>>
       ELSE /\ claims' = claims \cup {picked[s]}
            /\ held' = [held EXCEPT ![s] = TRUE]
            /\ Goto(s, "dial")
    /\ UNCHANGED <<link, muxVars, news, loopVars, failover, picked, cut, usb,
                   said, copy, watchVars, left>>

(* ConnectUsbMux, refused also while the app on the iPad is not listening. *)
Dial(s) ==
    /\ pc[s] = "dial" /\ ~cut[s]
    /\ usb' = [usb EXCEPT ![s] = TRUE]
    /\ stick' = [stick EXCEPT ![s] = ~failover[s]]
    /\ Goto(s, "hello")
    /\ UNCHANGED <<claims, link, muxVars, news, entryId, known, allowed,
                   forceWifi, backoff, rejected, failover, picked, held, cut,
                   said, copy, watchVars, left>>

DialFails(s) ==
    /\ pc[s] = "dial"
    /\ IF failover[s]
       THEN backoff' = [backoff EXCEPT ![s] = TRUE] /\ Goto(s, "wifi")
       ELSE Goto(s, "scope") /\ UNCHANGED backoff
    /\ UNCHANGED <<claims, link, muxVars, news, entryId, known, allowed,
                   forceWifi, stick, rejected, attemptVars, watchVars, left>>

WifiConnect(s) ==
    /\ pc[s] = "wifi"
    /\ ~failover[s] => ~stick[s]
    /\ Goto(s, "hello")
    /\ UNCHANGED <<claims, link, muxVars, news, loopVars, attemptVars,
                   watchVars, left>>

(* No answer, or Wi-Fi is not wanted after a USB session.                  *)
WifiFails(s) ==
    /\ pc[s] = "wifi"
    /\ Goto(s, "scope")
    /\ UNCHANGED <<claims, link, muxVars, news, loopVars, attemptVars,
                   watchVars, left>>

(* The hello over the cable.                                               *)
UsbHello(s) ==
    /\ pc[s] = "hello" /\ usb[s] /\ ~cut[s]
    /\ said' = [said EXCEPT ![s] = HelloId(picked[s])]
    /\ backoff' = [backoff EXCEPT ![s] = FALSE]
    /\ Goto(s, "load")
    /\ UNCHANGED <<claims, link, muxVars, news, entryId, known, allowed,
                   forceWifi, stick, rejected, failover, picked, held, cut,
                   usb, copy, watchVars, left>>

NoHello(s) ==
    /\ pc[s] = "hello"
    /\ backoff' = [backoff EXCEPT ![s] = @ \/ (usb[s] /\ failover[s])]
    /\ Goto(s, "scope")
    /\ UNCHANGED <<claims, link, muxVars, news, entryId, known, allowed,
                   forceWifi, stick, rejected, attemptVars, watchVars, left>>

(* Learning the binding: the whole configuration is loaded ...             *)
Load(s) ==
    /\ pc[s] = "load"
    /\ IF said[s] # NoId /\ link[picked[s]] # said[s]
       THEN copy' = [copy EXCEPT ![s] = link] /\ Goto(s, "save")
       ELSE Goto(s, "verify") /\ UNCHANGED copy
    /\ UNCHANGED <<claims, link, muxVars, news, loopVars, failover, picked,
                   held, cut, usb, said, watchVars, left>>

(* ... changed, and saved whole.                                           *)
Save(s) ==
    /\ pc[s] = "save"
    /\ link' = [copy[s] EXCEPT ![picked[s]] = said[s]]
    /\ copy' = [copy EXCEPT ![s] = NoCopy]
    /\ Goto(s, "verify")
    /\ UNCHANGED <<claims, muxVars, news, loopVars, failover, picked, held,
                   cut, usb, said, watchVars, left>>

WrongPad(s) == known[s] # NoId /\ said[s] # NoId /\ said[s] # known[s]

(* Variant: whatever iPad answers is taken.                                *)
AcceptAny(s) ==
    /\ pc[s] = "verify"
    /\ Goto(s, "panel")
    /\ UNCHANGED <<claims, link, muxVars, news, loopVars, attemptVars,
                   watchVars, left>>

(* The cable must be this entry's; an iPad without an id cannot be told.   *)
Accept(s) ==
    /\ pc[s] = "verify" /\ ~WrongPad(s)
    /\ Goto(s, "panel")
    /\ UNCHANGED <<claims, link, muxVars, news, loopVars, attemptVars,
                   watchVars, left>>

Reject(s) ==
    /\ pc[s] = "verify" /\ WrongPad(s)
    /\ rejected' = [rejected EXCEPT ![s] = picked[s]]
    /\ forceWifi' = [forceWifi EXCEPT ![s] = TRUE]
    /\ Goto(s, "scope")
    /\ UNCHANGED <<claims, link, muxVars, news, entryId, known, allowed, stick,
                   backoff, attemptVars, watchVars, left>>

(* The hello of whatever iPad has the address; a typed-in entry takes its  *)
(* id for its own.                                                         *)
WifiHello(s) ==
    /\ pc[s] = "hello" /\ ~usb[s]
    /\ \E id \in {HelloId(p) : p \in Pads} :
          IF s \in Typed /\ id \notin {NoId, known[s]}
             THEN /\ known' = [known EXCEPT ![s] = id]
                  /\ entryId' = [entryId EXCEPT ![s] = id]
                  /\ allowed' = [allowed EXCEPT ![s] = TRUE]
             ELSE /\ known' = IF entryId[s] = NoId /\ id # NoId
                              THEN [known EXCEPT ![s] = id] ELSE known
                  /\ UNCHANGED <<entryId, allowed>>
    /\ Goto(s, "panel")
    /\ UNCHANGED <<claims, link, muxVars, news, forceWifi, stick, backoff,
                   rejected, attemptVars, watchVars, left>>

(* Another iPad has the panel: hang up and try again later.                *)
Blocked(s) ==
    /\ pc[s] = "panel"
    /\ Goto(s, "scope")
    /\ UNCHANGED <<claims, link, muxVars, news, loopVars, attemptVars,
                   watchVars, left>>

(* The session starts, over Wi-Fi with a usbWatch thread, which reads the  *)
(* generation and then whether there is a backoff.                         *)
Stream(s) ==
    /\ pc[s] = "panel"
    /\ Goto(s, "stream")
    /\ IF ~usb[s] /\ allowed[s] /\ known[s] # NoId
       THEN /\ watch' = [watch EXCEPT ![s] = "look"]
            /\ check' = [check EXCEPT ![s] = ~backoff[s]]
            /\ news' = [news EXCEPT ![s] = FALSE]
            /\ listen' = StartedListen
       ELSE UNCHANGED <<watch, check, news, listen>>
    /\ UNCHANGED <<claims, link, daemon, plugged, posted, lost, kick, loopVars,
                   attemptVars, timed, over, left>>

(* Variant: the usbWatch thread is not woken.                              *)
SessionEndSilent(s) ==
    /\ pc[s] = "stream"
    /\ Goto(s, "join")
    /\ UNCHANGED <<claims, link, muxVars, news, loopVars, attemptVars,
                   watchVars, left>>

(* The session ends, for whatever reason; usbWatch is woken to be joined.  *)
SessionEnd(s) ==
    /\ pc[s] = "stream"
    /\ Goto(s, "join")
    /\ IF watch[s] = "off" THEN UNCHANGED news ELSE Bump
    /\ UNCHANGED <<claims, link, muxVars, loopVars, attemptVars, watchVars,
                   left>>

Joined(s) ==
    /\ pc[s] = "join" /\ watch[s] \in {"off", "done"}
    /\ watch' = [watch EXCEPT ![s] = "off"]
    /\ check' = [check EXCEPT ![s] = FALSE]
    /\ timed' = [timed EXCEPT ![s] = FALSE]
    /\ over' = [over EXCEPT ![s] = FALSE]
    /\ Goto(s, "scope")
    /\ UNCHANGED <<claims, link, muxVars, news, loopVars, attemptVars, left>>

(* The attempt's locals go, the claim with them.                           *)
ScopeEnd(s) ==
    /\ pc[s] = "scope"
    /\ claims' = IF held[s] THEN claims \ {picked[s]} ELSE claims
    /\ failover' = [failover EXCEPT ![s] = TRUE]
    /\ picked' = [picked EXCEPT ![s] = NoPad]
    /\ held' = [held EXCEPT ![s] = FALSE]
    /\ cut' = [cut EXCEPT ![s] = FALSE]
    /\ usb' = [usb EXCEPT ![s] = FALSE]
    /\ said' = [said EXCEPT ![s] = NoId]
    /\ Goto(s, "top")
    /\ UNCHANGED <<link, muxVars, news, loopVars, copy, watchVars, left>>

(* Time passes: usbFailUntil, rejectedSerialUntil.                         *)
BackoffEnds(s) ==
    /\ backoff[s]
    /\ backoff' = [backoff EXCEPT ![s] = FALSE]
    /\ UNCHANGED <<claims, link, muxVars, news, pc, entryId, known, allowed,
                   forceWifi, stick, rejected, attemptVars, watchVars, left>>

RejectionEnds(s) ==
    /\ rejected[s] # NoPad
    /\ rejected' = [rejected EXCEPT ![s] = NoPad]
    /\ UNCHANGED <<claims, link, muxVars, news, pc, entryId, known, allowed,
                   forceWifi, stick, backoff, attemptVars, watchVars, left>>

-----------------------------------------------------------------------------
(* The usbWatch thread of a Wi-Fi session.                                 *)

(* The loop condition, and a look at the cables when there is reason to:   *)
(* if this entry's own is there, the session is over.                      *)
WatchLook(s) ==
    /\ watch[s] = "look"
    /\ IF pc[s] # "stream"
       THEN watch' = [watch EXCEPT ![s] = "done"] /\ UNCHANGED <<over, kick>>
       ELSE IF check[s] /\ ~backoff[s]
            THEN /\ Query
                 /\ IF Choices(known[s], NoPad, TRUE) # {}
                    THEN /\ over' = [over EXCEPT ![s] = TRUE]
                         /\ watch' = [watch EXCEPT ![s] = "done"]
                    ELSE watch' = [watch EXCEPT ![s] = "arm"] /\ UNCHANGED over
            ELSE watch' = [watch EXCEPT ![s] = "arm"] /\ UNCHANGED <<over, kick>>
    /\ UNCHANGED <<claims, link, daemon, plugged, listen, posted, lost, news,
                   pc, loopVars, attemptVars, check, timed, left>>

(* Variant: the generation is read again before waiting for a change.      *)
WatchArmLate(s) ==
    /\ watch[s] = "arm"
    /\ timed' = [timed EXCEPT ![s] = backoff[s]]
    /\ news' = [news EXCEPT ![s] = FALSE]
    /\ watch' = [watch EXCEPT ![s] = "wait"]
    /\ UNCHANGED <<claims, link, muxVars, pc, loopVars, attemptVars, check,
                   over, left>>

(* The deadline is the end of the backoff, if there is one just now.       *)
WatchArm(s) ==
    /\ watch[s] = "arm"
    /\ timed' = [timed EXCEPT ![s] = backoff[s]]
    /\ watch' = [watch EXCEPT ![s] = "wait"]
    /\ UNCHANGED <<claims, link, muxVars, news, pc, loopVars, attemptVars,
                   check, over, left>>

(* WaitUsbMuxEvent returns: the generation moved, or the deadline passed.  *)
WatchWakes(s) ==
    /\ watch[s] = "wait"
    /\ news[s] \/ (timed[s] /\ ~backoff[s])
    /\ check' = [check EXCEPT ![s] = TRUE]
    /\ news' = [news EXCEPT ![s] = FALSE]
    /\ watch' = [watch EXCEPT ![s] = "look"]
    /\ UNCHANGED <<claims, link, muxVars, pc, loopVars, attemptVars, timed,
                   over, left>>

-----------------------------------------------------------------------------
ListenStep == ListenOpens \/ ListenHears \/ ListenDrops \/ ListenKicked

WatchStep(s) == WatchLook(s) \/ WatchArm(s) \/ WatchWakes(s)

SenderStep(s) ==
    \/ Start(s) \/ Stopped(s) \/ Pick(s) \/ Take(s) \/ Dial(s) \/ DialFails(s)
    \/ WifiConnect(s) \/ WifiFails(s) \/ UsbHello(s) \/ NoHello(s)
    \/ Load(s) \/ Save(s) \/ Accept(s) \/ Reject(s) \/ WifiHello(s)
    \/ Blocked(s) \/ Stream(s) \/ SessionEnd(s) \/ Joined(s) \/ ScopeEnd(s)
    \/ BackoffEnds(s) \/ RejectionEnds(s)

Next ==
    \/ ListenStep
    \/ \E p \in Pads : Plug(p) \/ Pull(p)
    \/ DaemonStops \/ DaemonStarts
    \/ \E s \in Senders : SenderStep(s) \/ WatchStep(s)

Spec == Init /\ [][Next]_vars

(* The watcher and the usbWatch threads run, a session that its usbWatch   *)
(* has closed ends, a worker joins and goes on, and a backoff runs out.    *)
Fairness ==
    /\ WF_vars(ListenStep)
    /\ \A s \in Senders :
          /\ WF_vars(WatchStep(s))
          /\ WF_vars(SessionEnd(s) /\ over[s])
          /\ WF_vars(Joined(s) \/ ScopeEnd(s))
          /\ WF_vars(BackoffEnds(s))

FairSpec == Spec /\ Fairness

-----------------------------------------------------------------------------
(* Properties.                                                             *)

(* "One USB cable feeds one sender": the claims are the cables of the      *)
(* senders that hold one, and no two senders hold the same, although every *)
(* sender picks before it takes.                                           *)
OneSenderPerCable ==
    /\ claims = {picked[s] : s \in {t \in Senders : held[t]}}
    /\ \A s, t \in Senders : held[s] /\ held[t] /\ picked[s] = picked[t] => s = t

(* "The cable we dialed must be this entry's iPad", whatever was guessed   *)
(* or has been saved by others since - if the iPad says who it is.         *)
OwnPadOnCable ==
    \A s \in Senders :
       pc[s] \in {"panel", "stream", "join"} /\ usb[s] =>
          held[s] /\ said[s] \in {known[s], NoId}

OnWifi(s) == pc[s] = "stream" /\ watch[s] # "off"

(* The cable of this entry's iPad is there, and no other sender has it.    *)
CableReady(s) ==
    /\ daemon
    /\ \E p \in plugged :
          /\ link[p] = known[s]
          /\ \A t \in Senders \ {s} : held[t] => picked[t] # p

(* Reason to look again: usbmuxd has reported a change, or the backoff     *)
(* whose end usbWatch waits for is over.                                   *)
Told(s) ==
    /\ ~backoff[s]
    /\ news[s] \/ posted \/ (watch[s] = "wait" /\ timed[s])

(* "Re-check for this iPad's cable when usbmuxd reports an attach/detach", *)
(* "and when a USB dial backoff ends": no event is lost between the look   *)
(* and the wait, and a session whose sender has let go of the cable moves  *)
(* to it while it is there.                                                *)
EventFollowed ==
    \A s \in Senders :
       OnWifi(s) /\ CableReady(s) /\ Told(s) /\ ~held[s]
          ~> ~(OnWifi(s) /\ CableReady(s))

(* The end of a session does not hang on a usbWatch that waits for events. *)
SessionsEnd == \A s \in Senders : pc[s] = "join" ~> pc[s] # "join"
=============================================================================
