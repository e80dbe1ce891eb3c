---------------------------- MODULE SessionLink ----------------------------
(***************************************************************************)
(* The threads of one session and the link they share: the worker's loop,  *)
(* the reader thread with the input it injects, the cursor thread with its *)
(* UDP channel, the tray's Stop, and the receiver.  Video frames are any   *)
(* frames here; StreamLoop says which.  SendFrame is two writes under the  *)
(* connection's mutex, and a receiver that does not read blocks either.    *)
(***************************************************************************)
EXTENDS Integers, Sequences, InputContacts

CONSTANT
    Sessions     \* records: `about`, what the session is about, and `budget`,
                 \* a bound on what the user, the receiver and the network do

ASSUME SessionsAssumption ==
    \A c \in Sessions :
        c.about \subseteq {"hello", "ping", "touch", "pen", "pointer", "usb", "faults"} /\ c.budget \in Nat

VARIABLES
    talk, reach, \* fixed: what it is about; does UDP get through?
    stop,        \* SenderApp::Stop: "no", "asked", "closed"
    running,
    sock,        \* "none", "open", "lost" (peer or network), "closed" (by us)
    published,   \* activeConn_ points to the connection
    main,        \* where the worker is
    reader,      \* "off", "recv", "handle", "gone"
    cursor,      \* "off", "tick", "gone"
    send,        \* where each sending thread is in SendFrame
    mutex,       \* sendMutex_
    parse,       \* what the receiver's framing expects next
    reads,       \* does the receiver take data off the socket?
    inbox,       \* frames from the receiver not yet read
    offers,      \* does the receiver's last hello have a cursorPort?
    chan,        \* CursorUdp with its flags; old: kCursorUdpAckMs have passed
    air,         \* positions in datagrams under way
    pos,         \* the pointer: 0 is hidden, each move makes a new one
    told,        \* the cursor thread's last position; -1: none
    ptr,         \* cursorForce, cursorPaused; owed: a shape or a resume since
                 \* the last position (history)
    shown,       \* the newest position the receiver has
    missed,      \* the newest position lost in a datagram (history)
    pongs,       \* pendingPongTs; taken out of it; awaited by the receiver (history)
    left

threads == <<main, reader, cursor>>
link == <<stop, sock, published, reads, inbox>>
writing == <<running, send, mutex, parse>>
pointer == <<offers, chan, air, pos, told, ptr, shown, missed>>
fixed == <<talk, reach>>
vars == <<threads, link, writing, pointer, fixed, pongs, left, injector>>

Senders == {"main", "cursor"}
Positions == Nat
MainPCs == {"idle", "dialled", "hello", "helloRead", "setup", "udp", "probe", "loop",
            "unpause", "pong", "joinCursor", "close", "joinReader", "release", "over"}
usb == "usb" \in talk
Messages ==
    [t : {"ack", "ping"}] \cup [t : {"hello"}, port : BOOLEAN, rebuilds : BOOLEAN]
        \cup [t : {"touch"}, f : Fingers, phase : Phases] \cup [t : {"pen"}, e : PenEvents]

Hiccup == left > 0 /\ left' = left - 1
Fault == "faults" \in talk /\ Hiccup
Live == running /\ stop = "no"      \* while (running && !stopRequested_)

Init ==
    /\ \E c \in Sessions : talk = c.about /\ left = c.budget
    /\ reach \in IF "hello" \in talk THEN BOOLEAN ELSE {TRUE}
    /\ stop = "no" /\ sock = "none" /\ published = FALSE /\ reads = TRUE /\ inbox = <<>>
    /\ main = "idle" /\ reader = "off" /\ cursor = "off"
    /\ running = TRUE
    /\ send = [t \in Senders |-> "idle"] /\ mutex = "free" /\ parse = "len"
    /\ offers = ("hello" \in talk)
    /\ chan = [ready |-> FALSE, confirmed |-> FALSE, gaveUp |-> FALSE, old |-> FALSE]
    /\ air = {} /\ pos = 0 /\ told = -1 /\ shown = 0 /\ missed = 0
    /\ ptr = [force |-> FALSE, paused |-> FALSE, owed |-> FALSE]
    /\ pongs = [queued |-> 0, taken |-> 0, awaited |-> 0]
    /\ InputInit

-----------------------------------------------------------------------------
(* Connection::SendFrame, by thread.                                       *)

(* Variant: no mutex around the two writes. *)
Unlocked(t) == mutex' = mutex

Locked(t) == mutex = "free" /\ mutex' = t

SendStart(t) ==
    /\ send[t] = "want" /\ sock # "closed"
    /\ Locked(t)
    /\ send' = [send EXCEPT ![t] = "len"]
    /\ UNCHANGED <<running, parse, shown, pongs>>

\* The receiver's framing takes in the next part.
Parsed(t, part) ==
    CASE parse = "len" /\ part = "len" -> t
      [] parse = t /\ part = "body" -> "len"
      [] OTHER -> "desync"

Write(t) ==
    /\ send[t] \in {"len", "body"} /\ sock = "open" /\ reads
    /\ parse' = Parsed(t, send[t])
    /\ send' = [send EXCEPT ![t] = IF @ = "len" THEN "body" ELSE "idle"]
    /\ mutex' = IF send[t] = "body" THEN "free" ELSE mutex
    /\ shown' = IF t = "cursor" /\ send[t] = "body" /\ told > shown THEN told ELSE shown
    /\ pongs' = IF t = "main" /\ send[t] = "body" /\ main = "pong"
                THEN [pongs EXCEPT !.awaited = @ - 1] ELSE pongs
    /\ UNCHANGED running

\* send() fails once the socket is lost or closed; the caller gives up.
WriteFails(t) ==
    /\ \/ send[t] \in {"len", "body"} /\ sock # "open"
       \/ send[t] = "want" /\ sock = "closed"
    /\ running' = FALSE
    /\ send' = [send EXCEPT ![t] = "idle"]
    /\ mutex' = IF mutex = t THEN "free" ELSE mutex
    /\ UNCHANGED <<parse, shown, pongs>>

SendStep(t) ==
    /\ SendStart(t) \/ Write(t) \/ WriteFails(t)
    /\ UNCHANGED <<threads, link, offers, chan, air, pos, told, ptr, missed, fixed, left,
                   injector>>

Wants(t) == send' = [send EXCEPT ![t] = "want"] /\ UNCHANGED <<running, mutex, parse>>

-----------------------------------------------------------------------------
(* The cursor's UDP channel, under cursorNetMutex.                         *)

Opened == [ready |-> TRUE, confirmed |-> FALSE, gaveUp |-> FALSE, old |-> FALSE]

\* retuneCursor of a hello with or without a port.
Retuned(port) ==
    CASE port /\ ~usb /\ ~chan.ready -> {chan, Opened}
      [] port /\ (usb \/ chan.ready) -> {chan}
      [] ~port -> {[chan EXCEPT !.ready = FALSE, !.confirmed = FALSE]}

\* cursorAck: only for an open channel.
Acked == IF chan.ready THEN [chan EXCEPT !.confirmed = TRUE] ELSE chan

\* A position on an open channel gives it up if the ack is overdue.
AfterPosition ==
    IF chan.ready /\ ~chan.confirmed /\ ~chan.gaveUp /\ chan.old
    THEN [chan EXCEPT !.ready = FALSE, !.gaveUp = TRUE] ELSE chan

(* Variant: positions leave TCP as soon as there is a channel. *)
AlsoTcpUnlessOpen(c) == ~c.ready

AlsoTcp(c) == ~c.ready \/ ~c.confirmed

-----------------------------------------------------------------------------
(* The worker.                                                             *)

Dial ==
    /\ main = "idle"
    /\ IF stop = "no" THEN sock' = "open" /\ main' = "dialled"
                      ELSE sock' = sock /\ main' = "over"
    /\ UNCHANGED <<reader, cursor, writing, stop, published, reads, inbox, pointer, fixed,
                   pongs, left, injector>>

\* ActiveConn: from here on Stop can close the connection.
Publish ==
    /\ main = "dialled"
    /\ published' = TRUE
    /\ main' = "hello"
    /\ UNCHANGED <<reader, cursor, writing, stop, sock, reads, inbox, pointer, fixed, pongs,
                   left, injector>>

\* Attempt over without a hello.
HelloWait ==
    /\ main = "hello"
    /\ IF stop = "no" THEN main' = "helloRead" /\ UNCHANGED <<sock, published>>
                   ELSE main' = "over" /\ sock' = "closed" /\ published' = FALSE
    /\ UNCHANGED <<reader, cursor, writing, stop, reads, inbox, pointer, fixed, pongs,
                   left, injector>>

\* ReadFrame fails because the socket is gone, or has the hello: welcome.
HelloRead ==
    /\ main = "helloRead"
    /\ \/ /\ sock # "open"
          /\ main' = "over" /\ sock' = "closed" /\ published' = FALSE
          /\ UNCHANGED writing
       \/ /\ sock = "open"
          /\ main' = "setup" /\ Wants("main")
          /\ UNCHANGED <<sock, published>>
    /\ UNCHANGED <<reader, cursor, stop, reads, inbox, pointer, fixed, pongs, left, injector>>

\* The panel is claimed and the pipeline built; `running` begins here.
StartReader ==
    /\ main = "setup" /\ send["main"] = "idle"
    /\ running' = TRUE
    /\ reader' = "recv"
    /\ main' = "udp"
    /\ UNCHANGED <<cursor, send, mutex, parse, link, pointer, fixed, pongs, left, injector>>

\* The first hello's port, with a probe on UDP and its mirror on TCP.
OpenUdp ==
    /\ main = "udp"
    /\ \/ /\ "hello" \in talk /\ ~usb
          /\ chan' = [chan EXCEPT !.ready = TRUE, !.old = FALSE]
          /\ air' = air \cup {0}
          /\ Wants("main")
       \/ chan' = [chan EXCEPT !.ready = @ /\ ~("hello" \in talk /\ ~usb)] /\ UNCHANGED <<air, writing>>
    /\ main' = "probe"
    /\ UNCHANGED <<reader, cursor, link, offers, pos, told, ptr, shown, missed, fixed, pongs,
                   left, injector>>

StartCursor ==
    /\ main = "probe" /\ send["main"] = "idle"
    /\ cursor' = "tick"
    /\ main' = "loop"
    /\ UNCHANGED <<reader, writing, link, pointer, fixed, pongs, left, injector>>

Looping == main = "loop" /\ send["main"] = "idle"

\* An iteration sends at most one frame here: its own ping, which may block,
\* or video ...
Iterate ==
    /\ Looping /\ Live /\ pongs.queued = 0
    /\ Wants("main")
    /\ UNCHANGED <<threads, link, pointer, fixed, pongs, left, injector>>

\* ... or finds that the pipeline cannot be rebuilt: the session is over,
\* with the link still open ...
GiveUp ==
    /\ Looping /\ Live /\ Fault
    /\ running' = FALSE
    /\ UNCHANGED <<threads, send, mutex, parse, link, pointer, fixed, pongs, injector>>

LoopEnds ==
    /\ Looping /\ ~Live
    /\ main' = "joinCursor"
    /\ UNCHANGED <<reader, cursor, writing, link, pointer, fixed, pongs, left, injector>>

\* ... or the image of a new pointer shape ...
NewShape ==
    /\ Looping /\ Live /\ ~ptr.paused /\ "pointer" \in talk /\ Hiccup
    /\ ptr' = [ptr EXCEPT !.force = TRUE, !.owed = TRUE]
    /\ Wants("main")
    /\ UNCHANGED <<threads, link, offers, chan, air, pos, told, shown, missed, fixed, pongs,
                   injector>>

\* ... or enters a pause ...
Pause ==
    /\ Looping /\ Live /\ ~ptr.paused /\ "pointer" \in talk /\ Hiccup
    /\ ptr' = [ptr EXCEPT !.paused = TRUE]
    /\ UNCHANGED <<threads, writing, link, offers, chan, air, pos, told, shown, missed,
                   fixed, pongs, injector>>

(* Variant: cursorForce is set before cursorPaused is cleared. *)
ForceFirst ==
    /\ Looping /\ Live /\ ptr.paused
    /\ ptr' = [ptr EXCEPT !.force = TRUE, !.owed = TRUE]
    /\ main' = "unpause"
    /\ UNCHANGED <<reader, cursor, writing, link, offers, chan, air, pos, told, shown, missed,
                   fixed, pongs, left, injector>>
PausedLast ==
    /\ main = "unpause"
    /\ ptr' = [ptr EXCEPT !.paused = FALSE]
    /\ main' = "loop"
    /\ UNCHANGED <<reader, cursor, writing, link, offers, chan, air, pos, told, shown, missed,
                   fixed, pongs, left, injector>>
ResumeForceFirst == ForceFirst \/ PausedLast

\* ... or leaves one: cursorPaused is cleared, then cursorForce set.
Resume ==
    /\ \/ /\ Looping /\ Live /\ ptr.paused
          /\ ptr' = [ptr EXCEPT !.paused = FALSE]
          /\ main' = "unpause"
       \/ /\ main = "unpause"
          /\ ptr' = [ptr EXCEPT !.force = TRUE, !.owed = TRUE]
          /\ main' = "loop"
    /\ UNCHANGED <<reader, cursor, writing, link, offers, chan, air, pos, told, shown, missed,
                   fixed, pongs, left, injector>>

PongsLeft == [pongs EXCEPT !.taken = @ - 1]

\* ... or the pongs: the queue is swapped out and its pings answered one by
\* one.  A frame that fails ends it; the next one would fail too.
TakePings ==
    /\ Looping /\ Live /\ pongs.queued > 0
    /\ pongs' = [pongs EXCEPT !.queued = 0, !.taken = pongs.queued]
    /\ main' = "pong" /\ Wants("main")
    /\ UNCHANGED <<reader, cursor, link, pointer, fixed, left, injector>>

Pong ==
    /\ main = "pong" /\ send["main"] = "idle"
    /\ pongs' = IF sock = "open" THEN PongsLeft ELSE [pongs EXCEPT !.taken = 0]
    /\ IF pongs'.taken > 0 THEN Wants("main") /\ main' = main
                           ELSE UNCHANGED writing /\ main' = "loop"
    /\ UNCHANGED <<reader, cursor, link, pointer, fixed, left, injector>>

JoinCursor ==
    /\ main = "joinCursor" /\ cursor = "gone"
    /\ main' = "close"
    /\ UNCHANGED <<reader, cursor, writing, link, pointer, fixed, pongs, left, injector>>

(* Variant: the socket stays open while the reader is joined. *)
NotClosed == sock' = sock

Closed == sock' = "closed"

CloseConn ==
    /\ main = "close"
    /\ Closed
    /\ main' = "joinReader"
    /\ UNCHANGED <<reader, cursor, writing, stop, published, reads, inbox, pointer, fixed,
                   pongs, left, injector>>

(* Variant: the reader is not waited for. *)
NoJoin == TRUE

ReaderJoined == reader = "gone"

JoinReader ==
    /\ main = "joinReader" /\ ReaderJoined
    /\ main' = "release"
    /\ UNCHANGED <<reader, cursor, writing, link, pointer, fixed, pongs, left, injector>>

Release ==
    /\ main = "release"
    /\ EndSession
    /\ published' = FALSE
    /\ main' = "over"
    /\ UNCHANGED <<reader, cursor, writing, stop, sock, reads, inbox, pointer, fixed, pongs, left>>

-----------------------------------------------------------------------------
(* The cursor thread.                                                      *)

Ticking == cursor = "tick" /\ send["cursor"] = "idle"

CursorTick ==
    /\ Ticking /\ Live /\ main # "joinCursor"
    /\ IF ~ptr.paused /\ (ptr.force \/ told # pos)
       THEN /\ told' = pos
            /\ ptr' = [ptr EXCEPT !.force = FALSE, !.owed = FALSE]
            /\ air' = IF chan.ready THEN air \cup {pos} ELSE air
            /\ chan' = AfterPosition
            /\ IF AlsoTcp(AfterPosition) THEN Wants("cursor") ELSE UNCHANGED writing
       ELSE /\ ptr.force
            /\ ptr' = [ptr EXCEPT !.force = FALSE]
            /\ UNCHANGED <<told, air, chan, writing>>
    /\ UNCHANGED <<threads, link, offers, pos, shown, missed, fixed, pongs, left, injector>>

\* GetCursorInfo fails: what was forced is forgotten.
CursorBlind ==
    /\ Ticking /\ Live /\ "pointer" \in talk /\ Hiccup
    /\ ptr' = [ptr EXCEPT !.force = FALSE, !.owed = FALSE]
    /\ UNCHANGED <<threads, writing, link, offers, chan, air, pos, told, shown, missed, fixed,
                   pongs, injector>>

CursorStop ==
    /\ Ticking /\ (~Live \/ main = "joinCursor")
    /\ cursor' = "gone"
    /\ UNCHANGED <<main, reader, writing, link, pointer, fixed, pongs, left, injector>>

-----------------------------------------------------------------------------
(* The reader thread.                                                      *)

ReaderEnds ==
    /\ reader = "recv" /\ sock # "open"
    /\ running' = FALSE
    /\ reader' = "gone"
    /\ UNCHANGED <<main, cursor, send, mutex, parse, link, pointer, fixed, pongs, left, injector>>

ReadFrame ==
    /\ reader = "recv" /\ inbox # <<>> /\ sock # "closed"
    /\ reader' = "handle"
    /\ UNCHANGED <<main, cursor, writing, link, pointer, fixed, pongs, left, injector>>

\* One frame handled, whatever becomes of the link meanwhile; then the
\* loop's condition.
Handled ==
    /\ inbox' = Tail(inbox)
    /\ reader' = IF running' /\ stop = "no" THEN "recv" ELSE "gone"
    /\ UNCHANGED <<main, cursor, send, mutex, parse, stop, sock, published, reads, offers, air,
                   pos, told, ptr, shown, missed, fixed, left>>

\* A size that cannot be built ends the session.
HandleHello ==
    /\ reader = "handle" /\ Head(inbox).t = "hello"
    /\ \/ chan' \in Retuned(Head(inbox).port) /\ running' = running
       \/ Head(inbox).rebuilds /\ running' = FALSE /\ chan' = chan
    /\ Handled
    /\ UNCHANGED <<pongs, injector>>

HandleAck ==
    /\ reader = "handle" /\ Head(inbox).t = "ack"
    /\ chan' = Acked
    /\ UNCHANGED <<running, pongs, injector>>
    /\ Handled

HandlePing ==
    /\ reader = "handle" /\ Head(inbox).t = "ping"
    /\ pongs' = [pongs EXCEPT !.queued = @ + 1]
    /\ UNCHANGED <<running, chan, injector>>
    /\ Handled

HandleInput ==
    /\ reader = "handle"
    /\ \/ Head(inbox).t = "touch" /\ HandleTouch(Head(inbox).f, Head(inbox).phase)
       \/ Head(inbox).t = "pen" /\ HandlePen(Head(inbox).e)
    /\ UNCHANGED <<running, chan, pongs>>
    /\ Handled

-----------------------------------------------------------------------------
(* The tray's Stop, and usbWatch moving the session to a cable.            *)

StopAsk ==
    /\ stop = "no" /\ Fault
    /\ stop' = "asked"
    /\ UNCHANGED <<threads, writing, sock, published, reads, inbox, pointer, fixed, pongs, injector>>

StopClose ==
    /\ stop = "asked"
    /\ stop' = "closed"
    /\ sock' = IF published THEN "closed" ELSE sock
    /\ UNCHANGED <<threads, writing, published, reads, inbox, pointer, fixed, pongs, left, injector>>

MoveToUsb ==
    /\ main \in {"loop", "unpause", "pong"} /\ Live /\ ~usb /\ Fault
    /\ running' = FALSE
    /\ sock' = "closed"
    /\ UNCHANGED <<threads, send, mutex, parse, stop, published, reads, inbox, pointer, fixed,
                   pongs, injector>>

-----------------------------------------------------------------------------
(* The receiver, the network and the user.  What becomes of the pointer    *)
(* after the session is not followed.                                      *)

\* Frames the receiver sends of its own accord.
Spoken ==
    {m \in Messages : m.t \in talk /\ m.t # "ack"}

Say ==
    /\ sock = "open" /\ main \notin {"idle", "dialled", "hello", "helloRead"} /\ Hiccup
    /\ \E m \in Spoken :
          /\ inbox' = Append(inbox, m)
          /\ offers' = IF m.t = "hello" THEN m.port ELSE offers
          /\ pongs' = IF m.t = "ping" THEN [pongs EXCEPT !.awaited = @ + 1] ELSE pongs
    /\ UNCHANGED <<threads, writing, stop, sock, published, reads, chan, air, pos, told, ptr,
                   shown, missed, fixed, injector>>

\* A datagram arrives: the receiver takes the newest position and acks.
Deliver(p) ==
    LET heard == reach /\ offers
        ack == [t |-> "ack"]
    IN  /\ Live
        /\ air' = air \ {p}
        /\ shown' = IF heard /\ p > shown THEN p ELSE shown
        /\ missed' = IF ~offers /\ p > missed THEN p ELSE missed
        /\ inbox' = IF heard /\ sock = "open" /\ ack \notin {inbox[i] : i \in DOMAIN inbox}
                    THEN Append(inbox, ack) ELSE inbox
        /\ UNCHANGED <<threads, writing, stop, sock, published, reads, offers, chan, pos, told,
                       ptr, fixed, pongs, left, injector>>

Lose(p) ==
    /\ Live /\ reach /\ Hiccup
    /\ air' = air \ {p}
    /\ missed' = IF p > missed THEN p ELSE missed
    /\ UNCHANGED <<threads, writing, link, offers, chan, pos, told, ptr, shown, fixed, pongs,
                   injector>>

Datagram == \E p \in air : Deliver(p)

AckOverdue ==
    /\ Live /\ chan.ready /\ ~chan.confirmed /\ ~chan.old
    /\ chan' = [chan EXCEPT !.old = TRUE]
    /\ UNCHANGED <<threads, writing, link, offers, air, pos, told, ptr, shown, missed, fixed,
                   pongs, left, injector>>

PointerMoves ==
    /\ Live /\ "pointer" \in talk /\ Hiccup
    /\ pos' = pos + 1
    /\ UNCHANGED <<threads, writing, link, offers, chan, air, told, ptr, shown, missed, fixed,
                   pongs, injector>>

\* The receiver's app is suspended, and comes back.
Stall ==
    /\ sock = "open"
    /\ IF reads THEN Fault ELSE left' = left
    /\ reads' = ~reads
    /\ UNCHANGED <<threads, writing, stop, sock, published, inbox, pointer, fixed, pongs, injector>>

LinkLost ==
    /\ sock = "open" /\ Fault
    /\ sock' = "lost"
    /\ UNCHANGED <<threads, writing, stop, published, reads, inbox, pointer, fixed, pongs, injector>>

-----------------------------------------------------------------------------
Attempt == Dial \/ Publish \/ HelloWait
Session ==
    \/ StartReader \/ OpenUdp \/ StartCursor \/ Iterate \/ LoopEnds \/ TakePings \/ Pong
    \/ Resume
    \/ JoinCursor \/ CloseConn \/ JoinReader \/ Release
CursorStep == CursorTick \/ CursorStop
ReaderStep == ReadFrame \/ ReaderEnds \/ HandleHello \/ HandleAck \/ HandlePing \/ HandleInput
Environment ==
    \/ GiveUp \/ NewShape \/ Pause \/ CursorBlind \/ StopAsk \/ MoveToUsb \/ Say \/ Datagram
    \/ (\E p \in air : Lose(p)) \/ AckOverdue \/ PointerMoves \/ Stall \/ LinkLost

Next ==
    \/ Attempt \/ HelloRead \/ Session \/ CursorStep \/ ReaderStep \/ StopClose
    \/ (\E t \in Senders : SendStep(t)) \/ Environment
Spec == Init /\ [][Next]_vars

\* Threads run; a thread waiting for the mutex gets it in the end, because
\* the others leave it between frames and wait for the capture or a tick;
\* datagrams do not stay under way.  A hello may never come and a stalled
\* receiver may never read again, but a lost socket is noticed.
Fairness ==
    /\ WF_vars(Attempt) /\ WF_vars(HelloRead /\ sock # "open")
    /\ WF_vars(Session) /\ WF_vars(CursorStep) /\ WF_vars(ReaderStep) /\ WF_vars(StopClose)
    /\ \A t \in Senders : SF_vars(SendStep(t))
    /\ WF_vars(Datagram)

LiveSpec == Spec /\ Fairness

-----------------------------------------------------------------------------
BudgetTyped == \E c \in Sessions : talk = c.about /\ left \in 0 .. c.budget
ThreadsTyped ==
    /\ reach \in BOOLEAN
    /\ stop \in {"no", "asked", "closed"} /\ sock \in {"none", "open", "lost", "closed"}
    /\ running \in BOOLEAN /\ published \in BOOLEAN /\ reads \in BOOLEAN
    /\ main \in MainPCs
    /\ reader \in {"off", "recv", "handle", "gone"} /\ cursor \in {"off", "tick", "gone"}
WireTyped ==
    /\ send \in [Senders -> {"idle", "want", "len", "body"}]
    /\ mutex \in Senders \cup {"free"} /\ parse \in Senders \cup {"len", "desync"}
PointerTyped ==
    /\ chan \in [ready : BOOLEAN, confirmed : BOOLEAN, gaveUp : BOOLEAN, old : BOOLEAN]
    /\ air \subseteq Positions /\ pos \in Positions /\ told \in Positions \cup {-1}
    /\ shown \in Positions /\ missed \in Positions
    /\ ptr \in [force : BOOLEAN, paused : BOOLEAN, owed : BOOLEAN]
HeardTyped ==
    /\ inbox \in Seq(Messages) /\ offers \in BOOLEAN
    /\ pongs \in [queued : Positions, taken : Positions, awaited : Int]

\* The variables have their types, the injector's included.
TypeOK ==
    BudgetTyped /\ ThreadsTyped /\ WireTyped /\ PointerTyped /\ HeardTyped /\ InputTypeOK

\* Connection.h:39-45: whole frames never interleave on the wire, whichever
\* threads send and wherever a send fails.
FramesWhole == parse # "desync"

AllReleased == main = "over" => held.touch = {} /\ held.pen = "out"

\* The injector knows every contact that is down while the session runs, and
\* after it nothing of it is left down in Windows, however the link ended and
\* whatever the reader was handling then (SenderApp.cpp, EndSession after the
\* reader's join).
InputSound == TypeOK /\ ContactsKnown /\ AllReleased

\* Stop, a lost link and a move to USB end the session, even with a receiver
\* that does not read, with senders in the middle of a frame, and with a Stop
\* that came before the connection was published; what ends it from inside
\* does so with a receiver that reads, though the socket is still good.
SessionEnds ==
    /\ (stop # "no" \/ sock \in {"lost", "closed"}) ~> main = "over"
    /\ <>[]reads => (main = "loop" /\ ~running ~> main = "over")

PointerShown == cursor # "off" /\ Live /\ ~ptr.paused => shown = pos \/ missed = pos
PingsAnswered == Live => pongs.awaited = 0

\* A receiver that goes on reading ends up with the pointer's last position,
\* with and without the UDP channel, unless the datagram that carried it alone
\* was lost, and with an answer to every ping, whatever arrives while earlier
\* ones are being answered.
PointerArrives == <>[]reads => <>[](PointerShown /\ PingsAnswered)

\* A new shape and the end of a pause are followed by a position, though the
\* flag that asks for one is set and cleared by two threads.
PositionResent ==
    ptr.owed ~> (~ptr.owed \/ ptr.paused \/ ~Live \/ ~reads)
=============================================================================
