------------------------- MODULE SessionLinkProofs -------------------------
(***************************************************************************)
(* Proofs about SessionLink for any sessions, fingers and budgets: frames  *)
(* never interleave on the wire, and the injector knows and releases every *)
(* contact.  Each action is one step of the proof; most of them leave what *)
(* a part of the invariant speaks of alone.                                *)
(***************************************************************************)
EXTENDS SessionLink, FiniteSetTheorems, TLAPS

(* Proofs' names for two types. *)
Channel == [ready : BOOLEAN, confirmed : BOOLEAN, gaveUp : BOOLEAN, old : BOOLEAN]
SendPlaces == {"idle", "want", "len", "body"}

(* The mutex is whose frame is under way, and as long as the socket is     *)
(* open the receiver is in the middle of exactly that frame.               *)
MutexIsWriter == \A t \in Senders : send[t] \in {"len", "body"} <=> mutex = t
ReceiverFollows == sock = "open" => \A t \in Senders : parse = t <=> send[t] = "body"

(* Before the loop nobody is in SendFrame where the worker is about to     *)
(* send, and the cursor thread is not there yet.                           *)
Connecting == {"idle", "dialled", "hello", "helloRead"}
NotSendingYet ==
    /\ main \in Connecting \cup {"udp"} => send["main"] = "idle"
    /\ main \in Connecting \cup {"setup", "udp", "probe"} => cursor = "off"
    /\ cursor = "off" => send["cursor"] = "idle"
    /\ main = "idle" => parse = "len"

\* Steps that send nothing and move the worker; steps of the others.
Silently ==
    \/ Publish \/ HelloWait \/ StartReader \/ StartCursor \/ LoopEnds \/ Resume
    \/ JoinCursor \/ CloseConn \/ JoinReader \/ Release
Elsewhere ==
    \/ GiveUp \/ Pause \/ CursorStop \/ CursorBlind \/ ReaderEnds \/ ReadFrame
    \/ HandleHello \/ HandleAck \/ HandlePing \/ HandleInput \/ StopAsk \/ StopClose
    \/ MoveToUsb \/ Say \/ Datagram \/ AckOverdue \/ PointerMoves \/ Stall
    \/ LinkLost
    \/ \E p \in air : Lose(p)
Sends == HelloRead \/ OpenUdp \/ Iterate \/ NewShape \/ TakePings \/ Pong \/ CursorTick

WireInv ==
    /\ send \in [Senders -> SendPlaces]
    /\ mutex \in Senders \cup {"free"}
    /\ parse \in Senders \cup {"len"}
    /\ MutexIsWriter /\ ReceiverFollows /\ NotSendingYet

-----------------------------------------------------------------------------
(* It holds before anybody sends.                                         *)
LEMMA WireInit == Init => WireInv
  BY DEF Init, WireInv, MutexIsWriter, ReceiverFollows, NotSendingYet, Connecting,
         Senders, SendPlaces

(* A thread that wants to send and was not sending disturbs nobody.        *)
LEMMA WantsKeeps ==
  ASSUME WireInv, NEW t \in Senders, Wants(t), send[t] = "idle",
         sock' = "open" => sock = "open", NotSendingYet'
  PROVE  WireInv'
  BY DEF WireInv, MutexIsWriter, ReceiverFollows, Wants, Senders, SendPlaces

(* Leaving the senders alone keeps it, unless the socket comes back.       *)
LEMMA WritingKeeps ==
  ASSUME WireInv, UNCHANGED <<send, mutex, parse>>,
         sock' = "open" => sock = "open", NotSendingYet'
  PROVE  WireInv'
  BY DEF WireInv, MutexIsWriter, ReceiverFollows

(* A step of SendFrame, by whichever thread.                               *)
LEMMA WireSend == WireInv /\ (\E t \in Senders : SendStep(t)) => WireInv'
  <1> SUFFICES ASSUME WireInv, NEW t \in Senders, SendStep(t) PROVE WireInv'
    OBVIOUS
  <1>1. UNCHANGED <<main, reader, cursor, sock>>
    BY DEF SendStep, threads, link
  <1>2. CASE SendStart(t)
    BY <1>1, <1>2 DEF WireInv, MutexIsWriter, ReceiverFollows, NotSendingYet, Connecting,
                      SendStart, Locked,
                      Senders, SendPlaces
  <1>3. CASE Write(t)
    BY <1>1, <1>3 DEF WireInv, MutexIsWriter, ReceiverFollows, NotSendingYet, Connecting, Write,
                      Parsed,
                      Senders, SendPlaces
  <1>4. CASE WriteFails(t)
    BY <1>1, <1>4 DEF WireInv, MutexIsWriter, ReceiverFollows, NotSendingYet, Connecting,
                      WriteFails,
                      Senders, SendPlaces
  <1> QED BY <1>2, <1>3, <1>4 DEF SendStep

(* The worker's steps that send nothing come after the places they must    *)
(* come after, and none brings the socket back.                            *)
LEMMA WireWorker == WireInv /\ Silently => WireInv'
  <1> SUFFICES ASSUME WireInv, Silently PROVE WireInv'
    OBVIOUS
  <1> USE DEF NotSendingYet, Connecting, threads, link, writing, pointer
  <1>1. CASE Publish
    BY <1>1, WritingKeeps DEF WireInv, Publish
  <1>2. CASE HelloWait
    BY <1>2, WritingKeeps DEF WireInv, HelloWait
  <1>3. CASE StartReader
    BY <1>3, WritingKeeps DEF WireInv, StartReader
  <1>4. CASE StartCursor
    BY <1>4, WritingKeeps DEF WireInv, StartCursor
  <1>5. CASE LoopEnds
    BY <1>5, WritingKeeps DEF WireInv, LoopEnds
  <1>6. CASE Resume
    BY <1>6, WritingKeeps DEF WireInv, Resume
  <1>7. CASE JoinCursor
    BY <1>7, WritingKeeps DEF WireInv, JoinCursor
  <1>8. CASE CloseConn
    BY <1>8, WritingKeeps DEF WireInv, CloseConn, Closed
  <1>9. CASE JoinReader
    BY <1>9, WritingKeeps DEF WireInv, JoinReader
  <1>10. CASE Release
    BY <1>10, WritingKeeps DEF WireInv, Release
  <1> QED BY <1>1, <1>2, <1>3, <1>4, <1>5, <1>6, <1>7, <1>8, <1>9, <1>10 DEF Silently

(* The socket opens once, before anybody sends.                            *)
LEMMA WireDial == WireInv /\ Dial => WireInv'
  <1> SUFFICES ASSUME WireInv, Dial PROVE WireInv'
    OBVIOUS
  <1>1. /\ UNCHANGED <<send, mutex, parse, cursor>>
        /\ main = "idle" /\ main' \in {"dialled", "over"}
    BY DEF Dial, writing
  <1>2. parse = "len" /\ \A t \in Senders : send[t] = "idle"
    BY <1>1 DEF WireInv, NotSendingYet, Connecting, Senders
  <1>3. NotSendingYet'
    BY <1>1, <1>2 DEF WireInv, NotSendingYet, Connecting, Senders
  <1>4. ReceiverFollows'
    BY <1>1, <1>2 DEF ReceiverFollows, Senders
  <1> QED BY <1>1, <1>3, <1>4 DEF WireInv, MutexIsWriter

(* What the cursor thread, the reader, the tray and the world do without   *)
(* sending leaves the senders, the worker and a closed socket alone.       *)
LEMMA WireElsewhere == WireInv /\ Elsewhere => WireInv'
  <1> SUFFICES ASSUME WireInv, Elsewhere PROVE WireInv'
    OBVIOUS
  <1>1. /\ UNCHANGED <<send, mutex, parse, main>>
        /\ sock' = "open" => sock = "open"
        /\ cursor' = cursor \/ (cursor = "tick" /\ cursor' = "gone")
    BY DEF GiveUp, Pause, CursorStop, CursorBlind, ReaderEnds, ReadFrame, HandleHello,
           HandleAck,
           HandlePing, HandleInput, StopAsk, StopClose, MoveToUsb, Say, Datagram,
           AckOverdue, PointerMoves, Stall, LinkLost, Lose, Elsewhere, Deliver, Handled,
           threads, link, writing, pointer, Ticking
  <1>2. NotSendingYet'
    BY <1>1 DEF WireInv, NotSendingYet, Connecting
  <1> QED BY <1>1, <1>2, WritingKeeps

(* A thread that begins to send was not sending.                           *)
LEMMA WireWants == WireInv /\ Sends => WireInv'
  <1> SUFFICES ASSUME WireInv, Sends PROVE WireInv'
    OBVIOUS
  <1>1. CASE HelloRead
    <2>1. NotSendingYet' /\ (sock' = "open" => sock = "open")
      BY <1>1 DEF HelloRead, NotSendingYet, Connecting, WireInv, Wants, threads, link,
              writing, pointer, Senders
    <2> QED BY <1>1, <2>1, WantsKeeps, WritingKeeps
            DEF HelloRead, NotSendingYet, Connecting, WireInv, writing, Senders
  <1>2. CASE OpenUdp
    <2>1. NotSendingYet' /\ (sock' = "open" => sock = "open")
      BY <1>2 DEF OpenUdp, NotSendingYet, Connecting, WireInv, Wants, threads, link,
              writing, pointer, Senders
    <2> QED BY <1>2, <2>1, WantsKeeps, WritingKeeps
            DEF OpenUdp, NotSendingYet, Connecting, WireInv, writing, Senders
  <1>3. CASE Iterate
    <2>1. NotSendingYet' /\ (sock' = "open" => sock = "open")
      BY <1>3 DEF Iterate, Looping, NotSendingYet, Connecting, WireInv, Wants, threads, link,
              writing, pointer, Senders
    <2> QED BY <1>3, <2>1, WantsKeeps, WritingKeeps
            DEF Iterate, Looping, NotSendingYet, Connecting, WireInv, writing, Senders
  <1>4. CASE NewShape
    <2>1. NotSendingYet' /\ (sock' = "open" => sock = "open")
      BY <1>4 DEF NewShape, Looping, NotSendingYet, Connecting, WireInv, Wants, threads, link,
              writing, pointer, Senders
    <2> QED BY <1>4, <2>1, WantsKeeps, WritingKeeps
            DEF NewShape, Looping, NotSendingYet, Connecting, WireInv, writing, Senders
  <1>5. CASE TakePings
    <2>1. NotSendingYet' /\ (sock' = "open" => sock = "open")
      BY <1>5 DEF TakePings, Looping, NotSendingYet, Connecting, WireInv, Wants, threads, link,
              writing, pointer, Senders
    <2> QED BY <1>5, <2>1, WantsKeeps, WritingKeeps
            DEF TakePings, Looping, NotSendingYet, Connecting, WireInv, writing, Senders
  <1>6. CASE Pong
    <2>1. NotSendingYet' /\ (sock' = "open" => sock = "open")
      BY <1>6 DEF Pong, NotSendingYet, Connecting, WireInv, Wants, threads, link,
              writing, pointer, Senders
    <2> QED BY <1>6, <2>1, WantsKeeps, WritingKeeps
            DEF Pong, NotSendingYet, Connecting, WireInv, writing, Senders
  <1>7. CASE CursorTick
    <2>1. NotSendingYet' /\ (sock' = "open" => sock = "open")
      BY <1>7 DEF CursorTick, Ticking, NotSendingYet, Connecting, WireInv, Wants, threads, link,
              writing, pointer, Senders
    <2> QED BY <1>7, <2>1, WantsKeeps, WritingKeeps
            DEF CursorTick, Ticking, NotSendingYet, Connecting, WireInv, writing, Senders
  <1> QED BY <1>1, <1>2, <1>3, <1>4, <1>5, <1>6, <1>7 DEF Sends

(* Every step keeps the mutex, its writer and the receiver's framing in    *)
(* agreement.                                                              *)
LEMMA WireNext == WireInv /\ [Next]_vars => WireInv'
  <1> SUFFICES ASSUME WireInv, [Next]_vars PROVE WireInv'
    OBVIOUS
  <1>1. CASE UNCHANGED vars
    BY <1>1, WritingKeeps DEF vars, threads, link, writing, WireInv, NotSendingYet
  <1>2. CASE Next
    BY <1>2, WireSend, WireWorker, WireDial, WireElsewhere, WireWants
    DEF Next, Attempt, Session, CursorStep, ReaderStep, Environment, Silently,
        Elsewhere, Sends
  <1> QED BY <1>1, <1>2

(* Frames never interleave on the wire, whichever threads send, wherever   *)
(* a send fails and whatever ends the session (Connection.cpp, SendFrame). *)
THEOREM FramesStayWhole == Spec => []FramesWhole
  <1>1. WireInv => FramesWhole
    BY DEF WireInv, FramesWhole, Senders
  <1> QED BY <1>1, WireInit, WireNext, PTL DEF Spec

-----------------------------------------------------------------------------
(* The contacts.                                                           *)

(* Only a device that was made injects, and before the reader starts and   *)
(* after it is joined nobody does.                                         *)
DevicesMade ==
    /\ touches # {} => touchDev = "made"
    /\ pen.inRange \/ pen.down => penDev = "made"
NothingHeld == held.touch = {} /\ held.pen = "out"
ReaderInPlace ==
    /\ main \in {"idle", "dialled", "hello", "helloRead", "setup"} => reader = "off"
    /\ main \in {"release", "over"} => reader \in {"off", "gone"}
    /\ reader = "off" \/ main = "over" => NothingHeld
    /\ reader = "handle" => inbox # <<>>

ContactInv == InputTypeOK /\ ContactsKnown /\ DevicesMade

(* The device has room for every finger.                                   *)
Room == IsFiniteSet(Fingers) /\ Cardinality(Fingers) <= MaxContacts

(* With room for every finger, Windows takes every frame.                  *)
LEMMA FrameTaken ==
  ASSUME Room, NEW frame \in SUBSET Fingers, NEW lifted
  PROVE  Flushed(frame, lifted) = frame \ lifted
  <1>1. IsFiniteSet(frame) /\ Cardinality(frame) <= Cardinality(Fingers)
    BY FS_Subset DEF Room
  <1>2. Cardinality(frame) \in Nat /\ Cardinality(Fingers) \in Nat
    BY <1>1, FS_CardinalityType DEF Room
  <1> QED BY <1>1, <1>2, ContactsAssumption DEF Room, Flushed

(* A touch changes what the injector notes and what Windows holds alike.   *)
LEMMA TouchKeeps ==
  ASSUME Room, ContactInv, NEW f \in Fingers, NEW phase \in Phases, HandleTouch(f,
  phase)
  PROVE  ContactInv'
  <1> DEFINE lifted == IF phase = "up" THEN {f} ELSE {}
  <1>1. touches \cup {f} \in SUBSET Fingers
    BY DEF ContactInv, InputTypeOK
  <1>2. Flushed(touches \cup {f}, lifted) = (touches \cup {f}) \ lifted
    BY <1>1, FrameTaken
  <1>3. PICK dev \in Ensured(touchDev) :
          /\ touchDev' = dev
          /\ IF dev = "failed" \/ (phase = "up" /\ f \notin touches)
             THEN UNCHANGED <<touches, held>>
             ELSE /\ touches' = IF phase = "up" THEN touches \ {f} ELSE touches \cup {f}
                  /\ held' = [held EXCEPT !.touch = Flushed(touches \cup {f}, lifted)]
    BY DEF HandleTouch
  <1>4. dev \in {"made", "failed"} /\ (touchDev = "made" => dev = "made")
    BY DEF Ensured, ContactInv, InputTypeOK, Devices
  <1>5. UNCHANGED <<penDev, pen>>
    BY DEF HandleTouch
  <1>6. CASE dev = "failed" \/ (phase = "up" /\ f \notin touches)
    BY <1>3, <1>4, <1>5, <1>6
    DEF ContactInv, InputTypeOK, ContactsKnown, DevicesMade, Devices
  <1>7. CASE ~(dev = "failed" \/ (phase = "up" /\ f \notin touches))
    <2>1. /\ touches' = (touches \cup {f}) \ lifted
          /\ held' = [held EXCEPT !.touch = (touches \cup {f}) \ lifted]
      BY <1>2, <1>3, <1>7
    <2> QED BY <1>3, <1>4, <1>5, <1>7, <2>1
            DEF ContactInv, InputTypeOK, ContactsKnown, DevicesMade, Devices
  <1> QED BY <1>6, <1>7

(* So does each pen event.                                                 *)
LEMMA PenKeeps ==
  ASSUME ContactInv, NEW e \in PenEvents, HandlePen(e)
  PROVE  ContactInv'
  <1>1. PICK dev \in Ensured(penDev) :
          /\ penDev' = dev
          /\ IF dev = "failed" THEN UNCHANGED <<pen, held>>
             ELSE /\ pen' = PenAfter(e)
                  /\ held' = [held EXCEPT !.pen = Injected(e)]
    BY DEF HandlePen
  <1>2. dev \in {"made", "failed"} /\ (penDev = "made" => dev = "made")
    BY DEF Ensured, ContactInv, InputTypeOK, Devices
  <1>3. UNCHANGED <<touchDev, touches>>
    BY DEF HandlePen
  <1>4. CASE dev = "failed"
    BY <1>1, <1>2, <1>3, <1>4
    DEF ContactInv, InputTypeOK, ContactsKnown, DevicesMade, Devices
  <1>5. CASE dev # "failed"
    <2>1. /\ pen \in [down : BOOLEAN, inRange : BOOLEAN]
          /\ held \in [touch : SUBSET Fingers, pen : PenStates]
      BY DEF ContactInv, InputTypeOK
    <2>2. /\ pen' = PenAfter(e)
          /\ held' = [held EXCEPT !.pen = Injected(e)]
      BY <1>1, <1>5
    <2>3. ASSUME NEW d \in BOOLEAN, NEW r \in BOOLEAN, NEW i \in PenStates,
                 PenAfter(e) = [down |-> d, inRange |-> r], Injected(e) = i,
                 i # "out" => r, i = "contact" <=> d, d => r
          PROVE  ContactInv'
      <3>1. pen' \in [down : BOOLEAN,
      inRange : BOOLEAN] /\ pen'.down = d /\ pen'.inRange = r
        BY <2>2, <2>3
      <3>2. /\ held' \in [touch : SUBSET Fingers, pen : PenStates]
            /\ held'.pen = i /\ held'.touch = held.touch
        BY <2>1, <2>2, <2>3
      <3>3. InputTypeOK'
        BY <1>1, <1>2, <1>3, <3>1, <3>2 DEF ContactInv, InputTypeOK, Devices
      <3>4. ContactsKnown'
        BY <1>3, <2>3, <3>1, <3>2 DEF ContactInv, ContactsKnown
      <3>5. DevicesMade'
        BY <1>1, <1>2, <1>3, <1>5 DEF ContactInv, DevicesMade
      <3> QED BY <3>3, <3>4, <3>5 DEF ContactInv
    <2>4. /\ held.pen \in PenStates /\ pen.down \in BOOLEAN /\ pen.inRange \in BOOLEAN
          /\ held.pen # "out" => pen.inRange
          /\ held.pen = "contact" <=> pen.down
      BY <2>1 DEF ContactInv, ContactsKnown
    <2>5. CASE e = "down"
      <3>1. PenAfter(e) = [down |-> TRUE, inRange |-> TRUE]
        BY <2>1, <2>5 DEF PenAfter
      <3>2. Injected(e) = "contact"
        BY <2>5 DEF Injected
      <3> QED BY <2>3, <2>4, <3>1, <3>2 DEF PenStates
    <2>6. CASE e = "move"
      <3>1. PenAfter(e) = [down |-> pen.down, inRange |-> TRUE]
        BY <2>1, <2>6 DEF PenAfter
      <3>2. Injected(e) = IF pen.down THEN "contact" ELSE "hover"
        BY <2>6 DEF Injected
      <3> QED BY <2>3, <2>4, <3>1, <3>2 DEF PenStates
    <2>7. CASE e = "up"
      <3>1. PenAfter(e) = [down |-> FALSE, inRange |-> pen.inRange]
        BY <2>1, <2>7 DEF PenAfter
      <3>2. Injected(e) = IF pen.down THEN "hover" ELSE held.pen
        BY <2>7 DEF Injected
      <3> QED BY <2>3, <2>4, <3>1, <3>2 DEF PenStates
    <2>8. CASE e = "hover"
      <3>1. PenAfter(e) = [down |-> FALSE, inRange |-> TRUE]
        BY <2>1, <2>8 DEF PenAfter
      <3>2. Injected(e) = "hover"
        BY <2>8 DEF Injected
      <3> QED BY <2>3, <2>4, <3>1, <3>2 DEF PenStates
    <2>9. CASE e = "enter"
      <3>1. PenAfter(e) = [down |-> pen.down, inRange |-> TRUE]
        BY <2>1, <2>9 DEF PenAfter
      <3>2. Injected(e) = IF pen.inRange THEN held.pen ELSE "hover"
        BY <2>9 DEF Injected
      <3> QED BY <2>3, <2>4, <3>1, <3>2 DEF PenStates
    <2>10. CASE e = "leave"
      <3>1. PenAfter(e) = [down |-> pen.down /\ ~pen.inRange, inRange |-> FALSE]
        BY <2>1, <2>10 DEF PenAfter
      <3>2. Injected(e) = IF pen.inRange THEN "out" ELSE held.pen
        BY <2>10 DEF Injected
      <3> QED BY <2>3, <2>4, <3>1, <3>2 DEF PenStates
    <2> QED BY <2>5, <2>6, <2>7, <2>8, <2>9, <2>10 DEF PenEvents
  <1> QED BY <1>4, <1>5

(* EndSession lifts every contact the injector knows, which are all.       *)
LEMMA EndReleases ==
  ASSUME Room, ContactInv, EndSession
  PROVE  ContactInv' /\ NothingHeld'
  <1>1. touches \in SUBSET Fingers
    BY DEF ContactInv, InputTypeOK
  <1>2. Flushed(touches, touches) = {}
    BY <1>1, FrameTaken
  <1> QED BY <1>1, <1>2
          DEF EndSession, ContactInv, InputTypeOK, ContactsKnown, DevicesMade,
              NothingHeld, Devices,
              PenStates

-----------------------------------------------------------------------------
(* Types, and where the reader is.                                         *)

PongsTaken == main = "pong" => pongs.taken > 0

LinkInv == TypeOK /\ ContactInv /\ ReaderInPlace /\ PongsTaken

(* What leaves the injector alone leaves the contacts as they are.         *)
LEMMA InjectorStill ==
  ASSUME ContactInv, UNCHANGED injector
  PROVE  ContactInv' /\ (NothingHeld' <=> NothingHeld)
  BY DEF ContactInv, InputTypeOK, ContactsKnown, DevicesMade, NothingHeld, injector

(* Only Hiccup spends the budget.                                          *)
LEMMA BudgetStep ==
  ASSUME BudgetTyped, Next
  PROVE  BudgetTyped'
  <1>1. talk' = talk /\ (left' = left \/ Hiccup)
    BY DEF Next, Attempt, Session, CursorStep, ReaderStep, Environment, Fault,
           SendStep, Lose, Handled, Deliver, fixed, Datagram, EndSession, Dial,
           Publish, HelloWait, HelloRead, StartReader, OpenUdp, StartCursor, Iterate,
           GiveUp, LoopEnds, NewShape, Pause, Resume, TakePings, Pong, JoinCursor,
           CloseConn, JoinReader, Release, CursorTick, CursorBlind, CursorStop,
           ReaderEnds, ReadFrame, HandleHello, HandleAck, HandlePing, HandleInput,
           StopAsk, StopClose, MoveToUsb, Say, Datagram, AckOverdue, PointerMoves,
           Stall, LinkLost
  <1>2. PICK c \in Sessions : talk = c.about /\ left \in 0 .. c.budget
    BY DEF BudgetTyped
  <1>3. c.budget \in Nat
    BY SessionsAssumption
  <1> QED BY <1>1, <1>2, <1>3 DEF BudgetTyped, Hiccup

(* Threads, socket and flags keep their types.                             *)
LEMMA ThreadsStep ==
  ASSUME ThreadsTyped, Next, WireInv
  PROVE  ThreadsTyped'
  <1> USE DEF ThreadsTyped, threads, link, writing, pointer, fixed, Wants, Looping,
              Ticking, MainPCs
  <1>1. CASE Dial
    BY <1>1 DEF Dial
  <1>2. CASE Publish
    BY <1>2 DEF Publish
  <1>3. CASE HelloWait
    BY <1>3 DEF HelloWait
  <1>4. CASE HelloRead
    BY <1>4 DEF HelloRead
  <1>5. CASE StartReader
    BY <1>5 DEF StartReader
  <1>6. CASE OpenUdp
    BY <1>6 DEF OpenUdp
  <1>7. CASE StartCursor
    BY <1>7 DEF StartCursor
  <1>8. CASE Iterate
    BY <1>8 DEF Iterate
  <1>9. CASE GiveUp
    BY <1>9 DEF GiveUp
  <1>10. CASE LoopEnds
    BY <1>10 DEF LoopEnds
  <1>11. CASE NewShape
    BY <1>11 DEF NewShape
  <1>12. CASE Pause
    BY <1>12 DEF Pause
  <1>13. CASE Resume
    BY <1>13 DEF Resume
  <1>14. CASE TakePings
    BY <1>14 DEF TakePings
  <1>15. CASE Pong
    BY <1>15 DEF Pong
  <1>16. CASE JoinCursor
    BY <1>16 DEF JoinCursor
  <1>17. CASE CloseConn
    BY <1>17 DEF CloseConn, Closed
  <1>18. CASE JoinReader
    BY <1>18 DEF JoinReader
  <1>19. CASE Release
    BY <1>19 DEF Release
  <1>20. CASE CursorTick
    BY <1>20 DEF CursorTick
  <1>21. CASE CursorBlind
    BY <1>21 DEF CursorBlind
  <1>22. CASE CursorStop
    BY <1>22 DEF CursorStop
  <1>23. CASE ReaderEnds
    <2>1. running' = FALSE /\ reader' = "gone"
      BY <1>23 DEF ReaderEnds
    <2>2. UNCHANGED <<main, cursor, link, fixed>>
      BY <1>23 DEF ReaderEnds
    <2> QED BY <2>1, <2>2
  <1>24. CASE ReadFrame
    BY <1>24 DEF ReadFrame
  <1>25. CASE HandleHello
    <2>1. running' \in BOOLEAN /\ reader' \in {"recv", "gone"}
      BY <1>25 DEF HandleHello, Handled
    <2> QED BY <1>25, <2>1 DEF HandleHello, Handled
  <1>26. CASE HandleAck
    BY <1>26 DEF HandleAck, Handled
  <1>27. CASE HandlePing
    BY <1>27 DEF HandlePing, Handled
  <1>28. CASE HandleInput
    BY <1>28 DEF HandleInput, Handled
  <1>29. CASE StopAsk
    BY <1>29 DEF StopAsk
  <1>30. CASE StopClose
    BY <1>30 DEF StopClose
  <1>31. CASE MoveToUsb
    BY <1>31 DEF MoveToUsb
  <1>32. CASE Say
    BY <1>32 DEF Say
  <1>33. CASE Datagram
    BY <1>33 DEF Datagram, Deliver
  <1>34. CASE AckOverdue
    BY <1>34 DEF AckOverdue
  <1>35. CASE PointerMoves
    BY <1>35 DEF PointerMoves
  <1>36. CASE Stall
    BY <1>36 DEF Stall
  <1>37. CASE LinkLost
    BY <1>37 DEF LinkLost
  <1>38. CASE \E p \in air : Lose(p)
    BY <1>38 DEF Lose
  <1>39. CASE \E t \in Senders : SendStep(t)
    BY <1>39 DEF SendStep, SendStart, Write, WriteFails
  <1> QED BY <1>1, <1>2, <1>3, <1>4, <1>5, <1>6, <1>7, <1>8, <1>9, <1>10, <1>11, <1>12,
  <1>13, <1>14, <1>15, <1>16, <1>17, <1>18, <1>19, <1>20, <1>21, <1>22, <1>23, <1>24,
  <1>25, <1>26, <1>27, <1>28, <1>29, <1>30, <1>31, <1>32, <1>33, <1>34, <1>35, <1>36,
  <1>37, <1>38, <1>39 DEF Next, Attempt, Session, CursorStep, ReaderStep, Environment

(* The pointer and its channel keep their types.                           *)
LEMMA PointerStep ==
  ASSUME PointerTyped, HeardTyped, ReaderInPlace, Next
  PROVE  PointerTyped'
  <1> USE DEF PointerTyped, Channel, Positions, Looping
  <1>1. CASE StartReader
    BY <1>1 DEF StartReader, pointer
  <1>2. CASE OpenUdp
    <2>1. \/ chan' = [chan EXCEPT !.ready = TRUE, !.old = FALSE]
          \/ \E b \in BOOLEAN : chan' = [chan EXCEPT !.ready = b]
      BY <1>2 DEF OpenUdp
    <2>2. chan' \in Channel
      BY <2>1
    <2> QED BY <1>2, <2>2 DEF OpenUdp
  <1>3. CASE NewShape
    BY <1>3 DEF NewShape
  <1>4. CASE Pause
    BY <1>4 DEF Pause
  <1>5. CASE Resume
    BY <1>5 DEF Resume
  <1>6. CASE CursorTick
    <2>1. AfterPosition \in Channel
      BY DEF AfterPosition
    <2>2. chan' \in Channel
      BY <1>6, <2>1 DEF CursorTick
    <2>3. air' \subseteq Positions /\ told' \in Positions \cup {-1}
      BY <1>6 DEF CursorTick
    <2>4. ptr' \in [force : BOOLEAN, paused : BOOLEAN, owed : BOOLEAN]
      BY <1>6 DEF CursorTick
    <2> QED BY <1>6, <2>2, <2>3, <2>4 DEF CursorTick
  <1>7. CASE CursorBlind
    BY <1>7 DEF CursorBlind
  <1>8. CASE HandleHello
    <2>1. ASSUME NEW port \in BOOLEAN
          PROVE  Retuned(port) \subseteq Channel
      <3>1. chan \in Channel /\ Opened \in Channel
        BY DEF Opened
      <3>2. [chan EXCEPT !.ready = FALSE, !.confirmed = FALSE] \in Channel
        BY <3>1
      <3>3. CASE port
        BY <3>1, <3>3 DEF Retuned
      <3>4. CASE ~port
        BY <3>2, <3>4 DEF Retuned
      <3> QED BY <3>3, <3>4
    <2>2. Head(inbox) \in Messages /\ Head(inbox).t = "hello"
      BY <1>8 DEF HandleHello, HeardTyped, ReaderInPlace
    <2>3. Head(inbox).port \in BOOLEAN
      BY <2>2 DEF Messages
    <2>4. chan' \in Retuned(Head(inbox).port) \/ chan' = chan
      BY <1>8 DEF HandleHello
    <2>5. chan' \in Channel
      BY <2>1, <2>3, <2>4
    <2> QED BY <1>8, <2>5 DEF HandleHello, Handled
  <1>9. CASE HandleAck
    BY <1>9 DEF HandleAck, Handled, Acked
  <1>10. CASE Datagram
    BY <1>10 DEF Datagram, Deliver
  <1>11. CASE AckOverdue
    BY <1>11 DEF AckOverdue
  <1>12. CASE PointerMoves
    BY <1>12 DEF PointerMoves
  <1>13. CASE \E p \in air : Lose(p)
    BY <1>13 DEF Lose
  <1>14. CASE \E t \in Senders : SendStep(t)
    BY <1>14 DEF SendStep, SendStart, Write, WriteFails
  <1>15. CASE
       \/ Dial \/ Publish \/ HelloWait \/ HelloRead \/ StartCursor \/ Iterate \/ GiveUp
       \/ LoopEnds \/ TakePings \/ Pong \/ JoinCursor \/ CloseConn \/ JoinReader
       \/ Release
       \/ CursorStop \/ ReaderEnds \/ ReadFrame \/ HandlePing \/ HandleInput
       \/ StopAsk \/ StopClose
       \/ MoveToUsb \/ Say \/ Stall \/ LinkLost
    BY <1>15 DEF pointer, Handled, Dial, Publish, HelloWait, HelloRead, StartCursor,
                 Iterate, GiveUp, LoopEnds, TakePings,
           Pong, JoinCursor, CloseConn, JoinReader, Release, CursorStop, ReaderEnds,
           ReadFrame, HandlePing, HandleInput, StopAsk, StopClose, MoveToUsb, Say,
           Stall,
           LinkLost
  <1> QED BY <1>1, <1>2, <1>3, <1>4, <1>5, <1>6, <1>7, <1>8, <1>9, <1>10, <1>11, <1>12,
  <1>13, <1>14, <1>15
      DEF Next, Attempt, Session, CursorStep, ReaderStep, Environment

(* What was heard and is to be answered keeps its type.                    *)
LEMMA HeardStep ==
  ASSUME HeardTyped, ReaderInPlace, PongsTaken, Next
  PROVE  HeardTyped'
  <1> USE DEF HeardTyped, Positions, ReaderInPlace, PongsTaken
  <1>1. CASE TakePings
    BY <1>1 DEF TakePings, link, pointer
  <1>2. CASE Pong
    BY <1>2 DEF Pong, PongsLeft, link, pointer
  <1>3. CASE HandleHello
    BY <1>3 DEF HandleHello, Handled
  <1>4. CASE HandleAck
    BY <1>4 DEF HandleAck, Handled
  <1>5. CASE HandlePing
    BY <1>5 DEF HandlePing, Handled
  <1>6. CASE HandleInput
    BY <1>6 DEF HandleInput, Handled
  <1>7. CASE Say
    <2>1. PICK m \in Spoken :
            /\ inbox' = Append(inbox, m)
            /\ offers' = IF m.t = "hello" THEN m.port ELSE offers
            /\ pongs' = IF m.t = "ping" THEN [pongs EXCEPT !.awaited = @ + 1] ELSE pongs
      BY <1>7 DEF Say
    <2>2. m \in Messages /\ (m.t = "hello" => m.port \in BOOLEAN)
      BY DEF Spoken, Messages
    <2> QED BY <2>1, <2>2
  <1>8. CASE Datagram
    BY <1>8 DEF Datagram, Deliver, Messages
  <1>9. CASE \E t \in Senders : SendStep(t)
    BY <1>9 DEF SendStep, SendStart, Write, WriteFails, link
  <1>10. CASE
       \/ Dial \/ Publish \/ HelloWait \/ HelloRead \/ StartReader \/ OpenUdp
       \/ StartCursor
       \/ Iterate \/ GiveUp \/ LoopEnds \/ NewShape \/ Pause \/ Resume \/ JoinCursor
       \/ CloseConn \/ JoinReader \/ Release \/ CursorTick \/ CursorBlind
       \/ CursorStop \/ ReaderEnds
       \/ ReadFrame \/ StopAsk \/ StopClose \/ MoveToUsb \/ AckOverdue
       \/ PointerMoves \/ Stall
       \/ LinkLost \/ (\E p \in air : Lose(p))
    BY <1>10 DEF link, pointer, Lose, Dial, Publish, HelloWait, HelloRead, StartReader,
                 OpenUdp, StartCursor, Iterate, GiveUp,
           LoopEnds, NewShape, Pause, Resume, JoinCursor, CloseConn, JoinReader,
           Release,
           CursorTick, CursorBlind, CursorStop, ReaderEnds, ReadFrame, StopAsk,
           StopClose,
           MoveToUsb, AckOverdue, PointerMoves, Stall, LinkLost
  <1> QED BY <1>1, <1>2, <1>3, <1>4, <1>5, <1>6, <1>7, <1>8, <1>9, <1>10
      DEF Next, Attempt, Session, CursorStep, ReaderStep, Environment

(* Only the reader and the release touch the injector.                     *)
LEMMA Untouched ==
  ASSUME Next, ~HandleInput, ~Release
  PROVE  UNCHANGED injector
  BY DEF Next, Attempt, Session, CursorStep, ReaderStep, Environment, SendStep,
         Deliver, Lose,
         Dial, Publish, HelloWait, HelloRead, StartReader, OpenUdp, StartCursor,
         Iterate, GiveUp,
         LoopEnds, NewShape, Pause, Resume, TakePings, Pong, JoinCursor, CloseConn,
         JoinReader, CursorTick, CursorBlind, CursorStop, ReaderEnds, ReadFrame,
         HandleHello, HandleAck, HandlePing, StopAsk, StopClose, MoveToUsb, Say,
         Datagram,
         AckOverdue, PointerMoves, Stall, LinkLost

(* Input that is handled keeps injector and Windows in agreement.          *)
LEMMA InputKeeps ==
  ASSUME Room, ContactInv, HeardTyped, ReaderInPlace, HandleInput
  PROVE  ContactInv'
  <1>1. Head(inbox) \in Messages
    BY DEF HandleInput, HeardTyped, ReaderInPlace
  <1>2. CASE Head(inbox).t = "touch" /\ HandleTouch(Head(inbox).f, Head(inbox).phase)
    <2>1. Head(inbox).f \in Fingers /\ Head(inbox).phase \in Phases
      BY <1>1, <1>2 DEF Messages
    <2> QED BY <1>2, <2>1, TouchKeeps
  <1>3. CASE Head(inbox).t = "pen" /\ HandlePen(Head(inbox).e)
    <2>1. Head(inbox).e \in PenEvents
      BY <1>1, <1>3 DEF Messages
    <2> QED BY <1>3, <2>1, PenKeeps
  <1> QED BY <1>2, <1>3 DEF HandleInput

(* So does every other step.                                               *)
LEMMA ContactStep ==
  ASSUME Room, ContactInv, HeardTyped, ReaderInPlace, Next
  PROVE  ContactInv'
  <1>1. CASE HandleInput
    BY <1>1, InputKeeps
  <1>2. CASE Release
    BY <1>2, EndReleases DEF Release
  <1> QED BY <1>1, <1>2, Untouched, InjectorStill

(* The reader runs between its start and its join only.                    *)
LEMMA ReaderStays ==
  ASSUME Room, ContactInv, HeardTyped, ThreadsTyped, ReaderInPlace, Next
  PROVE  ReaderInPlace'
  <1> USE DEF ReaderInPlace, threads, link
  <1>0. ~HandleInput /\ ~Release => (NothingHeld' <=> NothingHeld)
    BY Untouched, InjectorStill
  <1>1. CASE HandleInput
    BY <1>1 DEF HandleInput, Handled
  <1>2. CASE Release
    BY <1>2, EndReleases DEF Release
  <1> SUFFICES ASSUME ~HandleInput, ~Release PROVE ReaderInPlace'
    BY <1>1, <1>2
  <1>3. CASE
       \/ Dial \/ Publish \/ HelloWait \/ HelloRead \/ StartReader \/ OpenUdp
       \/ StartCursor
       \/ LoopEnds \/ Resume \/ TakePings \/ Pong \/ JoinCursor \/ CloseConn
       \/ JoinReader
    <2>1. CASE Dial
      BY <1>0, <2>1 DEF Dial
    <2>2. CASE Publish
      BY <1>0, <2>2 DEF Publish
    <2>3. CASE HelloWait
      BY <1>0, <2>3 DEF HelloWait
    <2>4. CASE HelloRead
      BY <1>0, <2>4 DEF HelloRead
    <2>5. CASE StartReader
      BY <1>0, <2>5 DEF StartReader
    <2>6. CASE OpenUdp
      BY <1>0, <2>6 DEF OpenUdp
    <2>7. CASE StartCursor
      BY <1>0, <2>7 DEF StartCursor
    <2>8. CASE LoopEnds
      BY <1>0, <2>8 DEF LoopEnds
    <2>9. CASE Resume
      BY <1>0, <2>9 DEF Resume
    <2>10. CASE TakePings
      BY <1>0, <2>10 DEF TakePings
    <2>11. CASE Pong
      BY <1>0, <2>11 DEF Pong, PongsLeft
    <2>12. CASE JoinCursor
      BY <1>0, <2>12 DEF JoinCursor
    <2>13. CASE CloseConn
      BY <1>0, <2>13 DEF CloseConn
    <2>14. CASE JoinReader
      BY <1>0, <2>14 DEF JoinReader, ReaderJoined
    <2> QED BY <1>3, <2>1, <2>2, <2>3, <2>4, <2>5, <2>6, <2>7, <2>8, <2>9, <2>10,
    <2>11, <2>12, <2>13, <2>14
  <1>4. CASE
       \/ ReaderEnds \/ ReadFrame \/ HandleHello \/ HandleAck \/ HandlePing
    BY <1>0, <1>4 DEF Handled, ReaderEnds, ReadFrame, HandleHello, HandleAck, HandlePing
  <1>5. CASE Say
    BY <1>0, <1>5 DEF Say, HeardTyped, Spoken
  <1>6. CASE Datagram
    BY <1>0, <1>6 DEF Datagram, Deliver, HeardTyped
  <1>7. CASE
       \/ Iterate \/ GiveUp \/ NewShape \/ Pause \/ CursorTick \/ CursorBlind
       \/ CursorStop
       \/ StopAsk \/ StopClose \/ MoveToUsb \/ AckOverdue \/ PointerMoves \/ Stall
       \/ LinkLost
       \/ (\E p \in air : Lose(p)) \/ (\E t \in Senders : SendStep(t))
    BY <1>0, <1>7 DEF Lose, SendStep, pointer, Iterate, GiveUp, NewShape, Pause,
                      CursorTick, CursorBlind, CursorStop, StopAsk, StopClose,
           MoveToUsb, AckOverdue, PointerMoves, Stall, LinkLost
  <1> QED BY <1>3, <1>4, <1>5, <1>6, <1>7
      DEF Next, Attempt, Session, CursorStep, ReaderStep, Environment

(* The worker answers pings only while it has some.                        *)
LEMMA PongsStep ==
  ASSUME HeardTyped, PongsTaken, Next
  PROVE  PongsTaken'
  <1> USE DEF PongsTaken, HeardTyped, Positions, threads
  <1>1. CASE TakePings
    BY <1>1 DEF TakePings
  <1>2. CASE Pong
    BY <1>2 DEF Pong, PongsLeft
  <1>3. CASE HandlePing \/ Say
    BY <1>3 DEF HandlePing, Handled, Say
  <1>4. CASE \E t \in Senders : SendStep(t)
    BY <1>4 DEF SendStep, SendStart, Write, WriteFails
  <1>5. CASE
       \/ Dial \/ Publish \/ HelloWait \/ HelloRead \/ StartReader \/ OpenUdp
       \/ StartCursor
       \/ Iterate \/ GiveUp \/ LoopEnds \/ NewShape \/ Pause \/ Resume \/ JoinCursor
       \/ CloseConn \/ JoinReader \/ Release \/ CursorTick \/ CursorBlind
       \/ CursorStop \/ ReaderEnds
       \/ ReadFrame \/ HandleHello \/ HandleAck \/ HandleInput \/ StopAsk
       \/ StopClose \/ MoveToUsb
       \/ Datagram \/ AckOverdue \/ PointerMoves \/ Stall \/ LinkLost
       \/ (\E p \in air : Lose(p))
    BY <1>5 DEF Lose, Handled, Deliver, Dial, Publish, HelloWait, HelloRead,
                StartReader, OpenUdp, StartCursor, Iterate, GiveUp,
           LoopEnds, NewShape, Pause, Resume, JoinCursor, CloseConn, JoinReader,
           Release,
           CursorTick, CursorBlind, CursorStop, ReaderEnds, ReadFrame, HandleHello,
           HandleAck, HandleInput, StopAsk, StopClose, MoveToUsb, Datagram, AckOverdue,
           PointerMoves, Stall, LinkLost
  <1> QED BY <1>1, <1>2, <1>3, <1>4, <1>5
      DEF Next, Attempt, Session, CursorStep, ReaderStep, Environment

-----------------------------------------------------------------------------
(* A session begins with its types, nothing held and no reader.            *)
LEMMA LinkInit == Init => LinkInv
  <1> SUFFICES ASSUME Init PROVE LinkInv
    OBVIOUS
  <1> USE DEF Init
  <1>1. BudgetTyped
    BY SessionsAssumption DEF BudgetTyped
  <1>2. ThreadsTyped /\ WireTyped
    BY DEF ThreadsTyped, WireTyped, Senders, MainPCs
  <1>3. PointerTyped
    BY DEF PointerTyped, Positions
  <1>4. HeardTyped
    BY DEF HeardTyped, Positions
  <1>5. ContactInv /\ NothingHeld
    BY DEF InputInit, ContactInv, InputTypeOK, ContactsKnown, DevicesMade, NothingHeld,
           Devices,
           PenStates
  <1> QED BY <1>1, <1>2, <1>3, <1>4, <1>5
          DEF LinkInv, TypeOK, ContactInv, ReaderInPlace, PongsTaken

(* Every step keeps them.                                                  *)
LEMMA LinkNext == Room /\ WireInv /\ LinkInv /\ [Next]_vars => LinkInv'
  <1> SUFFICES ASSUME Room, WireInv, LinkInv, [Next]_vars PROVE LinkInv'
    OBVIOUS
  <1>1. CASE UNCHANGED vars
    BY <1>1 DEF vars, threads, link, writing, pointer, fixed, injector, LinkInv,
                TypeOK, ContactInv,
                ReaderInPlace, PongsTaken, BudgetTyped, ThreadsTyped, WireTyped,
                PointerTyped, HeardTyped,
                InputTypeOK, ContactsKnown, DevicesMade, NothingHeld
  <1>2. CASE Next
    <2>1. WireTyped'
      BY <1>2, WireNext DEF WireInv, WireTyped, SendPlaces
    <2> QED BY <1>2, <2>1, BudgetStep, ThreadsStep, PointerStep, HeardStep,
    ContactStep, ReaderStays, PongsStep
            DEF LinkInv, TypeOK, ContactInv
  <1> QED BY <1>1, <1>2

(* With room in the device for every finger of the receiver, the injector  *)
(* knows every contact that is down, and after the session nothing of it   *)
(* is left down in Windows (SenderApp.cpp, EndSession after the reader's   *)
(* join; InputInjector.cpp).                                               *)
THEOREM InputStaysSound ==
  ASSUME Room
  PROVE  Spec => []InputSound
  <1>1. LinkInv => InputSound
    BY DEF LinkInv, InputSound, ContactInv, ReaderInPlace, NothingHeld, AllReleased
  <1>2. WireInv /\ LinkInv /\ [Next]_vars => WireInv' /\ LinkInv'
    BY WireNext, LinkNext
  <1> QED BY <1>1, <1>2, WireInit, LinkInit, PTL DEF Spec
=============================================================================
