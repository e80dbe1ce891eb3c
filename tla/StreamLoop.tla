----------------------------- MODULE StreamLoop -----------------------------
(***************************************************************************)
(* One streaming session after its first pipeline build: the capture loop  *)
(* of SenderApp::Run with DesktopDuplication, H264Encoder and pause mode,  *)
(* the reader thread's key-frame requests and rotations, the tray's        *)
(* session signals, Windows itself, and what the receiver's decoder makes  *)
(* of the access units it gets.                                            *)
(*                                                                         *)
(* pipelineMutex is held inside every action of the capture loop and of    *)
(* the reader that builds, captures or encodes; it is free at "top" and    *)
(* "send".  An iteration that finds nothing to do is a stutter.            *)
(***************************************************************************)
EXTENDS Integers, Sequences, SequencesExt

CONSTANTS
    Budget,        \* bound on everything Windows, the user and the link do
    Lag,           \* access units an async encoder keeps without new input
    GopKeys,       \* the encoder makes key frames of its own accord
    SharedDevices, \* may the encoder take textures of the capture device?
    KeepsHelloLandscape, \* MTT undoes a rotation made in Windows
    FlushRefusable \* the MFT may refuse MFT_MESSAGE_COMMAND_FLUSH

ASSUME StreamAssumption ==
    /\ Budget \in Nat /\ Lag \in Nat
    /\ GopKeys \in BOOLEAN /\ SharedDevices \subseteq BOOLEAN
    /\ KeepsHelloLandscape \in BOOLEAN /\ FlushRefusable \in BOOLEAN

VARIABLES
    win,     \* Windows: session locked, whether WTS answers about it, UAC prompt
             \* up, input desktop, display dark
    mail,    \* WM_WTSSESSION_CHANGE messages the tray has not handled
    sig,     \* PauseSignals
    image,   \* version of the desktop picture
    mode,    \* orientation of the head
    sess,    \* width x height of the session
    dup,     \* DesktopDuplication
    buf,     \* what nv12 or the NV12 texture holds
    cap,     \* gpuNv12Path, haveGpuDesktopFrame, framePending, tailPending,
             \* dropPending; miss, skip: since the last capture an encode stalled,
             \* a picture could not be converted (histories)
    enc,     \* H264Encoder
    pause,   \* pause mode; turned: the receiver was turned meanwhile (history)
    au,      \* `encoded` of this iteration, not yet sent
    loc,     \* where the capture loop is
    running,
    rx,      \* the receiver's decoder: can it use the next P-frame, what it shows
    left     \* what is left of Budget

windows == <<win, mail, image, mode>>
stream == <<sess, dup, buf, cap, enc, pause, au, loc, running>>
vars == <<windows, stream, sig, rx, left>>

Sizes == {"wide", "tall"}
Turned(s) == IF s = "wide" THEN "tall" ELSE "wide"
Reasons == {"none", "locked", "admin", "asleep", "paused"}

\* Pictures: the blank overlay, a buffer that holds no fresh capture, and
\* the versions of the desktop.
Blank == 0
Junk == Budget + 2
Pictures == 0 .. Junk
AccessUnit == [key : BOOLEAN, pic : Pictures, cont : BOOLEAN]

-----------------------------------------------------------------------------
(* Pause reasons.                                                          *)

OnDefault == win.desk = "default"

\* QuerySessionLock: this answer, or none at all.
WtsSays(locked) == win.wts /\ win.locked = locked

(* Variant: only an unlock message ends a lock. *)
LockedTillTold(onDefault) == sig.locked

\* A lock whose unlock the tray never heard of is forgotten.
StillLocked(onDefault) == sig.locked /\ ~(onDefault /\ WtsSays(FALSE))

pauseReasonNow(onDefault) ==
    LET locked == \/ StillLocked(onDefault) \/ WtsSays(TRUE)
                  \/ ~onDefault /\ ~win.uac
    IN  CASE locked -> "locked"
          [] ~locked /\ ~onDefault -> "admin"
          [] ~locked /\ onDefault /\ sig.off -> "asleep"
          [] OTHER -> "none"

PauseHidesDesktop(r) == r \in {"locked", "admin", "asleep"}

-----------------------------------------------------------------------------
(* The encoder.                                                            *)

RequestKeyFrame(e) == [e EXCEPT !.force = TRUE]

\* A bound MFT: its probe used the forced IDR up, so that its next P-frame
\* refers to frames nobody received.  Nothing of an old MFT survives.
Probed(e) == [e EXCEPT !.fresh = TRUE, !.owes = FALSE, !.held = <<>>]
Bound(e, size) == [Probed(e) EXCEPT !.size = size]
Refused(e) == [e EXCEPT !.conf = FALSE, !.held = <<>>]
Configured(e, size, soft) ==
    [Bound(e, size) EXCEPT !.conf = TRUE, !.soft = soft, !.stalls = 0]

\* One input picture: what comes out, and the encoder afterwards.  The MFT
\* keeps up to Lag units; it may make any frame a key frame of its own GOP.
Submitted(e, pic, key) ==
    Append(e.held, [key |-> key, pic |-> pic, cont |-> ~e.fresh])
Accepts(e, pic, key, n) ==
    LET q == Submitted(e, pic, key)
    IN  /\ e.conf
        /\ \/ key = (e.force \/ e.owes)
           \/ GopKeys /\ key
        /\ n \in 0 .. Len(q)
        /\ Len(q) - n <= IF e.soft THEN 0 ELSE Lag
AfterInput(e, pic, key, n) ==
    [e EXCEPT !.force = FALSE, !.owes = FALSE, !.fresh = FALSE, !.stalls = 0,
              !.held = SubSeq(Submitted(e, pic, key), n + 1, Len(e.held) + 1)]
Output(e, pic, key, n) == SubSeq(Submitted(e, pic, key), 1, n)

\* PumpAsync gives up: nothing went in, and the key frame is asked of the
\* codec but not yet made.
Stalled(e) ==
    [e EXCEPT !.force = FALSE, !.owes = e.owes \/ e.force, !.stalls = e.stalls + 1]

\* Any of the units inside may have its HaveOutput event queued.
Finished(e) == 0 .. Len(e.held)
Collect(n) ==
    /\ enc.conf /\ n \in Finished(enc) \ {0}
    /\ enc' = [enc EXCEPT !.held = SubSeq(enc.held, n + 1, Len(enc.held))]

\* FlushDiscard; a refused flush leaves what is still inside the MFT.
Flushed(e, n) ==
    [RequestKeyFrame(e) EXCEPT !.held = SubSeq(e.held, n + 1, Len(e.held)),
                               !.fresh = e.fresh \/ n > 0]
(* Variant: the encoder is not flushed. *)
NoFlush(e) == {RequestKeyFrame(e)}

Flushes(e) ==
    IF FlushRefusable THEN {Flushed(e, n) : n \in Finished(e)}
                      ELSE {Flushed(e, Len(e.held))}

-----------------------------------------------------------------------------
(* buildPipeline(w, h) on a head that shows `m`; the ModeDesc read on Open *)
(* may still be what was asked for.                                        *)

CanBuild == OnDefault      \* DuplicateOutput is refused on the secure desktop

\* What Open leaves behind, and Close.
Opened(desc, frame) ==
    [open |-> TRUE, lost |-> FALSE, have |-> FALSE, news |-> frame, size |-> desc]
Closed == [dup EXCEPT !.open = FALSE, !.lost = FALSE, !.have = FALSE, !.news = FALSE]
Reopened == IF CanBuild THEN Opened(mode, FALSE) ELSE Closed

\* Encoder and duplication share a device, and the converter fits.
GpuPath(size, desc) == enc.shared /\ size = desc

(* Variant: no key frame is asked for on the CPU path. *)
BuiltWithoutKey(size, desc, frame) ==
    /\ dup' = Opened(desc, frame)
    /\ buf' = Junk
    /\ enc' = Configured(enc, size, FALSE)
    /\ cap' = [cap EXCEPT !.gpu = GpuPath(size, desc), !.first = FALSE]

\* desc: what ModeDesc says.  frame: the first AcquireNextFrame delivers.
Built(size, desc, frame) ==
    LET gpu == GpuPath(size, desc)
        e == Configured(enc, size, FALSE)
    IN  /\ dup' = Opened(desc, frame)
        /\ buf' = Junk
        /\ enc' = IF gpu THEN e ELSE RequestKeyFrame(e)
        /\ cap' = [cap EXCEPT !.gpu = gpu, !.first = FALSE]

\* Prepare or Open failed; or every MFT refused the size.
BuildFails ==
    /\ dup' = Closed
    /\ \/ UNCHANGED <<enc, cap>>
       \/ /\ enc' = Refused(enc)
          /\ cap' = [cap EXCEPT !.gpu = FALSE]
    /\ UNCHANGED buf

\* Something happens outside the program; what happens after the session is
\* not followed.
Hiccup == running /\ left > 0 /\ left' = left - 1

-----------------------------------------------------------------------------
(* Pause mode.                                                             *)

\* enterPause and its renderPauseFrame: what hides the desktop drops every
\* copy of it, in the buffers and in the encoder.
EnterPause(r, fromSecure, base) ==
    LET hide == \/ PauseHidesDesktop(r) \/ fromSecure \/ sig.locked
                \/ ~OnDefault \/ WtsSays(TRUE)
    IN  /\ pause' = [on |-> TRUE, hide |-> hide, dropKey |-> hide, reason |-> r,
                     due |-> 2, over |-> IF hide THEN Blank ELSE base, turned |-> FALSE]
        /\ buf' = IF hide THEN Junk ELSE buf
        /\ IF hide THEN enc' \in Flushes(enc) ELSE enc' = RequestKeyFrame(enc)

\* renderPauseFrame while paused.
Render(r) ==
    LET hides == PauseHidesDesktop(r) /\ ~pause.hide
    IN  /\ pause' = [pause EXCEPT !.hide = @ \/ hides, !.dropKey = @ \/ hides,
                                  !.reason = r, !.due = 2,
                                  !.over = IF hides \/ pause.hide THEN Blank ELSE @]
        /\ IF hides THEN enc' \in Flushes(enc) ELSE enc' = RequestKeyFrame(enc)

-----------------------------------------------------------------------------
Init ==
    /\ win = [locked |-> FALSE, wts |-> TRUE, uac |-> FALSE, desk |-> "default", dark |-> FALSE]
    /\ mail = <<>>
    /\ sig = [locked |-> FALSE, off |-> FALSE]
    /\ image = 1
    /\ mode = "wide" /\ sess = "wide"
    /\ dup = [open |-> TRUE, lost |-> FALSE, have |-> FALSE, news |-> TRUE, size |-> "wide"]
    /\ buf = Junk
    /\ \E shared \in SharedDevices :
         enc = [conf |-> TRUE, size |-> "wide", soft |-> FALSE, force |-> ~shared, shared |-> shared,
                owes |-> FALSE, fresh |-> TRUE, stalls |-> 0, held |-> <<>>]
    /\ cap = [gpu |-> enc.shared, first |-> FALSE, pend |-> FALSE, tail |-> FALSE,
              dropped |-> FALSE, miss |-> FALSE, skip |-> FALSE]
    /\ pause = [on |-> FALSE, hide |-> FALSE, dropKey |-> FALSE, reason |-> "none",
                due |-> 0, over |-> Blank, turned |-> FALSE]
    /\ au = <<>>
    /\ loc = "top"
    /\ running = TRUE
    /\ rx = [ok |-> FALSE, pic |-> Junk]
    /\ left = Budget

-----------------------------------------------------------------------------
(* Windows.                                                                *)

\* The session is locked or unlocked; the tray's message may get lost.
SessionChange ==
    /\ Hiccup
    /\ win' = [win EXCEPT !.locked = ~@]
    /\ \E heard \in BOOLEAN : mail' = IF heard THEN Append(mail, win'.locked) ELSE mail
    /\ UNCHANGED <<stream, sig, image, mode, rx>>

UacPrompt ==
    /\ IF win.uac THEN running /\ left' = left ELSE Hiccup
    /\ win' = [win EXCEPT !.uac = ~@]
    /\ UNCHANGED <<stream, sig, mail, image, mode, rx>>

\* The input desktop follows; a switch takes the duplication away.
DesktopSwitch ==
    /\ running /\ OnDefault = (win.locked \/ win.uac)
    /\ win' = [win EXCEPT !.desk = IF OnDefault THEN "secure" ELSE "default"]
    /\ dup' = [dup EXCEPT !.lost = dup.open]
    /\ UNCHANGED <<sess, buf, cap, enc, pause, au, loc, running, sig, mail, image, mode,
                   rx, left>>

\* WTS stops answering, or answers again.
WtsOutage ==
    /\ IF win.wts THEN Hiccup ELSE running /\ left' = left
    /\ win' = [win EXCEPT !.wts = ~@]
    /\ UNCHANGED <<stream, sig, mail, image, mode, rx>>

DisplayPower ==
    /\ IF win.dark THEN running /\ left' = left ELSE Hiccup
    /\ win' = [win EXCEPT !.dark = ~@]
    /\ UNCHANGED <<stream, sig, mail, image, mode, rx>>

Present ==
    /\ Hiccup /\ OnDefault
    /\ image' = image + 1
    /\ dup' = [dup EXCEPT !.news = dup.open]
    /\ UNCHANGED <<sess, buf, cap, enc, pause, au, loc, running, sig, mail, win, mode, rx>>

\* The first picture after DuplicateOutput, nudged if need be.
FirstPresent ==
    /\ running /\ dup.open /\ OnDefault /\ ~dup.have /\ ~dup.news
    /\ dup' = [dup EXCEPT !.news = TRUE]
    /\ UNCHANGED <<windows, sess, buf, cap, enc, pause, au, loc, running, sig, rx, left>>

\* The user turns the head in Windows.
ModeChange ==
    /\ Hiccup /\ OnDefault
    /\ mode' = Turned(mode)
    /\ dup' = [dup EXCEPT !.lost = dup.open]
    /\ UNCHANGED <<sess, buf, cap, enc, pause, au, loc, running, sig, mail, win, image, rx>>

-----------------------------------------------------------------------------
(* The tray's window procedure.                                            *)

HearSession ==
    /\ running /\ mail # <<>>
    /\ sig' = [sig EXCEPT !.locked = Head(mail)]
    /\ mail' = Tail(mail)
    /\ UNCHANGED <<stream, win, image, mode, rx, left>>

HearDisplay ==
    /\ running /\ sig.off # win.dark
    /\ sig' = [sig EXCEPT !.off = win.dark]
    /\ UNCHANGED <<stream, windows, rx, left>>

-----------------------------------------------------------------------------
(* The reader thread.                                                      *)

\* `kf`, or a bitrate step of the Dynamic mode.
KeyAsked ==
    /\ Hiccup /\ ~enc.force
    /\ enc' = RequestKeyFrame(enc)
    /\ UNCHANGED <<windows, sig, sess, dup, buf, cap, pause, au, loc, running, rx>>

\* A hello with the other orientation: Prepare puts the head in it.
HelloTurn ==
    LET size == Turned(sess)
    IN  /\ Hiccup /\ loc \in {"top", "send"}
        /\ IF CanBuild
           THEN /\ \E frame \in BOOLEAN : Built(size, size, frame)
                /\ mode' = size /\ sess' = size
                /\ running' = running
           ELSE /\ BuildFails
                /\ running' = FALSE
                /\ UNCHANGED <<mode, sess>>
        /\ pause' = [pause EXCEPT !.turned = pause.on]
        /\ UNCHANGED <<win, mail, image, sig, au, loc, rx>>

-----------------------------------------------------------------------------
(* The capture loop, not paused.                                           *)

ForgetStaleLock(onDefault) == sig' = [sig EXCEPT !.locked = StillLocked(onDefault)]
LastFrame == IF dup.have THEN buf ELSE Blank

AtTop == running /\ loc = "top"

PauseOnSignal ==
    /\ AtTop /\ ~pause.on /\ (sig.locked \/ sig.off)
    /\ pauseReasonNow(OnDefault) # "none"
    /\ ForgetStaleLock(OnDefault)
    /\ EnterPause(pauseReasonNow(OnDefault), FALSE, LastFrame)
    /\ cap' = [cap EXCEPT !.pend = FALSE, !.tail = FALSE]
    /\ UNCHANGED <<windows, sess, dup, au, loc, running, rx, left>>

Capturing ==
    /\ AtTop /\ ~pause.on
    /\ ~((sig.locked \/ sig.off) /\ pauseReasonNow(OnDefault) # "none")

\* AcquireNextFrame failed: the last picture is read back (lostFrame_) and
\* the duplication reopened where that is possible.  With the desktop away or
\* a signal up this will be a pause, otherwise a rebuild.
AccessLost ==
    /\ Capturing /\ dup.lost
    /\ dup' = Reopened
    /\ pause' = [pause EXCEPT !.over = LastFrame,
                              !.reason = IF OnDefault /\ ~sig.locked /\ ~sig.off
                                         THEN @ ELSE pauseReasonNow(OnDefault)]
    /\ IF OnDefault /\ ~sig.locked /\ ~sig.off
       THEN loc' = "rebuild" /\ UNCHANGED sig
       ELSE loc' = (IF OnDefault THEN "lost" ELSE "lostSecure") /\ ForgetStaleLock(OnDefault)
    /\ UNCHANGED <<windows, sess, buf, cap, enc, au, running, rx, left>>

\* The reason is read again unless it was none.
PauseOnLoss ==
    LET onDefault == loc = "lost"
        r == IF pause.reason = "none" THEN "paused" ELSE pauseReasonNow(onDefault)
    IN  /\ loc \in {"lost", "lostSecure"}
        /\ EnterPause(r, ~onDefault, pause.over)
        /\ ForgetStaleLock(onDefault)
        /\ cap' = [cap EXCEPT !.pend = FALSE, !.tail = FALSE, !.first = FALSE]
        /\ loc' = "top"
        /\ UNCHANGED <<windows, sess, dup, au, running, rx, left>>

\* A rebuild that fails ends the session.
RebuildOr(size, m) ==
    IF CanBuild THEN /\ \E desc \in {m, size}, frame \in BOOLEAN : Built(size, desc, frame)
                     /\ running' = TRUE
                ELSE BuildFails /\ running' = FALSE

RebuildOnLoss ==
    /\ loc = "rebuild"
    /\ RebuildOr(sess, mode)
    /\ loc' = "top"
    /\ UNCHANGED <<windows, sess, pause, au, sig, rx, left>>

\* A picture arrived in the size the duplication was opened with.
CaptureFrame ==
    /\ Capturing /\ ~dup.lost /\ dup.news /\ mode = dup.size
    /\ dup' = [dup EXCEPT !.news = FALSE, !.have = TRUE]
    /\ buf' = image
    /\ cap' = [cap EXCEPT !.pend = TRUE, !.first = cap.gpu, !.miss = FALSE, !.skip = FALSE]
    /\ enc' = IF cap.gpu /\ ~cap.first THEN RequestKeyFrame(enc) ELSE enc
    /\ UNCHANGED <<windows, sess, pause, au, loc, running, sig, rx, left>>

\* It could not be mapped or converted: it is gone, and the one before stays.
CaptureFails ==
    /\ Capturing /\ ~dup.lost /\ dup.news /\ mode = dup.size /\ Hiccup
    /\ dup' = [dup EXCEPT !.news = FALSE]
    /\ cap' = [cap EXCEPT !.skip = TRUE]
    /\ UNCHANGED <<windows, sess, buf, enc, pause, au, loc, running, sig, rx>>

\* It has another size: no texture for it, so that the GPU path is left and
\* the frame asked for again, which may find none.
CaptureTurned ==
    /\ Capturing /\ ~dup.lost /\ dup.news /\ mode # dup.size
    /\ \E got \in {TRUE, ~cap.gpu} :
          /\ dup' = [dup EXCEPT !.news = FALSE, !.have = @ \/ got, !.size = mode]
          /\ buf' = IF got THEN image ELSE Junk
          /\ cap' = [cap EXCEPT !.gpu = FALSE, !.first = FALSE, !.pend = @ \/ got,
                                !.skip = @ /\ ~got]
    /\ UNCHANGED <<windows, sess, enc, pause, au, loc, running, sig, rx, left>>

SizeDiffers == dup.have /\ dup.size # enc.size

\* Follow the capture: MTT forces the hello's orientation back (which may
\* fail), Parsec adopts the new one.
Resize ==
    LET back == KeepsHelloLandscape /\ dup.size # sess
        size == IF back THEN sess ELSE dup.size
    IN  /\ Capturing /\ ~dup.lost /\ SizeDiffers
        /\ \/ mode' = (IF back THEN sess ELSE mode) /\ left' = left
           \/ back /\ Hiccup /\ mode' = mode
        /\ RebuildOr(size, mode')
        /\ sess' = size
        /\ UNCHANGED <<win, mail, image, pause, au, loc, sig, rx>>

(* Encode                                                                  *)

HandOver(q) == au' = q /\ loc' = IF q = <<>> THEN "top" ELSE "send"

CanEncode == Capturing /\ ~dup.lost /\ ~SizeDiffers
(* Variant: no tail. *)
SlottedNoTail == [cap EXCEPT !.pend = FALSE]

Slotted == [cap EXCEPT !.tail = cap.pend, !.pend = FALSE]
NothingToEncode ==
    ~enc.conf \/ (cap.gpu /\ ~dup.have) \/ dup.size # enc.size

\* A slot opened, with a picture or its tail pending, or for the keepalive.
EncodeFrame ==
    /\ CanEncode /\ ~NothingToEncode
    /\ cap' = Slotted
    /\ \E key \in BOOLEAN, n \in 0 .. Len(enc.held) + 1 :
          /\ Accepts(enc, buf, key, n)
          /\ enc' = AfterInput(enc, buf, key, n)
          /\ HandOver(Output(enc, buf, key, n))
    /\ UNCHANGED <<windows, sess, dup, buf, pause, running, sig, rx, left>>

EncodeNothing ==
    /\ CanEncode /\ NothingToEncode /\ (cap.pend \/ cap.tail)
    /\ cap' = Slotted
    /\ UNCHANGED <<windows, sess, dup, buf, enc, pause, au, loc, running, sig, rx, left>>

\* The async MFT does not answer; after three times software takes over,
\* or nothing does.
EncodeStalls ==
    /\ CanEncode /\ ~NothingToEncode /\ ~enc.soft /\ Hiccup
    /\ IF enc.stalls < 2
       THEN enc' = Stalled(enc) /\ cap' = [Slotted EXCEPT !.miss = TRUE] /\ UNCHANGED buf
       ELSE /\ enc' \in {RequestKeyFrame(Configured(enc, enc.size, TRUE)),
                         Refused(Stalled(enc))}
            /\ cap' = [Slotted EXCEPT !.gpu = FALSE, !.miss = TRUE]
            /\ buf' = IF cap.gpu THEN Junk ELSE buf
    /\ UNCHANGED <<windows, sess, dup, pause, au, loc, running, sig, rx>>

\* CollectPending between two slots.
CollectIdle ==
    /\ CanEncode
    /\ \E n \in Finished(enc) : Collect(n) /\ HandOver(SubSeq(enc.held, 1, n))
    /\ UNCHANGED <<windows, sess, dup, buf, cap, pause, running, sig, rx, left>>

-----------------------------------------------------------------------------
(* The capture loop, paused.                                               *)

\* Nothing speaks for the pause any more: rebuild, and start on a key frame.
\* An attempt that fails leaves the pause.
Resume ==
    /\ AtTop /\ pause.on /\ pauseReasonNow(OnDefault) = "none"
    /\ ForgetStaleLock(OnDefault)
    /\ \/ /\ left' = left
          /\ \E desc \in {mode, sess}, frame \in BOOLEAN :
                /\ dup' = Opened(desc, frame)
                /\ enc' = RequestKeyFrame(Configured(enc, sess, FALSE))
                /\ cap' = [cap EXCEPT !.gpu = GpuPath(sess, desc), !.first = FALSE,
                                      !.pend = TRUE]
          /\ buf' = Junk
          /\ pause' = [pause EXCEPT !.on = FALSE, !.hide = FALSE, !.dropKey = FALSE]
       \/ Hiccup /\ BuildFails /\ UNCHANGED pause
    /\ UNCHANGED <<windows, sess, au, loc, running, rx>>

RenderAgain ==
    /\ AtTop /\ pause.on
    /\ pauseReasonNow(OnDefault) \notin {"none", pause.reason}
    /\ ForgetStaleLock(OnDefault)
    /\ Render(pauseReasonNow(OnDefault))
    /\ UNCHANGED <<windows, sess, dup, buf, cap, au, loc, running, rx, left>>

(* Variant: the count of owed overlays is not checked. *)
DueLessOne == pause.due - 1

\* One overlay fewer is owed.
Due == IF pause.due = 0 THEN 0 ELSE pause.due - 1

\* Units before the blank key frame are dropped.
FirstKey(q) == SelectInSeq(q, LAMBDA f : f.key)
PauseOut(q, due) ==
    LET k == FirstKey(q)
        from == IF ~pause.dropKey THEN 1 ELSE IF k = 0 THEN Len(q) + 1 ELSE k
    IN  /\ HandOver(SubSeq(q, from, Len(q)))
        /\ pause' = [pause EXCEPT !.due = due, !.dropKey = @ /\ k = 0]
        /\ rx' = [rx EXCEPT !.ok = @ /\ from = 1]

\* The overlay once more: because it is owed, or as the keepalive.
PauseEncode ==
    LET e == IF pause.due = 0 /\ pause.dropKey THEN RequestKeyFrame(enc) ELSE enc
    IN  /\ AtTop /\ pause.on
        /\ \/ \E key \in BOOLEAN, n \in 0 .. Len(e.held) + 1 :
                 /\ Accepts(e, pause.over, key, n)
                 /\ enc' = AfterInput(e, pause.over, key, n)
                 /\ PauseOut(Output(e, pause.over, key, n), Due)
                 /\ left' = left
           \/ /\ Hiccup /\ e.conf /\ ~e.soft /\ enc' = Stalled(e)
              /\ PauseOut(<<>>, Due)
           \/ ~e.conf /\ pause.due > 0 /\ enc' = e /\ PauseOut(<<>>, Due) /\ left' = left
        /\ UNCHANGED <<windows, sess, dup, buf, cap, running, sig>>

PauseCollect ==
    /\ AtTop /\ pause.on /\ pause.due = 0
    /\ \E n \in Finished(enc) : Collect(n) /\ PauseOut(SubSeq(enc.held, 1, n), 0)
    /\ UNCHANGED <<windows, sess, dup, buf, cap, running, sig, left>>

-----------------------------------------------------------------------------
(* Sending, outside the mutex.                                             *)

\* What the receiver's decoder makes of a unit.
Decoded(r, f) ==
    IF f.key \/ (r.ok /\ f.cont) THEN [ok |-> TRUE, pic |-> f.pic]
                                 ELSE [r EXCEPT !.ok = FALSE]

Send ==
    /\ running /\ loc = "send"
    /\ rx' = Decoded(rx, Head(au))
    /\ HandOver(Tail(au))
    /\ cap' = [cap EXCEPT !.dropped = FALSE]
    /\ UNCHANGED <<windows, sess, dup, buf, enc, pause, running, sig, left>>

(* Variant: a dropped frame asks for nothing. *)
DropSilently ==
    /\ loc = "send" /\ Hiccup
    /\ rx' = [rx EXCEPT !.ok = FALSE]
    /\ HandOver(<<>>)
    /\ cap' = [cap EXCEPT !.pend = @ \/ ~cap.dropped, !.dropped = TRUE]
    /\ UNCHANGED <<windows, sess, dup, buf, enc, pause, running, sig>>

\* Backpressure: this unit and the rest of the iteration's are dropped.
DropFrame ==
    /\ loc = "send" /\ Hiccup
    /\ rx' = [rx EXCEPT !.ok = FALSE]
    /\ HandOver(<<>>)
    /\ enc' = RequestKeyFrame(enc)
    /\ cap' = [cap EXCEPT !.pend = @ \/ ~cap.dropped, !.dropped = TRUE]
    /\ UNCHANGED <<windows, sess, dup, buf, pause, running, sig>>

-----------------------------------------------------------------------------
WindowsStep ==
    \/ SessionChange \/ WtsOutage \/ UacPrompt \/ DesktopSwitch \/ DisplayPower
    \/ Present \/ FirstPresent \/ ModeChange
TrayStep == HearSession \/ HearDisplay
ReaderStep == KeyAsked \/ HelloTurn
Encode == EncodeFrame \/ EncodeNothing \/ EncodeStalls
LoopStep ==
    \/ PauseOnSignal \/ AccessLost \/ PauseOnLoss \/ RebuildOnLoss
    \/ CaptureFrame \/ CaptureFails \/ CaptureTurned \/ Resize \/ Encode \/ CollectIdle
    \/ Resume \/ RenderAgain \/ PauseEncode \/ PauseCollect
    \/ Send \/ DropFrame

Next == WindowsStep \/ TrayStep \/ ReaderStep \/ LoopStep
Spec == Init /\ [][Next]_vars

\* Each pass of the loop looks at the signals and the capture first, so that
\* none of these is passed over forever; slots, keepalives and the socket
\* come round in bounded time; DuplicateOutput or a nudge presents.
FirstThings ==
    PauseOnSignal \/ AccessLost \/ CaptureFrame \/ CaptureTurned \/ Resize
        \/ Resume \/ RenderAgain
Fairness ==
    /\ SF_vars(FirstThings)
    /\ WF_vars(PauseOnLoss \/ RebuildOnLoss)
    /\ WF_vars(Encode) /\ WF_vars(PauseEncode) /\ WF_vars(Send)
    /\ WF_vars(TrayStep) /\ WF_vars(DesktopSwitch) /\ WF_vars(FirstPresent)

LiveSpec == Spec /\ Fairness

-----------------------------------------------------------------------------
WindowsTyped ==
    /\ win \in [locked : BOOLEAN, wts : BOOLEAN, uac : BOOLEAN, desk : {"default", "secure"},
               dark : BOOLEAN]
    /\ mail \in Seq(BOOLEAN)
    /\ sig \in [locked : BOOLEAN, off : BOOLEAN]
    /\ image \in 1 .. Budget + 1
    /\ mode \in Sizes
    /\ left \in 0 .. Budget
CaptureTyped ==
    /\ sess \in Sizes
    /\ dup \in [open : BOOLEAN, lost : BOOLEAN, have : BOOLEAN, news : BOOLEAN, size : Sizes]
    /\ buf \in Pictures
    /\ cap \in [gpu : BOOLEAN, first : BOOLEAN, pend : BOOLEAN, tail : BOOLEAN, dropped : BOOLEAN,
               miss : BOOLEAN, skip : BOOLEAN]
EncoderTyped ==
    enc \in [conf : BOOLEAN, size : Sizes, soft : BOOLEAN, shared : BOOLEAN, force : BOOLEAN,
             owes : BOOLEAN, fresh : BOOLEAN, stalls : Nat, held : Seq(AccessUnit)]
PauseTyped ==
    pause \in [on : BOOLEAN, hide : BOOLEAN, dropKey : BOOLEAN, reason : Reasons,
               due : 0 .. 2, over : Pictures, turned : BOOLEAN]
SentTyped ==
    /\ au \in Seq(AccessUnit)
    /\ loc \in {"top", "lost", "lostSecure", "rebuild", "send"}
    /\ running \in BOOLEAN
    /\ rx \in [ok : BOOLEAN, pic : Pictures]

\* What the loop, the encoder, Windows and the receiver hold has its type;
\* the overlays owed by a pause are counted down to none and no further.
TypeOK == WindowsTyped /\ CaptureTyped /\ EncoderTyped /\ PauseTyped /\ SentTyped

\* Once a pause hides the desktop nothing but the blank overlay is on its
\* way: not in the encoder, not in the iteration's units, not as overlay.
HiddenStaysHidden ==
    pause.hide =>
        /\ pause.over = Blank
        /\ \A i \in DOMAIN enc.held : enc.held[i].pic = Blank
        /\ \A i \in DOMAIN au : au[i].pic = Blank

\* A decoder that cannot go on, or will not be able to after what is on its
\* way, is owed a key frame: one is queued behind the break, asked for, or
\* will be: by the first picture of the GPU path, a rebuild or a pause.
Asked ==
    \/ enc.force \/ enc.owes \/ (cap.gpu /\ ~cap.first)
    \/ dup.size # enc.size \/ loc \in {"lost", "lostSecure", "rebuild"}
KeyOwed ==
    LET q == au \o enc.held
        KeyFrom(i) == \E j \in i .. Len(q) : q[j].key
    IN  running /\ enc.conf =>
            /\ ~rx.ok => Asked \/ KeyFrom(1)
            /\ enc.fresh => Asked
            /\ \A i \in DOMAIN q : ~q[i].cont => Asked \/ KeyFrom(i)

\* With nothing pending and no tail due the encoder holds only repeats of
\* what the receiver shows: no picture waits for the keepalive.
TailPushes ==
    running /\ ~pause.on /\ loc = "top" /\ dup.have /\ enc.conf
        /\ ~cap.miss /\ ~SizeDiffers /\ ~cap.pend /\ ~cap.tail /\ rx.ok
    => rx.pic = buf

Quiet == ~win.locked /\ win.wts /\ ~win.uac /\ ~win.dark
Over == ~running \/ ~enc.conf

\* An unlocked and awake PC ends up on the receiver, whatever happened before
\* and even when the tray never heard of the unlock; except that the software
\* encoder of a fallback has nothing to show, and a picture that could not be
\* converted is not shown, until the desktop changes.
ImageArrives ==
    <>[]Quiet =>
        <>[](Over \/ (enc.soft /\ buf = Junk) \/ cap.skip \/ (rx.ok /\ rx.pic = image))

\* A locked PC ends up blank on the receiver, if that is not turned while the
\* stream pauses: on the GPU path the encoder built for a turn waits for a
\* first present to make a key frame, and the overlay never is one.
LockHides == <>[](win.locked) => <>[](Over \/ pause.turned \/ rx.pic = Blank)
=============================================================================
