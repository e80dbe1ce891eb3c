-------------------------- MODULE StreamLoopProofs --------------------------
(***************************************************************************)
(* Proofs about StreamLoop for any budget, lag and encoder: with one that  *)
(* can be flushed, a pause that hides the desktop lets no picture of it    *)
(* out; with any, a decoder that cannot go on is owed a key frame; with    *)
(* one that keeps one unit at most, the last picture is shown.             *)
(***************************************************************************)
EXTENDS StreamLoop, SequenceTheorems, WellFoundedInduction, TLAPS

(* A set of naturals that is not empty has a least element.                *)
LEMMA LeastExists ==
  ASSUME NEW I \in SUBSET Nat, I # {}
  PROVE  Min(I) \in I
  <1>1. \E x \in I : \A y \in I : <<y, x>> \notin OpToRel(<, Nat)
    BY NatLessThanWellFounded, WFMin
  <1>2. PICK x \in I : \A y \in I : <<y, x>> \notin OpToRel(<, Nat)
    BY <1>1
  <1>3. \A y \in I : x =< y
    <2> SUFFICES ASSUME NEW y \in I, y < x PROVE FALSE
      OBVIOUS
    <2>1. <<y, x>> \in Nat \X Nat /\ <<y, x>>[1] = y /\ <<y, x>>[2] = x
      OBVIOUS
    <2>2. <<y, x>> \in {ss \in Nat \X Nat : ss[1] < ss[2]}
      BY <2>1
    <2> QED BY <1>2, <2>2 DEF OpToRel
  <1> QED BY <1>3 DEF Min

(* The index of the first key frame is one of the sequence, or 0.          *)
LEMMA FirstKeyRange ==
  ASSUME NEW q \in Seq(AccessUnit)
  PROVE  FirstKey(q) \in 0 .. Len(q)
  <1> DEFINE I == {i \in 1 .. Len(q) : q[i].key}
  <1>1. FirstKey(q) = IF I # {} THEN Min(I) ELSE 0
    BY DEF FirstKey, SelectInSeq
  <1>2. CASE I = {}
    BY <1>1, <1>2
  <1>3. CASE I # {}
    <2>1. I \in SUBSET Nat
      OBVIOUS
    <2>2. Min(I) \in I
      BY <1>3, <2>1, LeastExists
    <2> QED BY <1>1, <1>3, <2>2
  <1> QED BY <1>2, <1>3

-----------------------------------------------------------------------------
(* The proofs' name for what EncoderTyped says enc is.                     *)
Encoder == [conf : BOOLEAN, size : Sizes, soft : BOOLEAN, shared : BOOLEAN, force : BOOLEAN,
            owes : BOOLEAN, fresh : BOOLEAN, stalls : Nat, held : Seq(AccessUnit)]

(* A part of a sequence of units is one, and holds only units of it.       *)
LEMMA PartOf ==
  ASSUME NEW q \in Seq(AccessUnit), NEW m \in 1 .. Len(q) + 1, NEW n \in 0 .. Len(q)
  PROVE  /\ SubSeq(q, m, n) \in Seq(AccessUnit)
         /\ Len(SubSeq(q, m, n)) = IF m <= n THEN n - m + 1 ELSE 0
         /\ \A i \in DOMAIN SubSeq(q, m, n) : \E j \in DOMAIN q : SubSeq(q, m, n)[i] = q[j]
  <1> DEFINE r == SubSeq(q, m, n)
  <1>1. \A i \in m .. n : q[i] \in AccessUnit
    BY ElementOfSeq
  <1>2. /\ r \in Seq(AccessUnit)
        /\ Len(r) = IF m <= n THEN n - m + 1 ELSE 0
        /\ \A i \in 1 .. (n - m + 1) : r[i] = q[m + i - 1]
    BY <1>1, SubSeqProperties
  <1>3. DOMAIN r \subseteq 1 .. (n - m + 1)
    BY <1>2, LenProperties
  <1>4. \A i \in 1 .. (n - m + 1) : m + i - 1 \in DOMAIN q
    BY LenProperties
  <1> HIDE DEF r
  <1>5. \A i \in DOMAIN r : \E j \in DOMAIN q : r[i] = q[j]
    BY <1>2, <1>3, <1>4
  <1> QED BY <1>2, <1>5 DEF r

(* One more unit goes in at the end.                                       *)
LEMMA SubmittedUnits ==
  ASSUME NEW e \in Encoder, NEW pic \in Pictures, NEW key \in BOOLEAN
  PROVE  LET q == Submitted(e, pic, key)
         IN  /\ q \in Seq(AccessUnit)
             /\ Len(q) = Len(e.held) + 1
             /\ \A i \in DOMAIN q : q[i].pic = pic \/ \E j \in DOMAIN e.held : q[i] = e.held[j]
  <1> DEFINE f == [key |-> key, pic |-> pic, cont |-> ~e.fresh]
  <1>1. e.held \in Seq(AccessUnit) /\ f \in AccessUnit
    BY DEF Encoder, AccessUnit
  <1>2. Submitted(e, pic, key) = Append(e.held, f)
    BY DEF Submitted
  <1>3. /\ Append(e.held, f) \in Seq(AccessUnit)
        /\ Len(Append(e.held, f)) = Len(e.held) + 1
        /\ \A i \in 1 .. Len(e.held) : Append(e.held, f)[i] = e.held[i]
        /\ Append(e.held, f)[Len(e.held) + 1] = f
    BY <1>1, AppendProperties
  <1>4. DOMAIN Append(e.held, f) = 1 .. Len(e.held) + 1 /\ DOMAIN e.held = 1 .. Len(e.held)
    BY <1>1, <1>3
  <1>5. f.pic = pic
    OBVIOUS
  <1> HIDE DEF f
  <1> QED BY <1>1, <1>2, <1>3, <1>4, <1>5

(* What comes out and what stays are parts of it.                          *)
LEMMA InputTyped ==
  ASSUME NEW e \in Encoder, NEW pic \in Pictures, NEW key \in BOOLEAN,
         NEW n \in 0 .. Len(e.held) + 1
  PROVE  AfterInput(e, pic, key, n) \in Encoder /\ Output(e, pic, key, n) \in Seq(AccessUnit)
  <1> DEFINE q == Submitted(e, pic, key)
  <1>1. q \in Seq(AccessUnit) /\ Len(q) = Len(e.held) + 1
    BY SubmittedUnits
  <1>2. e.held \in Seq(AccessUnit) /\ Len(e.held) \in Nat
    BY DEF Encoder
  <1> HIDE DEF q
  <1>3. SubSeq(q, n + 1, Len(e.held) + 1) \in Seq(AccessUnit) /\ SubSeq(q, 1, n) \in Seq(AccessUnit)
    BY <1>1, <1>2, PartOf
  <1> QED BY <1>3 DEF q, AfterInput, Output, Encoder

(* Every other operation on the encoder leaves one, and so does a flush.   *)
LEMMA EncoderOps ==
  ASSUME NEW e \in Encoder, NEW size \in Sizes, NEW soft \in BOOLEAN
  PROVE  /\ RequestKeyFrame(e) \in Encoder
         /\ Configured(e, size, soft) \in Encoder
         /\ Refused(e) \in Encoder
         /\ Stalled(e) \in Encoder
         /\ Flushes(e) \subseteq Encoder
  <1>1. RequestKeyFrame(e) \in Encoder
    BY DEF RequestKeyFrame, Encoder
  <1>2. Configured(e, size, soft) \in Encoder
    BY EmptySeq DEF Configured, Bound, Probed, Encoder
  <1>3. Refused(e) \in Encoder
    BY EmptySeq DEF Refused, Encoder
  <1>4. Stalled(e) \in Encoder
    <2>1. (e.owes \/ e.force) \in BOOLEAN /\ e.stalls + 1 \in Nat
      BY DEF Encoder
    <2> QED BY <2>1 DEF Stalled, Encoder
  <1>5. ASSUME NEW n \in Finished(e) PROVE Flushed(e, n) \in Encoder
    <2>1. e.held \in Seq(AccessUnit) /\ n \in 0 .. Len(e.held) /\ Len(e.held) \in Nat
      BY DEF Encoder, Finished
    <2>2. SubSeq(e.held, n + 1, Len(e.held)) \in Seq(AccessUnit)
      BY <2>1, PartOf
    <2>3. (e.fresh \/ n > 0) \in BOOLEAN
      OBVIOUS
    <2> QED BY <2>2, <2>3, <1>1 DEF Flushed, RequestKeyFrame, Encoder
  <1>6. Len(e.held) \in Finished(e)
    BY DEF Encoder, Finished
  <1> QED BY <1>1, <1>2, <1>3, <1>4, <1>5, <1>6 DEF Flushes

(* Units the encoder has finished leave it.                                *)
LEMMA CollectTyped ==
  ASSUME enc \in Encoder, NEW n \in Finished(enc), Collect(n)
  PROVE  enc' \in Encoder /\ SubSeq(enc.held, 1, n) \in Seq(AccessUnit)
  <1>1. enc.held \in Seq(AccessUnit) /\ n \in 0 .. Len(enc.held) /\ Len(enc.held) \in Nat
    BY DEF Encoder, Finished
  <1>2. /\ SubSeq(enc.held, n + 1, Len(enc.held)) \in Seq(AccessUnit)
        /\ SubSeq(enc.held, 1, n) \in Seq(AccessUnit)
    BY <1>1, PartOf
  <1> QED BY <1>2 DEF Collect, Encoder

-----------------------------------------------------------------------------
(* Pause reasons are of their set, and a lock is remembered or not.        *)
LEMMA ReasonTyped ==
  ASSUME WindowsTyped, NEW onDefault \in BOOLEAN
  PROVE  pauseReasonNow(onDefault) \in Reasons /\ StillLocked(onDefault) \in BOOLEAN
  BY DEF WindowsTyped, pauseReasonNow, StillLocked, WtsSays, Reasons

(* buildPipeline leaves the capture and the encoder typed.                 *)
LEMMA BuiltTyped ==
  ASSUME CaptureTyped, EncoderTyped, NEW size \in Sizes, NEW desc \in Sizes, NEW frame \in BOOLEAN,
         Built(size, desc, frame), sess' \in Sizes
  PROVE  CaptureTyped' /\ EncoderTyped'
  <1>1. Junk \in Pictures
    BY StreamAssumption DEF Junk, Pictures
  <1>2. enc \in Encoder
    BY DEF EncoderTyped, Encoder
  <1>3. Configured(enc, size, FALSE) \in Encoder
    BY <1>2, EncoderOps
  <1>4. RequestKeyFrame(Configured(enc, size, FALSE)) \in Encoder
    BY <1>3, EncoderOps
  <1>5. EncoderTyped'
    BY <1>3, <1>4 DEF Built, EncoderTyped, Encoder
  <1>6. GpuPath(size, desc) \in BOOLEAN
    BY <1>2 DEF GpuPath, Encoder
  <1> QED BY <1>1, <1>5, <1>6 DEF Built, Opened, CaptureTyped

(* So does one that fails.                                                 *)
LEMMA BuildFailsTyped ==
  ASSUME CaptureTyped, EncoderTyped, BuildFails, sess' \in Sizes
  PROVE  CaptureTyped' /\ EncoderTyped'
  <1>1. enc \in Encoder
    BY DEF EncoderTyped, Encoder
  <1>2. Refused(enc) \in Encoder
    BY <1>1, EncoderOps DEF Sizes
  <1>3. enc' \in Encoder
    BY <1>1, <1>2 DEF BuildFails
  <1>4. EncoderTyped'
    BY <1>3 DEF EncoderTyped, Encoder
  <1>5. Closed \in [open : BOOLEAN, lost : BOOLEAN, have : BOOLEAN, news : BOOLEAN, size : Sizes]
    BY DEF Closed, CaptureTyped
  <1>6. /\ dup' = Closed /\ buf' = buf
        /\ cap' = cap \/ cap' = [cap EXCEPT !.gpu = FALSE]
    BY DEF BuildFails
  <1> QED BY <1>4, <1>5, <1>6 DEF CaptureTyped

(* And a pause that begins or shows another reason.                        *)
LEMMA EnterPauseTyped ==
  ASSUME EncoderTyped, NEW r \in Reasons, NEW fromSecure \in BOOLEAN, NEW base \in Pictures,
         WindowsTyped, buf \in Pictures, EnterPause(r, fromSecure, base)
  PROVE  PauseTyped' /\ EncoderTyped' /\ buf' \in Pictures
  <1>1. Junk \in Pictures /\ Blank \in Pictures
    BY StreamAssumption DEF Junk, Blank, Pictures
  <1>2. enc \in Encoder
    BY DEF EncoderTyped, Encoder
  <1>3. enc' \in Encoder
    BY <1>2, EncoderOps DEF EnterPause, Sizes
  <1>4. (PauseHidesDesktop(r) \/ fromSecure \/ sig.locked \/ ~OnDefault \/ win.locked) \in BOOLEAN
    OBVIOUS
  <1> QED BY <1>1, <1>3, <1>4 DEF EnterPause, WtsSays, PauseTyped, EncoderTyped, Encoder

LEMMA RenderTyped ==
  ASSUME EncoderTyped, PauseTyped, NEW r \in Reasons, Render(r)
  PROVE  PauseTyped' /\ EncoderTyped'
  <1>1. Blank \in Pictures
    BY StreamAssumption DEF Junk, Blank, Pictures
  <1>2. enc \in Encoder
    BY DEF EncoderTyped, Encoder
  <1>3. enc' \in Encoder
    BY <1>2, EncoderOps DEF Render, Sizes
  <1>4. PauseTyped'
    <2> DEFINE hides == PauseHidesDesktop(r) /\ ~pause.hide
               hide == pause.hide \/ hides
               dropKey == pause.dropKey \/ hides
               over == IF hides \/ pause.hide THEN Blank ELSE pause.over
               due == 2
    <2>1. pause' = [pause EXCEPT !.hide = hide, !.dropKey = dropKey, !.reason = r, !.due = due,
                                 !.over = over]
      BY DEF Render
    <2>2. hide \in BOOLEAN /\ dropKey \in BOOLEAN /\ due \in 0 .. 2
      OBVIOUS
    <2>3. over \in Pictures
      BY <1>1 DEF PauseTyped
    <2> HIDE DEF hide, dropKey, over, due
    <2> QED BY <2>1, <2>2, <2>3 DEF PauseTyped
  <1> QED BY <1>3, <1>4 DEF EncoderTyped, Encoder

(* The loop is at "send" as long as units are left to send.                *)
Handed == loc = "send" <=> au # <<>>

(* What is handed over is a sequence of units.                             *)
LEMMA HandOverTyped ==
  ASSUME NEW q \in Seq(AccessUnit), HandOver(q), running' \in BOOLEAN,
         rx' \in [ok : BOOLEAN, pic : Pictures]
  PROVE  SentTyped' /\ Handed'
  BY DEF HandOver, SentTyped, Handed

LEMMA PauseOutTyped ==
  ASSUME NEW q \in Seq(AccessUnit), NEW due \in 0 .. 2, PauseOut(q, due), PauseTyped, SentTyped,
         running' = running
  PROVE  PauseTyped' /\ SentTyped' /\ Handed'
  <1>1. FirstKey(q) \in 0 .. Len(q) /\ Len(q) \in Nat
    BY FirstKeyRange, LenProperties
  <1> DEFINE k == FirstKey(q)
             from == IF ~pause.dropKey THEN 1 ELSE IF k = 0 THEN Len(q) + 1 ELSE k
  <1>2. from \in 1 .. Len(q) + 1
    BY <1>1
  <1>3. SubSeq(q, from, Len(q)) \in Seq(AccessUnit)
    BY <1>1, <1>2, PartOf
  <1>4. HandOver(SubSeq(q, from, Len(q)))
    BY DEF PauseOut
  <1>5. rx' \in [ok : BOOLEAN, pic : Pictures]
    BY DEF PauseOut, SentTyped, Handed
  <1>6. SentTyped' /\ Handed'
    BY <1>3, <1>4, <1>5, HandOverTyped DEF SentTyped, Handed
  <1>7. PauseTyped'
    BY DEF PauseOut, PauseTyped
  <1> QED BY <1>6, <1>7

-----------------------------------------------------------------------------
(* The desktop is presented at most as often as the budget allows, so that *)
(* its version is never taken for what a buffer holds without one.         *)
TypeInv == TypeOK /\ Handed /\ image + left <= Budget + 1

LEMMA TypeInit == Init => TypeInv
  <1> SUFFICES ASSUME Init PROVE TypeInv
    OBVIOUS
  <1>1. <<>> \in Seq(AccessUnit) /\ <<>> \in Seq(BOOLEAN)
    BY EmptySeq
  <1>2. Junk \in Pictures /\ Blank \in Pictures
    BY StreamAssumption DEF Junk, Blank, Pictures
  <1>3. enc.shared \in BOOLEAN /\ EncoderTyped
    BY <1>1, StreamAssumption DEF Init, EncoderTyped, Sizes
  <1>4. WindowsTyped /\ image + left <= Budget + 1
    BY <1>1, StreamAssumption DEF Init, WindowsTyped, Sizes
  <1>5. CaptureTyped
    BY <1>2, <1>3 DEF Init, CaptureTyped, Sizes
  <1>6. PauseTyped /\ SentTyped
    BY <1>1, <1>2 DEF Init, PauseTyped, SentTyped, Handed, Reasons
  <1>7. Handed
    BY DEF Init, Handed
  <1> QED BY <1>3, <1>4, <1>5, <1>6, <1>7 DEF TypeInv, TypeOK

(* Windows and the tray change only what is theirs, and the duplication.   *)
LEMMA WindowsStepTyped == TypeInv /\ (WindowsStep \/ TrayStep) => TypeInv'
  <1> SUFFICES ASSUME TypeInv, WindowsStep \/ TrayStep PROVE TypeInv'
    OBVIOUS
  <1>1. UNCHANGED <<sess, buf, cap, enc, pause, au, loc, running, rx>>
    BY DEF WindowsStep, TrayStep, SessionChange, UacPrompt, DesktopSwitch, DisplayPower, Present,
           WtsOutage, FirstPresent, ModeChange, HearSession, HearDisplay, stream, windows
  <1>2. EncoderTyped' /\ PauseTyped' /\ SentTyped' /\ Handed'
    BY <1>1 DEF TypeInv, TypeOK, EncoderTyped, PauseTyped, SentTyped, Handed
  <1>3. Turned(mode) \in Sizes
    BY DEF Turned, Sizes
  <1>4. left \in Nat /\ left <= Budget /\ image \in Nat /\ image >= 1 /\ Budget \in Nat
    BY StreamAssumption DEF TypeInv, TypeOK, WindowsTyped
  <1>5. Hiccup => left' \in 0 .. Budget /\ left' = left - 1
    BY <1>4 DEF Hiccup
  <1>6. CaptureTyped'
    <2>1. \/ dup' = dup
          \/ dup' = [dup EXCEPT !.lost = dup.open]
          \/ dup' = [dup EXCEPT !.news = dup.open]
          \/ dup' = [dup EXCEPT !.news = TRUE]
      <3>1. CASE SessionChange \/ WtsOutage \/ UacPrompt \/ DisplayPower \/ TrayStep
        BY <3>1 DEF SessionChange, WtsOutage, UacPrompt, DisplayPower, TrayStep, HearSession,
               HearDisplay, stream
      <3>2. CASE DesktopSwitch \/ Present \/ FirstPresent \/ ModeChange
        BY <3>2 DEF DesktopSwitch, Present, FirstPresent, ModeChange
      <3> QED BY <3>1, <3>2 DEF WindowsStep
    <2>2. dup' \in [open : BOOLEAN, lost : BOOLEAN, have : BOOLEAN, news : BOOLEAN, size : Sizes]
      BY <2>1 DEF TypeInv, TypeOK, CaptureTyped
    <2> QED BY <1>1, <2>2 DEF TypeInv, TypeOK, CaptureTyped
  <1>7. CASE SessionChange
    <2>1. win' \in [locked : BOOLEAN, wts : BOOLEAN, uac : BOOLEAN, desk : {"default", "secure"},
                   dark : BOOLEAN]
      BY <1>7 DEF SessionChange, TypeInv, TypeOK, WindowsTyped
    <2>2. mail' \in Seq(BOOLEAN)
      <3>1. PICK heard \in BOOLEAN : mail' = IF heard THEN Append(mail, win'.locked) ELSE mail
        BY <1>7 DEF SessionChange
      <3>2. mail \in Seq(BOOLEAN) /\ win'.locked \in BOOLEAN
        BY <2>1 DEF TypeInv, TypeOK, WindowsTyped
      <3>3. Append(mail, win'.locked) \in Seq(BOOLEAN)
        BY <3>2, AppendProperties
      <3> QED BY <3>1, <3>2, <3>3
    <2> QED BY <1>2, <1>4, <1>5, <1>6, <1>7, <2>1, <2>2
            DEF SessionChange, TypeInv, TypeOK, WindowsTyped
  <1>8. CASE WtsOutage \/ UacPrompt \/ DesktopSwitch \/ DisplayPower
    <2>1. win' \in [locked : BOOLEAN, wts : BOOLEAN, uac : BOOLEAN, desk : {"default", "secure"},
                   dark : BOOLEAN]
      BY <1>8 DEF WtsOutage, UacPrompt, DesktopSwitch, DisplayPower, TypeInv, TypeOK, WindowsTyped
    <2>2. left' \in 0 .. Budget /\ left' <= left
      BY <1>4, <1>5, <1>8 DEF WtsOutage, UacPrompt, DesktopSwitch, DisplayPower
    <2>3. UNCHANGED <<mail, sig, image, mode>>
      <3>1. CASE UacPrompt
        BY <3>1 DEF UacPrompt
      <3>2. CASE DesktopSwitch
        BY <3>2 DEF DesktopSwitch
      <3>3. CASE DisplayPower
        BY <3>3 DEF DisplayPower
      <3>4. CASE WtsOutage
        BY <3>4 DEF WtsOutage
      <3> QED BY <1>8, <3>1, <3>2, <3>3, <3>4
    <2>4. WindowsTyped'
      BY <2>1, <2>2, <2>3 DEF TypeInv, TypeOK, WindowsTyped
    <2>5. (image + left <= Budget + 1)'
      <3>1. image' = image /\ image + left <= Budget + 1
        BY <2>3 DEF TypeInv
      <3>2. left \in Nat /\ image \in Nat /\ left' \in Int /\ left' <= left /\ Budget \in Nat
        BY <1>4, <2>2
      <3>3. \A i, l \in Nat, k \in Int, b \in Nat : i + l <= b + 1 /\ k <= l => i + k <= b + 1
        OBVIOUS
      <3> QED BY <3>1, <3>2, <3>3
    <2> QED BY <1>2, <1>6, <2>4, <2>5 DEF TypeInv, TypeOK
  <1>9. CASE Present
    BY <1>2, <1>4, <1>5, <1>6, <1>9 DEF Present, TypeInv, TypeOK, WindowsTyped
  <1>10. CASE FirstPresent
    BY <1>2, <1>4, <1>6, <1>10 DEF FirstPresent, windows, TypeInv, TypeOK, WindowsTyped
  <1>11. CASE ModeChange
    BY <1>2, <1>3, <1>4, <1>5, <1>6, <1>11 DEF ModeChange, TypeInv, TypeOK, WindowsTyped
  <1>12. CASE HearSession
    <2>1. Head(mail) \in BOOLEAN /\ Tail(mail) \in Seq(BOOLEAN)
      BY <1>12, HeadTailProperties DEF HearSession, TypeInv, TypeOK, WindowsTyped
    <2> QED BY <1>2, <1>4, <1>6, <1>12, <2>1 DEF HearSession, TypeInv, TypeOK, WindowsTyped
  <1>13. CASE HearDisplay
    BY <1>2, <1>4, <1>6, <1>13 DEF HearDisplay, windows, TypeInv, TypeOK, WindowsTyped
  <1> QED BY <1>7, <1>8, <1>9, <1>10, <1>11, <1>12, <1>13 DEF WindowsStep, TrayStep

(* The program's own threads never touch Windows' part but for the mode.   *)
LEMMA WindowsAlone ==
  ASSUME TypeInv, UNCHANGED <<win, mail, image>>, mode' \in Sizes,
         sig' \in [locked : BOOLEAN, off : BOOLEAN], Hiccup \/ UNCHANGED left
  PROVE  WindowsTyped' /\ (image + left <= Budget + 1)'
  <1>1. left \in Nat /\ left <= Budget /\ image \in Nat /\ image >= 1 /\ Budget \in Nat
    BY StreamAssumption DEF TypeInv, TypeOK, WindowsTyped
  <1>2. left' \in 0 .. Budget /\ left' <= left
    BY <1>1 DEF Hiccup
  <1>3. WindowsTyped'
    BY <1>2 DEF TypeInv, TypeOK, WindowsTyped
  <1>4. image' = image /\ image + left <= Budget + 1
    BY DEF TypeInv
  <1>5. \A i, l \in Nat, k \in Int, b \in Nat : i + l <= b + 1 /\ k <= l => i + k <= b + 1
    OBVIOUS
  <1>6. left' \in Int
    BY <1>1, <1>2
  <1> QED BY <1>1, <1>2, <1>3, <1>4, <1>5, <1>6

LEMMA ForgetTyped ==
  ASSUME WindowsTyped, NEW onDefault \in BOOLEAN, ForgetStaleLock(onDefault)
  PROVE  sig' \in [locked : BOOLEAN, off : BOOLEAN]
  BY ReasonTyped DEF ForgetStaleLock, WindowsTyped

LEMMA SentAlone ==
  ASSUME SentTyped, Handed, UNCHANGED <<au, rx>>, running' \in BOOLEAN,
         \/ UNCHANGED loc
         \/ loc # "send" /\ loc' \in {"top", "lost", "lostSecure", "rebuild"}
  PROVE  SentTyped' /\ Handed'
  BY DEF SentTyped, Handed

(* The reader thread.                                                      *)
LEMMA ReaderTyped == TypeInv /\ ReaderStep => TypeInv'
  <1> SUFFICES ASSUME TypeInv, ReaderStep PROVE TypeInv'
    OBVIOUS
  <1> USE DEF TypeInv, TypeOK
  <1>1. enc \in Encoder /\ (enc' \in Encoder <=> EncoderTyped')
    BY DEF EncoderTyped, Encoder
  <1>2. CASE KeyAsked
    <2>1. UNCHANGED <<windows, sig, sess, dup, buf, cap, pause, au, loc, running, rx>> /\ Hiccup
      BY <1>2 DEF KeyAsked
    <2>2. EncoderTyped'
      BY <1>1, <1>2, EncoderOps DEF KeyAsked, Sizes
    <2>3. CaptureTyped' /\ PauseTyped' /\ SentTyped' /\ Handed'
      BY <2>1 DEF CaptureTyped, PauseTyped, SentTyped, Handed
    <2>4. mode' \in Sizes /\ sig' \in [locked : BOOLEAN, off : BOOLEAN] /\ UNCHANGED <<win, mail, image>>
      BY <2>1 DEF windows, WindowsTyped
    <2> QED BY <2>1, <2>2, <2>3, <2>4, WindowsAlone
  <1>3. CASE HelloTurn
    <2> DEFINE size == Turned(sess)
    <2>1. size \in Sizes
      BY DEF Turned, Sizes
    <2>2. UNCHANGED <<win, mail, image, sig, au, loc, rx>> /\ Hiccup
      BY <1>3 DEF HelloTurn
    <2>3. CaptureTyped' /\ EncoderTyped' /\ mode' \in Sizes /\ running' \in BOOLEAN
      <3>1. CASE CanBuild
        <4>1. PICK frame \in BOOLEAN : Built(size, size, frame)
          BY <1>3, <3>1 DEF HelloTurn
        <4>2. sess' \in Sizes /\ mode' \in Sizes /\ running' = running
          BY <1>3, <2>1, <3>1 DEF HelloTurn
        <4> QED BY <2>1, <4>1, <4>2, BuiltTyped DEF SentTyped, Handed
      <3>2. CASE ~CanBuild
        <4>1. BuildFails /\ running' = FALSE /\ UNCHANGED <<mode, sess>>
          BY <1>3, <3>2 DEF HelloTurn
        <4> QED BY <4>1, BuildFailsTyped DEF CaptureTyped, WindowsTyped
      <3> QED BY <3>1, <3>2
    <2>4. PauseTyped'
      BY <1>3 DEF HelloTurn, PauseTyped
    <2>5. SentTyped' /\ Handed'
      BY <2>2, <2>3 DEF SentTyped, Handed
    <2>6. sig' \in [locked : BOOLEAN, off : BOOLEAN]
      BY <2>2 DEF WindowsTyped
    <2> QED BY <2>2, <2>3, <2>4, <2>5, <2>6, WindowsAlone
  <1> QED BY <1>2, <1>3 DEF ReaderStep

(* The capture loop outside a pause, before it encodes.                    *)
LEMMA CaptureStepsTyped ==
  TypeInv /\ (RebuildOnLoss \/ CaptureFrame \/ CaptureFails \/ CaptureTurned \/ Resize) => TypeInv'
  <1> SUFFICES ASSUME TypeInv,
                      RebuildOnLoss \/ CaptureFrame \/ CaptureFails \/ CaptureTurned \/ Resize
               PROVE  TypeInv'
    OBVIOUS
  <1> USE DEF TypeInv, TypeOK
  <1>1. enc \in Encoder /\ (enc' \in Encoder <=> EncoderTyped')
    BY DEF EncoderTyped, Encoder
  <1>2. UNCHANGED <<win, mail, image, sig, pause, au, rx>>
    BY DEF RebuildOnLoss, CaptureFrame, CaptureFails, CaptureTurned, Resize, windows
  <1>3. PauseTyped' /\ sig' \in [locked : BOOLEAN, off : BOOLEAN] /\ sess \in Sizes /\ mode \in Sizes
    BY <1>2 DEF PauseTyped, WindowsTyped, CaptureTyped
  <1>4. ASSUME NEW size \in Sizes, NEW m \in Sizes, RebuildOr(size, m), sess' \in Sizes
        PROVE  CaptureTyped' /\ EncoderTyped' /\ running' \in BOOLEAN
    <2>1. CASE CanBuild
      BY <1>4, <2>1, BuiltTyped DEF RebuildOr
    <2>2. CASE ~CanBuild
      BY <1>4, <2>2, BuildFailsTyped DEF RebuildOr
    <2> QED BY <2>1, <2>2
  <1>5. CASE RebuildOnLoss
    <2>1. /\ RebuildOr(sess, mode) /\ UNCHANGED <<mode, sess, left>>
          /\ loc = "rebuild" /\ loc' = "top"
      BY <1>5 DEF RebuildOnLoss, windows
    <2>2. CaptureTyped' /\ EncoderTyped' /\ running' \in BOOLEAN
      BY <1>3, <1>4, <2>1
    <2>3. SentTyped' /\ Handed'
      BY <1>2, <2>1, <2>2, SentAlone
    <2> QED BY <1>2, <1>3, <2>1, <2>2, <2>3, WindowsAlone
  <1>6. CASE CaptureFrame
    <2>1. UNCHANGED <<mode, sess, loc, running, left>>
      BY <1>6 DEF CaptureFrame, windows
    <2>2. EncoderTyped'
      BY <1>1, <1>6, EncoderOps DEF CaptureFrame, Sizes
    <2>3. image \in Pictures
      BY StreamAssumption DEF WindowsTyped, Pictures, Junk
    <2>4. CaptureTyped'
      BY <1>6, <2>1, <2>3 DEF CaptureFrame, CaptureTyped
    <2>5. SentTyped' /\ Handed'
      BY <1>2, <2>1, SentAlone DEF SentTyped, Handed
    <2> QED BY <1>2, <1>3, <2>1, <2>2, <2>4, <2>5, WindowsAlone
  <1>7. CASE CaptureTurned
    <2>1. UNCHANGED <<mode, sess, enc, loc, running, left>>
      BY <1>7 DEF CaptureTurned, windows
    <2>2. image \in Pictures /\ Junk \in Pictures
      BY StreamAssumption DEF WindowsTyped, Pictures, Junk
    <2>3. PICK got \in BOOLEAN :
             /\ dup' = [dup EXCEPT !.news = FALSE, !.have = @ \/ got, !.size = mode]
             /\ buf' = IF got THEN image ELSE Junk
             /\ cap' = [cap EXCEPT !.gpu = FALSE, !.first = FALSE, !.pend = @ \/ got,
                                   !.skip = @ /\ ~got]
      BY <1>7 DEF CaptureTurned, CaptureTyped
    <2>4. CaptureTyped'
      <3> DEFINE have == dup.have \/ got
                 pend == cap.pend \/ got
                 skip == cap.skip /\ ~got
      <3>1. have \in BOOLEAN /\ pend \in BOOLEAN /\ skip \in BOOLEAN
        OBVIOUS
      <3>2. /\ dup' = [dup EXCEPT !.news = FALSE, !.have = have, !.size = mode]
            /\ cap' = [cap EXCEPT !.gpu = FALSE, !.first = FALSE, !.pend = pend, !.skip = skip]
        BY <2>3
      <3> HIDE DEF have, pend, skip
      <3> QED BY <1>3, <2>1, <2>2, <2>3, <3>1, <3>2 DEF CaptureTyped
    <2>5. SentTyped' /\ Handed'
      BY <1>2, <2>1, SentAlone DEF SentTyped, Handed
    <2> QED BY <1>1, <1>2, <1>3, <2>1, <2>4, <2>5, WindowsAlone
  <1>8. CASE Resize
    <2> DEFINE back == KeepsHelloLandscape /\ dup.size # sess
               size == IF back THEN sess ELSE dup.size
    <2>1. size \in Sizes
      BY DEF CaptureTyped
    <2>2. /\ RebuildOr(size, mode') /\ sess' = size /\ UNCHANGED loc
          /\ \/ mode' = (IF back THEN sess ELSE mode) /\ UNCHANGED left
             \/ Hiccup /\ mode' = mode
      BY <1>8 DEF Resize
    <2> HIDE DEF back, size
    <2>3. mode' \in Sizes
      BY <1>3, <2>2
    <2>4. CaptureTyped' /\ EncoderTyped' /\ running' \in BOOLEAN
      BY <1>4, <2>1, <2>2, <2>3
    <2>5. SentTyped' /\ Handed'
      BY <1>2, <2>2, <2>4, SentAlone
    <2> QED BY <1>2, <1>3, <2>2, <2>3, <2>4, <2>5, WindowsAlone
  <1>9. CASE CaptureFails
    <2>1. UNCHANGED <<mode, sess, buf, enc, loc, running>> /\ Hiccup
      BY <1>9 DEF CaptureFails, windows
    <2>2. CaptureTyped'
      BY <1>9, <2>1 DEF CaptureFails, CaptureTyped
    <2>3. SentTyped' /\ Handed'
      BY <1>2, <2>1, SentAlone DEF SentTyped, Handed
    <2> QED BY <1>1, <1>2, <1>3, <2>1, <2>2, <2>3, WindowsAlone
  <1> QED BY <1>5, <1>6, <1>7, <1>8, <1>9

(* It encodes, and it sends.                                               *)
LEMMA EncodeTyped == TypeInv /\ (Encode \/ CollectIdle) => TypeInv'
  <1> SUFFICES ASSUME TypeInv, Encode \/ CollectIdle PROVE TypeInv'
    OBVIOUS
  <1> USE DEF TypeInv, TypeOK
  <1>1. enc \in Encoder /\ (enc' \in Encoder <=> EncoderTyped')
    BY DEF EncoderTyped, Encoder
  <1>2. UNCHANGED <<windows, sess, dup, pause, running, sig, rx>>
    BY DEF Encode, EncodeFrame, EncodeNothing, EncodeStalls, CollectIdle
  <1>3. UNCHANGED <<win, mail, image, mode>>
    BY <1>2 DEF windows
  <1>4. /\ PauseTyped' /\ sig' \in [locked : BOOLEAN, off : BOOLEAN] /\ mode' \in Sizes
        /\ running' \in BOOLEAN /\ rx' \in [ok : BOOLEAN, pic : Pictures]
    BY <1>2, <1>3 DEF PauseTyped, WindowsTyped, SentTyped, Handed
  <1>5. ASSUME CaptureTyped', EncoderTyped', SentTyped' /\ Handed', Hiccup \/ UNCHANGED left PROVE TypeInv'
    BY <1>3, <1>4, <1>5, WindowsAlone
  <1>6. Slotted \in [gpu : BOOLEAN, first : BOOLEAN, pend : BOOLEAN, tail : BOOLEAN,
                     dropped : BOOLEAN, miss : BOOLEAN, skip : BOOLEAN]
    BY DEF Slotted, CaptureTyped
  <1>7. CASE EncodeFrame
    <2>1. cap' = Slotted /\ UNCHANGED <<buf, left>>
      BY <1>7 DEF EncodeFrame
    <2>2. PICK key \in BOOLEAN, n \in 0 .. Len(enc.held) + 1 :
             enc' = AfterInput(enc, buf, key, n) /\ HandOver(Output(enc, buf, key, n))
      BY <1>7 DEF EncodeFrame
    <2>3. enc' \in Encoder /\ Output(enc, buf, key, n) \in Seq(AccessUnit)
      BY <1>1, <2>2, InputTyped DEF CaptureTyped
    <2>4. SentTyped' /\ Handed'
      BY <1>4, <2>2, <2>3, HandOverTyped
    <2> QED BY <1>1, <1>2, <1>5, <1>6, <2>1, <2>3, <2>4 DEF CaptureTyped
  <1>8. CASE EncodeNothing
    <2>1. cap' = Slotted /\ UNCHANGED <<buf, left, enc, au, loc>>
      BY <1>8 DEF EncodeNothing
    <2> QED BY <1>1, <1>2, <1>5, <1>6, <2>1 DEF CaptureTyped, SentTyped, Handed
  <1>9. CASE EncodeStalls
    <2>1. Hiccup /\ UNCHANGED <<au, loc>>
      BY <1>9 DEF EncodeStalls
    <2>2. Stalled(enc) \in Encoder /\ enc.size \in Sizes
      BY <1>1, EncoderOps DEF Sizes, Encoder
    <2>3. RequestKeyFrame(Configured(enc, enc.size, TRUE)) \in Encoder
      <3>1. Configured(enc, enc.size, TRUE) \in Encoder
        BY <1>1, <2>2, EncoderOps
      <3> QED BY <3>1, EncoderOps, <2>2
    <2>4. Refused(Stalled(enc)) \in Encoder
      BY <2>2, EncoderOps
    <2>5. enc' \in Encoder
      BY <1>9, <2>2, <2>3, <2>4 DEF EncodeStalls
    <2>6. Junk \in Pictures
      BY StreamAssumption DEF Junk, Pictures
    <2>7. CaptureTyped'
      BY <1>2, <1>6, <1>9, <2>6 DEF EncodeStalls, CaptureTyped
    <2>8. SentTyped' /\ Handed'
      BY <1>4, <2>1 DEF SentTyped, Handed
    <2> QED BY <1>1, <1>5, <2>1, <2>5, <2>7, <2>8
  <1>10. CASE CollectIdle
    <2>1. UNCHANGED <<buf, cap, left>>
      BY <1>10 DEF CollectIdle
    <2>2. PICK n \in Finished(enc) : Collect(n) /\ HandOver(SubSeq(enc.held, 1, n))
      BY <1>10 DEF CollectIdle
    <2>3. enc' \in Encoder /\ SubSeq(enc.held, 1, n) \in Seq(AccessUnit)
      BY <1>1, <2>2, CollectTyped
    <2>4. SentTyped' /\ Handed'
      BY <1>4, <2>2, <2>3, HandOverTyped
    <2> QED BY <1>1, <1>2, <1>5, <2>1, <2>3, <2>4 DEF CaptureTyped
  <1> QED BY <1>7, <1>8, <1>9, <1>10 DEF Encode

LEMMA SendingTyped == TypeInv /\ (Send \/ DropFrame) => TypeInv'
  <1> SUFFICES ASSUME TypeInv, Send \/ DropFrame PROVE TypeInv'
    OBVIOUS
  <1> USE DEF TypeInv, TypeOK
  <1>1. enc \in Encoder /\ (enc' \in Encoder <=> EncoderTyped')
    BY DEF EncoderTyped, Encoder
  <1>2. UNCHANGED <<windows, sess, dup, buf, pause, running, sig>> /\ (Hiccup \/ UNCHANGED left)
    BY DEF Send, DropFrame
  <1>3. UNCHANGED <<win, mail, image, mode>>
    BY <1>2 DEF windows
  <1>4. /\ PauseTyped' /\ sig' \in [locked : BOOLEAN, off : BOOLEAN] /\ mode' \in Sizes
        /\ running' \in BOOLEAN
    BY <1>2, <1>3 DEF PauseTyped, WindowsTyped, SentTyped, Handed
  <1>5. enc' \in Encoder
    BY <1>1, EncoderOps DEF Send, DropFrame, Sizes
  <1>6. CaptureTyped'
    <2>1. CASE Send
      BY <1>2, <2>1 DEF Send, CaptureTyped
    <2>2. CASE DropFrame
      <3> DEFINE pend == cap.pend \/ ~cap.dropped
      <3>1. cap' = [cap EXCEPT !.pend = pend, !.dropped = TRUE] /\ pend \in BOOLEAN
        BY <2>2 DEF DropFrame
      <3> HIDE DEF pend
      <3> QED BY <1>2, <3>1 DEF CaptureTyped
    <2> QED BY <2>1, <2>2
  <1>7. SentTyped' /\ Handed'
    <2>1. CASE Send
      <3>1. Head(au) \in AccessUnit /\ Tail(au) \in Seq(AccessUnit)
        BY <2>1, HeadTailProperties DEF Send, SentTyped, Handed
      <3>2. Head(au).pic \in Pictures /\ rx \in [ok : BOOLEAN, pic : Pictures]
        BY <3>1 DEF AccessUnit, SentTyped
      <3>3. rx' \in [ok : BOOLEAN, pic : Pictures]
        BY <2>1, <3>2 DEF Send, Decoded
      <3>4. HandOver(Tail(au))
        BY <2>1 DEF Send
      <3> QED BY <1>4, <3>1, <3>3, <3>4, HandOverTyped
    <2>2. CASE DropFrame
      <3>1. <<>> \in Seq(AccessUnit) /\ HandOver(<<>>)
        BY <2>2, EmptySeq DEF DropFrame
      <3>2. rx' \in [ok : BOOLEAN, pic : Pictures]
        BY <2>2 DEF DropFrame, SentTyped, Handed
      <3> QED BY <1>4, <3>1, <3>2, HandOverTyped
    <2> QED BY <2>1, <2>2
  <1> QED BY <1>1, <1>2, <1>3, <1>4, <1>5, <1>6, <1>7, WindowsAlone

(* A pause begins, changes its reason, encodes its overlay and ends.       *)
LEMMA PauseStepsTyped ==
  TypeInv /\ (PauseOnSignal \/ AccessLost \/ PauseOnLoss \/ Resume \/ RenderAgain
                \/ PauseEncode \/ PauseCollect)
    => TypeInv'
  <1> SUFFICES ASSUME TypeInv,
                      PauseOnSignal \/ AccessLost \/ PauseOnLoss \/ Resume \/ RenderAgain
                        \/ PauseEncode \/ PauseCollect
               PROVE  TypeInv'
    OBVIOUS
  <1> USE DEF TypeInv, TypeOK
  <1>1. enc \in Encoder /\ (enc' \in Encoder <=> EncoderTyped')
    BY DEF EncoderTyped, Encoder
  <1>2. UNCHANGED <<windows, sess>>
    BY DEF PauseOnSignal, AccessLost, PauseOnLoss, Resume, RenderAgain, PauseEncode, PauseCollect
  <1>3. UNCHANGED <<win, mail, image, mode>> /\ mode' \in Sizes
    BY <1>2 DEF windows, WindowsTyped
  <1>4. ASSUME CaptureTyped', EncoderTyped', PauseTyped', SentTyped', Handed',
               sig' \in [locked : BOOLEAN, off : BOOLEAN], Hiccup \/ UNCHANGED left
        PROVE  TypeInv'
    BY <1>3, <1>4, WindowsAlone
  <1>5. OnDefault \in BOOLEAN
    BY DEF OnDefault
  <1>6. pauseReasonNow(OnDefault) \in Reasons
    BY <1>5, ReasonTyped
  <1>7. LastFrame \in Pictures
    BY StreamAssumption DEF LastFrame, CaptureTyped, Blank, Junk, Pictures
  <1>8. CASE PauseOnSignal
    <2>1. UNCHANGED <<dup, au, loc, running, rx, left>> /\ ForgetStaleLock(OnDefault)
      BY <1>8 DEF PauseOnSignal
    <2>2. EnterPause(pauseReasonNow(OnDefault), FALSE, LastFrame)
      BY <1>8 DEF PauseOnSignal
    <2>3. PauseTyped' /\ EncoderTyped' /\ buf' \in Pictures
      BY <1>6, <1>7, <2>2, EnterPauseTyped DEF CaptureTyped
    <2>4. CaptureTyped'
      BY <1>2, <1>8, <2>1, <2>3 DEF PauseOnSignal, CaptureTyped
    <2>5. SentTyped' /\ Handed'
      BY <2>1, SentAlone DEF SentTyped
    <2> QED BY <1>4, <1>5, <2>1, <2>3, <2>4, <2>5, ForgetTyped
  <1>9. CASE AccessLost
    <2>1. UNCHANGED <<buf, cap, enc, au, running, rx, left>>
      BY <1>9 DEF AccessLost
    <2>2. sig' \in [locked : BOOLEAN, off : BOOLEAN]
      BY <1>5, <1>9, ForgetTyped DEF AccessLost, WindowsTyped
    <2>3. loc' \in {"top", "lost", "lostSecure", "rebuild"} /\ loc # "send"
      BY <1>9 DEF AccessLost, Capturing, AtTop
    <2>4. CaptureTyped'
      <3>1. Reopened \in [open : BOOLEAN, lost : BOOLEAN, have : BOOLEAN, news : BOOLEAN,
                          size : Sizes]
        BY DEF Reopened, Opened, Closed, CaptureTyped, WindowsTyped
      <3> QED BY <1>2, <1>9, <2>1, <3>1 DEF AccessLost, CaptureTyped
    <2>5. PauseTyped'
      <3> DEFINE r == IF OnDefault /\ ~sig.locked /\ ~sig.off THEN pause.reason
                                                           ELSE pauseReasonNow(OnDefault)
      <3>1. r \in Reasons
        BY <1>6 DEF PauseTyped
      <3>2. pause' = [pause EXCEPT !.over = LastFrame, !.reason = r]
        BY <1>9 DEF AccessLost
      <3> HIDE DEF r
      <3> QED BY <1>7, <3>1, <3>2 DEF PauseTyped
    <2>6. SentTyped' /\ Handed'
      BY <2>1, <2>3, SentAlone DEF SentTyped
    <2> QED BY <1>1, <1>4, <2>1, <2>2, <2>4, <2>5, <2>6
  <1>10. CASE PauseOnLoss
    <2> DEFINE onDefault == loc = "lost"
               r == IF pause.reason = "none" THEN "paused" ELSE pauseReasonNow(onDefault)
    <2>1. /\ UNCHANGED <<dup, au, running, rx, left>>
          /\ loc \in {"lost", "lostSecure"} /\ loc' = "top"
      BY <1>10 DEF PauseOnLoss
    <2>2. r \in Reasons /\ onDefault \in BOOLEAN
      BY ReasonTyped DEF Reasons
    <2>3. EnterPause(r, ~onDefault, pause.over) /\ ForgetStaleLock(onDefault)
      BY <1>10 DEF PauseOnLoss
    <2>4. pause.over \in Pictures /\ buf \in Pictures
      BY DEF PauseTyped, CaptureTyped
    <2>5. cap' = [cap EXCEPT !.pend = FALSE, !.tail = FALSE, !.first = FALSE]
      BY <1>10 DEF PauseOnLoss
    <2> HIDE DEF onDefault, r
    <2>6. PauseTyped' /\ EncoderTyped' /\ buf' \in Pictures
      BY <2>2, <2>3, <2>4, EnterPauseTyped
    <2>7. CaptureTyped'
      BY <1>2, <2>1, <2>5, <2>6 DEF CaptureTyped
    <2>8. SentTyped' /\ Handed'
      BY <2>1, SentAlone DEF SentTyped
    <2> QED BY <1>4, <2>1, <2>2, <2>3, <2>6, <2>7, <2>8, ForgetTyped
  <1>11. CASE Resume
    <2>1. UNCHANGED <<au, loc, running, rx>> /\ ForgetStaleLock(OnDefault)
      BY <1>11 DEF Resume
    <2>2. SentTyped' /\ Handed'
      BY <2>1, SentAlone DEF SentTyped
    <2>3. CASE Hiccup /\ BuildFails /\ UNCHANGED pause
      BY <1>2, <1>4, <1>5, <2>1, <2>2, <2>3, BuildFailsTyped, ForgetTyped
         DEF PauseTyped, CaptureTyped
    <2>4. CASE ~(Hiccup /\ BuildFails /\ UNCHANGED pause)
      <3>1. PICK desc \in {mode, sess}, frame \in BOOLEAN :
               /\ dup' = Opened(desc, frame)
               /\ enc' = RequestKeyFrame(Configured(enc, sess, FALSE))
               /\ cap' = [cap EXCEPT !.gpu = GpuPath(sess, desc), !.first = FALSE, !.pend = TRUE]
        BY <1>11, <2>4 DEF Resume
      <3>2. /\ left' = left /\ buf' = Junk
            /\ pause' = [pause EXCEPT !.on = FALSE, !.hide = FALSE, !.dropKey = FALSE]
        BY <1>11, <2>4 DEF Resume
      <3>3. sess \in Sizes /\ desc \in Sizes
        BY DEF CaptureTyped, WindowsTyped
      <3>4. Configured(enc, sess, FALSE) \in Encoder
        BY <1>1, <3>3, EncoderOps
      <3>5. enc' \in Encoder
        BY <3>1, <3>3, <3>4, EncoderOps
      <3>6. GpuPath(sess, desc) \in BOOLEAN /\ Junk \in Pictures
        BY <1>1, StreamAssumption DEF GpuPath, Encoder, Junk, Pictures
      <3>7. CaptureTyped'
        BY <1>2, <3>1, <3>2, <3>3, <3>6 DEF Opened, CaptureTyped
      <3>8. PauseTyped'
        BY <3>2 DEF PauseTyped
      <3> QED BY <1>1, <1>4, <1>5, <2>1, <2>2, <3>2, <3>5, <3>7, <3>8, ForgetTyped
    <2> QED BY <2>3, <2>4
  <1>12. CASE RenderAgain
    <2>1. /\ UNCHANGED <<dup, buf, cap, au, loc, running, rx, left>>
          /\ ForgetStaleLock(OnDefault) /\ Render(pauseReasonNow(OnDefault))
      BY <1>12 DEF RenderAgain
    <2>2. PauseTyped' /\ EncoderTyped'
      BY <1>6, <2>1, RenderTyped
    <2>3. CaptureTyped'
      BY <1>2, <2>1 DEF CaptureTyped
    <2>4. SentTyped' /\ Handed'
      BY <2>1, SentAlone DEF SentTyped
    <2> QED BY <1>4, <1>5, <2>1, <2>2, <2>3, <2>4, ForgetTyped
  <1>13. CASE PauseEncode
    <2> DEFINE e == IF pause.due = 0 /\ pause.dropKey THEN RequestKeyFrame(enc) ELSE enc
    <2>1. UNCHANGED <<dup, buf, cap, running, sig>> /\ (Hiccup \/ UNCHANGED left)
      BY <1>13 DEF PauseEncode
    <2>2. CaptureTyped' /\ sig' \in [locked : BOOLEAN, off : BOOLEAN]
      BY <1>2, <2>1 DEF CaptureTyped, WindowsTyped
    <2>3. e \in Encoder
      BY <1>1, EncoderOps DEF Sizes
    <2>4. Due \in 0 .. 2 /\ pause.over \in Pictures
      BY DEF Due, PauseTyped
    <2>5. <<>> \in Seq(AccessUnit)
      BY EmptySeq
    <2>6. enc' \in Encoder /\ \E q \in Seq(AccessUnit) : PauseOut(q, Due)
      <3>1. \/ \E key \in BOOLEAN, n \in 0 .. Len(e.held) + 1 :
                 /\ enc' = AfterInput(e, pause.over, key, n)
                 /\ PauseOut(Output(e, pause.over, key, n), Due)
            \/ enc' = Stalled(e) /\ PauseOut(<<>>, Due)
            \/ enc' = e /\ PauseOut(<<>>, Due)
        BY <1>13 DEF PauseEncode
      <3> HIDE DEF e
      <3>2. CASE \E key \in BOOLEAN, n \in 0 .. Len(e.held) + 1 :
                   /\ enc' = AfterInput(e, pause.over, key, n)
                   /\ PauseOut(Output(e, pause.over, key, n), Due)
        <4>1. PICK key \in BOOLEAN, n \in 0 .. Len(e.held) + 1 :
                   /\ enc' = AfterInput(e, pause.over, key, n)
                   /\ PauseOut(Output(e, pause.over, key, n), Due)
          BY <3>2
        <4> QED BY <2>3, <2>4, <4>1, InputTyped
      <3>3. CASE enc' = Stalled(e) /\ PauseOut(<<>>, Due)
        BY <2>3, <2>5, <3>3, EncoderOps DEF Sizes
      <3>4. CASE enc' = e /\ PauseOut(<<>>, Due)
        BY <2>3, <2>5, <3>4
      <3> QED BY <3>1, <3>2, <3>3, <3>4
    <2> HIDE DEF e
    <2>7. PauseTyped' /\ SentTyped' /\ Handed'
      BY <2>1, <2>4, <2>6, PauseOutTyped
    <2> QED BY <1>1, <1>4, <2>1, <2>2, <2>6, <2>7
  <1>14. CASE PauseCollect
    <2>1. UNCHANGED <<dup, buf, cap, running, sig, left>>
      BY <1>14 DEF PauseCollect
    <2>2. CaptureTyped' /\ sig' \in [locked : BOOLEAN, off : BOOLEAN]
      BY <1>2, <2>1 DEF CaptureTyped, WindowsTyped
    <2>3. PICK n \in Finished(enc) : Collect(n) /\ PauseOut(SubSeq(enc.held, 1, n), 0)
      BY <1>14 DEF PauseCollect
    <2>4. enc' \in Encoder /\ SubSeq(enc.held, 1, n) \in Seq(AccessUnit)
      BY <1>1, <2>3, CollectTyped
    <2>5. PauseTyped' /\ SentTyped' /\ Handed'
      BY <2>1, <2>3, <2>4, 0 \in 0 .. 2, PauseOutTyped
    <2> QED BY <1>1, <1>4, <2>1, <2>2, <2>4, <2>5
  <1> QED BY <1>8, <1>9, <1>10, <1>11, <1>12, <1>13, <1>14

-----------------------------------------------------------------------------
LEMMA TypeNext == TypeInv /\ [Next]_vars => TypeInv'
  <1>1. TypeInv /\ UNCHANGED vars => TypeInv'
    BY DEF TypeInv, TypeOK, Handed, WindowsTyped, CaptureTyped, EncoderTyped, PauseTyped, SentTyped,
           vars, windows, stream
  <1> QED BY <1>1, WindowsStepTyped, ReaderTyped, CaptureStepsTyped, EncodeTyped, SendingTyped,
             PauseStepsTyped DEF Next, LoopStep

(* Whatever Windows, the tray, the reader and the link do, the loop, the   *)
(* encoder and the decoder stay within their types, and the overlays a     *)
(* pause owes (src/src/app/SenderApp.cpp, renderPauseFrame and the pause   *)
(* branch of the loop) are never counted below none.                       *)
THEOREM TypeCorrect == Spec => []TypeOK
  <1>1. Spec => []TypeInv
    BY TypeInit, TypeNext, PTL DEF Spec
  <1> QED BY <1>1, PTL DEF TypeInv

-----------------------------------------------------------------------------
(* Nothing of the desktop leaves once a pause hides it.  That needs an     *)
(* encoder that can be flushed: one that refuses keeps its old units.      *)
AllBlank(q) == \A i \in DOMAIN q : q[i].pic = Blank
HiddenInv == HiddenStaysHidden /\ (pause.hide => pause.on)

LEMMA HiddenMeans ==
  HiddenStaysHidden <=>
    (pause.hide => pause.over = Blank /\ AllBlank(enc.held) /\ AllBlank(au))
  BY DEF HiddenStaysHidden, AllBlank

LEMMA EmptyBlank == AllBlank(<<>>)
  BY EmptySeq DEF AllBlank

LEMMA PartBlank ==
  ASSUME NEW q \in Seq(AccessUnit), NEW m \in 1 .. Len(q) + 1, NEW n \in 0 .. Len(q), AllBlank(q)
  PROVE  AllBlank(SubSeq(q, m, n))
  BY PartOf DEF AllBlank

(* An overlay that goes in leaves only overlays, inside and out.           *)
LEMMA InputBlank ==
  ASSUME NEW e \in Encoder, NEW key \in BOOLEAN, NEW n \in 0 .. Len(e.held) + 1, AllBlank(e.held)
  PROVE  AllBlank(AfterInput(e, Blank, key, n).held) /\ AllBlank(Output(e, Blank, key, n))
  <1> DEFINE q == Submitted(e, Blank, key)
  <1>1. Blank \in Pictures /\ Len(e.held) \in Nat
    BY StreamAssumption DEF Blank, Junk, Pictures, Encoder
  <1>2. q \in Seq(AccessUnit) /\ Len(q) = Len(e.held) + 1 /\ AllBlank(q)
    BY <1>1, SubmittedUnits DEF AllBlank
  <1>3. AfterInput(e, Blank, key, n).held = SubSeq(q, n + 1, Len(e.held) + 1)
    BY DEF AfterInput, Encoder
  <1>4. Output(e, Blank, key, n) = SubSeq(q, 1, n)
    BY DEF Output
  <1> HIDE DEF q
  <1>5. /\ n + 1 \in 1 .. Len(q) + 1 /\ Len(e.held) + 1 \in 0 .. Len(q)
        /\ 1 \in 1 .. Len(q) + 1 /\ n \in 0 .. Len(q)
    BY <1>1, <1>2
  <1>6. AllBlank(SubSeq(q, n + 1, Len(e.held) + 1)) /\ AllBlank(SubSeq(q, 1, n))
    BY <1>2, <1>5, PartBlank
  <1> QED BY <1>3, <1>4, <1>6

(* A flush empties the encoder, and so does an MFT that is bound anew or   *)
(* that refuses.                                                           *)
LEMMA FlushBlank ==
  ASSUME ~FlushRefusable, NEW e \in Encoder, NEW f \in Flushes(e)
  PROVE  AllBlank(f.held)
  <1>1. e.held \in Seq(AccessUnit) /\ Len(e.held) \in Nat
    BY DEF Encoder
  <1>2. f = Flushed(e, Len(e.held))
    BY DEF Flushes
  <1>3. f.held = SubSeq(e.held, Len(e.held) + 1, Len(e.held))
    BY <1>2 DEF Flushed, RequestKeyFrame, Encoder
  <1>4. f.held = <<>>
    BY <1>1, <1>3, SubSeqEmpty
  <1> QED BY <1>4, EmptyBlank

LEMMA KeepsHeld ==
  ASSUME NEW e \in Encoder
  PROVE  RequestKeyFrame(e).held = e.held /\ Stalled(e).held = e.held
  BY DEF Encoder, RequestKeyFrame, Stalled

LEMMA BuiltBlank ==
  ASSUME enc \in Encoder, AllBlank(enc.held),
         BuildFails \/ (\E size, desc \in Sizes, frame \in BOOLEAN : Built(size, desc, frame))
  PROVE  AllBlank(enc'.held)
  <1>1. CASE BuildFails
    <2>1. enc' = enc \/ enc'.held = <<>>
      BY <1>1 DEF BuildFails, Refused, Encoder
    <2> QED BY <2>1, EmptyBlank
  <1>2. ASSUME NEW size \in Sizes, NEW desc \in Sizes, NEW frame \in BOOLEAN,
               Built(size, desc, frame)
        PROVE  AllBlank(enc'.held)
    <2>1. Configured(enc, size, FALSE) \in Encoder
      BY EncoderOps
    <2>2. Configured(enc, size, FALSE).held = <<>>
      BY DEF Configured, Bound, Probed, Encoder
    <2>3. enc'.held = <<>>
      BY <1>2, <2>1, <2>2, KeepsHeld DEF Built
    <2> QED BY <2>3, EmptyBlank
  <1> QED BY <1>1, <1>2

LEMMA HiddenInit == Init => HiddenInv
  BY DEF Init, HiddenInv, HiddenStaysHidden

(* Outside a pause nothing is hidden, and only a pause hides.              *)
LEMMA ShownHidden ==
  TypeInv /\ HiddenInv
      /\ (CaptureFrame \/ CaptureFails \/ CaptureTurned \/ Resize \/ Encode \/ CollectIdle
            \/ AccessLost)
    => HiddenInv'
  <1> SUFFICES ASSUME TypeInv, HiddenInv,
                      CaptureFrame \/ CaptureFails \/ CaptureTurned \/ Resize \/ Encode
                        \/ CollectIdle \/ AccessLost
               PROVE  HiddenInv'
    OBVIOUS
  <1>1. ~pause.on
    BY DEF CaptureFrame, CaptureFails, CaptureTurned, Resize, Encode, EncodeFrame, EncodeNothing,
           EncodeStalls, CollectIdle, AccessLost, CanEncode, Capturing
  <1>2. ~pause.hide
    BY <1>1 DEF HiddenInv
  <1>3. pause'.hide = pause.hide
    <2>1. CASE AccessLost
      BY <2>1 DEF AccessLost, TypeInv, TypeOK, PauseTyped
    <2>2. CASE ~AccessLost
      BY <2>2 DEF CaptureFrame, CaptureFails, CaptureTurned, Resize, Encode, EncodeFrame,
             EncodeNothing, EncodeStalls, CollectIdle
    <2> QED BY <2>1, <2>2
  <1> QED BY <1>2, <1>3 DEF HiddenInv, HiddenStaysHidden

(* Who leaves the pause and the units alone leaves what is hidden so; so   *)
(* do the reader and a rebuild, which empty the encoder.                   *)
LEMMA OthersHidden ==
  TypeInv /\ HiddenInv /\ (WindowsStep \/ TrayStep \/ ReaderStep \/ RebuildOnLoss) => HiddenInv'
  <1> SUFFICES ASSUME TypeInv, HiddenInv, WindowsStep \/ TrayStep \/ ReaderStep \/ RebuildOnLoss
               PROVE  HiddenInv'
    OBVIOUS
  <1>1. enc \in Encoder
    BY DEF TypeInv, TypeOK, EncoderTyped, Encoder
  <1>2. UNCHANGED au
    BY DEF WindowsStep, TrayStep, SessionChange, UacPrompt, DesktopSwitch, DisplayPower, Present,
           WtsOutage, FirstPresent, ModeChange, HearSession, HearDisplay, stream, windows,
           ReaderStep, KeyAsked, HelloTurn, RebuildOnLoss
  <1>3. pause'.hide = pause.hide /\ pause'.over = pause.over /\ pause'.on = pause.on
    <2>1. CASE HelloTurn
      BY <2>1 DEF HelloTurn, TypeInv, TypeOK, PauseTyped
    <2>2. CASE ~HelloTurn
      BY <2>2 DEF WindowsStep, TrayStep, SessionChange, UacPrompt, DesktopSwitch, DisplayPower,
             WtsOutage, Present, FirstPresent, ModeChange, HearSession, HearDisplay, stream,
             windows,
             ReaderStep, KeyAsked, RebuildOnLoss
    <2> QED BY <2>1, <2>2
  <1>4. ASSUME AllBlank(enc.held) PROVE AllBlank(enc'.held)
    <2>1. CASE WindowsStep \/ TrayStep
      <3>1. enc' = enc
        BY <2>1 DEF WindowsStep, TrayStep, SessionChange, UacPrompt, DesktopSwitch, DisplayPower,
               WtsOutage, Present, FirstPresent, ModeChange, HearSession, HearDisplay, stream,
               windows
      <3> QED BY <1>4, <3>1
    <2>2. CASE KeyAsked
      BY <1>1, <1>4, <2>2, KeepsHeld DEF KeyAsked
    <2>3. CASE HelloTurn
      <3>1. Turned(sess) \in Sizes
        BY DEF Turned, Sizes
      <3>2. BuildFails \/ \E frame \in BOOLEAN : Built(Turned(sess), Turned(sess), frame)
        BY <2>3 DEF HelloTurn
      <3> QED BY <1>1, <1>4, <3>1, <3>2, BuiltBlank
    <2>4. CASE RebuildOnLoss
      <3>1. sess \in Sizes /\ mode \in Sizes
        BY DEF TypeInv, TypeOK, CaptureTyped, WindowsTyped
      <3>2. BuildFails \/ \E desc \in {mode, sess}, frame \in BOOLEAN : Built(sess, desc, frame)
        BY <2>4 DEF RebuildOnLoss, RebuildOr
      <3> QED BY <1>1, <1>4, <3>1, <3>2, BuiltBlank
    <2> QED BY <2>1, <2>2, <2>3, <2>4 DEF ReaderStep
  <1> QED BY <1>2, <1>3, <1>4, HiddenMeans DEF HiddenInv, HiddenStaysHidden, AllBlank

(* Sending takes units away, dropping all of them.                         *)
LEMMA SendingHidden == TypeInv /\ HiddenInv /\ (Send \/ DropFrame) => HiddenInv'
  <1> SUFFICES ASSUME TypeInv, HiddenInv, Send \/ DropFrame PROVE HiddenInv'
    OBVIOUS
  <1>1. enc \in Encoder
    BY DEF TypeInv, TypeOK, EncoderTyped, Encoder
  <1>2. pause' = pause /\ enc'.held = enc.held
    BY <1>1, KeepsHeld DEF Send, DropFrame
  <1>3. ASSUME AllBlank(au) PROVE AllBlank(au')
    <2>1. CASE Send
      <3>1. au \in Seq(AccessUnit) /\ au # <<>> /\ au' = Tail(au)
        BY <2>1 DEF Send, HandOver, TypeInv, TypeOK, SentTyped, Handed
      <3>2. Len(au) \in Nat \ {0}
        BY <3>1, EmptySeq
      <3>3. au' = SubSeq(au, 2, Len(au))
        BY <3>1, TailIsSubSeq
      <3>4. 2 \in 1 .. Len(au) + 1 /\ Len(au) \in 0 .. Len(au)
        BY <3>2
      <3> QED BY <1>3, <3>1, <3>3, <3>4, PartBlank
    <2>2. CASE DropFrame
      BY <2>2, EmptyBlank DEF DropFrame, HandOver
    <2> QED BY <2>1, <2>2
  <1> QED BY <1>2, <1>3 DEF HiddenInv, HiddenStaysHidden, AllBlank

(* A pause that hides empties the encoder and has only the overlay to      *)
(* show; what it encodes, collects and ends with is nothing else.          *)
LEMMA PauseHidden ==
  ~FlushRefusable /\ TypeInv /\ HiddenInv
      /\ (PauseOnSignal \/ PauseOnLoss \/ RenderAgain \/ Resume \/ PauseEncode \/ PauseCollect)
    => HiddenInv'
  <1> SUFFICES ASSUME ~FlushRefusable, TypeInv, HiddenInv,
                      PauseOnSignal \/ PauseOnLoss \/ RenderAgain \/ Resume \/ PauseEncode
                        \/ PauseCollect
               PROVE  HiddenInv'
    OBVIOUS
  <1>1. enc \in Encoder
    BY DEF TypeInv, TypeOK, EncoderTyped, Encoder
  <1>2. pause \in [on : BOOLEAN, hide : BOOLEAN, dropKey : BOOLEAN, reason : Reasons,
                   due : 0 .. 2, over : Pictures, turned : BOOLEAN]
    BY DEF TypeInv, TypeOK, PauseTyped
  <1>3. ASSUME NEW r, NEW fromSecure, NEW base, EnterPause(r, fromSecure, base), UNCHANGED au,
               loc # "send"
        PROVE  HiddenInv'
    <2>1. pause'.on /\ (pause'.hide => pause'.over = Blank /\ enc' \in Flushes(enc))
      BY <1>3 DEF EnterPause
    <2>2. au' = <<>>
      BY <1>3 DEF TypeInv, Handed
    <2>3. pause'.hide => AllBlank(enc'.held)
      BY <1>1, <2>1, FlushBlank
    <2> QED BY <2>1, <2>2, <2>3, EmptyBlank DEF HiddenInv, HiddenStaysHidden, AllBlank
  <1>4. ASSUME NEW q \in Seq(AccessUnit), NEW due, PauseOut(q, due), pause.on,
               pause.hide => AllBlank(q) /\ AllBlank(enc'.held)
        PROVE  HiddenInv'
    <2>1. pause'.hide = pause.hide /\ pause'.over = pause.over /\ pause'.on = pause.on
      BY <1>2, <1>4 DEF PauseOut
    <2>2. FirstKey(q) \in 0 .. Len(q) /\ Len(q) \in Nat
      BY FirstKeyRange, LenProperties
    <2>3. \E from \in 1 .. Len(q) + 1 : au' = SubSeq(q, from, Len(q))
      <3> DEFINE k == FirstKey(q)
                 from == IF ~pause.dropKey THEN 1 ELSE IF k = 0 THEN Len(q) + 1 ELSE k
      <3>1. from \in 1 .. Len(q) + 1
        BY <2>2
      <3>2. au' = SubSeq(q, from, Len(q))
        BY <1>4 DEF PauseOut, HandOver
      <3> QED BY <3>1, <3>2
    <2>4. pause.hide => AllBlank(au')
      BY <1>4, <2>2, <2>3, PartBlank
    <2> QED BY <1>4, <2>1, <2>4 DEF HiddenInv, HiddenStaysHidden, AllBlank
  <1>5. CASE PauseOnSignal
    BY <1>3, <1>5 DEF PauseOnSignal, AtTop
  <1>6. CASE PauseOnLoss
    BY <1>3, <1>6 DEF PauseOnLoss
  <1>7. CASE RenderAgain
    <2> DEFINE hides == PauseHidesDesktop(pauseReasonNow(OnDefault)) /\ ~pause.hide
    <2>1. pause.on /\ au' = <<>>
      BY <1>7 DEF RenderAgain, AtTop, TypeInv, Handed
    <2>2. /\ pause'.hide <=> pause.hide \/ hides
          /\ pause'.over = IF hides \/ pause.hide THEN Blank ELSE pause.over
          /\ pause'.on = pause.on
      BY <1>2, <1>7 DEF RenderAgain, Render
    <2>3. IF hides THEN enc' \in Flushes(enc) ELSE enc' = RequestKeyFrame(enc)
      BY <1>7 DEF RenderAgain, Render
    <2> HIDE DEF hides
    <2>4. CASE hides
      BY <1>1, <2>1, <2>2, <2>3, <2>4, FlushBlank, EmptyBlank
         DEF HiddenInv, HiddenStaysHidden, AllBlank
    <2>5. CASE ~hides
      <3>1. enc'.held = enc.held
        BY <1>1, <2>3, <2>5, KeepsHeld
      <3>2. pause'.hide => AllBlank(enc'.held) /\ AllBlank(au') /\ pause'.over = Blank
        BY <2>1, <2>2, <2>5, <3>1, HiddenMeans, EmptyBlank DEF HiddenInv
      <3> QED BY <2>1, <2>2, <3>2 DEF HiddenInv, HiddenStaysHidden, AllBlank
    <2> QED BY <2>4, <2>5
  <1>8. CASE Resume
    <2>1. au' = <<>>
      BY <1>8 DEF Resume, AtTop, TypeInv, Handed
    <2>2. pause'.hide => BuildFails /\ UNCHANGED pause
      BY <1>2, <1>8 DEF Resume
    <2>3. CASE pause'.hide
      <3>1. AllBlank(enc'.held)
        BY <1>1, <2>2, <2>3, BuiltBlank, HiddenMeans DEF HiddenInv
      <3> QED BY <2>1, <2>2, <2>3, <3>1, HiddenMeans, EmptyBlank
              DEF HiddenInv, HiddenStaysHidden, AllBlank
    <2>4. CASE ~pause'.hide
      BY <2>4 DEF HiddenInv, HiddenStaysHidden
    <2> QED BY <2>3, <2>4
  <1>9. CASE PauseEncode
    <2> DEFINE e == IF pause.due = 0 /\ pause.dropKey THEN RequestKeyFrame(enc) ELSE enc
    <2>1. e \in Encoder /\ e.held = enc.held /\ pause.on
      BY <1>1, <1>9, EncoderOps, KeepsHeld DEF PauseEncode, Sizes
    <2>2. \/ \E key \in BOOLEAN, n \in 0 .. Len(e.held) + 1 :
               /\ enc' = AfterInput(e, pause.over, key, n)
               /\ PauseOut(Output(e, pause.over, key, n), Due)
          \/ (enc' = Stalled(e) \/ enc' = e) /\ PauseOut(<<>>, Due)
      BY <1>9 DEF PauseEncode
    <2> HIDE DEF e
    <2>3. CASE \E key \in BOOLEAN, n \in 0 .. Len(e.held) + 1 :
                 /\ enc' = AfterInput(e, pause.over, key, n)
                 /\ PauseOut(Output(e, pause.over, key, n), Due)
      <3>1. PICK key \in BOOLEAN, n \in 0 .. Len(e.held) + 1 :
               /\ enc' = AfterInput(e, pause.over, key, n)
               /\ PauseOut(Output(e, pause.over, key, n), Due)
        BY <2>3
      <3>2. Output(e, pause.over, key, n) \in Seq(AccessUnit)
        BY <1>2, <2>1, InputTyped
      <3>3. pause.hide => AllBlank(e.held) /\ pause.over = Blank
        BY <2>1, HiddenMeans DEF HiddenInv
      <3>4. pause.hide => AllBlank(Output(e, pause.over, key, n)) /\ AllBlank(enc'.held)
        BY <2>1, <3>1, <3>3, InputBlank
      <3> QED BY <1>4, <2>1, <3>1, <3>2, <3>4
    <2>4. CASE (enc' = Stalled(e) \/ enc' = e) /\ PauseOut(<<>>, Due)
      <3>1. enc'.held = enc.held
        BY <2>1, <2>4, KeepsHeld
      <3>2. pause.hide => AllBlank(<<>>) /\ AllBlank(enc'.held)
        BY <3>1, HiddenMeans, EmptyBlank DEF HiddenInv
      <3>3. <<>> \in Seq(AccessUnit)
        BY EmptySeq
      <3> QED BY <1>4, <2>1, <2>4, <3>2, <3>3
    <2> QED BY <2>2, <2>3, <2>4
  <1>10. CASE PauseCollect
    <2>1. PICK n \in Finished(enc) : Collect(n) /\ PauseOut(SubSeq(enc.held, 1, n), 0)
      BY <1>10 DEF PauseCollect
    <2>2. enc.held \in Seq(AccessUnit) /\ Len(enc.held) \in Nat /\ n \in 0 .. Len(enc.held)
      BY <1>1, <2>1 DEF Encoder, Finished
    <2>3. enc'.held = SubSeq(enc.held, n + 1, Len(enc.held))
      BY <1>1, <2>1 DEF Collect, Encoder
    <2>4. SubSeq(enc.held, 1, n) \in Seq(AccessUnit)
      BY <1>1, <2>1, CollectTyped
    <2>5. pause.hide => AllBlank(enc.held)
      BY HiddenMeans DEF HiddenInv
    <2>6. /\ n + 1 \in 1 .. Len(enc.held) + 1 /\ Len(enc.held) \in 0 .. Len(enc.held)
          /\ 1 \in 1 .. Len(enc.held) + 1
      BY <2>2
    <2>7. pause.hide => AllBlank(SubSeq(enc.held, 1, n)) /\ AllBlank(enc'.held)
      BY <2>2, <2>3, <2>5, <2>6, PartBlank
    <2> QED BY <1>4, <1>10, <2>1, <2>4, <2>7 DEF PauseCollect
  <1> QED BY <1>5, <1>6, <1>7, <1>8, <1>9, <1>10

(* With an encoder that can be flushed, a locked, prompting or sleeping PC *)
(* shows nothing of its desktop once its pause has begun, not even units   *)
(* that were encoded before (src/src/app/SenderApp.cpp, renderPauseFrame   *)
(* and flushForBlank; FlushDiscard of H264Encoder.cpp).                    *)
THEOREM DesktopStaysHidden ==
  ASSUME ~FlushRefusable
  PROVE  Spec => []HiddenStaysHidden
  <1>1. TypeInv /\ HiddenInv /\ [Next]_vars => HiddenInv'
    <2>1. HiddenInv /\ UNCHANGED vars => HiddenInv'
      BY DEF HiddenInv, HiddenStaysHidden, vars, stream
    <2> QED BY <2>1, ShownHidden, OthersHidden, SendingHidden, PauseHidden
            DEF Next, LoopStep
  <1>2. Spec => []TypeInv
    BY TypeInit, TypeNext, PTL DEF Spec
  <1>3. Spec => []HiddenInv
    BY <1>1, <1>2, HiddenInit, PTL DEF Spec
  <1> QED BY <1>3, PTL DEF HiddenInv

-----------------------------------------------------------------------------
(* An encoder that refuses to be flushed included: a decoder that cannot   *)
(* go on is owed a key frame.                                              *)

(* Every unit of q that does not continue the one before, or a key frame   *)
(* behind it, is a key frame.                                              *)
KeyIn(q, i) == \E j \in i .. Len(q) : q[j].key
Whole(q) == \A i \in DOMAIN q : ~q[i].cont => KeyIn(q, i)

Way == au \o enc.held
Covered ==
    /\ ~enc.fresh
    /\ ~rx.ok \/ pause.dropKey => KeyIn(Way, 1)
    /\ Whole(Way)

(* While the duplication serves, a size that is not the encoder's is the   *)
(* head's: what a CaptureTurned finds new is not what was asked for.       *)
DupInv ==
    /\ dup.news \/ dup.lost => dup.open
    /\ dup.open /\ ~dup.lost /\ dup.size # enc.size => dup.size = mode

(* Units are dropped before the blank key frame only in a pause, and once  *)
(* units go out no more are.                                               *)
DropInv == pause.dropKey => pause.on /\ au = <<>>

KeyMain == running /\ enc.conf => Asked \/ Covered
KeyInv == DupInv /\ DropInv /\ KeyMain

-----------------------------------------------------------------------------
(* Sequences of units.                                                     *)

LEMMA Units ==
  ASSUME TypeOK
  PROVE  /\ enc \in Encoder /\ enc.held \in Seq(AccessUnit) /\ Len(enc.held) \in Nat
         /\ au \in Seq(AccessUnit) /\ Len(au) \in Nat
  <1>1. enc \in Encoder /\ au \in Seq(AccessUnit)
    BY DEF TypeOK, EncoderTyped, Encoder, SentTyped
  <1>2. enc.held \in Seq(AccessUnit)
    BY <1>1 DEF Encoder
  <1> QED BY <1>1, <1>2, LenProperties

(* What is left at the end of a whole sequence is whole.                   *)
LEMMA RestWhole ==
  ASSUME NEW q \in Seq(AccessUnit), Whole(q), NEW m \in 1 .. Len(q) + 1
  PROVE  Whole(SubSeq(q, m, Len(q)))
  <1> DEFINE r == SubSeq(q, m, Len(q))
  <1>1. Len(q) \in Nat /\ Len(q) \in 0 .. Len(q) /\ DOMAIN q = 1 .. Len(q)
    BY LenProperties
  <1>2. \A i \in m .. Len(q) : q[i] \in AccessUnit
    BY ElementOfSeq, <1>1
  <1>3. /\ r \in Seq(AccessUnit) /\ Len(r) = Len(q) - m + 1
        /\ \A i \in 1 .. Len(q) - m + 1 : r[i] = q[m + i - 1]
    BY <1>1, <1>2, SubSeqProperties
  <1>4. DOMAIN r = 1 .. Len(q) - m + 1
    BY <1>3, LenProperties
  <1> HIDE DEF r
  <1>5. ASSUME NEW i \in DOMAIN r, ~r[i].cont PROVE KeyIn(r, i)
    <2>1. m + i - 1 \in DOMAIN q /\ ~q[m + i - 1].cont
      BY <1>1, <1>3, <1>4, <1>5
    <2>2. PICK j \in (m + i - 1) .. Len(q) : q[j].key
      BY <2>1 DEF Whole, KeyIn
    <2>3. j - m + 1 \in i .. Len(q) - m + 1 /\ j - m + 1 \in 1 .. Len(q) - m + 1
      BY <1>1, <1>4, <2>2
    <2>4. r[j - m + 1] = q[j]
      <3>1. m + (j - m + 1) - 1 = j
        BY <1>1, <2>2
      <3> QED BY <1>3, <2>3, <3>1
    <2> QED BY <1>3, <2>2, <2>3, <2>4 DEF KeyIn
  <1> QED BY <1>5 DEF Whole, r

(* A key frame behind everything mends every break.                        *)
LEMMA AppendedWhole ==
  ASSUME NEW q \in Seq(AccessUnit), NEW f \in AccessUnit
  PROVE  /\ f.key => Whole(Append(q, f)) /\ KeyIn(Append(q, f), 1)
         /\ f.cont /\ Whole(q) => Whole(Append(q, f))
         /\ KeyIn(q, 1) => KeyIn(Append(q, f), 1)
  <1> DEFINE r == Append(q, f)
  <1>1. Len(q) \in Nat /\ DOMAIN q = 1 .. Len(q)
    BY LenProperties
  <1>2. /\ r \in Seq(AccessUnit) /\ Len(r) = Len(q) + 1
        /\ \A i \in 1 .. Len(q) : r[i] = q[i]
        /\ r[Len(q) + 1] = f
    BY AppendProperties
  <1>3. DOMAIN r = 1 .. Len(q) + 1
    BY <1>2, LenProperties
  <1> HIDE DEF r
  <1>4. ASSUME f.key, NEW i \in 1 .. Len(q) + 1 PROVE KeyIn(r, i)
    BY <1>1, <1>2, <1>4, Len(q) + 1 \in i .. Len(q) + 1 DEF KeyIn
  <1>5. ASSUME NEW i \in 1 .. Len(q), KeyIn(q, i) PROVE KeyIn(r, i)
    <2>1. PICK j \in i .. Len(q) : q[j].key
      BY <1>5 DEF KeyIn
    <2>2. j \in i .. Len(r) /\ r[j] = q[j]
      BY <1>1, <1>2, <2>1
    <2> QED BY <2>1, <2>2 DEF KeyIn
  <1>6. ASSUME KeyIn(q, 1) PROVE KeyIn(r, 1)
    <2>1. PICK j \in 1 .. Len(q) : q[j].key
      BY <1>6 DEF KeyIn
    <2>2. j \in 1 .. Len(r) /\ r[j] = q[j]
      BY <1>1, <1>2, <2>1
    <2> QED BY <2>1, <2>2 DEF KeyIn
  <1>7. ASSUME f.cont, Whole(q) PROVE Whole(r)
    <2>1. ASSUME NEW i \in DOMAIN r, ~r[i].cont PROVE KeyIn(r, i)
      <3>1. i # Len(q) + 1
        BY <1>2, <1>7, <2>1
      <3>2. i \in 1 .. Len(q) /\ ~q[i].cont
        BY <1>1, <1>2, <1>3, <2>1, <3>1
      <3>3. KeyIn(q, i)
        BY <1>1, <1>7, <3>2 DEF Whole
      <3> QED BY <1>5, <3>2, <3>3
    <2> QED BY <2>1 DEF Whole
  <1>8. f.key => Whole(r)
    BY <1>3, <1>4 DEF Whole
  <1>9. f.key => KeyIn(r, 1)
    BY <1>1, <1>4
  <1> QED BY <1>6, <1>7, <1>8, <1>9 DEF r

(* A sequence whose first n units are handed over from `from` on: what is  *)
(* on its way is the rest from there.                                      *)
LEMMA Joined ==
  ASSUME NEW q \in Seq(AccessUnit), NEW n \in 0 .. Len(q), NEW from \in 1 .. n + 1
  PROVE  SubSeq(SubSeq(q, 1, n), from, n) \o SubSeq(q, n + 1, Len(q)) = SubSeq(q, from, Len(q))
  <1> DEFINE p == SubSeq(q, 1, n)
             a == SubSeq(p, from, n)
             b == SubSeq(q, n + 1, Len(q))
             c == SubSeq(q, from, Len(q))
  <1>1. Len(q) \in Nat /\ \A i \in 1 .. Len(q) : q[i] \in AccessUnit
    BY LenProperties, ElementOfSeq
  <1>2. p \in Seq(AccessUnit) /\ \A i \in 1 .. n : p[i] = q[i]
    <2>1. \A i \in 1 .. n : q[i] \in AccessUnit
      BY <1>1
    <2>2. p \in Seq(AccessUnit) /\ \A i \in 1 .. n - 1 + 1 : p[i] = q[1 + i - 1]
      BY <1>1, <2>1, SubSeqProperties
    <2> HIDE DEF p
    <2> QED BY <2>2
  <1> HIDE DEF p
  <1>3. /\ a \in Seq(AccessUnit) /\ Len(a) = n - from + 1
        /\ \A i \in 1 .. n - from + 1 : a[i] = q[from + i - 1]
    <2>1. \A i \in from .. n : p[i] \in AccessUnit
      BY <1>1, <1>2
    <2>2. /\ a \in Seq(AccessUnit) /\ Len(a) = n - from + 1
          /\ \A i \in 1 .. n - from + 1 : a[i] = p[from + i - 1]
      BY <2>1, SubSeqProperties
    <2> HIDE DEF a
    <2> QED BY <1>2, <2>2
  <1>4. /\ b \in Seq(AccessUnit) /\ Len(b) = Len(q) - n
        /\ \A i \in 1 .. Len(q) - n : b[i] = q[n + i]
    <2>1. \A i \in n + 1 .. Len(q) : q[i] \in AccessUnit
      BY <1>1
    <2>2. /\ b \in Seq(AccessUnit)
          /\ Len(b) = IF n + 1 <= Len(q) THEN Len(q) - (n + 1) + 1 ELSE 0
          /\ \A i \in 1 .. Len(q) - (n + 1) + 1 : b[i] = q[n + 1 + i - 1]
      BY <1>1, <2>1, SubSeqProperties
    <2> HIDE DEF b
    <2> QED BY <1>1, <2>2
  <1>5. /\ c \in Seq(AccessUnit) /\ Len(c) = Len(q) - from + 1
        /\ \A i \in 1 .. Len(q) - from + 1 : c[i] = q[from + i - 1]
    <2>1. \A i \in from .. Len(q) : q[i] \in AccessUnit
      BY <1>1
    <2> QED BY <1>1, <2>1, SubSeqProperties
  <1> HIDE DEF a, b, c
  <1>6. /\ a \o b \in Seq(AccessUnit) /\ Len(a \o b) = Len(a) + Len(b)
        /\ \A i \in 1 .. Len(a) + Len(b) : (a \o b)[i] = IF i <= Len(a) THEN a[i] ELSE b[i - Len(a)]
    BY <1>3, <1>4, ConcatProperties
  <1>7. Len(a) + Len(b) = Len(c)
    BY <1>1, <1>3, <1>4, <1>5
  <1>8. ASSUME NEW i \in 1 .. Len(a) + Len(b) PROVE (a \o b)[i] = c[i]
    <2>1. CASE i <= Len(a)
      BY <1>1, <1>3, <1>4, <1>5, <1>6, <1>8, <2>1
    <2>2. CASE ~(i <= Len(a))
      <3>1. i - Len(a) \in 1 .. Len(q) - n /\ n + (i - Len(a)) = from + i - 1
        BY <1>1, <1>3, <1>4, <2>2
      <3>2. i \in 1 .. Len(q) - from + 1
        BY <1>1, <1>3, <1>4
      <3> QED BY <1>4, <1>5, <1>6, <2>2, <3>1, <3>2
    <2> QED BY <2>1, <2>2
  <1>9. a \o b = c
    BY <1>5, <1>6, <1>7, <1>8, SeqEqual
  <1> QED BY <1>9 DEF a, b, c, p

(* The first key frame is one, and without it there is none.               *)
LEMMA FirstKeyIsKey ==
  ASSUME NEW q \in Seq(AccessUnit)
  PROVE  IF FirstKey(q) = 0 THEN \A i \in 1 .. Len(q) : ~q[i].key ELSE q[FirstKey(q)].key
  <1> DEFINE I == {i \in 1 .. Len(q) : q[i].key}
  <1>1. FirstKey(q) = IF I # {} THEN Min(I) ELSE 0
    BY DEF FirstKey, SelectInSeq
  <1>2. CASE I = {}
    BY <1>1, <1>2
  <1>3. CASE I # {}
    <2>1. I \in SUBSET Nat
      OBVIOUS
    <2>2. Min(I) \in I
      BY <1>3, <2>1, LeastExists
    <2> QED BY <1>1, <1>3, <2>2
  <1> QED BY <1>2, <1>3

(* Taking the first unit leaves the rest.                                  *)
LEMMA TailWay ==
  ASSUME NEW a \in Seq(AccessUnit), NEW h \in Seq(AccessUnit), a # <<>>
  PROVE  /\ a \o h \in Seq(AccessUnit) /\ Len(a \o h) \in Nat \ {0}
         /\ (a \o h)[1] = Head(a)
         /\ Tail(a) \o h = SubSeq(a \o h, 2, Len(a \o h))
  <1> DEFINE q == a \o h
             c == SubSeq(q, 2, Len(q))
  <1>1. Len(a) \in Nat \ {0} /\ Len(h) \in Nat
    BY EmptySeq, LenProperties
  <1>2. /\ q \in Seq(AccessUnit) /\ Len(q) = Len(a) + Len(h)
        /\ \A i \in 1 .. Len(a) + Len(h) : q[i] = IF i <= Len(a) THEN a[i] ELSE h[i - Len(a)]
    BY ConcatProperties
  <1> HIDE DEF q
  <1>3. q[1] = a[1]
    BY <1>1, <1>2
  <1>4. /\ Tail(a) \in Seq(AccessUnit) /\ Len(Tail(a)) = Len(a) - 1
        /\ \A i \in 1 .. Len(Tail(a)) : Tail(a)[i] = a[i + 1]
    BY HeadTailProperties
  <1>5. /\ c \in Seq(AccessUnit) /\ Len(c) = Len(q) - 1
        /\ \A i \in 1 .. Len(q) - 1 : c[i] = q[i + 1]
    <2>1. \A i \in 2 .. Len(q) : q[i] \in AccessUnit
      BY <1>1, <1>2, ElementOfSeq
    <2>2. /\ c \in Seq(AccessUnit) /\ Len(c) = IF 2 <= Len(q) THEN Len(q) - 2 + 1 ELSE 0
          /\ \A i \in 1 .. Len(q) - 2 + 1 : c[i] = q[2 + i - 1]
      BY <1>1, <1>2, <2>1, SubSeqProperties
    <2> HIDE DEF c
    <2> QED BY <1>1, <1>2, <2>2
  <1>6. /\ Tail(a) \o h \in Seq(AccessUnit) /\ Len(Tail(a) \o h) = Len(Tail(a)) + Len(h)
        /\ \A i \in 1 .. Len(Tail(a)) + Len(h) :
             (Tail(a) \o h)[i] = IF i <= Len(Tail(a)) THEN Tail(a)[i] ELSE h[i - Len(Tail(a))]
    BY <1>4, ConcatProperties
  <1> HIDE DEF c
  <1>7. Len(Tail(a) \o h) = Len(c)
    BY <1>1, <1>2, <1>4, <1>5, <1>6
  <1>8. ASSUME NEW i \in 1 .. Len(Tail(a) \o h) PROVE (Tail(a) \o h)[i] = c[i]
    <2>1. c[i] = q[i + 1] /\ i + 1 \in 1 .. Len(a) + Len(h)
      BY <1>1, <1>2, <1>5, <1>7, <1>8
    <2>2. CASE i <= Len(a) - 1
      BY <1>1, <1>2, <1>4, <1>6, <1>8, <2>1, <2>2
    <2>3. CASE ~(i <= Len(a) - 1)
      <3>1. i - (Len(a) - 1) = i + 1 - Len(a)
        BY <1>1
      <3>2. (Tail(a) \o h)[i] = h[i - (Len(a) - 1)]
        BY <1>1, <1>4, <1>6, <1>8, <2>3
      <3>3. q[i + 1] = h[i + 1 - Len(a)]
        BY <1>1, <1>2, <2>1, <2>3
      <3> QED BY <2>1, <3>1, <3>2, <3>3
    <2> QED BY <2>2, <2>3
  <1>9. Tail(a) \o h = c
    BY <1>5, <1>6, <1>7, <1>8, SeqEqual
  <1>10. Head(a) = a[1]
    BY <1>1
  <1> QED BY <1>1, <1>2, <1>3, <1>9, <1>10 DEF c, q

-----------------------------------------------------------------------------
(* How large the duplication is: every action, by what it does to it.      *)
LEMMA DupBuilt ==
  ASSUME TypeOK, NEW size \in Sizes, NEW desc \in Sizes, NEW frame \in BOOLEAN,
         Built(size, desc, frame), desc = size \/ desc = mode'
  PROVE  DupInv'
  <1>1. dup' = Opened(desc, frame)
    BY DEF Built
  <1>2. enc'.size = size
    <2>1. enc \in Encoder
      BY Units
    <2> QED BY <2>1 DEF Built, RequestKeyFrame, Configured, Bound, Probed, Encoder
  <1> QED BY <1>1, <1>2 DEF DupInv, Opened

LEMMA DupClosed ==
  ASSUME TypeOK, dup' = Closed
  PROVE  DupInv'
  BY DEF DupInv, Closed, TypeOK, CaptureTyped

(* The encoder's size is the one it was configured with.                   *)
LEMMA SizeKept ==
  ASSUME NEW e \in Encoder
  PROVE  /\ RequestKeyFrame(e).size = e.size
         /\ Stalled(e).size = e.size
         /\ Refused(e).size = e.size
         /\ Configured(e, e.size, TRUE).size = e.size
         /\ \A f \in Flushes(e) : f.size = e.size
  BY DEF RequestKeyFrame, Stalled, Refused, Configured, Bound, Probed, Flushes, Flushed, Encoder

LEMMA SizeAfterInput ==
  ASSUME NEW e \in Encoder, NEW pic, NEW key, NEW n
  PROVE  AfterInput(e, pic, key, n).size = e.size
  BY DEF AfterInput, Encoder

LEMMA DupOutside == TypeOK /\ DupInv /\ (WindowsStep \/ TrayStep) => DupInv'
  <1> SUFFICES ASSUME TypeOK, DupInv, WindowsStep \/ TrayStep PROVE DupInv'
    OBVIOUS
  <1>1. enc' = enc
    BY DEF WindowsStep, TrayStep, SessionChange, UacPrompt, DesktopSwitch, DisplayPower, Present,
           WtsOutage, FirstPresent, ModeChange, HearSession, HearDisplay, stream, windows
  <1>2. CASE dup' = dup /\ mode' = mode
    BY <1>1, <1>2 DEF DupInv
  <1>3. CASE DesktopSwitch \/ ModeChange
    <2>1. dup' = [dup EXCEPT !.lost = dup.open]
      BY <1>3 DEF DesktopSwitch, ModeChange
    <2> QED BY <1>1, <2>1 DEF DupInv, TypeOK, CaptureTyped
  <1>4. CASE Present \/ FirstPresent
    <2>1. dup' = [dup EXCEPT !.news = dup.open] /\ mode' = mode
      BY <1>4 DEF Present, FirstPresent, windows, TypeOK, CaptureTyped
    <2> QED BY <1>1, <2>1 DEF DupInv, TypeOK, CaptureTyped
  <1> QED BY <1>2, <1>3, <1>4
          DEF WindowsStep, TrayStep, SessionChange, WtsOutage, UacPrompt, DisplayPower, HearSession,
              HearDisplay, stream, windows

LEMMA DupStep == TypeOK /\ DupInv /\ (ReaderStep \/ LoopStep) => DupInv'
  <1> SUFFICES ASSUME TypeOK, DupInv, ReaderStep \/ LoopStep PROVE DupInv'
    OBVIOUS
  <1>1. enc \in Encoder /\ sess \in Sizes /\ mode \in Sizes
    BY Units DEF TypeOK, CaptureTyped, WindowsTyped
  <1>2. ASSUME UNCHANGED <<dup, mode>>, enc'.size = enc.size PROVE DupInv'
    BY <1>2 DEF DupInv
  <1>3. ASSUME NEW size \in Sizes, mode' \in Sizes, RebuildOr(size, mode') PROVE DupInv'
    <2>1. CASE CanBuild
      BY <1>3, <2>1, DupBuilt DEF RebuildOr
    <2>2. CASE ~CanBuild
      BY <1>3, <2>2, DupClosed DEF RebuildOr, BuildFails
    <2> QED BY <2>1, <2>2
  <1>4. CASE KeyAsked
    BY <1>1, <1>2, <1>4, SizeKept DEF KeyAsked, windows
  <1>5. CASE HelloTurn
    <2>1. Turned(sess) \in Sizes
      BY DEF Turned, Sizes
    <2>2. CASE CanBuild
      BY <1>5, <2>1, <2>2, DupBuilt DEF HelloTurn
    <2>3. CASE ~CanBuild
      BY <1>5, <2>3, DupClosed DEF HelloTurn, BuildFails
    <2> QED BY <2>2, <2>3
  <1>6. ASSUME NEW r, NEW fromSecure, NEW base, EnterPause(r, fromSecure, base)
        PROVE  enc'.size = enc.size
    BY <1>1, <1>6, SizeKept DEF EnterPause
  <1>7. CASE PauseOnSignal
    BY <1>2, <1>6, <1>7 DEF PauseOnSignal, windows
  <1>8. CASE AccessLost
    <2>1. enc' = enc /\ mode' = mode /\ dup' = Reopened
      BY <1>8 DEF AccessLost, windows
    <2>2. CASE CanBuild
      BY <2>1, <2>2 DEF Reopened, Opened, DupInv
    <2>3. CASE ~CanBuild
      BY <2>1, <2>3, DupClosed DEF Reopened
    <2> QED BY <2>2, <2>3
  <1>9. CASE PauseOnLoss
    BY <1>2, <1>6, <1>9 DEF PauseOnLoss, windows
  <1>10. CASE RebuildOnLoss
    <2>1. RebuildOr(sess, mode') /\ mode' = mode
      BY <1>10 DEF RebuildOnLoss, windows
    <2> QED BY <1>1, <1>3, <2>1
  <1>11. CASE CaptureFrame
    <2>1. enc'.size = enc.size /\ mode' = mode
      BY <1>1, <1>11, SizeKept DEF CaptureFrame, windows
    <2>2. dup' = [dup EXCEPT !.news = FALSE, !.have = TRUE]
      BY <1>11 DEF CaptureFrame
    <2> QED BY <2>1, <2>2 DEF DupInv, TypeOK, CaptureTyped
  <1>12. CASE CaptureTurned
    <2>1. enc' = enc /\ mode' = mode /\ \E have : dup' = [dup EXCEPT !.news = FALSE, !.have = have, !.size = mode]
      BY <1>12 DEF CaptureTurned, windows
    <2> QED BY <2>1 DEF DupInv, TypeOK, CaptureTyped
  <1>13. CASE Resize
    <2>1. \E size \in Sizes : RebuildOr(size, mode')
      BY <1>1, <1>13 DEF Resize, TypeOK, CaptureTyped
    <2>2. mode' \in Sizes
      BY <1>1, <1>13 DEF Resize
    <2> QED BY <1>3, <2>1, <2>2
  <1>14. CASE Encode
    <2>1. UNCHANGED <<dup, mode>>
      BY <1>14 DEF Encode, EncodeFrame, EncodeNothing, EncodeStalls, windows
    <2>2. CASE EncodeFrame
      <3>1. PICK key, n : enc' = AfterInput(enc, buf, key, n)
        BY <2>2 DEF EncodeFrame
      <3> QED BY <1>1, <1>2, <2>1, <3>1, SizeAfterInput
    <2>3. CASE EncodeNothing
      BY <1>2, <2>1, <2>3 DEF EncodeNothing
    <2>4. CASE EncodeStalls
      <3>1. /\ Stalled(enc) \in Encoder /\ enc.size \in Sizes
        BY <1>1, EncoderOps DEF Sizes, Encoder
      <3>2. Configured(enc, enc.size, TRUE) \in Encoder
        BY <1>1, <3>1, EncoderOps
      <3>3. /\ RequestKeyFrame(Configured(enc, enc.size, TRUE)).size = enc.size
            /\ Refused(Stalled(enc)).size = enc.size
        BY <1>1, <3>1, <3>2, SizeKept
      <3> QED BY <1>1, <1>2, <2>1, <2>4, <3>3, SizeKept DEF EncodeStalls
    <2> QED BY <1>14, <2>2, <2>3, <2>4 DEF Encode
  <1>15. CASE CollectIdle \/ PauseCollect
    <2>1. UNCHANGED <<dup, mode>> /\ \E n \in Finished(enc) : Collect(n)
      BY <1>15 DEF CollectIdle, PauseCollect, windows
    <2> QED BY <1>1, <1>2, <2>1 DEF Collect, Encoder
  <1>16. CASE Resume
    <2>1. CASE BuildFails
      BY <2>1, DupClosed DEF BuildFails
    <2>2. CASE ~BuildFails
      <3>1. PICK desc \in {mode, sess}, frame \in BOOLEAN :
               /\ dup' = Opened(desc, frame)
               /\ enc' = RequestKeyFrame(Configured(enc, sess, FALSE))
        BY <1>16, <2>2 DEF Resume
      <3>2. enc'.size = sess /\ mode' = mode
        BY <1>1, <1>16, <3>1 DEF Resume, RequestKeyFrame, Configured, Bound, Probed, Encoder, windows
      <3> QED BY <3>1, <3>2 DEF Opened, DupInv
    <2> QED BY <2>1, <2>2
  <1>17. CASE RenderAgain
    <2>1. UNCHANGED <<dup, mode>> /\ (enc' \in Flushes(enc) \/ enc' = RequestKeyFrame(enc))
      BY <1>17 DEF RenderAgain, Render, windows
    <2> QED BY <1>1, <1>2, <2>1, SizeKept
  <1>18. CASE PauseEncode
    <2>1. UNCHANGED <<dup, mode>>
      BY <1>18 DEF PauseEncode, windows
    <2>2. PICK e \in {enc, RequestKeyFrame(enc)} :
             enc' = Stalled(e) \/ enc' = e \/ \E key, n : enc' = AfterInput(e, pause.over, key, n)
      BY <1>18 DEF PauseEncode
    <2>3. e \in Encoder /\ e.size = enc.size
      BY <1>1, <2>2, EncoderOps, SizeKept DEF Sizes
    <2>4. CASE enc' = Stalled(e) \/ enc' = e
      BY <1>2, <2>1, <2>3, <2>4, SizeKept
    <2>5. ASSUME NEW key, NEW n, enc' = AfterInput(e, pause.over, key, n) PROVE DupInv'
      BY <1>2, <2>1, <2>3, <2>5, SizeAfterInput
    <2> QED BY <2>2, <2>4, <2>5
  <1>19. CASE Send \/ DropFrame
    BY <1>1, <1>2, <1>19, SizeKept DEF Send, DropFrame, windows
  <1>20. CASE CaptureFails
    <2>1. enc' = enc /\ mode' = mode /\ dup' = [dup EXCEPT !.news = FALSE]
      BY <1>20 DEF CaptureFails, windows
    <2> QED BY <2>1 DEF DupInv, TypeOK, CaptureTyped
  <1> QED BY <1>4, <1>5, <1>7, <1>8, <1>9, <1>10, <1>11, <1>12, <1>13, <1>14, <1>15, <1>16, <1>17,
             <1>18, <1>19, <1>20 DEF ReaderStep, LoopStep

-----------------------------------------------------------------------------
(* Units are dropped only in a pause that waits for the blank key frame.   *)

(* Units handed over in a pause: from the first key frame on while one is  *)
(* waited for, all of them otherwise.                                      *)
LEMMA PausedUnits ==
  ASSUME TypeOK, NEW q \in Seq(AccessUnit), NEW due, PauseOut(q, due)
  PROVE  \E from \in 1 .. Len(q) + 1 :
           /\ au' = SubSeq(q, from, Len(q))
           /\ rx'.ok <=> rx.ok /\ from = 1
           /\ pause'.dropKey <=> pause.dropKey /\ FirstKey(q) = 0
           /\ pause'.on = pause.on
           /\ ~pause.dropKey => from = 1
           /\ pause.dropKey => from = IF FirstKey(q) = 0 THEN Len(q) + 1 ELSE FirstKey(q)
  <1> DEFINE k == FirstKey(q)
             from == IF ~pause.dropKey THEN 1 ELSE IF k = 0 THEN Len(q) + 1 ELSE k
  <1>1. k \in 0 .. Len(q) /\ Len(q) \in Nat
    BY FirstKeyRange, LenProperties
  <1>2. from \in 1 .. Len(q) + 1
    BY <1>1
  <1>3. pause'.on = pause.on /\ (pause'.dropKey <=> pause.dropKey /\ k = 0)
    BY DEF PauseOut, TypeOK, PauseTyped
  <1>4. rx'.ok <=> rx.ok /\ from = 1
    BY DEF PauseOut, TypeOK, SentTyped
  <1>5. au' = SubSeq(q, from, Len(q))
    BY DEF PauseOut, HandOver
  <1> QED BY <1>2, <1>3, <1>4, <1>5

LEMMA DropStep == TypeInv /\ DropInv /\ [Next]_vars => DropInv'
  <1> SUFFICES ASSUME TypeInv, DropInv, [Next]_vars PROVE DropInv'
    OBVIOUS
  <1> USE DEF TypeInv
  <1>1. pause \in [on : BOOLEAN, hide : BOOLEAN, dropKey : BOOLEAN, reason : Reasons,
                   due : 0 .. 2, over : Pictures, turned : BOOLEAN]
    BY DEF TypeOK, PauseTyped
  <1>2. ASSUME pause'.dropKey = pause.dropKey, pause'.on = pause.on, UNCHANGED au PROVE DropInv'
    BY <1>2 DEF DropInv
  <1>3. ASSUME NEW q \in Seq(AccessUnit), NEW due, PauseOut(q, due) PROVE DropInv'
    <2>1. pause'.on = pause.on /\ (pause'.dropKey => pause.dropKey /\ au' = SubSeq(q, Len(q) + 1, Len(q)))
      BY <1>3, PausedUnits
    <2>2. SubSeq(q, Len(q) + 1, Len(q)) = <<>>
      BY SubSeqEmpty, LenProperties
    <2> QED BY <2>1, <2>2 DEF DropInv
  <1>4. CASE UNCHANGED vars
    BY <1>2, <1>4 DEF vars, stream
  <1>5. CASE WindowsStep \/ TrayStep
    BY <1>2, <1>5
       DEF WindowsStep, TrayStep, SessionChange, UacPrompt, DesktopSwitch, DisplayPower, Present,
           WtsOutage, FirstPresent, ModeChange, HearSession, HearDisplay, stream, windows
  <1>6. CASE ReaderStep
    <2>1. UNCHANGED au /\ (pause' = pause \/ pause' = [pause EXCEPT !.turned = pause.on])
      BY <1>6 DEF ReaderStep, KeyAsked, HelloTurn
    <2> QED BY <1>1, <1>2, <2>1
  <1>7. CASE PauseOnSignal \/ PauseOnLoss
    <2>1. UNCHANGED au /\ loc # "send"
      BY <1>7 DEF PauseOnSignal, PauseOnLoss, AtTop
    <2>2. pause'.on
      BY <1>7 DEF PauseOnSignal, PauseOnLoss, EnterPause, WtsSays
    <2> QED BY <2>1, <2>2 DEF DropInv, Handed
  <1>8. CASE AccessLost
    <2>1. \E over, reason : pause' = [pause EXCEPT !.over = over, !.reason = reason]
      BY <1>8 DEF AccessLost
    <2> QED BY <1>1, <1>2, <1>8, <2>1 DEF AccessLost
  <1>9. CASE RebuildOnLoss \/ CaptureFrame \/ CaptureFails \/ CaptureTurned \/ Resize
    BY <1>2, <1>9 DEF RebuildOnLoss, CaptureFrame, CaptureFails, CaptureTurned, Resize
  <1>10. CASE Encode \/ CollectIdle
    <2>1. pause' = pause /\ ~pause.on
      BY <1>10 DEF Encode, EncodeFrame, EncodeNothing, EncodeStalls, CollectIdle, CanEncode, Capturing
    <2> QED BY <2>1 DEF DropInv
  <1>11. CASE Resume
    <2>1. CASE UNCHANGED pause
      BY <1>2, <1>11, <2>1 DEF Resume
    <2>2. CASE ~UNCHANGED pause
      BY <1>1, <1>11, <2>2 DEF Resume, DropInv
    <2> QED BY <2>1, <2>2
  <1>12. CASE RenderAgain
    <2>1. au' = <<>> /\ pause.on
      BY <1>12 DEF RenderAgain, AtTop, Handed
    <2>2. pause'.on = pause.on
      BY <1>1, <1>12 DEF RenderAgain, Render
    <2> QED BY <2>1, <2>2 DEF DropInv
  <1>13. CASE PauseEncode
    <2> DEFINE e == IF pause.due = 0 /\ pause.dropKey THEN RequestKeyFrame(enc) ELSE enc
    <2>1. e \in Encoder /\ pause.over \in Pictures
      BY <1>1, Units, EncoderOps DEF Sizes
    <2>2. \/ \E key \in BOOLEAN, n \in 0 .. Len(e.held) + 1 :
               PauseOut(Output(e, pause.over, key, n), Due)
          \/ PauseOut(<<>>, Due)
      BY <1>13 DEF PauseEncode
    <2> HIDE DEF e
    <2>3. \E q \in Seq(AccessUnit) : PauseOut(q, Due)
      BY <2>1, <2>2, InputTyped, EmptySeq
    <2> QED BY <1>3, <2>3
  <1>14. CASE PauseCollect
    <2>1. PICK n \in Finished(enc) : Collect(n) /\ PauseOut(SubSeq(enc.held, 1, n), 0)
      BY <1>14 DEF PauseCollect
    <2>2. SubSeq(enc.held, 1, n) \in Seq(AccessUnit)
      BY <2>1, Units, CollectTyped
    <2> QED BY <1>3, <2>1, <2>2
  <1>15. CASE Send \/ DropFrame
    <2>1. pause' = pause /\ au # <<>>
      BY <1>15 DEF Send, DropFrame, Handed
    <2> QED BY <2>1 DEF DropInv
  <1> QED BY <1>4, <1>5, <1>6, <1>7, <1>8, <1>9, <1>10, <1>11, <1>12, <1>13, <1>14, <1>15
          DEF Next, LoopStep

-----------------------------------------------------------------------------
(* The key frame itself.                                                   *)

(* What a step leaves on its way, handed over from `from` on: if the       *)
(* whole of it is covered so is the rest.                                  *)
LEMMA HandedCovered ==
  ASSUME NEW q \in Seq(AccessUnit), NEW n \in 0 .. Len(q), NEW from \in 1 .. n + 1,
         Whole(q), ~enc'.fresh,
         enc'.held = SubSeq(q, n + 1, Len(q)),
         au' = SubSeq(SubSeq(q, 1, n), from, n),
         ~rx'.ok \/ pause'.dropKey => KeyIn(SubSeq(q, from, Len(q)), 1)
  PROVE  Covered'
  <1>1. Way' = SubSeq(q, from, Len(q))
    BY Joined DEF Way
  <1>2. from \in 1 .. Len(q) + 1
    BY LenProperties
  <1>3. Whole(Way')
    BY <1>1, <1>2, RestWhole
  <1> QED BY <1>1, <1>3 DEF Covered, Way

(* All of it, outside a pause.                                             *)
LEMMA AllCovered ==
  ASSUME NEW q \in Seq(AccessUnit), NEW n \in 0 .. Len(q), Whole(q), ~enc'.fresh,
         enc'.held = SubSeq(q, n + 1, Len(q)), au' = SubSeq(q, 1, n),
         ~rx'.ok \/ pause'.dropKey => KeyIn(q, 1)
  PROVE  Covered'
  <1>1. /\ SubSeq(q, 1, n) \in Seq(AccessUnit) /\ Len(SubSeq(q, 1, n)) = n
        /\ SubSeq(q, 1, Len(q)) = q /\ Len(q) \in Nat
    BY PartOf, SubSeqFull, LenProperties
  <1>2. au' = SubSeq(SubSeq(q, 1, n), 1, n)
    BY <1>1, SubSeqFull
  <1>3. 1 \in 1 .. n + 1
    OBVIOUS
  <1> QED BY <1>1, <1>2, <1>3, HandedCovered

(* In a pause that drops up to the first key frame.                        *)
LEMMA PauseCovered ==
  ASSUME TypeOK, NEW q \in Seq(AccessUnit), NEW n \in 0 .. Len(q), NEW due, Whole(q), ~enc'.fresh,
         enc'.held = SubSeq(q, n + 1, Len(q)), PauseOut(SubSeq(q, 1, n), due),
         ~rx.ok \/ pause.dropKey => KeyIn(q, 1)
  PROVE  Covered'
  <1> DEFINE p == SubSeq(q, 1, n)
  <1>1. Len(q) \in Nat /\ \A i \in 1 .. Len(q) : q[i] \in AccessUnit
    BY LenProperties, ElementOfSeq
  <1>2. p \in Seq(AccessUnit) /\ Len(p) = n /\ \A i \in 1 .. n : p[i] = q[i]
    <2>1. \A i \in 1 .. n : q[i] \in AccessUnit
      BY <1>1
    <2>2. /\ p \in Seq(AccessUnit) /\ Len(p) = IF 1 <= n THEN n - 1 + 1 ELSE 0
          /\ \A i \in 1 .. n - 1 + 1 : p[i] = q[1 + i - 1]
      BY <1>1, <2>1, SubSeqProperties
    <2> HIDE DEF p
    <2> QED BY <2>2
  <1> HIDE DEF p
  <1>3. PICK from \in 1 .. n + 1 :
           /\ au' = SubSeq(p, from, n)
           /\ rx'.ok <=> rx.ok /\ from = 1
           /\ pause'.dropKey <=> pause.dropKey /\ FirstKey(p) = 0
           /\ ~pause.dropKey => from = 1
           /\ pause.dropKey => from = IF FirstKey(p) = 0 THEN n + 1 ELSE FirstKey(p)
    BY <1>2, PausedUnits DEF p
  <1> DEFINE r == SubSeq(q, from, Len(q))
  <1>4. Len(r) = Len(q) - from + 1 /\ \A i \in 1 .. Len(q) - from + 1 : r[i] = q[from + i - 1]
    <2>1. \A i \in from .. Len(q) : q[i] \in AccessUnit
      BY <1>1
    <2>2. /\ Len(r) = IF from <= Len(q) THEN Len(q) - from + 1 ELSE 0
          /\ \A i \in 1 .. Len(q) - from + 1 : r[i] = q[from + i - 1]
      BY <1>1, <2>1, SubSeqProperties
    <2> HIDE DEF r
    <2> QED BY <1>1, <2>2
  <1>5. (r = q /\ from = 1) \/ pause.dropKey
    BY <1>3, SubSeqFull
  <1> HIDE DEF r
  <1>6. ASSUME pause.dropKey PROVE KeyIn(r, 1)
    <2>1. CASE FirstKey(p) = 0
      <3>1. \A i \in 1 .. n : ~q[i].key
        BY <1>2, <2>1, FirstKeyIsKey
      <3>2. PICK j \in 1 .. Len(q) : q[j].key
        BY <1>6 DEF KeyIn
      <3>3. from = n + 1 /\ j \in n + 1 .. Len(q)
        BY <1>1, <1>3, <1>6, <2>1, <3>1, <3>2
      <3>4. j - n \in 1 .. Len(r) /\ from + (j - n) - 1 = j
        BY <1>1, <1>4, <3>3
      <3>5. r[j - n] = q[j]
        BY <1>4, <3>4
      <3> QED BY <3>2, <3>4, <3>5 DEF KeyIn
    <2>2. CASE FirstKey(p) # 0
      <3>1. FirstKey(p) \in 1 .. n /\ p[FirstKey(p)].key
        BY <1>2, <2>2, FirstKeyIsKey, FirstKeyRange
      <3>2. from = FirstKey(p) /\ q[from].key /\ from \in 1 .. n
        BY <1>2, <1>3, <1>6, <2>2, <3>1
      <3>3. 1 \in 1 .. Len(r) /\ r[1] = q[from + 1 - 1] /\ from + 1 - 1 = from
        BY <1>1, <1>4, <3>2
      <3> QED BY <3>2, <3>3 DEF KeyIn
    <2> QED BY <2>1, <2>2
  <1>7. ~rx'.ok \/ pause'.dropKey => KeyIn(r, 1)
    BY <1>3, <1>5, <1>6
  <1> QED BY <1>3, <1>7, HandedCovered DEF p, r

(* One more picture goes in: if the encoder owes a key frame it is one,    *)
(* otherwise it continues what is covered already.                         *)
LEMMA InputCovered ==
  ASSUME NEW e \in Encoder, NEW pic \in Pictures, NEW key \in BOOLEAN,
         e.force \/ e.owes => key,
         e.force \/ e.owes \/ (~e.fresh /\ Whole(e.held) /\ (~rx.ok \/ pause.dropKey => KeyIn(e.held, 1)))
  PROVE  LET q == Submitted(e, pic, key)
         IN  Whole(q) /\ (~rx.ok \/ pause.dropKey => KeyIn(q, 1))
  <1> DEFINE f == [key |-> key, pic |-> pic, cont |-> ~e.fresh]
  <1>1. e.held \in Seq(AccessUnit) /\ f \in AccessUnit
    BY DEF Encoder, AccessUnit
  <1>2. Submitted(e, pic, key) = Append(e.held, f)
    BY DEF Submitted
  <1>3. f.key = key /\ f.cont = ~e.fresh
    OBVIOUS
  <1> HIDE DEF f
  <1>4. CASE key
    BY <1>1, <1>2, <1>3, <1>4, AppendedWhole
  <1>5. CASE ~key
    <2>1. ~(e.force \/ e.owes)
      BY <1>5 DEF Encoder
    <2> QED BY <1>1, <1>2, <1>3, <2>1, AppendedWhole
  <1> QED BY <1>4, <1>5

(* What an encoder operation leaves asked for.                             *)
LEMMA AsksFor ==
  ASSUME NEW e \in Encoder
  PROVE  /\ RequestKeyFrame(e).force
         /\ \A f \in Flushes(e) : f.force
         /\ Stalled(e).owes <=> e.owes \/ e.force
         /\ Stalled(e).fresh = e.fresh /\ Stalled(e).held = e.held /\ Stalled(e).conf = e.conf
         /\ ~Refused(e).conf
         /\ Configured(e, e.size, TRUE) \in Encoder
  <1>1. RequestKeyFrame(e).force /\ \A f \in Flushes(e) : f.force
    BY DEF RequestKeyFrame, Flushes, Flushed, Encoder
  <1>2. Stalled(e).fresh = e.fresh /\ Stalled(e).held = e.held /\ Stalled(e).conf = e.conf
    BY DEF Stalled, Encoder
  <1>3. Stalled(e).owes <=> e.owes \/ e.force
    BY DEF Stalled, Encoder
  <1>4. ~Refused(e).conf
    BY DEF Refused, Encoder
  <1>5. e.size \in Sizes
    BY DEF Encoder
  <1> QED BY <1>1, <1>2, <1>3, <1>4, <1>5, EncoderOps

LEMMA InputLeaves ==
  ASSUME NEW e \in Encoder, NEW pic, NEW key, NEW n
  PROVE  /\ ~AfterInput(e, pic, key, n).fresh
         /\ AfterInput(e, pic, key, n).conf = e.conf
         /\ AfterInput(e, pic, key, n).held
              = SubSeq(Submitted(e, pic, key), n + 1, Len(e.held) + 1)
  BY DEF AfterInput, Encoder

(* A pipeline that was built asks: by itself, or with its first picture.   *)
LEMMA BuiltAsks ==
  ASSUME TypeOK, NEW size \in Sizes, NEW desc \in Sizes, NEW frame, Built(size, desc, frame)
  PROVE  Asked'
  <1>1. Configured(enc, size, FALSE) \in Encoder
    BY Units, EncoderOps
  <1>2. CASE GpuPath(size, desc)
    BY <1>2 DEF Built, Asked, TypeOK, CaptureTyped
  <1>3. CASE ~GpuPath(size, desc)
    BY <1>1, <1>3, AsksFor DEF Built, Asked
  <1> QED BY <1>2, <1>3

(* What leaves the encoder, the units and the loop alone keeps it.         *)
LEMMA KeyStill ==
  ASSUME KeyMain, UNCHANGED <<enc, au, rx, running, loc>>, pause'.dropKey = pause.dropKey,
         dup'.size = dup.size, cap'.gpu = cap.gpu, cap'.first = cap.first
  PROVE  KeyMain'
  BY DEF KeyMain, Asked, Covered, Way

LEMMA KeyAskedFor ==
  ASSUME Asked' \/ ~running' \/ ~enc'.conf
  PROVE  KeyMain'
  BY DEF KeyMain

(* Windows, the tray and the reader.                                       *)
LEMMA KeyOutside == TypeOK /\ KeyMain /\ (WindowsStep \/ TrayStep \/ ReaderStep) => KeyMain'
  <1> SUFFICES ASSUME TypeOK, KeyMain, WindowsStep \/ TrayStep \/ ReaderStep PROVE KeyMain'
    OBVIOUS
  <1>1. CASE WindowsStep \/ TrayStep
    <2>1. UNCHANGED <<enc, cap, au, rx, running, loc, pause>>
      BY <1>1 DEF WindowsStep, TrayStep, SessionChange, UacPrompt, DesktopSwitch, DisplayPower,
             WtsOutage, Present, FirstPresent, ModeChange, HearSession, HearDisplay, stream,
             windows
    <2>2. dup'.size = dup.size
      <3>1. \/ dup' = dup
            \/ \E x : dup' = [dup EXCEPT !.lost = x] \/ dup' = [dup EXCEPT !.news = x]
        BY <1>1 DEF WindowsStep, TrayStep, SessionChange, UacPrompt, DesktopSwitch, DisplayPower,
               WtsOutage, Present, FirstPresent, ModeChange, HearSession, HearDisplay, stream,
               windows
      <3> QED BY <3>1 DEF TypeOK, CaptureTyped
    <2> QED BY <2>1, <2>2, KeyStill
  <1>2. CASE KeyAsked
    <2>1. enc'.force
      BY <1>2, Units, AsksFor DEF KeyAsked
    <2> QED BY <2>1, KeyAskedFor DEF Asked
  <1>3. CASE HelloTurn
    <2>1. Turned(sess) \in Sizes
      BY DEF Turned, Sizes
    <2>2. Asked' \/ ~running'
      BY <1>3, <2>1, BuiltAsks DEF HelloTurn
    <2> QED BY <2>2, KeyAskedFor
  <1> QED BY <1>1, <1>2, <1>3 DEF ReaderStep

(* A picture of another size is the first to tell the loop: the size asks. *)
LEMMA KeyCapture ==
  TypeOK /\ DupInv /\ KeyMain
      /\ (AccessLost \/ RebuildOnLoss \/ CaptureFrame \/ CaptureFails \/ CaptureTurned \/ Resize)
    => KeyMain'
  <1> SUFFICES ASSUME TypeOK, DupInv, KeyMain,
                      AccessLost \/ RebuildOnLoss \/ CaptureFrame \/ CaptureFails \/ CaptureTurned
                        \/ Resize
               PROVE  KeyMain'
    OBVIOUS
  <1>1. enc \in Encoder /\ sess \in Sizes /\ mode \in Sizes /\ dup.size \in Sizes
    BY Units DEF TypeOK, CaptureTyped, WindowsTyped
  <1>2. ASSUME NEW size \in Sizes, NEW m \in Sizes, RebuildOr(size, m) PROVE KeyMain'
    BY <1>2, BuiltAsks, KeyAskedFor DEF RebuildOr
  <1>3. CASE AccessLost
    BY <1>3, KeyAskedFor DEF AccessLost, Asked
  <1>4. CASE RebuildOnLoss
    BY <1>1, <1>2, <1>4 DEF RebuildOnLoss
  <1>5. CASE CaptureFrame
    <2>1. /\ UNCHANGED <<au, rx, running, loc, pause>>
          /\ dup' = [dup EXCEPT !.news = FALSE, !.have = TRUE]
          /\ cap' = [cap EXCEPT !.pend = TRUE, !.first = cap.gpu, !.miss = FALSE,
                                !.skip = FALSE]
          /\ enc' = IF cap.gpu /\ ~cap.first THEN RequestKeyFrame(enc) ELSE enc
      BY <1>5 DEF CaptureFrame
    <2>2. dup'.size = dup.size /\ cap'.gpu = cap.gpu /\ cap'.first = cap.gpu
      BY <2>1 DEF TypeOK, CaptureTyped
    <2>3. CASE cap.gpu /\ ~cap.first
      BY <1>1, <2>1, <2>3, AsksFor, KeyAskedFor DEF Asked
    <2>4. CASE ~(cap.gpu /\ ~cap.first)
      BY <2>1, <2>2, <2>4 DEF KeyMain, Asked, Covered, Way
    <2> QED BY <2>3, <2>4
  <1>6. CASE CaptureTurned
    <2>1. enc' = enc /\ dup.size = enc.size /\ mode # dup.size
      BY <1>6 DEF CaptureTurned, DupInv
    <2>2. dup'.size = mode
      BY <1>6 DEF CaptureTurned, TypeOK, CaptureTyped
    <2> QED BY <2>1, <2>2, KeyAskedFor DEF Asked
  <1>7. CASE Resize
    <2>1. \E size \in Sizes : RebuildOr(size, mode')
      BY <1>1, <1>7 DEF Resize
    <2>2. mode' \in Sizes
      BY <1>1, <1>7 DEF Resize
    <2> QED BY <1>2, <2>1, <2>2
  <1>8. CASE CaptureFails
    <2>1. UNCHANGED <<enc, au, rx, running, loc, pause>>
      BY <1>8 DEF CaptureFails
    <2>2. dup'.size = dup.size /\ cap'.gpu = cap.gpu /\ cap'.first = cap.first
      BY <1>8 DEF CaptureFails, TypeOK, CaptureTyped
    <2> QED BY <2>1, <2>2 DEF KeyMain, Asked, Covered, Way
  <1> QED BY <1>3, <1>4, <1>5, <1>6, <1>7, <1>8

(* What goes in and comes out outside a pause.                             *)
LEMMA KeyEncode == TypeInv /\ DropInv /\ KeyMain /\ (Encode \/ CollectIdle) => KeyMain'
  <1> SUFFICES ASSUME TypeInv, DropInv, KeyMain, Encode \/ CollectIdle PROVE KeyMain'
    OBVIOUS
  <1> USE DEF TypeInv
  <1>1. enc \in Encoder /\ enc.held \in Seq(AccessUnit) /\ Len(enc.held) \in Nat
    BY Units
  <1>2. ~pause.dropKey /\ UNCHANGED <<rx, running, pause, dup>> /\ loc = "top" /\ au = <<>>
    BY DEF Encode, EncodeFrame, EncodeNothing, EncodeStalls, CollectIdle, CanEncode, Capturing, AtTop,
           DropInv, Handed
  <1>3. Way = enc.held
    BY <1>1, <1>2, ConcatEmptySeq DEF Way
  <1>4. Slotted.gpu = cap.gpu /\ Slotted.first = cap.first
    BY DEF Slotted, TypeOK, CaptureTyped
  <1>5. CASE EncodeFrame
    <2>1. PICK key \in BOOLEAN, n \in 0 .. Len(enc.held) + 1 :
             /\ Accepts(enc, buf, key, n)
             /\ enc' = AfterInput(enc, buf, key, n)
             /\ HandOver(Output(enc, buf, key, n))
      BY <1>5 DEF EncodeFrame
    <2> DEFINE q == Submitted(enc, buf, key)
    <2>2. buf \in Pictures
      BY DEF TypeOK, CaptureTyped
    <2>3. q \in Seq(AccessUnit) /\ Len(q) = Len(enc.held) + 1
      BY <1>1, <2>2, SubmittedUnits
    <2>4. enc.force \/ enc.owes => key
      BY <1>1, <2>1 DEF Accepts, Encoder
    <2>5. ~enc'.fresh /\ enc'.conf = enc.conf /\ enc'.held = SubSeq(q, n + 1, Len(q))
      <3>1. enc' = AfterInput(enc, buf, key, n)
        BY <2>1
      <3> HIDE DEF q
      <3>2. /\ ~AfterInput(enc, buf, key, n).fresh
            /\ AfterInput(enc, buf, key, n).conf = enc.conf
            /\ AfterInput(enc, buf, key, n).held = SubSeq(q, n + 1, Len(enc.held) + 1)
        BY <1>1, InputLeaves DEF q
      <3> QED BY <2>3, <3>1, <3>2
    <2>6. au' = SubSeq(q, 1, n)
      BY <2>1 DEF HandOver, Output
    <2>7. cap'.gpu = cap.gpu /\ cap'.first = cap.first /\ enc'.size = enc.size
      BY <1>1, <1>4, <1>5, <2>1, SizeAfterInput DEF EncodeFrame
    <2>8. CASE (cap.gpu /\ ~cap.first) \/ dup.size # enc.size \/ ~running \/ ~enc.conf
      BY <1>2, <2>5, <2>7, <2>8, KeyAskedFor DEF Asked
    <2>9. CASE ~((cap.gpu /\ ~cap.first) \/ dup.size # enc.size \/ ~running \/ ~enc.conf)
      <3>1. enc.force \/ enc.owes \/ Covered
        BY <1>2, <2>9 DEF KeyMain, Asked
      <3>2. enc.force \/ enc.owes \/ (~enc.fresh /\ Whole(enc.held)
              /\ (~rx.ok \/ pause.dropKey => KeyIn(enc.held, 1)))
        BY <1>3, <3>1 DEF Covered
      <3>3. Whole(q) /\ (~rx.ok \/ pause.dropKey => KeyIn(q, 1))
        BY <1>1, <2>2, <2>4, <3>2, InputCovered
      <3> HIDE DEF q
      <3>4. n \in 0 .. Len(q)
        BY <2>3
      <3> QED BY <1>2, <2>3, <2>5, <2>6, <3>3, <3>4, AllCovered DEF KeyMain
    <2> QED BY <2>8, <2>9
  <1>6. CASE EncodeNothing
    <2>1. UNCHANGED <<enc, au, loc>> /\ cap' = Slotted
      BY <1>6 DEF EncodeNothing
    <2> QED BY <1>2, <1>4, <2>1, KeyStill
  <1>7. CASE EncodeStalls
    <2>1. CASE enc.stalls < 2
      <3>1. enc' = Stalled(enc) /\ cap' = [Slotted EXCEPT !.miss = TRUE] /\ UNCHANGED <<au, loc>>
        BY <1>7, <2>1 DEF EncodeStalls
      <3>2. cap'.gpu = cap.gpu /\ cap'.first = cap.first
        BY <3>1 DEF Slotted, TypeOK, CaptureTyped
      <3>3. enc'.size = enc.size
        BY <1>1, <3>1, SizeKept
      <3>4. /\ enc'.owes <=> enc.owes \/ enc.force
            /\ enc'.fresh = enc.fresh /\ enc'.held = enc.held /\ enc'.conf = enc.conf
        BY <1>1, <3>1, AsksFor
      <3> QED BY <1>2, <3>1, <3>2, <3>3, <3>4 DEF KeyMain, Asked, Covered, Way
    <2>2. CASE ~(enc.stalls < 2)
      <3>1. enc' \in {RequestKeyFrame(Configured(enc, enc.size, TRUE)), Refused(Stalled(enc))}
        BY <1>7, <2>2 DEF EncodeStalls
      <3>2. Stalled(enc) \in Encoder /\ Configured(enc, enc.size, TRUE) \in Encoder
        BY <1>1, AsksFor, EncoderOps DEF Sizes
      <3>3. RequestKeyFrame(Configured(enc, enc.size, TRUE)).force /\ ~Refused(Stalled(enc)).conf
        BY <3>2, AsksFor
      <3>4. enc'.force \/ ~enc'.conf
        BY <3>1, <3>3
      <3> QED BY <3>4, KeyAskedFor DEF Asked
    <2> QED BY <2>1, <2>2
  <1>8. CASE CollectIdle
    <2>1. PICK n \in Finished(enc) : Collect(n) /\ HandOver(SubSeq(enc.held, 1, n))
      BY <1>8 DEF CollectIdle
    <2>2. /\ enc' = [enc EXCEPT !.held = SubSeq(enc.held, n + 1, Len(enc.held))]
          /\ n \in 0 .. Len(enc.held)
      BY <2>1 DEF Collect, Finished
    <2>3. /\ enc'.held = SubSeq(enc.held, n + 1, Len(enc.held)) /\ enc'.fresh = enc.fresh
          /\ enc'.conf = enc.conf /\ enc'.force = enc.force /\ enc'.owes = enc.owes
          /\ enc'.size = enc.size
      BY <1>1, <2>2 DEF Encoder
    <2>4. au' = SubSeq(enc.held, 1, n) /\ cap' = cap
      BY <1>8, <2>1 DEF CollectIdle, HandOver
    <2>5. CASE running /\ enc.conf /\ Covered
      <3>1. Whole(enc.held) /\ ~enc.fresh /\ (~rx.ok \/ pause.dropKey => KeyIn(enc.held, 1))
        BY <1>3, <2>5 DEF Covered
      <3> QED BY <1>1, <1>2, <2>2, <2>3, <2>4, <3>1, AllCovered DEF KeyMain
    <2>6. CASE ~(running /\ enc.conf /\ Covered)
      BY <1>2, <2>3, <2>4, <2>6 DEF KeyMain, Asked
    <2> QED BY <2>5, <2>6
  <1> QED BY <1>5, <1>6, <1>7, <1>8 DEF Encode

(* A pause asks when it begins, changes and ends, and what it encodes is   *)
(* covered.                                                                *)
LEMMA KeyPause ==
  TypeInv /\ DropInv /\ KeyMain
      /\ (PauseOnSignal \/ PauseOnLoss \/ RenderAgain \/ Resume \/ PauseEncode \/ PauseCollect)
    => KeyMain'
  <1> SUFFICES ASSUME TypeInv, DropInv, KeyMain,
                      PauseOnSignal \/ PauseOnLoss \/ RenderAgain \/ Resume \/ PauseEncode
                        \/ PauseCollect
               PROVE  KeyMain'
    OBVIOUS
  <1> USE DEF TypeInv
  <1>1. enc \in Encoder /\ enc.held \in Seq(AccessUnit) /\ Len(enc.held) \in Nat
    BY Units
  <1>2. ASSUME enc' \in Flushes(enc) \/ enc' = RequestKeyFrame(enc) PROVE KeyMain'
    <2>1. RequestKeyFrame(enc).force /\ \A f \in Flushes(enc) : f.force
      BY <1>1, AsksFor
    <2>2. enc'.force
      BY <1>2, <2>1
    <2> QED BY <2>2, KeyAskedFor DEF Asked
  <1>3. CASE PauseOnSignal \/ PauseOnLoss
    BY <1>2, <1>3 DEF PauseOnSignal, PauseOnLoss, EnterPause
  <1>4. CASE RenderAgain
    BY <1>2, <1>4 DEF RenderAgain, Render
  <1>5. CASE Resume
    <2>1. CASE BuildFails /\ UNCHANGED pause
      <3>1. dup'.size = dup.size
        BY <2>1 DEF BuildFails, Closed, TypeOK, CaptureTyped
      <3>2. CASE UNCHANGED <<enc, cap>>
        BY <1>5, <2>1, <3>1, <3>2, KeyStill DEF Resume
      <3>3. CASE enc' = Refused(enc)
        BY <1>1, <3>3, AsksFor, KeyAskedFor
      <3> QED BY <2>1, <3>2, <3>3 DEF BuildFails
    <2>2. CASE ~(BuildFails /\ UNCHANGED pause)
      <3>1. enc' = RequestKeyFrame(Configured(enc, sess, FALSE))
        BY <1>5, <2>2 DEF Resume
      <3>2. Configured(enc, sess, FALSE) \in Encoder
        BY <1>1, EncoderOps DEF TypeOK, CaptureTyped
      <3> QED BY <3>1, <3>2, AsksFor, KeyAskedFor DEF Asked
    <2> QED BY <2>1, <2>2
  <1>6. CASE PauseEncode \/ PauseCollect
    <2>1. /\ UNCHANGED <<dup, cap, running>> /\ au = <<>> /\ loc = "top"
      BY <1>6 DEF PauseEncode, PauseCollect, AtTop, Handed
    <2>2. Way = enc.held
      BY <1>1, <2>1, ConcatEmptySeq DEF Way
    <2>3. CASE (cap.gpu /\ ~cap.first) /\ running
      BY <2>1, <2>3, KeyAskedFor DEF Asked
    <2>4. ASSUME NEW e \in Encoder, enc' = Stalled(e) \/ enc' = e, PauseOut(<<>>, Due),
                 e = enc \/ e = RequestKeyFrame(enc)
          PROVE  KeyMain'
      <3>1. CASE e = RequestKeyFrame(enc)
        <4>1. e.force
          BY <1>1, <3>1, AsksFor
        <4>2. enc'.force \/ enc'.owes
          <5>1. CASE enc' = Stalled(e)
            BY <4>1, <5>1, AsksFor
          <5>2. CASE enc' = e
            BY <4>1, <5>2
          <5> QED BY <2>4, <5>1, <5>2
        <4> QED BY <4>2, KeyAskedFor DEF Asked
      <3>2. CASE e = enc
        <4>1. au' = <<>> /\ rx'.ok = rx.ok /\ (pause'.dropKey => pause.dropKey)
          <5>1. <<>> \in Seq(AccessUnit) /\ Len(<<>>) = 0
            BY EmptySeq
          <5>2. PICK from \in 1 .. Len(<<>>) + 1 :
                   /\ au' = SubSeq(<<>>, from, Len(<<>>))
                   /\ rx'.ok <=> rx.ok /\ from = 1
                   /\ pause'.dropKey <=> pause.dropKey /\ FirstKey(<<>>) = 0
            BY <2>4, <5>1, PausedUnits
          <5>3. from = 1 /\ SubSeq(<<>>, 1, 0) = <<>>
            BY <5>1, SubSeqEmpty
          <5>4. rx.ok \in BOOLEAN /\ rx'.ok \in BOOLEAN
            BY <2>4 DEF PauseOut, TypeOK, SentTyped
          <5> QED BY <5>1, <5>2, <5>3, <5>4
        <4>2. /\ enc'.fresh = enc.fresh /\ enc'.held = enc.held /\ enc'.conf = enc.conf
              /\ enc'.force \/ enc'.owes <=> enc.force \/ enc.owes
              /\ enc'.size = enc.size
          <5>1. CASE enc' = Stalled(enc)
            <6>1. ~Stalled(enc).force
              BY <1>1 DEF Stalled, Encoder
            <6> QED BY <1>1, <5>1, <6>1, AsksFor, SizeKept
          <5>2. CASE enc' = enc
            BY <5>2
          <5> QED BY <2>4, <3>2, <5>1, <5>2
        <4>3. Way' = Way
          BY <2>1, <4>1, <4>2 DEF Way
        <4> QED BY <2>1, <4>1, <4>2, <4>3 DEF KeyMain, Asked, Covered
      <3> QED BY <2>4, <3>1, <3>2
    <2>5. ASSUME NEW e \in Encoder, NEW key \in BOOLEAN, NEW n \in 0 .. Len(e.held) + 1,
                 Accepts(e, pause.over, key, n), enc' = AfterInput(e, pause.over, key, n),
                 PauseOut(Output(e, pause.over, key, n), Due),
                 e = enc \/ e = RequestKeyFrame(enc)
          PROVE  KeyMain'
      <3> DEFINE q == Submitted(e, pause.over, key)
      <3>1. pause.over \in Pictures
        BY DEF TypeOK, PauseTyped
      <3>2. q \in Seq(AccessUnit) /\ Len(q) = Len(e.held) + 1 /\ Len(e.held) \in Nat
        BY <3>1, SubmittedUnits, LenProperties DEF Encoder
      <3>3. e.force \/ e.owes => key
        BY <2>5 DEF Accepts, Encoder
      <3>4. PauseOut(SubSeq(q, 1, n), Due)
        BY <2>5 DEF Output
      <3>5. /\ ~enc'.fresh /\ enc'.conf = e.conf /\ enc'.held = SubSeq(q, n + 1, Len(e.held) + 1)
            /\ enc'.size = e.size
        <4> DEFINE a == AfterInput(e, pause.over, key, n)
        <4>1. ~a.fresh /\ a.conf = e.conf /\ a.held = SubSeq(q, n + 1, Len(e.held) + 1)
          BY InputLeaves
        <4>2. a.size = e.size
          BY SizeAfterInput
        <4> HIDE DEF a, q
        <4>3. enc' = a
          BY <2>5 DEF a
        <4> QED BY <4>1, <4>2, <4>3
      <3>6. e.conf = enc.conf /\ e.size = enc.size /\ e.held = enc.held /\ e.fresh = enc.fresh
        BY <1>1, <2>5 DEF RequestKeyFrame, Encoder
      <3>7. CASE (cap.gpu /\ ~cap.first) \/ dup.size # enc.size \/ ~running \/ ~enc.conf
        BY <2>1, <3>5, <3>6, <3>7, KeyAskedFor DEF Asked
      <3>8. CASE ~((cap.gpu /\ ~cap.first) \/ dup.size # enc.size \/ ~running \/ ~enc.conf)
        <4>1. enc.force \/ enc.owes \/ Covered
          BY <2>1, <3>8 DEF KeyMain, Asked
        <4>2. e.force \/ e = enc
          <5>1. RequestKeyFrame(enc).force
            BY <1>1, AsksFor
          <5> QED BY <2>5, <5>1
        <4>3. e.force \/ e.owes \/ (~e.fresh /\ Whole(e.held)
                /\ (~rx.ok \/ pause.dropKey => KeyIn(e.held, 1)))
          BY <2>2, <3>6, <4>1, <4>2 DEF Covered
        <4>4. Whole(q) /\ (~rx.ok \/ pause.dropKey => KeyIn(q, 1))
          BY <3>1, <3>3, <4>3, InputCovered
        <4> HIDE DEF q
        <4>5. n \in 0 .. Len(q) /\ enc'.held = SubSeq(q, n + 1, Len(q))
          BY <3>2, <3>5
        <4> QED BY <3>2, <3>4, <3>5, <4>4, <4>5, PauseCovered DEF KeyMain
      <3> QED BY <3>7, <3>8
    <2>6. CASE PauseEncode
      <3> DEFINE e == IF pause.due = 0 /\ pause.dropKey THEN RequestKeyFrame(enc) ELSE enc
      <3>1. e \in Encoder /\ (e = enc \/ e = RequestKeyFrame(enc))
        BY <1>1, EncoderOps DEF Sizes
      <3>2. \/ \E key \in BOOLEAN, n \in 0 .. Len(e.held) + 1 :
                 /\ Accepts(e, pause.over, key, n)
                 /\ enc' = AfterInput(e, pause.over, key, n)
                 /\ PauseOut(Output(e, pause.over, key, n), Due)
            \/ (enc' = Stalled(e) \/ enc' = e) /\ PauseOut(<<>>, Due)
        BY <2>6 DEF PauseEncode
      <3> HIDE DEF e
      <3> QED BY <2>4, <2>5, <3>1, <3>2
    <2>7. CASE PauseCollect
      <3>1. PICK n \in Finished(enc) : Collect(n) /\ PauseOut(SubSeq(enc.held, 1, n), 0)
        BY <2>7 DEF PauseCollect
      <3>2. /\ enc' = [enc EXCEPT !.held = SubSeq(enc.held, n + 1, Len(enc.held))]
            /\ n \in 0 .. Len(enc.held)
        BY <3>1 DEF Collect, Finished
      <3>3. /\ enc'.held = SubSeq(enc.held, n + 1, Len(enc.held)) /\ enc'.fresh = enc.fresh
            /\ enc'.conf = enc.conf /\ enc'.force = enc.force /\ enc'.owes = enc.owes
            /\ enc'.size = enc.size
        BY <1>1, <3>2 DEF Encoder
      <3>4. CASE running /\ enc.conf /\ Covered
        <4>1. Whole(enc.held) /\ ~enc.fresh /\ (~rx.ok \/ pause.dropKey => KeyIn(enc.held, 1))
          BY <2>2, <3>4 DEF Covered
        <4> QED BY <1>1, <3>1, <3>2, <3>3, <4>1, PauseCovered DEF KeyMain
      <3>5. CASE ~(running /\ enc.conf /\ Covered)
        BY <2>1, <3>3, <3>5 DEF KeyMain, Asked
      <3> QED BY <3>4, <3>5
    <2> QED BY <1>6, <2>6, <2>7
  <1> QED BY <1>3, <1>4, <1>5, <1>6

(* A unit that is no use to the decoder was followed by a key frame; a     *)
(* dropped one asks for it.                                                *)
LEMMA KeySending == TypeInv /\ DropInv /\ KeyMain /\ (Send \/ DropFrame) => KeyMain'
  <1> SUFFICES ASSUME TypeInv, DropInv, KeyMain, Send \/ DropFrame PROVE KeyMain'
    OBVIOUS
  <1> USE DEF TypeInv
  <1>1. CASE Send
    <2>1. /\ au # <<>> /\ ~pause.dropKey /\ UNCHANGED <<enc, dup, pause, running>>
          /\ loc = "send" /\ rx' = Decoded(rx, Head(au)) /\ au' = Tail(au)
      BY <1>1 DEF Send, HandOver, Handed, DropInv
    <2>2. cap'.gpu = cap.gpu /\ cap'.first = cap.first
      BY <1>1 DEF Send, TypeOK, CaptureTyped
    <2>3. CASE running /\ enc.conf /\ Covered
      <3>1. /\ Way \in Seq(AccessUnit) /\ Len(Way) \in Nat \ {0} /\ Way[1] = Head(au)
            /\ Way' = SubSeq(Way, 2, Len(Way))
        BY <2>1, Units, TailWay DEF Way
      <3>2. ~enc.fresh /\ Whole(Way) /\ (~rx.ok => KeyIn(Way, 1))
        BY <2>3 DEF Covered
      <3>3. Whole(Way')
        BY <3>1, <3>2, RestWhole, 2 \in 1 .. Len(Way) + 1
      <3>4. ASSUME ~rx'.ok PROVE KeyIn(Way', 1)
        <4>1. ~Way[1].key /\ ~(rx.ok /\ Way[1].cont)
          BY <2>1, <3>1, <3>4 DEF Decoded
        <4>2. KeyIn(Way, 1)
          BY <3>1, <3>2, <4>1, DOMAIN Way = 1 .. Len(Way), 1 \in DOMAIN Way DEF Whole
        <4>3. PICK j \in 1 .. Len(Way) : Way[j].key
          BY <4>2 DEF KeyIn
        <4>4. j \in 2 .. Len(Way)
          BY <4>1, <4>3
        <4>5. \A i \in 2 .. Len(Way) : Way[i] \in AccessUnit
          BY <3>1, ElementOfSeq
        <4>6. /\ Len(Way') = IF 2 <= Len(Way) THEN Len(Way) - 2 + 1 ELSE 0
              /\ \A i \in 1 .. Len(Way) - 2 + 1 : Way'[i] = Way[2 + i - 1]
          BY <3>1, <4>5, SubSeqProperties
        <4>7. j - 1 \in 1 .. Len(Way') /\ Way'[j - 1] = Way[j]
          <5>1. Len(Way') = Len(Way) - 1 /\ 2 + (j - 1) - 1 = j /\ j - 1 \in 1 .. Len(Way) - 2 + 1
            BY <3>1, <4>4, <4>6
          <5> QED BY <3>1, <4>6, <5>1
        <4> QED BY <4>3, <4>7 DEF KeyIn
      <3> QED BY <2>1, <3>2, <3>3, <3>4 DEF KeyMain, Covered
    <2>4. CASE ~(running /\ enc.conf /\ Covered)
      BY <2>1, <2>2, <2>4 DEF KeyMain, Asked
    <2> QED BY <2>3, <2>4
  <1>2. CASE DropFrame
    <2>1. enc'.force
      BY <1>2, Units, AsksFor DEF DropFrame
    <2> QED BY <2>1, KeyAskedFor DEF Asked
  <1> QED BY <1>1, <1>2

-----------------------------------------------------------------------------
LEMMA KeyInit == Init => KeyInv
  <1> SUFFICES ASSUME Init PROVE KeyInv
    OBVIOUS
  <1>1. dup.size = "wide" /\ enc.size = "wide"
    BY DEF Init
  <1>2. enc.force \/ (cap.gpu /\ ~cap.first)
    <2>1. PICK shared \in SharedDevices : enc.force = ~shared /\ enc.shared = shared
      BY DEF Init
    <2>2. cap.gpu = enc.shared /\ ~cap.first
      BY DEF Init
    <2> QED BY <2>1, <2>2
  <1>3. DupInv /\ DropInv
    BY <1>1 DEF Init, DupInv, DropInv
  <1> QED BY <1>2, <1>3 DEF KeyInv, KeyMain, Asked

LEMMA KeyNext == TypeInv /\ KeyInv /\ [Next]_vars => KeyInv'
  <1> SUFFICES ASSUME TypeInv, KeyInv, [Next]_vars PROVE KeyInv'
    OBVIOUS
  <1>1. TypeOK /\ DupInv /\ DropInv /\ KeyMain
    BY DEF TypeInv, KeyInv
  <1>2. CASE UNCHANGED vars
    BY <1>1, <1>2 DEF KeyInv, DupInv, DropInv, KeyMain, Asked, Covered, Way, vars, windows, stream
  <1>3. CASE Next
    <2>1. DupInv'
      BY <1>1, <1>3, DupOutside, DupStep DEF Next
    <2>2. DropInv'
      BY <1>1, <1>3, DropStep
    <2>3. KeyMain'
      BY <1>1, <1>3, KeyOutside, KeyCapture, KeyEncode, KeyPause, KeySending DEF Next, LoopStep
    <2> QED BY <2>1, <2>2, <2>3 DEF KeyInv
  <1> QED BY <1>2, <1>3

(* What is covered is what the property asks, written for the same units.  *)
LEMMA KeyMeans == TypeOK /\ KeyMain => KeyOwed
  BY DEF KeyMain, KeyOwed, Covered, Way, Whole, KeyIn

(* Whenever the decoder cannot use the next unit, or will not be able to   *)
(* once what is on its way arrived, a key frame is queued behind the break *)
(* or will be made: after a lost or dropped unit, a new transform, a       *)
(* rotation, a fallback to software, a pause, its flush and its end        *)
(* (src/src/app/SenderApp.cpp, every RequestKeyFrame and the first frame   *)
(* of the GPU path; H264Encoder.cpp, the forced key frame it still owes).  *)
THEOREM KeyStaysOwed == Spec => []KeyOwed
  <1>1. Spec => []TypeInv
    BY TypeInit, TypeNext, PTL DEF Spec
  <1>2. Spec => []KeyInv
    BY <1>1, KeyInit, KeyNext, PTL DEF Spec
  <1>3. TypeInv /\ KeyInv => KeyOwed
    BY KeyMeans DEF TypeInv, KeyInv
  <1> QED BY <1>1, <1>2, <1>3, PTL

-----------------------------------------------------------------------------
(* The last picture does not stay inside the encoder.  What is on its way  *)
(* ends in the picture the buffer holds, and if nothing is, the decoder    *)
(* shows it; once the tail went in, no other picture is left inside.       *)
EndsIn(q, r, b) == IF q = <<>> THEN r.ok => r.pic = b ELSE q[Len(q)].pic = b

(* Nothing of the last picture is still to be encoded.                     *)
Calm ==
    /\ running /\ ~pause.on /\ dup.have /\ enc.conf
    /\ ~cap.miss /\ dup.size = enc.size /\ ~cap.pend

(* A picture of another size leaves the GPU path, so that one that is then *)
(* not found is of another size than the encoder's.                        *)
GpuFits ==
    cap.gpu =>
        \/ dup.size = enc.size \/ pause.on \/ ~running
        \/ loc \in {"lost", "lostSecure", "rebuild"}
Behind == Calm => EndsIn(Way, rx, buf)
Through ==
    Calm /\ ~cap.tail => EndsIn(au, rx, buf) /\ \A i \in DOMAIN enc.held : enc.held[i].pic = buf
TailInv == GpuFits /\ Behind /\ Through

LEMMA NotCalm == ~Calm' => Behind' /\ Through'
  BY DEF Behind, Through

LEMMA TailStill ==
  ASSUME Behind, Through, UNCHANGED <<buf, au, rx, pause, running>>, Calm' => Calm,
         enc'.held = enc.held, cap'.tail = cap.tail
  PROVE  Behind' /\ Through'
  BY DEF Behind, Through, Way

(* The decoder takes the first unit: what is left still ends there.        *)
LEMMA SentEnds ==
  ASSUME NEW q \in Seq(AccessUnit), q # <<>>, NEW s \in Seq(AccessUnit), NEW r, NEW b,
         s = SubSeq(q, 2, Len(q)), EndsIn(q, r, b)
  PROVE  EndsIn(s, Decoded(r, q[1]), b)
  <1>1. Len(q) \in Nat \ {0}
    BY EmptySeq, LenProperties
  <1>2. \A i \in 2 .. Len(q) : q[i] \in AccessUnit
    BY <1>1, ElementOfSeq
  <1>3. /\ Len(s) = IF 2 <= Len(q) THEN Len(q) - 2 + 1 ELSE 0
        /\ \A i \in 1 .. Len(q) - 2 + 1 : s[i] = q[2 + i - 1]
    BY <1>1, <1>2, SubSeqProperties
  <1>4. Len(s) = Len(q) - 1
    <2>1. Len(s) = IF 2 <= Len(q) THEN Len(q) - 2 + 1 ELSE 0
      BY <1>3
    <2> DEFINE l == Len(q)
               ls == Len(s)
    <2>2. l \in Nat \ {0} /\ ls = IF 2 <= l THEN l - 2 + 1 ELSE 0
      BY <1>1, <2>1
    <2> HIDE DEF l, ls
    <2>3. ls = l - 1
      BY <2>2
    <2> QED BY <2>3 DEF l, ls
  <1>5. CASE Len(q) = 1
    <2>1. s = <<>> /\ q[1].pic = b
      BY <1>4, <1>5, EmptySeq, LenProperties DEF EndsIn
    <2>2. Decoded(r, q[1]).ok => Decoded(r, q[1]).pic = b
      <3>1. CASE q[1].key \/ (r.ok /\ q[1].cont)
        BY <2>1, <3>1 DEF Decoded
      <3>2. CASE ~(q[1].key \/ (r.ok /\ q[1].cont))
        BY <3>2 DEF Decoded
      <3> QED BY <3>1, <3>2
    <2> QED BY <2>1, <2>2 DEF EndsIn
  <1>6. CASE Len(q) # 1
    <2>1. Len(s) # 0
      BY <1>1, <1>4, <1>6
    <2>2. s[Len(s)] = q[Len(q)]
      <3>1. Len(s) \in 1 .. Len(q) - 2 + 1 /\ 2 + Len(s) - 1 = Len(q)
        BY <1>1, <1>4, <2>1
      <3> QED BY <1>3, <3>1
    <2>3. s # <<>>
      BY <2>1, EmptySeq
    <2> QED BY <2>2, <2>3 DEF EndsIn
  <1> QED BY <1>5, <1>6

(* A picture that goes in ends what is on its way.  If what was inside     *)
(* ended in it already, at most one unit stays, and what is sent ends      *)
(* there.                                                                  *)
LEMMA InputEnds ==
  ASSUME Lag <= 1, NEW e \in Encoder, NEW b \in Pictures, NEW key \in BOOLEAN,
         NEW n \in 0 .. Len(e.held) + 1, Accepts(e, b, key, n), NEW r
  PROVE  LET q == Submitted(e, b, key)
             out == SubSeq(q, 1, n)
             in == SubSeq(q, n + 1, Len(q))
         IN  /\ EndsIn(out \o in, r, b)
             /\ EndsIn(e.held, r, b) => EndsIn(out, r, b) /\ \A i \in DOMAIN in : in[i].pic = b
  <1> DEFINE q == Submitted(e, b, key)
             out == SubSeq(q, 1, n)
             in == SubSeq(q, n + 1, Len(q))
             f == [key |-> key, pic |-> b, cont |-> ~e.fresh]
  <1>1. e.held \in Seq(AccessUnit) /\ f \in AccessUnit /\ Len(e.held) \in Nat
    BY LenProperties DEF Encoder, AccessUnit
  <1>2. /\ q \in Seq(AccessUnit) /\ Len(q) = Len(e.held) + 1
        /\ \A i \in 1 .. Len(e.held) : q[i] = e.held[i]
        /\ q[Len(e.held) + 1] = f
    BY <1>1, AppendProperties DEF Submitted
  <1>3. f.pic = b
    OBVIOUS
  <1>4. Lag \in Nat /\ Len(q) - n <= 1
    <2>1. Len(q) - n <= IF e.soft THEN 0 ELSE Lag
      BY DEF Accepts
    <2> HIDE DEF q
    <2> QED BY <1>1, <1>2, <2>1, StreamAssumption
  <1> HIDE DEF q, f
  <1>5. /\ out \in Seq(AccessUnit) /\ Len(out) = n
        /\ in \in Seq(AccessUnit) /\ Len(in) = Len(q) - n
        /\ \A i \in 1 .. n : out[i] = q[i]
        /\ \A i \in 1 .. Len(q) - n : in[i] = q[n + i]
    <2>1. \A i \in 1 .. Len(q) : q[i] \in AccessUnit
      BY <1>2, ElementOfSeq
    <2>2. /\ out \in Seq(AccessUnit) /\ Len(out) = IF 1 <= n THEN n - 1 + 1 ELSE 0
          /\ \A i \in 1 .. n - 1 + 1 : out[i] = q[1 + i - 1]
      <3>1. \A i \in 1 .. n : q[i] \in AccessUnit
        BY <1>1, <1>2, <2>1
      <3> QED BY <3>1, SubSeqProperties
    <2>3. /\ in \in Seq(AccessUnit)
          /\ Len(in) = IF n + 1 <= Len(q) THEN Len(q) - (n + 1) + 1 ELSE 0
          /\ \A i \in 1 .. Len(q) - (n + 1) + 1 : in[i] = q[(n + 1) + i - 1]
      <3>1. \A i \in n + 1 .. Len(q) : q[i] \in AccessUnit
        BY <1>1, <1>2, <2>1
      <3>2. Len(q) \in Nat
        BY <1>1, <1>2
      <3> QED BY <3>1, <3>2, SubSeqProperties
    <2> HIDE DEF out, in
    <2> QED BY <1>1, <1>2, <2>2, <2>3
  <1>6. EndsIn(out \o in, r, b)
    <2>1. n \in 0 .. Len(q) /\ Len(q) \in Nat \ {0}
      BY <1>1, <1>2
    <2>2. out \o in = q
      <3>1. SubSeq(out, 1, n) = out
        BY <1>5, SubSeqFull
      <3>2. SubSeq(q, 1, Len(q)) = q
        BY <1>2, SubSeqFull
      <3>3. 1 \in 1 .. n + 1
        OBVIOUS
      <3>4. SubSeq(SubSeq(q, 1, n), 1, n) \o SubSeq(q, n + 1, Len(q)) = SubSeq(q, 1, Len(q))
        BY <1>2, <2>1, <3>3, Joined
      <3> QED BY <3>1, <3>2, <3>4
    <2>3. q # <<>> /\ q[Len(q)].pic = b
      BY <1>2, <1>3, <2>1, EmptySeq
    <2> HIDE DEF out, in
    <2> QED BY <2>2, <2>3 DEF EndsIn
  <1>7. ASSUME EndsIn(e.held, r, b)
        PROVE  EndsIn(out, r, b) /\ \A i \in DOMAIN in : in[i].pic = b
    <2> HIDE DEF out, in
    <2>1. ASSUME NEW i \in DOMAIN in PROVE in[i].pic = b
      <3>1. i \in 1 .. Len(q) - n
        BY <1>5, <2>1, LenProperties
      <3>2. n + i = Len(e.held) + 1
        BY <1>1, <1>2, <1>4, <3>1
      <3> QED BY <1>2, <1>3, <1>5, <3>1, <3>2
    <2>2. EndsIn(out, r, b)
      <3>1. CASE n = Len(e.held) + 1
        <4>1. n \in 1 .. n /\ Len(out) = n /\ n # 0
          BY <1>1, <1>5, <3>1
        <4>2. out # <<>>
          BY <4>1, EmptySeq
        <4>3. out[Len(out)] = q[Len(e.held) + 1]
          BY <1>5, <3>1, <4>1
        <4> QED BY <1>2, <1>3, <4>2, <4>3 DEF EndsIn
      <3>2. CASE n # Len(e.held) + 1
        <4>1. n = Len(e.held)
          BY <1>1, <1>2, <1>4, <3>2
        <4>2. CASE n = 0
          <5>1. out = <<>> /\ e.held = <<>>
            BY <1>1, <1>5, <4>1, <4>2, EmptySeq, LenProperties
          <5> QED BY <1>7, <5>1 DEF EndsIn
        <4>3. CASE n # 0
          <5>1. out # <<>> /\ e.held # <<>> /\ out[Len(out)] = e.held[Len(e.held)]
            BY <1>1, <1>2, <1>5, <4>1, <4>3, EmptySeq
          <5> QED BY <1>7, <5>1 DEF EndsIn
        <4> QED BY <4>2, <4>3
      <3> QED BY <3>1, <3>2
    <2> QED BY <2>1, <2>2
  <1> QED BY <1>6, <1>7 DEF q

-----------------------------------------------------------------------------
(* Sizes on the GPU path.                                                  *)
LEMMA GpuStays ==
  ASSUME GpuFits, cap'.gpu => cap.gpu, enc'.size = enc.size, dup'.size = dup.size,
         pause'.on = pause.on, running' => running,
         loc \notin {"lost", "lostSecure", "rebuild"} \/ loc' = loc
  PROVE  GpuFits'
  BY DEF GpuFits

LEMMA GpuBuilt ==
  ASSUME TypeOK, NEW size \in Sizes, NEW desc \in Sizes, NEW frame, Built(size, desc, frame)
  PROVE  GpuFits' /\ ~dup'.have
  <1>1. enc \in Encoder /\ Configured(enc, size, FALSE) \in Encoder
    BY Units, EncoderOps
  <1>2. Configured(enc, size, FALSE).size = size
    BY <1>1 DEF Configured, Bound, Probed, Encoder
  <1>3. RequestKeyFrame(Configured(enc, size, FALSE)).size = size
    BY <1>1, <1>2, SizeKept
  <1>4. enc'.size = size
    BY <1>2, <1>3 DEF Built
  <1>5. dup'.size = desc /\ ~dup'.have
    BY DEF Built, Opened
  <1>6. cap'.gpu => size = desc
    BY DEF Built, GpuPath, TypeOK, CaptureTyped
  <1> QED BY <1>4, <1>5, <1>6 DEF GpuFits

LEMMA GpuOutside == TypeOK /\ GpuFits /\ (WindowsStep \/ TrayStep \/ ReaderStep) => GpuFits'
  <1> SUFFICES ASSUME TypeOK, GpuFits, WindowsStep \/ TrayStep \/ ReaderStep PROVE GpuFits'
    OBVIOUS
  <1>1. CASE WindowsStep \/ TrayStep
    <2>1. UNCHANGED <<enc, cap, running, loc, pause>>
      BY <1>1 DEF WindowsStep, TrayStep, SessionChange, UacPrompt, DesktopSwitch, DisplayPower,
             WtsOutage, Present, FirstPresent, ModeChange, HearSession, HearDisplay, stream,
             windows
    <2>2. dup'.size = dup.size
      <3>1. \/ dup' = dup
            \/ \E x : dup' = [dup EXCEPT !.lost = x] \/ dup' = [dup EXCEPT !.news = x]
        BY <1>1 DEF WindowsStep, TrayStep, SessionChange, UacPrompt, DesktopSwitch, DisplayPower,
               WtsOutage, Present, FirstPresent, ModeChange, HearSession, HearDisplay, stream,
               windows
      <3> QED BY <3>1 DEF TypeOK, CaptureTyped
    <2> QED BY <2>1, <2>2, GpuStays
  <1>2. CASE KeyAsked
    BY <1>2, Units, SizeKept, GpuStays DEF KeyAsked
  <1>3. CASE HelloTurn
    <2>1. Turned(sess) \in Sizes
      BY DEF Turned, Sizes
    <2>2. CASE CanBuild
      BY <1>3, <2>1, <2>2, GpuBuilt DEF HelloTurn
    <2>3. CASE ~CanBuild
      BY <1>3, <2>3 DEF HelloTurn, GpuFits
    <2> QED BY <2>2, <2>3
  <1> QED BY <1>1, <1>2, <1>3 DEF ReaderStep

LEMMA GpuLoop == TypeOK /\ GpuFits /\ LoopStep => GpuFits'
  <1> SUFFICES ASSUME TypeOK, GpuFits, LoopStep PROVE GpuFits'
    OBVIOUS
  <1>1. enc \in Encoder /\ sess \in Sizes /\ mode \in Sizes /\ dup.size \in Sizes
    BY Units DEF TypeOK, CaptureTyped, WindowsTyped
  <1>2. ASSUME NEW size \in Sizes, NEW m \in Sizes, RebuildOr(size, m) PROVE GpuFits'
    <2>1. CASE CanBuild
      BY <1>2, <2>1, GpuBuilt DEF RebuildOr
    <2>2. CASE ~CanBuild
      BY <1>2, <2>2 DEF RebuildOr, GpuFits
    <2> QED BY <2>1, <2>2
  <1>3. CASE PauseOnSignal \/ PauseOnLoss
    <2>1. pause'.on
      BY <1>3 DEF PauseOnSignal, PauseOnLoss, EnterPause, WtsSays
    <2> QED BY <2>1 DEF GpuFits
  <1>4. CASE RenderAgain \/ PauseEncode \/ PauseCollect
    <2>1. pause.on
      BY <1>4 DEF RenderAgain, PauseEncode, PauseCollect
    <2>2. pause'.on = pause.on
      BY <1>4 DEF RenderAgain, PauseEncode, PauseCollect, Render, PauseOut, TypeOK, PauseTyped
    <2> QED BY <2>1, <2>2 DEF GpuFits
  <1>5. CASE AccessLost
    BY <1>5 DEF AccessLost, GpuFits
  <1>6. CASE RebuildOnLoss
    BY <1>1, <1>2, <1>6 DEF RebuildOnLoss
  <1>7. CASE Resize
    <2>1. \E size \in Sizes : RebuildOr(size, mode')
      BY <1>1, <1>7 DEF Resize
    <2>2. mode' \in Sizes
      BY <1>1, <1>7 DEF Resize
    <2> QED BY <1>2, <2>1, <2>2
  <1>8. CASE Resume
    <2>1. CASE BuildFails /\ UNCHANGED pause
      BY <1>8, <2>1 DEF Resume, GpuFits
    <2>2. CASE ~(BuildFails /\ UNCHANGED pause)
      <3>1. PICK desc \in {mode, sess}, frame \in BOOLEAN :
              /\ dup' = Opened(desc, frame)
              /\ enc' = RequestKeyFrame(Configured(enc, sess, FALSE))
              /\ cap' = [cap EXCEPT !.gpu = GpuPath(sess, desc), !.first = FALSE, !.pend = TRUE]
        BY <1>8, <2>2 DEF Resume
      <3>2. Configured(enc, sess, FALSE) \in Encoder
        BY <1>1, EncoderOps
      <3>3. Configured(enc, sess, FALSE).size = sess
        BY <1>1 DEF Configured, Bound, Probed, Encoder
      <3>4. enc'.size = sess
        BY <3>1, <3>2, <3>3, SizeKept
      <3>5. dup'.size = desc /\ (cap'.gpu => sess = desc)
        BY <3>1 DEF Opened, GpuPath, TypeOK, CaptureTyped
      <3> QED BY <3>4, <3>5 DEF GpuFits
    <2> QED BY <2>1, <2>2
  <1>9. CASE CaptureFrame
    <2>1. enc'.size = enc.size
      BY <1>1, <1>9, SizeKept DEF CaptureFrame
    <2>2. dup'.size = dup.size /\ cap'.gpu = cap.gpu
      BY <1>9 DEF CaptureFrame, TypeOK, CaptureTyped
    <2> QED BY <1>9, <2>1, <2>2, GpuStays DEF CaptureFrame
  <1>10. CASE CaptureTurned
    BY <1>10 DEF CaptureTurned, GpuFits, TypeOK, CaptureTyped
  <1>11. CASE Encode \/ CollectIdle
    <2>1. UNCHANGED <<dup, pause, running>> /\ loc = "top"
      BY <1>11 DEF Encode, EncodeFrame, EncodeNothing, EncodeStalls, CollectIdle, CanEncode,
             Capturing, AtTop
    <2>2. cap'.gpu => cap.gpu
      BY <1>11 DEF Encode, EncodeFrame, EncodeNothing, EncodeStalls, CollectIdle, Slotted, TypeOK,
             CaptureTyped
    <2>3. enc'.size = enc.size
      <3>1. CASE EncodeFrame
        BY <3>1, <1>1, SizeAfterInput DEF EncodeFrame
      <3>2. CASE EncodeNothing
        BY <3>2 DEF EncodeNothing
      <3>3. CASE EncodeStalls
        <4>1. Stalled(enc) \in Encoder /\ Configured(enc, enc.size, TRUE) \in Encoder
          BY <1>1, AsksFor, EncoderOps DEF Sizes
        <4>2. \/ enc' = Stalled(enc) \/ enc' = Refused(Stalled(enc))
              \/ enc' = RequestKeyFrame(Configured(enc, enc.size, TRUE))
          BY <3>3 DEF EncodeStalls
        <4> QED BY <1>1, <4>1, <4>2, SizeKept
      <3>4. CASE CollectIdle
        BY <3>4, <1>1 DEF CollectIdle, Collect, Encoder
      <3> QED BY <1>11, <3>1, <3>2, <3>3, <3>4 DEF Encode
    <2> QED BY <2>1, <2>2, <2>3, GpuStays
  <1>12. CASE Send \/ DropFrame
    <2>1. enc'.size = enc.size /\ UNCHANGED <<dup, pause, running>> /\ loc = "send"
      BY <1>1, <1>12, SizeKept DEF Send, DropFrame
    <2>2. cap'.gpu = cap.gpu
      BY <1>12 DEF Send, DropFrame, TypeOK, CaptureTyped
    <2> QED BY <2>1, <2>2, GpuStays
  <1>13. CASE CaptureFails
    <2>1. dup'.size = dup.size /\ cap'.gpu = cap.gpu
      BY <1>13 DEF CaptureFails, TypeOK, CaptureTyped
    <2> QED BY <1>13, <2>1, GpuStays DEF CaptureFails
  <1> QED BY <1>3, <1>4, <1>5, <1>6, <1>7, <1>8, <1>9, <1>10, <1>11, <1>12, <1>13 DEF LoopStep

-----------------------------------------------------------------------------
(* Nothing outside the loop moves the last picture.                        *)
LEMMA TailOutside ==
  TypeOK /\ TailInv /\ (WindowsStep \/ TrayStep \/ ReaderStep) => Behind' /\ Through'
  <1> SUFFICES ASSUME TypeOK, Behind, Through, WindowsStep \/ TrayStep \/ ReaderStep
               PROVE  Behind' /\ Through'
    BY DEF TailInv
  <1>1. CASE WindowsStep \/ TrayStep
    <2>1. UNCHANGED <<enc, buf, cap, au, rx, running, pause>>
      BY <1>1 DEF WindowsStep, TrayStep, SessionChange, UacPrompt, DesktopSwitch, DisplayPower,
             WtsOutage, Present, FirstPresent, ModeChange, HearSession, HearDisplay, stream,
             windows
    <2>2. dup'.size = dup.size /\ dup'.have = dup.have
      <3>1. \/ dup' = dup
            \/ \E x : dup' = [dup EXCEPT !.lost = x] \/ dup' = [dup EXCEPT !.news = x]
        BY <1>1 DEF WindowsStep, TrayStep, SessionChange, UacPrompt, DesktopSwitch, DisplayPower,
               WtsOutage, Present, FirstPresent, ModeChange, HearSession, HearDisplay, stream,
               windows
      <3> QED BY <3>1 DEF TypeOK, CaptureTyped
    <2>3. Calm' => Calm
      BY <2>1, <2>2 DEF Calm
    <2> QED BY <2>1, <2>3, TailStill
  <1>2. CASE KeyAsked
    <2>1. enc'.held = enc.held /\ enc'.size = enc.size /\ enc'.conf = enc.conf
      BY <1>2, Units DEF KeyAsked, RequestKeyFrame, Encoder
    <2>2. Calm' => Calm
      BY <1>2, <2>1 DEF KeyAsked, Calm
    <2> QED BY <1>2, <2>1, <2>2, TailStill DEF KeyAsked
  <1>3. CASE HelloTurn
    <2>1. Turned(sess) \in Sizes
      BY DEF Turned, Sizes
    <2>2. ~dup'.have \/ ~running'
      BY <1>3, <2>1, GpuBuilt DEF HelloTurn
    <2> QED BY <2>2, NotCalm DEF Calm
  <1> QED BY <1>1, <1>2, <1>3 DEF ReaderStep

(* After a pause, a loss, a rebuild, a capture or an encode that failed    *)
(* there is a picture to encode, or none that could be.                    *)
LEMMA TailBusy ==
  TypeOK /\ TailInv
      /\ (PauseOnSignal \/ AccessLost \/ PauseOnLoss \/ RebuildOnLoss \/ CaptureFrame
            \/ CaptureTurned \/ Resize \/ EncodeNothing \/ EncodeStalls \/ Resume \/ RenderAgain
            \/ PauseEncode \/ PauseCollect)
    => ~Calm'
  <1> SUFFICES ASSUME TypeOK, GpuFits,
                      PauseOnSignal \/ AccessLost \/ PauseOnLoss \/ RebuildOnLoss \/ CaptureFrame
                        \/ CaptureTurned \/ Resize \/ EncodeNothing \/ EncodeStalls \/ Resume
                        \/ RenderAgain \/ PauseEncode \/ PauseCollect
               PROVE  ~Calm'
    BY DEF TailInv
  <1>1. enc \in Encoder /\ sess \in Sizes /\ mode \in Sizes /\ dup.size \in Sizes
    BY Units DEF TypeOK, CaptureTyped, WindowsTyped
  <1>2. ASSUME NEW size \in Sizes, NEW m \in Sizes, RebuildOr(size, m) PROVE ~Calm'
    BY <1>2, GpuBuilt DEF RebuildOr, Calm
  <1>3. CASE PauseOnSignal \/ PauseOnLoss
    <2>1. pause'.on
      BY <1>3 DEF PauseOnSignal, PauseOnLoss, EnterPause, WtsSays
    <2> QED BY <2>1 DEF Calm
  <1>4. CASE RenderAgain \/ PauseEncode \/ PauseCollect
    <2>1. pause.on
      BY <1>4 DEF RenderAgain, PauseEncode, PauseCollect
    <2>2. pause'.on = pause.on
      BY <1>4 DEF RenderAgain, PauseEncode, PauseCollect, Render, PauseOut, TypeOK, PauseTyped
    <2> QED BY <2>1, <2>2 DEF Calm
  <1>5. CASE AccessLost
    <2>1. ~dup'.have
      BY <1>5 DEF AccessLost, Reopened, Opened, Closed, TypeOK, CaptureTyped
    <2> QED BY <2>1 DEF Calm
  <1>6. CASE RebuildOnLoss
    BY <1>1, <1>2, <1>6 DEF RebuildOnLoss
  <1>7. CASE Resize
    <2>1. \E size \in Sizes : RebuildOr(size, mode')
      BY <1>1, <1>7 DEF Resize
    <2>2. mode' \in Sizes
      BY <1>1, <1>7 DEF Resize
    <2> QED BY <1>2, <2>1, <2>2
  <1>8. CASE Resume
    <2>1. CASE BuildFails /\ UNCHANGED pause
      BY <1>8, <2>1 DEF Resume, Calm
    <2>2. CASE ~(BuildFails /\ UNCHANGED pause)
      <3>1. \E desc, frame : dup' = Opened(desc, frame)
        BY <1>8, <2>2 DEF Resume
      <3> QED BY <3>1 DEF Opened, Calm
    <2> QED BY <2>1, <2>2
  <1>9. CASE CaptureFrame
    <2>1. cap'.pend
      BY <1>9 DEF CaptureFrame, TypeOK, CaptureTyped
    <2> QED BY <2>1 DEF Calm
  <1>10. CASE CaptureTurned
    <2>1. PICK got \in {TRUE, ~cap.gpu} :
            /\ dup' = [dup EXCEPT !.news = FALSE, !.have = @ \/ got, !.size = mode]
            /\ cap' = [cap EXCEPT !.gpu = FALSE, !.first = FALSE, !.pend = @ \/ got,
                                  !.skip = @ /\ ~got]
      BY <1>10 DEF CaptureTurned
    <2>2. CASE got
      <3>1. cap'.pend
        BY <2>1, <2>2 DEF TypeOK, CaptureTyped
      <3> QED BY <3>1 DEF Calm
    <2>3. CASE ~got
      <3>1. cap.gpu /\ running /\ ~pause.on /\ loc = "top" /\ mode # dup.size
        BY <1>10, <2>1, <2>3 DEF CaptureTurned, Capturing, AtTop
      <3>2. dup.size = enc.size
        BY <3>1 DEF GpuFits
      <3>3. dup'.size = mode /\ enc' = enc
        BY <1>10, <2>1 DEF CaptureTurned, TypeOK, CaptureTyped
      <3> QED BY <3>1, <3>2, <3>3 DEF Calm
    <2> QED BY <2>2, <2>3
  <1>11. CASE EncodeNothing
    <2>1. UNCHANGED <<dup, enc>> /\ (~enc.conf \/ ~dup.have \/ dup.size # enc.size)
      BY <1>11 DEF EncodeNothing, NothingToEncode
    <2> QED BY <2>1 DEF Calm
  <1>12. CASE EncodeStalls
    <2>1. cap'.miss
      BY <1>12 DEF EncodeStalls, Slotted, TypeOK, CaptureTyped
    <2> QED BY <2>1 DEF Calm
  <1> QED BY <1>3, <1>4, <1>5, <1>6, <1>7, <1>8, <1>9, <1>10, <1>11, <1>12

(* A picture that could not be converted leaves the one before in place.   *)
LEMMA TailSkips == TypeOK /\ TailInv /\ CaptureFails => Behind' /\ Through'
  <1> SUFFICES ASSUME TypeOK, TailInv, CaptureFails PROVE Behind' /\ Through'
    OBVIOUS
  <1>1. /\ UNCHANGED <<buf, enc, au, rx, pause, running>>
        /\ dup' = [dup EXCEPT !.news = FALSE] /\ cap' = [cap EXCEPT !.skip = TRUE]
    BY DEF CaptureFails
  <1>2. /\ dup'.have = dup.have /\ dup'.size = dup.size
        /\ cap'.miss = cap.miss /\ cap'.pend = cap.pend /\ cap'.tail = cap.tail
    BY <1>1 DEF TypeOK, CaptureTyped
  <1> QED BY <1>1, <1>2, TailStill DEF TailInv, Calm

(* The encoder takes the picture in, or gives what it finished.            *)
LEMMA TailEncode ==
  Lag <= 1 /\ TypeInv /\ TailInv /\ (EncodeFrame \/ CollectIdle) => Behind' /\ Through'
  <1> SUFFICES ASSUME Lag <= 1, TypeInv, Behind, Through, EncodeFrame \/ CollectIdle
               PROVE  Behind' /\ Through'
    BY DEF TailInv
  <1>1. TypeOK /\ enc \in Encoder /\ enc.held \in Seq(AccessUnit) /\ Len(enc.held) \in Nat
    BY Units DEF TypeInv
  <1>2. /\ UNCHANGED <<dup, buf, rx, pause, running>> /\ ~pause.on /\ running /\ au = <<>>
    BY <1>1 DEF EncodeFrame, CollectIdle, CanEncode, Capturing, AtTop, TypeInv, Handed
  <1>3. Way = enc.held
    BY <1>1, <1>2, ConcatEmptySeq DEF Way
  <1>4. CASE EncodeFrame
    <2>1. PICK key \in BOOLEAN, n \in 0 .. Len(enc.held) + 1 :
            /\ Accepts(enc, buf, key, n)
            /\ enc' = AfterInput(enc, buf, key, n)
            /\ au' = Output(enc, buf, key, n)
      BY <1>4 DEF EncodeFrame, HandOver
    <2> DEFINE q == Submitted(enc, buf, key)
    <2>2. buf \in Pictures
      BY <1>1 DEF TypeOK, CaptureTyped
    <2>3. Len(q) = Len(enc.held) + 1
      BY <1>1, <2>2, SubmittedUnits
    <2>4. au' = SubSeq(q, 1, n)
      BY <2>1 DEF Output
    <2>5. enc'.held = SubSeq(q, n + 1, Len(q)) /\ enc'.conf = enc.conf
      <3> DEFINE a == AfterInput(enc, buf, key, n)
      <3>1. a.conf = enc.conf /\ a.held = SubSeq(q, n + 1, Len(enc.held) + 1)
        BY <1>1, InputLeaves
      <3> HIDE DEF a, q
      <3>2. enc' = a
        BY <2>1 DEF a
      <3> QED BY <2>3, <3>1, <3>2
    <2>6. /\ EndsIn(SubSeq(q, 1, n) \o SubSeq(q, n + 1, Len(q)), rx, buf)
          /\ EndsIn(enc.held, rx, buf) =>
               /\ EndsIn(SubSeq(q, 1, n), rx, buf)
               /\ \A i \in DOMAIN SubSeq(q, n + 1, Len(q)) : SubSeq(q, n + 1, Len(q))[i].pic = buf
      BY <1>1, <2>1, <2>2, InputEnds
    <2> HIDE DEF q
    <2>7. Behind'
      <3>1. Way' = SubSeq(q, 1, n) \o SubSeq(q, n + 1, Len(q))
        BY <2>4, <2>5 DEF Way
      <3> QED BY <1>2, <2>6, <3>1 DEF Behind
    <2>8. Through'
      <3> SUFFICES ASSUME Calm', ~cap'.tail
                   PROVE  EndsIn(au', rx', buf') /\ \A i \in DOMAIN enc'.held : enc'.held[i].pic = buf'
        BY DEF Through
      <3>1. cap'.tail = cap.pend /\ cap'.miss = cap.miss
        BY <1>1, <1>4 DEF EncodeFrame, Slotted, TypeOK, CaptureTyped
      <3>2. dup.size = enc.size
        BY <1>4 DEF EncodeFrame, NothingToEncode
      <3>3. Calm
        BY <1>2, <2>5, <3>1, <3>2 DEF Calm
      <3>4. EndsIn(enc.held, rx, buf)
        BY <1>3, <3>3 DEF Behind
      <3> QED BY <1>2, <2>4, <2>5, <2>6, <3>4
    <2> QED BY <2>7, <2>8
  <1>5. CASE CollectIdle
    <2> DEFINE h == enc.held
    <2>1. PICK n \in Finished(enc) : Collect(n) /\ au' = SubSeq(h, 1, n)
      BY <1>5 DEF CollectIdle, HandOver
    <2>2. n \in 1 .. Len(h)
      BY <1>1, <2>1 DEF Finished, Collect
    <2>3. /\ enc'.held = SubSeq(h, n + 1, Len(h)) /\ enc'.conf = enc.conf /\ enc'.size = enc.size
      BY <1>1, <2>1 DEF Collect, Encoder
    <2>4. cap' = cap
      BY <1>5 DEF CollectIdle
    <2>5. Calm' => Calm
      BY <1>2, <2>3, <2>4 DEF Calm
    <2> HIDE DEF h
    <2>6. h \in Seq(AccessUnit) /\ Len(h) \in Nat /\ Way = h
      BY <1>1, <1>3 DEF h
    <2>7. Way' = h
      <3>1. SubSeq(h, 1, n) \in Seq(AccessUnit) /\ Len(SubSeq(h, 1, n)) = n
        BY <2>2, <2>6, PartOf
      <3>2. SubSeq(SubSeq(h, 1, n), 1, n) = SubSeq(h, 1, n) /\ SubSeq(h, 1, Len(h)) = h
        BY <2>6, <3>1, SubSeqFull
      <3>3. SubSeq(SubSeq(h, 1, n), 1, n) \o SubSeq(h, n + 1, Len(h)) = SubSeq(h, 1, Len(h))
        BY <2>2, <2>6, Joined, 1 \in 1 .. n + 1
      <3> QED BY <2>1, <2>3, <3>2, <3>3 DEF Way
    <2>8. Behind'
      BY <1>2, <2>5, <2>6, <2>7 DEF Behind
    <2>9. ASSUME Calm, ~cap.tail
          PROVE  EndsIn(au', rx, buf) /\ \A i \in DOMAIN enc'.held : enc'.held[i].pic = buf
      <3>1. \A i \in DOMAIN h : h[i].pic = buf
        BY <2>9 DEF Through, h
      <3>2. /\ Len(au') = n /\ au' \in Seq(AccessUnit)
            /\ \A i \in DOMAIN au' : \E j \in DOMAIN h : au'[i] = h[j]
        <4>1. /\ Len(SubSeq(h, 1, n)) = IF 1 <= n THEN n - 1 + 1 ELSE 0
              /\ SubSeq(h, 1, n) \in Seq(AccessUnit)
              /\ \A i \in DOMAIN SubSeq(h, 1, n) : \E j \in DOMAIN h : SubSeq(h, 1, n)[i] = h[j]
          BY <2>2, <2>6, PartOf
        <4> QED BY <2>1, <2>2, <4>1
      <3>3. \A i \in DOMAIN enc'.held : \E j \in DOMAIN h : enc'.held[i] = h[j]
        BY <2>2, <2>3, <2>6, PartOf
      <3>4. au' # <<>> /\ Len(au') \in DOMAIN au'
        BY <2>2, <3>2, EmptySeq, LenProperties
      <3> QED BY <3>1, <3>2, <3>3, <3>4 DEF EndsIn
    <2>10. Through'
      BY <1>2, <2>4, <2>5, <2>9 DEF Through
    <2> QED BY <2>8, <2>10
  <1> QED BY <1>4, <1>5

(* A unit that was sent is shown; one that was dropped leaves a decoder    *)
(* that cannot go on.                                                      *)
LEMMA TailSending == TypeInv /\ TailInv /\ (Send \/ DropFrame) => Behind' /\ Through'
  <1> SUFFICES ASSUME TypeInv, Behind, Through, Send \/ DropFrame PROVE Behind' /\ Through'
    BY DEF TailInv
  <1>1. /\ TypeOK /\ enc \in Encoder /\ enc.held \in Seq(AccessUnit) /\ au \in Seq(AccessUnit)
        /\ Len(enc.held) \in Nat /\ Len(au) \in Nat
    BY Units DEF TypeInv
  <1>2. au # <<>> /\ UNCHANGED <<dup, buf, pause, running>>
    BY DEF Send, DropFrame, TypeInv, Handed
  <1>3. CASE Send
    <2>1. /\ au' = Tail(au) /\ rx' = Decoded(rx, Head(au)) /\ enc' = enc
          /\ cap' = [cap EXCEPT !.dropped = FALSE]
      BY <1>3 DEF Send, HandOver
    <2>2. cap'.pend = cap.pend /\ cap'.tail = cap.tail /\ cap'.miss = cap.miss
      BY <1>1, <2>1 DEF TypeOK, CaptureTyped
    <2>3. Calm' => Calm
      BY <1>2, <2>1, <2>2 DEF Calm
    <2>4. /\ Way \in Seq(AccessUnit) /\ Way # <<>> /\ Way[1] = Head(au)
          /\ Way' = SubSeq(Way, 2, Len(Way))
      BY <1>1, <1>2, <2>1, TailWay, EmptySeq DEF Way
    <2>5. Way' \in Seq(AccessUnit) /\ au' \in Seq(AccessUnit)
      <3>1. au' \in Seq(AccessUnit)
        BY <1>1, <1>2, <2>1, HeadTailProperties
      <3> QED BY <1>1, <2>1, <3>1, ConcatProperties DEF Way
    <2>6. au[1] = Head(au) /\ au' = SubSeq(au, 2, Len(au))
      <3>1. <<>> \in Seq(AccessUnit)
        BY EmptySeq
      <3>2. /\ (au \o <<>>)[1] = Head(au)
            /\ Tail(au) \o <<>> = SubSeq(au \o <<>>, 2, Len(au \o <<>>))
        BY <1>1, <1>2, <3>1, TailWay
      <3>3. au \o <<>> = au /\ Tail(au) \o <<>> = Tail(au)
        BY <1>1, <2>1, <2>5, ConcatEmptySeq
      <3> QED BY <2>1, <3>2, <3>3
    <2>7. Behind'
      <3>1. EndsIn(Way, rx, buf) => EndsIn(Way', rx', buf)
        BY <2>1, <2>4, <2>5, SentEnds
      <3> QED BY <1>2, <2>3, <3>1 DEF Behind
    <2>8. Through'
      <3>1. EndsIn(au, rx, buf) => EndsIn(au', rx', buf)
        BY <1>1, <1>2, <2>1, <2>5, <2>6, SentEnds
      <3> QED BY <1>2, <2>1, <2>2, <2>3, <3>1 DEF Through
    <2> QED BY <2>7, <2>8
  <1>4. CASE DropFrame
    <2>1. /\ au' = <<>> /\ rx' = [rx EXCEPT !.ok = FALSE] /\ enc' = RequestKeyFrame(enc)
          /\ cap' = [cap EXCEPT !.pend = @ \/ ~cap.dropped, !.dropped = TRUE]
      BY <1>4 DEF DropFrame, HandOver
    <2>2. (cap.pend => cap'.pend) /\ cap'.tail = cap.tail /\ cap'.miss = cap.miss
      BY <1>1, <2>1 DEF TypeOK, CaptureTyped
    <2>3. enc'.held = enc.held /\ enc'.size = enc.size /\ enc'.conf = enc.conf
      BY <1>1, <2>1 DEF RequestKeyFrame, Encoder
    <2>4. Calm' => Calm
      BY <1>2, <2>2, <2>3 DEF Calm
    <2>5. ~rx'.ok
      BY <1>1, <2>1 DEF TypeOK, SentTyped
    <2>6. Behind'
      <3> DEFINE h == enc.held
      <3>1. Way' = h
        BY <1>1, <2>1, <2>3, ConcatEmptySeq DEF Way
      <3>2. CASE h = <<>>
        BY <2>5, <3>1, <3>2 DEF Behind, EndsIn
      <3>3. CASE h # <<>>
        <4> HIDE DEF h
        <4>1. h \in Seq(AccessUnit) /\ Way = au \o h /\ Len(h) \in Nat
          BY <1>1 DEF h, Way
        <4>2. Len(h) # 0
          BY <3>3, <4>1, EmptySeq
        <4>3. /\ Len(Way) = Len(au) + Len(h)
              /\ \A i \in 1 .. Len(au) + Len(h) : Way[i] = IF i <= Len(au) THEN au[i] ELSE h[i - Len(au)]
          BY <1>1, <4>1, ConcatProperties
        <4>4. Way[Len(Way)] = h[Len(h)]
          <5> DEFINE m == Len(au) + Len(h)
          <5>1. m \in 1 .. Len(au) + Len(h) /\ ~(m <= Len(au)) /\ m - Len(au) = Len(h)
            BY <1>1, <4>1, <4>2
          <5>2. Way[m] = h[m - Len(au)]
            BY <4>3, <5>1
          <5> QED BY <4>3, <5>1, <5>2
        <4>5. Way # <<>>
          BY <1>1, <4>1, <4>2, <4>3, EmptySeq
        <4> QED BY <1>2, <2>4, <3>1, <3>3, <4>4, <4>5 DEF Behind, EndsIn
      <3> QED BY <3>2, <3>3
    <2>7. Through'
      BY <1>2, <2>1, <2>2, <2>3, <2>4, <2>5 DEF Through, EndsIn
    <2> QED BY <2>6, <2>7
  <1> QED BY <1>3, <1>4

-----------------------------------------------------------------------------
LEMMA TailInit == Init => TailInv
  <1> SUFFICES ASSUME Init PROVE TailInv
    OBVIOUS
  <1>1. dup.size = "wide" /\ enc.size = "wide" /\ ~dup.have
    BY DEF Init
  <1> QED BY <1>1 DEF TailInv, GpuFits, Behind, Through, Calm

LEMMA TailNext == Lag <= 1 /\ TypeInv /\ TailInv /\ [Next]_vars => TailInv'
  <1> SUFFICES ASSUME Lag <= 1, TypeInv, TailInv, [Next]_vars PROVE TailInv'
    OBVIOUS
  <1>1. TypeOK /\ GpuFits /\ Behind /\ Through
    BY DEF TypeInv, TailInv
  <1>2. CASE UNCHANGED vars
    BY <1>1, <1>2 DEF TailInv, GpuFits, Behind, Through, Calm, Way, EndsIn, vars, windows, stream
  <1>3. CASE Next
    <2>1. GpuFits'
      BY <1>1, <1>3, GpuOutside, GpuLoop DEF Next
    <2>2. Behind' /\ Through'
      BY <1>1, <1>3, TailOutside, TailBusy, NotCalm, TailSkips, TailEncode, TailSending
         DEF Next, LoopStep, Encode
    <2> QED BY <2>1, <2>2 DEF TailInv
  <1> QED BY <1>2, <1>3

LEMMA TailMeans == TypeInv /\ TailInv => TailPushes
  <1> SUFFICES ASSUME TypeInv, TailInv, running, ~pause.on, loc = "top", dup.have, enc.conf,
                      ~cap.miss, ~SizeDiffers, ~cap.pend, ~cap.tail, rx.ok
               PROVE  rx.pic = buf
    BY DEF TailPushes
  <1>1. Calm /\ au = <<>>
    BY DEF Calm, SizeDiffers, TypeInv, Handed
  <1> QED BY <1>1 DEF TailInv, Through, EndsIn

(* The picture the capture holds is the one the receiver shows as soon as  *)
(* nothing is pending and its tail went in: with an encoder that keeps at  *)
(* most the last access unit until the next input, encoding each picture   *)
(* once more pushes it out (src/src/app/SenderApp.cpp:1299, tailPending).  *)
THEOREM TailAlwaysPushes ==
  ASSUME Lag <= 1
  PROVE  Spec => []TailPushes
  <1>1. Spec => []TypeInv
    BY TypeInit, TypeNext, PTL DEF Spec
  <1>2. TypeInv /\ TailInv /\ [Next]_vars => TailInv'
    BY TailNext
  <1>3. Spec => []TailInv
    BY <1>1, <1>2, TailInit, PTL DEF Spec
  <1> QED BY <1>1, <1>3, TailMeans, PTL
=============================================================================
