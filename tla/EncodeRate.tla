------------------------------ MODULE EncodeRate ------------------------------
(***************************************************************************)
(* The two rates of a running session: the bitrate that a Dynamic session  *)
(* steps down under backpressure and back up when the link is healthy      *)
(* (EncodeProfile.h), and the frame-rate limit computed from the receiver's *)
(* envelope, the encoder's raster and the head's refresh rate              *)
(* (Protocol.cpp, StreamFpsLimit).  Three threads meet here.  The capture  *)
(* loop adjusts both rates; the reader answers a hello by storing its      *)
(* envelope and, if the size changed, by building the pipeline again; the  *)
(* tray bumps a generation when Windows reports a display change.  The     *)
(* loop takes the pipeline mutex to capture and encode, but adjusts the    *)
(* bitrate and looks at the generations outside it: peak and mean are      *)
(* written, read and told to the encoder in accesses of their own, with    *)
(* nothing that keeps the two together.                                    *)
(*                                                                         *)
(* Bitrates are in bits per second and every product of the code is below  *)
(* 2^32 (at most 50'000'000 * 60); times are abstracted to whether the     *)
(* last drop and the last step are kDynamicHealthyMs ago.                  *)
(***************************************************************************)
EXTENDS Integers, FiniteSetsExt

CONSTANTS
    Prefs,          \* the profiles a session may have: [usb, dynamic, preset]
    Hellos,         \* the hellos the receiver may send: [size, display, caps]
    Refreshes,      \* the refresh rates the head may have
    Budgets         \* bounds: [drops, others], how many frames may be dropped
                    \* and how many later hellos, mode changes and rebuilds by
                    \* the capture loop there may be, together

Presets == {"speed", "balanced", "quality"}
Cap == [h264 : BOOLEAN, maxWidth : Nat, maxHeight : Nat, rate : Nat, pps : Nat]
Raster == [w : Nat, h : Nat]
Hello == [size : Raster, display : Nat, caps : SUBSET Cap]

ASSUME PrefsAssumption == Prefs \subseteq [usb : BOOLEAN, dynamic : BOOLEAN, preset : Presets]
ASSUME HellosAssumption == Hellos \subseteq Hello
ASSUME RefreshAssumption == Refreshes \subseteq Nat \ {0}
ASSUME BoundsAssumption == Budgets \subseteq [drops : Nat, others : Nat]

VARIABLES
    pref,        \* the session's profile
    knobs,       \* sessionEncode: [peak, mean]
    before,      \* StepDynamicPeak's own: the peak before a step, until the mean follows
    rested,      \* the last drop and the last step are both long enough ago
    told,        \* the rates the encoder was given last: [peak, mean]
    configured,  \* the encoder is bound
    raster,      \* the encoder's size
    loop,        \* where the capture loop is
    fps,         \* the limit in use and what it was computed from
    seen,        \* the generations the loop has followed: [pipe, disp]
    reader,      \* where the reader is: [at, hello, args]
    rateHello,   \* the hello whose envelope counts
    gen,         \* the generations: [hello, pipe, disp]
    hz,          \* the head's refresh rate
    unreported,  \* Windows has changed the mode and not yet told the tray
    over,        \* the session has ended
    raced,       \* the knobs were written while a rebuild read and told them
    was,         \* the peak when the encoder last ran at the session's rates, or
                 \* when the last rebuild since began to configure it
    left         \* how many of the events that Budgets bounds may still happen

rates == <<knobs, before, rested, told, configured, raced, was>>
pace == <<fps, seen>>
peer == <<reader, rateHello>>
vars == <<pref, rates, raster, loop, pace, peer, gen, hz, unreported, over, left>>

-----------------------------------------------------------------------------
(* The profile and its steps. *)

EncFps == 60
Mbps == 1000000

\* p * pct / 100 in 64 bits, without the product TLC could not hold.
Percent(p, pct) == (p \div 100) * pct + ((p % 100) * pct) \div 100

Smaller(a, b) == IF a <= b THEN a ELSE b
Larger(a, b) == IF a <= b THEN b ELSE a

MeanPct == 60

Ceiling(p) == IF p.usb THEN 50 * Mbps ELSE 25 * Mbps
Floor(p) == IF p.usb THEN 15 * Mbps ELSE 6 * Mbps

\* The peak of a preset's row; a Dynamic session starts at the ceiling.
RowPeak(p) ==
    CASE p.preset = "speed" -> Ceiling(p)
      [] p.usb /\ p.preset # "speed" -> 35 * Mbps
      [] OTHER -> 18 * Mbps

AtPeak(p) == [peak |-> p, mean |-> Percent(p, MeanPct)]

ResolveEncodeKnobs(p) == AtPeak(IF p.dynamic THEN Ceiling(p) ELSE RowPeak(p))

\* A step of 15% or one megabit down, the larger of the two, to the floor.
StepDown(peak, p) ==
    LET cut == Percent(peak, 85)
        next == IF peak - cut < Mbps /\ peak > Floor(p) THEN peak - Mbps ELSE cut
    IN  Larger(next, Floor(p))

(* Variant: the step is not held at the ceiling. *)
StepUpUnclamped(peak, p) ==
    LET more == Percent(peak, 110)
    IN  IF more - peak < Mbps THEN peak + Mbps ELSE more

(* Variant: a step that would pass the ceiling is not made. *)
StepUpRefused(peak, p) ==
    LET more == Percent(peak, 110)
    IN  IF more > Ceiling(p) THEN peak ELSE more

\* A step of 10% or one megabit up, the larger of the two, to the ceiling.
StepUp(peak, p) ==
    LET more == Percent(peak, 110)
        next == IF more - peak < Mbps /\ peak < Ceiling(p) THEN peak + Mbps ELSE more
    IN  Smaller(next, Ceiling(p))

-----------------------------------------------------------------------------
(* The frame-rate limit. *)

Unlimited == 1000000

\* The rate an envelope allows at this raster.
RateOf(e, r) ==
    LET own == IF e.rate = 0 THEN Unlimited ELSE e.rate
    IN  IF e.pps # 0 /\ r.w * r.h # 0 THEN Smaller(own, e.pps \div (r.w * r.h)) ELSE own

FitsIn(e, r) ==
    /\ e.maxWidth = 0 \/ r.w <= e.maxWidth
    /\ e.maxHeight = 0 \/ r.h <= e.maxHeight

\* The most generous envelope that fits, or of all if none does; at least 1.
StreamFpsLimit(hello, r) ==
    LET mine == {e \in hello.caps : e.h264}
        fit == {e \in mine : FitsIn(e, r)}
        caps == IF mine = {} THEN Unlimited
                ELSE Max({RateOf(e, r) : e \in IF fit # {} THEN fit ELSE mine})
        display == IF hello.display = 0 THEN 60 ELSE hello.display
    IN  Larger(Smaller(display, caps), 1)

\* What the pacer uses: never above the encoder's rate or the head's refresh.
FpsLimit(hello, r, refresh) ==
    Larger(Smaller(Smaller(StreamFpsLimit(hello, r), EncFps), refresh), 1)

-----------------------------------------------------------------------------
NoRaster == [w |-> 0, h |-> 0]
NoHello == [size |-> NoRaster, display |-> 0, caps |-> {}]
Idle == [at |-> "read", hello |-> NoHello, args |-> [peak |-> 0, mean |-> 0]]

Init ==
    /\ pref \in Prefs
    /\ knobs = ResolveEncodeKnobs(pref)
    /\ rested = TRUE
    /\ told = knobs
    /\ configured = TRUE
    /\ rateHello \in Hellos
    /\ raster = rateHello.size
    /\ loop = "gens"
    /\ hz \in Refreshes
    /\ gen = [hello |-> 1, pipe |-> 1, disp |-> 0]
    /\ fps = [limit |-> 60, gen |-> 0, raster |-> NoRaster, hz |-> hz, changed |-> FALSE]
    /\ seen = [pipe |-> 1, disp |-> 0]
    /\ reader = Idle
    /\ unreported = FALSE
    /\ over = FALSE
    /\ raced = FALSE
    /\ before = 0
    /\ was = knobs.peak
    /\ left \in Budgets

-----------------------------------------------------------------------------
(* The capture loop: the frame-rate limit. *)

At(l) == loop = l /\ ~over

\* One of the events that Budgets bounds.
Happens(kind) ==
    /\ left[kind] > 0
    /\ left' = [left EXCEPT ![kind] = @ - 1]

\* A new generation is noted first, what it stands for is read after.
SeeGens ==
    /\ At("gens")
    /\ IF gen.pipe # seen.pipe \/ gen.disp # seen.disp
         THEN /\ loop' = "hz"
              /\ seen' = [pipe |-> gen.pipe, disp |-> gen.disp]
         ELSE /\ loop' = "limit"
              /\ UNCHANGED seen
    /\ UNCHANGED <<pref, rates, raster, fps, peer, gen, hz, unreported, over, left>>

ReadHz ==
    /\ At("hz")
    /\ loop' = "limit"
    /\ fps' = [fps EXCEPT !.changed = hz # fps.hz, !.hz = hz]
    /\ UNCHANGED <<pref, rates, raster, seen, peer, gen, hz, unreported, over, left>>

(* Variant: the encoder's raster is not looked at. *)
StaleWithoutRaster == fps.changed \/ gen.hello # fps.gen

\* The limit in use was computed from something that has changed since.
Stale == fps.changed \/ gen.hello # fps.gen \/ raster # fps.raster

NoteHello ==
    /\ At("limit")
    /\ IF Stale
         THEN /\ loop' = "copy"
              /\ fps' = [fps EXCEPT !.gen = gen.hello, !.raster = raster, !.changed = FALSE]
         ELSE /\ loop' = "work"
              /\ UNCHANGED fps
    /\ UNCHANGED <<pref, rates, raster, seen, peer, gen, hz, unreported, over, left>>

CopyHello ==
    /\ At("copy")
    /\ loop' = "work"
    /\ fps' = [fps EXCEPT !.limit = FpsLimit(rateHello, fps.raster, fps.hz)]
    /\ UNCHANGED <<pref, rates, raster, seen, peer, gen, hz, unreported, over, left>>

-----------------------------------------------------------------------------
(* The capture loop: capture and encode, under the pipeline mutex. *)

\* A rebuild begins to configure the encoder ... has told it the rates.
Retuning == {"bind", "fetch", "fetchMean", "fetchPeak", "tell", "set"}

ReaderBuilds == reader.at \in {"head"} \cup Retuning

Work == At("work") /\ ~ReaderBuilds

Capture ==
    /\ Work
    /\ loop' = "healthy"
    /\ UNCHANGED <<pref, rates, raster, pace, peer, gen, hz, unreported, over, left>>

\* The loop configures an encoder, alone with the rates: the mean that
\* Configure seeds from the peak is the session's.
Retuned ==
    /\ told' = AtPeak(knobs.peak)
    /\ configured' = TRUE
    /\ raced' = FALSE
    /\ was' = knobs.peak

\* Capture access was lost: the loop builds the pipeline itself.
RebuildHere ==
    /\ Work
    /\ Happens("others")
    /\ gen' = [gen EXCEPT !.pipe = @ + 1]
    /\ \/ Retuned /\ loop' = "gens" /\ UNCHANGED over
       \/ over' = TRUE /\ UNCHANGED <<loop, told, configured, raced, was>>
    /\ UNCHANGED <<pref, knobs, before, rested, raster, pace, peer, hz, unreported>>

\* The asynchronous encoder stalled: Configure alone.  Without an encoder nothing is sent.
FallBack ==
    /\ Work
    /\ Happens("others")
    /\ loop' = "healthy"
    /\ \/ Retuned
       \/ configured' = FALSE /\ UNCHANGED <<told, raced, was>>
    /\ UNCHANGED <<pref, knobs, before, rested, raster, pace, peer, gen, hz, unreported, over>>

-----------------------------------------------------------------------------
(* The capture loop: the bitrate, outside the mutex. *)

\* A rebuild has read a rate and not yet told both.
Telling == {"fetchMean", "fetchPeak", "tell", "set"}
Overlap == raced \/ reader.at \in Telling

\* A step writes the peak first.
StepTo(peak, next) ==
    /\ knobs' = [knobs EXCEPT !.peak = peak]
    /\ before' = knobs.peak
    /\ loop' = next
    /\ raced' = Overlap

MayClimb == pref.dynamic /\ knobs.peak < Ceiling(pref) /\ rested

Climb ==
    /\ At("healthy")
    /\ MayClimb
    /\ LET up == StepUp(knobs.peak, pref)
       IN  IF up # knobs.peak
             THEN StepTo(up, "meanUp") /\ UNCHANGED rested
             ELSE loop' = "send" /\ UNCHANGED <<knobs, before, rested, raced>>
    /\ UNCHANGED <<pref, told, configured, was, raster, pace, peer, gen, hz, unreported, over,
                   left>>

StayThere ==
    /\ At("healthy")
    /\ ~MayClimb
    /\ loop' = "send"
    /\ UNCHANGED <<pref, rates, raster, pace, peer, gen, hz, unreported, over, left>>

\* The mean follows the peak.
WriteMean ==
    /\ At("meanUp") \/ At("meanDown")
    /\ knobs' = AtPeak(knobs.peak)
    /\ before' = 0
    /\ raced' = Overlap
    /\ loop' = IF loop = "meanUp" THEN "tellUp" ELSE "tellDown"
    /\ UNCHANGED <<pref, rested, told, configured, was, raster, pace, peer, gen, hz, unreported,
                   over, left>>

AfterStep == IF loop \in {"tellUp", "setUp"} THEN "send" ELSE "gens"

\* UpdateBitrate reaches a configured encoder only, with the mean first.
TellMean ==
    /\ At("tellUp") \/ At("tellDown")
    /\ IF configured
         THEN /\ told' = [told EXCEPT !.mean = knobs.mean]
              /\ loop' = IF loop = "tellUp" THEN "setUp" ELSE "setDown"
              /\ UNCHANGED rested
         ELSE /\ loop' = AfterStep
              /\ rested' = FALSE
              /\ UNCHANGED told
    /\ UNCHANGED <<pref, knobs, before, configured, raced, was, raster, pace, peer, gen, hz,
                   unreported, over, left>>

\* A rebuild may have taken the encoder in between, or be about to tell it
\* older rates; otherwise the encoder now runs at the session's.
TellPeak ==
    /\ At("setUp") \/ At("setDown")
    /\ told' = IF configured THEN [told EXCEPT !.peak = knobs.peak] ELSE told
    /\ rested' = FALSE
    /\ loop' = AfterStep
    /\ raced' = (raced /\ (told' # knobs \/ reader.at \in Telling))
    /\ was' = IF told' = knobs /\ reader.at \notin Retuning THEN knobs.peak ELSE was
    /\ UNCHANGED <<pref, knobs, before, configured, raster, pace, peer, gen, hz, unreported, over,
                   left>>

\* What was encoded, if anything, is on its way.
Send ==
    /\ At("send")
    /\ loop' = "gens"
    /\ UNCHANGED <<pref, rates, raster, pace, peer, gen, hz, unreported, over, left>>

\* The socket takes no data in time: the frame is dropped, the peak stepped down.
Drop ==
    /\ At("send")
    /\ configured
    /\ Happens("drops")
    /\ rested' = FALSE
    /\ LET down == StepDown(knobs.peak, pref)
       IN  IF pref.dynamic /\ down # knobs.peak
             THEN StepTo(down, "meanDown")
             ELSE loop' = "gens" /\ UNCHANGED <<knobs, before, raced>>
    /\ UNCHANGED <<pref, told, configured, was, raster, pace, peer, gen, hz, unreported, over>>

\* kDynamicHealthyMs pass without a drop or a step.
Rest ==
    /\ ~rested
    /\ ~over
    /\ rested' = TRUE
    /\ UNCHANGED <<pref, knobs, before, told, configured, raced, was, raster, loop, pace, peer, gen,
                   hz, unreported, over, left>>

-----------------------------------------------------------------------------
(* The reader: a hello in the session, and the rebuild it may ask for. *)

ReaderAt(l) == reader.at = l /\ ~over

StoreHello ==
    /\ ReaderAt("read")
    /\ Happens("others")
    /\ \E h \in Hellos :
          /\ rateHello' = h
          /\ reader' = [reader EXCEPT !.at = "bump", !.hello = h]
    /\ UNCHANGED <<pref, rates, raster, loop, pace, gen, hz, unreported, over>>

BumpHello ==
    /\ ReaderAt("bump")
    /\ gen' = [gen EXCEPT !.hello = @ + 1]
    /\ reader' = [reader EXCEPT !.at = "lock"]
    /\ UNCHANGED <<pref, rates, raster, loop, pace, rateHello, hz, unreported, over, left>>

\* With the mutex: a hello of the size in use changes nothing else.
TakeHello ==
    /\ ReaderAt("lock")
    /\ IF reader.hello.size = raster
         THEN /\ reader' = Idle
              /\ UNCHANGED gen
         ELSE /\ reader' = [reader EXCEPT !.at = "head"]
              /\ gen' = [gen EXCEPT !.pipe = @ + 1]
    /\ UNCHANGED <<pref, rates, raster, loop, pace, rateHello, hz, unreported, over, left>>

\* The head is prepared in a mode of the new size, or the session ends;
\* Configure begins with the peak of this moment.  The rates the rebuild
\* starts from are those before a step that is half written.
PrepareHead ==
    /\ ReaderAt("head")
    /\ \/ /\ \E r \in Refreshes : hz' = r /\ unreported' = (unreported \/ r # hz)
          /\ reader' = [reader EXCEPT !.at = "bind", !.args = AtPeak(knobs.peak)]
          /\ configured' = FALSE
          /\ was' = IF loop \in {"meanUp", "meanDown"} THEN before ELSE knobs.peak
          /\ UNCHANGED over
       \/ /\ over' = TRUE
          /\ UNCHANGED <<hz, unreported, reader, configured, was>>
    /\ UNCHANGED <<pref, knobs, before, rested, told, raced, raster, loop, pace, rateHello, gen,
                   left>>

Bind ==
    /\ ReaderAt("bind")
    /\ \/ /\ told' = reader.args
          /\ configured' = TRUE
          /\ raster' = reader.hello.size
          /\ reader' = [Idle EXCEPT !.at = "fetch"]
          /\ UNCHANGED over
       \/ /\ over' = TRUE
          /\ UNCHANGED <<told, configured, raster, reader>>
    /\ UNCHANGED <<pref, knobs, before, rested, raced, was, loop, pace, rateHello, gen, hz,
                   unreported, left>>

\* The two arguments of UpdateBitrate are read in either order.
Fetch(at, rate, next) ==
    /\ ReaderAt(at)
    /\ reader' = [reader EXCEPT !.at = next, !.args = [@ EXCEPT ![rate] = knobs[rate]]]
    /\ raced' = (raced /\ at # "fetch")
    /\ UNCHANGED <<pref, knobs, before, rested, told, configured, was, raster, loop, pace,
                   rateHello, gen, hz, unreported, over, left>>

FetchPeak == Fetch("fetch", "peak", "fetchMean") \/ Fetch("fetchPeak", "peak", "tell")

FetchMean == Fetch("fetch", "mean", "fetchPeak") \/ Fetch("fetchMean", "mean", "tell")

\* Then the call is made, with the mean first.
Tell(at, rate, next) ==
    /\ ReaderAt(at)
    /\ told' = [told EXCEPT ![rate] = reader.args[rate]]
    /\ reader' = next
    /\ UNCHANGED <<pref, knobs, before, rested, configured, raced, was, raster, loop, pace,
                   rateHello, gen, hz, unreported, over, left>>

(* Variant: UpdateBitrate is left out after Configure, which took the peak  *)
(* of its own moment.                                                      *)
TellNothing ==
    /\ ReaderAt("tell")
    /\ reader' = Idle
    /\ UNCHANGED <<pref, rates, raster, loop, pace, rateHello, gen, hz, unreported, over, left>>

TellRates ==
    \/ Tell("tell", "mean", [reader EXCEPT !.at = "set"])
    \/ Tell("set", "peak", Idle)

-----------------------------------------------------------------------------
(* Windows and the tray. *)

ChangeMode ==
    /\ ~over
    /\ Happens("others")
    /\ \E r \in Refreshes \ {hz} : hz' = r
    /\ unreported' = TRUE
    /\ UNCHANGED <<pref, rates, raster, loop, pace, peer, gen, over>>

\* WM_DISPLAYCHANGE reaches the tray.
ReportMode ==
    /\ ~over
    /\ unreported
    /\ unreported' = FALSE
    /\ gen' = [gen EXCEPT !.disp = @ + 1]
    /\ UNCHANGED <<pref, rates, raster, loop, pace, peer, hz, over, left>>

-----------------------------------------------------------------------------
LoopStep ==
    \/ SeeGens \/ ReadHz \/ NoteHello \/ CopyHello
    \/ Capture \/ RebuildHere \/ FallBack
    \/ Climb \/ StayThere \/ WriteMean \/ TellMean \/ TellPeak \/ Send \/ Drop

Rebuild == BumpHello \/ TakeHello \/ PrepareHead \/ Bind \/ FetchPeak \/ FetchMean \/ TellRates

Next == LoopStep \/ Rest \/ StoreHello \/ Rebuild \/ ChangeMode \/ ReportMode

Spec == Init /\ [][Next]_vars

\* The loop and the reader are threads that never wait for each other for
\* good; quiet stretches pass; Windows reports what it changed.
LiveSpec ==
    /\ Spec
    /\ WF_vars(LoopStep)
    /\ WF_vars(Rebuild)
    /\ WF_vars(Rest)
    /\ WF_vars(ReportMode)

-----------------------------------------------------------------------------
(* Properties. *)

Bps == [peak : Nat, mean : Nat]

Halfway == {"meanUp", "meanDown"}
Stepping == Halfway \cup {"tellUp", "tellDown", "setUp", "setDown"}
Places == {"gens", "hz", "limit", "copy", "work", "healthy", "send"} \cup Stepping
ReaderPlaces == {"read", "bump", "lock", "head"} \cup Retuning

\* The profile, the rates and the threads' places have their types.
RatesTyped ==
    /\ pref \in Prefs
    /\ knobs \in Bps
    /\ told \in Bps
    /\ rested \in BOOLEAN
    /\ configured \in BOOLEAN
    /\ raced \in BOOLEAN
    /\ over \in BOOLEAN
    /\ loop \in Places
    /\ reader \in [at : ReaderPlaces, hello : Hello, args : Bps]
    /\ rateHello \in Hello
    /\ before \in Nat
    /\ was \in Nat
    /\ left \in [drops : Nat, others : Nat]

\* However often backpressure and quiet stretches alternate, the peak stays
\* between the transport's floor and ceiling and the mean is never above the
\* peak, in the session's knobs, half written or not, and in an encoder that
\* a rebuild may have told the mean of one step with the peak of another; a
\* Fixed session keeps its row (EncodeProfile.h, StepDynamicPeak).
InRange(k, p) ==
    /\ k.peak \in Floor(p) .. Ceiling(p)
    /\ k.mean \in AtPeak(Floor(p)).mean .. k.peak
    /\ p.dynamic \/ k = AtPeak(RowPeak(p))

PeakInRange ==
    /\ InRange(knobs, pref)
    /\ configured => InRange(told, pref)
    /\ loop \notin Halfway => knobs = AtPeak(knobs.peak)

\* Rates at most one step from a peak.
Near(peak, p) == StepDown(peak, p) .. StepUp(peak, p)
NearMean(peak, p) == AtPeak(StepDown(peak, p)).mean .. AtPeak(StepUp(peak, p)).mean

\* Between steps and rebuilds the encoder runs at the session's rates,
\* although the loop steps them outside the mutex the rebuild holds.  Only a
\* step that fell between a rebuild's reading the rates and telling them
\* leaves it at others, and those are at most one step from the rate the
\* rebuild began at, as the session's own are: the loop cannot pass a second
\* time before the rebuild ends, and the next step tells both rates anew
\* (SenderApp.cpp, buildPipeline and the send section).
EncoderFollows ==
    \/ over \/ ~configured
    \/ loop \in Stepping
    \/ reader.at \in {"fetch"} \cup Telling
    \/ told = knobs
    \/ /\ raced
       /\ {knobs.peak, told.peak} \subseteq Near(was, pref)
       /\ told.mean \in NearMean(was, pref)

\* Once drops stop, a Dynamic session climbs back to its ceiling for good.
ClimbsBack == <>[](over \/ (pref.dynamic => knobs.peak = Ceiling(pref)))

\* Once the receiver, the desktop and the encoder settle, frames are paced by
\* the envelope of the latest hello at the encoder's raster and the head's
\* refresh rate, in whatever order the three threads came to change them.
FpsFollows == <>[](over \/ fps.limit = FpsLimit(rateHello, raster, hz))
=============================================================================
