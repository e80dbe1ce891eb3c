-------------------------- MODULE EncodeRateProofs --------------------------
(***************************************************************************)
(* Proofs about EncodeRate for any profiles, hellos and refresh rates and  *)
(* any number of events: the bitrate never leaves its range, and only a    *)
(* step inside a rebuild's last window can leave the encoder at other      *)
(* rates than the session's, and then at most a step away.  The frame-rate *)
(* limit is left to the runs: it is a maximum over a set, which has one    *)
(* only by induction.                                                      *)
(***************************************************************************)
EXTENDS EncodeRate, TLAPS

(* Rates at most two steps from a peak.                                    *)
Near2(peak, p) == StepDown(StepDown(peak, p), p) .. StepUp(StepUp(peak, p), p)

Peaks(p) == Floor(p) .. Ceiling(p)

-----------------------------------------------------------------------------
(* The invariant.                                                          *)

(* The mean belongs to the peak, or to the peak before the step that is    *)
(* half written.                                                           *)
Written ==
  /\ knobs.mean = Percent(IF loop \in Halfway THEN before ELSE knobs.peak, 60)
  /\ loop \in Halfway => before \in Peaks(pref)
  /\ loop = "meanUp" => knobs.peak = StepUp(before, pref)
  /\ loop = "meanDown" => knobs.peak = StepDown(before, pref)

RateInv ==
  /\ RatesTyped
  /\ knobs.peak \in Peaks(pref)
  /\ was \in Peaks(pref)
  /\ Written

(* A Fixed session takes no step.                                          *)
Kept ==
  ~pref.dynamic =>
    /\ knobs = AtPeak(RowPeak(pref))
    /\ told = knobs
    /\ loop \notin Stepping
    /\ reader.at \in {"bind", "fetchMean", "tell", "set"} => reader.args.peak = knobs.peak
    /\ reader.at \in {"bind", "fetchPeak", "tell"} => reader.args.mean = knobs.mean

(* While no rebuild is configuring it, a configured encoder is at most a   *)
(* step from `was', and so are the session's rates between steps.          *)
Outside ==
  reader.at \notin Retuning /\ configured =>
    /\ told.peak \in Near(was, pref)
    /\ \/ told.mean \in NearMean(was, pref)
       \/ loop \in {"setUp", "setDown"} /\ told.mean = knobs.mean
    /\ loop \in Halfway => before \in Near(was, pref)
    /\ loop \in {"tellUp", "tellDown"} => knobs.peak \in Near2(was, pref)
    /\ loop \in {"setUp", "setDown"} => \/ knobs.peak \in Near(was, pref)
                                       \/ /\ knobs.peak \in Near2(was, pref)
                                          /\ told.mean = knobs.mean
    /\ loop \notin Stepping => knobs.peak \in Near(was, pref)

(* While a rebuild configures the encoder the loop can finish the pass it  *)
(* is in, at most one step up and then one down from where it began.       *)
Inside ==
  reader.at \in Retuning =>
    /\ loop = "healthy" => knobs.peak = was
    /\ loop = "meanUp" => before = was
    /\ loop \in {"tellUp", "setUp", "send"} => knobs.peak \in {was, StepUp(was, pref)}
    /\ loop = "meanDown" => before \in {was, StepUp(was, pref)}
    /\ knobs.peak \in Near(was, pref)
    /\ knobs.mean \in NearMean(was, pref)

(* What the rebuild has read and told is no further away.                  *)
Carried ==
  /\ reader.at = "bind" => ~configured
  /\ reader.at \in Retuning \ {"bind"} => /\ told.peak \in Near(was, pref)
                                         /\ told.mean \in NearMean(was, pref)
  /\ reader.at \in {"bind", "fetchMean", "tell", "set"} => reader.args.peak \in Near(was, pref)
  /\ reader.at \in {"bind", "fetchPeak", "tell"} => reader.args.mean \in NearMean(was, pref)

(* Without a step in the rebuild's last window, what it has read is what   *)
(* the session has, and the encoder has it after each step and rebuild.    *)
Current ==
  ~raced =>
    /\ reader.at \notin Retuning /\ configured /\ loop \notin Halfway \cup {"tellUp", "tellDown"}
         => told.mean = knobs.mean
    /\ reader.at \notin Retuning /\ configured /\ loop \notin Stepping => told.peak = knobs.peak
    /\ reader.at \in {"fetchMean", "tell", "set"} => reader.args.peak = knobs.peak
    /\ reader.at \in {"fetchPeak", "tell"} => reader.args.mean = knobs.mean
    /\ reader.at = "set" => told.mean = knobs.mean

Inv == RateInv /\ Kept /\ Outside /\ Inside /\ Carried /\ Current

-----------------------------------------------------------------------------
(* What a step of the bitrate computes.                                    *)

(* A hundredth of a natural number, rounded down, is one.                  *)
LEMMA HundredthType ==
  ASSUME NEW x \in Nat
  PROVE  x \div 100 \in Nat /\ x % 100 \in Nat
  OBVIOUS

(* A share of a bitrate is a natural number.                               *)
LEMMA PercentType ==
  ASSUME NEW p \in Nat, NEW pct \in Nat
  PROVE  Percent(p, pct) \in Nat
  <1>1. (p \div 100) * pct \in Nat /\ (p % 100) * pct \in Nat
    BY HundredthType
  <1>2. ((p % 100) * pct) \div 100 \in Nat
    BY <1>1, HundredthType
  <1> QED BY <1>1, <1>2 DEF Percent

(* Rates derived from a peak are rates.                                    *)
LEMMA AtPeakType ==
  ASSUME NEW p \in Nat
  PROVE  /\ AtPeak(p) \in Bps /\ AtPeak(p).peak = p /\ AtPeak(p).mean = Percent(p, 60)
         /\ AtPeak(AtPeak(p).peak) = AtPeak(p)
  BY PercentType DEF AtPeak, Bps, MeanPct

(* The share a mean takes is rounded down by less than one.                *)
LEMMA Percent60 ==
  ASSUME NEW p \in Nat
  PROVE  /\ Percent(p, 60) \in Nat
         /\ 100 * Percent(p, 60) <= 60 * p /\ 60 * p < 100 * Percent(p, 60) + 100
  <1>1. Percent(p, 60) \in Nat
    BY PercentType
  <1>2. 100 * Percent(p, 60) <= 60 * p /\ 60 * p < 100 * Percent(p, 60) + 100
    BY Z3 DEF Percent
  <1> QED BY <1>1, <1>2

(* The share a step down takes is rounded down by less than one.           *)
LEMMA Percent85 ==
  ASSUME NEW p \in Nat
  PROVE  /\ Percent(p, 85) \in Nat
         /\ 100 * Percent(p, 85) <= 85 * p /\ 85 * p < 100 * Percent(p, 85) + 100
  <1>1. Percent(p, 85) \in Nat
    BY PercentType
  <1>2. 100 * Percent(p, 85) <= 85 * p /\ 85 * p < 100 * Percent(p, 85) + 100
    BY Z3 DEF Percent
  <1> QED BY <1>1, <1>2

(* The share a step up takes is rounded down by less than one.             *)
LEMMA Percent110 ==
  ASSUME NEW p \in Nat
  PROVE  /\ Percent(p, 110) \in Nat
         /\ 100 * Percent(p, 110) <= 110 * p /\ 110 * p < 100 * Percent(p, 110) + 100
  <1>1. Percent(p, 110) \in Nat
    BY PercentType
  <1>2. 100 * Percent(p, 110) <= 110 * p /\ 110 * p < 100 * Percent(p, 110) + 100
    BY Z3 DEF Percent
  <1> QED BY <1>1, <1>2

(* The floor lies below the ceiling and every row between them.            *)
LEMMA RowsBetween ==
  ASSUME NEW p \in Prefs
  PROVE  /\ Floor(p) \in Nat /\ Ceiling(p) \in Nat
         /\ Floor(p) <= Ceiling(p)
         /\ RowPeak(p) \in Peaks(p)
  BY PrefsAssumption DEF Peaks, Floor, Ceiling, RowPeak, Mbps, Presets

(* No transport's floor is below six megabits.                             *)
LEMMA FloorHigh ==
  ASSUME NEW p \in Prefs
  PROVE  Floor(p) >= 6 * Mbps
  BY PrefsAssumption DEF Floor, Mbps

(* The mean grows with the peak.                                           *)
LEMMA MeanMonotone ==
  ASSUME NEW a \in Nat, NEW b \in Nat, a <= b
  PROVE  Percent(a, 60) <= Percent(b, 60)
  <1>1. /\ Percent(a, 60) \in Nat
        /\ 100 * Percent(a, 60) <= 60 * a
    BY Percent60
  <1>2. /\ Percent(b, 60) \in Nat
        /\ 60 * b < 100 * Percent(b, 60) + 100
    BY Percent60
  <1> QED BY <1>1, <1>2

(* A step from within the range stays in it and goes its way.              *)
LEMMA StepsInRange ==
  ASSUME NEW p \in Prefs, NEW k \in Peaks(p)
  PROVE  /\ StepDown(k, p) \in Peaks(p) /\ StepDown(k, p) <= k
         /\ StepUp(k, p) \in Peaks(p) /\ k <= StepUp(k, p)
  <1>1. /\ k \in Nat /\ Floor(p) \in Nat /\ Ceiling(p) \in Nat /\ Floor(p) <= Ceiling(p)
        /\ Floor(p) <= k /\ k <= Ceiling(p)
    BY RowsBetween DEF Peaks
  <1>2. Percent(k, 85) \in Nat /\ Percent(k, 85) <= k
    BY <1>1, Percent85
  <1>3. Percent(k, 110) \in Nat /\ Percent(k, 110) >= k
    BY <1>1, Percent110
  <1>4. StepDown(k, p) \in Peaks(p) /\ StepDown(k, p) <= k
    BY <1>1, <1>2 DEF StepDown, Larger, Mbps, Peaks
  <1>5. StepUp(k, p) \in Peaks(p) /\ k <= StepUp(k, p)
    BY <1>1, <1>3 DEF StepUp, Smaller, Mbps, Peaks
  <1> QED BY <1>4, <1>5

(* A step down or up is the further of two, held at the range's end.       *)
LEMMA StepIs ==
  ASSUME NEW p \in Prefs, NEW k \in Peaks(p)
  PROVE  /\ StepDown(k, p) = Larger(Smaller(Percent(k, 85), k - Mbps), Floor(p))
         /\ StepUp(k, p) = Smaller(Larger(Percent(k, 110), k + Mbps), Ceiling(p))
  <1>1. /\ k \in Nat /\ Floor(p) \in Nat /\ Ceiling(p) \in Nat
        /\ Floor(p) <= k /\ k <= Ceiling(p)
    BY RowsBetween DEF Peaks
  <1>2. Mbps \in Nat
    BY DEF Mbps
  <1>3. Percent(k, 85) \in Nat /\ Percent(k, 85) <= k
    BY <1>1, Percent85
  <1>4. Percent(k, 110) \in Nat /\ Percent(k, 110) >= k
    BY <1>1, Percent110
  <1>5. StepDown(k, p) = Larger(Smaller(Percent(k, 85), k - Mbps), Floor(p))
    BY <1>1, <1>2, <1>3 DEF StepDown, Larger, Smaller
  <1>6. StepUp(k, p) = Smaller(Larger(Percent(k, 110), k + Mbps), Ceiling(p))
    BY <1>1, <1>2, <1>4 DEF StepUp, Larger, Smaller
  <1> QED BY <1>5, <1>6

(* A step from a higher peak leads no lower.                               *)
LEMMA StepsMonotone ==
  ASSUME NEW p \in Prefs, NEW a \in Peaks(p), NEW b \in Peaks(p), a <= b
  PROVE  /\ StepDown(a, p) <= StepDown(b, p)
         /\ StepUp(a, p) <= StepUp(b, p)
  <1>1. /\ a \in Nat /\ b \in Nat /\ Floor(p) \in Nat /\ Ceiling(p) \in Nat
        /\ Floor(p) <= a /\ b <= Ceiling(p)
    BY RowsBetween DEF Peaks
  <1>2. Percent(a, 85) \in Nat /\ Percent(b, 85) \in Nat /\ Percent(a, 85) <= Percent(b, 85)
    <2>1. Percent(a, 85) \in Nat /\ 100 * Percent(a, 85) <= 85 * a
      BY <1>1, Percent85
    <2>2. Percent(b, 85) \in Nat /\ 85 * b < 100 * Percent(b, 85) + 100
      BY <1>1, Percent85
    <2> QED BY <1>1, <2>1, <2>2
  <1>3. Percent(a, 110) \in Nat /\ Percent(b, 110) \in Nat /\ Percent(a, 110) <= Percent(b, 110)
    <2>1. Percent(a, 110) \in Nat /\ 100 * Percent(a, 110) <= 110 * a
      BY <1>1, Percent110
    <2>2. Percent(b, 110) \in Nat /\ 110 * b < 100 * Percent(b, 110) + 100
      BY <1>1, Percent110
    <2> QED BY <1>1, <2>1, <2>2
  <1>4. Mbps \in Nat
    BY DEF Mbps
  <1>5. StepDown(a, p) <= StepDown(b, p)
    BY <1>1, <1>2, <1>4, StepIs DEF Larger, Smaller
  <1>6. StepUp(a, p) <= StepUp(b, p)
    BY <1>1, <1>3, <1>4, StepIs DEF Larger, Smaller
  <1> QED BY <1>5, <1>6

(* A step up multiplies the peak by at most seven sixths, one down by at   *)
(* least five sixths: no peak is below six megabits.                       *)
LEMMA StepSizes ==
  ASSUME NEW p \in Prefs, NEW k \in Peaks(p)
  PROVE  6 * StepUp(k, p) <= 7 * k /\ 5 * k <= 6 * StepDown(k, p)
  <1>1. /\ k \in Nat /\ Floor(p) \in Nat /\ Ceiling(p) \in Nat
        /\ 6 * Mbps <= k /\ Floor(p) <= k /\ k <= Ceiling(p)
    BY RowsBetween, FloorHigh DEF Peaks, Mbps
  <1>2. Percent(k, 110) \in Nat /\ 6 * Percent(k, 110) <= 7 * k
    BY <1>1, Percent110
  <1>3. Percent(k, 85) \in Nat /\ 5 * k <= 6 * Percent(k, 85)
    BY <1>1, Percent85 DEF Mbps
  <1>4. 6 * StepUp(k, p) <= 7 * k
    BY <1>1, <1>2 DEF StepUp, Smaller, Mbps
  <1>5. 5 * k <= 6 * StepDown(k, p)
    BY <1>1, <1>3 DEF StepDown, Larger, Mbps
  <1> QED BY <1>4, <1>5

(* Even two steps up, the mean is no more than the peak of a step down.    *)
LEMMA MeanBelow ==
  ASSUME NEW p \in Prefs, NEW k \in Peaks(p)
  PROVE  Percent(StepUp(StepUp(k, p), p), 60) <= StepDown(k, p)
  <1> DEFINE u == StepUp(k, p)
             uu == StepUp(u, p)
             d == StepDown(k, p)
  <1>1. u \in Peaks(p) /\ uu \in Peaks(p) /\ d \in Peaks(p)
    BY StepsInRange
  <1>2. k \in Nat /\ u \in Nat /\ uu \in Nat /\ d \in Nat
    BY <1>1, RowsBetween DEF Peaks
  <1>3. 6 * u <= 7 * k /\ 6 * uu <= 7 * u /\ 5 * k <= 6 * d
    BY <1>1, StepSizes
  <1>4. Percent(uu, 60) \in Nat /\ 100 * Percent(uu, 60) <= 60 * uu
    BY <1>2, Percent60
  <1> HIDE DEF u, uu, d
  <1>5. Percent(uu, 60) <= d
    BY <1>2, <1>3, <1>4
  <1> QED BY <1>5 DEF u, uu, d

(* What lies near a peak of the range.                                     *)
LEMMA NearFacts ==
  ASSUME NEW p \in Prefs, NEW w \in Peaks(p)
  PROVE  /\ w \in Near(w, p) /\ StepUp(w, p) \in Near(w, p) /\ StepDown(w, p) \in Near(w, p)
         /\ StepDown(StepUp(w, p), p) \in Near(w, p)
         /\ Near(w, p) \subseteq Near2(w, p)
         /\ Near2(w, p) \subseteq Peaks(p)
         /\ \A x \in Near(w, p) : /\ StepUp(x, p) \in Near2(w, p)
                                /\ StepDown(x, p) \in Near2(w, p)
                                /\ Percent(x, 60) \in NearMean(w, p)
  <1> DEFINE d == StepDown(w, p)
             u == StepUp(w, p)
             dd == StepDown(d, p)
             uu == StepUp(u, p)
             du == StepDown(u, p)
  <1>1. /\ Floor(p) \in Nat /\ Ceiling(p) \in Nat
        /\ \A x \in Peaks(p) : x \in Nat /\ Floor(p) <= x /\ x <= Ceiling(p)
    BY RowsBetween DEF Peaks
  <1>2. /\ d \in Peaks(p) /\ u \in Peaks(p) /\ d <= w /\ w <= u
        /\ dd \in Peaks(p) /\ uu \in Peaks(p) /\ du \in Peaks(p) /\ dd <= d /\ u <= uu /\ du <= u
    BY StepsInRange
  <1>3. d <= du
    BY <1>2, StepsMonotone
  <1>4. /\ Near(w, p) = d .. u /\ Near2(w, p) = dd .. uu
        /\ NearMean(w, p) = Percent(d, 60) .. Percent(u, 60)
    <2>1. AtPeak(d).mean = Percent(d, 60) /\ AtPeak(u).mean = Percent(u, 60)
      BY <1>1, <1>2, AtPeakType
    <2> QED BY <2>1 DEF Near, Near2, NearMean
  <1>5. ASSUME NEW x \in d .. u
        PROVE  /\ StepUp(x, p) \in dd .. uu /\ StepDown(x, p) \in dd .. uu
               /\ Percent(x, 60) \in Percent(d, 60) .. Percent(u, 60)
    <2>1. x \in Peaks(p) /\ d <= x /\ x <= u
      BY <1>1, <1>2 DEF Peaks
    <2>2. /\ StepUp(x, p) \in Peaks(p) /\ x <= StepUp(x, p)
          /\ StepDown(x, p) \in Peaks(p) /\ StepDown(x, p) <= x
      BY <2>1, StepsInRange
    <2>3. StepUp(x, p) <= uu /\ dd <= StepDown(x, p)
      BY <1>2, <2>1, StepsMonotone
    <2>4. Percent(d, 60) <= Percent(x, 60) /\ Percent(x, 60) <= Percent(u, 60)
      BY <1>1, <1>2, <2>1, MeanMonotone
    <2>5. Percent(d, 60) \in Nat /\ Percent(x, 60) \in Nat /\ Percent(u, 60) \in Nat
      BY <1>1, <1>2, <2>1, PercentType
    <2> HIDE DEF d, u, dd, uu, du
    <2>6. dd \in Nat /\ uu \in Nat /\ d \in Nat /\ u \in Nat /\ x \in Nat
          /\ StepUp(x, p) \in Nat /\ StepDown(x, p) \in Nat
      BY <1>1, <1>2, <2>1, <2>2
    <2>7. StepUp(x, p) \in dd .. uu /\ StepDown(x, p) \in dd .. uu
      BY <1>2, <2>1, <2>2, <2>3, <2>6
    <2> QED BY <2>4, <2>5, <2>7
  <1> HIDE DEF d, u, dd, uu, du
  <1>6. d .. u \subseteq dd .. uu /\ dd .. uu \subseteq Peaks(p)
    BY <1>1, <1>2 DEF Peaks
  <1>7. w \in d .. u /\ u \in d .. u /\ d \in d .. u /\ du \in d .. u
    BY <1>1, <1>2, <1>3
  <1>8. \A x \in d .. u : /\ StepUp(x, p) \in dd .. uu /\ StepDown(x, p) \in dd .. uu
                         /\ Percent(x, 60) \in Percent(d, 60) .. Percent(u, 60)
    BY <1>5
  <1> QED BY <1>4, <1>6, <1>7, <1>8 DEF d, u, du

(* A mean from near a peak lies below every peak near it, and no lower     *)
(* than the floor's.                                                       *)
LEMMA MeanNear ==
  ASSUME NEW p \in Prefs, NEW w \in Peaks(p), NEW y \in Near(w, p), NEW m,
         m \in NearMean(w, p) \/ \E x \in Near2(w, p) : m = Percent(x, 60)
  PROVE  y \in Peaks(p) /\ m \in AtPeak(Floor(p)).mean .. y
  <1> DEFINE d == StepDown(w, p)
             u == StepUp(w, p)
             uu == StepUp(u, p)
  <1>1. /\ Floor(p) \in Nat /\ Floor(p) \in Peaks(p)
        /\ \A x \in Peaks(p) : x \in Nat /\ Floor(p) <= x
    BY RowsBetween DEF Peaks
  <1>2. d \in Peaks(p) /\ u \in Peaks(p) /\ uu \in Peaks(p) /\ d <= w /\ w <= u /\ u <= uu
    BY StepsInRange
  <1>3. y \in Peaks(p) /\ d <= y
    BY <1>1, <1>2, NearFacts DEF Near
  <1>4. Percent(uu, 60) <= d
    BY MeanBelow
  <1>5. AtPeak(Floor(p)).mean = Percent(Floor(p), 60)
    BY <1>1, AtPeakType
  <1>6. ASSUME NEW x \in Peaks(p), x <= uu
        PROVE  /\ Percent(x, 60) \in Nat
               /\ Percent(Floor(p), 60) <= Percent(x, 60) /\ Percent(x, 60) <= y
    <2>1. Percent(Floor(p), 60) <= Percent(x, 60) /\ Percent(x, 60) <= Percent(uu, 60)
      BY <1>1, <1>2, <1>6, MeanMonotone
    <2>2. Percent(x, 60) \in Nat /\ Percent(uu, 60) \in Nat /\ d \in Nat /\ y \in Nat
      BY <1>1, <1>2, <1>3, PercentType
    <2> HIDE DEF d, uu
    <2> QED BY <1>3, <1>4, <2>1, <2>2
  <1>7. Percent(Floor(p), 60) \in Nat /\ y \in Nat
    BY <1>1, <1>3, PercentType
  <1>8. CASE \E x \in Near2(w, p) : m = Percent(x, 60)
    <2>1. PICK x \in Near2(w, p) : m = Percent(x, 60)
      BY <1>8
    <2>2. x \in Peaks(p) /\ x <= uu
      BY <1>1, <1>2, NearFacts DEF Near2
    <2> QED BY <1>3, <1>5, <1>6, <1>7, <2>1, <2>2
  <1>9. CASE m \in NearMean(w, p)
    <2>1. AtPeak(d).mean = Percent(d, 60) /\ AtPeak(u).mean = Percent(u, 60)
      BY <1>1, <1>2, AtPeakType
    <2>2. m \in Percent(d, 60) .. Percent(u, 60)
      BY <1>9, <2>1 DEF NearMean
    <2>3. d <= uu
      BY <1>1, <1>2
    <2>4. Percent(d, 60) \in Nat /\ Percent(Floor(p), 60) <= Percent(d, 60)
      BY <1>2, <1>6, <2>3
    <2>5. Percent(u, 60) \in Nat /\ Percent(u, 60) <= y
      BY <1>2, <1>6
    <2> HIDE DEF d, u, uu
    <2> QED BY <1>3, <1>5, <1>7, <2>2, <2>4, <2>5
  <1> QED BY <1>8, <1>9

-----------------------------------------------------------------------------
(* The invariant holds, step by step.                                      *)

(* What the invariant says of the rates' types.                            *)
LEMMA RateFacts ==
  ASSUME RateInv
  PROVE  /\ pref \in Prefs /\ knobs \in Bps /\ told \in Bps /\ reader.args \in Bps
         /\ reader.hello \in Hello
         /\ knobs.peak \in Nat /\ was \in Nat
         /\ loop \notin Halfway => knobs = AtPeak(knobs.peak)
         /\ loop \in Halfway => before \in Nat /\ before \in Peaks(pref)
         /\ \A x \in Peaks(pref) : x \in Nat
         /\ was \in Near(was, pref) /\ was \in Peaks(pref)
  <1>1. pref \in Prefs /\ was \in Peaks(pref) /\ knobs.peak \in Peaks(pref)
    BY DEF RateInv, RatesTyped
  <1>2. \A x \in Peaks(pref) : x \in Nat
    BY <1>1, RowsBetween DEF Peaks
  <1>3. knobs \in Bps /\ told \in Bps /\ reader.args \in Bps /\ reader.hello \in Hello
    BY DEF RateInv, RatesTyped
  <1>4. loop \notin Halfway => knobs = AtPeak(knobs.peak)
    <2> SUFFICES ASSUME loop \notin Halfway PROVE knobs = AtPeak(knobs.peak)
      OBVIOUS
    <2>1. knobs.mean = Percent(knobs.peak, 60)
      BY DEF RateInv, Written
    <2> QED BY <1>1, <1>2, <1>3, <2>1 DEF AtPeak, MeanPct, Bps
  <1>5. was \in Near(was, pref)
    BY <1>1, NearFacts
  <1>6. loop \in Halfway => before \in Peaks(pref)
    BY DEF RateInv, Written
  <1> QED BY <1>1, <1>2, <1>3, <1>4, <1>5, <1>6

(* The session begins with the encoder at its rates.                       *)
LEMMA InvInit == Init => Inv
  <1> SUFFICES ASSUME Init PROVE Inv
    OBVIOUS
  <1>1. pref \in Prefs
    BY DEF Init
  <1> DEFINE p == IF pref.dynamic THEN Ceiling(pref) ELSE RowPeak(pref)
  <1>2. p \in Peaks(pref) /\ p \in Nat
    BY <1>1, RowsBetween DEF Peaks
  <1>3. knobs = AtPeak(p) /\ told = AtPeak(p) /\ was = knobs.peak
    BY DEF Init, ResolveEncodeKnobs
  <1>4. knobs \in Bps /\ knobs.peak = p /\ knobs.mean = Percent(p, 60)
    BY <1>2, <1>3, AtPeakType
  <1>5. reader \in [at : ReaderPlaces, hello : Hello, args : Bps] /\ reader.at = "read"
    BY DEF Init, Idle, NoHello, NoRaster, ReaderPlaces, Hello, Raster, Bps
  <1>6. rateHello \in Hello /\ left \in [drops : Nat, others : Nat]
    BY HellosAssumption, BoundsAssumption DEF Init
  <1>7. /\ loop = "gens" /\ before = 0 /\ raced = FALSE
        /\ configured = TRUE /\ rested = TRUE /\ over = FALSE
    BY DEF Init
  <1>8. RatesTyped
    BY <1>1, <1>2, <1>3, <1>4, <1>5, <1>6, <1>7 DEF RatesTyped, Places
  <1>9. Written
    BY <1>4, <1>7 DEF Written, Halfway
  <1>10. RateInv
    BY <1>2, <1>3, <1>4, <1>8, <1>9 DEF RateInv
  <1>11. Kept
    BY <1>3, <1>5, <1>7 DEF Kept, Stepping, Halfway
  <1>12. knobs.peak \in Near(was, pref) /\ knobs.mean \in NearMean(was, pref)
    BY <1>1, <1>2, <1>3, <1>4, NearFacts
  <1>13. Outside
    BY <1>3, <1>7, <1>12 DEF Outside, Stepping, Halfway
  <1>14. reader.at \notin Retuning
    BY <1>5 DEF Retuning
  <1>15. Inside /\ Carried
    BY <1>5, <1>14 DEF Inside, Carried
  <1>16. Current
    BY <1>3, <1>5 DEF Current
  <1> QED BY <1>10, <1>11, <1>13, <1>15, <1>16 DEF Inv

(* An event is counted.                                                    *)
LEMMA LeftTyped ==
  ASSUME RateInv, Happens("drops") \/ Happens("others")
  PROVE  left' \in [drops : Nat, others : Nat]
  <1>1. left \in [drops : Nat, others : Nat]
    BY DEF RateInv, RatesTyped
  <1>2. CASE Happens("drops")
    <2>1. left.drops - 1 \in Nat /\ left' = [left EXCEPT !["drops"] = @ - 1]
      BY <1>1, <1>2 DEF Happens
    <2> QED BY <1>1, <2>1
  <1>3. CASE Happens("others")
    <2>1. left.others - 1 \in Nat /\ left' = [left EXCEPT !["others"] = @ - 1]
      BY <1>1, <1>3 DEF Happens
    <2> QED BY <1>1, <2>1
  <1> QED BY <1>2, <1>3

Elsewhere == SeeGens \/ ReadHz \/ NoteHello \/ CopyHello \/ ChangeMode \/ ReportMode \/ Rest
             \/ Send \/ StayThere \/ Capture \/ UNCHANGED vars

(* What the loop does about the frame rate and between steps, and Windows' *)
(* own steps: no rate moves.                                               *)
LEMMA InvElsewhere == Inv /\ Elsewhere => Inv'
  <1> SUFFICES ASSUME Inv, Elsewhere PROVE Inv'
    OBVIOUS
  <1>1. UNCHANGED <<pref, knobs, before, told, configured, raced, was, reader, rateHello, over>>
    BY DEF Elsewhere, SeeGens, ReadHz, NoteHello, CopyHello, ChangeMode, ReportMode, Capture,
           StayThere, Send, Rest, vars, rates, peer
  <1>2. \/ loop' = loop
        \/ loop \notin Stepping /\ loop' \in {"gens", "hz", "limit", "copy", "work"}
        \/ loop = "healthy" /\ loop' = "send"
        \/ loop \notin Stepping /\ loop' = "healthy" /\ reader.at \notin Retuning
    BY DEF Elsewhere, SeeGens, ReadHz, NoteHello, CopyHello, ChangeMode, ReportMode, Capture,
           StayThere, Send, Rest, vars, At, Work, ReaderBuilds, Stepping, Halfway
  <1>3. loop' \in Places
    BY <1>2 DEF Inv, RateInv, RatesTyped, Places
  <1>4. rested' \in BOOLEAN
    BY DEF Inv, RateInv, RatesTyped, Elsewhere, SeeGens, ReadHz, NoteHello, CopyHello, ChangeMode,
           ReportMode, Capture, StayThere, Send, Rest, vars, rates
  <1>5. left' \in [drops : Nat, others : Nat]
    <2>1. left \in [drops : Nat, others : Nat]
      BY DEF Inv, RateInv, RatesTyped
    <2>2. CASE ChangeMode
      BY <2>2, LeftTyped DEF ChangeMode, Inv
    <2>3. CASE ~ChangeMode
      BY <2>1, <2>3 DEF Elsewhere, SeeGens, ReadHz, NoteHello, CopyHello, ReportMode, Capture,
                        StayThere, Send, Rest, vars
    <2> QED BY <2>2, <2>3
  <1>6. RatesTyped'
    BY <1>1, <1>3, <1>4, <1>5 DEF Inv, RateInv, RatesTyped
  <1>7. RateInv'
    BY <1>1, <1>2, <1>6 DEF Inv, RateInv, Written, Stepping, Halfway
  <1>8. Kept'
    BY <1>1, <1>2 DEF Inv, Kept, Stepping, Halfway
  <1>9. Outside'
    BY <1>1, <1>2 DEF Inv, Outside, Stepping, Halfway
  <1>10. Inside'
    BY <1>1, <1>2 DEF Inv, Inside, Stepping, Halfway
  <1>11. Carried'
    BY <1>1 DEF Inv, Carried
  <1>12. Current'
    BY <1>1, <1>2 DEF Inv, Current, Stepping, Halfway
  <1> QED BY <1>7, <1>8, <1>9, <1>10, <1>11, <1>12 DEF Inv

(* The hello's way to the rebuild: no rate moves, the reader only.         *)
LEMMA InvHello == Inv /\ (StoreHello \/ BumpHello \/ TakeHello) => Inv'
  <1> SUFFICES ASSUME Inv, StoreHello \/ BumpHello \/ TakeHello PROVE Inv'
    OBVIOUS
  <1>1. UNCHANGED <<pref, knobs, before, rested, told, configured, raced, was, loop, over>>
    BY DEF StoreHello, BumpHello, TakeHello, rates
  <1>2. reader \in [at : ReaderPlaces, hello : Hello, args : Bps] /\ rateHello \in Hello
        /\ left \in [drops : Nat, others : Nat]
    BY DEF Inv, RateInv, RatesTyped
  <1>3. /\ reader' \in [at : ReaderPlaces, hello : Hello, args : Bps]
        /\ reader.at \notin Retuning /\ reader'.at \notin Retuning
        /\ rateHello' \in Hello
        /\ left' \in [drops : Nat, others : Nat]
    <2>1. CASE StoreHello
      <3>1. PICK h \in Hellos : /\ rateHello' = h
                               /\ reader' = [reader EXCEPT !.at = "bump", !.hello = h]
        BY <2>1 DEF StoreHello
      <3>2. reader.at = "read" /\ left' \in [drops : Nat, others : Nat]
        BY <2>1, LeftTyped DEF StoreHello, ReaderAt, Inv
      <3>3. h \in Hello
        BY HellosAssumption
      <3> QED BY <1>2, <3>1, <3>2, <3>3 DEF ReaderPlaces, Retuning
    <2>2. CASE BumpHello
      BY <1>2, <2>2 DEF BumpHello, ReaderAt, ReaderPlaces, Retuning
    <2>3. CASE TakeHello
      <3>1. Idle \in [at : ReaderPlaces, hello : Hello, args : Bps] /\ Idle.at = "read"
        BY DEF Idle, NoHello, NoRaster, ReaderPlaces, Hello, Raster, Bps
      <3> QED BY <1>2, <2>3, <3>1 DEF TakeHello, ReaderAt, ReaderPlaces, Retuning
    <2> QED BY <2>1, <2>2, <2>3
  <1>4. RatesTyped'
    BY <1>1, <1>3 DEF Inv, RateInv, RatesTyped
  <1>5. RateInv'
    BY <1>1, <1>4 DEF Inv, RateInv, Written
  <1>6. Kept'
    BY <1>1, <1>3 DEF Inv, Kept, Retuning
  <1>7. Outside'
    BY <1>1, <1>3 DEF Inv, Outside
  <1>8. Inside' /\ Carried'
    BY <1>3 DEF Inside, Carried, Retuning
  <1>9. Current'
    BY <1>1, <1>3 DEF Inv, Current, Retuning
  <1> QED BY <1>5, <1>6, <1>7, <1>8, <1>9 DEF Inv

(* The loop's own rebuild and fallback put the encoder at the session's    *)
(* rates, or leave none.                                                   *)
LEMMA InvRetuned == Inv /\ (RebuildHere \/ FallBack) => Inv'
  <1> SUFFICES ASSUME Inv, RebuildHere \/ FallBack PROVE Inv'
    OBVIOUS
  <1>1. UNCHANGED <<pref, knobs, before, rested, reader, rateHello>>
    BY DEF RebuildHere, FallBack, peer
  <1>2. loop = "work" /\ reader.at \notin Retuning
    BY DEF RebuildHere, FallBack, Work, At, ReaderBuilds
  <1>3. loop' \in {"gens", "healthy", "work"}
    BY <1>2 DEF RebuildHere, FallBack
  <1>4. \/ told' = knobs /\ configured' = TRUE /\ raced' = FALSE /\ was' = knobs.peak
        \/ UNCHANGED <<told, raced, was>> /\ (configured' = FALSE \/ configured' = configured)
    <2>1. knobs = AtPeak(knobs.peak)
      BY <1>2, RateFacts DEF Inv, Halfway
    <2> QED BY <2>1 DEF RebuildHere, FallBack, Retuned
  <1>5. left' \in [drops : Nat, others : Nat] /\ over' \in BOOLEAN
    BY LeftTyped DEF Inv, RateInv, RatesTyped, RebuildHere, FallBack
  <1>6. /\ told' \in Bps /\ configured' \in BOOLEAN /\ raced' \in BOOLEAN
        /\ was' \in Peaks(pref) /\ was' \in Nat
    BY <1>4, RateFacts DEF Inv, RateInv, RatesTyped
  <1>7. RatesTyped'
    BY <1>1, <1>3, <1>5, <1>6 DEF Inv, RateInv, RatesTyped, Places
  <1>8. RateInv'
    BY <1>1, <1>2, <1>3, <1>6, <1>7 DEF Inv, RateInv, Written, Halfway
  <1>9. Kept'
    BY <1>1, <1>2, <1>3, <1>4 DEF Inv, Kept, Stepping, Halfway
  <1>10. Outside'
    <2>1. CASE told' = knobs /\ was' = knobs.peak
      <3>1. knobs.mean = Percent(knobs.peak, 60)
        BY <1>2 DEF Inv, RateInv, Written, Halfway
      <3>2. knobs.peak \in Near(knobs.peak, pref) /\ knobs.mean \in NearMean(knobs.peak, pref)
        BY <3>1, NearFacts, RateFacts DEF Inv, RateInv
      <3> QED BY <1>1, <1>3, <2>1, <3>2 DEF Outside, Stepping, Halfway
    <2>2. CASE UNCHANGED <<told, raced, was>> /\ (configured' = FALSE \/ configured' = configured)
      BY <1>1, <1>2, <1>3, <2>2 DEF Inv, Outside, Stepping, Halfway
    <2> QED BY <1>4, <2>1, <2>2
  <1>11. Inside' /\ Carried'
    BY <1>1, <1>2 DEF Inside, Carried, Retuning
  <1>12. Current'
    BY <1>1, <1>2, <1>3, <1>4 DEF Inv, Current, Stepping, Halfway, Retuning
  <1> QED BY <1>8, <1>9, <1>10, <1>11, <1>12 DEF Inv

(* A step up, the peak first.                                              *)
LEMMA InvClimb == Inv /\ Climb => Inv'
  <1> SUFFICES ASSUME Inv, Climb PROVE Inv'
    OBVIOUS
  <1> USE DEF Inv
  <1>1. /\ UNCHANGED <<pref, rested, told, configured, was, reader, rateHello, over, left>>
        /\ loop = "healthy" /\ pref.dynamic
    BY DEF Climb, At, MayClimb, StepTo, peer
  <1>2. \/ /\ knobs' = [knobs EXCEPT !.peak = StepUp(knobs.peak, pref)]
           /\ before' = knobs.peak /\ loop' = "meanUp" /\ raced' = Overlap
        \/ UNCHANGED <<knobs, before, raced>> /\ loop' = "send"
    BY DEF Climb, StepTo
  <1>3. pref \in Prefs /\ knobs \in Bps /\ knobs.peak \in Peaks(pref) /\ knobs.peak \in Nat
    BY RateFacts DEF RateInv
  <1>4. StepUp(knobs.peak, pref) \in Peaks(pref) /\ StepUp(knobs.peak, pref) \in Nat
    BY <1>3, StepsInRange, RateFacts
  <1>5. CASE UNCHANGED <<knobs, before, raced>> /\ loop' = "send"
    <2>1. RateInv'
      BY <1>1, <1>5 DEF RateInv, RatesTyped, Written, Places, Halfway
    <2>2. Kept'
      BY <1>1 DEF Kept
    <2>3. Outside'
      BY <1>1, <1>5 DEF Outside, Stepping, Halfway
    <2>4. Inside' /\ Carried'
      BY <1>1, <1>5 DEF Inside, Carried
    <2>5. Current'
      BY <1>1, <1>5 DEF Current, Stepping, Halfway
    <2> QED BY <2>1, <2>2, <2>3, <2>4, <2>5
  <1>6. CASE /\ knobs' = [knobs EXCEPT !.peak = StepUp(knobs.peak, pref)]
             /\ before' = knobs.peak /\ loop' = "meanUp" /\ raced' = Overlap
    <2>1. knobs' \in Bps /\ knobs'.peak = StepUp(knobs.peak, pref) /\ knobs'.mean = knobs.mean
      BY <1>3, <1>4, <1>6 DEF Bps
    <2>2. raced' \in BOOLEAN
      BY <1>6 DEF Overlap, RateInv, RatesTyped
    <2>3. RatesTyped'
      BY <1>1, <1>3, <1>6, <2>1, <2>2 DEF RateInv, RatesTyped, Places, Stepping, Halfway
    <2>4. RateInv'
      BY <1>1, <1>3, <1>4, <1>6, <2>1, <2>3 DEF RateInv, Written, Halfway
    <2>5. Kept'
      BY <1>1 DEF Kept
    <2>6. Outside'
      BY <1>1, <1>6 DEF Outside, Stepping, Halfway
    <2>7. Inside'
      <3>1. reader.at \in Retuning => StepUp(knobs.peak, pref) \in Near(was, pref) /\ before' = was
        BY <1>1, <1>3, <1>6, NearFacts DEF Inside
      <3> QED BY <1>1, <1>6, <2>1, <3>1 DEF Inside
    <2>8. Carried'
      BY <1>1 DEF Carried
    <2>9. Current'
      BY <1>1, <1>6, <2>1 DEF Current, Overlap, Telling, Stepping, Halfway
    <2> QED BY <2>4, <2>5, <2>6, <2>7, <2>8, <2>9
  <1> QED BY <1>2, <1>5, <1>6

(* A step down, the peak first.                                            *)
LEMMA InvDrop == Inv /\ Drop => Inv'
  <1> SUFFICES ASSUME Inv, Drop PROVE Inv'
    OBVIOUS
  <1> USE DEF Inv
  <1>1. UNCHANGED <<pref, told, configured, was, reader, rateHello, over>> /\ loop = "send"
    BY DEF Drop, At, peer
  <1>2. \/ /\ knobs' = [knobs EXCEPT !.peak = StepDown(knobs.peak, pref)] /\ pref.dynamic
           /\ before' = knobs.peak /\ loop' = "meanDown" /\ raced' = Overlap
        \/ UNCHANGED <<knobs, before, raced>> /\ loop' = "gens"
    BY DEF Drop, StepTo
  <1>3. pref \in Prefs /\ knobs \in Bps /\ knobs.peak \in Peaks(pref) /\ knobs.peak \in Nat
    BY RateFacts DEF RateInv
  <1>4. StepDown(knobs.peak, pref) \in Peaks(pref) /\ StepDown(knobs.peak, pref) \in Nat
    BY <1>3, StepsInRange, RateFacts
  <1>5. rested' \in BOOLEAN /\ left' \in [drops : Nat, others : Nat]
    BY LeftTyped DEF Drop
  <1>6. CASE UNCHANGED <<knobs, before, raced>> /\ loop' = "gens"
    <2>1. RateInv'
      BY <1>1, <1>5, <1>6 DEF RateInv, RatesTyped, Written, Places, Halfway
    <2>2. Kept'
      BY <1>1, <1>6 DEF Kept, Stepping, Halfway
    <2>3. Outside'
      BY <1>1, <1>6 DEF Outside, Stepping, Halfway
    <2>4. Inside' /\ Carried'
      BY <1>1, <1>6 DEF Inside, Carried
    <2>5. Current'
      BY <1>1, <1>6 DEF Current, Stepping, Halfway
    <2> QED BY <2>1, <2>2, <2>3, <2>4, <2>5
  <1>7. CASE /\ knobs' = [knobs EXCEPT !.peak = StepDown(knobs.peak, pref)] /\ pref.dynamic
             /\ before' = knobs.peak /\ loop' = "meanDown" /\ raced' = Overlap
    <2>1. knobs' \in Bps /\ knobs'.peak = StepDown(knobs.peak, pref) /\ knobs'.mean = knobs.mean
      BY <1>3, <1>4, <1>7 DEF Bps
    <2>2. raced' \in BOOLEAN
      BY <1>7 DEF Overlap, RateInv, RatesTyped
    <2>3. RatesTyped'
      BY <1>1, <1>3, <1>5, <1>7, <2>1, <2>2 DEF RateInv, RatesTyped, Places, Stepping, Halfway
    <2>4. RateInv'
      BY <1>1, <1>3, <1>4, <1>7, <2>1, <2>3 DEF RateInv, Written, Halfway
    <2>5. Kept'
      BY <1>1, <1>7 DEF Kept
    <2>6. Outside'
      BY <1>1, <1>7 DEF Outside, Stepping, Halfway
    <2>7. Inside'
      <3>1. reader.at \in Retuning => /\ StepDown(knobs.peak, pref) \in Near(was, pref)
                                     /\ before' \in {was, StepUp(was, pref)}
        BY <1>1, <1>3, <1>7, RateFacts, NearFacts DEF Inside
      <3> QED BY <1>1, <1>7, <2>1, <3>1 DEF Inside
    <2>8. Carried'
      BY <1>1 DEF Carried
    <2>9. Current'
      BY <1>1, <1>7, <2>1 DEF Current, Overlap, Telling, Stepping, Halfway
    <2> QED BY <2>4, <2>5, <2>6, <2>7, <2>8, <2>9
  <1> QED BY <1>2, <1>6, <1>7

(* The mean follows.                                                       *)
LEMMA InvWriteMean == Inv /\ WriteMean => Inv'
  <1> SUFFICES ASSUME Inv, WriteMean PROVE Inv'
    OBVIOUS
  <1> USE DEF Inv
  <1>1. /\ UNCHANGED <<pref, rested, told, configured, was, reader, rateHello, over, left>>
        /\ loop \in Halfway
        /\ loop' = IF loop = "meanUp" THEN "tellUp" ELSE "tellDown"
        /\ before' = 0 /\ raced' = Overlap /\ knobs' = AtPeak(knobs.peak)
    BY DEF WriteMean, At, Halfway, peer
  <1>2. pref \in Prefs /\ knobs.peak \in Peaks(pref) /\ knobs.peak \in Nat /\ was \in Peaks(pref)
    BY RateFacts DEF RateInv
  <1>3. knobs' \in Bps /\ knobs'.peak = knobs.peak /\ knobs'.mean = Percent(knobs.peak, 60)
    BY <1>1, <1>2, AtPeakType
  <1>4. loop' \in {"tellUp", "tellDown"}
    BY <1>1
  <1>5. raced' \in BOOLEAN
    BY <1>1 DEF Overlap, RateInv, RatesTyped
  <1>6. RatesTyped'
    BY <1>1, <1>3, <1>4, <1>5 DEF RateInv, RatesTyped, Places, Stepping
  <1>7. RateInv'
    BY <1>1, <1>2, <1>3, <1>4, <1>6 DEF RateInv, Written, Halfway
  <1>8. Kept'
    BY <1>1 DEF Kept, Stepping
  <1>9. Outside'
    <2>1. reader.at \notin Retuning /\ configured => knobs.peak \in Near2(was, pref)
      BY <1>1, <1>2, NearFacts DEF Outside, RateInv, Written, Halfway
    <2> QED BY <1>1, <1>3, <1>4, <2>1 DEF Outside, Stepping, Halfway
  <1>10. Inside'
    <2>1. reader.at \in Retuning => /\ Percent(knobs.peak, 60) \in NearMean(was, pref)
                                   /\ (loop = "meanUp" => knobs.peak = StepUp(was, pref))
      BY <1>2, NearFacts DEF Inside, RateInv, Written
    <2> QED BY <1>1, <1>3, <2>1 DEF Inside, Halfway
  <1>11. Carried'
    BY <1>1 DEF Carried
  <1>12. Current'
    BY <1>1, <1>3, <1>4 DEF Current, Overlap, Telling, Stepping, Halfway, Retuning
  <1> QED BY <1>7, <1>8, <1>9, <1>10, <1>11, <1>12

(* The loop tells the mean, if there is an encoder to tell.                *)
LEMMA InvTellMean == Inv /\ TellMean => Inv'
  <1> SUFFICES ASSUME Inv, TellMean PROVE Inv'
    OBVIOUS
  <1> USE DEF Inv
  <1>1. /\ UNCHANGED <<pref, knobs, before, configured, raced, was, reader, rateHello, over, left>>
        /\ loop \in {"tellUp", "tellDown"}
    BY DEF TellMean, At, peer
  <1>2. \/ /\ configured /\ told' = [told EXCEPT !.mean = knobs.mean]
           /\ loop' = IF loop = "tellUp" THEN "setUp" ELSE "setDown"
        \/ ~configured /\ told' = told /\ loop' = IF loop = "tellUp" THEN "send" ELSE "gens"
    BY <1>1 DEF TellMean, AfterStep
  <1>3. knobs \in Bps /\ told \in Bps
    BY RateFacts
  <1>4. told' \in Bps /\ told'.peak = told.peak /\ (configured => told'.mean = knobs.mean)
    BY <1>2, <1>3 DEF Bps
  <1>5. rested' \in BOOLEAN
    BY DEF TellMean, RateInv, RatesTyped
  <1>6. RatesTyped'
    BY <1>1, <1>2, <1>4, <1>5 DEF RateInv, RatesTyped, Places, Stepping
  <1>7. RateInv'
    BY <1>1, <1>2, <1>6 DEF RateInv, Written, Halfway
  <1>8. Kept'
    BY <1>1 DEF Kept, Stepping
  <1>9. Outside'
    BY <1>1, <1>2, <1>4 DEF Outside, Stepping, Halfway
  <1>10. Inside'
    BY <1>1, <1>2 DEF Inside
  <1>11. Carried'
    BY <1>1, <1>2, <1>4 DEF Carried, Inside
  <1>12. Current'
    BY <1>1, <1>2, <1>4 DEF Current, Carried, Stepping, Halfway, Retuning
  <1> QED BY <1>7, <1>8, <1>9, <1>10, <1>11, <1>12

(* Then the peak: outside a rebuild the encoder now has both, unless one   *)
(* took the encoder after the mean was told.                               *)
LEMMA InvTellPeak == Inv /\ TellPeak => Inv'
  <1> SUFFICES ASSUME Inv, TellPeak PROVE Inv'
    OBVIOUS
  <1> USE DEF Inv
  <1>1. /\ UNCHANGED <<pref, knobs, before, configured, reader, rateHello, over, left>>
        /\ loop \in {"setUp", "setDown"}
        /\ loop' = IF loop = "setUp" THEN "send" ELSE "gens"
    BY DEF TellPeak, At, AfterStep, peer
  <1>2. /\ told' = IF configured THEN [told EXCEPT !.peak = knobs.peak] ELSE told
        /\ raced' = (raced /\ (told' # knobs \/ reader.at \in Telling))
        /\ was' = IF told' = knobs /\ reader.at \notin Retuning THEN knobs.peak ELSE was
        /\ rested' = FALSE
    BY DEF TellPeak
  <1>3. /\ pref \in Prefs /\ knobs \in Bps /\ told \in Bps /\ knobs.peak \in Peaks(pref)
        /\ knobs.peak \in Nat
    BY RateFacts DEF RateInv
  <1>4. told' \in Bps /\ told'.mean = told.mean /\ (configured => told'.peak = knobs.peak)
    BY <1>2, <1>3 DEF Bps
  <1>5. raced' \in BOOLEAN /\ was' \in Nat /\ was' \in Peaks(pref)
    BY <1>2, <1>3, RateFacts DEF RateInv, RatesTyped
  <1>6. RatesTyped'
    BY <1>1, <1>2, <1>4, <1>5 DEF RateInv, RatesTyped, Places, Stepping
  <1>7. RateInv'
    BY <1>1, <1>5, <1>6 DEF RateInv, Written, Halfway
  <1>8. Kept'
    BY <1>1 DEF Kept, Stepping
  <1>9. Outside'
    <2> SUFFICES ASSUME reader.at \notin Retuning, configured PROVE Outside'
      BY <1>1 DEF Outside
    <2>1. CASE told' = knobs
      <3>1. knobs.mean = Percent(knobs.peak, 60)
        BY <1>1 DEF RateInv, Written, Halfway
      <3>2. knobs.peak \in Near(knobs.peak, pref) /\ knobs.mean \in NearMean(knobs.peak, pref)
        BY <1>3, <3>1, NearFacts
      <3> QED BY <1>1, <1>2, <2>1, <3>2 DEF Outside, Stepping, Halfway
    <2>2. CASE told' # knobs
      <3>1. told.mean # knobs.mean
        BY <1>3, <1>4, <2>2 DEF Bps
      <3>2. knobs.peak \in Near(was, pref) /\ told.mean \in NearMean(was, pref) /\ was' = was
        BY <1>1, <1>2, <2>2, <3>1 DEF Outside
      <3> QED BY <1>1, <1>4, <3>2 DEF Outside, Stepping, Halfway
    <2> QED BY <2>1, <2>2
  <1>10. reader.at \in Retuning => was' = was
    BY <1>2
  <1>11. Inside'
    BY <1>1, <1>10 DEF Inside
  <1>12. Carried'
    BY <1>1, <1>2, <1>4, <1>10 DEF Carried, Inside, Retuning
  <1>13. Current'
    <2>1. CASE ~raced
      BY <1>1, <1>2, <1>4, <2>1 DEF Current, Stepping, Halfway
    <2>2. CASE raced /\ ~raced'
      <3>1. told' = knobs /\ reader.at \notin Telling
        BY <1>2, <2>2
      <3> QED BY <1>1, <3>1 DEF Current, Telling
    <2>3. CASE raced'
      BY <2>3 DEF Current
    <2> QED BY <2>1, <2>2, <2>3
  <1> QED BY <1>7, <1>8, <1>9, <1>11, <1>12, <1>13

(* The rebuild begins to configure, from the peak before a half-written    *)
(* step.                                                                   *)
LEMMA InvPrepareHead == Inv /\ PrepareHead => Inv'
  <1> SUFFICES ASSUME Inv, PrepareHead PROVE Inv'
    OBVIOUS
  <1> USE DEF Inv
  <1>1. /\ UNCHANGED <<pref, knobs, before, rested, told, raced, loop, rateHello, left>>
        /\ reader.at = "head"
    BY DEF PrepareHead, ReaderAt
  <1>2. \/ /\ reader' = [reader EXCEPT !.at = "bind", !.args = AtPeak(knobs.peak)]
           /\ configured' = FALSE /\ over' = over
           /\ was' = IF loop \in Halfway THEN before ELSE knobs.peak
        \/ over' = TRUE /\ UNCHANGED <<reader, configured, was>>
    BY DEF PrepareHead, Halfway
  <1>3. CASE over' = TRUE /\ UNCHANGED <<reader, configured, was>>
    <2>1. RateInv'
      BY <1>1, <1>3 DEF RateInv, RatesTyped, Written
    <2>2. Kept' /\ Outside' /\ Inside' /\ Carried' /\ Current'
      BY <1>1, <1>3 DEF Kept, Outside, Inside, Carried, Current
    <2> QED BY <2>1, <2>2
  <1>4. CASE /\ reader' = [reader EXCEPT !.at = "bind", !.args = AtPeak(knobs.peak)]
             /\ configured' = FALSE /\ over' = over
             /\ was' = IF loop \in Halfway THEN before ELSE knobs.peak
    <2>1. /\ pref \in Prefs /\ knobs.peak \in Nat /\ knobs.peak \in Peaks(pref)
          /\ was' \in Nat /\ was' \in Peaks(pref)
      BY <1>4, RateFacts DEF RateInv
    <2>2. AtPeak(knobs.peak) \in Bps /\ AtPeak(knobs.peak).peak = knobs.peak
          /\ AtPeak(knobs.peak).mean = Percent(knobs.peak, 60)
      BY <2>1, AtPeakType
    <2>3. reader \in [at : ReaderPlaces, hello : Hello, args : Bps]
      BY DEF RateInv, RatesTyped
    <2>4. /\ reader' \in [at : ReaderPlaces, hello : Hello, args : Bps]
          /\ reader'.at = "bind" /\ reader'.args = AtPeak(knobs.peak)
      BY <1>4, <2>2, <2>3 DEF ReaderPlaces, Retuning
    <2>5. RatesTyped'
      BY <1>1, <1>4, <2>1, <2>4 DEF RateInv, RatesTyped
    <2>6. RateInv'
      BY <1>1, <2>1, <2>5 DEF RateInv, Written
    <2>7. Kept'
      <3>1. ~pref.dynamic => knobs = AtPeak(knobs.peak)
        BY RateFacts DEF Kept, Stepping
      <3> QED BY <1>1, <2>4, <3>1 DEF Kept
    <2>8. Outside'
      BY <1>4 DEF Outside
    <2>9. knobs.peak \in Near(was', pref) /\ knobs.mean \in NearMean(was', pref)
      <3>1. knobs.peak \in {was', StepUp(was', pref), StepDown(was', pref)}
            /\ knobs.mean = Percent(was', 60)
        BY <1>4 DEF RateInv, Written, Halfway
      <3> QED BY <2>1, <3>1, NearFacts
    <2>10. Inside'
      BY <1>1, <1>4, <2>9 DEF Inside, Halfway
    <2>11. Carried'
      <3>1. Percent(knobs.peak, 60) \in NearMean(was', pref)
        BY <2>1, <2>9, NearFacts
      <3> QED BY <1>1, <1>4, <2>2, <2>4, <2>9, <3>1 DEF Carried
    <2>12. Current'
      BY <2>4 DEF Current, Retuning
    <2> QED BY <2>6, <2>7, <2>8, <2>10, <2>11, <2>12
  <1> QED BY <1>2, <1>3, <1>4

(* A new encoder has the rates Configure was given.                        *)
LEMMA InvBind == Inv /\ Bind => Inv'
  <1> SUFFICES ASSUME Inv, Bind PROVE Inv'
    OBVIOUS
  <1> USE DEF Inv
  <1>1. /\ UNCHANGED <<pref, knobs, before, rested, raced, was, loop, rateHello, left>>
        /\ reader.at = "bind"
    BY DEF Bind, ReaderAt
  <1>2. \/ /\ told' = reader.args /\ configured' = TRUE /\ reader' = [Idle EXCEPT !.at = "fetch"]
           /\ over' = over
        \/ over' = TRUE /\ UNCHANGED <<told, configured, reader>>
    BY DEF Bind
  <1>3. CASE over' = TRUE /\ UNCHANGED <<told, configured, reader>>
    <2>1. RateInv'
      BY <1>1, <1>3 DEF RateInv, RatesTyped, Written
    <2>2. Kept' /\ Outside' /\ Inside' /\ Carried' /\ Current'
      BY <1>1, <1>3 DEF Kept, Outside, Inside, Carried, Current
    <2> QED BY <2>1, <2>2
  <1>4. CASE /\ told' = reader.args /\ configured' = TRUE /\ reader' = [Idle EXCEPT !.at = "fetch"]
             /\ over' = over
    <2>1. reader' \in [at : ReaderPlaces, hello : Hello, args : Bps] /\ reader'.at = "fetch"
      BY <1>4 DEF Idle, NoHello, NoRaster, ReaderPlaces, Retuning, Hello, Raster, Bps
    <2>2. RatesTyped'
      BY <1>1, <1>4, <2>1, RateFacts DEF RateInv, RatesTyped
    <2>3. RateInv'
      BY <1>1, <2>2 DEF RateInv, Written
    <2>4. Kept'
      <3>1. ~pref.dynamic => told' = knobs
        BY <1>1, <1>4, RateFacts DEF Kept, Bps
      <3> QED BY <1>1, <2>1, <3>1 DEF Kept
    <2>5. Outside' /\ Inside'
      BY <1>1, <2>1 DEF Outside, Inside, Retuning
    <2>6. Carried'
      BY <1>1, <1>4, <2>1 DEF Carried
    <2>7. Current'
      BY <2>1 DEF Current, Retuning
    <2> QED BY <2>3, <2>4, <2>5, <2>6, <2>7
  <1> QED BY <1>2, <1>3, <1>4

(* One of the rates is read, the other kept.                               *)
LEMMA Fetched ==
  ASSUME RateInv, NEW at \in ReaderPlaces, NEW rate \in {"peak", "mean"}, NEW next \in ReaderPlaces,
         Fetch(at, rate, next)
  PROVE  /\ reader.at = at /\ reader'.at = next
         /\ reader' \in [at : ReaderPlaces, hello : Hello, args : Bps]
         /\ reader'.args[rate] = knobs[rate]
         /\ \A r \in {"peak", "mean"} \ {rate} : reader'.args[r] = reader.args[r]
         /\ raced' = (raced /\ at # "fetch")
         /\ UNCHANGED <<pref, knobs, before, rested, told, configured, was, loop, rateHello, over,
                       left>>
  <1>1. reader \in [at : ReaderPlaces, hello : Hello, args : Bps]
    BY DEF RateInv, RatesTyped
  <1>2. reader.args \in Bps /\ knobs \in Bps
    BY RateFacts
  <1>3. /\ reader.at = at
        /\ reader' = [reader EXCEPT !.at = next, !.args = [@ EXCEPT ![rate] = knobs[rate]]]
    BY DEF Fetch, ReaderAt
  <1>4. /\ reader'.at = next /\ reader'.hello = reader.hello
        /\ reader'.args = [reader.args EXCEPT ![rate] = knobs[rate]]
    BY <1>1, <1>3
  <1>5. [reader.args EXCEPT ![rate] = knobs[rate]] \in Bps
    BY <1>2 DEF Bps
  <1>6. reader' \in [at : ReaderPlaces, hello : Hello, args : Bps]
    BY <1>1, <1>3, <1>5
  <1>7. /\ reader'.args[rate] = knobs[rate]
        /\ \A r \in {"peak", "mean"} \ {rate} : reader'.args[r] = reader.args[r]
    BY <1>2, <1>4 DEF Bps
  <1> QED BY <1>3, <1>4, <1>6, <1>7 DEF Fetch

(* The rebuild reads the session's rates, one after the other.             *)
LEMMA InvFetch == Inv /\ (FetchPeak \/ FetchMean) => Inv'
  <1> SUFFICES ASSUME Inv, FetchPeak \/ FetchMean PROVE Inv'
    OBVIOUS
  <1> USE DEF Inv
  <1>1. {"fetch", "fetchMean", "fetchPeak", "tell"} \subseteq ReaderPlaces
    BY DEF ReaderPlaces, Retuning
  <1>2. PICK at \in ReaderPlaces, rate \in {"peak", "mean"}, next \in ReaderPlaces :
               /\ Fetch(at, rate, next)
               /\ <<at, rate, next>> \in
                    {<<"fetch", "peak", "fetchMean">>, <<"fetchPeak", "peak", "tell">>,
                     <<"fetch", "mean", "fetchPeak">>, <<"fetchMean", "mean", "tell">>}
    BY <1>1 DEF FetchPeak, FetchMean
  <1>3. /\ reader.at = at /\ reader'.at = next
        /\ reader' \in [at : ReaderPlaces, hello : Hello, args : Bps]
        /\ reader'.args[rate] = knobs[rate]
        /\ \A r \in {"peak", "mean"} \ {rate} : reader'.args[r] = reader.args[r]
        /\ raced' = (raced /\ at # "fetch")
        /\ UNCHANGED <<pref, knobs, before, rested, told, configured, was, loop, rateHello, over,
                      left>>
    BY <1>2, Fetched
  <1>4. \/ /\ reader.at = "fetch" /\ reader'.at = "fetchMean"
           /\ reader'.args.peak = knobs.peak
        \/ /\ reader.at = "fetchPeak" /\ reader'.at = "tell"
           /\ reader'.args.peak = knobs.peak /\ reader'.args.mean = reader.args.mean
        \/ /\ reader.at = "fetch" /\ reader'.at = "fetchPeak"
           /\ reader'.args.mean = knobs.mean
        \/ /\ reader.at = "fetchMean" /\ reader'.at = "tell"
           /\ reader'.args.peak = reader.args.peak /\ reader'.args.mean = knobs.mean
    BY <1>2, <1>3
  <1>5. raced' \in BOOLEAN
    BY <1>3 DEF RateInv, RatesTyped
  <1>6. RatesTyped'
    BY <1>3, <1>5 DEF RateInv, RatesTyped
  <1>7. RateInv'
    BY <1>3, <1>6 DEF RateInv, Written
  <1>8. Kept'
    BY <1>3, <1>4 DEF Kept
  <1>9. Outside' /\ Inside'
    BY <1>3, <1>4 DEF Outside, Inside, Retuning
  <1>10. Carried'
    BY <1>3, <1>4 DEF Carried, Inside, Retuning
  <1>11. Current'
    BY <1>3, <1>4 DEF Current, Retuning
  <1> QED BY <1>7, <1>8, <1>9, <1>10, <1>11

(* The rebuild tells what it has read, the mean first.                     *)
LEMMA InvTellRates == Inv /\ TellRates => Inv'
  <1> SUFFICES ASSUME Inv, TellRates PROVE Inv'
    OBVIOUS
  <1> USE DEF Inv
  <1>1. UNCHANGED <<pref, knobs, before, rested, configured, raced, was, loop, rateHello, over,
                    left>>
    BY DEF TellRates, Tell
  <1>2. /\ reader \in [at : ReaderPlaces, hello : Hello, args : Bps] /\ reader.args \in Bps
        /\ knobs \in Bps /\ told \in Bps
    BY RateFacts DEF RateInv, RatesTyped
  <1>3. CASE Tell("tell", "mean", [reader EXCEPT !.at = "set"])
    <2>1. reader.at = "tell" /\ told' = [told EXCEPT !["mean"] = reader.args["mean"]]
          /\ reader' = [reader EXCEPT !.at = "set"]
      BY <1>3 DEF Tell, ReaderAt
    <2>2. told' \in Bps /\ told'.peak = told.peak /\ told'.mean = reader.args.mean
      BY <1>2, <2>1 DEF Bps
    <2>3. /\ reader' \in [at : ReaderPlaces, hello : Hello, args : Bps]
          /\ reader'.at = "set" /\ reader'.args = reader.args
      BY <1>2, <2>1 DEF ReaderPlaces, Retuning
    <2>4. RateInv'
      BY <1>1, <2>2, <2>3 DEF RateInv, RatesTyped, Written
    <2>5. Kept'
      BY <1>1, <1>2, <2>1, <2>2, <2>3 DEF Kept, Bps
    <2>6. Outside' /\ Inside'
      BY <1>1, <2>1, <2>3 DEF Outside, Inside, Retuning
    <2>7. Carried'
      BY <1>1, <2>1, <2>2, <2>3 DEF Carried, Retuning
    <2>8. Current'
      BY <1>1, <2>1, <2>2, <2>3 DEF Current, Retuning
    <2> QED BY <2>4, <2>5, <2>6, <2>7, <2>8
  <1>4. CASE Tell("set", "peak", Idle)
    <2>1. reader.at = "set" /\ reader' = Idle
          /\ told' = [told EXCEPT !["peak"] = reader.args["peak"]]
      BY <1>4 DEF Tell, ReaderAt
    <2>2. told' \in Bps /\ told'.mean = told.mean /\ told'.peak = reader.args.peak
      BY <1>2, <2>1 DEF Bps
    <2>3. reader' \in [at : ReaderPlaces, hello : Hello, args : Bps] /\ reader'.at = "read"
      BY <2>1 DEF Idle, NoHello, NoRaster, ReaderPlaces, Hello, Raster, Bps
    <2>4. RateInv'
      BY <1>1, <2>2, <2>3 DEF RateInv, RatesTyped, Written
    <2>5. Kept'
      BY <1>1, <1>2, <2>1, <2>2, <2>3 DEF Kept, Bps
    <2>6. Outside'
      <3>1. /\ told'.peak \in Near(was, pref) /\ told'.mean \in NearMean(was, pref)
            /\ knobs.peak \in Near(was, pref)
        BY <2>1, <2>2 DEF Carried, Inside, Retuning
      <3>2. /\ was \in Near(was, pref) /\ StepUp(was, pref) \in Near(was, pref)
            /\ Near(was, pref) \subseteq Near2(was, pref)
        BY RateFacts, NearFacts
      <3>3. loop \in Halfway => before \in Near(was, pref)
        BY <2>1, <3>2 DEF Inside, Retuning, Halfway
      <3> QED BY <1>1, <3>1, <3>2, <3>3 DEF Outside
    <2>7. Inside' /\ Carried'
      BY <2>3 DEF Inside, Carried, Retuning
    <2>8. Current'
      BY <1>1, <2>1, <2>2, <2>3 DEF Current, Retuning
    <2> QED BY <2>4, <2>5, <2>6, <2>7, <2>8
  <1> QED BY <1>3, <1>4 DEF TellRates

(* Every step keeps the invariant.                                         *)
LEMMA InvNext == Inv /\ [Next]_vars => Inv'
  <1> SUFFICES ASSUME Inv, [Next]_vars PROVE Inv'
    OBVIOUS
  <1>1. CASE LoopStep
    BY <1>1, InvElsewhere, InvRetuned, InvClimb, InvDrop, InvWriteMean, InvTellMean, InvTellPeak
    DEF LoopStep, Elsewhere
  <1>2. CASE Rebuild
    BY <1>2, InvHello, InvPrepareHead, InvBind, InvFetch, InvTellRates DEF Rebuild
  <1>3. CASE Rest \/ ChangeMode \/ ReportMode \/ UNCHANGED vars
    BY <1>3, InvElsewhere DEF Elsewhere
  <1>4. CASE StoreHello
    BY <1>4, InvHello
  <1> QED BY <1>1, <1>2, <1>3, <1>4 DEF Next

-----------------------------------------------------------------------------
(* What the invariant gives.                                               *)

(* The session's rates are in range, half written or not.                  *)
LEMMA KnobsInRange == Inv => InRange(knobs, pref)
  <1> SUFFICES ASSUME Inv PROVE InRange(knobs, pref)
    OBVIOUS
  <1> DEFINE b == IF loop \in Halfway THEN before ELSE knobs.peak
  <1>1. RateInv /\ Written
    BY DEF Inv, RateInv
  <1>2. /\ pref \in Prefs /\ b \in Peaks(pref) /\ knobs.peak \in Peaks(pref)
        /\ knobs.mean = Percent(b, 60)
    BY <1>1, RateFacts DEF RateInv, Written
  <1>3. knobs.peak \in {b, StepUp(b, pref), StepDown(b, pref)}
    BY <1>1 DEF Written, Halfway
  <1> HIDE DEF b
  <1>4. knobs.peak \in Near(b, pref) /\ knobs.mean \in NearMean(b, pref)
    BY <1>2, <1>3, NearFacts
  <1>5. knobs.peak \in Peaks(pref) /\ knobs.mean \in AtPeak(Floor(pref)).mean .. knobs.peak
    BY <1>2, <1>4, MeanNear
  <1>6. pref.dynamic \/ knobs = AtPeak(RowPeak(pref))
    BY DEF Inv, Kept
  <1> QED BY <1>5, <1>6 DEF InRange, Peaks

(* So are the encoder's, whichever two writes left them.                   *)
LEMMA ToldInRange == Inv /\ configured => InRange(told, pref)
  <1> SUFFICES ASSUME Inv, configured PROVE InRange(told, pref)
    OBVIOUS
  <1>1. pref \in Prefs /\ was \in Peaks(pref) /\ RateInv
    BY RateFacts DEF Inv
  <1>2. /\ told.peak \in Near(was, pref)
        /\ \/ told.mean \in NearMean(was, pref)
           \/ \E x \in Near2(was, pref) : told.mean = Percent(x, 60)
    <2>1. CASE reader.at \in Retuning
      BY <2>1 DEF Inv, Carried
    <2>2. CASE reader.at \notin Retuning
      <3>1. CASE told.mean \in NearMean(was, pref)
        BY <2>2, <3>1 DEF Inv, Outside
      <3>2. CASE loop \in {"setUp", "setDown"} /\ told.mean = knobs.mean
        <4>1. knobs.mean = Percent(knobs.peak, 60)
          BY <3>2 DEF Inv, RateInv, Written, Halfway
        <4>2. knobs.peak \in Near2(was, pref)
          BY <1>1, <2>2, <3>2, NearFacts DEF Inv, Outside
        <4> QED BY <2>2, <3>2, <4>1, <4>2 DEF Inv, Outside
      <3> QED BY <2>2, <3>1, <3>2 DEF Inv, Outside
    <2> QED BY <2>1, <2>2
  <1>3. told.peak \in Peaks(pref) /\ told.mean \in AtPeak(Floor(pref)).mean .. told.peak
    BY <1>1, <1>2, MeanNear
  <1>4. pref.dynamic \/ told = AtPeak(RowPeak(pref))
    BY DEF Inv, Kept
  <1> QED BY <1>3, <1>4 DEF InRange, Peaks

(* Between steps and rebuilds the encoder has the session's rates, or a    *)
(* race has left both within a step.                                       *)
LEMMA FollowsHere == Inv => EncoderFollows
  <1> SUFFICES ASSUME Inv, ~over, configured, loop \notin Stepping,
                      reader.at \notin {"fetch"} \cup Telling
               PROVE  \/ told = knobs
                      \/ /\ raced
                         /\ {knobs.peak, told.peak} \subseteq Near(was, pref)
                         /\ told.mean \in NearMean(was, pref)
    BY DEF EncoderFollows
  <1>1. reader.at \notin Retuning
    BY DEF Inv, Carried, Retuning, Telling
  <1>2. CASE raced
    BY <1>1, <1>2 DEF Inv, Outside, Stepping
  <1>3. CASE ~raced
    <2>1. told.peak = knobs.peak /\ told.mean = knobs.mean
      BY <1>1, <1>3 DEF Inv, Current, Stepping
    <2>2. told \in Bps /\ knobs \in Bps
      BY RateFacts DEF Inv
    <2> QED BY <2>1, <2>2 DEF Bps
  <1> QED BY <1>2, <1>3

(* The profile, the rates and the two threads' places keep their types     *)
(* (EncodeProfile.h, SenderApp.cpp).                                       *)
THEOREM RatesTypeCorrect == Spec => []RatesTyped
  <1>1. Inv => RatesTyped
    BY DEF Inv, RateInv
  <1> QED BY <1>1, InvInit, InvNext, PTL DEF Spec

(* For every profile, every receiver and however many drops and quiet      *)
(* stretches alternate with rebuilds: the peak stays between floor and     *)
(* ceiling and the mean is never above the peak, in the session's rates    *)
(* and in an encoder that was told the mean of one step with the peak of   *)
(* another (EncodeProfile.h, StepDynamicPeak).                             *)
THEOREM PeakStaysInRange == Spec => []PeakInRange
  <1>1. Inv => PeakInRange
    BY KnobsInRange, ToldInRange, RateFacts DEF Inv, PeakInRange
  <1> QED BY <1>1, InvInit, InvNext, PTL DEF Spec

(* The encoder never runs at other rates than the session's between steps  *)
(* and rebuilds, unless a step overtook a rebuild between its reading the  *)
(* rates and telling them; and then both are at most one step from the     *)
(* rate the rebuild began at (SenderApp.cpp, buildPipeline and the send    *)
(* section).                                                               *)
THEOREM EncoderFollowsRates == Spec => []EncoderFollows
  <1>1. Inv => EncoderFollows
    BY FollowsHere
  <1> QED BY <1>1, InvInit, InvNext, PTL DEF Spec
=============================================================================
