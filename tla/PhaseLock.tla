------------------------------ MODULE PhaseLock ------------------------------
(***************************************************************************)
(* The phase lock of ntpclient (NTP/ntpclient-2015/phaselock.c), with the  *)
(* clock it disciplines and its caller in rfc1305print().                  *)
(*                                                                         *)
(* A measurement confines the skew (server minus host) to an interval.     *)
(* contemplate_data() looks for the straight lines through the last        *)
(* RING_SIZE intervals and for the smallest change of frequency that       *)
(* brings one of them on the target.                                       *)
(*                                                                         *)
(* Doubles are exact rationals on a grid.  Time is counted in units of     *)
(* 600 s, frequency in 1/Ppm ppm (the kernel's Ppm is 65536) and skew in   *)
(* 600/Ppm microseconds.  Every difference of two times in the ring        *)
(* divides Scale, so slopes and offsets are integers in units              *)
(* Unit = Ppm * Scale times finer than a ppm or 600 microseconds.  Ties    *)
(* are then exact.  No two measurements fall in one second, and the times  *)
(* are exact, although those the code passes are whole seconds of the      *)
(* host's own clock: see README.                                           *)
(***************************************************************************)
EXTENDS Integers, Sequences, FiniteSetsExt

CONSTANTS
    RING_SIZE, MAX_CORRECT, Ppm, Scale,
    MaxGap,                    \* between two measurements, in 600 s
    Hosts,                     \* the oscillator's drift, and the frequency ntpclient
                               \*   finds or, with -f, sets, both in 1/Ppm ppm
    Answers,                   \* <<error, error bar>> of a measurement; the bar may be
                               \*   negative, min_delay taken off
    MaxMeasured                \* bound: measurements taken

ASSUME PhaseAssumption ==
    /\ RING_SIZE \in Nat /\ RING_SIZE >= 2
    /\ MAX_CORRECT \in Nat /\ Ppm \in Nat \ {0} /\ Scale \in Nat \ {0}
    /\ MaxGap \in Nat \ {0}
    /\ \A d \in 1 .. (RING_SIZE - 1) * MaxGap : d * (Scale \div d) = Scale
    /\ Hosts \subseteq [drift : Int, freq : Int] /\ Answers \subseteq Int \X Int
    /\ MaxMeasured \in Nat

VARIABLES
    d_ring,                    \* the measurements, oldest first
    df,                        \* smallest shifts, from the left and the right
    printed, box,              \* the last verdict, and the last box
    freq,                      \* the kernel's
    drift, skew,               \* the host's clock
    honest,                    \* history: latest measurements within their
                               \*   bars, none before the last step
    measured                   \* measurements taken

vars == <<d_ring, df, printed, box, freq, drift, skew, honest, measured>>

Unit == Ppm * Scale
MAX_C == MAX_CORRECT * Ppm
MIN_INIT == 20

(* absolute is kept relative to the newest measurement: the code uses      *)
(* differences only.                                                       *)
Data == [absolute : Int, skew : Int, errorbar : Int, freq : Int]

(***************************************************************************)
(* The ring, oldest first.  next_up() and next_dn() are index + 1 and - 1. *)
(***************************************************************************)
Stored(ring, d) ==
    LET aged == [i \in 1..Len(ring) |->
                    [ring[i] EXCEPT !.absolute = @ - d.absolute]]
    IN  Append(IF Len(ring) = RING_SIZE THEN Tail(aged) ELSE aged,
               [d EXCEPT !.absolute = 0])

Apart(w, j, n) == w[n].absolute - w[j].absolute

(* Pass 1: the intervals as they would be at the present frequency, every  *)
(* change having been made right after a measurement.  (CumEarly takes it  *)
(* to have been made right before.)                                        *)
CumEarly(w) ==
    LET cum[j \in 1..RING_SIZE] ==
            IF j = RING_SIZE THEN 0
            ELSE cum[j + 1] + Apart(w, j, j + 1) * (w[j].freq - w[RING_SIZE].freq)
    IN  cum

Cum(w) ==
    LET cum[j \in 1..RING_SIZE] ==
            IF j = RING_SIZE THEN 0
            ELSE cum[j + 1] + Apart(w, j, j + 1) * (w[j + 1].freq - w[RING_SIZE].freq)
    IN  cum

Envelope(w) ==
    LET cum == Cum(w)
    IN  [at  |-> [j \in 1..RING_SIZE |-> w[j].absolute],
         max |-> [j \in 1..RING_SIZE |-> Scale * (w[j].skew - cum[j] + w[j].errorbar)],
         min |-> [j \in 1..RING_SIZE |-> Scale * (w[j].skew - cum[j] - w[j].errorbar)]]

(* search(): the lines from point j of one curve to the later points of    *)
(* another, and the first of the flattest or the last of the steepest.     *)
Line(at, from, to, j, n) ==
    LET slope == (to[n] - from[j]) \div (at[n] - at[j])
    IN  [from |-> j, to |-> n, slope |-> slope, offset |-> to[n] - slope * at[n]]

LinesFrom(at, from, to, j) == {Line(at, from, to, j, n) : n \in j + 1 .. RING_SIZE}

Flattest(lines) ==
    CHOOSE s \in lines : \A t \in lines :
        s.slope < t.slope \/ (s.slope = t.slope /\ s.to <= t.to)
Steepest(lines) ==
    CHOOSE s \in lines : \A t \in lines :
        s.slope > t.slope \/ (s.slope = t.slope /\ s.to >= t.to)

(***************************************************************************)
(* Passes 2 and 3: the lower hull of the upper ends and the upper hull of  *)
(* the lower ends, each walked from the oldest point to the newest, and    *)
(* the lines that cross over and touch both hulls.                         *)
(***************************************************************************)
Walk(next) ==
    LET at[c \in 1 .. RING_SIZE - 1] ==
            IF c = 1 THEN next[1]
            ELSE LET s == at[c - 1] IN IF s.to = RING_SIZE THEN s ELSE next[s.to]
    IN  {at[c] : c \in 1 .. RING_SIZE - 1}

maxseg(e) ==
    Walk([j \in 1 .. RING_SIZE - 1 |-> Flattest(LinesFrom(e.at, e.max, e.max, j))])
minseg(e) ==
    Walk([j \in 1 .. RING_SIZE - 1 |-> Steepest(LinesFrom(e.at, e.min, e.min, j))])

(* (MinCrossingsLoose forgets the upper limit of the slope.)               *)
MinCrossingsLoose(e, maxsegs) ==
    {check \in {Steepest(LinesFrom(e.at, e.max, e.min, s.from)) : s \in maxsegs} :
        /\ \A s \in maxsegs : s.to = check.from => check.slope > s.slope
        /\ check.from = 1 => check.slope > -2 * MAX_CORRECT * Unit}

MinCrossings(e, maxsegs) ==
    {check \in {Steepest(LinesFrom(e.at, e.max, e.min, s.from)) : s \in maxsegs} :
        /\ \A s \in maxsegs : /\ s.from = check.from => check.slope < s.slope
                              /\ s.to = check.from => check.slope > s.slope
        /\ check.from = 1 => check.slope > -2 * MAX_CORRECT * Unit}

MaxCrossings(e, minsegs) ==
    {check \in {Flattest(LinesFrom(e.at, e.min, e.max, s.from)) : s \in minsegs} :
        /\ \A s \in minsegs : /\ s.from = check.from => check.slope > s.slope
                              /\ s.to = check.from => check.slope < s.slope
        /\ check.from = 1 => check.slope < 2 * MAX_CORRECT * Unit}

(* Both passes keep the first of the flattest crossings.                   *)
Kept(checks) ==
    CHOOSE s \in checks : \A t \in checks :
        s.slope < t.slope \/ (s.slope = t.slope /\ s.from <= t.from)

(***************************************************************************)
(* Pass 4: the corners of the region of consistent lines, and the smallest *)
(* shift that moves one of them on the target, from either side, in units  *)
(* of 1/10 of Unit.                                                        *)
(***************************************************************************)
find_shift(slope, offset) ==
    Max({0, Min({10 * slope - 10 * offset, 10 * slope + 3 * Unit - offset})})

Spliced(maxsegs, minsegs, min, max) ==
    /\ \E s \in maxsegs : s.slope > min.slope
    /\ \E s \in minsegs : s.slope < max.slope

(* (CornersOpen forgets the last corner.)                                  *)
CornersOpen(maxsegs, minsegs, min, max) ==
    {min}
    \cup {s \in maxsegs : min.slope < s.slope /\ s.slope <= max.slope}
    \cup {s \in minsegs : min.slope <= s.slope /\ s.slope < max.slope}

Corners(maxsegs, minsegs, min, max) ==
    {min, max}
    \cup {s \in maxsegs : min.slope < s.slope /\ s.slope <= max.slope}
    \cup {s \in minsegs : min.slope <= s.slope /\ s.slope < max.slope}

polygon(corners) ==
    LET most == 10 * MIN_INIT * Unit
    IN  [l_min |-> Min({most} \cup {find_shift(-s.slope, s.offset) : s \in corners}),
         r_min |-> Min({most} \cup {find_shift(s.slope, -s.offset) : s \in corners})]

(***************************************************************************)
(* Pass 5: the new frequency.  find_df_center() adds a share of the way to *)
(* the centre of the region; factor is Crit / den.                         *)
(***************************************************************************)
(* (find_dfSwapped has the signs the other way round.)                     *)
find_dfSwapped(p) ==
    IF p.l_min = 0 THEN p.r_min ELSE IF p.r_min = 0 THEN -p.l_min ELSE 0

find_df(p) ==
    IF p.l_min = 0 THEN -p.r_min ELSE IF p.r_min = 0 THEN p.l_min ELSE 0

(* In 1/60 of Unit: 0, or the way to the nearer of two target lines.       *)
Delta(min, max, gross) ==
    LET slope == 30 * (max.slope + min.slope) + 6 * gross
        offset == 30 * (max.offset + min.offset)
        delta1 == -offset - slope
        delta2 == -(offset \div 3) - slope
    IN  CASE 3 * max.offset < -5 * Unit \/ 3 * min.offset > 5 * Unit -> 0
          [] offset < 0 /\ delta1 < 0 -> delta1
          [] offset < 0 /\ delta1 >= 0 /\ delta2 > 0 -> delta2
          [] offset >= 0 /\ delta2 < 0 -> delta2
          [] offset >= 0 /\ delta2 >= 0 /\ delta1 > 0 -> delta1
          [] OTHER -> 0

Truncated(a, b) == IF a >= 0 THEN a \div b ELSE -((-a) \div b)

Den(min, max) == 5 * Unit + 3 * (max.offset - min.offset) + 6 * (max.slope - min.slope)

(* delta_f * Ppm + .5, truncated.                                          *)
delta_freq(min, max, gross) ==
    LET den == Den(min, max)
        num == 6 * gross * den + 5 * Unit * Delta(min, max, gross)
        sign == IF den > 0 THEN 1 ELSE -1
    IN  Truncated(sign * (2 * num + 60 * Scale * den), sign * 120 * Scale * den)

(* (ClampedAbove lets a clock be slowed down without limit.)               *)
ClampedAbove(f) == Min({MAX_C, f})

Clamped(f) == Max({-MAX_C, Min({MAX_C, f})})

(* The new frequency, clamped.  Crossings of negative bars may make den 0: *)
(* the quotient is then no number, and its conversion to int undefined.    *)
computed_freq(min, max, gross) ==
    IF Den(min, max) = 0 THEN -MAX_C..MAX_C
    ELSE {Clamped(freq - delta_freq(min, max, gross))}

(***************************************************************************)
(* contemplate_data() from pass 2 on, for a full ring.                     *)
(***************************************************************************)
Inconsistent == printed' = "inconsistent" /\ UNCHANGED <<box, freq>>

Contemplate(e) ==
    LET maxsegs == maxseg(e)
        minsegs == minseg(e)
        mins == MinCrossings(e, maxsegs)
        maxs == MaxCrossings(e, minsegs)
        min == Kept(mins)
        max == Kept(maxs)
    IN  \/ /\ mins = {} \/ maxs = {}
           /\ Inconsistent /\ UNCHANGED df
        \/ /\ mins # {} /\ maxs # {}
           /\ df' = polygon(Corners(maxsegs, minsegs, min, max))
           /\ IF Spliced(maxsegs, minsegs, min, max)
              THEN /\ printed' = "box" /\ box' = <<min, max>>
                   /\ freq' \in computed_freq(min, max, find_df(df'))
              ELSE Inconsistent

(***************************************************************************)
(* rfc1305print() with -l: gap later, the host's clock having drifted, the *)
(* server's answer confines the skew to a bar that it may miss, or that is *)
(* negative: min_delay is taken off the bar whatever the true delay was.   *)
(***************************************************************************)
Measure(gap, noise, errorbar) ==
    LET skewNow == skew - gap * (drift + freq)
        d == [absolute |-> gap, skew |-> skewNow + noise,
              errorbar |-> errorbar, freq |-> freq]
    IN  /\ measured < MaxMeasured /\ measured' = measured + 1
        /\ skew' = skewNow
        /\ d_ring' = Stored(d_ring, d)
        /\ honest' = IF -errorbar < noise /\ noise < errorbar
                      THEN Min({RING_SIZE, honest + 1}) ELSE 0
        /\ IF Len(d_ring') < RING_SIZE
           THEN UNCHANGED <<printed, box, df, freq>>
           ELSE \E e \in {Envelope(d_ring')} : Contemplate(e)
        /\ UNCHANGED drift

(* set_time(), with -s as well as -l, steps the clock under the lock.      *)
SetTime ==
    /\ skew # 0 /\ skew' = 0 /\ honest' = 0
    /\ UNCHANGED <<d_ring, df, printed, box, freq, drift, measured>>

Init ==
    /\ d_ring = <<>> /\ df = [l_min |-> 0, r_min |-> 0]
    /\ printed = "" /\ box = <<>>
    /\ \E host \in Hosts : freq = host.freq /\ drift = host.drift
    /\ skew = 0 /\ honest = 0 /\ measured = 0

Next ==
    \/ \E gap \in 1..MaxGap, answer \in Answers : Measure(gap, answer[1], answer[2])
    \/ SetTime

Spec == Init /\ [][Next]_vars

-----------------------------------------------------------------------------
(***************************************************************************)
(* Properties                                                              *)
(***************************************************************************)

(* The variables keep their types: whatever the frequency was before, from *)
(* the first box on it is in the range of lines 328-329.                   *)
TypeOK ==
    /\ d_ring \in Seq(Data) /\ Len(d_ring) <= RING_SIZE
    /\ df \in [l_min : Nat, r_min : Nat]
    /\ printed \in {"", "inconsistent", "box"}
    /\ freq \in Int /\ (box # <<>> => freq \in -MAX_C..MAX_C)
    /\ drift \in Int /\ skew \in Int
    /\ honest \in 0..RING_SIZE /\ measured \in 0..MaxMeasured

(* The intervals contemplate_data() last worked on, once the ring is full. *)
Full == IF Len(d_ring) = RING_SIZE THEN {Envelope(d_ring)} ELSE {}

(* No bar is negative. *)
Proper(e) == \A j \in 1..RING_SIZE : e.min[j] <= e.max[j]

(* The slopes of the consistent lines by definition: no line is flatter    *)
(* than from the upper end of a point to the lower end of a later one, nor *)
(* steeper than the other way round.                                       *)
Lines(at, from, to) == UNION {LinesFrom(at, from, to, j) : j \in 1 .. RING_SIZE - 1}

Lowest(e) == Max({s.slope : s \in Lines(e.at, e.max, e.min)})
Highest(e) == Min({s.slope : s \in Lines(e.at, e.min, e.max)})
WithinLimits(e) ==
    -2 * MAX_CORRECT * Unit < Lowest(e) /\ Highest(e) < 2 * MAX_CORRECT * Unit

(* No three ends lie on one line, and no error bar is empty.  The strict   *)
(* comparisons of lines 238 and 258 fail on a tie, and "inconsistent" is   *)
(* printed without cause.                                                  *)
NoTies(e) ==
    /\ \A j \in 1..RING_SIZE : e.min[j] < e.max[j]
    /\ \A a, b, c \in {e.min, e.max} :
           \A s \in Lines(e.at, a, b), t \in Lines(e.at, b, c) :
               s.to = t.from => s.slope # t.slope

(* The two walks of passes 2 and 3, which look at later points only and    *)
(* keep the flattest of the crossings in both, find exactly the least and  *)
(* the greatest slope of all consistent lines, whatever the measurements,  *)
(* as long as no bar is negative; "inconsistent" is printed only when no   *)
(* line is consistent, save ties and slopes beyond twice MAX_CORRECT.      *)
BoxExact ==
    \A e \in Full : Proper(e) =>
        /\ printed = "box" => /\ box[1].slope = Lowest(e)
                              /\ box[2].slope = Highest(e)
                              /\ Lowest(e) < Highest(e)
        /\ NoTies(e) /\ WithinLimits(e) /\ Lowest(e) < Highest(e) => printed = "box"

(* Measurements within their error bars, across any changes of frequency   *)
(* made meanwhile (lines 222-227), are accepted, and the printed box       *)
(* brackets the rate at which this host's clock really departs.  After a   *)
(* step of the clock this holds again once the ring has been refilled.     *)
TruthInBox ==
    \A e \in Full :
        honest = RING_SIZE /\ NoTies(e) /\ WithinLimits(e) =>
            LET rate == -(drift + d_ring[RING_SIZE].freq) * Scale
            IN  printed = "box" /\ box[1].slope < rate /\ rate < box[2].slope

(* The segments spliced in pass 4 are all the corners there are: of all    *)
(* consistent lines, not of the corners alone, df holds the smallest shift *)
(* on to the target from either side.                                      *)
LeastShift ==
    \A e \in Full : Proper(e) /\ printed = "box" =>
        LET low(s) == Max({e.min[j] - s * e.at[j] : j \in 1..RING_SIZE})
            high(s) == Min({e.max[j] - s * e.at[j] : j \in 1..RING_SIZE})
            slopes == box[1].slope .. box[2].slope
            most == 10 * MIN_INIT * Unit
        IN  /\ \A s \in slopes : low(s) <= high(s)
            /\ df.l_min = Min({most} \cup {find_shift(-s, high(s)) : s \in slopes})
            /\ df.r_min = Min({most} \cup {find_shift(s, -low(s)) : s \in slopes})

(* When every consistent line says that the clock is slow, or every one    *)
(* that it is fast, the frequency is not changed the other way, whatever   *)
(* find_df_center() adds; and never do both hold, as the comment at line   *)
(* 163 says.  A frequency from before ntpclient that is beyond MAX_CORRECT *)
(* is brought within first, against all lines if need be.                  *)
SteersRight ==
    [][\A e \in Full' : Proper(e) /\ printed' = "box" /\ measured' # measured =>
          /\ df'.l_min = 0 \/ df'.r_min = 0
          /\ df'.r_min > 0 => freq' >= Clamped(freq)
          /\ df'.l_min > 0 => freq' <= Clamped(freq)]_vars
=============================================================================
