------------------------------ MODULE Progress ------------------------------
(***************************************************************************)
(* progress.cpp, wget's progress gauges: which of the two implementations  *)
(* is used, the dots, and the bar with its ring of recent speeds.  Times   *)
(* are in milliseconds, sizes in units of 10^Zeros bytes.  Of an image     *)
(* the parts are kept that an assertion or the width of the screen bounds. *)
(***************************************************************************)
EXTENDS Integers, Sequences

CONSTANTS
    Names,          \* arguments of set_progress_implementation
    Terminals,      \* widths the terminal may have, 0 if it is none
    InitialSizes,   \* lengths, downloaded before and in all; 0: unknown
    HowMuch,        \* bytes told to progress_update, 0 included
    Steps,          \* time between updates
    MaxUpdates,     \* bound on the updates of one gauge (model)
    Ring,           \* DLSPEED_HISTORY_SIZE, 20
    DotBytes, RowBytes, DotsInLine,     \* 1000, 100000, 1000
    Zeros

ASSUME ProgressAssumption ==
    /\ Terminals \subseteq Nat /\ InitialSizes \subseteq Nat /\ HowMuch \subseteq Nat
    /\ Steps \subseteq Int /\ Zeros \in Nat
    /\ {Ring, DotBytes, RowBytes, DotsInLine} \subseteq Nat \ {0}
    /\ RowBytes % DotBytes = 0 /\ RowBytes <= DotBytes * DotsInLine

VARIABLES
    impl, locked,   \* current_impl ("none" at first), current_impl_locked
    redirected,     \* output_redirected
    screen, winch,  \* screen_width, received_sigwinch
    gauge,          \* what progress_create returned; NoGauge
    image,          \* what the bar last drew
    now,            \* dltime of the last call
    got, updates,   \* history: bytes told, in so many updates;
    samples         \* for each sample since the ring was scratched, the time
                    \* and the bytes of all up to it

pvars == <<impl, locked, redirected, screen, winch, gauge, image, now, got, updates, samples>>

NoGauge == [kind |-> "none"]
NoImage == [width |-> 0]

-----------------------------------------------------------------------------
(* Choice of the implementation.  A name is [matches, params]: "bar:force" *)
(* matches bar with params "force"; a prefix such as "" matches dot first. *)

\* set_progress_implementation with bar_set_params, which falls back to
\* "dot" (a recursive call) unless "force" has locked the bar.
SetImplementation(name) ==
    /\ gauge = NoGauge     \* callers choose before there is one
    /\ \/ name.matches = "dot" /\ impl' = "dot" /\ locked' = FALSE
       \/ name.matches = "bar" /\ name.params = "force" /\ impl' = "bar" /\ locked' = TRUE
       \/ name.matches = "bar" /\ name.params # "force" /\ impl' = "dot" /\ locked' = FALSE
    /\ UNCHANGED <<redirected, screen, winch, gauge, image, now, got, updates, samples>>

ScheduleRedirect ==
    /\ redirected' = TRUE
    /\ UNCHANGED <<impl, locked, screen, winch, gauge, image, now, got, updates, samples>>

\* The implementation progress_create uses: after a redirection the
\* fallback, unless the bar is locked.
Current == IF redirected /\ ~ locked THEN "dot" ELSE impl

-----------------------------------------------------------------------------
(* The dots. *)

dot_create(initial, total) ==
    LET remainder == initial % RowBytes
    IN  [kind |-> "dot", initial |-> initial, total |-> total,
         accumulated |-> remainder % DotBytes,
         dots |-> remainder \div DotBytes,
         rows |-> initial \div RowBytes]

\* A dot for each DotBytes; a row ends at DotsInLine dots.
dot_update(dp, howmuch) ==
    LET acc == dp.accumulated + howmuch
        dots == dp.dots + acc \div DotBytes
    IN  [dp EXCEPT !.accumulated = acc % DotBytes,
                   !.dots = dots % DotsInLine,
                   !.rows = @ + dots \div DotsInLine]

\* The amount whose percentage of the total dot_finish prints.
DotsClaim(dp) == dp.rows * RowBytes + dp.dots * DotBytes + dp.accumulated

-----------------------------------------------------------------------------
(* The bar. *)

MaxOf(a, b) == IF a >= b THEN a ELSE b
Digits(n) == CHOOSE d \in 1 .. 19 : (d = 19 \/ n < 10 ^ d) /\ (d = 1 \/ ~ n < 10 ^ (d - 1))

\* strlen(with_thousand_seps(size)): the digits and a comma for each group
\* of three after the first.
Legible(size) ==
    LET d == IF size = 0 THEN 1 ELSE Digits(size) + Zeros IN d + (d - 1) \div 3

\* " ETA mm:ss" with its padding; nothing is printed beyond 99 hours but
\* as many spaces.
EtaLength(eta) ==
    LET hrs == eta \div 3600
    IN  CASE hrs > 99 -> 13
          [] hrs = 0 -> 3 + 10
          [] hrs \in 1 .. 9 -> 1 + 12
          [] OTHER -> 13

EtaShown(bp, dltime) == bp.total > 0 /\ bp.count > 0 /\ dltime > 3000

\* An estimate less than 900 ms old is shown again, unless nothing is left.
EtaKept(bp, dltime) ==
    bp.total # bp.initial + bp.count /\ bp.eta # 0 /\ dltime - bp.etatime < 900

Eta(bp, dltime) ==
    IF EtaKept(bp, dltime) THEN bp.eta
    ELSE (dltime * (bp.total - bp.initial - bp.count)) \div (1000 * bp.count)

ProgressSize(bp) ==
    LET room == bp.width - (4 + 2 + 1 + MaxOf(Legible(bp.initial + bp.count), 11) + 11 + 13)
    IN  IF room < 5 THEN 0 ELSE room

\* Where the middle of "<=>" is drawn when the total is not known.
StarAt(tick, size) ==
    LET ind == tick % (size * 2 - 6)
    IN  IF ind < size - 2 THEN ind + 1 ELSE size - (ind - size + 5)

\* create_image: what is drawn, and the gauge it leaves.
BarDrawn(bp, dltime) ==
    LET size == bp.initial + bp.count
        room == ProgressSize(bp)
        known == bp.total > 0
        \* the assertions bound these only when they are evaluated
        part(n) == IF known THEN (n * room) \div bp.total ELSE 0
    IN  [width |-> bp.width, left |-> bp.total - size, legible |-> Legible(size),
         percentage |-> IF known THEN (100 * size) \div bp.total ELSE 0,
         room |-> room, insz |-> part(bp.initial), dlsz |-> part(size),
         star |-> IF ~ known /\ room > 0 THEN StarAt(bp.tick, room) ELSE 1,
         eta |-> IF EtaShown(bp, dltime) THEN Eta(bp, dltime) ELSE -1,
         length |-> 4 + (IF room > 0 THEN room + 2 ELSE 0)
                      + 1 + MaxOf(Legible(size), 11) + 11
                      + (IF EtaShown(bp, dltime) THEN EtaLength(Eta(bp, dltime))
                         ELSE IF known THEN 13 ELSE 0)]

AfterDrawing(bp, dltime) ==
    [bp EXCEPT !.tick = IF bp.total = 0 /\ ProgressSize(bp) > 0 THEN @ + 1 ELSE @,
               !.eta = IF EtaShown(bp, dltime) THEN Eta(bp, dltime) ELSE @,
               !.etatime = IF EtaShown(bp, dltime) /\ ~ EtaKept(bp, dltime) THEN dltime ELSE @]

Widened(columns) ==
    IF columns = 0 THEN 80 ELSE MaxOf(columns, 45)

\* The ring of the last samples, with the totals of time and of bytes.
NewHist ==
    [times |-> [i \in 0 .. Ring - 1 |-> 0], bytes |-> [i \in 0 .. Ring - 1 |-> 0],
     pos |-> 0, time |-> 0, sum |-> 0]

\* The oldest sample makes room for a new one.
Stored(hist, age, counted) ==
    [times |-> [hist.times EXCEPT ![hist.pos] = age],
     bytes |-> [hist.bytes EXCEPT ![hist.pos] = counted],
     pos   |-> (hist.pos + 1) % Ring,
     time  |-> hist.time - hist.times[hist.pos] + age,
     sum   |-> hist.sum - hist.bytes[hist.pos] + counted]

NewBar(initial, total, width) ==
    [kind |-> "bar", initial |-> initial, total |-> MaxOf(initial, total), count |-> 0,
     shown |-> 0, width |-> width, buffer |-> width + 1, tick |-> 0,
     hist |-> NewHist, start |-> 0, recent |-> 0, stalled |-> FALSE, etatime |-> 0, eta |-> 0]

Stalling(bp, howmuch, dltime) == howmuch = 0 /\ dltime - bp.start >= 5000

\* A sample is taken when the recent period is at least DLSPEED_SAMPLE_MIN long.
Sampled(bp, howmuch, dltime) == howmuch # 0 /\ dltime - bp.start >= 150
SampleTime(bp, dltime) == IF bp.stalled THEN 1000 ELSE dltime - bp.start

\* Mutant: a stall keeps the totals of the ring it scratches.
update_speed_ring_KeepsTotals(bp, howmuch, dltime) ==
    LET counted == bp.recent + howmuch
        hist == bp.hist
    IN  IF Sampled(bp, howmuch, dltime)
        THEN [bp EXCEPT !.stalled = FALSE, !.hist = Stored(hist, SampleTime(bp, dltime), counted),
                        !.start = dltime, !.recent = 0]
        ELSE IF Stalling(bp, howmuch, dltime)
        THEN [bp EXCEPT !.stalled = TRUE, !.recent = 0,
                        !.hist = [NewHist EXCEPT !.time = hist.time, !.sum = hist.sum]]
        ELSE [bp EXCEPT !.recent = counted]

update_speed_ring(bp, howmuch, dltime) ==
    LET counted == bp.recent + howmuch IN
    IF Sampled(bp, howmuch, dltime)
    THEN [bp EXCEPT !.stalled = FALSE, !.hist = Stored(bp.hist, SampleTime(bp, dltime), counted),
                    !.start = dltime, !.recent = 0]
    ELSE IF Stalling(bp, howmuch, dltime)
    THEN [bp EXCEPT !.stalled = TRUE, !.hist = NewHist, !.recent = 0]
    ELSE [bp EXCEPT !.recent = counted]

\* A server that sends more than it announced raises the total.
Counted(bp, howmuch) ==
    LET size == bp.initial + bp.count + howmuch
    IN  [bp EXCEPT !.count = @ + howmuch,
                   !.total = IF @ > 0 THEN MaxOf(@, size) ELSE @]

\* The running total, of time (1) or bytes (2), up to sample i.
SoFar(s, c, i) == IF i = 0 THEN 0 ELSE s[i][c]

-----------------------------------------------------------------------------
ProgressInit ==
    /\ impl = "none" /\ locked = FALSE /\ redirected = FALSE
    /\ screen = 0 /\ winch = FALSE
    /\ gauge = NoGauge /\ image = NoImage
    /\ now = 0 /\ got = 0 /\ updates = 0 /\ samples = <<>>

\* progress_create.  bar_create leaves most of the structure as malloc
\* returned it: here the memory was zero.
Create(initial, total) ==
    /\ impl # "none" /\ gauge = NoGauge
    /\ impl' = Current /\ redirected' = FALSE
    /\ \/ /\ Current = "dot"
          /\ gauge' = dot_create(initial, total)
          /\ UNCHANGED <<screen, winch, image>>
       \/ /\ Current = "bar"
          /\ IF screen = 0 \/ winch
             THEN (\E columns \in Terminals : screen' = Widened(columns)) /\ winch' = FALSE
             ELSE UNCHANGED <<screen, winch>>
          /\ LET bp == NewBar(initial, total, screen' - 1)
             IN  image' = BarDrawn(bp, 0) /\ gauge' = AfterDrawing(bp, 0)
    /\ UNCHANGED <<locked, now, got, updates, samples>>

\* bar_create on memory that was not zero: every field it does not set is
\* undefined, the position in the ring among them, and so is what follows.
CreateOnDirtyMemory ==
    /\ impl # "none" /\ gauge = NoGauge /\ Current = "bar"
    /\ impl' = Current /\ redirected' = FALSE
    /\ gauge' = [kind |-> "undefined"]
    /\ UNCHANGED <<locked, screen, winch, image, now, got, updates, samples>>

\* progress_update.
Update(howmuch, dltime) ==
    /\ now' = dltime /\ got' = got + howmuch /\ updates' = updates + 1
    /\ \/ /\ gauge.kind = "dot"
          /\ gauge' = dot_update(gauge, howmuch)
          /\ UNCHANGED <<screen, winch, image, samples>>
       \/ /\ gauge.kind = "bar"
          /\ IF winch THEN \E columns \in Terminals : screen' = Widened(columns)
             ELSE UNCHANGED screen
          /\ winch' = FALSE
          /\ samples' = IF Sampled(gauge, howmuch, dltime)
                        THEN Append(samples,
                                 <<SoFar(samples, 1, Len(samples)) + SampleTime(gauge, dltime),
                                   SoFar(samples, 2, Len(samples)) + gauge.recent + howmuch>>)
                        ELSE IF Stalling(gauge, howmuch, dltime) THEN <<>> ELSE samples
          /\ LET counted == update_speed_ring(Counted(gauge, howmuch), howmuch, dltime)
                 resized == IF screen' # screen
                            THEN [counted EXCEPT !.width = screen' - 1, !.buffer = screen']
                            ELSE counted
             IN  IF dltime - gauge.shown < 200 /\ screen' = screen
                 THEN gauge' = counted /\ UNCHANGED image
                 ELSE /\ image' = BarDrawn(resized, dltime)
                      /\ gauge' = [AfterDrawing(resized, dltime) EXCEPT !.shown = dltime]
    /\ UNCHANGED <<impl, locked, redirected>>

\* progress_finish frees the gauge after a last image.
Finish ==
    /\ gauge # NoGauge
    /\ image' = IF gauge.kind = "bar" THEN BarDrawn(gauge, now) ELSE image
    /\ gauge' = NoGauge /\ now' = 0 /\ got' = 0 /\ updates' = 0 /\ samples' = <<>>
    /\ UNCHANGED <<impl, locked, redirected, screen, winch>>

\* progress_handle_sigwinch.
WindowChanges ==
    /\ winch' = TRUE
    /\ UNCHANGED <<impl, locked, redirected, screen, gauge, image, now, got, updates, samples>>

ProgressNext ==
    \/ \E name \in Names : SetImplementation(name)
    \/ ScheduleRedirect
    \/ \E initial, total \in InitialSizes : Create(initial, total)
    \/ CreateOnDirtyMemory
    \/ \E howmuch \in HowMuch, step \in Steps :
          updates < MaxUpdates /\ Update(howmuch, now + step)
    \/ Finish
    \/ WindowChanges

ProgressSpec == ProgressInit /\ [][ProgressNext]_pvars

-----------------------------------------------------------------------------
\* The totals of the ring are those of its samples, and these are the last Ring
\* ones since it was last scratched, the difference of two running totals:
\* neither the wrap-around nor a stall leaves an old sample in (the check
\* disabled at progress.cpp:705).
RingIsWindow ==
    gauge.kind = "bar" =>
        LET n == Len(samples)
            out == IF n > Ring THEN n - Ring ELSE 0
        IN  /\ gauge.hist.time = SoFar(samples, 1, n) - SoFar(samples, 1, out)
            /\ gauge.hist.sum = SoFar(samples, 2, n) - SoFar(samples, 2, out)

\* The assertions of create_image: whatever the server sends, the terminal
\* does and the gauge was told, the parts fit the bar and, for less than 10^12
\* bytes (15 columns), the image fits the buffer allocated for the width it was
\* drawn for.  Beyond that the assertion fails in a terminal too narrow.
ImageFits ==
    /\ image # NoImage =>
          /\ image.percentage <= 100
          /\ image.insz <= image.dlsz /\ image.dlsz <= image.room
          /\ image.room > 0 => image.star \in 1 .. image.room - 1
          /\ image.legible <= 15 => image.length <= image.width
    /\ gauge.kind = "bar" => gauge.buffer = gauge.width + 1

\* The value kept to avoid flicker is not shown for a complete download.
CompleteShowsNoEta ==
    image # NoImage /\ image.left = 0 => image.eta \in {-1, 0}

\* The dots account for every byte there is, and the percentage shown never
\* claims more than that (it claims less once a row is full: a row is
\* DotsInLine dots and counted as RowBytes).
DotsAccount ==
    gauge.kind = "dot" =>
        LET skipped == gauge.initial \div RowBytes
        IN  /\ gauge.initial + got =
                  skipped * RowBytes + (gauge.rows - skipped) * DotsInLine * DotBytes
                  + gauge.dots * DotBytes + gauge.accumulated
            /\ DotsClaim(gauge) <= gauge.initial + got

\* What the gauges keep in several fields agrees with the bytes they were told
\* of, over stalls, resumed files and sizes that turn out wrong.
GaugesTrue == RingIsWindow /\ ImageFits /\ CompleteShowsNoEta /\ DotsAccount
=============================================================================
