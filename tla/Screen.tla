------------------------------- MODULE Screen -------------------------------
(***************************************************************************)
(* The two windows threads write to: SimpleMWindow (mwui.cpp) and          *)
(* ProgressBar (progress.cpp).  Both keep a list of messages that is       *)
(* changed before the mutex is taken and drawn after, and draw one bar for *)
(* each thread above it; only SimpleMWindow makes room for more bars.      *)
(***************************************************************************)
EXTENDS Integers, Sequences, SequencesExt

CONSTANTS
    Writers,        \* the threads
    Lines,          \* heights of the terminal (LINES)
    Bars,           \* numbers a bar may have
    MaxCalls        \* bound on the calls

ASSUME ScreenAssumption == Lines \subseteq Nat /\ Bars \subseteq Nat /\ MaxCalls \in Nat

VARIABLES
    window,         \* which class, and LINES
    msgs,           \* mMsgLists or mMsgLists of the other class, newest first
    barHeight,      \* mBarHeight
    shown,          \* row -> what was last written there
    holder,         \* who holds mAddStrMutex or mMsgOutMutex
    call,           \* what each thread is doing: [at, bar, msg, row]
    calls, drawn,   \* history: calls made, bars drawn
    raced, stale    \* history: see Racing, Draw

wvars == <<window, msgs, barHeight, shown, holder, call, calls, drawn, raced, stale>>

Free == "free"
None == <<"none", 0>>
Bar(r) == <<"bar", r>>
Msg(n) == <<"msg", n>>
Idle == [at |-> "idle", bar |-> -1, msg |-> None, row |-> 0]

\* SimpleMWindow::Init and ResizeBarHeight, ProgressBar::ProgressBar.
FirstHeight == window.lines \div (IF window.class = "simple" THEN 3 ELSE 2)
\* Mutant: no row for the frame and the last bar.
MsgBegin_Tight(height) == height

MsgBegin(height)  == height + 2
MsgHeight(height) == window.lines - height - 3

ScreenStart(w) ==
    /\ window = w
    /\ msgs = <<>> /\ barHeight = FirstHeight
    /\ shown = [row \in 0 .. window.lines - 1 |-> None]
    /\ holder = Free /\ call = [t \in Writers |-> Idle]
    /\ calls = 0 /\ drawn = {} /\ raced = FALSE /\ stale = FALSE

ScreenInit == \E w \in [class : {"simple", "progress"}, lines : Lines] : ScreenStart(w)

\* Two threads are at the list, or at mBarHeight, one of them to change it.
Racing(c) ==
    \E t, u \in Writers :
        /\ t # u
        /\ \/ c[t].at \in {"insert", "truncate"} /\ c[u].at \in {"insert", "truncate", "draw"}
           \/ c[t].at = "resize" /\ c[u].at \in {"resize", "insert", "truncate"}

Does(t, what) ==
    /\ call' = [call EXCEPT ![t] = what]
    /\ raced' = (raced \/ Racing(call'))

Go(t, there) == Does(t, [call[t] EXCEPT !.at = there])

-----------------------------------------------------------------------------
\* AddMessage and Message: the row to start at is read on entry.
SayBegins(t) ==
    /\ call[t].at = "idle" /\ calls < MaxCalls
    /\ calls' = calls + 1
    /\ Does(t, [at |-> "insert", bar |-> -1, msg |-> Msg(calls'), row |-> MsgBegin(barHeight)])
    /\ UNCHANGED <<window, msgs, barHeight, shown, holder, drawn, stale>>

Insert(t) ==
    /\ call[t].at = "insert" /\ Go(t, "truncate")
    /\ msgs' = IF call[t].msg = None THEN msgs ELSE <<call[t].msg>> \o msgs
    /\ UNCHANGED <<window, barHeight, shown, holder, calls, drawn, stale>>

\* size() > mMsgHeight compares unsigned: a negative height is never exceeded.
Truncate(t) ==
    LET height == MsgHeight(barHeight) IN
    /\ call[t].at = "truncate" /\ Go(t, "lock")
    /\ msgs' = IF height >= 0 /\ Len(msgs) > height THEN SubSeq(msgs, 1, height) ELSE msgs
    /\ UNCHANGED <<window, barHeight, shown, holder, calls, drawn, stale>>

Lock(t) ==
    /\ call[t].at \in {"lock", "lockBar"} /\ holder = Free
    /\ holder' = t
    /\ Go(t, IF call[t].at = "lock" THEN "draw" ELSE "drawBar")
    /\ UNCHANGED <<window, msgs, barHeight, shown, calls, drawn, stale>>

\* Newest first in SimpleMWindow, last in ProgressBar.
Drawn == IF window.class = "simple" THEN msgs ELSE Reverse(msgs)

\* What is drawn where the list no longer belongs is stale.
Draw(t) ==
    LET row == call[t].row IN
    /\ call[t].at = "draw" /\ holder' = Free
    /\ shown' = [r \in DOMAIN shown |->
            IF r - row + 1 \in DOMAIN msgs THEN Drawn[r - row + 1] ELSE shown[r]]
    /\ stale' = (stale \/ row # MsgBegin(barHeight))
    /\ IF call[t].bar >= 0 THEN Go(t, "lockBar") ELSE Does(t, Idle)
    /\ UNCHANGED <<window, msgs, barHeight, calls, drawn>>

\* UpdateProgress makes room when r > mBarHeight and redraws the messages, by
\* AddMessage(0); Progress does not.
UpdateBegins(t, r) ==
    LET grows == window.class = "simple" /\ r > barHeight IN
    /\ call[t].at = "idle" /\ calls < MaxCalls
    /\ calls' = calls + 1
    /\ Does(t, [Idle EXCEPT !.at = IF grows THEN "resize" ELSE "lockBar", !.bar = r])
    /\ UNCHANGED <<window, msgs, barHeight, shown, holder, drawn, stale>>

Resize(t) ==
    /\ call[t].at = "resize"
    /\ barHeight' = call[t].bar + 1
    /\ Does(t, [call[t] EXCEPT !.at = "insert", !.row = MsgBegin(barHeight')])
    /\ UNCHANGED <<window, msgs, shown, holder, calls, drawn, stale>>

DrawBar(t) ==
    /\ call[t].at = "drawBar" /\ holder' = Free
    /\ shown' = [r \in DOMAIN shown |-> IF r = call[t].bar + 1 THEN Bar(call[t].bar) ELSE shown[r]]
    /\ drawn' = drawn \cup {call[t].bar}
    /\ Does(t, Idle)
    /\ UNCHANGED <<window, msgs, barHeight, calls, stale>>

Writes(t) ==
    \/ SayBegins(t) \/ Insert(t) \/ Truncate(t) \/ Lock(t) \/ Draw(t)
    \/ \E r \in Bars : UpdateBegins(t, r)
    \/ Resize(t) \/ DrawBar(t)

ScreenNext == \E t \in Writers : Writes(t)

ScreenSpec == ScreenInit /\ [][ScreenNext]_wvars

-----------------------------------------------------------------------------
Sound == ~ raced /\ ~ stale

\* A bar that has been drawn stays where it is: while nobody draws, messages
\* and other bars never cover it, as long as ProgressBar has room for it.
BarsStay ==
    Sound /\ holder = Free =>
        \A r \in drawn :
            r + 1 \in DOMAIN shown /\ (window.class = "simple" \/ r <= barHeight)
                => shown[r + 1] = Bar(r)

\* Every bar that has been drawn is above the messages: SimpleMWindow makes room
\* for it, ProgressBar draws it over them.
Fitting == \A r \in drawn : window.class = "simple" \/ r <= barHeight

\* Between calls the screen shows the list: every message kept is on its row,
\* and no more are kept than there are rows before the frame.
ListShown ==
    Sound /\ Fitting /\ (\A t \in Writers : call[t].at = "idle") =>
        /\ MsgHeight(barHeight) >= 0 => Len(msgs) <= MsgHeight(barHeight)
        /\ \A i \in DOMAIN msgs :
              MsgBegin(barHeight) + i - 1 \in DOMAIN shown =>
                  shown[MsgBegin(barHeight) + i - 1] = Drawn[i]

\* However the calls of the writers interleave, messages and bars keep to
\* their own rows.
ScreenShows == BarsStay /\ ListShown
=============================================================================
