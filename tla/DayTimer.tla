------------------------------ MODULE DayTimer ------------------------------
(***************************************************************************)
(* The timer behind the reminders of an expiry (timer.go): asked now and   *)
(* then whether one of its deltas is due, given when one went off last.    *)
(* Times are hours, and a day has 24.                                      *)
(***************************************************************************)
EXTENDS Integers, Sequences, FiniteSets, SequencesExt

CONSTANTS
    DeltaLists,     \* the settings: sequences of deltas, in hours
    Sinces,         \* the times the deltas count from
    Starts, Gaps,   \* when the timer is asked first, and the time between two questions
    Horizon         \* bound on time

ASSUME DayTimerAssumption ==
    /\ \A list \in DeltaLists : list \in Seq(Int)
    /\ Sinces \subseteq Int /\ Starts \subseteq Nat /\ Gaps \subseteq Nat

MAX_MIN_INTERVAL == 18
Never == -1
Day(t) == t \div 24
Distance(s, t) == IF s < t THEN t - s ELSE s - t

VARIABLES
    now,        \* the time of the last question
    begun,      \* the time of the first one
    since,      \* what the deltas count from
    deltas,     \* DayTimerSet.deltas
    lastFired,  \* what the caller remembers
    fired,      \* all times it went off
    regular     \* the questions never were more than six hours apart

timerVars == <<now, begun, since, deltas, lastFired, fired, regular>>

-----------------------------------------------------------------------------
Rested(last, t) == last # Never => Day(last) # Day(t) /\ t - last >= MAX_MIN_INTERVAL

Due_AnyTime(d, from, last, t) == Rested(last, t) /\ Distance(t, from + d) <= MAX_MIN_INTERVAL
Due(d, from, last, t) ==
    /\ d # 0
    /\ Rested(last, t)
    /\ Day(from + d) = Day(t)
    /\ Distance(t, from + d) <= MAX_MIN_INTERVAL

\* The delta that is due and nearest, the first of several, or 0.
Check(list, from, last, t) ==
    LET Nearer(best, d) ==
            IF /\ Due(d, from, last, t)
               /\ best = 0 \/ Distance(t, from + d) < Distance(t, from + best)
            THEN d ELSE best
    IN  FoldLeft(Nearer, 0, list)

-----------------------------------------------------------------------------
TimerInit ==
    /\ deltas \in DeltaLists /\ since \in Sinces
    /\ now \in Starts /\ begun = now
    /\ lastFired = Never /\ fired = {} /\ regular = TRUE

\* The daemon asks, sends a reminder and remembers the time.
Ask ==
    \E gap \in Gaps :
        LET t == now + gap
            goesOff == Check(deltas, since, lastFired, t) # 0
        IN  /\ t <= Horizon
            /\ now' = t
            /\ lastFired' = IF goesOff THEN t ELSE lastFired
            /\ fired' = IF goesOff THEN fired \cup {t} ELSE fired
            /\ regular' = (regular /\ gap <= 6)
            /\ UNCHANGED <<begun, since, deltas>>

TimerNext == Ask

-----------------------------------------------------------------------------
\* The unit of the daemon's deltas is the day (user-d.go:15).
WholeDays == \A i \in DOMAIN deltas : deltas[i] % 24 = 0

\* Check (timer.go:47): reminders go out on the days that are asked for, one on a day and
\* 18 hours apart, and if the deltas are whole days, none of these days that was watched from
\* its beginning to its end is left out, although a late reminder holds back the next one.
RemindersOnTime ==
    LET days == {Day(since + deltas[i]) : i \in {j \in DOMAIN deltas : deltas[j] # 0}}
    IN  /\ \A t \in fired : Day(t) \in days
        /\ \A t, u \in fired : t < u => Day(t) # Day(u) /\ u - t >= MAX_MIN_INTERVAL
        /\ regular /\ WholeDays =>
               \A d \in days : Day(begun) < d /\ d < Day(now) => \E t \in fired : Day(t) = d

=============================================================================
