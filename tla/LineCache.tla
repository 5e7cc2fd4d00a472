------------------------------ MODULE LineCache ------------------------------
(***************************************************************************)
(* The last lines of the log, which the administrator can read             *)
(* (linecache/linecache.go).  Lines are counted from 0.                    *)
(***************************************************************************)
EXTENDS Integers, Sequences, FiniteSets, SequencesExt

CONSTANTS
    LineCount,      \* the capacity
    Lines,          \* lines, NoLine among them for an empty one
    MaxLines        \* bound on the lines of one write and of all

NoLine == "none"

ASSUME LineAssumption == LineCount \in Nat \ {0} /\ MaxLines \in Nat

VARIABLES
    lines, current,
    written         \* every line there ever was

lineVars == <<lines, current, written>>

LinesInit ==
    /\ lines = [i \in 0..(LineCount - 1) |-> NoLine]
    /\ current = 0
    /\ written = <<>>

\* Write: one text, split into its lines; empty ones are skipped.
Put_WrapsEarly(st, line) ==
    LET at == IF st.current >= LineCount - 1 THEN 0 ELSE st.current
    IN  IF line = NoLine THEN st
        ELSE [lines |-> [st.lines EXCEPT ![at] = line], current |-> at + 1,
              written |-> Append(st.written, line)]
Put(st, line) ==
    LET at == IF st.current = LineCount THEN 0 ELSE st.current
    IN  IF line = NoLine THEN st
        ELSE [lines |-> [st.lines EXCEPT ![at] = line], current |-> at + 1,
              written |-> Append(st.written, line)]

Write ==
    \E text \in BoundedSeq(Lines, MaxLines) :
        LET full == FoldLeft(Put, [lines |-> lines, current |-> current, written |-> written], text)
        IN  /\ text # <<>> /\ Len(written) + Len(text) <= MaxLines
            /\ lines' = full.lines /\ current' = full.current /\ written' = full.written

LinesNext == Write

\* From the oldest line on, up to the place of the next one.
ReadFrom(i) ==
    LET place(n) == (i + n - 1) % LineCount
        last == Min({n \in 1..LineCount : place(n) + 1 = current}
                    \cup {n - 1 : n \in {m \in 1..LineCount : lines[place(m)] = NoLine}})
    IN  [n \in 1..last |-> lines[place(n)]]

LinesText ==
    ReadFrom(IF lines[LineCount - 1] # NoLine /\ current # LineCount THEN current ELSE 0)

-----------------------------------------------------------------------------
\* What is read (linecache.go:46) is what was written last, in its order, as much as there
\* is room for, wherever the cache has wrapped and however the writes were split.
LastLinesRead ==
    LET n == IF Len(written) < LineCount THEN Len(written) ELSE LineCount
    IN  LinesText = SubSeq(written, Len(written) - n + 1, Len(written))

=============================================================================
