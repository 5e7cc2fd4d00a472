------------------------------ MODULE Templates ------------------------------
(***************************************************************************)
(* Filling values into texts (lang.go).  A text is a sequence of letters   *)
(* of one byte, "{", "}" and "n" among them.                               *)
(***************************************************************************)
EXTENDS Integers, Sequences, FiniteSets, SequencesExt

CONSTANTS
    Letters,            \* the letters of a text
    NamedValues,        \* a function from names to texts
    ListedValues,       \* a sequence of texts
    MaxText             \* bound on the length of a text

VARIABLE text

\* Values are texts themselves, and format is given one at least.
ASSUME TextsAssumption ==
    /\ \A name \in DOMAIN NamedValues : NamedValues[name] \in Seq(Letters)
    /\ ListedValues \in Seq(Seq(Letters)) /\ ListedValues # <<>>
    /\ MaxText \in Nat

-----------------------------------------------------------------------------
\* A brace opens anew, whether or not one is open already.
Opened_Once(st, i) == IF st.start = 0 THEN [st EXCEPT !.start = i] ELSE st
Opened(st, i) == [st EXCEPT !.start = i]

\* templateString: the last opening brace counts, unknown names are left alone.
templateString(txt, vals) ==
    LET Step(st, i) ==
            CASE txt[i] = "{" -> Opened(st, i)
              [] txt[i] = "}" /\ st.start # 0 ->
                   LET name == SubSeq(txt, st.start + 1, i - 1)
                   IN  IF name \notin DOMAIN vals THEN [st EXCEPT !.start = 0]
                       ELSE [start |-> 0, end |-> i,
                             out |-> st.out \o SubSeq(txt, st.end + 1, st.start - 1) \o vals[name]]
              [] OTHER -> st
        done == FoldLeft(Step, [start |-> 0, end |-> 0, out |-> <<>>], [i \in DOMAIN txt |-> i])
    IN  done.out \o SubSeq(txt, done.end + 1, Len(txt))

\* format: each {n} takes the next value, as long as there are any.  It stops before the
\* last two letters, which a text of one letter has none of: it is read past its end.
Panicked == "panicked"
format(txt, vals) ==
    LET Step(st, i) ==
            IF st.used < Len(vals) /\ SubSeq(txt, i, i + 2) = <<"{", "n", "}">>
            THEN [used |-> st.used + 1, end |-> i + 2,
                  out |-> st.out \o SubSeq(txt, st.end + 1, i - 1) \o vals[st.used + 1]]
            ELSE st
        done == FoldLeft(Step, [used |-> 0, end |-> 0, out |-> <<>>],
                         [i \in 1..(Len(txt) - 2) |-> i])
    IN  IF Len(txt) = 1 THEN Panicked ELSE done.out \o SubSeq(txt, done.end + 1, Len(txt))

-----------------------------------------------------------------------------
TextInit == text = <<>>
WriteLetter == Len(text) < MaxText /\ \E c \in Letters : text' = Append(text, c)
TextNext == WriteLetter

-----------------------------------------------------------------------------
\* The letters of a text that begin a part to be replaced, and where each part ends.
Parts(Name(_)) ==
    {p \in (DOMAIN text) \X (DOMAIN text) :
        /\ p[1] < p[2] /\ text[p[1]] = "{" /\ text[p[2]] = "}"
        /\ \A k \in (p[1] + 1)..(p[2] - 1) : text[k] \notin {"{", "}"}
        /\ Name(SubSeq(text, p[1] + 1, p[2] - 1))}

Replaced(parts, Value(_)) ==
    FlattenSeq([k \in DOMAIN text |->
        IF \E p \in parts : p[1] = k THEN Value(CHOOSE p \in parts : p[1] = k)
        ELSE IF \E p \in parts : p[1] < k /\ k <= p[2] THEN <<>> ELSE <<text[k]>>])

\* templateString and format (lang.go:173): every name in braces that has a value is
\* replaced by it, as many {n} as there are values by these in their order (of a text of
\* two letters or more, or of none), and every other letter stays where it was, stray and
\* nested braces and unknown names included.
TextsFilled ==
    LET named  == Parts(LAMBDA name : name \in DOMAIN NamedValues)
        listed == Parts(LAMBDA name : name = <<"n">>)
        rank(p) == Cardinality({q \in listed : q[1] <= p[1]})
    IN  /\ templateString(text, NamedValues)
            = Replaced(named, LAMBDA p : NamedValues[SubSeq(text, p[1] + 1, p[2] - 1)])
        /\ Len(text) # 1 => format(text, ListedValues)
            = Replaced({p \in listed : rank(p) <= Len(ListedValues)},
                       LAMBDA p : ListedValues[rank(p)])

=============================================================================
