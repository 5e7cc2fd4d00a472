----------------------------- MODULE MCServices -----------------------------
(* Small inputs for every part of Services. *)
EXTENDS Services, TLC

Flag(f, v) == [field |-> f, class |-> "bool", op |-> "=", flag |-> v]
Text(f, op, v) == [field |-> f, class |-> "string", op |-> op, text |-> v]
Date(f, op, d, h) == [field |-> f, class |-> "date", op |-> op, date |-> [day |-> d, hour |-> h]]

\* Four accounts: names that differ only in case, equal flags, times that are not set.
Account(id, name, label, disabled, active, expires) ==
    [f \in TextField |-> CASE f = "id" -> id [] f = "name" -> name
                           [] f \in {"email", "label"} -> label [] OTHER -> <<>>]
    @@ [f \in FlagField |-> f \in {"admin", "disabled"} /\ disabled]
    @@ [last_active |-> active, expiry |-> expires]
U1 == Account(<<1>>, <<101, 2>>, <<>>, FALSE, <<1, 5>>, NoTime)
U2 == Account(<<2>>, <<2>>, <<103>>, TRUE, <<1, 7>>, <<2, 3>>)
U3 == Account(<<3>>, <<1, 102>>, <<2>>, TRUE, NoTime, <<1, 3>>)
U4 == Account(<<4>>, <<3, 1>>, <<2, 1>>, FALSE, <<2, 5>>, NoTime)
MCJellyfinUsers == {<<U1, U2, U3, U4>>, <<U4, U3, U2, U1>>, <<U3, U1, U4, U2>>}

MCUserRequests ==
    [field : {"name", "disabled", "expiry", "last_active", "label"}, ascending : BOOLEAN,
     terms : {{}, {<<2>>}, {<<1>>, <<3>>}},
     queries : {{}, {Flag("disabled", TRUE)}, {Flag("email", FALSE)},
                {Flag("expiry", TRUE), Date("last_active", "<", 1, LeftOut)},
                {Date("last_active", ">", LeftOut, 5)}, {Text("name", "<", <<102>>)}},
     limit : 1..3]

\* Activities of each kind of source.
MCUserNames == [x \in {<<1>>, <<2>>} |-> IF x = <<1>> THEN <<101, 2>> ELSE <<3>>]
Act(id, type, user, st, src, value, time) ==
    [id |-> <<id>>, type |-> type, user_id |-> user, source_type |-> st, source |-> src,
     invite_code |-> <<>>, value |-> value, time |-> time, ip |-> <<>>]
A1 == Act(11, "creation", <<1>>, "user", <<2>>, <<5>>, <<1, 1>>)
A2 == Act(12, "disabled", <<2>>, "admin", <<1>>, <<>>, <<1, 3>>)
A3 == Act(13, "deletion", <<4>>, "daemon", <<>>, <<3, 2>>, <<2, 1>>)
A4 == Act(14, "creation", <<2>>, "anon", <<>>, <<3>>, <<2, 2>>)
MCLogs == {<<A1, A2, A3>>, <<A1, A2, A3, A4>>}
MCLaterActivities == {Act(15, "enabled", <<2>>, "admin", <<>>, <<2>>, <<3, 2>>),
                      Act(16, "deletion", <<2>>, "admin", <<>>, <<2>>, <<3, 4>>)}
MCActivityRequests ==
    [field : {"time", "value", "name"}, ascending : BOOLEAN,
     terms : {{}, {<<2>>}, {<<5>>, <<1>>}},
     queries : {{}, {Flag("accountCreation", TRUE)},
                {Flag("accountDisabled", FALSE), Text("actor", "=", <<52>>)},
                {Text("mentionedUsers", "=", <<3>>)}, {Flag("referrer", FALSE)},
                {Text("referrer", "=", <<3>>)}, {Date("time", "<", 2, LeftOut)},
                {Text("value", "=", <<3>>)}},
     limit : 1..3]

\* Files with plain texts or with forms, in one filesystem; plain ones in two.
Only(n, v) == [x \in {n} |-> v]
Forms(s, p) == [singular |-> s, plural |-> p]
Content(fb, str, qty) == [fallback |-> fb, strings |-> str, quantity |-> qty, validation |-> qty]
Plain(l, i, fbs) == {Content(fb, s, Empty) :
                        fb \in fbs, s \in {Empty, Only("a", Blank), Only("a", <<l, i>>)}}
Quantified(l, i, fbs) ==
    {Content(fb, Empty, Only("q", q)) :
        fb \in fbs, q \in {NoForms, Forms(<<l, i>>, Blank), Forms(<<l, i>>, <<l, i>>)}}
Any1(l, i, fbs) == Plain(l, i, fbs) \cup Quantified(l, i, fbs)
Maybe(l, contents) == {Empty} \cup {Only(l, c) : c \in contents}
Two(en, i, de, fr) == {e @@ d @@ f : e \in en, d \in Maybe("de", de), f \in Maybe("fr", fr)}
Said(i) == Only(English, Content("", Only("a", <<English, i>>), Empty))
\* A fallback that has a fallback, in one filesystem and, for some languages, in another.
Chained(l, i, fb) == {Only(l, c) : c \in Plain(l, i, {fb})}
Again(l, i, fb) == {Empty} \cup IF l = "fr" THEN {} ELSE {Only(l, Content(fb, Only("a", <<l, i>>), Empty))}
Asked(l, i, fb) == {Only(l, c) : c \in Quantified(l, i, {fb}) \cup {Content(fb, Empty, Empty)}}
Three(en, i, File(_, _, _)) ==
    {en @@ d @@ p @@ f : d \in File("de", i, "pt"), p \in File("pt", i, "fr"), f \in File("fr", i, "")}
CommonFiles ==
    {<<Only(English, Content("", Only("a", <<"common", 1>>), Empty))>>,
     <<Only(English, Content("", Empty, Only("q", Forms(<<"common", 1>>, <<"common", 1>>))))
       @@ Only("de", Content("", Only("a", <<"common", 2>>), Empty))>>}
\* A kind beside the common texts and, for the pages of a user, the emails.
Env(kinds, files) ==
    {Only(k, f) @@ (IF k = "user" THEN Only("email", c) ELSE <<>>) @@ Only("common", c) :
        k \in kinds, f \in files, c \in CommonFiles}
MCLangFiles ==
    Env({"common", "admin", "user", "pwr", "email", "telegram"},
        {<<f>> : f \in Two({Only(English, c) : c \in Any1(English, 1, {""})}, 1,
                           Any1("de", 1, {"", "fr"}), Any1("fr", 1, {""}))})
    \cup Env({"common", "pwr", "user"},
             {<<f, g>> : f \in Two({Said(1)}, 1, Plain("de", 1, {"", "fr"}), Plain("fr", 1, {""})),
                         g \in Two({Empty, Said(2)}, 2, Plain("de", 2, {"", "fr"}), Plain("fr", 2, {""}))})
    \cup Env({"admin", "pwr"}, {<<f, g>> : f \in Three(Said(1), 1, Chained), g \in Three(Empty, 2, Again)})
    \cup Env({"admin"}, {<<f>> : f \in Three(Only(English, Content("", Empty, Only("q", Forms(<<1>>, <<1>>)))),
                                            1, Asked)})
MCLangOrder == <<"de", English, "fr", "pt">>

MCNamedValues == Only(<<"n">>, <<"x", "x">>) @@ Only(<<"x">>, <<"{">>) @@ Only(<<>>, <<"}">>)
MCListedValues == <<<<"x">>, <<>>>>

\* Plans, good ones and bad ones, in lists of up to two.
P1 == Plan(<<1>>, <<101, BLANK>>, TRUE, 5, <<>>, TRUE, "bad", 0, 1)
MCPlanRequests ==
    BoundedSeq({P1, [P1 EXCEPT !.ID = <<BLANK, 101>>], [P1 EXCEPT !.ID = <<1, BLANK, SIGN>>],
                [P1 EXCEPT !.ID = <<UNDERSCORE>>, !.Name = <<BLANK, 101, BLANK, 102, SIGN>>],
                [P1 EXCEPT !.ID = <<>>, !.Name = <<1>>, !.Recurring = FALSE],
                [P1 EXCEPT !.ID = <<2>>, !.Name = <<1>>, !.Currency = <<105>>],
                [P1 EXCEPT !.ID = <<1, BLANK, 2>>, !.Name = <<113, 15, 14>>, !.Price = 7,
                           !.Currency = <<105, 121, 118>>, !.AccessMonths = 0, !.AccessDays = 7],
                [P1 EXCEPT !.Price = 0], [P1 EXCEPT !.AccessMonths = 0],
                [P1 EXCEPT !.Name = <<BLANK>>], [P1 EXCEPT !.AccessDays = -1],
                [P1 EXCEPT !.ID = <<4>>, !.Enabled = FALSE, !.Profile = "", !.Interval = "year",
                           !.IntervalCount = 2]}, 2)

MCBackupSettings == [keep : 0..3, previous : BOOLEAN]
MCOldFiles ==
    {{}, {<<PREFIX, DASH, 1, SUFFIX>>, <<UPLOAD_PREFIX, PREFIX, DASH, 2, SUFFIX>>,
          <<PREFIX, DATE_PREFIX, 100, SUFFIX>>,
          <<PREFIX, DATE_PREFIX, 3, COMMIT_PREFIX, 100, SUFFIX>>}}

\* Requests for the shared list are any two.
MCSymmetry == Permutations(Slots)

MCDeltaLists == {<<-24>>, <<-72, -48, -24>>, <<-24, -26>>, <<-24, 0, -50, -47>>, <<-30, -31>>}

=============================================================================
