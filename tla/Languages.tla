------------------------------ MODULE Languages ------------------------------
(***************************************************************************)
(* Loading the translations and filling in the texts they lack             *)
(* (storage.go, lang.go).                                                  *)
(*                                                                         *)
(* disk[kind][i] is what filesystem i (the built-in files, then the custom *)
(* ones) has: a function from languages to the content of their file.  A   *)
(* section is a partial function from names to texts; "strings" stands for *)
(* every section of plain texts a kind of file has (notifications, the     *)
(* emails), which are all treated alike.  A text is Blank or names the     *)
(* language and the filesystem it was written in.                          *)
(***************************************************************************)
EXTENDS Integers, Sequences, FiniteSets, SequencesExt

CONSTANTS
    LangFiles,      \* what may be on disk, with the common texts and what a kind builds on
    LangOrder       \* the languages in the order of the names of their files

VARIABLES
    disk,           \* what is on disk of each kind that is there
    langs           \* Storage.lang: of each kind loaded so far, its languages

langVars == <<disk, langs>>

Blank   == <<>>
English == "en-us"
Empty   == [n \in {} |-> Blank]

\* fallback is the language a file names to fall back on, or "".
NoContent == [fallback |-> "", strings |-> Empty, quantity |-> Empty, validation |-> Empty]

With(f, k, v) == [x \in DOMAIN f \cup {k} |-> IF x = k THEN v ELSE f[x]]

\* What a file holds: its fallback, its texts and, of a quantity, a text for one and for many.
IsFile(c) ==
    /\ c = [fallback |-> c.fallback, strings |-> c.strings, quantity |-> c.quantity, validation |-> c.validation]
    /\ \A n \in DOMAIN c.quantity :
          c.quantity[n] = [singular |-> c.quantity[n].singular, plural |-> c.quantity[n].plural]

\* What is on disk of a kind: in every filesystem files by the names of their languages,
\* none of which falls back on itself through others.
Loadable(files) ==
    /\ Len(files) \in Nat \ {0} /\ DOMAIN files = 1..Len(files)
    /\ \A i \in DOMAIN files :
          /\ \A l \in DOMAIN files[i] : l \in ToSet(LangOrder) \ {""} /\ IsFile(files[i][l])
          /\ \E depth \in [DOMAIN files[i] -> 0..Cardinality(DOMAIN files[i])] :
                \A l \in DOMAIN files[i] \ {English} :
                    files[i][l].fallback \in DOMAIN files[i] \ {English} => depth[files[i][l].fallback] < depth[l]

\* Every kind builds on the common texts, and the page of a user on the emails.
ASSUME LanguagesAssumption ==
    /\ LangOrder \in Seq(STRING) /\ \A m, n \in DOMAIN LangOrder : LangOrder[m] = LangOrder[n] => m = n
    /\ \A files \in LangFiles :
          /\ DOMAIN files \subseteq {"common", "admin", "email", "user", "pwr", "telegram"}
          /\ "common" \in DOMAIN files /\ ("user" \in DOMAIN files => "email" \in DOMAIN files)
          /\ \A kind \in DOMAIN files : Loadable(files[kind])

-----------------------------------------------------------------------------
(* Patching.                                                               *)

\* The first source that has the text whole; when there are several and none has, what
\* the last but one has, whole or not.  The last one is only asked what names there are.
FirstWith(from, n, none, Whole(_)) ==
    LET tried == SubSeq(from, 1, Len(from) - 1)
        good  == {i \in DOMAIN tried : n \in DOMAIN tried[i] /\ Whole(tried[i][n])}
    IN  CASE tried = <<>> -> from[1][n]
          [] good # {} -> tried[Min(good)][n]
          [] tried # <<>> /\ good = {} -> IF n \in DOMAIN Last(tried) THEN Last(tried)[n] ELSE none

IsText(t) == t # Blank

patchLang_EnglishFirst(to, from) ==
    [n \in DOMAIN to \cup DOMAIN Last(from) |->
        IF n \in DOMAIN to /\ (to[n] # Blank \/ n \notin DOMAIN Last(from)) THEN to[n]
        ELSE Last(from)[n]]
patchLang(to, from) ==
    [n \in DOMAIN to \cup DOMAIN Last(from) |->
        IF n \in DOMAIN to /\ (to[n] # Blank \/ n \notin DOMAIN Last(from)) THEN to[n]
        ELSE FirstWith(from, n, Blank, IsText)]

NoForms == [singular |-> Blank, plural |-> Blank]
BothForms(q) == q.singular # Blank /\ q.plural # Blank

\* Of an entry that is there, only one blank form is filled in.
Completed(q, ev) ==
    IF q.singular = Blank THEN [q EXCEPT !.singular = ev.singular]
    ELSE IF q.plural = Blank THEN [q EXCEPT !.plural = ev.plural] ELSE q

patchQuantityStrings(to, from) ==
    [n \in DOMAIN to \cup DOMAIN Last(from) |->
        LET ev == FirstWith(from, n, NoForms, BothForms)
        IN  CASE n \notin DOMAIN to -> ev
              [] n \in DOMAIN to \cap DOMAIN Last(from) -> Completed(to[n], ev)
              [] OTHER -> to[n]]

\* The common texts of the same language come before those of another.
OfCommon(common, l) == IF l \in DOMAIN common THEN common[l] ELSE NoContent

patchCommonStrings(common, to, l) == patchLang(to, <<OfCommon(common, l).strings>>)

patchCommonQuantityStrings(common, to, l) ==
    LET from == OfCommon(common, l).quantity
    IN  [n \in DOMAIN to \cup DOMAIN from |->
            IF n \in DOMAIN to /\ (to[n] # NoForms \/ n \notin DOMAIN from) THEN to[n] ELSE from[n]]

-----------------------------------------------------------------------------
(* What the six loaders do to a file: before the fallback, and with it.    *)

\* The page of a user also shows texts of the emails.
Prepared(kind, l, c, common, emails) ==
    LET strings == patchCommonStrings(common, c.strings, l)
    IN  CASE kind = "common" -> c
          [] kind \in {"admin", "pwr", "email", "telegram"} -> [c EXCEPT !.strings = strings]
          [] kind = "user" ->
               [c EXCEPT !.strings = patchLang(strings, <<OfCommon(emails, l).strings>>),
                         !.quantity = patchCommonQuantityStrings(common, @, l)]

Patched(kind, c, from) ==
    LET strings    == [i \in DOMAIN from |-> from[i].strings]
        quantity   == [i \in DOMAIN from |-> from[i].quantity]
        validation == [i \in DOMAIN from |-> from[i].validation]
    IN  [c EXCEPT !.strings = patchLang(@, strings),
                  !.quantity = IF kind \in {"common", "admin"}
                               THEN patchQuantityStrings(@, quantity) ELSE @,
                  !.validation = IF kind = "user"
                                 THEN patchQuantityStrings(@, validation) ELSE @]

\* A fallback that was used is not read again, which all loaders but one see to.
MarksFallback(kind) == kind # "pwr"

-----------------------------------------------------------------------------
(* load: one file, its fallback first.  st holds the languages loaded, the *)
(* files not to be read again, and whether the last file could be read.    *)
(* env is [kind, files, common, emails, english]; english is only known    *)
(* once every filesystem was asked for it.                                 *)

Keep(st, l, c) == [st EXCEPT !.langs = With(@, l, c), !.ok = TRUE]

\* With the fallback found, or not.
KeepPatched(env, st, i, l, c) ==
    IF ~st.ok THEN Keep(st, l, Patched(env.kind, c, <<env.english>>))
    ELSE [Keep(st, l, Patched(env.kind, c, <<st.langs[c.fallback], env.english>>))
            EXCEPT !.marked = @ \cup (IF MarksFallback(env.kind) THEN {<<i, c.fallback>>} ELSE {})]

\* loaded[x] is what loading x leaves, from st on: its fallback comes first, if it is not there.
Load(env, st, i, l) ==
    LET file == env.files[i]
        loaded[x \in DOMAIN file \cup {l} \cup {file[m].fallback : m \in DOMAIN file}] ==
            IF x \notin DOMAIN file THEN [st EXCEPT !.ok = FALSE]
            ELSE LET c  == Prepared(env.kind, x, file[x], env.common, env.emails)
                     fb == c.fallback
                 IN  CASE x = English -> Keep(st, x, c)
                       [] x # English /\ fb \in {""} \cup DOMAIN st.langs ->
                            KeepPatched(env, [st EXCEPT !.ok = (fb # "")], i, x, c)
                       [] OTHER -> KeepPatched(env, loaded[fb], i, x, c)
    IN  loaded[l]

\* A file that was read is not read again, nor is that of English when it is missing.
LoadOnce(env, st, f) ==
    IF f \in st.marked \/ f[2] \notin DOMAIN env.files[f[1]] \cup {English} THEN st
    ELSE [Load(env, st, f[1], f[2]) EXCEPT !.marked = @ \cup {f}]

LoadFiles(env, st, order) == FoldLeft(LAMBDA s, f : LoadOnce(env, s, f), st, order)

\* The files of one filesystem, in the order of their names.
LoadFilesystem(env, st, i, order) == LoadFiles(env, st, [n \in DOMAIN order |-> <<i, order[n]>>])

LoadFilesystems(env, st, order) ==
    FoldLeft(LAMBDA s, i : LoadFilesystem(env, s, i, order), st, [i \in DOMAIN env.files |-> i])

\* English of every filesystem, then the others of each.
LoadOthers(env, st, order) ==
    IF English \notin DOMAIN st.langs THEN st.langs
    ELSE LoadFilesystems([env EXCEPT !.english = st.langs[English]], st, order).langs

LoadLanguages(kind, files, common, emails, order) ==
    LET env == [kind |-> kind, files |-> files, common |-> common, emails |-> emails, english |-> NoContent]
    IN  LoadOthers(env, LoadFiles(env, [langs |-> [l \in {} |-> NoContent], ok |-> FALSE, marked |-> {}],
                                  [i \in DOMAIN files |-> <<i, English>>]), order)

-----------------------------------------------------------------------------
(* loadLang: the kinds in this order, until one of them fails.             *)

Kinds == <<"common", "admin", "email", "user", "pwr", "telegram">>

NoLangs == [l \in {} |-> NoContent]

\* A kind fails without English, or with nothing else when the last filesystem has no English.
Fails(files) == /\ English \notin DOMAIN files[Len(files)]
                /\ \/ \A i \in DOMAIN files : English \notin DOMAIN files[i]
                   \/ \A i \in DOMAIN files : DOMAIN files[i] \subseteq {English}

LangInit == disk \in LangFiles /\ langs = NoLangs

LoadKind(kind, common, emails) ==
    /\ kind \in DOMAIN disk \ DOMAIN langs
    /\ LET before == {Kinds[i] : i \in 1..(CHOOSE i \in DOMAIN Kinds : Kinds[i] = kind) - 1}
       IN  \A k \in before \cap DOMAIN disk : k \in DOMAIN langs /\ ~Fails(disk[k])
    /\ langs' = With(langs, kind, LoadLanguages(kind, disk[kind], common, emails, LangOrder))
    /\ UNCHANGED disk

loadLangCommon   == LoadKind("common", Empty, Empty)
loadLangAdmin    == LoadKind("admin", langs["common"], Empty)
loadLangEmail    == LoadKind("email", langs["common"], Empty)
loadLangUser     == LoadKind("user", langs["common"], langs["email"])
loadLangPWR      == LoadKind("pwr", langs["common"], Empty)
loadLangTelegram == LoadKind("telegram", langs["common"], Empty)

LangNext == \/ loadLangCommon \/ loadLangAdmin \/ loadLangEmail \/ loadLangUser
            \/ loadLangPWR \/ loadLangTelegram

-----------------------------------------------------------------------------
\* The last filesystem with a file of the language, and that file.
Latest(files, l) == Max({i \in DOMAIN files : l \in DOMAIN files[i]})
Own(files, l) == files[Latest(files, l)][l]
Single(files, l) == Cardinality({i \in DOMAIN files : l \in DOMAIN files[i]}) = 1

HasText(f, n) == n \in DOMAIN f /\ f[n] # Blank

\* Some other language falls back on it.
FallenBackOn(files, l) == \E i \in DOMAIN files : \E m \in DOMAIN files[i] : files[i][m].fallback = l

\* The files that l may take a text from: its own, and those of the fallbacks it comes to.
AllOf(files) == UNION {DOMAIN files[i] : i \in DOMAIN files}
Closed(files, l, S) ==
    l \in S /\ \A i \in DOMAIN files : \A m \in S \cap DOMAIN files[i] :
                    files[i][m].fallback \in AllOf(files) => files[i][m].fallback \in S
Chain(files, l) == {m \in AllOf(files) : \A S \in SUBSET AllOf(files) : Closed(files, l, S) => m \in S}
Sources(files, l) == UNION {{files[i][m] : m \in Chain(files, l) \cap DOMAIN files[i]} : i \in DOMAIN files}

\* It was loaded before l, and the emails do not come before it; and it stays as it was then,
\* which is not said of the kind that reads a fallback again when its own has changed.
FollowsFallback(kind, files, all, l, fb) ==
    /\ fb \in DOMAIN all /\ kind # "user"
    /\ Single(files, fb) /\ Single(files, l) /\ Latest(files, fb) <= Latest(files, l)
    /\ ~MarksFallback(kind) => Own(files, fb).fallback = ""

\* What loader `kind` promises of language l, of which `own` is the file.
Filled(kind, files, all, l, own) ==
    LET en   == all[English]
        mine == all[l]
        fb   == own.fallback
    IN  /\ \A n \in DOMAIN en.strings : HasText(en.strings, n) => HasText(mine.strings, n)
        /\ Single(files, l) \/ ~FallenBackOn(files, l) =>
             \A n \in DOMAIN own.strings :
                 own.strings[n] # Blank => mine.strings[n] = own.strings[n]
        /\ FollowsFallback(kind, files, all, l, fb) =>
             \A n \in DOMAIN en.strings \cap DOMAIN all[fb].strings :
                 \/ HasText(own.strings, n)
                 \/ kind # "common" /\ HasText(OfCommon(langs["common"], l).strings, n)
                 \/ mine.strings[n] = all[fb].strings[n]
        /\ kind \in {"common", "admin"} =>
             \A n \in DOMAIN en.quantity :
                 BothForms(en.quantity[n]) =>
                    \/ n \in DOMAIN mine.quantity /\ BothForms(mine.quantity[n])
                    \/ \E c \in Sources(files, l) : n \in DOMAIN c.quantity /\ c.quantity[n] = NoForms

\* The six loaders (storage.go:1088): a language has a text wherever English has one; its
\* own text is kept; without one, nor a common one, it has that of its fallback - except
\* for a language in two filesystems, whose second file is not read once it served as a
\* fallback there.  Of texts with two forms only an entry that has neither, its own or one
\* of a fallback it comes to, keeps a blank.
LanguagesFilled ==
    \A kind \in DOMAIN langs : \A l \in DOMAIN langs[kind] \ {English} :
        Filled(kind, disk[kind], langs[kind], l, Own(disk[kind], l))

=============================================================================
