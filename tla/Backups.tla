------------------------------- MODULE Backups -------------------------------
(***************************************************************************)
(* The directory of backups (backups.go, api-backups.go): their names,     *)
(* which carry the version and the date, and the deletion of old ones.     *)
(*                                                                         *)
(* A file name is a sequence of tokens.  A date is a positive number of    *)
(* seconds, a version (commit) a number from Commit on; both are printed   *)
(* in a fixed form, which no other token looks like.                       *)
(***************************************************************************)
EXTENDS Integers, Sequences, FiniteSets, SequencesExt, Selections

CONSTANTS
    BackupSettings,     \* records [keep, previous] of the configuration
    OldFiles,           \* possible contents of the directory at first
    FirstDate, LastDate, LastCommit, MaxBackups     \* bounds

\* The tokens, in the order of their letters.
DASH == -6
COMMIT_PREFIX == -5
DATE_PREFIX == -4
SUFFIX == -3
PREFIX == -2
UPLOAD_PREFIX == -1

NoDate   == 0
NoCommit == 0
Commit   == 100
IsDate(t) == 0 < t /\ t < Commit

VARIABLES
    dir,        \* the names of the files
    date,       \* the clock
    commit,     \* the version that runs
    settings,   \* the configuration
    made,       \* every backup there ever was in the directory
    extra,      \* files since the last backup that were not made by it
    oneLess     \* the last run made no new file: a deletion failed, or it replaced one

backupVars == <<dir, date, commit, settings, made, extra, oneLess>>

-----------------------------------------------------------------------------
(* Names.                                                                  *)

Zero == [date |-> NoDate, commit |-> NoCommit, upload |-> FALSE]

String(b) ==
    (IF b.upload THEN <<UPLOAD_PREFIX>> ELSE <<>>) \o <<PREFIX>>
    \o (IF b.commit # NoCommit THEN <<COMMIT_PREFIX, b.commit>> ELSE <<>>)
    \o <<DATE_PREFIX, b.date, SUFFIX>>

Without(f, prefix) == IF IsPrefix(prefix, f) THEN SubSeq(f, Len(prefix) + 1, Len(f)) ELSE f

\* The names before version names had commits: only a date.
FromOldString(f, b) ==
    LET t == Without(Without(f, <<UPLOAD_PREFIX>>), <<PREFIX, DASH>>)
    IN  IF Len(t) = 2 /\ IsDate(t[1]) /\ t[2] = SUFFIX THEN [b EXCEPT !.date = t[1]] ELSE Zero

\* One field of what is left of a name, if there is one.
Field(st) ==
    CASE IsPrefix(<<COMMIT_PREFIX>>, st.rest) ->
           [st EXCEPT !.b.commit = st.rest[2], !.rest = SubSeq(@, 3, Len(@))]
      [] IsPrefix(<<DATE_PREFIX>>, st.rest) ->
           [st EXCEPT !.b.date = IF IsDate(st.rest[2]) THEN st.rest[2] ELSE NoDate,
                      !.bad = ~IsDate(st.rest[2]), !.rest = SubSeq(@, 3, Len(@))]
      [] OTHER -> st

\* Commit and date in either order; Zero stands for an error.
FromString(f) ==
    LET start == Without(f, <<UPLOAD_PREFIX>>)
        read == Field(Field([b |-> [Zero EXCEPT !.upload = start # f],
                             rest |-> Without(start, <<PREFIX>>), bad |-> FALSE]))
    IN  IF ~IsPrefix(<<PREFIX>>, start) \/ ~IsSuffix(<<SUFFIX>>, f) \/ read.bad THEN Zero
        ELSE IF read.b.date = NoDate THEN FromOldString(f, read.b) ELSE read.b

-----------------------------------------------------------------------------
(* The directory.                                                          *)

\* An entry of the list: a file name and what it says, Zero if it is no backup's.
Entry(f) == [name |-> f, info |-> FromString(f)]
IsBackup(e) == e.info # Zero

\* Names in the order in which a directory is read.
Before(f, g) ==
    LET differ == {i \in DOMAIN f \cap DOMAIN g : f[i] # g[i]}
    IN  IF differ = {} THEN Len(f) < Len(g) ELSE f[Min(differ)] < g[Min(differ)]

\* BackupList.Less: oldest first, and the files that are no backups at the end.
Less(d, e) == IsBackup(d) /\ (IsBackup(e) => d.info.date < e.info.date)

getBackups(files) ==
    LET entries     == {Entry(f) : f \in files}
        First(d, e) == Less(d, e) \/ (~Less(e, d) /\ Before(d.name, e.name))
    IN  Ranked(entries, {p \in entries \X entries : First(p[1], p[2])})

Count(list) == Cardinality({i \in DOMAIN list : IsBackup(list[i])})

\* What the page of backups shows.
GetBackups(files) ==
    LET list == getBackups(files) IN [i \in 1..Count(list) |-> list[i].info]

\* The files makeBackup deletes, in this order: of the oldest, those that are not the last
\* one of their version.
ToDelete_OneMore(list, set) ==
    LET n == Count(list) + 2 - set.keep
    IN  IF 0 < n /\ n <= Count(list) THEN [i \in 1..n |-> list[i].name] ELSE <<>>
ToDelete(list, set) ==
    LET n == Count(list) + 1 - set.keep
        left(gone, e) == Cardinality({i \in DOMAIN list :
            IsBackup(list[i]) /\ list[i].info.commit = e.info.commit /\ list[i].name \notin ToSet(gone)})
        Step(gone, e) == IF set.previous /\ left(gone, e) <= 1 THEN gone ELSE Append(gone, e.name)
    IN  IF 0 < n /\ n <= Count(list) THEN FoldLeft(Step, <<>>, SubSeq(list, 1, n)) ELSE <<>>

\* What a name may say.
BackupType == [date : 1..(Commit - 1), commit : Nat, upload : BOOLEAN]

\* Old backups were made one at a time, before the process began.
ASSUME BackupsAssumption ==
    /\ FirstDate \in 1..(Commit - 1) /\ LastDate \in FirstDate..(Commit - 1) /\ LastCommit \in Nat
    /\ \A s \in BackupSettings : s.keep \in Int /\ s.previous \in BOOLEAN
    /\ \A files \in OldFiles :
          /\ IsFiniteSet(files)
          /\ \A f \in files : f \in Seq(Int) /\
                (IsBackup(Entry(f)) => FromString(f) \in BackupType /\ FromString(f).date < FirstDate)
          /\ \A f, g \in files : IsBackup(Entry(f)) /\ FromString(f) = FromString(g) => f = g

-----------------------------------------------------------------------------
(* Operations.                                                             *)

BackupsInit ==
    /\ settings \in BackupSettings
    /\ dir \in OldFiles
    /\ date = FirstDate /\ commit = Commit
    /\ made = ToSet(GetBackups(dir))
    /\ extra = Cardinality(made)
    /\ oneLess = FALSE

\* CreateBackup and the daemon.  Two in one second have one name.
MakeBackup ==
    LET b == [date |-> date, commit |-> commit, upload |-> FALSE]
    IN  /\ dir' = (dir \ ToSet(ToDelete(getBackups(dir), settings))) \cup {String(b)}
        /\ made' = made \cup {b}
        /\ extra' = 0 /\ oneLess' = (String(b) \in dir)
        /\ UNCHANGED <<date, commit, settings>>

\* A file cannot be deleted: those before it are gone, and no backup is made.
DeletionFails ==
    /\ LET old == ToDelete(getBackups(dir), settings)
       IN  \E n \in 0..(Len(old) - 1) : dir' = dir \ ToSet(SubSeq(old, 1, n))
    /\ oneLess' = TRUE
    /\ UNCHANGED <<date, commit, settings, made, extra>>

\* RestoreBackup: a file is uploaded, to be read on the next start.
RestoreBackup ==
    LET b == [date |-> date, commit |-> NoCommit, upload |-> TRUE]
    IN  /\ dir' = dir \cup {String(b)}
        /\ made' = made \cup {b}
        /\ extra' = IF String(b) \in dir THEN extra ELSE extra + 1
        /\ UNCHANGED <<date, commit, settings, oneLess>>

Second == date < LastDate /\ date' = date + 1 /\ UNCHANGED <<dir, commit, settings, made, extra, oneLess>>

Upgrade == /\ commit < LastCommit /\ commit' = commit + 1
           /\ UNCHANGED <<dir, date, settings, made, extra, oneLess>>

BackupsNext ==
    \/ Cardinality(made) < MaxBackups /\ MakeBackup
    \/ DeletionFails
    \/ Cardinality(made) < MaxBackups /\ RestoreBackup
    \/ Second
    \/ Upgrade

-----------------------------------------------------------------------------
\* Whatever is made, uploaded and upgraded (makeBackup, backups.go:186): the page of backups
\* has the newest `keep` of all backups there ever were, one for each version, and no more
\* than these and the files that have come since the last backup; with keep < 1 all of them.
BackupsKept ==
    LET shown    == GetBackups(dir)
        newer(b) == {c \in made \ {b} : c.date >= b.date}
        kept     == IF oneLess THEN settings.keep - 1 ELSE settings.keep
    IN  IF settings.keep < 1 THEN made \subseteq ToSet(shown)
        ELSE /\ \A b \in made : Cardinality(newer(b)) < kept => b \in ToSet(shown)
             /\ settings.previous =>
                    \A b \in made : \E c \in ToSet(shown) : c.commit = b.commit
             /\ Len(shown) <= settings.keep + Cardinality({b.commit : b \in made}) + extra

=============================================================================
