---------------------------- MODULE ActivityCache ----------------------------
(***************************************************************************)
(* The cache of the activities of Jellyfin (jf_activity.go): a ring of the *)
(* newest entries, filled by asking for what happened since the last sync, *)
(* and the index of each user's entries.                                   *)
(*                                                                         *)
(* Jellyfin's log is a sequence of users; the id of an entry is its place. *)
(***************************************************************************)
EXTENDS Integers, Sequences, FiniteSets, Selections

CONSTANTS
    ActivityLimit,  \* the size of the ring
    JFUsers,
    MaxEntries      \* bound on the log of Jellyfin

ASSUME ActivityAssumption == ActivityLimit \in Nat \ {0}

NoEntry == -1
NoSync  == -1
Cell    == 0..(ActivityLimit - 1)
EmptyIndex == [u \in JFUsers |-> <<>>]

VARIABLES
    jfLog,              \* external: the log of Jellyfin
    cache,              \* the ring
    start, end,         \* the cells of the newest and the oldest entry
    byEntryID,          \* the cell of each entry
    byUserID,           \* the cells of each user's entries
    total,
    lastYieldingSync,   \* the length of the log when a sync last brought something
    thisSync,           \* that when the sync under way began, or NoSync
    overrun             \* a sync has overwritten more than one entry, or all

cacheVars == <<jfLog, cache, start, end, byEntryID, byUserID, total,
               lastYieldingSync, thisSync, overrun>>

-----------------------------------------------------------------------------
ActivityInit ==
    /\ jfLog = <<>>
    /\ cache = [i \in Cell |-> NoEntry] /\ start = -1 /\ end = -1
    /\ byEntryID = <<>> /\ byUserID = EmptyIndex /\ total = 0
    /\ lastYieldingSync = 0 /\ thisSync = NoSync
    /\ overrun = FALSE

\* External: something happens at Jellyfin.
Happens(u) ==
    /\ Len(jfLog) < MaxEntries
    /\ jfLog' = Append(jfLog, u)
    /\ UNCHANGED <<cache, start, end, byEntryID, byUserID, total, lastYieldingSync, thisSync, overrun>>

\* MaybeSync, the cache being stale: one sync at a time, the others wait for it.
BeginSync ==
    /\ thisSync = NoSync
    /\ thisSync' = Len(jfLog)
    /\ UNCHANGED <<jfLog, cache, start, end, byEntryID, byUserID, total, lastYieldingSync, overrun>>

SyncFails ==
    /\ thisSync # NoSync
    /\ thisSync' = NoSync
    /\ UNCHANGED <<jfLog, cache, start, end, byEntryID, byUserID, total, lastYieldingSync, overrun>>

\* The answer, newest first: what came since, and one entry that came before it, as the
\* source is not trusted fully.  It also has what came after thisSync, which the next sync
\* gets again.
Answers ==
    LET Newest(n) == [i \in 1..n |-> Len(jfLog) + 1 - i]
        most(n)   == IF n < ActivityLimit THEN n ELSE ActivityLimit
    IN  {Newest(most(Len(jfLog) - lastYieldingSync)),
         Newest(most(Len(jfLog) - lastYieldingSync + (IF lastYieldingSync > 0 THEN 1 ELSE 0)))}

\* The entries up to the first that is known.
New_All(items, known) == items
New(items, known) ==
    LET dupes == {i \in DOMAIN items : items[i] \in known}
    IN  IF dupes = {} THEN items ELSE SubSeq(items, 1, Min(dupes) - 1)

\* The cells from i to j, going up and around.
Cells(i, j) == [n \in 1..(((j - i) % ActivityLimit) + 1) |-> (i + n - 1) % ActivityLimit]

\* The index is built anew: the new entries, then the old ones, from the old start to the end.
Of(u, ring, cells) == Within(cells, {c \in ToSet(cells) : jfLog[ring[c]] = u})
Index(ring, fresh, old) == [u \in JFUsers |-> Of(u, ring, fresh \o old)]

\* What the ring and the index are once the new entries are in.
TakeIn(new) ==
    LET n       == Len(new)
        first   == IF start = -1 THEN 0 ELSE (start - n) % ActivityLimit
        fresh   == [i \in 1..n |-> (first + i - 1) % ActivityLimit]
        lost    == {cache[c] : c \in ToSet(fresh)} \ {NoEntry}
        ring    == [c \in Cell |-> IF c \in ToSet(fresh)
                                   THEN new[CHOOSE i \in 1..n : fresh[i] = c] ELSE cache[c]]
        newEnd  == LET e == IF start = -1 THEN n - 1 ELSE end
                   IN  IF cache[first] # NoEntry THEN (e - 1) % ActivityLimit ELSE e
    IN  IF n = 0
        THEN UNCHANGED <<cache, start, end, byEntryID, byUserID, total, lastYieldingSync, overrun>>
        ELSE /\ cache' = ring /\ start' = first /\ end' = newEnd
             /\ byEntryID' = [e \in (DOMAIN byEntryID \ lost) \cup ToSet(new) |->
                                  CHOOSE c \in Cell : ring[c] = e]
             /\ byUserID' = Index(ring, fresh, IF start = -1 THEN <<>> ELSE Cells(start, newEnd))
             /\ total' = total + n - Cardinality(lost)
             /\ lastYieldingSync' = thisSync
             /\ overrun' = (overrun \/ Cardinality(lost) > 1 \/ (start # -1 /\ n = ActivityLimit))

FinishSync ==
    /\ thisSync # NoSync
    /\ \E items \in Answers : TakeIn(New(items, DOMAIN byEntryID))
    /\ thisSync' = NoSync
    /\ UNCHANGED jfLog

ActivityNext ==
    \/ \E u \in JFUsers : Happens(u)
    \/ BeginSync
    \/ SyncFails
    \/ FinishSync

-----------------------------------------------------------------------------
\* ByUserID and ByEntryID.
ByUserID(u) == [i \in DOMAIN byUserID[u] |-> cache[byUserID[u][i]]]
ByEntryID(id) == cache[byEntryID[id]]

\* The cache (jf_activity.go:33) has the newest entries up to the last it has got, each
\* under its id and once, and lists those of a user from the newest on; the lists are right
\* until a sync overwrites more than one entry, or all, and `end` is not the oldest any more.
RecentActivityKept ==
    LET held   == ToSet([i \in 1..ActivityLimit |-> cache[i - 1]]) \ {NoEntry}
        newest == IF held = {} THEN 0 ELSE Max(held)
        wanted == {e \in 1..newest : e > newest - ActivityLimit}
    IN  /\ held = wanted /\ total = Cardinality(wanted)
        /\ DOMAIN byEntryID = wanted /\ \A id \in wanted : ByEntryID(id) = id
        /\ ~overrun => \A u \in JFUsers :
               /\ ToSet(ByUserID(u)) = {id \in wanted : jfLog[id] = u}
               /\ \A i, j \in DOMAIN byUserID[u] : i < j => ByUserID(u)[i] > ByUserID(u)[j]

=============================================================================
