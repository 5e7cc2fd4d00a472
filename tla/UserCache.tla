------------------------------ MODULE UserCache ------------------------------
(***************************************************************************)
(* The list of accounts that all pages share (usercache.go): made anew in  *)
(* a goroutine of the request that finds it old, one at a time, and sorted *)
(* in place by the first request that wants it in order.                   *)
(*                                                                         *)
(* What the list is made from is a version; a handler that changes it      *)
(* says so afterwards.  A slot is a request with its goroutine, and serves *)
(* the next one when both are done.                                        *)
(***************************************************************************)
EXTENDS Integers, Sequences, FiniteSets

CONSTANTS
    Slots,
    MaxVersions, MaxAsked, MaxSyncFailures      \* bounds

VARIABLES
    version, announced,     \* of the data, and at the last invalidation
    ref, sorted,            \* UserCache.Ref, the number of a list, and Sorted
    list,                   \* that list: the version it is of and whether it is in order;
                            \* history: whether it was old before it was there, and
                            \* whether it came in place while another was sorted
    age,                    \* of the list, by the two timeouts
    syncing, sorting,
    asker, sync,            \* the request and the goroutine of each slot
    reply,                  \* the last answer
    askedTimes, syncFailures

userCacheVars == <<version, announced, ref, sorted, list, age, syncing, sorting, asker,
                   sync, reply, askedTimes, syncFailures>>

Fresh == 0
PastSyncTimeout == 1
PastWaitTimeout == 2        \* and at the zero time
NoList == 0
NoAsker == [at |-> "idle", inOrder |-> FALSE, since |-> 0, seen |-> NoList,
            missed |-> FALSE, early |-> FALSE]
NoUserSync == [at |-> "none", got |-> 0, late |-> FALSE]
NoReply == [of |-> NoList]

Placed == \E d \in Slots : sync[d].at = "finish"      \* a list is in place that still looks old
Step(c, at) == asker' = [asker EXCEPT ![c].at = at]
SyncStep(c, at) == sync' = [sync EXCEPT ![c].at = at]

-----------------------------------------------------------------------------
UserCacheInit ==
    /\ version = 1 /\ announced = 1
    /\ ref = NoList /\ sorted = FALSE
    /\ list = [of |-> 0, inOrder |-> FALSE, late |-> FALSE, intruding |-> FALSE]
    /\ age = PastWaitTimeout /\ syncing = FALSE /\ sorting = FALSE
    /\ asker = [c \in Slots |-> NoAsker] /\ sync = [c \in Slots |-> NoUserSync]
    /\ reply = NoReply
    /\ askedTimes = 0 /\ syncFailures = 0

\* A handler changes an account, then says so (InvalidateWebUserCache).
Change ==
    /\ version < MaxVersions /\ version' = version + 1
    /\ reply' = NoReply
    /\ UNCHANGED <<announced, ref, sorted, list, age, syncing, sorting, asker, sync,
                   askedTimes, syncFailures>>

InvalidateWebUserCache ==
    /\ announced # version
    /\ announced' = version /\ age' = PastWaitTimeout
    /\ sync' = [c \in Slots |-> IF sync[c].at = "publish" /\ sync[c].got < version
                                THEN [sync[c] EXCEPT !.late = TRUE] ELSE sync[c]]
    /\ list' = [list EXCEPT !.late = @ \/ (Placed /\ list.of < version)]
    /\ reply' = NoReply
    /\ UNCHANGED <<version, ref, sorted, syncing, sorting, asker, askedTimes, syncFailures>>

Ages ==
    /\ age < PastWaitTimeout /\ age' = age + 1
    /\ reply' = NoReply
    /\ UNCHANGED <<version, announced, ref, sorted, list, syncing, sorting, asker, sync,
                   askedTimes, syncFailures>>

-----------------------------------------------------------------------------
(* MaybeSync.                                                              *)

\* Never waiting, whatever was said of the list.
MaybeSync_NeverWaits(c, wantsOrder) ==
    /\ asker[c].at = "idle" /\ sync[c].at = "none"
    /\ askedTimes < MaxAsked /\ askedTimes' = askedTimes + 1
    /\ asker' = [asker EXCEPT ![c] = [NoAsker EXCEPT !.at = "list", !.inOrder = wantsOrder, !.since = announced]]
    /\ sync' = IF age = Fresh THEN sync ELSE [sync EXCEPT ![c].at = "begin"]
    /\ reply' = NoReply
    /\ UNCHANGED <<version, announced, ref, sorted, list, age, syncing, sorting,
                   syncFailures>>

\* A request: the goroutine is only waited for when the list is very old, or none.
MaybeSync(c, wantsOrder) ==
    LET at == IF age # Fresh /\ (age = PastWaitTimeout \/ ref = NoList) THEN "wait" ELSE "list"
    IN  /\ asker[c].at = "idle" /\ sync[c].at = "none"
        /\ askedTimes < MaxAsked /\ askedTimes' = askedTimes + 1
        /\ asker' = [asker EXCEPT ![c] = [NoAsker EXCEPT !.at = at, !.inOrder = wantsOrder, !.since = announced]]
        /\ sync' = IF age = Fresh THEN sync ELSE [sync EXCEPT ![c].at = "begin"]
        /\ reply' = NoReply
        /\ UNCHANGED <<version, announced, ref, sorted, list, age, syncing, sorting,
                       syncFailures>>

syncOnly == <<version, announced, sorting, askedTimes>>

\* Under SyncLock: whether somebody synchronises already.
BeginUserSync(c) ==
    /\ sync[c].at = "begin"
    /\ SyncStep(c, IF syncing THEN "spin" ELSE "fetch") /\ syncing' = TRUE
    /\ reply' = NoReply
    /\ UNCHANGED <<syncOnly, ref, sorted, list, age, asker, syncFailures>>

Fetch(c) ==
    /\ sync[c].at = "fetch"
    /\ sync' = [sync EXCEPT ![c] = [at |-> "publish", got |-> version, late |-> FALSE]]
    /\ reply' = NoReply
    /\ UNCHANGED <<syncOnly, ref, sorted, list, age, syncing, asker, syncFailures>>

\* Jellyfin does not answer: those who wait for it to end will not hear of that.
FetchFails(c) ==
    /\ sync[c].at = "fetch"
    /\ syncFailures < MaxSyncFailures /\ syncFailures' = syncFailures + 1
    /\ syncing' = FALSE
    /\ SyncStep(c, "error")
    /\ asker' = [d \in Slots |-> IF sync[d].at = "spin" THEN [asker[d] EXCEPT !.missed = TRUE] ELSE asker[d]]
    /\ reply' = NoReply
    /\ UNCHANGED <<syncOnly, ref, sorted, list, age>>

\* The list is put in place before it is called unsorted and new.
Publish(c) ==
    /\ sync[c].at = "publish"
    /\ ref' = ref + 1
    /\ list' = [of |-> sync[c].got, inOrder |-> FALSE, late |-> sync[c].late, intruding |-> sorting]
    /\ SyncStep(c, "finish")
    /\ reply' = NoReply
    /\ UNCHANGED <<syncOnly, sorted, age, syncing, asker, syncFailures>>

FinishUserSync(c) ==
    /\ sync[c].at = "finish"
    /\ sorted' = FALSE /\ age' = Fresh /\ syncing' = FALSE
    /\ SyncStep(c, "send")
    /\ reply' = NoReply
    /\ UNCHANGED <<syncOnly, ref, list, asker, syncFailures>>

\* Those who found it under way wait for its end, and are not told how it ended.
Spin(c) ==
    /\ sync[c].at = "spin" /\ ~syncing
    /\ SyncStep(c, "send")
    /\ reply' = NoReply
    /\ UNCHANGED <<syncOnly, ref, sorted, list, age, syncing, asker, syncFailures>>

\* The status goes to the request; if that did not wait for it, to nobody, for ever.
SendStatus(c) ==
    /\ sync[c].at \in {"send", "error"}
    /\ asker' = CASE asker[c].at # "wait" -> asker
                  [] asker[c].at = "wait" /\ sync[c].at = "error" -> [asker EXCEPT ![c] = NoAsker]
                  [] OTHER -> [asker EXCEPT ![c].at = "list"]
    /\ sync' = [sync EXCEPT ![c] = NoUserSync]
    /\ reply' = NoReply
    /\ UNCHANGED <<syncOnly, ref, sorted, list, age, syncing, syncFailures>>

-----------------------------------------------------------------------------
(* GetUserDTOs, after MaybeSync.                                           *)

listOnly == <<version, announced, ref, age, syncing, sync,
              askedTimes, syncFailures>>

List(c) ==
    /\ asker[c].at = "list"
    /\ LET at == IF asker[c].inOrder /\ ~sorted THEN "claim" ELSE "return"
       IN  asker' = [asker EXCEPT ![c] = [@ EXCEPT !.at = at, !.seen = ref, !.early = Placed]]
    /\ reply' = NoReply
    /\ UNCHANGED <<listOnly, list, sorted, sorting>>

\* Under SortLock: whether somebody sorts already.
ClaimSort(c) ==
    /\ asker[c].at = "claim"
    /\ LET at   == IF sorting THEN "await" ELSE "sort"
           seen == IF sorting THEN asker[c].seen ELSE ref
       IN  asker' = [asker EXCEPT ![c] = [@ EXCEPT !.at = at, !.seen = seen]]
    /\ sorting' = TRUE
    /\ reply' = NoReply
    /\ UNCHANGED <<listOnly, list, sorted>>

\* Whatever list is in place at the end is called sorted.
SortList(c) ==
    /\ asker[c].at = "sort"
    /\ list' = [list EXCEPT !.inOrder = @ \/ asker[c].seen = ref]
    /\ sorted' = TRUE /\ sorting' = FALSE
    /\ Step(c, "return")
    /\ reply' = NoReply
    /\ UNCHANGED listOnly

AwaitSort(c) ==
    /\ asker[c].at = "await" /\ ~sorting
    /\ Step(c, "return")
    /\ reply' = NoReply
    /\ UNCHANGED <<listOnly, list, sorted, sorting>>

\* The list in place now is the answer.
Return(c) ==
    /\ asker[c].at = "return"
    /\ reply' = [of |-> ref, since |-> asker[c].since, inOrder |-> asker[c].inOrder,
                 missed |-> asker[c].missed,
                 replaced |-> ref # asker[c].seen \/ asker[c].early]
    /\ asker' = [asker EXCEPT ![c] = NoAsker]
    /\ UNCHANGED <<listOnly, list, sorted, sorting>>

UserCacheNext ==
    \/ Change \/ InvalidateWebUserCache \/ Ages
    \/ \E c \in Slots :
          \/ \E wantsOrder \in BOOLEAN : MaybeSync(c, wantsOrder)
          \/ BeginUserSync(c) \/ Fetch(c) \/ FetchFails(c) \/ Publish(c) \/ FinishUserSync(c) \/ Spin(c)
          \/ SendStatus(c) \/ List(c) \/ ClaimSort(c) \/ SortList(c) \/ AwaitSort(c) \/ Return(c)

UserCacheSpec == UserCacheInit /\ [][UserCacheNext]_userCacheVars

-----------------------------------------------------------------------------
Syncs(c) == sync[c].at \in {"fetch", "publish", "finish"}
Sorts(c) == asker[c].at = "sort"

\* "Only one sync will run at a time" (usercache.go:64), one request at a time sorts, and
\* those who wait for either wait for somebody.
OneSync ==
    /\ \A c, d \in Slots : Syncs(c) /\ Syncs(d) => c = d
    /\ \A c, d \in Slots : Sorts(c) /\ Sorts(d) => c = d
    /\ syncing <=> \E c \in Slots : Syncs(c)
    /\ sorting <=> \E c \in Slots : Sorts(c)

\* What a request answers (MaybeSync, usercache.go:66): everything that was invalidated
\* before it, and in order if it is to be - unless the list was invalidated while it was
\* made, another's sync that it waited for failed, or a list came in place meanwhile.
RepliesCurrent ==
    reply # NoReply =>
        /\ list.of >= reply.since \/ list.late \/ reply.missed
        /\ reply.inOrder => list.inOrder \/ list.intruding \/ reply.replaced

=============================================================================
