-------------------------- MODULE Services_proofs --------------------------
(***************************************************************************)
(* Proofs about the parts of Services, for every value of the constants:   *)
(* the pages of accounts and of activities, the shared list of accounts,   *)
(* the last lines of the log, the timer behind the reminders, the cache of *)
(* Jellyfin's activities, the plans, the backups, the translations and the *)
(* texts with values filled in.                                            *)
(*                                                                         *)
(* The parts share no variables, so each has an invariant of its own, for  *)
(* when it is on.  What is needed of sequences, the pages, the backups and *)
(* the texts with values filled in are in Listing_proofs.                  *)
(***************************************************************************)
EXTENDS Services, Listing_proofs

-----------------------------------------------------------------------------
(* One part at a time.                                                     *)

\* The part that is on stays on, and its steps are its own.
LEMMA PartSteps ==
    ASSUME [Next]_vars
    PROVE  /\ part' = part
           /\ part = "users" => [UsersNext]_userVars
           /\ part = "activities" => [ListingNext]_actVars
           /\ part = "backups" => [BackupsNext]_backupVars
           /\ part = "shared" => [UserCacheNext]_userCacheVars
           /\ part = "lines" => [LinesNext]_lineVars
           /\ part = "timer" => [TimerNext]_timerVars
           /\ part = "jfLog" => [ActivityNext]_cacheVars
           /\ part = "plans" => [PlansNext]_planVars
           /\ part = "languages" => [LangNext]_langVars
           /\ part = "texts" => [TextNext]_text
<1>1. CASE UNCHANGED vars
  BY <1>1 DEF vars
<1>2. CASE Next
  BY <1>2 DEF Next, Users, Activities, Shared, Translations, Texts, Plans, BackupDir, Timer,
              JFActivity, LogLines
<1> QED BY <1>1, <1>2

-----------------------------------------------------------------------------
(* The pages and the backups.                                              *)

\* A page of accounts that has been read to its end has every account it asked for, once, in
\* order and as many as were counted (SearchUsers, api-users.go:1105).
THEOREM AccountsAreListed == Spec => []UserPages
<1> DEFINE On == part = "users" => UsersInv
<1>1. Init => On
  BY UsersStart DEF Init
<1>2. On /\ [Next]_vars => On'
  BY PartSteps, UsersStep
<1>3. On => UserPages
  BY UsersPromise DEF UserPages
<1> QED BY <1>1, <1>2, <1>3, PTL DEF Spec

\* A page of activities that has been read to its end misses none that was there at first and
\* that it asked for, whatever happens meanwhile (GetActivities, api-activities.go:120).
THEOREM ActivitiesAreListed == Spec => []ActivityPages
<1> DEFINE On == part = "activities" => ActivitiesInv
<1>1. Init => On
  BY ActivitiesStart DEF Init
<1>2. On /\ [Next]_vars => On'
  BY PartSteps, ActivitiesStep
<1>3. On => ActivityPages
  BY ActivitiesPromise DEF ActivityPages
<1> QED BY <1>1, <1>2, <1>3, PTL DEF Spec

\* The directory of backups keeps as many as the settings say and every previous version's
\* last one (makeBackup, backups.go:186).
THEOREM BackupsAreRotated == Spec => []BackupsRotated
<1> DEFINE On == part = "backups" => BackupsInv
<1>1. Init => On
  BY BackupsStart DEF Init
<1>2. On /\ [Next]_vars => On'
  BY PartSteps, BackupsStep
<1>3. On => BackupsRotated
  BY BackupsPromise DEF BackupsRotated
<1> QED BY <1>1, <1>2, <1>3, PTL DEF Spec

-----------------------------------------------------------------------------
(* The list of accounts all requests share, for any number of them.        *)

ListType  == [of : Nat, inOrder : BOOLEAN, late : BOOLEAN, intruding : BOOLEAN]
AskerType == [at : {"idle", "wait", "list", "claim", "sort", "await", "return"}, inOrder : BOOLEAN,
              since : Nat, seen : Nat, missed : BOOLEAN, early : BOOLEAN]
SyncType  == [at : {"none", "begin", "fetch", "publish", "finish", "spin", "send", "error"},
              got : Nat, late : BOOLEAN]

UserCacheTypeOK ==
    /\ version \in Nat /\ announced \in Nat /\ ref \in Nat
    /\ list \in ListType
    /\ sorted \in BOOLEAN /\ syncing \in BOOLEAN /\ sorting \in BOOLEAN
    /\ age \in {Fresh, PastSyncTimeout, PastWaitTimeout}
    /\ asker \in [Slots -> AskerType]
    /\ sync \in [Slots -> SyncType]

\* What is known of versions and of lists only grows.
Behind ==
    /\ announced <= version
    /\ \A c \in Slots : asker[c].since <= announced /\ asker[c].seen <= ref

Current(v) == list.of >= v \/ list.late

\* The list is current when it looks new or was just put in place, when a request has it to
\* answer with, and when one is about to be told so; who waits for a current one waits for
\* somebody who makes it.
NewEnough ==
    /\ age # PastWaitTimeout \/ Placed => Current(announced)
    /\ \A c \in Slots :
          /\ sync[c].at = "publish" => sync[c].got >= announced \/ sync[c].late
          /\ ~asker[c].missed =>
                /\ asker[c].at \in {"list", "claim", "sort", "await", "return"} => Current(asker[c].since)
                /\ asker[c].at = "wait" /\ sync[c].at = "send" => Current(asker[c].since)
                /\ asker[c].at = "wait" /\ sync[c].at = "spin" => Current(asker[c].since) \/ syncing

InSequence == list.inOrder \/ list.intruding

\* The list is in order when it is called so, and when a request that wants it so has it to
\* answer with; who waits for the order waits for somebody who sorts.
WellSorted ==
    /\ sorted /\ ~Placed => InSequence
    /\ \A c \in Slots :
          /\ asker[c].at = "sort" /\ asker[c].seen # ref => list.intruding
          /\ asker[c].at = "await" /\ asker[c].seen = ref => InSequence \/ sorting
          /\ asker[c].at = "return" /\ asker[c].inOrder /\ asker[c].seen = ref /\ ~asker[c].early => InSequence

SharedInv == UserCacheTypeOK /\ OneSync /\ Behind /\ NewEnough /\ WellSorted /\ RepliesCurrent

\* Every step keeps the types (usercache.go:61).
LEMMA TypeStep ==
    ASSUME UserCacheTypeOK, UserCacheNext PROVE UserCacheTypeOK'
<1>a. \A r \in SyncType, a \in {"begin", "fetch", "finish", "spin", "send", "error"} :
          [r EXCEPT !.at = a] \in SyncType
  BY DEF SyncType
<1>b. \A r \in AskerType, a \in {"list", "return"} : [r EXCEPT !.at = a] \in AskerType
  BY DEF AskerType
<1>1. CASE Change
  BY <1>1 DEF Change, UserCacheTypeOK, ListType, AskerType, SyncType, NoAsker, NoUserSync,
       Fresh, PastSyncTimeout, PastWaitTimeout, NoList
<1>2. CASE InvalidateWebUserCache
  <2>1. \A r \in SyncType : [r EXCEPT !.late = TRUE] \in SyncType
    BY DEF SyncType
  <2>2. sync' \in [Slots -> SyncType]
    BY <1>2, <2>1 DEF InvalidateWebUserCache, UserCacheTypeOK
  <2>3. list' \in ListType
    <3>1. \A b \in BOOLEAN : [list EXCEPT !.late = b] \in ListType
      BY DEF UserCacheTypeOK, ListType
    <3>2. (list.late \/ (Placed /\ list.of < version)) \in BOOLEAN
      BY DEF UserCacheTypeOK, ListType
    <3>3. QED
      BY <1>2, <3>1, <3>2 DEF InvalidateWebUserCache
  <2>4. QED
    BY <1>2, <2>2, <2>3 DEF InvalidateWebUserCache, UserCacheTypeOK, PastWaitTimeout
<1>3. CASE Ages
  BY <1>3 DEF Ages, UserCacheTypeOK, ListType, AskerType, SyncType, NoAsker, NoUserSync, Fresh,
       PastSyncTimeout, PastWaitTimeout, NoList
<1>4. ASSUME NEW c \in Slots, NEW wantsOrder \in BOOLEAN, MaybeSync(c, wantsOrder)
      PROVE UserCacheTypeOK'
  <2>1. \A a \in {"wait", "list"} :
            [NoAsker EXCEPT !.at = a, !.inOrder = wantsOrder, !.since = announced] \in AskerType
    BY DEF UserCacheTypeOK, AskerType, NoAsker, NoList
  <2>2. asker' \in [Slots -> AskerType]
    BY <1>4, <2>1 DEF MaybeSync, UserCacheTypeOK
  <2>4. sync' \in [Slots -> SyncType]
    BY <1>4, <1>a DEF MaybeSync, UserCacheTypeOK
  <2>5. QED
    BY <1>4, <2>2, <2>4 DEF MaybeSync, UserCacheTypeOK
<1>5. ASSUME NEW c \in Slots, BeginUserSync(c) PROVE UserCacheTypeOK'
  <2>1. sync' \in [Slots -> SyncType]
    BY <1>5, <1>a DEF BeginUserSync, SyncStep, UserCacheTypeOK
  <2>2. QED
    BY <1>5, <2>1 DEF BeginUserSync, syncOnly, UserCacheTypeOK
<1>6. ASSUME NEW c \in Slots, Fetch(c) PROVE UserCacheTypeOK'
  <2>1. sync' \in [Slots -> SyncType]
    BY <1>6 DEF Fetch, UserCacheTypeOK, SyncType
  <2>2. QED
    BY <1>6, <2>1 DEF Fetch, syncOnly, UserCacheTypeOK
<1>7. ASSUME NEW c \in Slots, FetchFails(c) PROVE UserCacheTypeOK'
  <2>1. \A r \in AskerType : [r EXCEPT !.missed = TRUE] \in AskerType
    BY DEF AskerType
  <2>2. asker' \in [Slots -> AskerType]
    BY <1>7, <2>1 DEF FetchFails, UserCacheTypeOK
  <2>3. sync' \in [Slots -> SyncType]
    BY <1>7 DEF FetchFails, SyncStep, UserCacheTypeOK, SyncType
  <2>4. QED
    BY <1>7, <2>2, <2>3 DEF FetchFails, syncOnly, UserCacheTypeOK
<1>8. ASSUME NEW c \in Slots, Publish(c) PROVE UserCacheTypeOK'
  <2>1. sync' \in [Slots -> SyncType]
    BY <1>8, <1>a DEF Publish, SyncStep, UserCacheTypeOK
  <2>2. ref' \in Nat /\ list' \in ListType
    <3>1. sync[c].got \in Nat /\ sync[c].late \in BOOLEAN
      BY DEF UserCacheTypeOK, SyncType
    <3>2. QED
      BY <1>8, <3>1 DEF Publish, UserCacheTypeOK, ListType
  <2>3. QED
    BY <1>8, <2>1, <2>2 DEF Publish, syncOnly, UserCacheTypeOK
<1>9. ASSUME NEW c \in Slots, FinishUserSync(c) PROVE UserCacheTypeOK'
  <2>1. sync' \in [Slots -> SyncType]
    BY <1>9, <1>a DEF FinishUserSync, SyncStep, UserCacheTypeOK
  <2>2. QED
    BY <1>9, <2>1 DEF FinishUserSync, syncOnly, UserCacheTypeOK, Fresh
<1>10. ASSUME NEW c \in Slots, Spin(c) PROVE UserCacheTypeOK'
  <2>1. sync' \in [Slots -> SyncType]
    BY <1>10, <1>a DEF Spin, SyncStep, UserCacheTypeOK
  <2>2. QED
    BY <1>10, <2>1 DEF Spin, syncOnly, UserCacheTypeOK
<1>11. ASSUME NEW c \in Slots, SendStatus(c) PROVE UserCacheTypeOK'
  <2>1. sync' \in [Slots -> SyncType]
    BY <1>11 DEF SendStatus, UserCacheTypeOK, SyncType, NoUserSync
  <2>2. asker' \in [Slots -> AskerType]
    <3>1. NoAsker \in AskerType
      BY DEF AskerType, NoAsker, NoList
    <3>2. QED
      BY <1>11, <3>1, <1>b DEF SendStatus, UserCacheTypeOK
  <2>3. QED
    BY <1>11, <2>1, <2>2 DEF SendStatus, syncOnly, UserCacheTypeOK
<1>12. ASSUME NEW c \in Slots, List(c) PROVE UserCacheTypeOK'
  <2>1. \A r \in AskerType, n \in Nat, b \in BOOLEAN,
            a \in {"claim", "return"} : [r EXCEPT !.at = a, !.seen = n, !.early = b] \in AskerType
    BY DEF AskerType
  <2>2. asker[c] \in AskerType /\ ref \in Nat /\ Placed \in BOOLEAN
    BY DEF UserCacheTypeOK, Placed
  <2>3. PICK a \in {"claim", "return"} :
            asker' = [asker EXCEPT ![c] = [asker[c] EXCEPT !.at = a, !.seen = ref, !.early = Placed]]
    BY <1>12 DEF List
  <2>4. asker' \in [Slots -> AskerType]
    <3>1. [asker[c] EXCEPT !.at = a, !.seen = ref, !.early = Placed] \in AskerType
      BY <2>1, <2>2
    <3>2. QED
      BY <2>3, <3>1 DEF UserCacheTypeOK
  <2>5. QED
    BY <1>12, <2>4 DEF List, listOnly, UserCacheTypeOK
<1>13. ASSUME NEW c \in Slots, ClaimSort(c) PROVE UserCacheTypeOK'
  <2>1. \A r \in AskerType, n \in Nat, a \in {"sort", "await"} :
            [r EXCEPT !.at = a, !.seen = n] \in AskerType
    BY DEF AskerType
  <2>2. asker[c] \in AskerType /\ asker[c].seen \in Nat /\ ref \in Nat
    BY DEF UserCacheTypeOK, AskerType
  <2>3. PICK a \in {"sort", "await"}, n \in Nat :
            asker' = [asker EXCEPT ![c] = [asker[c] EXCEPT !.at = a, !.seen = n]]
    <3>1. /\ (IF sorting THEN "await" ELSE "sort") \in {"sort", "await"}
          /\ (IF sorting THEN asker[c].seen ELSE ref) \in Nat
      BY <2>2
    <3>2. QED
      BY <1>13, <3>1 DEF ClaimSort
  <2>4. asker' \in [Slots -> AskerType]
    <3>1. [asker[c] EXCEPT !.at = a, !.seen = n] \in AskerType
      BY <2>1, <2>2
    <3>2. QED
      BY <2>3, <3>1 DEF UserCacheTypeOK
  <2>5. QED
    BY <1>13, <2>4 DEF ClaimSort, listOnly, UserCacheTypeOK
<1>14. ASSUME NEW c \in Slots, SortList(c) PROVE UserCacheTypeOK'
  <2>1. asker' \in [Slots -> AskerType]
    BY <1>14, <1>b DEF SortList, Step, UserCacheTypeOK
  <2>2. list' \in ListType
    <3>1. \A b \in BOOLEAN : [list EXCEPT !.inOrder = b] \in ListType
      BY DEF UserCacheTypeOK, ListType
    <3>2. QED
      BY <1>14, <3>1 DEF SortList, UserCacheTypeOK, ListType
  <2>3. QED
    BY <1>14, <2>1, <2>2 DEF SortList, listOnly, UserCacheTypeOK
<1>15. ASSUME NEW c \in Slots, AwaitSort(c) PROVE UserCacheTypeOK'
  <2>1. asker' \in [Slots -> AskerType]
    BY <1>15, <1>b DEF AwaitSort, Step, UserCacheTypeOK
  <2>2. QED
    BY <1>15, <2>1 DEF AwaitSort, listOnly, UserCacheTypeOK
<1>16. ASSUME NEW c \in Slots, Return(c) PROVE UserCacheTypeOK'
  <2>1. asker' \in [Slots -> AskerType]
    BY <1>16 DEF Return, UserCacheTypeOK, AskerType, NoAsker, NoList
  <2>2. QED
    BY <1>16, <2>1 DEF Return, listOnly, UserCacheTypeOK
<1>17. QED
  BY <1>1, <1>2, <1>3, <1>4, <1>5, <1>6, <1>7, <1>8, <1>9, <1>10, <1>11, <1>12, <1>13, <1>14,
       <1>15, <1>16 DEF UserCacheNext

\* Every step keeps one goroutine and one sorting request (usercache.go:76, 176).
LEMMA OneSyncStep ==
    ASSUME UserCacheTypeOK, OneSync, UserCacheNext PROVE OneSync'
<1>1. CASE Change
  BY <1>1 DEF Change, OneSync, Syncs, Sorts, UserCacheTypeOK, ListType, AskerType, SyncType,
       NoAsker, NoUserSync
<1>2. CASE InvalidateWebUserCache
  BY <1>2 DEF InvalidateWebUserCache, OneSync, Syncs, Sorts, UserCacheTypeOK, ListType,
       AskerType, SyncType, NoAsker, NoUserSync
<1>3. CASE Ages
  BY <1>3 DEF Ages, OneSync, Syncs, Sorts, UserCacheTypeOK, ListType, AskerType, SyncType,
       NoAsker, NoUserSync
<1>4. ASSUME NEW c \in Slots, NEW wantsOrder \in BOOLEAN, MaybeSync(c, wantsOrder) PROVE OneSync'
  BY <1>4 DEF MaybeSync, NoAsker, OneSync, Syncs, Sorts, UserCacheTypeOK, ListType, AskerType,
       SyncType, NoAsker, NoUserSync
<1>5. ASSUME NEW c \in Slots, BeginUserSync(c) PROVE OneSync'
  BY <1>5 DEF BeginUserSync, syncOnly, SyncStep, OneSync, Syncs, Sorts, UserCacheTypeOK,
       ListType, AskerType, SyncType, NoAsker, NoUserSync
<1>6. ASSUME NEW c \in Slots, Fetch(c) PROVE OneSync'
  BY <1>6 DEF Fetch, syncOnly, OneSync, Syncs, Sorts, UserCacheTypeOK, ListType, AskerType,
       SyncType, NoAsker, NoUserSync
<1>7. ASSUME NEW c \in Slots, FetchFails(c) PROVE OneSync'
  BY <1>7 DEF FetchFails, syncOnly, SyncStep, OneSync, Syncs, Sorts, UserCacheTypeOK, ListType,
       AskerType, SyncType, NoAsker, NoUserSync
<1>8. ASSUME NEW c \in Slots, Publish(c) PROVE OneSync'
  BY <1>8 DEF Publish, syncOnly, SyncStep, OneSync, Syncs, Sorts, UserCacheTypeOK, ListType,
       AskerType, SyncType, NoAsker, NoUserSync
<1>9. ASSUME NEW c \in Slots, FinishUserSync(c) PROVE OneSync'
  BY <1>9 DEF FinishUserSync, syncOnly, SyncStep, OneSync, Syncs, Sorts, UserCacheTypeOK,
       ListType, AskerType, SyncType, NoAsker, NoUserSync
<1>10. ASSUME NEW c \in Slots, Spin(c) PROVE OneSync'
  BY <1>10 DEF Spin, syncOnly, SyncStep, OneSync, Syncs, Sorts, UserCacheTypeOK, ListType,
       AskerType, SyncType, NoAsker, NoUserSync
<1>11. ASSUME NEW c \in Slots, SendStatus(c) PROVE OneSync'
  BY <1>11 DEF SendStatus, syncOnly, OneSync, Syncs, Sorts, UserCacheTypeOK, ListType,
       AskerType, SyncType, NoAsker, NoUserSync
<1>12. ASSUME NEW c \in Slots, List(c) PROVE OneSync'
  <2>1. \A d \in Slots : Sorts(d)' <=> Sorts(d)
    BY <1>12 DEF List, Sorts, UserCacheTypeOK
  <2>2. sync' = sync /\ syncing' = syncing /\ sorting' = sorting
    BY <1>12 DEF List, listOnly
  <2>3. QED
    BY <2>1, <2>2 DEF OneSync, Syncs
<1>13. ASSUME NEW c \in Slots, ClaimSort(c) PROVE OneSync'
  BY <1>13 DEF ClaimSort, listOnly, OneSync, Syncs, Sorts, UserCacheTypeOK, ListType, AskerType,
       SyncType, NoAsker, NoUserSync
<1>14. ASSUME NEW c \in Slots, SortList(c) PROVE OneSync'
  BY <1>14 DEF SortList, listOnly, Step, OneSync, Syncs, Sorts, UserCacheTypeOK, ListType,
       AskerType, SyncType, NoAsker, NoUserSync
<1>15. ASSUME NEW c \in Slots, AwaitSort(c) PROVE OneSync'
  BY <1>15 DEF AwaitSort, listOnly, Step, OneSync, Syncs, Sorts, UserCacheTypeOK, ListType,
       AskerType, SyncType, NoAsker, NoUserSync
<1>16. ASSUME NEW c \in Slots, Return(c) PROVE OneSync'
  BY <1>16 DEF Return, listOnly, OneSync, Syncs, Sorts, UserCacheTypeOK, ListType, AskerType,
       SyncType, NoAsker, NoUserSync
<1>17. QED
  BY <1>1, <1>2, <1>3, <1>4, <1>5, <1>6, <1>7, <1>8, <1>9, <1>10, <1>11, <1>12, <1>13, <1>14,
       <1>15, <1>16 DEF UserCacheNext

\* Versions are announced in order, and lists replace older ones (usercache.go:29).
LEMMA BehindStep ==
    ASSUME UserCacheTypeOK, Behind, UserCacheNext PROVE Behind'
<1>1. CASE Change
  BY <1>1 DEF Change, Behind, UserCacheTypeOK, ListType, AskerType, SyncType, NoAsker, Fresh,
       PastSyncTimeout, PastWaitTimeout, NoList
<1>2. CASE InvalidateWebUserCache
  BY <1>2 DEF InvalidateWebUserCache, Behind, UserCacheTypeOK, ListType, AskerType, SyncType,
       NoAsker, Fresh, PastSyncTimeout, PastWaitTimeout, NoList
<1>3. CASE Ages
  BY <1>3 DEF Ages, Behind, UserCacheTypeOK, ListType, AskerType, SyncType, NoAsker, Fresh,
       PastSyncTimeout, PastWaitTimeout, NoList
<1>4. ASSUME NEW c \in Slots, NEW wantsOrder \in BOOLEAN, MaybeSync(c, wantsOrder) PROVE Behind'
  BY <1>4 DEF MaybeSync, NoAsker, Behind, UserCacheTypeOK, ListType, AskerType, SyncType,
       NoAsker, Fresh, PastSyncTimeout, PastWaitTimeout, NoList
<1>5. ASSUME NEW c \in Slots, BeginUserSync(c) PROVE Behind'
  BY <1>5 DEF BeginUserSync, syncOnly, SyncStep, Behind, UserCacheTypeOK, ListType, AskerType,
       SyncType, NoAsker, Fresh, PastSyncTimeout, PastWaitTimeout, NoList
<1>6. ASSUME NEW c \in Slots, Fetch(c) PROVE Behind'
  BY <1>6 DEF Fetch, syncOnly, Behind, UserCacheTypeOK, ListType, AskerType, SyncType, NoAsker,
       Fresh, PastSyncTimeout, PastWaitTimeout, NoList
<1>7. ASSUME NEW c \in Slots, FetchFails(c) PROVE Behind'
  BY <1>7 DEF FetchFails, syncOnly, SyncStep, Behind, UserCacheTypeOK, ListType, AskerType,
       SyncType, NoAsker, Fresh, PastSyncTimeout, PastWaitTimeout, NoList
<1>8. ASSUME NEW c \in Slots, Publish(c) PROVE Behind'
  BY <1>8 DEF Publish, syncOnly, SyncStep, Behind, UserCacheTypeOK, ListType, AskerType,
       SyncType, NoAsker, Fresh, PastSyncTimeout, PastWaitTimeout, NoList
<1>9. ASSUME NEW c \in Slots, FinishUserSync(c) PROVE Behind'
  BY <1>9 DEF FinishUserSync, syncOnly, SyncStep, Behind, UserCacheTypeOK, ListType, AskerType,
       SyncType, NoAsker, Fresh, PastSyncTimeout, PastWaitTimeout, NoList
<1>10. ASSUME NEW c \in Slots, Spin(c) PROVE Behind'
  BY <1>10 DEF Spin, syncOnly, SyncStep, Behind, UserCacheTypeOK, ListType, AskerType, SyncType,
       NoAsker, Fresh, PastSyncTimeout, PastWaitTimeout, NoList
<1>11. ASSUME NEW c \in Slots, SendStatus(c) PROVE Behind'
  BY <1>11 DEF SendStatus, syncOnly, Behind, UserCacheTypeOK, ListType, AskerType, SyncType,
       NoAsker, Fresh, PastSyncTimeout, PastWaitTimeout, NoList
<1>12. ASSUME NEW c \in Slots, List(c) PROVE Behind'
  BY <1>12 DEF List, listOnly, Behind, UserCacheTypeOK, ListType, AskerType, SyncType, NoAsker,
       Fresh, PastSyncTimeout, PastWaitTimeout, NoList
<1>13. ASSUME NEW c \in Slots, ClaimSort(c) PROVE Behind'
  BY <1>13 DEF ClaimSort, listOnly, Behind, UserCacheTypeOK, ListType, AskerType, SyncType,
       NoAsker, Fresh, PastSyncTimeout, PastWaitTimeout, NoList
<1>14. ASSUME NEW c \in Slots, SortList(c) PROVE Behind'
  BY <1>14 DEF SortList, listOnly, Step, Behind, UserCacheTypeOK, ListType, AskerType, SyncType,
       NoAsker, Fresh, PastSyncTimeout, PastWaitTimeout, NoList
<1>15. ASSUME NEW c \in Slots, AwaitSort(c) PROVE Behind'
  BY <1>15 DEF AwaitSort, listOnly, Step, Behind, UserCacheTypeOK, ListType, AskerType,
       SyncType, NoAsker, Fresh, PastSyncTimeout, PastWaitTimeout, NoList
<1>16. ASSUME NEW c \in Slots, Return(c) PROVE Behind'
  BY <1>16 DEF Return, listOnly, Behind, UserCacheTypeOK, ListType, AskerType, SyncType,
       NoAsker, Fresh, PastSyncTimeout, PastWaitTimeout, NoList
<1>17. QED
  BY <1>1, <1>2, <1>3, <1>4, <1>5, <1>6, <1>7, <1>8, <1>9, <1>10, <1>11, <1>12, <1>13, <1>14,
       <1>15, <1>16 DEF UserCacheNext

\* Nobody gets a list older than what was announced when asking (usercache.go:66).
LEMMA NewEnoughStep ==
    ASSUME UserCacheTypeOK, OneSync, Behind, NewEnough, UserCacheNext PROVE NewEnough'
<1>1. CASE Change
  BY <1>1 DEF Change, OneSync, Syncs, Behind, NewEnough, Current, Placed, UserCacheTypeOK,
       ListType, AskerType, SyncType, NoAsker, NoUserSync, Fresh, PastSyncTimeout,
       PastWaitTimeout, NoList
<1>2. CASE InvalidateWebUserCache
  BY <1>2 DEF InvalidateWebUserCache, OneSync, Syncs, Behind, NewEnough, Current, Placed,
       UserCacheTypeOK, ListType, AskerType, SyncType, NoAsker, NoUserSync, Fresh,
       PastSyncTimeout, PastWaitTimeout, NoList
<1>3. CASE Ages
  BY <1>3 DEF Ages, OneSync, Syncs, Behind, NewEnough, Current, Placed, UserCacheTypeOK,
       ListType, AskerType, SyncType, NoAsker, NoUserSync, Fresh, PastSyncTimeout,
       PastWaitTimeout, NoList
<1>4. ASSUME NEW c \in Slots, NEW wantsOrder \in BOOLEAN, MaybeSync(c, wantsOrder) PROVE NewEnough'
  BY <1>4 DEF MaybeSync, NoAsker, OneSync, Syncs, Behind, NewEnough, Current, Placed,
       UserCacheTypeOK, ListType, AskerType, SyncType, NoAsker, NoUserSync, Fresh,
       PastSyncTimeout, PastWaitTimeout, NoList
<1>5. ASSUME NEW c \in Slots, BeginUserSync(c) PROVE NewEnough'
  BY <1>5 DEF BeginUserSync, syncOnly, SyncStep, OneSync, Syncs, Behind, NewEnough, Current,
       Placed, UserCacheTypeOK, ListType, AskerType, SyncType, NoAsker, NoUserSync, Fresh,
       PastSyncTimeout, PastWaitTimeout, NoList
<1>6. ASSUME NEW c \in Slots, Fetch(c) PROVE NewEnough'
  BY <1>6 DEF Fetch, syncOnly, OneSync, Syncs, Behind, NewEnough, Current, Placed,
       UserCacheTypeOK, ListType, AskerType, SyncType, NoAsker, NoUserSync, Fresh,
       PastSyncTimeout, PastWaitTimeout, NoList
<1>7. ASSUME NEW c \in Slots, FetchFails(c) PROVE NewEnough'
  BY <1>7 DEF FetchFails, syncOnly, SyncStep, OneSync, Syncs, Behind, NewEnough, Current,
       Placed, UserCacheTypeOK, ListType, AskerType, SyncType, NoAsker, NoUserSync, Fresh,
       PastSyncTimeout, PastWaitTimeout, NoList
<1>8. ASSUME NEW c \in Slots, Publish(c) PROVE NewEnough'
  BY <1>8 DEF Publish, syncOnly, SyncStep, OneSync, Syncs, Behind, NewEnough, Current, Placed,
       UserCacheTypeOK, ListType, AskerType, SyncType, NoAsker, NoUserSync, Fresh,
       PastSyncTimeout, PastWaitTimeout, NoList
<1>9. ASSUME NEW c \in Slots, FinishUserSync(c) PROVE NewEnough'
  BY <1>9 DEF FinishUserSync, syncOnly, SyncStep, OneSync, Syncs, Behind, NewEnough, Current,
       Placed, UserCacheTypeOK, ListType, AskerType, SyncType, NoAsker, NoUserSync, Fresh,
       PastSyncTimeout, PastWaitTimeout, NoList
<1>10. ASSUME NEW c \in Slots, Spin(c) PROVE NewEnough'
  BY <1>10 DEF Spin, syncOnly, SyncStep, OneSync, Syncs, Behind, NewEnough, Current, Placed,
       UserCacheTypeOK, ListType, AskerType, SyncType, NoAsker, NoUserSync, Fresh,
       PastSyncTimeout, PastWaitTimeout, NoList
<1>11. ASSUME NEW c \in Slots, SendStatus(c) PROVE NewEnough'
  BY <1>11 DEF SendStatus, syncOnly, OneSync, Syncs, Behind, NewEnough, Current, Placed,
       UserCacheTypeOK, ListType, AskerType, SyncType, NoAsker, NoUserSync, Fresh,
       PastSyncTimeout, PastWaitTimeout, NoList
<1>12. ASSUME NEW c \in Slots, List(c) PROVE NewEnough'
  BY <1>12 DEF List, listOnly, OneSync, Syncs, Behind, NewEnough, Current, Placed,
       UserCacheTypeOK, ListType, AskerType, SyncType, NoAsker, NoUserSync, Fresh,
       PastSyncTimeout, PastWaitTimeout, NoList
<1>13. ASSUME NEW c \in Slots, ClaimSort(c) PROVE NewEnough'
  BY <1>13 DEF ClaimSort, listOnly, OneSync, Syncs, Behind, NewEnough, Current, Placed,
       UserCacheTypeOK, ListType, AskerType, SyncType, NoAsker, NoUserSync, Fresh,
       PastSyncTimeout, PastWaitTimeout, NoList
<1>14. ASSUME NEW c \in Slots, SortList(c) PROVE NewEnough'
  BY <1>14 DEF SortList, listOnly, Step, OneSync, Syncs, Behind, NewEnough, Current, Placed,
       UserCacheTypeOK, ListType, AskerType, SyncType, NoAsker, NoUserSync, Fresh,
       PastSyncTimeout, PastWaitTimeout, NoList
<1>15. ASSUME NEW c \in Slots, AwaitSort(c) PROVE NewEnough'
  BY <1>15 DEF AwaitSort, listOnly, Step, OneSync, Syncs, Behind, NewEnough, Current, Placed,
       UserCacheTypeOK, ListType, AskerType, SyncType, NoAsker, NoUserSync, Fresh,
       PastSyncTimeout, PastWaitTimeout, NoList
<1>16. ASSUME NEW c \in Slots, Return(c) PROVE NewEnough'
  BY <1>16 DEF Return, listOnly, OneSync, Syncs, Behind, NewEnough, Current, Placed,
       UserCacheTypeOK, ListType, AskerType, SyncType, NoAsker, NoUserSync, Fresh,
       PastSyncTimeout, PastWaitTimeout, NoList
<1>17. QED
  BY <1>1, <1>2, <1>3, <1>4, <1>5, <1>6, <1>7, <1>8, <1>9, <1>10, <1>11, <1>12, <1>13, <1>14,
       <1>15, <1>16 DEF UserCacheNext

\* Nobody gets a list called sorted that is not (usercache.go:175).
LEMMA WellSortedStep ==
    ASSUME UserCacheTypeOK, OneSync, Behind, WellSorted, UserCacheNext PROVE WellSorted'
<1>1. CASE Change
  BY <1>1 DEF Change, OneSync, Syncs, Sorts, Behind, WellSorted, InSequence, Placed,
       UserCacheTypeOK, ListType, AskerType, SyncType, NoAsker, NoUserSync, Fresh,
       PastSyncTimeout, PastWaitTimeout, NoList
<1>2. CASE InvalidateWebUserCache
  BY <1>2 DEF InvalidateWebUserCache, OneSync, Syncs, Sorts, Behind, WellSorted, InSequence,
       Placed, UserCacheTypeOK, ListType, AskerType, SyncType, NoAsker, NoUserSync, Fresh,
       PastSyncTimeout, PastWaitTimeout, NoList
<1>3. CASE Ages
  BY <1>3 DEF Ages, OneSync, Syncs, Sorts, Behind, WellSorted, InSequence, Placed, UserCacheTypeOK,
       ListType, AskerType, SyncType, NoAsker, NoUserSync, Fresh, PastSyncTimeout,
       PastWaitTimeout, NoList
<1>4. ASSUME NEW c \in Slots, NEW wantsOrder \in BOOLEAN, MaybeSync(c, wantsOrder) PROVE WellSorted'
  BY <1>4 DEF MaybeSync, NoAsker, OneSync, Syncs, Sorts, Behind, WellSorted, InSequence, Placed,
       UserCacheTypeOK, ListType, AskerType, SyncType, NoAsker, NoUserSync, Fresh,
       PastSyncTimeout, PastWaitTimeout, NoList
<1>5. ASSUME NEW c \in Slots, BeginUserSync(c) PROVE WellSorted'
  BY <1>5 DEF BeginUserSync, syncOnly, SyncStep, OneSync, Syncs, Sorts, Behind, WellSorted,
       InSequence, Placed, UserCacheTypeOK, ListType, AskerType, SyncType, NoAsker, NoUserSync,
       Fresh, PastSyncTimeout, PastWaitTimeout, NoList
<1>6. ASSUME NEW c \in Slots, Fetch(c) PROVE WellSorted'
  BY <1>6 DEF Fetch, syncOnly, OneSync, Syncs, Sorts, Behind, WellSorted, InSequence, Placed,
       UserCacheTypeOK, ListType, AskerType, SyncType, NoAsker, NoUserSync, Fresh,
       PastSyncTimeout, PastWaitTimeout, NoList
<1>7. ASSUME NEW c \in Slots, FetchFails(c) PROVE WellSorted'
  BY <1>7 DEF FetchFails, syncOnly, SyncStep, OneSync, Syncs, Sorts, Behind, WellSorted,
       InSequence, Placed, UserCacheTypeOK, ListType, AskerType, SyncType, NoAsker, NoUserSync,
       Fresh, PastSyncTimeout, PastWaitTimeout, NoList
<1>8. ASSUME NEW c \in Slots, Publish(c) PROVE WellSorted'
  BY <1>8 DEF Publish, syncOnly, SyncStep, OneSync, Syncs, Sorts, Behind, WellSorted, InSequence,
       Placed, UserCacheTypeOK, ListType, AskerType, SyncType, NoAsker, NoUserSync, Fresh,
       PastSyncTimeout, PastWaitTimeout, NoList
<1>9. ASSUME NEW c \in Slots, FinishUserSync(c) PROVE WellSorted'
  BY <1>9 DEF FinishUserSync, syncOnly, SyncStep, OneSync, Syncs, Sorts, Behind, WellSorted,
       InSequence, Placed, UserCacheTypeOK, ListType, AskerType, SyncType, NoAsker, NoUserSync,
       Fresh, PastSyncTimeout, PastWaitTimeout, NoList
<1>10. ASSUME NEW c \in Slots, Spin(c) PROVE WellSorted'
  BY <1>10 DEF Spin, syncOnly, SyncStep, OneSync, Syncs, Sorts, Behind, WellSorted, InSequence,
       Placed, UserCacheTypeOK, ListType, AskerType, SyncType, NoAsker, NoUserSync, Fresh,
       PastSyncTimeout, PastWaitTimeout, NoList
<1>11. ASSUME NEW c \in Slots, SendStatus(c) PROVE WellSorted'
  BY <1>11 DEF SendStatus, syncOnly, OneSync, Syncs, Sorts, Behind, WellSorted, InSequence, Placed,
       UserCacheTypeOK, ListType, AskerType, SyncType, NoAsker, NoUserSync, Fresh,
       PastSyncTimeout, PastWaitTimeout, NoList
<1>12. ASSUME NEW c \in Slots, List(c) PROVE WellSorted'
  BY <1>12 DEF List, listOnly, OneSync, Syncs, Sorts, Behind, WellSorted, InSequence, Placed,
       UserCacheTypeOK, ListType, AskerType, SyncType, NoAsker, NoUserSync, Fresh,
       PastSyncTimeout, PastWaitTimeout, NoList
<1>13. ASSUME NEW c \in Slots, ClaimSort(c) PROVE WellSorted'
  BY <1>13 DEF ClaimSort, listOnly, OneSync, Syncs, Sorts, Behind, WellSorted, InSequence, Placed,
       UserCacheTypeOK, ListType, AskerType, SyncType, NoAsker, NoUserSync, Fresh,
       PastSyncTimeout, PastWaitTimeout, NoList
<1>14. ASSUME NEW c \in Slots, SortList(c) PROVE WellSorted'
  BY <1>14 DEF SortList, listOnly, Step, OneSync, Syncs, Sorts, Behind, WellSorted, InSequence,
       Placed, UserCacheTypeOK, ListType, AskerType, SyncType, NoAsker, NoUserSync, Fresh,
       PastSyncTimeout, PastWaitTimeout, NoList
<1>15. ASSUME NEW c \in Slots, AwaitSort(c) PROVE WellSorted'
  BY <1>15 DEF AwaitSort, listOnly, Step, OneSync, Syncs, Sorts, Behind, WellSorted, InSequence,
       Placed, UserCacheTypeOK, ListType, AskerType, SyncType, NoAsker, NoUserSync, Fresh,
       PastSyncTimeout, PastWaitTimeout, NoList
<1>16. ASSUME NEW c \in Slots, Return(c) PROVE WellSorted'
  BY <1>16 DEF Return, listOnly, OneSync, Syncs, Sorts, Behind, WellSorted, InSequence, Placed,
       UserCacheTypeOK, ListType, AskerType, SyncType, NoAsker, NoUserSync, Fresh,
       PastSyncTimeout, PastWaitTimeout, NoList
<1>17. QED
  BY <1>1, <1>2, <1>3, <1>4, <1>5, <1>6, <1>7, <1>8, <1>9, <1>10, <1>11, <1>12, <1>13, <1>14,
       <1>15, <1>16 DEF UserCacheNext

\* An answer is as good as the list the request has (usercache.go:192).
LEMMA RepliesStep ==
    ASSUME UserCacheTypeOK, NewEnough, WellSorted, UserCacheNext PROVE RepliesCurrent'
<1>1. CASE Change
  BY <1>1 DEF Change, RepliesCurrent, NewEnough, Current, WellSorted, InSequence, UserCacheTypeOK,
       ListType, AskerType, SyncType
<1>2. CASE InvalidateWebUserCache
  BY <1>2 DEF InvalidateWebUserCache, RepliesCurrent, NewEnough, Current, WellSorted, InSequence,
       UserCacheTypeOK, ListType, AskerType, SyncType
<1>3. CASE Ages
  BY <1>3 DEF Ages, RepliesCurrent, NewEnough, Current, WellSorted, InSequence, UserCacheTypeOK,
       ListType, AskerType, SyncType
<1>4. ASSUME NEW c \in Slots, NEW wantsOrder \in BOOLEAN, MaybeSync(c, wantsOrder)
      PROVE RepliesCurrent'
  BY <1>4 DEF MaybeSync, NoAsker, RepliesCurrent, NewEnough, Current, WellSorted, InSequence,
       UserCacheTypeOK, ListType, AskerType, SyncType
<1>5. ASSUME NEW c \in Slots, BeginUserSync(c) PROVE RepliesCurrent'
  BY <1>5 DEF BeginUserSync, syncOnly, SyncStep, RepliesCurrent, NewEnough, Current, WellSorted,
       InSequence, UserCacheTypeOK, ListType, AskerType, SyncType
<1>6. ASSUME NEW c \in Slots, Fetch(c) PROVE RepliesCurrent'
  BY <1>6 DEF Fetch, syncOnly, RepliesCurrent, NewEnough, Current, WellSorted, InSequence,
       UserCacheTypeOK, ListType, AskerType, SyncType
<1>7. ASSUME NEW c \in Slots, FetchFails(c) PROVE RepliesCurrent'
  BY <1>7 DEF FetchFails, syncOnly, SyncStep, RepliesCurrent, NewEnough, Current, WellSorted,
       InSequence, UserCacheTypeOK, ListType, AskerType, SyncType
<1>8. ASSUME NEW c \in Slots, Publish(c) PROVE RepliesCurrent'
  BY <1>8 DEF Publish, syncOnly, SyncStep, RepliesCurrent, NewEnough, Current, WellSorted,
       InSequence, UserCacheTypeOK, ListType, AskerType, SyncType
<1>9. ASSUME NEW c \in Slots, FinishUserSync(c) PROVE RepliesCurrent'
  BY <1>9 DEF FinishUserSync, syncOnly, SyncStep, RepliesCurrent, NewEnough, Current,
       WellSorted, InSequence, UserCacheTypeOK, ListType, AskerType, SyncType
<1>10. ASSUME NEW c \in Slots, Spin(c) PROVE RepliesCurrent'
  BY <1>10 DEF Spin, syncOnly, SyncStep, RepliesCurrent, NewEnough, Current, WellSorted,
       InSequence, UserCacheTypeOK, ListType, AskerType, SyncType
<1>11. ASSUME NEW c \in Slots, SendStatus(c) PROVE RepliesCurrent'
  BY <1>11 DEF SendStatus, syncOnly, RepliesCurrent, NewEnough, Current, WellSorted, InSequence,
       UserCacheTypeOK, ListType, AskerType, SyncType
<1>12. ASSUME NEW c \in Slots, List(c) PROVE RepliesCurrent'
  BY <1>12 DEF List, listOnly, RepliesCurrent, NewEnough, Current, WellSorted, InSequence,
       UserCacheTypeOK, ListType, AskerType, SyncType
<1>13. ASSUME NEW c \in Slots, ClaimSort(c) PROVE RepliesCurrent'
  BY <1>13 DEF ClaimSort, listOnly, RepliesCurrent, NewEnough, Current, WellSorted, InSequence,
       UserCacheTypeOK, ListType, AskerType, SyncType
<1>14. ASSUME NEW c \in Slots, SortList(c) PROVE RepliesCurrent'
  BY <1>14 DEF SortList, listOnly, Step, RepliesCurrent, NewEnough, Current, WellSorted,
       InSequence, UserCacheTypeOK, ListType, AskerType, SyncType
<1>15. ASSUME NEW c \in Slots, AwaitSort(c) PROVE RepliesCurrent'
  BY <1>15 DEF AwaitSort, listOnly, Step, RepliesCurrent, NewEnough, Current, WellSorted,
       InSequence, UserCacheTypeOK, ListType, AskerType, SyncType
<1>16. ASSUME NEW c \in Slots, Return(c) PROVE RepliesCurrent'
  BY <1>16 DEF Return, listOnly, RepliesCurrent, NewEnough, Current, WellSorted, InSequence,
       UserCacheTypeOK, ListType, AskerType, SyncType
<1>17. QED
  BY <1>1, <1>2, <1>3, <1>4, <1>5, <1>6, <1>7, <1>8, <1>9, <1>10, <1>11, <1>12, <1>13, <1>14,
       <1>15, <1>16 DEF UserCacheNext

\* All of it holds at first.
LEMMA SharedStart == UserCacheInit => SharedInv
<1> SUFFICES ASSUME UserCacheInit PROVE SharedInv
  OBVIOUS
<1>1. UserCacheTypeOK
  BY DEF UserCacheInit, UserCacheTypeOK, ListType, AskerType, SyncType, NoAsker, NoUserSync,
         Fresh, PastSyncTimeout, PastWaitTimeout, NoList
<1>2. \A c \in Slots : asker[c] = NoAsker /\ sync[c] = NoUserSync
  BY DEF UserCacheInit
<1>3. OneSync
  BY <1>2 DEF UserCacheInit, OneSync, Syncs, Sorts, NoAsker, NoUserSync
<1>4. Behind /\ WellSorted
  BY <1>2 DEF UserCacheInit, Behind, WellSorted, NoAsker, NoList
<1>5. NewEnough
  BY <1>2 DEF UserCacheInit, NewEnough, Placed, NoAsker, NoUserSync, Fresh, PastWaitTimeout
<1>6. QED
  BY <1>1, <1>3, <1>4, <1>5 DEF UserCacheInit, SharedInv, RepliesCurrent

\* And after every step.
LEMMA SharedStep == SharedInv /\ [UserCacheNext]_userCacheVars => SharedInv'
<1> SUFFICES ASSUME SharedInv, [UserCacheNext]_userCacheVars PROVE SharedInv'
  OBVIOUS
<1>1. CASE UserCacheNext
  BY <1>1, TypeStep, OneSyncStep, BehindStep, NewEnoughStep, WellSortedStep, RepliesStep DEF SharedInv
<1>2. CASE UNCHANGED userCacheVars
  BY <1>2 DEF userCacheVars, SharedInv, UserCacheTypeOK, OneSync, Syncs, Sorts, Behind, NewEnough,
       Current,
              Placed, WellSorted, InSequence, RepliesCurrent
<1>3. QED
  BY <1>1, <1>2

\* The inductive invariant, for any number of requests, versions and failures.
LEMMA AlwaysShared == UserCacheSpec => []SharedInv
  BY SharedStart, SharedStep, PTL DEF UserCacheSpec

\* One goroutine at a time makes the list (usercache.go:64), one request at a time sorts it.
THEOREM SyncsOneAtATime == UserCacheSpec => []OneSync
<1>1. SharedInv => OneSync
  BY DEF SharedInv
<1>2. QED
  BY <1>1, AlwaysShared, PTL

\* A request is answered with what was announced before it, in order if it asked for that
\* (MaybeSync, usercache.go:66; GetUserDTOs, usercache.go:171).
THEOREM AnswersAreCurrent == UserCacheSpec => []RepliesCurrent
<1>1. SharedInv => RepliesCurrent
  BY DEF SharedInv
<1>2. QED
  BY <1>1, AlwaysShared, PTL

\* One goroutine at a time makes the shared list of accounts, one request at a time sorts it,
\* and every answer is new enough and in order (usercache.go:61), whatever else runs.
THEOREM ListIsShared == Spec => []SharedList
<1> DEFINE On == part = "shared" => SharedInv
<1>1. Init => On
  BY SharedStart DEF Init
<1>2. On /\ [Next]_vars => On'
  BY PartSteps, SharedStep
<1>3. On => SharedList
  BY DEF SharedInv, SharedList
<1> QED BY <1>1, <1>2, <1>3, PTL DEF Spec

-----------------------------------------------------------------------------
(* The last lines of the log.                                              *)

LineState == [lines : [0..(LineCount - 1) -> Lines \cup {NoLine}], current : 0..LineCount,
              written : Seq(Lines \ {NoLine})]

\* Until it is full, the cache has the lines in their order; then the line of cell i is as
\* far from the last one as its cell is from the one before `current`, going around.
LinesKept(st) ==
    LET n == Len(st.written)
        c == st.current
    IN  /\ st \in LineState
        /\ n < LineCount =>
              /\ c = n
              /\ \A i \in 0..(LineCount - 1) :
                    st.lines[i] = IF i < n THEN st.written[i + 1] ELSE NoLine
        /\ n >= LineCount =>
              /\ c >= 1
              /\ \A i \in 0..(LineCount - 1) :
                    st.lines[i] = st.written[n - c + i + 1 - (IF i < c THEN 0 ELSE LineCount)]

\* A line keeps to it (linecache.go:31).
LEMMA PutKeeps ==
    ASSUME NEW st, LinesKept(st), NEW line \in Lines
    PROVE  LinesKept(Put(st, line))
<1> DEFINE at == IF st.current = LineCount THEN 0 ELSE st.current
           n == Len(st.written)
<1>1. CASE line = NoLine
  BY <1>1 DEF Put
<1>2. CASE line # NoLine
  <2>1. /\ LineCount \in Nat /\ LineCount >= 1 /\ n \in Nat
        /\ st \in LineState /\ st.current \in 0..LineCount /\ at \in 0..(LineCount - 1)
    BY LineAssumption DEF LinesKept, LineState
  <2> DEFINE new == Put(st, line)
  <2>2. /\ new.lines = [st.lines EXCEPT ![at] = line] /\ new.current = at + 1
        /\ new.written = Append(st.written, line)
        /\ new = [lines |-> new.lines, current |-> new.current, written |-> new.written]
    BY <1>2 DEF Put
  <2>3. /\ Len(new.written) = n + 1 /\ new.written[n + 1] = line
        /\ \A k \in 1..n : new.written[k] = st.written[k]
        /\ new.written \in Seq(Lines \ {NoLine})
    BY <1>2, <2>1, <2>2 DEF LineState
  <2>4. \A i \in 0..(LineCount - 1) : new.lines[i] = IF i = at THEN line ELSE st.lines[i]
    BY <2>1, <2>2 DEF LineState
  <2>5. new.lines \in [0..(LineCount - 1) -> Lines \cup {NoLine}]
    BY <2>1, <2>2 DEF LineState
  <2>a. at + 1 \in 0..LineCount
    BY <2>1
  <2>b. at = IF st.current = LineCount THEN 0 ELSE st.current
    OBVIOUS
  <2> SUFFICES LinesKept(new)
    OBVIOUS
  <2> HIDE DEF new, at
  <2>6. new \in LineState
    BY <2>a, <2>2, <2>3, <2>5 DEF LineState
  <2>7. CASE n < LineCount
    <3>1. /\ st.current = n /\ at = n
          /\ \A i \in 0..(LineCount - 1) :
                st.lines[i] = IF i < n THEN st.written[i + 1] ELSE NoLine
      BY <2>1, <2>b, <2>7 DEF LinesKept
    <3>2. \A i \in 0..(LineCount - 1) :
             new.lines[i] = IF i < n + 1 THEN new.written[i + 1] ELSE NoLine
      BY <2>1, <2>3, <2>4, <3>1
    <3>3. CASE n + 1 < LineCount
      BY <2>1, <2>2, <2>3, <2>6, <3>1, <3>2, <3>3 DEF LinesKept
    <3>4. CASE n + 1 = LineCount
      <4>1. \A i \in 0..(LineCount - 1) :
               new.lines[i] = new.written[(n + 1) - (n + 1) + i + 1
                                            - (IF i < n + 1 THEN 0 ELSE LineCount)]
        <5> SUFFICES ASSUME NEW i \in 0..(LineCount - 1)
                     PROVE  new.lines[i] = new.written[(n + 1) - (n + 1) + i + 1
                                            - (IF i < n + 1 THEN 0 ELSE LineCount)]
          OBVIOUS
        <5>1. i < n + 1 /\ (n + 1) - (n + 1) + i + 1 - 0 = i + 1
          BY <2>1, <3>4
        <5>2. new.lines[i] = new.written[i + 1]
          BY <3>2, <5>1
        <5> QED BY <5>1, <5>2
      <4> QED BY <2>1, <2>2, <2>3, <2>6, <3>1, <3>4, <4>1 DEF LinesKept
    <3> QED BY <2>1, <2>7, <3>3, <3>4
  <2>8. CASE n >= LineCount
    <3>1. /\ st.current >= 1
          /\ \A i \in 0..(LineCount - 1) :
                st.lines[i] = st.written[n - st.current + i + 1
                                            - (IF i < st.current THEN 0 ELSE LineCount)]
      BY <2>1, <2>8 DEF LinesKept
    <3>2. ASSUME NEW i \in 0..(LineCount - 1)
          PROVE  new.lines[i] = new.written[n - at + i + 1 - (IF i <= at THEN 0 ELSE LineCount)]
      <4>1. CASE i = at
        <5>1. n - at + i + 1 - (IF i <= at THEN 0 ELSE LineCount) = n + 1
          BY <2>1, <4>1
        <5>2. new.lines[i] = line
          BY <2>4, <4>1
        <5> QED BY <2>3, <5>1, <5>2
      <4>2. CASE i # at
        <5> DEFINE k == n - st.current + i + 1 - (IF i < st.current THEN 0 ELSE LineCount)
        <5>1. k = n - at + i + 1 - (IF i <= at THEN 0 ELSE LineCount)
          BY <2>1, <2>b, <2>8, <3>1, <4>2
        <5>2. k \in 1..n
          <6>1. n \in Int /\ st.current \in Int /\ i \in Int /\ LineCount \in Int
            BY <2>1
          <6>2. st.current <= LineCount /\ LineCount <= n /\ 0 <= i /\ i < LineCount /\ 1 <= st.current
            BY <2>1, <2>8, <3>1
          <6> HIDE DEF n
          <6>3. CASE i < st.current
            <7>1. k = n - st.current + i + 1
              BY <6>1, <6>3
            <7> QED BY <6>1, <6>2, <6>3, <7>1
          <6>4. CASE ~(i < st.current)
            <7>1. k = n - st.current + i + 1 - LineCount
              BY <6>1, <6>4
            <7> QED BY <6>1, <6>2, <6>4, <7>1
          <6> QED BY <6>3, <6>4
        <5>3. new.lines[i] = st.written[k]
          BY <2>4, <3>1, <4>2
        <5> HIDE DEF k, at, n
        <5> QED BY <2>3, <5>1, <5>2, <5>3
      <4> QED BY <4>1, <4>2
    <3>3. \A i \in 0..(LineCount - 1) :
             new.lines[i] = new.written[(n + 1) - (at + 1) + i + 1
                                            - (IF i < at + 1 THEN 0 ELSE LineCount)]
      <4> SUFFICES ASSUME NEW i \in 0..(LineCount - 1)
                   PROVE  new.lines[i] = new.written[(n + 1) - (at + 1) + i + 1
                                            - (IF i < at + 1 THEN 0 ELSE LineCount)]
        OBVIOUS
      <4>1. (n + 1) - (at + 1) + i + 1 - (IF i < at + 1 THEN 0 ELSE LineCount)
              = n - at + i + 1 - (IF i <= at THEN 0 ELSE LineCount)
        <5>1. n \in Int /\ at \in Int /\ i \in Int /\ LineCount \in Int
          BY <2>1
        <5> HIDE DEF n
        <5>2. (n + 1) - (at + 1) + i + 1 = n - at + i + 1 /\ (i < at + 1 <=> i <= at)
          BY <5>1
        <5> QED BY <5>1, <5>2
      <4> HIDE DEF at, n
      <4> QED BY <3>2, <4>1
    <3>4. Len(new.written) = n + 1 /\ new.current = at + 1
      BY <2>2, <2>3
    <3>5. \A i \in 0..(LineCount - 1) :
             new.lines[i] = new.written[Len(new.written) - new.current + i + 1
                                            - (IF i < new.current THEN 0 ELSE LineCount)]
      BY <3>3, <3>4
    <3>6. Len(new.written) >= LineCount /\ new.current >= 1
      BY <2>1, <2>8, <3>4
    <3> QED BY <2>1, <2>6, <3>5, <3>6 DEF LinesKept
  <2> QED BY <2>1, <2>7, <2>8
<1> QED BY <1>1, <1>2

\* Step by step, FoldLeft leads from a state to the state after all lines of a text.
LEMMA PutRuns ==
    ASSUME NEW txt \in Seq(Lines), NEW st \in LineState
    PROVE  \E run : /\ run[0] = st /\ run[Len(txt)] = FoldLeft(Put, st, txt)
                    /\ \A k \in 1..Len(txt) : run[k] = Put(run[k - 1], txt[k])
<1> DEFINE n == Len(txt)
           step == [k \in 1..n |-> [x \in LineState |-> Put(x, txt[k])]]
           Table(f) == f = [s \in SUBSET (1..n) |->
                               IF s = {} THEN st ELSE Put(f[s \ {Max(s)}], txt[Max(s)])]
           F == CHOOSE f : Table(f)
<1>1. n \in Nat /\ DOMAIN txt = 1..n
  OBVIOUS
<1>2. step \in [1..n -> [LineState -> LineState]]
  <2>1. \A k \in 1..n, x \in LineState : Put(x, txt[k]) \in LineState
    <3> TAKE k \in 1..n, x \in LineState
    <3>1. txt[k] \in Lines
      OBVIOUS
    <3>2. LineCount \in Nat /\ LineCount >= 1
      BY LineAssumption
    <3> QED BY <3>1, <3>2 DEF Put, LineState
  <2> QED BY <2>1
<1>3. PICK g \in [SUBSET (1..n) -> LineState] : IsTable(g, st, n, step)
  BY <1>1, <1>2, TableExists
<1>4. Table(g)
  <2>1. \A s \in SUBSET (1..n) : s # {} => Max(s) \in 1..n /\ s \ {Max(s)} \in SUBSET (1..n)
    BY <1>1, Greatest
  <2>2. \A s \in SUBSET (1..n) :
            g[s] = IF s = {} THEN st ELSE Put(g[s \ {Max(s)}], txt[Max(s)])
    BY <1>3, <2>1 DEF IsTable
  <2> QED BY <2>2
<1>5. Table(F)
  BY <1>4
<1>6. FoldLeft(Put, st, txt) = F[1..n]
  BY <1>1 DEF FoldLeft, MapThenFoldSet
<1> DEFINE run == [k \in 0..n |-> F[1..k]]
<1>7. F[{}] = st /\ \A k \in 1..n : F[1..k] = Put(F[1..(k - 1)], txt[k])
  <2> HIDE DEF F
  <2>1. F[{}] = st
    BY <1>5
  <2>2. ASSUME NEW k \in 1..n PROVE F[1..k] = Put(F[1..(k - 1)], txt[k])
    <3>1. 1..k \in SUBSET (1..n) /\ 1..k # {}
      OBVIOUS
    <3>2. Max(1..k) = k /\ (1..k) \ {k} = 1..(k - 1)
      BY CountedLast
    <3>3. F[1..k] = Put(F[(1..k) \ {Max(1..k)}], txt[Max(1..k)])
      BY <1>5, <3>1
    <3> QED BY <3>2, <3>3
  <2> QED BY <2>1, <2>2
<1>8. run[0] = st /\ run[n] = F[1..n] /\ \A k \in 1..n : run[k] = Put(run[k - 1], txt[k])
  <2> HIDE DEF F
  <2>1. 1..0 = {}
    OBVIOUS
  <2>2. \A k \in 1..n : k - 1 \in 0..n /\ k \in 0..n
    BY <1>1
  <2> QED BY <1>1, <1>7, <2>1, <2>2
<1> HIDE DEF run, F
<1> QED BY <1>6, <1>8

\* All lines of a text do (linecache.go:27).
LEMMA TextKeeps ==
    ASSUME NEW st, LinesKept(st), NEW txt \in Seq(Lines)
    PROVE  LinesKept(FoldLeft(Put, st, txt))
<1>1. st \in LineState
  BY DEF LinesKept
<1>2. PICK run : /\ run[0] = st /\ run[Len(txt)] = FoldLeft(Put, st, txt)
                 /\ \A k \in 1..Len(txt) : run[k] = Put(run[k - 1], txt[k])
  BY <1>1, PutRuns
<1> DEFINE Bad == {k \in 0..Len(txt) : ~LinesKept(run[k])}
<1>3. Bad = {}
  <2> SUFFICES ASSUME Bad # {} PROVE FALSE
    OBVIOUS
  <2>1. Bad \in SUBSET Nat
    OBVIOUS
  <2>2. PICK k \in Bad : \A j \in Bad : k <= j
    <3> HIDE DEF Bad
    <3> QED BY <2>1, LeastNat
  <2>3. k # 0
    BY <1>2
  <2>4. k \in 1..Len(txt) /\ k - 1 \in 0..Len(txt) /\ ~(k <= k - 1)
    BY <2>3
  <2>5. LinesKept(run[k - 1]) /\ txt[k] \in Lines
    BY <2>2, <2>4
  <2>6. LinesKept(run[k])
    BY <1>2, <2>4, <2>5, PutKeeps
  <2> QED BY <2>6
<1> QED
  <2>1. Len(txt) \in 0..Len(txt)
    OBVIOUS
  <2> QED BY <1>2, <1>3, <2>1

LineCacheNow == [lines |-> lines, current |-> current, written |-> written]

\* The cache is empty at first (linecache.go:18).
LEMMA LinesStart == LinesInit => LinesKept(LineCacheNow)
<1> SUFFICES ASSUME LinesInit PROVE LinesKept(LineCacheNow)
  OBVIOUS
<1>1. LineCount \in Nat /\ LineCount >= 1
  BY LineAssumption
<1>2. LineCacheNow \in LineState
  BY <1>1 DEF LinesInit, LineCacheNow, LineState
<1>3. Len(LineCacheNow.written) = 0 /\ LineCacheNow.current = 0
  BY DEF LinesInit, LineCacheNow
<1>4. \A i \in 0..(LineCount - 1) : LineCacheNow.lines[i] = NoLine
  BY DEF LinesInit, LineCacheNow
<1> QED BY <1>1, <1>2, <1>3, <1>4 DEF LinesKept

\* Every write keeps to it (linecache.go:27).
LEMMA LinesGoOn == LinesKept(LineCacheNow) /\ [LinesNext]_lineVars => LinesKept(LineCacheNow)'
<1>1. CASE UNCHANGED lineVars
  BY <1>1 DEF lineVars, LineCacheNow
<1>2. ASSUME LinesKept(LineCacheNow), Write PROVE LinesKept(LineCacheNow)'
  <2>1. PICK txt \in BoundedSeq(Lines, MaxLines) :
            LET full == FoldLeft(Put, LineCacheNow, txt)
            IN  lines' = full.lines /\ current' = full.current /\ written' = full.written
    BY <1>2 DEF Write, LineCacheNow
  <2> DEFINE full == FoldLeft(Put, LineCacheNow, txt)
  <2>2. txt \in Seq(Lines)
    <3>1. PICK m \in 0..MaxLines : txt \in [1..m -> Lines]
      BY DEF BoundedSeq, SeqOf
    <3> QED BY <3>1, LineAssumption
  <2>3. LinesKept(full)
    BY <1>2, <2>2, TextKeeps
  <2>4. full = [lines |-> full.lines, current |-> full.current, written |-> full.written]
    <3>1. full \in LineState
      BY <2>3 DEF LinesKept
    <3> HIDE DEF full
    <3> QED BY <3>1 DEF LineState
  <2>5. LineCacheNow' = full
    <3> HIDE DEF full
    <3> QED BY <2>1, <2>4 DEF LineCacheNow, full
  <2> HIDE DEF full
  <2> QED BY <2>3, <2>5 DEF LinesKept
<1> QED BY <1>1, <1>2 DEF LinesNext

\* What is read of a cache that keeps to it is what was written last (linecache.go:46).
LEMMA LinesAreRead == LinesKept(LineCacheNow) => LastLinesRead
<1> SUFFICES ASSUME LinesKept(LineCacheNow) PROVE LastLinesRead
  OBVIOUS
<1> DEFINE n == Len(written)
           i0 == IF lines[LineCount - 1] # NoLine /\ current # LineCount THEN current ELSE 0
           place(k) == (i0 + k - 1) % LineCount
           Stops == {k \in 1..LineCount : place(k) + 1 = current}
                    \cup {k - 1 : k \in {m \in 1..LineCount : lines[place(m)] = NoLine}}
<1>1. /\ LineCount \in Nat /\ LineCount >= 1 /\ n \in Nat /\ written \in Seq(Lines \ {NoLine})
      /\ current \in 0..LineCount /\ lines \in [0..(LineCount - 1) -> Lines \cup {NoLine}]
  BY LineAssumption DEF LinesKept, LineCacheNow, LineState
<1>2. \A k \in 1..n : written[k] # NoLine
  BY <1>1
<1>3. LinesText = [k \in 1..Min(Stops) |-> lines[place(k)]]
  BY DEF LinesText, ReadFrom
<1>4. CASE n < LineCount
  <2>1. current = n /\ \A i \in 0..(LineCount - 1) : lines[i] = IF i < n THEN written[i + 1] ELSE NoLine
    BY <1>4 DEF LinesKept, LineCacheNow
  <2>2. lines[LineCount - 1] = NoLine /\ i0 = 0
    BY <1>1, <1>4, <2>1
  <2>3. \A k \in 1..LineCount : place(k) = k - 1
    BY <1>1, <2>2
  <2>4. n \in Stops
    <3>1. n + 1 \in 1..LineCount /\ lines[place(n + 1)] = NoLine
      <4>1. n + 1 \in 1..LineCount /\ n + 1 - 1 = n /\ n \in 0..(LineCount - 1)
        BY <1>1, <1>4
      <4>2. place(n + 1) = n
        BY <2>3, <4>1
      <4> HIDE DEF place
      <4> QED BY <2>1, <4>1, <4>2
    <3>2. n = (n + 1) - 1
      BY <1>1
    <3> HIDE DEF place
    <3> QED BY <3>1, <3>2
  <2>5. \A y \in Stops : n <= y /\ y \in Int
    <3>1. \A k \in 1..LineCount : place(k) + 1 = current => k = n
      <4> TAKE k \in 1..LineCount
      <4>1. place(k) = k - 1
        BY <2>3
      <4> HIDE DEF place, n
      <4> QED BY <1>1, <2>1, <4>1
    <3>2. \A k \in 1..LineCount : lines[place(k)] = NoLine => n <= k - 1
      <4> SUFFICES ASSUME NEW k \in 1..LineCount, lines[place(k)] = NoLine, k - 1 < n PROVE FALSE
        BY <1>1
      <4>1. k - 1 \in 0..(LineCount - 1) /\ k - 1 + 1 \in 1..n
        BY <1>1
      <4>2. lines[k - 1] = NoLine
        BY <2>3
      <4> HIDE DEF place
      <4> QED BY <1>2, <2>1, <4>1, <4>2
    <3> HIDE DEF place
    <3> QED BY <1>1, <3>1, <3>2
  <2>6. Min(Stops) = n
    <3> HIDE DEF Stops
    <3> QED BY <2>4, <2>5, LeastIs
  <2>7. LinesText = [k \in 1..n |-> lines[place(k)]]
    BY <1>3, <2>6
  <2>8. \A k \in 1..n : lines[place(k)] = written[k]
    <3> TAKE k \in 1..n
    <3>1. k \in 1..LineCount /\ k - 1 \in 0..(LineCount - 1) /\ k - 1 < n /\ k - 1 + 1 = k
      BY <1>1, <1>4
    <3>2. place(k) = k - 1
      BY <2>3, <3>1
    <3> HIDE DEF place
    <3> QED BY <2>1, <3>1, <3>2
  <2>9. LinesText = SubSeq(written, n - n + 1, n)
    <3> HIDE DEF place
    <3>1. LinesText = [k \in 1..n |-> written[k]]
      BY <2>7, <2>8
    <3>2. SubSeq(written, 1, n) = [k \in 1..n |-> written[k]]
      BY <1>1
    <3>3. n - n + 1 = 1
      BY <1>1
    <3> QED BY <3>1, <3>2, <3>3
  <2> QED BY <1>4, <2>9 DEF LastLinesRead
<1>5. CASE n >= LineCount
  <2>1. /\ current \in 1..LineCount
        /\ \A i \in 0..(LineCount - 1) :
              lines[i] = written[n - current + i + 1 - (IF i < current THEN 0 ELSE LineCount)]
    BY <1>1, <1>5 DEF LinesKept, LineCacheNow
  <2>2. ASSUME NEW i \in 0..(LineCount - 1)
        PROVE  /\ n - current + i + 1 - (IF i < current THEN 0 ELSE LineCount) \in 1..n
               /\ lines[i] # NoLine
    <3>1. n - current + i + 1 - (IF i < current THEN 0 ELSE LineCount) \in 1..n
      <4>1. CASE i < current
        BY <1>1, <1>5, <2>1, <4>1
      <4>2. CASE ~(i < current)
        BY <1>1, <1>5, <2>1, <4>2
      <4> QED BY <4>1, <4>2
    <3> QED BY <1>2, <2>1, <3>1
  <2>3. i0 = IF current # LineCount THEN current ELSE 0
    <3>1. LineCount - 1 \in 0..(LineCount - 1)
      BY <1>1
    <3> QED BY <2>2, <3>1
  <2>4. ASSUME NEW k \in 1..LineCount
        PROVE  /\ place(k) \in 0..(LineCount - 1)
               /\ place(k) + 1 = current => k = LineCount
               /\ k = LineCount => place(k) + 1 = current
               /\ n - current + place(k) + 1 - (IF place(k) < current THEN 0 ELSE LineCount)
                    = n - LineCount + k
    <3>1. CASE current = LineCount
      <4>1. i0 + k - 1 = k - 1
        BY <2>3, <3>1
      <4>2. place(k) = k - 1
        BY <1>1, <4>1
      <4> HIDE DEF place, n
      <4> QED BY <1>1, <3>1, <4>2
    <3>2. CASE current < LineCount /\ k <= LineCount - current
      <4>1. i0 + k - 1 = current + k - 1 /\ current + k - 1 \in 0..(LineCount - 1)
        BY <1>1, <2>1, <2>3, <3>2
      <4>2. place(k) = current + k - 1
        BY <1>1, <4>1
      <4>3. ~(place(k) < current)
        BY <1>1, <2>1, <4>2
      <4> HIDE DEF place, n
      <4> QED BY <1>1, <2>1, <3>2, <4>2, <4>3
    <3>3. CASE current < LineCount /\ k > LineCount - current
      <4>1. /\ i0 + k - 1 = current + k - 1
            /\ current + k - 1 \in LineCount..(2 * LineCount - 1)
        BY <1>1, <2>1, <2>3, <3>3
      <4>2. place(k) = current + k - 1 - LineCount
        BY <1>1, <4>1
      <4>3. place(k) < current
        BY <1>1, <2>1, <4>2
      <4> HIDE DEF place, n
      <4> QED BY <1>1, <2>1, <3>3, <4>2, <4>3
    <3> QED BY <1>1, <2>1, <3>1, <3>2, <3>3
  <2> HIDE DEF place
  <2>5. Stops = {LineCount}
    <3>1. \A k \in 1..LineCount : lines[place(k)] # NoLine
      BY <2>2, <2>4
    <3>2. LineCount \in 1..LineCount
      BY <1>1
    <3>3. {k \in 1..LineCount : place(k) + 1 = current} = {LineCount}
      BY <2>4, <3>2
    <3>4. {m \in 1..LineCount : lines[place(m)] = NoLine} = {}
      BY <3>1
    <3> QED BY <3>3, <3>4
  <2>6. Min(Stops) = LineCount
    <3> HIDE DEF Stops
    <3>1. \A y \in Stops : LineCount <= y
      BY <1>1, <2>5
    <3> QED BY <1>1, <2>5, <3>1, LeastIs
  <2>7. \A k \in 1..LineCount : lines[place(k)] = written[n - LineCount + k]
    BY <2>1, <2>4
  <2>8. LinesText = [k \in 1..LineCount |-> written[n - LineCount + k]]
    BY <1>3, <2>6, <2>7
  <2>9. SubSeq(written, n - LineCount + 1, n) = [k \in 1..LineCount |-> written[n - LineCount + k]]
    <3>1. n - (n - LineCount + 1) + 1 = LineCount /\ n - LineCount + 1 \in 1..n + 1
      BY <1>1, <1>5
    <3>2. \A k \in 1..LineCount : n - LineCount + 1 + k - 1 = n - LineCount + k
      BY <1>1
    <3> QED BY <1>1, <1>5, <3>1, <3>2
  <2>10. ~(n < LineCount)
    BY <1>1, <1>5
  <2> QED BY <2>8, <2>9, <2>10 DEF LastLinesRead
<1> QED BY <1>1, <1>4, <1>5

\* Whatever was written, in however many writes and wherever the cache has wrapped, the page
\* of the log shows the last lines in their order (LineCache.String, linecache.go:46).
THEOREM LogIsRead == Spec => []LogLinesKept
<1> DEFINE On == part = "lines" => LinesKept(LineCacheNow)
<1>1. Init => On
  BY LinesStart DEF Init
<1>2. On /\ [Next]_vars => On'
  BY PartSteps, LinesGoOn
<1>3. On => LogLinesKept
  BY LinesAreRead DEF LogLinesKept
<1> QED BY <1>1, <1>2, <1>3, PTL DEF Spec

-----------------------------------------------------------------------------
(* The timer behind the reminders.                                         *)

\* What Check makes of the next delta.
Nearest(best, d, from, last, t) ==
    IF /\ Due(d, from, last, t)
       /\ best = 0 \/ Distance(t, from + d) < Distance(t, from + best)
    THEN d ELSE best

\* Step by step, Check leads from no delta to the one it finds.
LEMMA CheckRuns ==
    ASSUME NEW deltaList \in Seq(Int), NEW from, NEW last, NEW t
    PROVE  \E run : /\ run[0] = 0 /\ run[Len(deltaList)] = Check(deltaList, from, last, t)
                    /\ \A k \in 1..Len(deltaList) :
                          run[k] = Nearest(run[k - 1], deltaList[k], from, last, t)
<1> DEFINE n == Len(deltaList)
           step == [k \in 1..n |-> [x \in Int |-> Nearest(x, deltaList[k], from, last, t)]]
           Table(f) == f = [s \in SUBSET (1..n) |->
                               IF s = {} THEN 0
                               ELSE Nearest(f[s \ {Max(s)}], deltaList[Max(s)], from, last, t)]
           F == CHOOSE f : Table(f)
<1>1. n \in Nat /\ DOMAIN deltaList = 1..n
  OBVIOUS
<1>2. step \in [1..n -> [Int -> Int]]
  <2>1. \A k \in 1..n, x \in Int : Nearest(x, deltaList[k], from, last, t) \in Int
    BY DEF Nearest
  <2> QED BY <2>1
<1>3. PICK g \in [SUBSET (1..n) -> Int] : IsTable(g, 0, n, step)
  <2> HIDE DEF step
  <2>1. 0 \in Int
    OBVIOUS
  <2> QED BY <1>1, <1>2, <2>1, TableExists
<1>4. Table(g)
  <2>1. \A s \in SUBSET (1..n) : s # {} => Max(s) \in 1..n /\ s \ {Max(s)} \in SUBSET (1..n)
    BY <1>1, Greatest
  <2>2. \A s \in SUBSET (1..n) :
            g[s] = IF s = {} THEN 0
                   ELSE Nearest(g[s \ {Max(s)}], deltaList[Max(s)], from, last, t)
    BY <1>3, <2>1 DEF IsTable
  <2> QED BY <2>2
<1>5. Table(F)
  BY <1>4
<1>6. Check(deltaList, from, last, t) = F[1..n]
  BY <1>1 DEF Check, Nearest, FoldLeft, MapThenFoldSet
<1> DEFINE run == [k \in 0..n |-> F[1..k]]
<1>7. /\ F[{}] = 0
      /\ \A k \in 1..n : F[1..k] = Nearest(F[1..(k - 1)], deltaList[k], from, last, t)
  <2> HIDE DEF F
  <2>1. F[{}] = 0
    BY <1>5
  <2>2. ASSUME NEW k \in 1..n
        PROVE  F[1..k] = Nearest(F[1..(k - 1)], deltaList[k], from, last, t)
    <3>1. 1..k \in SUBSET (1..n) /\ 1..k # {}
      OBVIOUS
    <3>2. Max(1..k) = k /\ (1..k) \ {k} = 1..(k - 1)
      BY CountedLast
    <3>3. F[1..k] = Nearest(F[(1..k) \ {Max(1..k)}], deltaList[Max(1..k)], from, last, t)
      BY <1>5, <3>1
    <3> QED BY <3>2, <3>3
  <2> QED BY <2>1, <2>2
<1>8. /\ run[0] = 0 /\ run[n] = F[1..n]
      /\ \A k \in 1..n : run[k] = Nearest(run[k - 1], deltaList[k], from, last, t)
  <2> HIDE DEF F
  <2>1. 1..0 = {}
    OBVIOUS
  <2>2. \A k \in 1..n : k - 1 \in 0..n /\ k \in 0..n
    BY <1>1
  <2> QED BY <1>1, <1>7, <2>1, <2>2
<1> HIDE DEF run, F
<1> QED BY <1>6, <1>8

\* Check finds a delta exactly when one is due (timer.go:47).
LEMMA CheckFinds ==
    ASSUME NEW deltaList \in Seq(Int), NEW from, NEW last, NEW t
    PROVE  Check(deltaList, from, last, t) # 0
             <=> \E i \in DOMAIN deltaList : Due(deltaList[i], from, last, t)
<1>1. PICK run : /\ run[0] = 0 /\ run[Len(deltaList)] = Check(deltaList, from, last, t)
                 /\ \A k \in 1..Len(deltaList) :
                       run[k] = Nearest(run[k - 1], deltaList[k], from, last, t)
  BY CheckRuns
<1> DEFINE Good(k) == run[k] # 0 <=> \E i \in 1..k : Due(deltaList[i], from, last, t)
           Bad == {k \in 0..Len(deltaList) : ~Good(k)}
<1>2. Bad = {}
  <2> SUFFICES ASSUME Bad # {} PROVE FALSE
    OBVIOUS
  <2>1. Bad \in SUBSET Nat
    OBVIOUS
  <2>2. PICK k \in Bad : \A j \in Bad : k <= j
    <3> HIDE DEF Bad
    <3> QED BY <2>1, LeastNat
  <2>3. k # 0
    BY <1>1
  <2>4. k \in 1..Len(deltaList) /\ k - 1 \in 0..Len(deltaList) /\ ~(k <= k - 1)
    BY <2>3
  <2>5. Good(k - 1)
    <3> HIDE DEF Good
    <3> QED BY <2>2, <2>4
  <2>6. \A i : i \in 1..k <=> i \in 1..(k - 1) \/ i = k
    BY <2>4
  <2>7. Due(deltaList[k], from, last, t) => deltaList[k] # 0
    BY DEF Due
  <2>8. run[k] = Nearest(run[k - 1], deltaList[k], from, last, t)
    BY <1>1, <2>4
  <2>9. Good(k)
    BY <2>5, <2>6, <2>7, <2>8 DEF Nearest
  <2> QED BY <2>2, <2>9
<1> QED
  <2>1. Len(deltaList) \in 0..Len(deltaList) /\ DOMAIN deltaList = 1..Len(deltaList)
    OBVIOUS
  <2>2. Good(Len(deltaList))
    <3> HIDE DEF Good
    <3> QED BY <1>2, <2>1
  <2> QED BY <1>1, <2>1, <2>2

\* The days that are asked for, and the deltas that ask for them.
Asking == {i \in DOMAIN deltas : deltas[i] # 0}
DayAsked(d) == \E i \in Asking : Day(since + deltas[i]) = d
FiredOn(d) == \E t \in fired : Day(t) = d

\* From this hour on a day, a reminder that is due on it is no more held back by an earlier
\* one and still in time, for six hours at least.
LastCall == IF since % 24 <= 5 THEN (since % 24) + 12 ELSE 17

\* What went off did so on a day asked for and near to its time, and the caller remembers the
\* last of it.  On a day watched from its beginning, a reminder may be outstanding until its
\* last call.
TimerKept ==
    /\ now \in Nat /\ begun \in Nat /\ since \in Int /\ deltas \in Seq(Int)
    /\ regular \in BOOLEAN /\ begun <= now
    /\ \A t \in fired : t \in Nat /\ t <= now /\ DayAsked(Day(t))
    /\ lastFired = Never => fired = {}
    /\ lastFired # Never =>
          /\ lastFired \in fired /\ \A t \in fired : t <= lastFired
          /\ \E i \in Asking : /\ Day(since + deltas[i]) = Day(lastFired)
                               /\ Distance(lastFired, since + deltas[i]) <= MAX_MIN_INTERVAL
    /\ \A t, u \in fired : t < u => Day(t) # Day(u) /\ u - t >= MAX_MIN_INTERVAL
    /\ regular /\ WholeDays => \A d \in Int :
          /\ Day(begun) < d /\ d < Day(now) /\ DayAsked(d) => FiredOn(d)
          /\ Day(begun) < d /\ d = Day(now) /\ DayAsked(d) =>
                FiredOn(d) \/ now < d * 24 + LastCall

\* A time is so many hours after the beginning of its day.
LEMMA Hours ==
    ASSUME NEW t \in Int
    PROVE  Day(t) \in Int /\ Day(t) * 24 <= t /\ t < Day(t) * 24 + 24
  BY DEF Day

\* Whole days keep the hour.
LEMMA SameHour ==
    ASSUME since \in Int, NEW d \in Int, d % 24 = 0
    PROVE  since + d = Day(since + d) * 24 + (since % 24) /\ since % 24 \in 0..23
<1>1. d = (d \div 24) * 24 /\ d \div 24 \in Int
  OBVIOUS
<1> DEFINE k == d \div 24
           h == since % 24
           y == since \div 24
<1>2. since = y * 24 + h /\ h \in 0..23 /\ y \in Int
  OBVIOUS
<1> HIDE DEF k, h, y
<1>3. since + d = (y + k) * 24 + h
  BY <1>1, <1>2 DEF k
<1>4. ((y + k) * 24 + h) \div 24 = y + k
  BY <1>1, <1>2 DEF k
<1>5. Day(since + d) = y + k
  BY <1>3, <1>4 DEF Day
<1>6. since + d = Day(since + d) * 24 + h
  BY <1>3, <1>5
<1> QED BY <1>2, <1>6 DEF h

\* The last call is between noon and the evening.
LEMMA LastCallIs == since \in Int => LastCall \in 12..17
<1> SUFFICES ASSUME since \in Int PROVE LastCall \in 12..17
  OBVIOUS
<1>1. since % 24 \in 0..23
  OBVIOUS
<1> QED BY <1>1 DEF LastCall

\* From the last call on, a reminder that was not yet sent on its day is due.
LEMMA DueAtLastCall ==
    ASSUME TimerKept, WholeDays, NEW t \in Nat, now <= t, t <= now + 6,
           NEW i \in Asking, Day(since + deltas[i]) = Day(t), ~FiredOn(Day(t)),
           t >= Day(t) * 24 + LastCall, now < Day(t) * 24 + LastCall
    PROVE  Due(deltas[i], since, lastFired, t)
<1> DEFINE d == Day(t)
           h == since % 24
<1>1. /\ since \in Int /\ now \in Nat /\ d \in Int /\ deltas[i] \in Int /\ deltas[i] # 0
      /\ deltas[i] % 24 = 0 /\ LastCall \in 12..17
  BY Hours, LastCallIs DEF TimerKept, WholeDays, Asking
<1>2. since + deltas[i] = d * 24 + h /\ h \in 0..23
  BY <1>1, SameHour
<1>3. LastCall = IF h <= 5 THEN h + 12 ELSE 17
  BY DEF LastCall
<1>4. Distance(t, since + deltas[i]) <= MAX_MIN_INTERVAL
  <2> HIDE DEF h, d
  <2>1. t >= d * 24 + LastCall /\ t < d * 24 + LastCall + 6
    BY <1>1 DEF d
  <2> QED BY <1>1, <1>2, <1>3, <2>1 DEF Distance, MAX_MIN_INTERVAL
<1>5. Rested(lastFired, t)
  <2> SUFFICES ASSUME lastFired # Never
               PROVE  Day(lastFired) # Day(t) /\ t - lastFired >= MAX_MIN_INTERVAL
    BY DEF Rested
  <2> DEFINE e == Day(lastFired)
  <2>1. lastFired \in fired /\ lastFired \in Nat /\ lastFired <= now
    BY DEF TimerKept
  <2>2. e # d
    BY <2>1 DEF FiredOn
  <2>3. e \in Int /\ e * 24 <= lastFired /\ lastFired < e * 24 + 24 /\ t < d * 24 + 24
    BY <2>1, Hours
  <2>4. PICK j \in Asking : /\ Day(since + deltas[j]) = e
                            /\ Distance(lastFired, since + deltas[j]) <= MAX_MIN_INTERVAL
    BY DEF TimerKept
  <2>5. deltas[j] \in Int /\ deltas[j] % 24 = 0
    BY DEF TimerKept, WholeDays, Asking
  <2>6. since + deltas[j] = e * 24 + h
    BY <1>1, <2>4, <2>5, SameHour
  <2> HIDE DEF d, e, h
  <2>7. lastFired <= e * 24 + h + 18
    BY <1>1, <1>2, <2>1, <2>3, <2>4, <2>6 DEF Distance, MAX_MIN_INTERVAL
  <2>8. e < d
    BY <1>1, <2>1, <2>2, <2>3
  <2>9. e <= d - 1
    BY <1>1, <2>3, <2>8
  <2>10. t >= d * 24 + LastCall
    BY DEF d
  <2>11. t - lastFired >= 18
    BY <1>1, <1>2, <1>3, <2>1, <2>3, <2>7, <2>9, <2>10
  <2> QED BY <2>2, <2>11 DEF d, e, MAX_MIN_INTERVAL
<1> QED BY <1>1, <1>4, <1>5 DEF Due

\* At first nothing went off (timer.go:47).
LEMMA TimerStarts == TimerInit => TimerKept
<1> SUFFICES ASSUME TimerInit PROVE TimerKept
  OBVIOUS
<1>1. now \in Nat /\ begun = now /\ since \in Int /\ deltas \in Seq(Int)
  BY DayTimerAssumption DEF TimerInit
<1>2. fired = {} /\ lastFired = Never /\ regular = TRUE
  BY DEF TimerInit
<1>3. \A d \in Int : ~(Day(begun) < d /\ d < Day(now)) /\ ~(Day(begun) < d /\ d = Day(now))
  <2>1. Day(begun) = Day(now) /\ Day(now) \in Int
    BY <1>1, Hours
  <2> QED BY <2>1
<1> QED BY <1>1, <1>2, <1>3 DEF TimerKept

\* Every question keeps to it (timer.go:47).
LEMMA TimerGoesOn == TimerKept /\ [TimerNext]_timerVars => TimerKept'
<1>1. CASE UNCHANGED timerVars
  BY <1>1 DEF timerVars, TimerKept, DayAsked, Asking, FiredOn, WholeDays, LastCall
<1>2. ASSUME TimerKept, TimerNext PROVE TimerKept'
  <2>1. PICK gap \in Gaps :
          LET t == now + gap
              goesOff == Check(deltas, since, lastFired, t) # 0
          IN  /\ now' = t
              /\ lastFired' = IF goesOff THEN t ELSE lastFired
              /\ fired' = IF goesOff THEN fired \cup {t} ELSE fired
              /\ regular' = (regular /\ gap <= 6)
              /\ UNCHANGED <<begun, since, deltas>>
    BY <1>2 DEF TimerNext, Ask
  <2> DEFINE t == now + gap
             goesOff == Check(deltas, since, lastFired, t) # 0
  <2>2. /\ now \in Nat /\ begun \in Nat /\ since \in Int /\ deltas \in Seq(Int)
        /\ gap \in Nat /\ t \in Nat /\ now <= t /\ begun <= now
    BY <1>2, DayTimerAssumption DEF TimerKept
  <2>3. goesOff <=> \E i \in Asking : Due(deltas[i], since, lastFired, t)
    <3>1. goesOff <=> \E i \in DOMAIN deltas : Due(deltas[i], since, lastFired, t)
      BY <2>2, CheckFinds
    <3> QED BY <3>1 DEF Asking, Due
  <2>4. /\ now' = t /\ lastFired' = IF goesOff THEN t ELSE lastFired
        /\ fired' = IF goesOff THEN fired \cup {t} ELSE fired
        /\ begun' = begun /\ since' = since /\ deltas' = deltas
        /\ regular' = (regular /\ gap <= 6)
    BY <2>1
  <2>5. Asking' = Asking /\ LastCall' = LastCall /\ (WholeDays' <=> WholeDays)
    BY <2>4 DEF Asking, LastCall, WholeDays
  <2>6. \A d : DayAsked(d)' <=> DayAsked(d)
    BY <2>4, <2>5 DEF DayAsked
  <2>7. \A d : FiredOn(d) => FiredOn(d)'
    BY <2>4 DEF FiredOn
  <2>8. /\ Day(t) \in Int /\ Day(t) * 24 <= t /\ t < Day(t) * 24 + 24
        /\ Day(now) \in Int /\ Day(now) * 24 <= now /\ now < Day(now) * 24 + 24
        /\ Day(begun) \in Int /\ LastCall \in 12..17
    <3> HIDE DEF t
    <3>1. Day(t) \in Int /\ Day(t) * 24 <= t /\ t < Day(t) * 24 + 24
      BY <2>2 DEF Day
    <3>2. Day(now) \in Int /\ Day(now) * 24 <= now /\ now < Day(now) * 24 + 24
      BY <2>2 DEF Day
    <3>3. Day(begun) \in Int
      BY <2>2, Hours
    <3> QED BY <2>2, <3>1, <3>2, <3>3, LastCallIs
  <2> HIDE DEF t, goesOff
  <2>9. now' \in Nat /\ begun' \in Nat /\ since' \in Int /\ deltas' \in Seq(Int) /\ begun' <= now'
    BY <2>2, <2>4
  <2>10. regular' \in BOOLEAN
    BY <2>4
  <2>11. \A x \in fired' : x \in Nat /\ x <= now' /\ DayAsked(Day(x))'
    <3> SUFFICES ASSUME NEW x \in fired' PROVE x \in Nat /\ x <= t /\ DayAsked(Day(x))
      BY <2>4, <2>6
    <3>1. CASE x \in fired
      <4>1. x \in Nat /\ x <= now /\ DayAsked(Day(x))
        BY <1>2, <3>1 DEF TimerKept
      <4> QED BY <2>2, <4>1
    <3>2. CASE x \notin fired
      <4>1. goesOff /\ x = t
        BY <2>4, <3>2
      <4>2. PICK i \in Asking : Due(deltas[i], since, lastFired, t)
        BY <2>3, <4>1
      <4> QED BY <2>2, <4>1, <4>2 DEF Due, DayAsked
    <3> QED BY <3>1, <3>2
  <2>12. /\ lastFired' = Never => fired' = {}
         /\ lastFired' # Never =>
               /\ lastFired' \in fired' /\ \A x \in fired' : x <= lastFired'
               /\ \E i \in Asking : /\ Day(since + deltas[i]) = Day(lastFired')
                                    /\ Distance(lastFired', since + deltas[i]) <= MAX_MIN_INTERVAL
    <3>1. CASE goesOff
      <4>1. lastFired' = t /\ fired' = fired \cup {t} /\ t # Never
        BY <2>2, <2>4, <3>1 DEF Never
      <4>2. PICK i \in Asking : Due(deltas[i], since, lastFired, t)
        BY <2>3, <3>1
      <4>3. \A x \in fired' : x <= t
        BY <2>4, <2>11
      <4> QED BY <4>1, <4>2, <4>3 DEF Due
    <3>2. CASE ~goesOff
      BY <1>2, <2>4, <3>2 DEF TimerKept
    <3> QED BY <3>1, <3>2
  <2>13. \A x, y \in fired' : x < y => Day(x) # Day(y) /\ y - x >= MAX_MIN_INTERVAL
    <3>1. CASE goesOff
      <4>1. PICK i \in Asking : Due(deltas[i], since, lastFired, t)
        BY <2>3, <3>1
      <4>2. ASSUME NEW x \in fired PROVE x < t /\ Day(x) # Day(t) /\ t - x >= MAX_MIN_INTERVAL
        <5>1. /\ lastFired # Never /\ lastFired \in Nat /\ lastFired <= now
              /\ x \in Nat /\ x <= lastFired
          BY <1>2 DEF TimerKept
        <5>2. Day(lastFired) # Day(t) /\ t - lastFired >= MAX_MIN_INTERVAL
          BY <4>1, <5>1 DEF Due, Rested
        <5>3. t - x >= MAX_MIN_INTERVAL
          BY <2>2, <5>1, <5>2 DEF MAX_MIN_INTERVAL
        <5>4. Day(x) <= Day(lastFired) /\ Day(lastFired) <= Day(t) /\ Day(x) \in Int /\ Day(lastFired) \in Int
          BY <2>2, <5>1 DEF Day
        <5>5. Day(x) # Day(t)
          BY <2>8, <5>2, <5>4
        <5> QED BY <2>2, <5>1, <5>3, <5>5 DEF MAX_MIN_INTERVAL
      <4>3. ~(t < t) /\ \A x \in fired : ~(t < x)
        <5>1. \A x \in fired : x \in Nat /\ x <= now
          BY <1>2 DEF TimerKept
        <5> QED BY <2>2, <5>1
      <4>4. \A x, y \in fired : x < y => Day(x) # Day(y) /\ y - x >= MAX_MIN_INTERVAL
        BY <1>2 DEF TimerKept
      <4> QED BY <2>4, <3>1, <4>2, <4>3, <4>4
    <3>2. CASE ~goesOff
      BY <1>2, <2>4, <3>2 DEF TimerKept
    <3> QED BY <3>1, <3>2
  <2>14. ASSUME regular', WholeDays', NEW d \in Int, Day(begun) < d, DayAsked(d)
         PROVE  /\ d < Day(t) => FiredOn(d)'
                /\ d = Day(t) => FiredOn(d)' \/ t < d * 24 + LastCall
    <3>1. regular /\ gap <= 6 /\ WholeDays /\ t <= now + 6
      <4>1. regular /\ gap <= 6
        BY <2>4, <2>14
      <4>2. WholeDays
        BY <2>5, <2>14
      <4>3. t <= now + 6
        BY <2>2, <4>1 DEF t
      <4> QED BY <4>1, <4>2, <4>3
    <3>2. /\ d < Day(now) => FiredOn(d)
          /\ d = Day(now) => FiredOn(d) \/ now < d * 24 + LastCall
      BY <1>2, <2>14, <3>1 DEF TimerKept
    <3>3. ASSUME d < Day(t) PROVE FiredOn(d)'
      <4>1. d <= Day(now)
        BY <2>2, <2>8, <3>1, <3>3
      <4>2. d = Day(now) => ~(now < d * 24 + LastCall)
        BY SMTT(40), <2>2, <2>8, <3>1, <3>3
      <4>3. FiredOn(d)
        <5>1. d < Day(now) \/ d = Day(now)
          <6> DEFINE today == Day(now)
          <6>1. today \in Int /\ d <= today
            BY <2>8, <4>1
          <6> HIDE DEF today
          <6>2. d < today \/ d = today
            BY <6>1
          <6> QED BY <6>2 DEF today
        <5> QED BY <3>2, <4>2, <5>1
      <4> QED BY <2>7, <4>3
    <3>4. ASSUME d = Day(t), ~FiredOn(d)' PROVE t < d * 24 + LastCall
      <4>1. ~FiredOn(d)
        BY <2>7, <3>4
      <4>2. now < d * 24 + LastCall
        <5>1. CASE d = Day(now)
          BY <3>2, <4>1, <5>1
        <5>2. CASE d # Day(now)
          <6>1. Day(now) < d
            BY <2>2, <2>8, <3>4, <5>2
          <6>2. now < d * 24
            BY <2>2, <2>8, <2>14, <6>1
          <6> QED BY <2>2, <2>8, <2>14, <6>2
        <5> QED BY <5>1, <5>2
      <4>3. ~goesOff
        BY <2>4, <3>4 DEF FiredOn
      <4>4. PICK i \in Asking : Day(since + deltas[i]) = d
        BY <2>14 DEF DayAsked
      <4> SUFFICES ASSUME t >= d * 24 + LastCall PROVE FALSE
        BY <2>2, <2>8
      <4>5. Due(deltas[i], since, lastFired, t)
        BY <1>2, <2>2, <3>1, <3>4, <4>1, <4>2, <4>4, DueAtLastCall
      <4> QED BY <2>3, <4>3, <4>5
    <3> QED BY <3>3, <3>4
  <2>15. regular' /\ WholeDays' => \A d \in Int :
           /\ Day(begun') < d /\ d < Day(now') /\ DayAsked(d)' => FiredOn(d)'
           /\ Day(begun') < d /\ d = Day(now') /\ DayAsked(d)' => FiredOn(d)' \/ now' < d * 24 + LastCall'
    BY <2>4, <2>5, <2>6, <2>14
  <2>16. lastFired' # Never =>
           \E i \in Asking' : /\ Day(since' + deltas'[i]) = Day(lastFired')
                              /\ Distance(lastFired', since' + deltas'[i]) <= MAX_MIN_INTERVAL
    BY <2>4, <2>5, <2>12
  <2> QED BY <2>9, <2>10, <2>11, <2>12, <2>13, <2>15, <2>16 DEF TimerKept
<1> QED BY <1>1, <1>2

\* Reminders go out on the days that are asked for, one on a day and 18 hours apart, and with
\* deltas of whole days none of these days that was watched from its beginning to its end is
\* left out (DayTimerSet.Check, timer.go:47).
THEOREM RemindersInTime == Spec => []RemindersSent
<1> DEFINE On == part = "timer" => TimerKept
<1>1. Init => On
  BY TimerStarts DEF Init
<1>2. On /\ [Next]_vars => On'
  BY PartSteps, TimerGoesOn
<1>3. TimerKept => RemindersOnTime
  <2> SUFFICES ASSUME TimerKept PROVE RemindersOnTime
    OBVIOUS
  <2> DEFINE days == {Day(since + deltas[i]) : i \in {j \in DOMAIN deltas : deltas[j] # 0}}
  <2>1. \A d : d \in days <=> DayAsked(d)
    BY DEF DayAsked, Asking
  <2>2. \A d \in days : d \in Int
    <3> SUFFICES ASSUME NEW i \in DOMAIN deltas PROVE Day(since + deltas[i]) \in Int
      OBVIOUS
    <3>1. since \in Int /\ deltas[i] \in Int
      BY DEF TimerKept
    <3> QED BY <3>1, Hours
  <2>3. \A t \in fired : Day(t) \in days
    BY <2>1 DEF TimerKept
  <2>4. \A t, u \in fired : t < u => Day(t) # Day(u) /\ u - t >= MAX_MIN_INTERVAL
    BY DEF TimerKept
  <2>5. regular /\ WholeDays =>
          \A d \in days : Day(begun) < d /\ d < Day(now) => \E t \in fired : Day(t) = d
    BY <2>1, <2>2 DEF TimerKept, FiredOn
  <2> QED BY <2>3, <2>4, <2>5 DEF RemindersOnTime
<1>4. On => RemindersSent
  BY <1>3 DEF RemindersSent
<1> QED BY <1>1, <1>2, <1>4, PTL DEF Spec

-----------------------------------------------------------------------------
(* The cache of Jellyfin's activities.                                     *)

\* The cell k further up than cell i, around the ring, and how far cell c is up from cell i.
Up(i, k)  == IF i + k < ActivityLimit THEN i + k ELSE i + k - ActivityLimit
Far(i, c) == IF c >= i THEN c - i ELSE c - i + ActivityLimit
Fewer(a, b) == IF a < b THEN a ELSE b

\* The entries held when n is the newest.
Held(n) == {e \in 1..n : e > n - ActivityLimit}

\* A list has the entries up to n of a user, from the newest on.
ListKept(n, own, u) ==
    /\ own \in Seq(Cell)
    /\ \A i \in DOMAIN own : cache[own[i]] \in Held(n) /\ jfLog[cache[own[i]]] = u
    /\ \A e \in Held(n) : jfLog[e] = u => \E i \in DOMAIN own : cache[own[i]] = e
    /\ \A i, j \in DOMAIN own : i < j => cache[own[i]] > cache[own[j]]

\* The ring has the entries up to n, the newest at `start` and the others above it, and
\* `end` is the oldest unless entries were overrun.
RingKept(n) ==
    /\ jfLog \in Seq(JFUsers) /\ n <= Len(jfLog)
    /\ lastYieldingSync \in Nat /\ lastYieldingSync <= n
    /\ thisSync = NoSync \/ (thisSync \in Nat /\ thisSync <= Len(jfLog))
    /\ cache \in [Cell -> Int]
    /\ n = 0 => start = -1 /\ \A c \in Cell : cache[c] = NoEntry
    /\ n > 0 => /\ start \in Cell
                /\ \A c \in Cell : cache[c] = IF Far(start, c) < n THEN n - Far(start, c) ELSE NoEntry
    /\ total = Fewer(n, ActivityLimit)
    /\ DOMAIN byEntryID = Held(n)
    /\ \A e \in Held(n) : byEntryID[e] \in Cell /\ cache[byEntryID[e]] = e
    /\ overrun \in BOOLEAN
    /\ ~overrun => /\ n > 0 => end = Up(start, Fewer(n, ActivityLimit) - 1)
                   /\ \A u \in JFUsers : ListKept(n, byUserID[u], u)

\* The remainder, of numbers that are not far out of the ring.
LEMMA Around ==
    ASSUME NEW x \in Int
    PROVE  /\ 0 <= x /\ x < ActivityLimit => x % ActivityLimit = x
           /\ ActivityLimit <= x /\ x < 2 * ActivityLimit => x % ActivityLimit = x - ActivityLimit
           /\ -ActivityLimit <= x /\ x < 0 => x % ActivityLimit = x + ActivityLimit
<1>1. ActivityLimit \in Nat /\ ActivityLimit > 0
  BY ActivityAssumption
<1>2. CASE 0 <= x /\ x < ActivityLimit
  BY <1>1, <1>2
<1>3. CASE ActivityLimit <= x /\ x < 2 * ActivityLimit
  BY <1>1, <1>3
<1>4. CASE -ActivityLimit <= x /\ x < 0
  BY <1>1, <1>4
<1> QED BY <1>1, <1>2, <1>3, <1>4

\* Going up and measuring how far undo each other.
LEMMA RoundTrip ==
    ASSUME NEW i \in Cell
    PROVE  /\ \A k \in Cell : Up(i, k) \in Cell /\ Far(i, Up(i, k)) = k
           /\ \A c \in Cell : Far(i, c) \in Cell /\ Up(i, Far(i, c)) = c
<1>1. ActivityLimit \in Nat /\ ActivityLimit > 0
  BY ActivityAssumption
<1> QED BY <1>1 DEF Up, Far, Cell

\* Below a cell of the ring, n cells down, the others are n cells further up.
LEMMA Below ==
    ASSUME NEW i \in Cell, NEW n \in 1..ActivityLimit
    PROVE  LET f == (i - n) % ActivityLimit
           IN  /\ f \in Cell
               /\ f = IF i >= n THEN i - n ELSE i - n + ActivityLimit
               /\ \A c \in Cell : Far(i, c) = IF Far(f, c) >= n THEN Far(f, c) - n
                                              ELSE Far(f, c) - n + ActivityLimit
               /\ \A k \in Nat : k + n < ActivityLimit => Up(i, k) = Up(f, k + n)
<1>1. ActivityLimit \in Nat /\ ActivityLimit > 0
  BY ActivityAssumption
<1> DEFINE f == (i - n) % ActivityLimit
<1>2. i - n \in Int /\ i \in Int /\ 0 <= i /\ i < ActivityLimit /\ n \in Int /\ 0 < n /\ n <= ActivityLimit
  BY <1>1 DEF Cell
<1>3. f = IF i >= n THEN i - n ELSE i - n + ActivityLimit
  <2>1. CASE i >= n
    BY <1>1, <1>2, <2>1, Around
  <2>2. CASE ~(i >= n)
    BY <1>1, <1>2, <2>2, Around
  <2> QED BY <2>1, <2>2
<1> HIDE DEF f
<1>4. f \in Cell
  BY <1>1, <1>2, <1>3 DEF Cell
<1>5. ASSUME NEW c \in Cell
      PROVE  Far(i, c) = IF Far(f, c) >= n THEN Far(f, c) - n ELSE Far(f, c) - n + ActivityLimit
  <2>1. c \in Int /\ 0 <= c /\ c < ActivityLimit
    BY <1>1 DEF Cell
  <2> QED BY <1>1, <1>2, <1>3, <2>1 DEF Far
<1>6. ASSUME NEW k \in Nat, k + n < ActivityLimit PROVE Up(i, k) = Up(f, k + n)
  BY <1>1, <1>2, <1>3, <1>6 DEF Up
<1> QED BY <1>3, <1>4, <1>5, <1>6 DEF f

\* A sync takes the newest entries that it does not know, as many as there is room for
\* (jf_activity.go:111).
LEMMA NewIs ==
    ASSUME NEW n \in Nat, NEW t \in Nat, n <= t, NEW q \in Nat, q <= ActivityLimit, q <= t,
           Fewer(ActivityLimit, t - n) <= q
    PROVE  New([i \in 1..q |-> t + 1 - i], Held(n))
             = [i \in 1..Fewer(ActivityLimit, t - n) |-> t + 1 - i]
<1>1. ActivityLimit \in Nat /\ ActivityLimit > 0
  BY ActivityAssumption
<1> DEFINE items == [i \in 1..q |-> t + 1 - i]
           dupes == {i \in DOMAIN items : items[i] \in Held(n)}
<1>2. items \in Seq(Int) /\ Len(items) = q /\ DOMAIN items = 1..q
  OBVIOUS
<1>3. dupes = {i \in 1..q : i > t - n}
  BY <1>1 DEF Held
<1> HIDE DEF dupes
<1>4. CASE q > t - n
  <2>1. t - n + 1 \in dupes /\ \A i \in dupes : t - n + 1 <= i /\ i \in Int
    BY <1>3, <1>4
  <2>2. Min(dupes) = t - n + 1
    <3>1. \A x \in dupes : (\A y \in dupes : x <= y) => x = t - n + 1
      BY <2>1
    <3> QED BY <2>1, <3>1 DEF Min
  <2>3. New(items, Held(n)) = SubSeq(items, 1, t - n)
    <3>1. dupes # {} /\ Min(dupes) - 1 = t - n
      BY <2>1, <2>2
    <3> QED BY <3>1 DEF New, dupes
  <2>4. Fewer(ActivityLimit, t - n) = t - n
    BY <1>1, <1>4 DEF Fewer
  <2>5. SubSeq(items, 1, t - n) = [i \in 1..(t - n) |-> t + 1 - i]
    BY <1>2, <1>4
  <2> QED BY <2>3, <2>4, <2>5
<1>5. CASE q <= t - n
  <2>1. dupes = {}
    BY <1>3, <1>5
  <2>2. New(items, Held(n)) = items
    BY <2>1 DEF New, dupes
  <2>3. Fewer(ActivityLimit, t - n) = q
    BY <1>1, <1>5 DEF Fewer
  <2> QED BY <2>2, <2>3
<1> QED BY <1>4, <1>5

\* The list has the cells of the user's entries, in order.
Listed(u, ring, cells, own) ==
    /\ own \in Seq(Cell)
    /\ \A i \in DOMAIN own : \E a \in DOMAIN cells : own[i] = cells[a] /\ jfLog[ring[cells[a]]] = u
    /\ \A a \in DOMAIN cells : jfLog[ring[cells[a]]] = u => \E i \in DOMAIN own : own[i] = cells[a]
    /\ \A i, j \in DOMAIN own : i < j => ring[own[i]] > ring[own[j]]

\* Along the cells of newer entries first, the list of a user is complete and in order
\* (jf_activity.go:186).
LEMMA OfKeeps ==
    ASSUME NEW u, NEW ring, NEW cells \in Seq(Cell),
           \A a, b \in DOMAIN cells : a < b => ring[cells[a]] > ring[cells[b]]
    PROVE  Listed(u, ring, cells, Of(u, ring, cells))
<1> DEFINE mine == {c \in ToSet(cells) : jfLog[ring[c]] = u}
           own == Within(cells, mine)
<1> HIDE DEF Cell
<1>1. own \in Seq(Cell)
  BY WithinIs
<1>2. PICK at : Chosen(cells, mine, Len(cells), own, at)
  BY WithinIs
<1>3. DOMAIN cells = 1..Len(cells)
  OBVIOUS
<1>4. \A a \in DOMAIN cells : cells[a] \in mine <=> jfLog[ring[cells[a]]] = u
  BY DEF ToSet
<1> HIDE DEF mine, own
<1>5. /\ \A i \in DOMAIN own : at[i] \in DOMAIN cells /\ own[i] = cells[at[i]] /\ cells[at[i]] \in mine
      /\ \A i, j \in DOMAIN own : i < j => at[i] < at[j]
      /\ \A a \in DOMAIN cells : cells[a] \in mine => \E i \in DOMAIN own : at[i] = a
  BY <1>2, <1>3 DEF Chosen
<1>6. \A i, j \in DOMAIN own : i < j => ring[own[i]] > ring[own[j]]
  BY <1>5
<1>7. Listed(u, ring, cells, own)
  BY <1>1, <1>4, <1>5, <1>6 DEF Listed
<1> QED BY <1>7 DEF Of, own, mine

\* At first nothing is held (jf_activity.go:68).
LEMMA RingStarts == ActivityInit => RingKept(0)
<1>1. ActivityLimit \in Nat /\ ActivityLimit > 0
  BY ActivityAssumption
<1>2. Held(0) = {}
  BY DEF Held
<1>3. <<>> \in Seq(Cell) /\ <<>> \in Seq(JFUsers) /\ DOMAIN <<>> = {}
  OBVIOUS
<1>4. ActivityInit => \A u \in JFUsers : ListKept(0, byUserID[u], u)
  BY <1>2, <1>3 DEF ActivityInit, EmptyIndex, ListKept
<1>5. ActivityInit => cache \in [Cell -> Int] /\ \A c \in Cell : cache[c] = NoEntry
  BY DEF ActivityInit, NoEntry
<1>6. Fewer(0, ActivityLimit) = 0
  BY <1>1 DEF Fewer
<1>7. ActivityInit =>
         /\ jfLog \in Seq(JFUsers) /\ 0 <= Len(jfLog) /\ lastYieldingSync = 0 /\ thisSync = NoSync
         /\ start = -1 /\ total = 0 /\ DOMAIN byEntryID = {} /\ overrun = FALSE
  BY <1>3 DEF ActivityInit
<1> SUFFICES ASSUME ActivityInit PROVE RingKept(0)
  OBVIOUS
<1>8. overrun \in BOOLEAN /\ lastYieldingSync \in Nat
  <2>1. lastYieldingSync = 0 /\ overrun = FALSE
    BY <1>7
  <2> QED BY <2>1
<1> HIDE DEF Cell
<1> QED BY <1>2, <1>4, <1>5, <1>6, <1>7, <1>8 DEF RingKept

\* Counting down from t.
LEMMA Down ==
    ASSUME NEW k \in Nat, NEW t \in Nat
    PROVE  LET s == [i \in 1..k |-> t + 1 - i]
           IN  s \in Seq(Int) /\ Len(s) = k /\ DOMAIN s = 1..k /\ \A i \in 1..k : s[i] = t + 1 - i
OBVIOUS

\* What Jellyfin answers has the entries that are missing, or fills the ring
\* (jf_activity.go:137).
LEMMA AnswerIs ==
    ASSUME NEW n \in Nat, RingKept(n), NEW items \in Answers
    PROVE  New(items, DOMAIN byEntryID)
             = [i \in 1..Fewer(ActivityLimit, Len(jfLog) - n) |-> Len(jfLog) + 1 - i]
<1> DEFINE t == Len(jfLog)
           d == t - lastYieldingSync
           most(m) == IF m < ActivityLimit THEN m ELSE ActivityLimit
<1>1. ActivityLimit \in Nat /\ ActivityLimit > 0
  BY ActivityAssumption
<1>2. /\ t \in Nat /\ n <= t /\ lastYieldingSync \in Nat /\ lastYieldingSync <= n
      /\ DOMAIN byEntryID = Held(n)
  BY DEF RingKept
<1>3. PICK m \in {d, d + (IF lastYieldingSync > 0 THEN 1 ELSE 0)} :
              items = [i \in 1..most(m) |-> t + 1 - i]
  BY DEF Answers
<1>4. m \in Nat /\ t - n <= m /\ m <= t
  BY <1>2
<1>5. most(m) \in Nat /\ most(m) <= ActivityLimit /\ most(m) <= t /\ Fewer(ActivityLimit, t - n) <= most(m)
  BY <1>1, <1>2, <1>4 DEF Fewer
<1> HIDE DEF t, most
<1>6. New(items, Held(n)) = [i \in 1..Fewer(ActivityLimit, t - n) |-> t + 1 - i]
  BY <1>2, <1>3, <1>5, NewIs
<1> QED BY <1>2, <1>6 DEF t

\* The first that was held when n was the newest.
Lowest(n) == IF n > ActivityLimit THEN n - ActivityLimit + 1 ELSE 1

\* What a sync brings in (jf_activity.go:158) leaves the ring as it was, with the entries up
\* to the end of Jellyfin's log.
LEMMA TakenIn ==
    ASSUME NEW h \in Nat, RingKept(h), NEW new, TakeIn(new), thisSync # NoSync,
           new = [i \in 1..Fewer(ActivityLimit, Len(jfLog) - h) |-> Len(jfLog) + 1 - i],
           thisSync' = NoSync, jfLog' = jfLog
    PROVE  \E m \in Nat : RingKept(m)'
<1> DEFINE t == Len(jfLog)
           n == Len(new)
           first == IF start = -1 THEN 0 ELSE (start - n) % ActivityLimit
           fresh == [i \in 1..n |-> (first + i - 1) % ActivityLimit]
           lost == {cache[c] : c \in ToSet(fresh)} \ {NoEntry}
           ring == [c \in Cell |-> IF c \in ToSet(fresh)
                                  THEN new[CHOOSE i \in 1..n : fresh[i] = c] ELSE cache[c]]
           newEnd == LET e == IF start = -1 THEN n - 1 ELSE end
                     IN  IF cache[first] # NoEntry THEN (e - 1) % ActivityLimit ELSE e
           old == IF start = -1 THEN <<>> ELSE Cells(start, newEnd)
<1>1. ActivityLimit \in Nat /\ ActivityLimit > 0
  BY ActivityAssumption
<1>2. /\ t \in Nat /\ h <= t /\ jfLog \in Seq(JFUsers)
      /\ lastYieldingSync \in Nat /\ lastYieldingSync <= h /\ thisSync \in Nat /\ thisSync <= t
      /\ cache \in [Cell -> Int] /\ total = Fewer(h, ActivityLimit)
      /\ DOMAIN byEntryID = Held(h) /\ overrun \in BOOLEAN
      /\ h = 0 => start = -1 /\ \A c \in Cell : cache[c] = NoEntry
      /\ h > 0 => /\ start \in Cell
                  /\ \A c \in Cell : cache[c] = IF Far(start, c) < h THEN h - Far(start, c) ELSE NoEntry
      /\ ~overrun /\ h > 0 => end = Up(start, Fewer(h, ActivityLimit) - 1)
  BY DEF RingKept
<1>3. Fewer(ActivityLimit, t - h) \in 0..ActivityLimit /\ Fewer(ActivityLimit, t - h) <= t - h
  BY <1>1, <1>2 DEF Fewer
<1>4. /\ n = Fewer(ActivityLimit, t - h) /\ DOMAIN new = 1..n /\ \A i \in 1..n : new[i] = t + 1 - i
      /\ n \in 0..ActivityLimit /\ n <= t - h
  <2> DEFINE k == Fewer(ActivityLimit, t - h)
  <2>1. k \in Nat
    BY <1>3
  <2>2. new = [i \in 1..k |-> t + 1 - i]
    OBVIOUS
  <2> HIDE DEF k, t
  <2>3. Len(new) = k /\ DOMAIN new = 1..k /\ \A i \in 1..k : new[i] = t + 1 - i
    <3>1. t \in Nat
      BY <1>2
    <3> QED BY <2>1, <2>2, <3>1, Down
  <2> QED BY <1>3, <2>3 DEF k
<1>5. CASE n = 0
  <2>1. t = h
    BY <1>1, <1>2, <1>4, <1>5 DEF Fewer
  <2>2. UNCHANGED <<cache, start, end, byEntryID, byUserID, total, lastYieldingSync, overrun>>
    BY <1>5 DEF TakeIn
  <2>3. \A u \in JFUsers : ListKept(h, byUserID[u], u) => ListKept(h, byUserID[u], u)'
    BY <2>2 DEF ListKept
  <2> HIDE DEF n, first, fresh, lost, ring, newEnd, old
  <2>4. RingKept(h)'
    BY <2>2, <2>3 DEF RingKept
  <2> QED BY <2>4
<1>6. CASE n # 0
  <2>1. /\ cache' = ring /\ start' = first /\ end' = newEnd
        /\ byEntryID' = [e \in (DOMAIN byEntryID \ lost) \cup ToSet(new) |->
                             CHOOSE c \in Cell : ring[c] = e]
        /\ byUserID' = Index(ring, fresh, old)
        /\ total' = total + n - Cardinality(lost)
        /\ lastYieldingSync' = thisSync
        /\ overrun' = (overrun \/ Cardinality(lost) > 1 \/ (start # -1 /\ n = ActivityLimit))
    BY <1>6 DEF TakeIn
  <2>a. n \in 1..ActivityLimit
    <3> HIDE DEF n
    <3> QED BY <1>4, <1>6
  <2>2. first \in Cell
    <3>1. CASE start = -1
      BY <1>1, <3>1 DEF Cell
    <3>2. CASE start # -1
      <4>1. start \in Cell
        BY <1>2, <3>2
      <4> HIDE DEF n
      <4> QED BY <2>a, <3>2, <4>1, Below
    <3> QED BY <3>1, <3>2
  <2>3. h = 0 => start = -1 /\ first = 0
    BY <1>2
  <2>4. h > 0 =>
          /\ start # -1
          /\ \A c \in Cell : Far(start, c) = IF Far(first, c) >= n THEN Far(first, c) - n
                                             ELSE Far(first, c) - n + ActivityLimit
          /\ \A k \in Nat : k + n < ActivityLimit => Up(start, k) = Up(first, k + n)
    <3> HIDE DEF n
    <3> SUFFICES ASSUME h > 0
                 PROVE  /\ start # -1
                        /\ \A c \in Cell : Far(start, c) = IF Far(first, c) >= n THEN Far(first, c) - n
                                                           ELSE Far(first, c) - n + ActivityLimit
                        /\ \A k \in Nat : k + n < ActivityLimit => Up(start, k) = Up(first, k + n)
      OBVIOUS
    <3>1. start \in Cell
      BY <1>2
    <3>2. start # -1
      BY <3>1 DEF Cell
    <3>3. first = (start - n) % ActivityLimit
      BY <3>2
    <3> HIDE DEF first
    <3> QED BY <2>a, <3>1, <3>2, <3>3, Below
  <2>5. DOMAIN fresh = 1..n /\ \A i \in 1..n : fresh[i] = Up(first, i - 1) /\ fresh[i] \in Cell
    <3> HIDE DEF n, first
    <3> SUFFICES ASSUME NEW i \in 1..n PROVE fresh[i] = Up(first, i - 1) /\ fresh[i] \in Cell
      OBVIOUS
    <3>1. i - 1 \in Cell
      BY <1>1, <2>a DEF Cell
    <3>2. first + i - 1 \in Int /\ 0 <= first + i - 1 /\ first + i - 1 < 2 * ActivityLimit
      BY <1>1, <2>2, <3>1 DEF Cell
    <3>3. fresh[i] = Up(first, i - 1)
      BY <1>1, <2>2, <3>1, <3>2, Around DEF Up, Cell
    <3> QED BY <2>2, <3>1, <3>3, RoundTrip
  <2>6. \A c \in Cell : c \in ToSet(fresh) <=> Far(first, c) < n
    <3> HIDE DEF n, first, fresh
    <3> SUFFICES ASSUME NEW c \in Cell PROVE c \in ToSet(fresh) <=> Far(first, c) < n
      OBVIOUS
    <3>1. Far(first, c) \in Cell /\ Up(first, Far(first, c)) = c
      BY <2>2, RoundTrip
    <3>2. ASSUME Far(first, c) < n PROVE c \in ToSet(fresh)
      <4>1. Far(first, c) + 1 \in 1..n /\ (Far(first, c) + 1) - 1 = Far(first, c)
        BY <1>1, <2>a, <3>1, <3>2 DEF Cell
      <4>2. fresh[Far(first, c) + 1] = c
        BY <2>5, <3>1, <4>1
      <4> QED BY <2>5, <4>1, <4>2 DEF ToSet
    <3>3. ASSUME c \in ToSet(fresh) PROVE Far(first, c) < n
      <4>1. PICK i \in 1..n : c = fresh[i]
        BY <2>5, <3>3 DEF ToSet
      <4>2. i - 1 \in Cell
        BY <1>1, <2>a DEF Cell
      <4>3. Far(first, c) = i - 1
        BY <2>2, <2>5, <4>1, <4>2, RoundTrip
      <4> QED BY <2>a, <4>3
    <3> QED BY <3>2, <3>3
  <2>7. ToSet(fresh) \subseteq Cell
    <3> HIDE DEF n, first, fresh, Cell
    <3> QED BY <2>5 DEF ToSet
  <2>8. \A c \in Cell : ring[c] = IF Far(first, c) < t THEN t - Far(first, c) ELSE NoEntry
    <3> HIDE DEF n, first, fresh, t
    <3> SUFFICES ASSUME NEW c \in Cell
                 PROVE  ring[c] = IF Far(first, c) < t THEN t - Far(first, c) ELSE NoEntry
      OBVIOUS
    <3> DEFINE f == Far(first, c)
    <3>1. f \in Int /\ 0 <= f /\ f < ActivityLimit
      BY <1>1, <2>2, RoundTrip DEF Cell
    <3>2. CASE c \in ToSet(fresh)
      <4>1. f < n
        BY <2>6, <3>2
      <4>2. ring[c] = new[CHOOSE i \in 1..n : fresh[i] = c]
        BY <3>2
      <4>3. \E i \in 1..n : fresh[i] = c
        BY <2>5, <3>2 DEF ToSet
      <4>4. PICK i \in 1..n : fresh[i] = c /\ ring[c] = new[i]
        <5> HIDE DEF ring
        <5> QED BY <4>2, <4>3
      <4>5. i - 1 \in Cell
        BY <1>1, <2>a DEF Cell
      <4>6. f = i - 1
        BY <2>2, <2>5, <4>4, <4>5, RoundTrip
      <4>7. ring[c] = t + 1 - i
        <5> HIDE DEF ring
        <5> QED BY <1>4, <4>4
      <4> HIDE DEF ring, f
      <4>8. f < t /\ t + 1 - i = t - f
        BY <1>2, <1>4, <2>a, <4>1, <4>6, <3>1
      <4> QED BY <4>7, <4>8 DEF f
    <3>3. CASE c \notin ToSet(fresh)
      <4>1. f >= n
        BY <2>6, <2>a, <3>1, <3>3
      <4>2. ring[c] = cache[c]
        BY <3>3
      <4>3. n = t - h
        BY <1>1, <1>2, <1>4, <2>a, <3>1, <4>1 DEF Fewer
      <4>4. CASE h = 0
        <5>1. cache[c] = NoEntry
          BY <1>2, <4>4
        <5> HIDE DEF ring
        <5>2. ~(f < t)
          <6> HIDE DEF f
          <6> QED BY <1>2, <3>1, <4>1, <4>3, <4>4
        <5> QED BY <4>2, <5>1, <5>2
      <4>5. CASE h > 0
        <5>1. Far(start, c) = f - n
          BY <2>4, <4>1, <4>5
        <5>2. cache[c] = IF f - n < h THEN h - (f - n) ELSE NoEntry
          BY <1>2, <4>5, <5>1
        <5> HIDE DEF ring, f
        <5>3. (f - n < h <=> f < t) /\ h - (f - n) = t - f
          BY <1>2, <2>a, <3>1, <4>3
        <5> QED BY <4>2, <5>2, <5>3 DEF f
      <4> QED BY <4>4, <4>5
    <3> QED BY <3>2, <3>3
  <2>9. ring \in [Cell -> Int]
    <3> HIDE DEF n, first, fresh, t
    <3>1. \A c \in Cell : ring[c] \in Int
      <4> TAKE c \in Cell
      <4>1. Far(first, c) \in Int
        BY <1>1, <2>2, RoundTrip DEF Cell
      <4> HIDE DEF ring
      <4> QED BY <1>2, <2>8, <4>1 DEF NoEntry
    <3> QED BY <3>1

  <2>b. NoEntry = -1
    BY DEF NoEntry
  <2>c. lost = {cache[c] : c \in {d \in Cell : Far(first, d) < n}} \ {NoEntry}
    <3>1. ToSet(fresh) = {d \in Cell : Far(first, d) < n}
      <4> HIDE DEF n, first, fresh, Cell
      <4> QED BY <2>6, <2>7
    <3> HIDE DEF n, first, fresh
    <3> QED BY <3>1
  <2> HIDE DEF n, first, fresh, t, ring, lost, newEnd, old
  <2>10. lost = Lowest(h)..(h + n - ActivityLimit)
    <3>1. CASE h = 0
      <4>1. \A c \in Cell : cache[c] = NoEntry
        BY <1>2, <3>1
      <4>2. lost = {}
        BY <2>c, <4>1
      <4>3. Lowest(h) > h + n - ActivityLimit /\ Lowest(h) \in Int
        BY <1>1, <2>a, <3>1 DEF Lowest
      <4> QED BY <1>1, <2>a, <4>2, <4>3
    <3>2. CASE h > 0
      <4>1. ASSUME NEW e \in lost PROVE e \in Lowest(h)..(h + n - ActivityLimit)
        <5>1. PICK c \in Cell : Far(first, c) < n /\ e = cache[c] /\ e # NoEntry
          BY <2>c
        <5> DEFINE f == Far(first, c)
        <5>2. f \in Int /\ 0 <= f /\ f < n
          BY <1>1, <2>2, <5>1, RoundTrip DEF Cell
        <5>3. Far(start, c) = f - n + ActivityLimit
          BY <2>4, <2>a, <3>2, <5>2
        <5>4. f - n + ActivityLimit < h /\ e = h - (f - n + ActivityLimit)
          BY <1>2, <3>2, <5>1, <5>3
        <5> HIDE DEF f
        <5> QED BY <1>1, <2>a, <5>2, <5>4 DEF Lowest
      <4>2. ASSUME NEW e \in Lowest(h)..(h + n - ActivityLimit) PROVE e \in lost
        <5> DEFINE f == h + n - ActivityLimit - e
                   c == Up(first, f)
        <5>1. e \in Int /\ 1 <= e /\ h - ActivityLimit + 1 <= e /\ e <= h + n - ActivityLimit
          BY <1>1, <2>a DEF Lowest
        <5>2. f \in Int /\ 0 <= f /\ f < n /\ f \in Cell
          BY <1>1, <2>a, <5>1 DEF Cell
        <5>3. f - n + ActivityLimit < h /\ e = h - (f - n + ActivityLimit) /\ ~(f >= n)
          BY <1>1, <2>a, <5>1, <5>2
        <5> HIDE DEF f
        <5>4. c \in Cell /\ Far(first, c) = f
          BY <2>2, <5>2, RoundTrip
        <5> HIDE DEF c
        <5>5. Far(start, c) = f - n + ActivityLimit
          BY <2>4, <3>2, <5>3, <5>4
        <5>6. cache[c] = e
          BY <1>2, <3>2, <5>3, <5>4, <5>5
        <5>7. e # NoEntry
          BY <2>b, <5>1
        <5> QED BY <2>c, <5>2, <5>4, <5>6, <5>7
      <4> QED BY <4>1, <4>2
    <3> QED BY <3>1, <3>2
  <2>11. Cardinality(lost) = IF Lowest(h) > h + n - ActivityLimit THEN 0
                             ELSE h + n - ActivityLimit - Lowest(h) + 1
    <3>1. PICK lo \in Int, hi \in Int : lo = Lowest(h) /\ hi = h + n - ActivityLimit
      <4>1. Lowest(h) \in Int /\ h + n - ActivityLimit \in Int
        BY <1>1, <2>a DEF Lowest
      <4> QED BY <4>1
    <3>2. Cardinality(lo..hi) = IF lo > hi THEN 0 ELSE hi - lo + 1
      BY FS_Interval
    <3>3. lost = lo..hi
      BY <2>10, <3>1
    <3>4. CASE lo > hi
      BY <3>1, <3>2, <3>3, <3>4
    <3>5. CASE ~(lo > hi)
      <4>1. Cardinality(lost) = hi - lo + 1
        BY <3>2, <3>3, <3>5
      <4>2. hi - lo + 1 = h + n - ActivityLimit - Lowest(h) + 1 /\ ~(Lowest(h) > h + n - ActivityLimit)
        BY <1>1, <2>a, <3>1, <3>5
      <4> QED BY <4>1, <4>2
    <3> QED BY <3>4, <3>5
  <2>12. total' = Fewer(t, ActivityLimit)
    <3>1. CASE h > ActivityLimit
      <4>1. Lowest(h) = h - ActivityLimit + 1 /\ Fewer(h, ActivityLimit) = ActivityLimit
        BY <1>1, <3>1 DEF Lowest, Fewer
      <4>2. Cardinality(lost) = n
        BY <1>1, <2>a, <2>11, <4>1
      <4>3. total' = ActivityLimit
        BY <1>1, <1>2, <2>1, <2>a, <4>1, <4>2
      <4> QED BY <1>1, <1>2, <3>1, <4>3 DEF Fewer
    <3>2. CASE h <= ActivityLimit
      <4>1. Lowest(h) = 1 /\ Fewer(h, ActivityLimit) = h
        BY <1>1, <3>2 DEF Lowest, Fewer
      <4>2. Cardinality(lost) = IF h + n <= ActivityLimit THEN 0 ELSE h + n - ActivityLimit
        BY <1>1, <2>a, <2>11, <4>1
      <4>3. total' = h + n - Cardinality(lost)
        BY <1>2, <2>1, <4>1
      <4>4. total' = IF h + n <= ActivityLimit THEN h + n ELSE ActivityLimit
        BY <1>1, <2>a, <4>2, <4>3
      <4> QED BY <1>1, <1>2, <1>4, <2>a, <4>4 DEF Fewer
    <3> QED BY <1>1, <3>1, <3>2
  <2>13. (DOMAIN byEntryID \ lost) \cup ToSet(new) = Held(t)
    <3>1. ToSet(new) = {e \in 1..t : e > t - n}
      <4>1. ToSet(new) = {new[i] : i \in 1..n}
        BY <1>4 DEF ToSet
      <4>2. ASSUME NEW i \in 1..n PROVE new[i] \in 1..t /\ new[i] > t - n
        <5>1. new[i] = t + 1 - i
          BY <1>4
        <5> QED BY <1>2, <1>4, <2>a, <5>1
      <4>3. ASSUME NEW e \in 1..t, e > t - n PROVE \E i \in 1..n : new[i] = e
        <5>1. t + 1 - e \in 1..n /\ t + 1 - (t + 1 - e) = e
          BY <1>2, <2>a, <4>3
        <5> QED BY <1>4, <5>1
      <4> QED BY <4>1, <4>2, <4>3
    <3>2. DOMAIN byEntryID = {e \in 1..h : e > h - ActivityLimit}
      BY <1>2 DEF Held
    <3>3. DOMAIN byEntryID \ lost = {e \in 1..h : e > h + n - ActivityLimit}
      BY <1>1, <2>10, <2>a, <3>2 DEF Lowest
    <3>4. CASE n = t - h
      BY <1>1, <1>2, <2>a, <3>1, <3>3, <3>4 DEF Held
    <3>5. CASE n = ActivityLimit
      <4>1. DOMAIN byEntryID \ lost = {}
        BY <1>1, <1>2, <3>3, <3>5
      <4> QED BY <3>1, <3>5, <4>1 DEF Held
    <3> QED BY <1>4, <3>4, <3>5 DEF Fewer
  <2>14. DOMAIN byEntryID' = Held(t)
    BY <2>1, <2>13
  <2>15. ASSUME NEW e \in Held(t) PROVE byEntryID'[e] \in Cell /\ ring[byEntryID'[e]] = e
    <3>1. byEntryID'[e] = CHOOSE c \in Cell : ring[c] = e
      BY <2>1, <2>13
    <3> DEFINE f == t - e
    <3>2. f \in Cell /\ f < t /\ t - f = e
      BY <1>1, <1>2 DEF Held, Cell
    <3> HIDE DEF f
    <3>3. Up(first, f) \in Cell /\ Far(first, Up(first, f)) = f
      BY <2>2, <3>2, RoundTrip
    <3>4. ring[Up(first, f)] = e
      BY <2>8, <3>2, <3>3
    <3> HIDE DEF Cell
    <3> QED BY <3>1, <3>3, <3>4
  <2>16. overrun' \in BOOLEAN
    BY <2>1, Zenon

  <2>d. PICK last \in Nat : last = t
    BY <1>2
  <2>17. ASSUME ~overrun'
         PROVE  /\ newEnd = Up(first, Fewer(t, ActivityLimit) - 1)
                /\ \A u \in JFUsers : ListKept(last, byUserID[u], u)'
    <3> DEFINE held == Fewer(t, ActivityLimit)
    <3>1. ~overrun /\ Cardinality(lost) <= 1 /\ (start = -1 \/ n # ActivityLimit)
      <4>1. ~(overrun \/ Cardinality(lost) > 1 \/ (start # -1 /\ n = ActivityLimit))
        BY <2>1, <2>17, Zenon
      <4>2. Cardinality(lost) \in Int
        BY <1>1, <2>a, <2>11 DEF Lowest
      <4>3. ~overrun /\ ~(Cardinality(lost) > 1) /\ (start = -1 \/ n # ActivityLimit)
        BY <4>1, Zenon
      <4> QED BY <4>2, <4>3
    <3>2. held \in 1..ActivityLimit /\ n <= held /\ (h = 0 => n = held) /\ (h > 0 => n < held)
      <4>1. CASE h = 0
        BY <1>1, <1>2, <1>4, <2>a, <4>1 DEF Fewer
      <4>2. CASE h > 0
        <5>1. n # ActivityLimit
          BY <2>4, <3>1, <4>2
        <5> QED BY <1>1, <1>2, <1>4, <2>a, <4>2, <5>1 DEF Fewer
      <4> QED BY <4>1, <4>2
    <3>3. h > 0 => n = t - h /\ n < ActivityLimit
      <4> SUFFICES ASSUME h > 0 PROVE n = t - h /\ n < ActivityLimit
        OBVIOUS
      <4>1. n # ActivityLimit
        BY <2>4, <3>1
      <4> QED BY <1>1, <1>2, <1>4, <2>a, <4>1 DEF Fewer
    <3> HIDE DEF held
    <3>4. newEnd = Up(first, held - 1)
      <4>1. CASE h = 0
        <5>1. start = -1 /\ first = 0 /\ cache[first] = NoEntry
          BY <1>2, <2>2, <2>3, <4>1
        <5>2. newEnd = n - 1
          BY <5>1 DEF newEnd
        <5> QED BY <1>1, <2>a, <3>2, <4>1, <5>1, <5>2 DEF Up
      <4>2. CASE h > 0
        <5>1. start # -1 /\ end = Up(start, Fewer(h, ActivityLimit) - 1)
          BY <1>2, <2>4, <3>1, <4>2
        <5>2. newEnd = IF cache[first] # NoEntry THEN (end - 1) % ActivityLimit ELSE end
          BY <5>1 DEF newEnd
        <5>3. first \in Int /\ 0 <= first /\ first < ActivityLimit
          BY <1>1, <2>2 DEF Cell
        <5>4. Far(first, first) = 0 /\ Far(start, first) = ActivityLimit - n
          <6>1. Far(first, first) = 0
            BY <5>3 DEF Far
          <6>2. ~(Far(first, first) >= n)
            BY <2>a, <6>1
          <6>3. Far(start, first) = Far(first, first) - n + ActivityLimit
            BY <2>2, <2>4, <4>2, <6>2
          <6> QED BY <1>1, <2>a, <6>1, <6>3
        <5>5. cache[first] # NoEntry <=> t > ActivityLimit
          <6>1. cache[first] = IF ActivityLimit - n < h THEN h - (ActivityLimit - n) ELSE NoEntry
            BY <1>2, <2>2, <4>2, <5>4
          <6> QED BY <1>1, <1>2, <2>a, <2>b, <3>3, <4>2, <6>1
        <5>6. start = IF first + n < ActivityLimit THEN first + n ELSE first + n - ActivityLimit
          <6>1. Up(start, 0) = Up(first, 0 + n)
            <7>1. 0 \in Nat /\ 0 + n < ActivityLimit
              BY <1>1, <2>a, <3>3, <4>2
            <7> QED BY <2>4, <4>2, <7>1
          <6>2. start \in Int /\ 0 <= start /\ start < ActivityLimit
            BY <1>1, <1>2, <4>2 DEF Cell
          <6> QED BY <2>a, <6>1, <6>2 DEF Up
        <5>7. CASE t <= ActivityLimit
          <6>1. newEnd = end /\ held = t
            BY <1>1, <1>2, <5>2, <5>5, <5>7 DEF held, Fewer
          <6>2. Fewer(h, ActivityLimit) = h
            BY <1>1, <1>2, <5>7 DEF Fewer
          <6>3. end = Up(first, (h - 1) + n)
            BY <1>1, <1>2, <2>4, <3>3, <4>2, <5>1, <5>7, <6>2
          <6> QED BY <1>2, <2>a, <3>3, <4>2, <6>1, <6>3
        <5>8. CASE t > ActivityLimit
          <6>1. held = ActivityLimit
            BY <1>1, <1>2, <5>8 DEF held, Fewer
          <6>2. newEnd = (end - 1) % ActivityLimit
            BY <5>2, <5>5, <5>8
          <6>3. end = first
            <7>1. CASE h > ActivityLimit
              <8>1. n = 1 /\ Fewer(h, ActivityLimit) = ActivityLimit
                BY <1>1, <2>a, <2>11, <3>1, <7>1 DEF Lowest, Fewer
              <8> QED BY <1>1, <3>3, <4>2, <5>1, <5>3, <5>6, <8>1 DEF Up
            <7>2. CASE h <= ActivityLimit
              <8>1. Fewer(h, ActivityLimit) = h
                BY <1>1, <7>2 DEF Fewer
              <8>2. Cardinality(lost) = h + n - ActivityLimit
                BY <1>1, <1>2, <2>a, <2>11, <3>3, <4>2, <5>8, <7>2 DEF Lowest
              <8>3. h + n = ActivityLimit + 1
                BY <1>1, <1>2, <2>a, <3>1, <3>3, <4>2, <5>8, <8>2
              <8> QED BY SMTT(40), <1>1, <2>a, <3>3, <4>2, <5>1, <5>3, <5>6, <8>1, <8>3 DEF Up
            <7> QED BY <1>1, <7>1, <7>2
          <6>4. (end - 1) % ActivityLimit = IF first = 0 THEN first - 1 + ActivityLimit ELSE first - 1
            <7>1. CASE first = 0
              <8>1. end - 1 \in Int /\ -ActivityLimit <= end - 1 /\ end - 1 < 0
                BY <1>1, <6>3, <7>1
              <8>2. (end - 1) % ActivityLimit = (end - 1) + ActivityLimit
                BY <8>1, Around
              <8> QED BY <6>3, <7>1, <8>2
            <7>2. CASE first # 0
              <8>1. end - 1 \in Int /\ 0 <= end - 1 /\ end - 1 < ActivityLimit
                BY <1>1, <5>3, <6>3, <7>2
              <8>2. (end - 1) % ActivityLimit = end - 1
                BY <8>1, Around
              <8> QED BY <6>3, <7>2, <8>2
            <7> QED BY <7>1, <7>2
          <6> QED BY <1>1, <5>3, <6>1, <6>2, <6>4 DEF Up
        <5> QED BY <1>1, <1>2, <5>7, <5>8
      <4> QED BY <4>1, <4>2
    <3>5. ASSUME NEW u \in JFUsers PROVE ListKept(last, byUserID[u], u)'
      <4> DEFINE cells == fresh \o old
                 own == Of(u, ring, cells)
      <4>1. fresh \in Seq(Cell) /\ Len(fresh) = n
        <5> HIDE DEF Cell
        <5>1. n \in Nat /\ fresh = [i \in 1..n |-> fresh[i]] /\ \A i \in 1..n : fresh[i] \in Cell
          <6>1. n \in Nat
            BY <1>1, <2>a
          <6>2. fresh = [i \in 1..n |-> fresh[i]]
            BY DEF fresh
          <6> QED BY <2>5, <6>1, <6>2
        <5> QED BY SMTT(40), <5>1
      <4>2. old \in Seq(Cell) /\ Len(old) = held - n /\ \A m \in 1..(held - n) : old[m] = Up(first, m - 1 + n)
        <5>1. CASE h = 0
          <6>1. old = <<>> /\ held - n = 0
            BY <1>2, <3>2, <5>1 DEF old
          <6> QED BY <6>1
        <5>2. CASE h > 0
          <6> DEFINE k == held - 1 - n
          <6>1. k \in Nat /\ k + n = held - 1 /\ k + n < ActivityLimit /\ k + 1 = held - n
            BY <1>1, <2>a, <3>2, <5>2
          <6> HIDE DEF k
          <6>2. start \in Int /\ 0 <= start /\ start < ActivityLimit /\ start # -1
            BY <1>1, <1>2, <5>2 DEF Cell
          <6>3. newEnd = Up(start, k)
            BY <2>4, <3>4, <5>2, <6>1
          <6>4. (newEnd - start) % ActivityLimit = k
            <7>1. CASE start + k < ActivityLimit
              <8>1. newEnd - start = k /\ 0 <= k /\ k < ActivityLimit /\ k \in Int
                BY <1>1, <6>1, <6>2, <6>3, <7>1 DEF Up
              <8> QED BY <8>1, Around
            <7>2. CASE ~(start + k < ActivityLimit)
              <8>1. /\ newEnd - start = k - ActivityLimit /\ -ActivityLimit <= k - ActivityLimit
                    /\ k - ActivityLimit < 0 /\ k - ActivityLimit \in Int
                    /\ (k - ActivityLimit) + ActivityLimit = k
                BY <1>1, <2>a, <6>1, <6>2, <6>3, <7>2 DEF Up
              <8>2. (k - ActivityLimit) % ActivityLimit = (k - ActivityLimit) + ActivityLimit
                BY <8>1, Around
              <8> QED BY <8>1, <8>2
            <7> QED BY <7>1, <7>2
          <6>5. old = [m \in 1..(held - n) |-> (start + m - 1) % ActivityLimit]
            <7>1. old = Cells(start, newEnd)
              BY <6>2 DEF old
            <7>2. Cells(start, newEnd) = [m \in 1..(k + 1) |-> (start + m - 1) % ActivityLimit]
              BY <6>4 DEF Cells
            <7> QED BY <6>1, <7>1, <7>2
          <6>6. ASSUME NEW m \in 1..(held - n)
                PROVE  old[m] = Up(first, m - 1 + n) /\ old[m] \in Cell
            <7>1. /\ m - 1 \in Nat /\ m - 1 + n < ActivityLimit /\ m \in Int
                  /\ start + m - 1 \in Int /\ 0 <= start + m - 1 /\ start + m - 1 < 2 * ActivityLimit
              BY <1>1, <2>a, <3>2, <6>1, <6>2
            <7>2. (start + m - 1) % ActivityLimit = Up(start, m - 1)
              <8> DEFINE x == start + m - 1
              <8>1. x \in Int /\ 0 <= x /\ x < 2 * ActivityLimit
                BY <7>1
              <8>2. Up(start, m - 1) = IF x < ActivityLimit THEN x ELSE x - ActivityLimit
                BY <1>1, <6>2, <7>1 DEF Up
              <8> HIDE DEF x
              <8>3. x % ActivityLimit = IF x < ActivityLimit THEN x ELSE x - ActivityLimit
                BY <1>1, <8>1, Around
              <8> QED BY <8>2, <8>3 DEF x
            <7>3. Up(start, m - 1) = Up(first, m - 1 + n)
              BY <2>4, <5>2, <7>1
            <7>4. m - 1 + n \in Cell
              BY <1>1, <2>a, <7>1 DEF Cell
            <7>5. Up(first, m - 1 + n) \in Cell
              BY <2>2, <7>4, RoundTrip
            <7> QED BY <6>5, <7>2, <7>3, <7>5
          <6>7. held - n \in Nat
            BY <6>1
          <6>8. old = [m \in 1..(held - n) |-> old[m]]
            BY <6>5
          <6> HIDE DEF Cell
          <6> QED BY SMTT(40), <6>6, <6>7, <6>8
        <5> QED BY <1>2, <5>1, <5>2
      <4>3. /\ cells \in Seq(Cell) /\ Len(cells) = held /\ DOMAIN cells = 1..held
            /\ \A a \in 1..held : cells[a] = Up(first, a - 1)
        <5> HIDE DEF Cell
        <5>1. cells \in Seq(Cell) /\ Len(cells) = n + (held - n)
          <6>1. fresh \in Seq(Cell) /\ old \in Seq(Cell) /\ Len(fresh) = n /\ Len(old) = held - n
            BY <4>1, <4>2
          <6>2. cells \in Seq(Cell) /\ Len(cells) = Len(fresh) + Len(old)
            BY SMTT(40), <6>1
          <6> QED BY <6>1, <6>2
        <5>2. n + (held - n) = held /\ n \in Nat /\ held \in Nat /\ n <= held
          BY <1>1, <2>a, <3>2
        <5>3. DOMAIN cells = 1..held
          BY <5>1, <5>2
        <5>4. ASSUME NEW a \in 1..held PROVE cells[a] = Up(first, a - 1)
          <6>1. CASE a <= n
            <7>1. cells[a] = fresh[a]
              BY <4>1, <4>2, <5>2, <6>1
            <7>2. a \in 1..n
              BY <5>2, <6>1
            <7> QED BY <2>5, <7>1, <7>2
          <6>2. CASE a > n
            <7>1. cells[a] = old[a - n]
              BY SMTT(40), <4>1, <4>2, <5>2, <6>2
            <7>2. a - n \in 1..(held - n) /\ (a - n) - 1 + n = a - 1
              BY <5>2, <6>2
            <7> QED BY <4>2, <7>1, <7>2
          <6> HIDE DEF cells
          <6> QED BY <5>2, <6>1, <6>2
        <5> HIDE DEF cells
        <5> QED BY <5>1, <5>2, <5>3, <5>4
      <4> HIDE DEF cells
      <4>4. ASSUME NEW a \in 1..held PROVE ring[cells[a]] = t + 1 - a
        <5>1. a - 1 \in Cell /\ a - 1 < t /\ t - (a - 1) = t + 1 - a
          BY <1>1, <1>2, <3>2 DEF Cell, held, Fewer
        <5>2. Up(first, a - 1) \in Cell /\ Far(first, Up(first, a - 1)) = a - 1
          BY <2>2, <5>1, RoundTrip
        <5> QED BY <2>8, <4>3, <5>1, <5>2
      <4>5. Listed(u, ring, cells, own)
        <5>1. \A a, b \in DOMAIN cells : a < b => ring[cells[a]] > ring[cells[b]]
          BY SMTT(40), <1>2, <4>3, <4>4
        <5> QED BY <4>3, <5>1, OfKeeps
      <4>6. byUserID'[u] = own
        BY <2>1 DEF Index, cells
      <4> HIDE DEF own
      <4>7. \A a \in 1..held : ring[cells[a]] \in Held(t)
        BY SMTT(40), <1>1, <1>2, <3>2, <4>4 DEF Held, held, Fewer
      <4>8. \A e \in Held(t) : \E a \in 1..held : ring[cells[a]] = e
        <5> TAKE e \in Held(t)
        <5>1. t + 1 - e \in 1..held /\ t + 1 - (t + 1 - e) = e
          BY <1>1, <1>2 DEF Held, held, Fewer
        <5> QED BY <4>4, <5>1
      <4>9. /\ own \in Seq(Cell)
            /\ \A i \in DOMAIN own : ring[own[i]] \in Held(t) /\ jfLog[ring[own[i]]] = u
            /\ \A e \in Held(t) : jfLog[e] = u => \E i \in DOMAIN own : ring[own[i]] = e
            /\ \A i, j \in DOMAIN own : i < j => ring[own[i]] > ring[own[j]]
        <5> HIDE DEF Cell
        <5>1. own \in Seq(Cell) /\ \A i, j \in DOMAIN own : i < j => ring[own[i]] > ring[own[j]]
          BY <4>5 DEF Listed
        <5>2. \A i \in DOMAIN own : ring[own[i]] \in Held(t) /\ jfLog[ring[own[i]]] = u
          BY <4>3, <4>5, <4>7 DEF Listed
        <5>3. \A e \in Held(t) : jfLog[e] = u => \E i \in DOMAIN own : ring[own[i]] = e
          <6> SUFFICES ASSUME NEW e \in Held(t), jfLog[e] = u
                       PROVE  \E i \in DOMAIN own : ring[own[i]] = e
            OBVIOUS
          <6>1. PICK a \in 1..held : ring[cells[a]] = e
            BY <4>8
          <6>2. PICK i \in DOMAIN own : own[i] = cells[a]
            BY <4>3, <4>5, <6>1 DEF Listed
          <6> QED BY <6>1, <6>2
        <5> QED BY <5>1, <5>2, <5>3
      <4> QED BY <2>1, <2>d, <4>6, <4>9 DEF ListKept
    <3> QED BY <3>4, <3>5 DEF held
  <2>18. RingKept(last)'
    <3>1. jfLog' \in Seq(JFUsers) /\ last <= Len(jfLog')
      BY <1>2, <2>d DEF t
    <3>2. lastYieldingSync' \in Nat /\ lastYieldingSync' <= last /\ thisSync' = NoSync
      BY <1>2, <2>1, <2>d
    <3>3. cache' \in [Cell -> Int] /\ last # 0
      BY <1>1, <1>2, <1>4, <2>1, <2>9, <2>a, <2>d
    <3>4. start' \in Cell /\ \A c \in Cell :
              cache'[c] = IF Far(start', c) < last THEN last - Far(start', c) ELSE NoEntry
      <4> HIDE DEF Cell
      <4> QED BY <2>1, <2>2, <2>8, <2>d
    <3>5. total' = Fewer(last, ActivityLimit) /\ DOMAIN byEntryID' = Held(last)
      BY <2>12, <2>14, <2>d
    <3>6. \A e \in Held(last) : byEntryID'[e] \in Cell /\ cache'[byEntryID'[e]] = e
      <4> HIDE DEF Cell
      <4> QED BY <2>1, <2>15, <2>d
    <3>7. ~overrun' => /\ end' = Up(start', Fewer(last, ActivityLimit) - 1)
                       /\ \A u \in JFUsers : ListKept(last, byUserID[u], u)'
      BY <2>1, <2>17, <2>d
    <3> HIDE DEF Cell
    <3> QED BY <2>16, <3>1, <3>2, <3>3, <3>4, <3>5, <3>6, <3>7 DEF RingKept
  <2> QED BY <2>18
<1> QED BY <1>5, <1>6

\* Jellyfin's log, and syncs, keep to it (jf_activity.go:115).
LEMMA RingGoesOn ==
    ASSUME NEW n \in Nat, RingKept(n), [ActivityNext]_cacheVars
    PROVE  \E m \in Nat : RingKept(m)'
<1>1. CASE UNCHANGED cacheVars
  <2>1. \A u \in JFUsers : ListKept(n, byUserID[u], u) => ListKept(n, byUserID[u], u)'
    BY <1>1 DEF cacheVars, ListKept
  <2>2. RingKept(n)'
    BY <1>1, <2>1 DEF cacheVars, RingKept
  <2> QED BY <2>2
<1>2. CASE \E u \in JFUsers : Happens(u)
  <2>1. PICK v \in JFUsers : Happens(v)
    BY <1>2
  <2>2. /\ jfLog' = Append(jfLog, v)
        /\ UNCHANGED <<cache, start, end, byEntryID, byUserID, total, lastYieldingSync,
                       thisSync, overrun>>
    BY <2>1 DEF Happens
  <2>3. jfLog \in Seq(JFUsers) /\ n <= Len(jfLog)
    BY DEF RingKept
  <2>4. /\ jfLog' \in Seq(JFUsers) /\ Len(jfLog') = Len(jfLog) + 1 /\ Len(jfLog) \in Nat
        /\ \A e \in 1..Len(jfLog) : jfLog'[e] = jfLog[e]
    BY <2>2, <2>3
  <2>5. \A e \in Held(n) : jfLog'[e] = jfLog[e]
    <3> TAKE e \in Held(n)
    <3>1. e \in 1..Len(jfLog)
      BY <2>3, <2>4 DEF Held
    <3> QED BY <2>4, <3>1
  <2>6. \A u \in JFUsers : ListKept(n, byUserID[u], u) => ListKept(n, byUserID[u], u)'
    <3> TAKE u \in JFUsers
    <3> DEFINE own == byUserID[u]
    <3> HIDE DEF Cell
    <3>1. SUFFICES ASSUME ListKept(n, own, u) PROVE ListKept(n, byUserID[u], u)'
      OBVIOUS
    <3>2. /\ own \in Seq(Cell)
          /\ \A i \in DOMAIN own : cache[own[i]] \in Held(n) /\ jfLog[cache[own[i]]] = u
          /\ \A e \in Held(n) : jfLog[e] = u => \E i \in DOMAIN own : cache[own[i]] = e
          /\ \A i, j \in DOMAIN own : i < j => cache[own[i]] > cache[own[j]]
      BY <3>1 DEF ListKept
    <3>3. byUserID'[u] = own /\ cache' = cache
      BY <2>2
    <3> HIDE DEF own
    <3>4. \A i \in DOMAIN own : cache[own[i]] \in Held(n) /\ jfLog'[cache[own[i]]] = u
      BY <2>5, <3>2
    <3>5. \A e \in Held(n) : jfLog'[e] = u => \E i \in DOMAIN own : cache[own[i]] = e
      BY <2>5, <3>2
    <3> QED BY <3>2, <3>3, <3>4, <3>5 DEF ListKept
  <2>7. thisSync' = NoSync \/ (thisSync' \in Nat /\ thisSync' <= Len(jfLog'))
    BY <2>2, <2>4 DEF RingKept
  <2>8. n <= Len(jfLog')
    BY <2>3, <2>4
  <2>9. RingKept(n)'
    BY <2>2, <2>4, <2>6, <2>7, <2>8 DEF RingKept
  <2> QED BY <2>9
<1>3. CASE BeginSync \/ SyncFails
  <2>1. UNCHANGED <<jfLog, cache, start, end, byEntryID, byUserID, total, lastYieldingSync, overrun>>
    BY <1>3 DEF BeginSync, SyncFails
  <2>2. thisSync' = NoSync \/ (thisSync' \in Nat /\ thisSync' <= Len(jfLog'))
    <3>1. Len(jfLog) \in Nat
      BY DEF RingKept
    <3> QED BY <1>3, <2>1, <3>1 DEF BeginSync, SyncFails
  <2>3. \A u \in JFUsers : ListKept(n, byUserID[u], u) => ListKept(n, byUserID[u], u)'
    BY <2>1 DEF ListKept
  <2>4. RingKept(n)'
    BY <2>1, <2>2, <2>3 DEF RingKept
  <2> QED BY <2>4
<1>4. CASE FinishSync
  <2>1. PICK items \in Answers : TakeIn(New(items, DOMAIN byEntryID))
    BY <1>4 DEF FinishSync
  <2>2. thisSync # NoSync /\ thisSync' = NoSync /\ jfLog' = jfLog
    BY <1>4 DEF FinishSync
  <2> DEFINE new == New(items, DOMAIN byEntryID)
  <2>3. new = [i \in 1..Fewer(ActivityLimit, Len(jfLog) - n) |-> Len(jfLog) + 1 - i]
    BY AnswerIs
  <2>4. TakeIn(new)
    BY <2>1
  <2> HIDE DEF new
  <2> QED BY <2>2, <2>3, <2>4, TakenIn
<1> QED BY <1>1, <1>2, <1>3, <1>4 DEF ActivityNext

\* Jellyfin's activities are cached faithfully: the newest entries up to the last that a
\* sync brought, each under its id and counted, and, until entries are overrun, each user's
\* from the newest on (jf_activity.go:33), for any size of the ring and any log.
THEOREM ActivityIsKept == Spec => []JFActivityKept
<1> DEFINE On == part = "jfLog" => \E n \in Nat : RingKept(n)
<1>1. Init => On
  <2> SUFFICES ASSUME Init, part = "jfLog" PROVE \E n \in Nat : RingKept(n)
    OBVIOUS
  <2>1. RingKept(0)
    BY RingStarts DEF Init
  <2> QED BY <2>1
<1>2. On /\ [Next]_vars => On'
  <2> SUFFICES ASSUME On, [Next]_vars, part' = "jfLog" PROVE \E m \in Nat : RingKept(m)'
    OBVIOUS
  <2>1. part = "jfLog" /\ [ActivityNext]_cacheVars
    BY PartSteps
  <2>2. PICK n \in Nat : RingKept(n)
    BY <2>1
  <2> QED BY <2>1, <2>2, RingGoesOn
<1>3. ASSUME NEW n \in Nat, RingKept(n) PROVE RecentActivityKept
  <2>1. ActivityLimit \in Nat /\ ActivityLimit > 0
    BY ActivityAssumption
  <2> DEFINE held == ToSet([i \in 1..ActivityLimit |-> cache[i - 1]]) \ {NoEntry}
             newest == IF held = {} THEN 0 ELSE Max(held)
             wanted == {e \in 1..newest : e > newest - ActivityLimit}
  <2>2. held = {cache[c] : c \in Cell} \ {NoEntry}
    <3>1. ToSet([i \in 1..ActivityLimit |-> cache[i - 1]]) = {cache[i - 1] : i \in 1..ActivityLimit}
      BY DEF ToSet
    <3>2. \A i \in 1..ActivityLimit : i - 1 \in Cell
      BY <2>1 DEF Cell
    <3>3. \A c \in Cell : c + 1 \in 1..ActivityLimit /\ (c + 1) - 1 = c
      BY <2>1 DEF Cell
    <3> HIDE DEF Cell
    <3>4. {cache[i - 1] : i \in 1..ActivityLimit} = {cache[c] : c \in Cell}
      BY <3>2, <3>3
    <3> QED BY <3>1, <3>4
  <2> HIDE DEF held
  <2>3. held = Held(n)
    <3>1. CASE n = 0
      <4>1. \A c \in Cell : cache[c] = NoEntry
        BY <1>3, <3>1 DEF RingKept
      <4>2. held = {}
        BY <2>2, <4>1
      <4> QED BY <3>1, <4>2 DEF Held
    <3>2. CASE n > 0
      <4>1. start \in Cell
        BY <1>3, <3>2 DEF RingKept
      <4>2. \A c \in Cell : cache[c] = IF Far(start, c) < n THEN n - Far(start, c) ELSE NoEntry
        BY <1>3, <3>2 DEF RingKept
      <4>3. ASSUME NEW e \in held PROVE e \in Held(n)
        <5>1. PICK c \in Cell : e = cache[c] /\ e # NoEntry
          BY <2>2
        <5>2. Far(start, c) \in Cell
          BY <4>1, RoundTrip
        <5>3. Far(start, c) < n /\ e = n - Far(start, c)
          BY <4>2, <5>1
        <5> QED BY <2>1, <5>2, <5>3 DEF Held, Cell
      <4>4. ASSUME NEW e \in Held(n) PROVE e \in held
        <5> DEFINE f == n - e
        <5>1. f \in Cell /\ f < n /\ n - f = e /\ e # -1
          BY <2>1 DEF Held, Cell
        <5> HIDE DEF f
        <5>2. Up(start, f) \in Cell /\ Far(start, Up(start, f)) = f
          BY <4>1, <5>1, RoundTrip
        <5>3. cache[Up(start, f)] = e
          BY <4>2, <5>1, <5>2
        <5> HIDE DEF Cell
        <5> QED BY <2>2, <5>1, <5>2, <5>3 DEF NoEntry
      <4> QED BY <4>3, <4>4
    <3> QED BY <3>1, <3>2
  <2>4. newest = n
    <3>1. CASE n = 0
      <4>1. held = {}
        BY <2>3, <3>1 DEF Held
      <4> QED BY <3>1, <4>1
    <3>2. CASE n > 0
      <4>1. Held(n) \in SUBSET (1..n) /\ n \in Held(n)
        BY <2>1, <3>2 DEF Held
      <4>2. Max(Held(n)) = n
        BY <4>1, GreatestOf
      <4> QED BY <2>3, <4>1, <4>2
    <3> QED BY <3>1, <3>2
  <2> HIDE DEF newest
  <2>5. wanted = Held(n)
    BY <2>4 DEF Held
  <2> HIDE DEF wanted
  <2>6. Cardinality(Held(n)) = Fewer(n, ActivityLimit)
    <3>1. PICK lo \in Int : lo = Lowest(n)
      <4>1. Lowest(n) \in Int
        BY <2>1 DEF Lowest
      <4> QED BY <4>1
    <3>2. Held(n) = lo..n
      BY <2>1, <3>1 DEF Held, Lowest
    <3>3. Cardinality(lo..n) = IF lo > n THEN 0 ELSE n - lo + 1
      BY FS_Interval
    <3> QED BY <2>1, <3>1, <3>2, <3>3 DEF Lowest, Fewer
  <2>7. /\ total = Fewer(n, ActivityLimit) /\ DOMAIN byEntryID = Held(n)
        /\ \A e \in Held(n) : byEntryID[e] \in Cell /\ cache[byEntryID[e]] = e
        /\ ~overrun => \A u \in JFUsers : ListKept(n, byUserID[u], u)
    BY <1>3 DEF RingKept
  <2>8. held = wanted /\ total = Cardinality(wanted)
    BY <2>3, <2>5, <2>6, <2>7
  <2>9. DOMAIN byEntryID = wanted /\ \A id \in wanted : ByEntryID(id) = id
    BY <2>5, <2>7 DEF ByEntryID
  <2>10. ASSUME ~overrun, NEW u \in JFUsers
         PROVE  /\ ToSet(ByUserID(u)) = {id \in wanted : jfLog[id] = u}
                /\ \A i, j \in DOMAIN byUserID[u] : i < j => ByUserID(u)[i] > ByUserID(u)[j]
    <3> DEFINE own == byUserID[u]
    <3>1. /\ \A i \in DOMAIN own : cache[own[i]] \in Held(n) /\ jfLog[cache[own[i]]] = u
          /\ \A e \in Held(n) : jfLog[e] = u => \E i \in DOMAIN own : cache[own[i]] = e
          /\ \A i, j \in DOMAIN own : i < j => cache[own[i]] > cache[own[j]]
      BY <2>7, <2>10 DEF ListKept
    <3> HIDE DEF own
    <3>2. ByUserID(u) = [i \in DOMAIN own |-> cache[own[i]]]
      BY DEF ByUserID, own
    <3>3. ToSet(ByUserID(u)) = {cache[own[i]] : i \in DOMAIN own}
      BY <3>2 DEF ToSet
    <3>4. {cache[own[i]] : i \in DOMAIN own} = {id \in Held(n) : jfLog[id] = u}
      BY <3>1
    <3> QED BY <2>5, <3>1, <3>2, <3>3, <3>4 DEF own
  <2> QED BY <2>8, <2>9, <2>10 DEF RecentActivityKept, held, newest, wanted
<1>4. On => JFActivityKept
  BY <1>3 DEF JFActivityKept
<1> QED BY <1>1, <1>2, <1>4, PTL DEF Spec

-----------------------------------------------------------------------------
(* The plans of the store.                                                 *)

\* A text without letters of a set at its ends.
Trimmed(t, set) == t # <<>> => t[1] \notin set /\ t[Len(t)] \notin set

\* What is known of a text.
LEMMA TextIs ==
    ASSUME NEW t \in Seq(Int)
    PROVE  /\ Len(t) \in Nat /\ DOMAIN t = 1..Len(t) /\ \A i \in DOMAIN t : t[i] \in Int
           /\ (t # <<>>) <=> (Len(t) > 0)
           /\ t # <<>> => 1 \in DOMAIN t /\ Len(t) \in DOMAIN t
  OBVIOUS

\* Made small, a capital is neither a capital nor a blank.
LEMMA SmallLetter ==
    ASSUME NEW x \in Int, x \in 101..126
    PROVE  x - 100 \notin 101..126 /\ x - 100 # 201
  OBVIOUS

\* A part of a text lies in it.
LEMMA WithinPart ==
    ASSUME NEW n \in Nat, NEW a \in Nat, NEW b \in Nat, a >= 1, b <= n, NEW i \in 1..(b - a + 1)
    PROVE  a + i - 1 \in 1..n
  OBVIOUS

\* strings.Trim leaves a part of the text, with other letters at its ends.
LEMMA TrimIs ==
    ASSUME NEW t \in Seq(Int), NEW set
    PROVE  /\ Trim(t, set) \in Seq(Int) /\ Trimmed(Trim(t, set), set)
           /\ \A S : (\A j \in DOMAIN t : t[j] \in S) => \A i \in DOMAIN Trim(t, set) : Trim(t, set)[i] \in S
<1> DEFINE kept == {i \in DOMAIN t : t[i] \notin set}
           r == Trim(t, set)
<1>1. Len(t) \in Nat /\ DOMAIN t = 1..Len(t) /\ kept \in SUBSET (1..Len(t))
  OBVIOUS
<1>2. CASE kept = {}
  BY <1>2 DEF Trim, Trimmed
<1>3. CASE kept # {}
  <2> PICK a \in Nat, b \in Nat : a = Min(kept) /\ b = Max(kept)
    <3>1. Min(kept) \in kept /\ Max(kept) \in kept
      BY <1>1, <1>3, Smallest, Greatest
    <3>2. \A x \in kept : x \in Nat
      BY <1>1
    <3>3. Min(kept) \in Nat /\ Max(kept) \in Nat
      BY <3>1, <3>2
    <3> QED BY <3>3
  <2>1. a \in kept /\ b \in kept /\ a <= b
    <3>1. Min(kept) \in kept /\ Max(kept) \in kept /\ \A y \in kept : Min(kept) <= y
      BY <1>1, <1>3, Smallest, Greatest
    <3> QED BY <3>1
  <2>2. r = SubSeq(t, a, b)
    BY <1>3 DEF Trim
  <2>3. a \in 1..Len(t) /\ b \in 1..Len(t) /\ t[a] \notin set /\ t[b] \notin set
    BY <1>1, <2>1
  <2> HIDE DEF r, kept
  <2>4. /\ r \in Seq(Int) /\ Len(r) = b - a + 1 /\ DOMAIN r = 1..(b - a + 1)
        /\ \A i \in 1..(b - a + 1) : r[i] = t[a + i - 1]
    BY SMTT(40), <2>1, <2>2, <2>3
  <2>5. r[1] = t[a] /\ r[Len(r)] = t[b]
    <3>1. 1 \in 1..(b - a + 1) /\ a + 1 - 1 = a
      BY <2>1
    <3>2. b - a + 1 \in 1..(b - a + 1) /\ a + (b - a + 1) - 1 = b
      BY <2>1
    <3>3. r[1] = t[a + 1 - 1]
      BY <2>4, <3>1
    <3>4. r[b - a + 1] = t[a + (b - a + 1) - 1]
      BY <2>4, <3>2
    <3> QED BY <2>4, <3>1, <3>2, <3>3, <3>4
  <2>6. \A i \in DOMAIN r : \E j \in DOMAIN t : r[i] = t[j]
    <3> TAKE i \in DOMAIN r
    <3>1. i \in 1..(b - a + 1) /\ r[i] = t[a + i - 1]
      BY <2>4
    <3>2. a + i - 1 \in 1..Len(t)
      <4>1. a >= 1 /\ b <= Len(t) /\ Len(t) \in Nat
        BY <1>1, <2>3
      <4> QED BY <3>1, <4>1, WithinPart
    <3> QED BY <1>1, <3>1, <3>2
  <2> QED BY <2>3, <2>4, <2>5, <2>6 DEF Trimmed, r
<1> QED BY <1>2, <1>3

\* It leaves such a text as it is.
LEMMA TrimStays ==
    ASSUME NEW t \in Seq(Int), NEW set, Trimmed(t, set)
    PROVE  Trim(t, set) = t
<1> DEFINE kept == {i \in DOMAIN t : t[i] \notin set}
           n == Len(t)
<1>1. n \in Nat /\ DOMAIN t = 1..n /\ kept \in SUBSET (1..n)
  OBVIOUS
<1>2. CASE t = <<>>
  <2>1. kept = {}
    BY <1>1, <1>2
  <2> QED BY <1>2, <2>1 DEF Trim
<1>3. CASE t # <<>>
  <2>1. n \in Nat \ {0}
    BY <1>3
  <2>2. 1 \in kept /\ n \in kept
    BY <1>1, <1>3, <2>1 DEF Trimmed
  <2>3. Min(kept) = 1
    <3>1. Min(kept) \in kept /\ \A y \in kept : Min(kept) <= y
      BY <1>1, <2>2, Smallest
    <3>2. Min(kept) <= 1 /\ Min(kept) \in 1..n
      BY <1>1, <2>2, <3>1
    <3> QED BY <3>2
  <2>4. Max(kept) = n
    <3> HIDE DEF kept, n
    <3> QED BY <1>1, <2>2, GreatestOf
  <2>5. Trim(t, set) = SubSeq(t, 1, n)
    BY <2>2, <2>3, <2>4 DEF Trim
  <2>6. SubSeq(t, 1, n) = t
    BY <1>1
  <2> QED BY <2>5, <2>6
<1> QED BY <1>2, <1>3

\* strings.ToLower.
LEMMA LowerIs ==
    ASSUME NEW t \in Seq(Int)
    PROVE  LowerCase(t) \in Seq(Int) /\ Len(LowerCase(t)) = Len(t) /\ DOMAIN LowerCase(t) = DOMAIN t
<1>1. \A i \in 1..Len(t) : (IF t[i] \in 101..126 THEN t[i] - 100 ELSE t[i]) \in Int
  OBVIOUS
<1>2. LowerCase(t) = [i \in 1..Len(t) |-> IF t[i] \in 101..126 THEN t[i] - 100 ELSE t[i]]
  BY DEF LowerCase
<1>3. LowerCase(t) \in Seq(Int) /\ DOMAIN LowerCase(t) = 1..Len(t)
  BY <1>1, <1>2
<1> QED BY <1>3

\* No capital is left, and no blank comes in.
LEMMA LowerLetter ==
    ASSUME NEW t \in Seq(Int), NEW i \in DOMAIN t
    PROVE  LowerCase(t)[i] \notin 101..126 /\ (t[i] # BLANK => LowerCase(t)[i] # BLANK)
<1>1. PICK x \in Int : x = t[i]
  OBVIOUS
<1>2. LowerCase(t)[i] = IF x \in 101..126 THEN x - 100 ELSE x
  BY <1>1 DEF LowerCase
<1>3. CASE x \in 101..126
  <2>1. x - 100 \notin 101..126 /\ x - 100 # 201
    BY <1>3, SmallLetter
  <2> QED BY <1>2, <1>3, <2>1 DEF BLANK
<1>4. CASE x \notin 101..126
  BY <1>1, <1>2, <1>4
<1> QED BY <1>3, <1>4

\* Texts without capitals and blanks stay as they are.
IDLetters == Small \cup {UNDERSCORE}
Clean(id) == /\ id \in Seq(Int) /\ Trimmed(id, {UNDERSCORE})
             /\ \A i \in DOMAIN id : id[i] \in IDLetters

\* What a plan is found by is clean (payment_plans.go:121), and cleaning it changes nothing.
LEMMA IDIsClean ==
    ASSUME NEW id \in Seq(Int)
    PROVE  Clean(normalizePaymentPlanID(id))
<1> DEFINE t == LowerCase(TrimSpace(id))
           u == [i \in DOMAIN t |-> IF t[i] = BLANK THEN UNDERSCORE ELSE t[i]]
           w == Within(u, IDLetters)
           r == Trim(w, {UNDERSCORE})
<1>1. t \in Seq(Int)
  BY TrimIs, LowerIs DEF TrimSpace
<1> HIDE DEF t
<1>2. u \in Seq(Int)
  <2>1. \A i \in DOMAIN t : u[i] \in Int
    BY <1>1 DEF UNDERSCORE
  <2>2. DOMAIN t = 1..Len(t) /\ Len(t) \in Nat
    BY <1>1
  <2> QED BY <2>1, <2>2
<1> HIDE DEF u
<1>3. w \in Seq(Int) /\ \A i \in DOMAIN w : w[i] \in IDLetters
  <2>1. PICK at : Chosen(u, IDLetters, Len(u), w, at)
    BY <1>2, WithinIs
  <2>2. w \in Seq(Int)
    BY <1>2, WithinIs
  <2> HIDE DEF w
  <2> QED BY <2>1, <2>2 DEF Chosen
<1> HIDE DEF w
<1>4. /\ r \in Seq(Int) /\ Trimmed(r, {UNDERSCORE})
      /\ \A i \in DOMAIN r : r[i] \in IDLetters
  BY <1>3, TrimIs
<1>5. normalizePaymentPlanID(id) = r
  BY DEF normalizePaymentPlanID, r, w, u, t, IDLetters
<1> HIDE DEF r
<1> QED BY <1>3, <1>4, <1>5 DEF Clean

\* Cleaning and trimming change nothing of it.
LEMMA CleanStays ==
    ASSUME NEW id, Clean(id)
    PROVE  normalizePaymentPlanID(id) = id /\ TrimSpace(id) = id
<1>1. /\ id \in Seq(Int) /\ Len(id) \in Nat /\ DOMAIN id = 1..Len(id)
      /\ \A i \in DOMAIN id : id[i] \in IDLetters /\ id[i] # BLANK /\ id[i] \notin 101..126
  <2>1. /\ id \in Seq(Int) /\ Len(id) \in Nat /\ DOMAIN id = 1..Len(id)
        /\ \A i \in DOMAIN id : id[i] \in IDLetters
    BY DEF Clean
  <2>2. \A x \in IDLetters : x # BLANK /\ x \notin 101..126
    BY DEF IDLetters, Small, UNDERSCORE, BLANK
  <2> QED BY <2>1, <2>2
<1>2. TrimSpace(id) = id
  <2>1. id # <<>> => 1 \in DOMAIN id /\ Len(id) \in DOMAIN id
    BY <1>1
  <2>2. Trimmed(id, {BLANK})
    BY <1>1, <2>1 DEF Trimmed
  <2> QED BY <1>1, <2>2, TrimStays DEF TrimSpace
<1>3. LowerCase(id) = id
  <2>1. LowerCase(id) = [i \in DOMAIN id |-> id[i]]
    BY <1>1 DEF LowerCase
  <2> QED BY <1>1, <2>1
<1>4. [i \in DOMAIN id |-> IF id[i] = BLANK THEN UNDERSCORE ELSE id[i]] = id
  <2>1. [i \in DOMAIN id |-> IF id[i] = BLANK THEN UNDERSCORE ELSE id[i]] = [i \in DOMAIN id |-> id[i]]
    BY <1>1
  <2> QED BY <1>1, <2>1
<1>5. Within(id, IDLetters) = id
  BY <1>1, WithinAll
<1>6. Trim(id, {UNDERSCORE}) = id
  BY <1>1, TrimStays DEF Clean
<1> QED BY <1>2, <1>3, <1>4, <1>5, <1>6 DEF normalizePaymentPlanID, IDLetters

\* A currency has three letters, and normalising it changes nothing (payment_plans.go:113).
LEMMA CurrencyIs ==
    ASSUME NEW c \in Seq(Int)
    PROVE  LET n == normalizePaymentCurrency(c)
           IN  n \in Seq(Int) /\ normalizePaymentCurrency(n) = n /\ TrimSpace(n) # <<>>
<1> DEFINE v == TrimSpace(c)
           t == LowerCase(v)
           n == normalizePaymentCurrency(c)
<1>1. Usd \in Seq(Int) /\ Len(Usd) = 3 /\ Usd[1] = 21 /\ Usd[2] = 19 /\ Usd[3] = 4
  BY DEF Usd
<1>2. v \in Seq(Int) /\ Trimmed(v, {BLANK})
  BY TrimIs DEF TrimSpace
<1> HIDE DEF v
<1>3. /\ t \in Seq(Int) /\ Len(t) = Len(v) /\ DOMAIN t = DOMAIN v
      /\ \A i \in DOMAIN v : t[i] \notin 101..126 /\ (v[i] # BLANK => t[i] # BLANK)
  <2>1. v \in Seq(Int)
    BY <1>2
  <2>2. t \in Seq(Int) /\ Len(t) = Len(v) /\ DOMAIN t = DOMAIN v
    BY <2>1, LowerIs
  <2>3. ASSUME NEW i \in DOMAIN v PROVE t[i] \notin 101..126 /\ (v[i] # BLANK => t[i] # BLANK)
    BY <2>1, LowerLetter
  <2> QED BY <2>2, <2>3
<1>4. n = IF Len(t) # 3 THEN Usd ELSE t
  BY DEF normalizePaymentCurrency, v
<1> HIDE DEF t, n
<1>5. n \in Seq(Int) /\ Len(n) = 3
  BY <1>1, <1>3, <1>4
<1>6. \A i \in DOMAIN n : n[i] \notin 101..126
  <2>1. CASE n = Usd
    <3>1. DOMAIN n = 1..3 /\ \A i \in 1..3 : i = 1 \/ i = 2 \/ i = 3
      BY <1>1, <2>1, TextIs
    <3>2. n[1] = 21 /\ n[2] = 19 /\ n[3] = 4
      BY <1>1, <2>1
    <3>3. 21 \notin 101..126 /\ 19 \notin 101..126 /\ 4 \notin 101..126
      OBVIOUS
    <3> QED BY ZenonT(60), <3>1, <3>2, <3>3
  <2>2. CASE n = t
    <3> SUFFICES ASSUME NEW i \in DOMAIN v PROVE t[i] \notin 101..126
      BY <1>3, <2>2
    <3> QED BY <1>3
  <2> QED BY <1>4, <2>1, <2>2
<1>7. n[1] # BLANK /\ n[3] # BLANK
  <2>1. CASE n = Usd
    BY <1>1, <2>1 DEF BLANK
  <2>2. CASE n = t
    <3>0. v \in Seq(Int) /\ Len(v) = 3
      BY <1>2, <1>3, <1>5, <2>2
    <3>1. v # <<>> /\ 1 \in DOMAIN v /\ 3 \in DOMAIN v
      <4>1. (v # <<>>) <=> (Len(v) > 0)
        BY <3>0, TextIs
      <4>2. DOMAIN v = 1..3
        BY <3>0, TextIs
      <4> QED BY <3>0, <4>1, <4>2
    <3>2. v[1] # BLANK /\ v[3] # BLANK
      BY <1>2, <3>0, <3>1 DEF Trimmed
    <3>3. \A i \in DOMAIN v : v[i] # BLANK => t[i] # BLANK
      BY <1>3
    <3> QED BY <2>2, <3>1, <3>2, <3>3
  <2> QED BY <1>4, <2>1, <2>2
<1>8. TrimSpace(n) = n
  <2>1. Trimmed(n, {BLANK})
    BY <1>5, <1>7 DEF Trimmed
  <2> QED BY <1>5, <2>1, TrimStays DEF TrimSpace
<1>9. LowerCase(n) = n
  <2>1. LowerCase(n) = [i \in DOMAIN n |-> n[i]]
    BY <1>6 DEF LowerCase
  <2> QED BY <1>5, <2>1
<1>10. normalizePaymentCurrency(n) = n /\ n # <<>>
  <2>1. normalizePaymentCurrency(n) = n
    BY <1>5, <1>8, <1>9 DEF normalizePaymentCurrency
  <2>2. n # <<>>
    <3>1. (n # <<>>) <=> (Len(n) > 0)
      BY <1>5, TextIs
    <3> QED BY <1>5, <3>1
  <2> QED BY <2>1, <2>2
<1> QED BY <1>5, <1>8, <1>10 DEF n

\* An interval of Stripe's, for the plans that recur.
Fits(recurring, interval, count) ==
    /\ recurring => interval \in Intervals /\ count > 0
    /\ ~recurring => interval = "" /\ count = 0

\* A plan as it is read back.
PlanFine(p) ==
    /\ p \in PlanType
    /\ Clean(p.ID) /\ p.ID # <<>>
    /\ Trimmed(p.Name, {BLANK}) /\ p.Name # <<>>
    /\ p.Price > 0 /\ p.AccessMonths >= 0 /\ p.AccessDays >= 0
    /\ p.AccessMonths + p.AccessDays > 0
    /\ normalizePaymentCurrency(p.Currency) = p.Currency /\ TrimSpace(p.Currency) # <<>>
    /\ p.Profile # ""
    /\ Fits(p.Recurring, p.Interval, p.IntervalCount)

PlansFine(ps) ==
    /\ ps \in Seq(PlanType) /\ ps # <<>>
    /\ \A i \in DOMAIN ps : PlanFine(ps[i]) /\ \A j \in 1..(i - 1) : ps[j].ID # ps[i].ID

\* q is what one plan is normalised to, field by field.
NormalOf(q, p, d) ==
    /\ q.ID = NormalizedID(p) /\ q.Name = TrimSpace(p.Name) /\ q.Enabled = p.Enabled
    /\ q.Price = p.Price /\ q.Recurring = p.Recurring
    /\ q.AccessMonths = p.AccessMonths /\ q.AccessDays = p.AccessDays
    /\ q.Currency = normalizePaymentCurrency(IF TrimSpace(p.Currency) = <<>> THEN d ELSE p.Currency)
    /\ q.Profile = IF p.Profile = "" THEN "Default" ELSE p.Profile
    /\ q.Interval = IF p.Recurring THEN normalizeStripeInterval(p.Interval) ELSE ""
    /\ q.IntervalCount = IF ~p.Recurring THEN 0
                         ELSE IF p.IntervalCount <= 0 THEN 1 ELSE p.IntervalCount
    /\ q = [ID |-> q.ID, Name |-> q.Name, Enabled |-> q.Enabled, Price |-> q.Price,
            Currency |-> q.Currency, Recurring |-> q.Recurring, Interval |-> q.Interval,
            IntervalCount |-> q.IntervalCount, AccessMonths |-> q.AccessMonths,
            AccessDays |-> q.AccessDays, Profile |-> q.Profile]

\* Normalized gives these fields.
LEMMA Fields ==
    ASSUME NEW p \in PlanType, NEW d
    PROVE  NormalOf(Normalized(p, d), p, d)
<1> DEFINE q == Normalized(p, d)
<1>1. p.IntervalCount \in Int /\ p.Recurring \in BOOLEAN
  BY DEF PlanType
<1>2. q.IntervalCount = IF ~p.Recurring THEN 0
                        ELSE IF p.IntervalCount <= 0 THEN 1 ELSE p.IntervalCount
  BY <1>1 DEF Normalized
<1>3. NormalOf(q, p, d)
  BY <1>2 DEF Normalized, NormalOf
<1> QED BY <1>3

\* Plans with the same fields are the same.
LEMMA SamePlan ==
    ASSUME NEW p \in PlanType, NEW q \in PlanType,
           p.ID = q.ID, p.Name = q.Name, p.Enabled = q.Enabled, p.Price = q.Price,
           p.Currency = q.Currency, p.Recurring = q.Recurring, p.Interval = q.Interval,
           p.IntervalCount = q.IntervalCount, p.AccessMonths = q.AccessMonths,
           p.AccessDays = q.AccessDays, p.Profile = q.Profile
    PROVE  p = q
<1>1. \A r \in PlanType :
         r = [ID |-> r.ID, Name |-> r.Name, Enabled |-> r.Enabled, Price |-> r.Price,
              Currency |-> r.Currency, Recurring |-> r.Recurring, Interval |-> r.Interval,
              IntervalCount |-> r.IntervalCount, AccessMonths |-> r.AccessMonths,
              AccessDays |-> r.AccessDays, Profile |-> r.Profile]
  BY DEF PlanType
<1> QED BY <1>1

\* A plan that is not refused is fine once it is normalised (payment_plans.go:150).
LEMMA NormalizedIs ==
    ASSUME NEW p \in PlanType, NEW d \in Seq(Int),
           normalizePaymentCurrency(d) = d, TrimSpace(d) # <<>>,
           NormalizedID(p) # <<>>, TrimSpace(p.Name) # <<>>, p.Price > 0,
           p.AccessMonths >= 0, p.AccessDays >= 0, p.AccessMonths + p.AccessDays > 0
    PROVE  PlanFine(Normalized(p, d))
<1> DEFINE q == Normalized(p, d)
           c == IF TrimSpace(p.Currency) = <<>> THEN d ELSE p.Currency
<1>1. /\ p.ID \in Seq(Int) /\ p.Name \in Seq(Int) /\ p.Enabled \in BOOLEAN /\ p.Price \in Int
      /\ p.Currency \in Seq(Int) /\ p.Recurring \in BOOLEAN /\ p.Interval \in AnyInterval
      /\ p.IntervalCount \in Int /\ p.AccessMonths \in Int /\ p.AccessDays \in Int
      /\ p.Profile \in AnyProfile
  BY DEF PlanType
<1>2. NormalOf(q, p, d)
  BY Fields
<1> HIDE DEF q
<1>3. Clean(q.ID) /\ q.ID # <<>>
  <2>1. Clean(NormalizedID(p))
    BY <1>1, IDIsClean DEF NormalizedID
  <2> QED BY <1>2, <2>1 DEF NormalOf
<1>4. q.Name \in Seq(Int) /\ Trimmed(q.Name, {BLANK}) /\ q.Name # <<>>
  <2>1. TrimSpace(p.Name) \in Seq(Int) /\ Trimmed(TrimSpace(p.Name), {BLANK})
    BY <1>1, TrimIs DEF TrimSpace
  <2> QED BY <1>2, <2>1 DEF NormalOf
<1>5. c \in Seq(Int)
  BY <1>1
<1>6. /\ q.Currency \in Seq(Int) /\ normalizePaymentCurrency(q.Currency) = q.Currency
      /\ TrimSpace(q.Currency) # <<>>
  <2>1. q.Currency = normalizePaymentCurrency(c)
    BY <1>2 DEF NormalOf
  <2> HIDE DEF c
  <2> QED BY <1>5, <2>1, CurrencyIs
<1>7. q.Profile \in AnyProfile /\ q.Profile # ""
  BY <1>1, <1>2 DEF NormalOf, AnyProfile
<1>8. /\ q.Recurring \in BOOLEAN /\ q.Interval \in AnyInterval /\ q.IntervalCount \in Int
      /\ q.Recurring => q.Interval \in Intervals /\ q.IntervalCount > 0
      /\ ~q.Recurring => q.Interval = "" /\ q.IntervalCount = 0
  <2>1. CASE p.Recurring
    <3>1. q.Interval = normalizeStripeInterval(p.Interval) /\ q.Recurring = p.Recurring
      BY <1>2, <2>1 DEF NormalOf
    <3>2. q.Interval \in Intervals /\ q.Interval \in AnyInterval
      BY <3>1 DEF normalizeStripeInterval, Intervals, AnyInterval
    <3>3. q.IntervalCount = IF p.IntervalCount <= 0 THEN 1 ELSE p.IntervalCount
      BY <1>2, <2>1 DEF NormalOf
    <3>4. q.IntervalCount \in Int /\ q.IntervalCount > 0
      BY <1>1, <3>3
    <3> QED BY <2>1, <3>1, <3>2, <3>4
  <2>2. CASE ~p.Recurring
    <3>1. q.Interval = "" /\ q.IntervalCount = 0
      BY <1>2, <2>2 DEF NormalOf
    <3>2. q.Recurring = p.Recurring
      BY <1>2 DEF NormalOf
    <3>3. "" \in AnyInterval
      BY DEF AnyInterval
    <3>4. q.IntervalCount = 0
      BY <3>1, Zenon
    <3>5. q.IntervalCount \in Int
      BY <3>4
    <3> QED BY <1>1, <2>2, <3>1, <3>2, <3>3, <3>5, Zenon
  <2> QED BY <2>1, <2>2
<1>9. /\ q.Price \in Int /\ q.AccessMonths \in Int /\ q.AccessDays \in Int /\ q.Enabled \in BOOLEAN
      /\ q.Price > 0 /\ q.AccessMonths >= 0 /\ q.AccessDays >= 0
      /\ q.AccessMonths + q.AccessDays > 0
  BY <1>1, <1>2 DEF NormalOf
<1>10. q \in PlanType
  <2>1. q.ID \in Seq(Int)
    BY <1>3 DEF Clean
  <2>2. q = [ID |-> q.ID, Name |-> q.Name, Enabled |-> q.Enabled, Price |-> q.Price,
             Currency |-> q.Currency, Recurring |-> q.Recurring, Interval |-> q.Interval,
             IntervalCount |-> q.IntervalCount, AccessMonths |-> q.AccessMonths,
             AccessDays |-> q.AccessDays, Profile |-> q.Profile]
    BY <1>2 DEF NormalOf
  <2> QED BY <1>4, <1>6, <1>7, <1>8, <1>9, <2>1, <2>2 DEF PlanType
<1>11. PlanFine(q)
  BY <1>3, <1>4, <1>6, <1>7, <1>8, <1>9, <1>10 DEF PlanFine, Fits
<1> QED BY <1>11 DEF q

\* Normalising a fine plan again changes nothing.
LEMMA FineStays ==
    ASSUME NEW p, PlanFine(p), NEW d \in Seq(Int), normalizePaymentCurrency(d) = d, TrimSpace(d) # <<>>
    PROVE  Normalized(p, d) = p /\ NormalizedID(p) = p.ID /\ TrimSpace(p.Name) = p.Name
<1> DEFINE q == Normalized(p, d)
           c == IF TrimSpace(p.Currency) = <<>> THEN d ELSE p.Currency
<1>1. p \in PlanType
  BY DEF PlanFine
<1>2. /\ p.ID \in Seq(Int) /\ p.Name \in Seq(Int) /\ p.Recurring \in BOOLEAN /\ p.IntervalCount \in Int
      /\ p.Price \in Int /\ p.AccessMonths \in Int /\ p.AccessDays \in Int
  BY <1>1 DEF PlanType
<1>3. NormalizedID(p) = p.ID
  <2>1. normalizePaymentPlanID(p.ID) = p.ID /\ p.ID # <<>>
    BY CleanStays DEF PlanFine
  <2> QED BY <2>1 DEF NormalizedID
<1>4. TrimSpace(p.Name) = p.Name
  BY <1>2, TrimStays DEF PlanFine, TrimSpace
<1>5. c = p.Currency /\ normalizePaymentCurrency(c) = p.Currency
  BY DEF PlanFine
<1>6. (IF p.Profile = "" THEN "Default" ELSE p.Profile) = p.Profile
  BY DEF PlanFine
<1>7. (IF p.Recurring THEN normalizeStripeInterval(p.Interval) ELSE "") = p.Interval
  BY DEF PlanFine, Fits, normalizeStripeInterval
<1>8. (IF ~p.Recurring THEN 0 ELSE IF p.IntervalCount <= 0 THEN 1 ELSE p.IntervalCount) = p.IntervalCount
  <2>1. CASE p.Recurring
    <3>1. p.IntervalCount > 0
      BY <2>1 DEF PlanFine, Fits
    <3>2. ~(p.IntervalCount <= 0)
      BY <1>2, <3>1
    <3> QED BY <2>1, <3>2
  <2>2. CASE ~p.Recurring
    BY <2>2 DEF PlanFine, Fits
  <2> QED BY <2>1, <2>2
<1>9. NormalOf(q, p, d)
  BY <1>1, Fields
<1>10. q \in PlanType
  <2>1. PlanFine(q)
    <3>1. NormalizedID(p) # <<>> /\ TrimSpace(p.Name) # <<>>
      BY <1>3, <1>4 DEF PlanFine
    <3>2. /\ p.Price > 0 /\ p.AccessMonths >= 0 /\ p.AccessDays >= 0
          /\ p.AccessMonths + p.AccessDays > 0
      BY DEF PlanFine
    <3> QED BY <1>1, <3>1, <3>2, NormalizedIs
  <2> QED BY <2>1 DEF PlanFine
<1> HIDE DEF q
<1>11. /\ q.ID = p.ID /\ q.Name = p.Name /\ q.Enabled = p.Enabled /\ q.Price = p.Price
       /\ q.Currency = p.Currency /\ q.Recurring = p.Recurring /\ q.Interval = p.Interval
       /\ q.IntervalCount = p.IntervalCount /\ q.AccessMonths = p.AccessMonths
       /\ q.AccessDays = p.AccessDays /\ q.Profile = p.Profile
  BY <1>3, <1>4, <1>5, <1>6, <1>7, <1>8, <1>9 DEF NormalOf
<1>12. q = p
  BY <1>1, <1>10, <1>11, SamePlan
<1> QED BY <1>3, <1>4, <1>12 DEF q

\* What is not refused is fine once it is normalised, plan for plan.
LEMMA RequestIsFine ==
    ASSUME NEW ps \in Seq(PlanType), Acceptable(ps), NEW default \in Seq(Int)
    PROVE  LET saved == normalizePaymentPlans(ps, default)
           IN  /\ PlansFine(saved) /\ Len(saved) = Len(ps) /\ DOMAIN saved = DOMAIN ps
               /\ \A i \in DOMAIN ps : /\ saved[i].Price = ps[i].Price
                                       /\ saved[i].AccessMonths = ps[i].AccessMonths
                                       /\ saved[i].AccessDays = ps[i].AccessDays
<1> DEFINE saved == normalizePaymentPlans(ps, default)
           d == normalizePaymentCurrency(default)
<1>1. d \in Seq(Int) /\ normalizePaymentCurrency(d) = d /\ TrimSpace(d) # <<>>
  BY CurrencyIs
<1>2. /\ Len(ps) \in Nat /\ DOMAIN ps = 1..Len(ps) /\ ps # <<>>
      /\ \A i \in DOMAIN ps : ps[i] \in PlanType
  BY DEF Acceptable
<1>3. saved = [i \in 1..Len(ps) |-> Normalized(ps[i], d)]
  BY <1>2 DEF normalizePaymentPlans
<1> HIDE DEF d
<1>4. \A i \in 1..Len(ps) : PlanFine(Normalized(ps[i], d))
  <2> SUFFICES ASSUME NEW i \in 1..Len(ps) PROVE PlanFine(Normalized(ps[i], d))
    OBVIOUS
  <2> DEFINE p == ps[i]
  <2>1. /\ p \in PlanType /\ NormalizedID(p) # <<>> /\ TrimSpace(p.Name) # <<>> /\ p.Price > 0
        /\ p.AccessMonths >= 0 /\ p.AccessDays >= 0 /\ p.AccessMonths + p.AccessDays > 0
    BY <1>2 DEF Acceptable
  <2> HIDE DEF p
  <2>2. PlanFine(Normalized(p, d))
    BY <1>1, <2>1, NormalizedIs
  <2> QED BY <2>2 DEF p
<1>5. \A i \in 1..Len(ps) : NormalOf(Normalized(ps[i], d), ps[i], d)
  BY <1>2, Fields
<1>6. \A i \in 1..Len(ps) : Normalized(ps[i], d) \in PlanType
  BY <1>4 DEF PlanFine
<1> HIDE DEF saved
<1>7. saved \in Seq(PlanType) /\ DOMAIN saved = 1..Len(ps) /\ Len(saved) = Len(ps)
  BY <1>2, <1>3, <1>6
<1>8. \A i \in 1..Len(ps) : /\ PlanFine(saved[i]) /\ saved[i].ID = NormalizedID(ps[i])
                            /\ saved[i].Price = ps[i].Price
                            /\ saved[i].AccessMonths = ps[i].AccessMonths
                            /\ saved[i].AccessDays = ps[i].AccessDays
  BY <1>3, <1>4, <1>5 DEF NormalOf
<1>9. \A i \in 1..Len(ps) : \A j \in 1..(i - 1) : saved[j].ID # saved[i].ID
  <2> TAKE i \in 1..Len(ps)
  <2> TAKE j \in 1..(i - 1)
  <2>1. j \in 1..Len(ps)
    BY <1>2
  <2>2. NormalizedID(ps[j]) # NormalizedID(ps[i])
    BY <1>2 DEF Acceptable
  <2> QED BY <1>8, <2>1, <2>2
<1>10. saved # <<>>
  BY <1>2, <1>7
<1>11. PlansFine(saved)
  BY <1>7, <1>8, <1>9, <1>10 DEF PlansFine
<1> QED BY <1>2, <1>7, <1>8, <1>11 DEF saved

\* Fine plans are not refused, and normalising them changes nothing.
LEMMA FinePlansStay ==
    ASSUME NEW ps, PlansFine(ps), NEW default \in Seq(Int)
    PROVE  Acceptable(ps) /\ normalizePaymentPlans(ps, default) = ps
<1> DEFINE d == normalizePaymentCurrency(default)
<1>1. d \in Seq(Int) /\ normalizePaymentCurrency(d) = d /\ TrimSpace(d) # <<>>
  BY CurrencyIs
<1>2. ps \in Seq(PlanType) /\ ps # <<>> /\ DOMAIN ps = 1..Len(ps) /\ Len(ps) \in Nat
  BY DEF PlansFine
<1>3. normalizePaymentPlans(ps, default) = [i \in DOMAIN ps |-> Normalized(ps[i], d)]
  BY DEF normalizePaymentPlans
<1> HIDE DEF d
<1>4. \A i \in DOMAIN ps : PlanFine(ps[i])
  BY DEF PlansFine
<1>5. \A i \in DOMAIN ps : /\ Normalized(ps[i], d) = ps[i] /\ NormalizedID(ps[i]) = ps[i].ID
                           /\ TrimSpace(ps[i].Name) = ps[i].Name
  BY <1>1, <1>4, FineStays
<1>6. normalizePaymentPlans(ps, default) = ps
  <2>1. [i \in DOMAIN ps |-> Normalized(ps[i], d)] = [i \in DOMAIN ps |-> ps[i]]
    BY <1>5
  <2> QED BY <1>2, <1>3, <2>1
<1>7. \A i \in DOMAIN ps :
         /\ NormalizedID(ps[i]) # <<>> /\ TrimSpace(ps[i].Name) # <<>> /\ ps[i].Price > 0
         /\ ps[i].AccessMonths >= 0 /\ ps[i].AccessDays >= 0
         /\ ps[i].AccessMonths + ps[i].AccessDays > 0
  BY <1>4, <1>5 DEF PlanFine
<1>8. \A i \in DOMAIN ps : \A j \in 1..(i - 1) : NormalizedID(ps[j]) # NormalizedID(ps[i])
  <2> TAKE i \in DOMAIN ps
  <2> TAKE j \in 1..(i - 1)
  <2>1. j \in DOMAIN ps
    BY <1>2
  <2>2. ps[j].ID # ps[i].ID
    BY DEF PlansFine
  <2> QED BY <1>5, <2>1, <2>2
<1> QED BY <1>2, <1>6, <1>7, <1>8 DEF Acceptable

\* When a plan that is written down is fine.
LEMMA PlanIsFine ==
    ASSUME NEW id \in Seq(Int), Clean(id), id # <<>>,
           NEW name \in Seq(Int), Trimmed(name, {BLANK}), name # <<>>,
           NEW enabled \in BOOLEAN, NEW amount \in Int, amount > 0,
           NEW k \in Seq(Int), normalizePaymentCurrency(k) = k, TrimSpace(k) # <<>>,
           NEW recurring \in BOOLEAN, NEW interval \in AnyInterval, NEW count \in Int,
           Fits(recurring, interval, count),
           NEW months \in Int, months > 0
    PROVE  PlanFine(Plan(id, name, enabled, amount, k, recurring, interval, count, months))
<1> DEFINE q == Plan(id, name, enabled, amount, k, recurring, interval, count, months)
<1>1. "Default" \in AnyProfile /\ "Default" # ""
  BY DEF AnyProfile
<1>2. /\ q.ID = id /\ q.Name = name /\ q.Enabled = enabled /\ q.Price = amount /\ q.Currency = k
      /\ q.Recurring = recurring /\ q.Interval = interval /\ q.IntervalCount = count
      /\ q.AccessMonths = months /\ q.AccessDays = 0 /\ q.Profile = "Default"
  BY DEF Plan
<1>3. q = [ID |-> q.ID, Name |-> q.Name, Enabled |-> q.Enabled, Price |-> q.Price,
           Currency |-> q.Currency, Recurring |-> q.Recurring, Interval |-> q.Interval,
           IntervalCount |-> q.IntervalCount, AccessMonths |-> q.AccessMonths,
           AccessDays |-> q.AccessDays, Profile |-> q.Profile]
  BY DEF Plan
<1>4. q.AccessDays \in Int /\ q.AccessDays >= 0
  <2>1. q.AccessDays = 0
    BY DEF Plan
  <2> HIDE DEF q
  <2> QED BY <2>1
<1> HIDE DEF q
<1>5. q \in PlanType
  BY <1>1, <1>2, <1>3, <1>4 DEF PlanType
<1>6. q.AccessMonths >= 0 /\ q.AccessMonths + q.AccessDays > 0
  <2>1. q.AccessMonths = months
    BY <1>2, Zenon
  <2> QED BY <1>4, <2>1
<1>7. PlanFine(q)
  BY <1>1, <1>2, <1>4, <1>5, <1>6 DEF PlanFine
<1> QED BY <1>7 DEF q

\* The plans of a store that has none are fine (payment_plans.go:49).
LEMMA DefaultsAreFine ==
    ASSUME NEW price \in Int, NEW c \in Seq(Int)
    PROVE  PlansFine(defaultPaymentPlans(price, c))
<1> DEFINE k == normalizePaymentCurrency(c)
           ps == defaultPaymentPlans(price, c)
           p == IF price <= 0 THEN 200 ELSE price
<1>1. k \in Seq(Int) /\ normalizePaymentCurrency(k) = k /\ TrimSpace(k) # <<>>
  BY CurrencyIs
<1>2. p \in Int /\ p > 0 /\ p * 3 \in Int /\ p * 3 > 0 /\ p * 12 \in Int /\ p * 12 > 0
  BY SMT
<1> HIDE DEF k, p
<1>4. /\ Clean(<<13, 15, 14>>) /\ Clean(<<17>>) /\ Clean(<<25>>) /\ Clean(<<15>>)
      /\ <<13, 15, 14>> # <<>> /\ <<17>> # <<>> /\ <<25>> # <<>> /\ <<15>> # <<>>
      /\ <<13, 15, 14>> \in Seq(Int) /\ <<17>> \in Seq(Int) /\ <<25>> \in Seq(Int) /\ <<15>> \in Seq(Int)
  BY DEF Clean, Trimmed, IDLetters, Small, UNDERSCORE
<1>5. /\ paymentPlanMonthly \in Seq(Int) /\ Trimmed(paymentPlanMonthly, {BLANK}) /\ paymentPlanMonthly # <<>>
      /\ <<117>> \in Seq(Int) /\ Trimmed(<<117>>, {BLANK}) /\ <<117>> # <<>>
      /\ <<125>> \in Seq(Int) /\ Trimmed(<<125>>, {BLANK}) /\ <<125>> # <<>>
      /\ <<115>> \in Seq(Int) /\ Trimmed(<<115>>, {BLANK}) /\ <<115>> # <<>>
  BY DEF paymentPlanMonthly, Trimmed, BLANK
<1> DEFINE p1 == Plan(<<13, 15, 14>>, paymentPlanMonthly, TRUE, p, k, TRUE, "month", 1, 1)
           p2 == Plan(<<17>>, <<117>>, TRUE, p * 3, k, TRUE, "month", 3, 3)
           p3 == Plan(<<25>>, <<125>>, TRUE, p * 12, k, TRUE, "year", 1, 12)
           p4 == Plan(<<15>>, <<115>>, FALSE, p, k, FALSE, "", 0, 1)
<1>6. ps = <<p1, p2, p3, p4>>
  BY DEF defaultPaymentPlans, k, p
<1>7. /\ "month" \in Intervals /\ "year" \in Intervals
      /\ "month" \in AnyInterval /\ "year" \in AnyInterval /\ "" \in AnyInterval
  BY DEF Intervals, AnyInterval
<1>8. 1 \in Int /\ 3 \in Int /\ 12 \in Int /\ 0 \in Int /\ 1 > 0 /\ 3 > 0 /\ 12 > 0
  OBVIOUS
<1>a. /\ Fits(TRUE, "month", 1) /\ Fits(TRUE, "month", 3) /\ Fits(TRUE, "year", 1) /\ Fits(FALSE, "", 0)
  BY DEF Fits, Intervals
<1>9. PlanFine(p1)
  BY <1>1, <1>2, <1>4, <1>5, <1>7, <1>8, <1>a, PlanIsFine
<1>10. PlanFine(p2)
  BY ZenonT(60), <1>1, <1>2, <1>4, <1>5, <1>7, <1>8, <1>a, PlanIsFine
<1>11. PlanFine(p3)
  BY ZenonT(60), <1>1, <1>2, <1>4, <1>5, <1>7, <1>8, <1>a, PlanIsFine
<1>12. PlanFine(p4)
  BY ZenonT(60), <1>1, <1>2, <1>4, <1>5, <1>7, <1>8, <1>a, PlanIsFine
<1>13. p1.ID # p2.ID /\ p1.ID # p3.ID /\ p1.ID # p4.ID /\ p2.ID # p3.ID /\ p2.ID # p4.ID /\ p3.ID # p4.ID
  BY DEF Plan
<1> HIDE DEF p1, p2, p3, p4, ps
<1>14. p1 \in PlanType /\ p2 \in PlanType /\ p3 \in PlanType /\ p4 \in PlanType
  BY <1>9, <1>10, <1>11, <1>12 DEF PlanFine
<1>15. /\ ps \in Seq(PlanType) /\ ps # <<>> /\ DOMAIN ps = 1..4
       /\ ps[1] = p1 /\ ps[2] = p2 /\ ps[3] = p3 /\ ps[4] = p4
  BY <1>6, <1>14
<1>16. \A i \in 1..4 : PlanFine(ps[i])
  BY <1>9, <1>10, <1>11, <1>12, <1>15
<1>17. ASSUME NEW i \in 1..4, NEW j \in 1..(i - 1) PROVE ps[j].ID # ps[i].ID
  <2>1. (i = 2 /\ j = 1) \/ (i = 3 /\ j \in {1, 2}) \/ (i = 4 /\ j \in {1, 2, 3})
    <3>1. i = 1 \/ i = 2 \/ i = 3 \/ i = 4
      OBVIOUS
    <3>2. j \in Int /\ 1 <= j /\ j <= i - 1
      OBVIOUS
    <3>3. CASE i = 1
      BY <3>2, <3>3
    <3>4. CASE i = 2
      BY <3>2, <3>4
    <3>5. CASE i = 3
      BY <3>2, <3>5
    <3>6. CASE i = 4
      BY <3>2, <3>6
    <3> QED BY <3>1, <3>3, <3>4, <3>5, <3>6
  <2> QED BY <1>13, <1>15, <2>1
<1>18. PlansFine(ps)
  BY <1>15, <1>16, <1>17 DEF PlansFine
<1> QED BY <1>18 DEF ps

\* Access that is given for months or days does not depend on the plan's name.
LEMMA SameExpiry ==
    ASSUME NEW m \in Int, NEW d \in Int, m >= 0, d >= 0, m + d > 0, NEW a, NEW b
    PROVE  paymentPlanExpiry(a, m, d) = paymentPlanExpiry(b, m, d)
<1>1. m > 0 \/ d > 0
  OBVIOUS
<1>2. \A n : paymentPlanExpiry(n, m, d) = [months |-> m, days |-> d, ends |-> TRUE]
  <2> TAKE n
  <2>1. ~(m <= 0 /\ d <= 0)
    BY <1>1
  <2> QED BY <1>1, <2>1 DEF paymentPlanExpiry
<1> QED BY <1>2

\* Fine plans are found by their ids, those that are on are shown, and what a payment keeps
\* of one gives its access, at a renewal too.
LEMMA FineIsOffered ==
    ASSUME PlansFine(paymentPlans)
    PROVE  AccessAsOffered
<1> SUFFICES ASSUME NEW i \in DOMAIN paymentPlans
             PROVE  LET p       == paymentPlans[i]
                        payment == Apply(paymentPlanSnapshotFromMetadata(metadata(p)), NoSnapshot)
                        renewal == SnapshotForSubscription(NoSnapshot, <<payment>>)
                        offered == paymentPlanExpiry(p.Name, p.AccessMonths, p.AccessDays)
                    IN  /\ \/ paymentPlanByID(p.ID) = i
                           \/ \E j \in 1..(i - 1) : EqualFold(paymentPlans[j].Name, p.ID)
                        /\ p.Enabled => p \in ToSet(publicPaymentPlans)
                        /\ \A s \in {payment, Apply(renewal, payment)} :
                              paymentPlanExpiry(s.Plan, s.AccessMonths, s.AccessDays) = offered
  BY DEF AccessAsOffered
<1> DEFINE ps == paymentPlans
           p == ps[i]
<1>1. /\ ps \in Seq(PlanType) /\ Len(ps) \in Nat /\ DOMAIN ps = 1..Len(ps)
      /\ \A k \in DOMAIN ps : PlanFine(ps[k])
  BY DEF PlansFine
<1>2. PlanFine(p) /\ p \in PlanType
  BY <1>1 DEF PlanFine
<1>3. paymentPlanByID(p.ID) = i \/ \E j \in 1..(i - 1) : EqualFold(ps[j].Name, p.ID)
  <2> DEFINE hits == {k \in DOMAIN ps : \/ ps[k].ID = normalizePaymentPlanID(TrimSpace(p.ID))
                                        \/ EqualFold(ps[k].Name, TrimSpace(p.ID))}
  <2>1. paymentPlanByID(p.ID) = IF hits = {} THEN NoPlan ELSE Min(hits)
    BY DEF paymentPlanByID
  <2>2. normalizePaymentPlanID(p.ID) = p.ID /\ TrimSpace(p.ID) = p.ID
    BY <1>2, CleanStays DEF PlanFine
  <2>3. hits = {k \in DOMAIN ps : ps[k].ID = p.ID \/ EqualFold(ps[k].Name, p.ID)}
    BY <2>2
  <2>4. i \in hits /\ hits \in SUBSET (1..Len(ps))
    BY <1>1, <2>3
  <2>5. Min(hits) \in hits /\ \A y \in hits : Min(hits) <= y
    <3> HIDE DEF hits, ps
    <3> QED BY <1>1, <2>4, Smallest
  <2>6. PICK j \in 1..Len(ps) : j = Min(hits)
    BY <2>4, <2>5
  <2>7. j \in hits /\ j <= i /\ paymentPlanByID(p.ID) = j
    <3> HIDE DEF hits
    <3> QED BY <2>1, <2>4, <2>5, <2>6
  <2>8. CASE j = i
    BY <2>7, <2>8
  <2>9. CASE j # i
    <3>1. i \in 1..Len(ps)
      BY <1>1
    <3>2. j \in 1..(i - 1)
      BY <1>1, <2>7, <2>9, <3>1
    <3>3. ps[j].ID # p.ID
      BY <3>2 DEF PlansFine
    <3> QED BY <2>3, <2>7, <3>2, <3>3
  <2> QED BY <2>8, <2>9
<1>4. p.Enabled => p \in ToSet(publicPaymentPlans)
  <2> SUFFICES ASSUME p.Enabled PROVE p \in ToSet(publicPaymentPlans)
    OBVIOUS
  <2> DEFINE on == {x \in ToSet(ps) : x.Enabled}
             r == Within(ps, on)
  <2>1. publicPaymentPlans = r
    BY DEF publicPaymentPlans
  <2>2. p \in on
    BY DEF ToSet
  <2> HIDE DEF on
  <2>3. PICK at : Chosen(ps, on, Len(ps), r, at)
    BY <1>1, WithinIs
  <2> HIDE DEF r
  <2>4. PICK k \in DOMAIN r : at[k] = i
    BY <1>1, <2>2, <2>3 DEF Chosen
  <2>5. r[k] = p
    BY <2>3, <2>4 DEF Chosen
  <2> QED BY <2>1, <2>4, <2>5 DEF ToSet
<1> DEFINE s0 == paymentPlanSnapshotFromMetadata(metadata(p))
           payment == Apply(s0, NoSnapshot)
           renewal == SnapshotForSubscription(NoSnapshot, <<payment>>)
           again == Apply(renewal, payment)
<1>5. s0.AccessMonths = p.AccessMonths /\ s0.AccessDays = p.AccessDays
  BY DEF paymentPlanSnapshotFromMetadata, metadata
<1>6. /\ payment.AccessMonths = p.AccessMonths /\ payment.AccessDays = p.AccessDays
      /\ DOMAIN payment = Snapshot
  BY <1>5 DEF Apply, NoSnapshot, Snapshot
<1>7. /\ p.AccessMonths \in Int /\ p.AccessDays \in Int /\ p.AccessMonths >= 0 /\ p.AccessDays >= 0
      /\ p.AccessMonths + p.AccessDays > 0
  BY <1>2 DEF PlanFine, PlanType
<1> HIDE DEF s0, payment, p
<1>8. renewal = payment
  <2>1. Says(payment)
    BY <1>6, <1>7 DEF Says
  <2> DEFINE none == paymentPlanSnapshotFromMetadata(NoSnapshot)
  <2>2. ~Says(none)
    <3>1. TrimSpace(<<>>) = <<>>
      BY DEF TrimSpace, Trim
    <3>2. none.Plan = <<>>
      BY <3>1 DEF paymentPlanSnapshotFromMetadata, NoSnapshot
    <3>3. none.AccessMonths = 0 /\ none.AccessDays = 0
      BY DEF paymentPlanSnapshotFromMetadata, NoSnapshot
    <3> QED BY <3>2, <3>3 DEF Says
  <2> DEFINE good == {k \in DOMAIN <<payment>> : Says(<<payment>>[k])}
  <2>3. good = {1}
    BY <2>1
  <2>4. Min(good) = 1
    <3>1. Min({1}) = 1
      BY DEF Min
    <3> QED BY <2>3, <3>1
  <2>5. renewal = <<payment>>[Min(good)]
    <3>1. good # {}
      BY <2>3
    <3> QED BY <2>2, <3>1 DEF SnapshotForSubscription
  <2> QED BY <2>4, <2>5
<1>9. again.AccessMonths = p.AccessMonths /\ again.AccessDays = p.AccessDays
  BY <1>6, <1>8 DEF Apply, Snapshot
<1> HIDE DEF again
<1>10. \A s \in {payment, again} :
          paymentPlanExpiry(s.Plan, s.AccessMonths, s.AccessDays)
             = paymentPlanExpiry(p.Name, p.AccessMonths, p.AccessDays)
  BY <1>6, <1>7, <1>9, SameExpiry
<1> QED BY <1>3, <1>4, <1>10 DEF again, payment, s0, p

\* What was accepted is stored as fine plans, with the same prices and durations.
PlansInv ==
    /\ stored \in Seq(PlanType) /\ currency \in Seq(Int) /\ monthly \in Int
    /\ asked # <<>> =>
          /\ PlansFine(stored) /\ Len(stored) = Len(asked) /\ DOMAIN stored = DOMAIN asked
          /\ \A i \in DOMAIN asked : /\ stored[i].Price = asked[i].Price
                                     /\ stored[i].AccessMonths = asked[i].AccessMonths
                                     /\ stored[i].AccessDays = asked[i].AccessDays

\* It is so when the plans are first read.
LEMMA PlansStart == PlansInit => PlansInv
<1> SUFFICES ASSUME PlansInit PROVE PlansInv
  OBVIOUS
<1>1. stored \in Seq(PlanType)
  <2>1. <<>> \in Seq(PlanType)
    OBVIOUS
  <2> QED BY <2>1, PlansAssumption DEF PlansInit, Unreadable
<1>2. currency \in Seq(Int)
  <2>1. <<>> \in Seq(Int) /\ Usd \in Seq(Int) /\ <<105, 21, 18>> \in Seq(Int)
    BY DEF Usd
  <2> QED BY ZenonT(60), <2>1 DEF PlansInit
<1>3. monthly \in Int /\ asked = <<>>
  BY DEF PlansInit
<1> QED BY <1>1, <1>2, <1>3 DEF PlansInv

\* Saving plans keeps that (payment_plans.go:245).
LEMMA PlansGoOn == PlansInv /\ [PlansNext]_planVars => PlansInv'
<1> SUFFICES ASSUME PlansInv, [PlansNext]_planVars PROVE PlansInv'
  OBVIOUS
<1>1. CASE UNCHANGED planVars
  BY <1>1 DEF planVars, PlansInv, PlansFine
<1>2. ASSUME NEW plans \in PlanRequests, SetPaymentPlans(plans) PROVE PlansInv'
  <2> DEFINE default == IF currency = <<>> THEN Usd ELSE currency
             saved == normalizePaymentPlans(plans, default)
             m == planByLegacyName(saved, paymentPlanMonthly)
  <2>1. /\ Acceptable(plans) /\ stored' = saved /\ asked' = plans
        /\ currency' = saved[1].Currency
        /\ monthly' = IF m = NoPlan THEN monthly ELSE saved[m].Price
    BY <1>2 DEF SetPaymentPlans
  <2>2. plans \in Seq(PlanType)
    BY PlansAssumption
  <2>3. default \in Seq(Int)
    BY DEF PlansInv, Usd
  <2> HIDE DEF default
  <2>4. /\ PlansFine(saved) /\ Len(saved) = Len(plans) /\ DOMAIN saved = DOMAIN plans
        /\ \A i \in DOMAIN plans : /\ saved[i].Price = plans[i].Price
                                   /\ saved[i].AccessMonths = plans[i].AccessMonths
                                   /\ saved[i].AccessDays = plans[i].AccessDays
    BY <2>1, <2>2, <2>3, RequestIsFine
  <2> HIDE DEF saved
  <2>5. /\ saved \in Seq(PlanType) /\ saved # <<>> /\ Len(saved) \in Nat /\ DOMAIN saved = 1..Len(saved)
        /\ 1 \in DOMAIN saved /\ \A i \in DOMAIN saved : saved[i] \in PlanType
    BY <2>4 DEF PlansFine
  <2>6. \A i \in DOMAIN saved : saved[i].Currency \in Seq(Int) /\ saved[i].Price \in Int
    BY <2>5 DEF PlanType
  <2>7. m = NoPlan \/ m \in DOMAIN saved
    <3> DEFINE hits == {i \in DOMAIN saved : \/ EqualFold(saved[i].Name, paymentPlanMonthly)
                                             \/ EqualFold(saved[i].ID, paymentPlanMonthly)}
    <3>1. m = IF hits = {} THEN NoPlan ELSE Min(hits)
      BY DEF planByLegacyName
    <3>2. hits \in SUBSET (1..Len(saved))
      BY <2>5
    <3> HIDE DEF hits, m
    <3>3. hits # {} => Min(hits) \in 1..Len(saved)
      BY <2>5, <3>2, Smallest
    <3> QED BY <2>5, <3>1, <3>3
  <2> HIDE DEF m
  <2>8. currency' \in Seq(Int) /\ monthly' \in Int
    BY <2>1, <2>5, <2>6, <2>7 DEF PlansInv
  <2>9. PlansFine(stored)'
    BY <2>1, <2>4 DEF PlansFine
  <2> QED BY <2>1, <2>4, <2>5, <2>8, <2>9 DEF PlansInv
<1> QED BY <1>1, <1>2 DEF PlansNext

\* The plans the store offers are fine, saved ones or its own.
LEMMA PlansAreFine == PlansInv => PlansFine(paymentPlans)
<1> SUFFICES ASSUME PlansInv PROVE PlansFine(paymentPlans)
  OBVIOUS
<1>1. CASE stored # Unreadable /\ Acceptable(stored)
  <2>1. stored \in Seq(PlanType) /\ currency \in Seq(Int)
    BY DEF PlansInv
  <2>2. PlansFine(normalizePaymentPlans(stored, currency))
    BY <1>1, <2>1, RequestIsFine
  <2> QED BY <1>1, <2>2 DEF paymentPlans
<1>2. CASE ~(stored # Unreadable /\ Acceptable(stored))
  BY <1>2, DefaultsAreFine DEF paymentPlans, PlansInv
<1> QED BY <1>1, <1>2

\* What was accepted is read back, one plan for one, and saving that changes nothing
\* (payment_plans.go:245); a checkout that names a plan gets it, and what the payment keeps
\* of it gives the access that was offered (payment_plans.go:229).
THEOREM PlansAreKept == Spec => []PlansKept
<1> DEFINE On == part = "plans" => PlansInv
<1>1. Init => On
  BY PlansStart DEF Init
<1>2. On /\ [Next]_vars => On'
  BY PartSteps, PlansGoOn
<1>3. On => PlansKept
  <2> SUFFICES ASSUME PlansInv PROVE ReadBack /\ AccessAsOffered
    BY DEF PlansKept
  <2>1. AccessAsOffered
    BY PlansAreFine, FineIsOffered
  <2>2. ASSUME asked # <<>>
        PROVE  /\ paymentPlans = stored /\ Acceptable(stored)
               /\ normalizePaymentPlans(stored, currency) = stored
    <3>1. PlansFine(stored) /\ stored # Unreadable /\ currency \in Seq(Int)
      BY <2>2 DEF PlansInv, PlansFine, Unreadable
    <3>2. Acceptable(stored) /\ normalizePaymentPlans(stored, currency) = stored
      BY <3>1, FinePlansStay
    <3> QED BY <3>1, <3>2 DEF paymentPlans
  <2> QED BY <2>1, <2>2 DEF ReadBack, PlansInv
<1> QED BY <1>1, <1>2, <1>3, PTL DEF Spec

-----------------------------------------------------------------------------
(* Filling in the texts that a translation lacks.                          *)

\* A sequence of one has nothing before its last, one of two has one.
LEMMA OneOrTwo ==
    ASSUME NEW a, NEW b
    PROVE  /\ DOMAIN <<a>> = 1..1 /\ Len(<<a>>) = 1 /\ <<a>>[1] = a /\ SubSeq(<<a>>, 1, 1 - 1) = <<>>
           /\ DOMAIN <<a, b>> = 1..2 /\ Len(<<a, b>>) = 2 /\ <<a, b>>[1] = a /\ <<a, b>>[2] = b
           /\ SubSeq(<<a, b>>, 1, 2 - 1) = <<a>>
<1> DEFINE S == {a, b}
<1>1. /\ <<a>> \in Seq(S) /\ DOMAIN <<a>> = 1..1 /\ Len(<<a>>) = 1 /\ <<a>>[1] = a
      /\ <<a, b>> \in Seq(S) /\ DOMAIN <<a, b>> = 1..2 /\ Len(<<a, b>>) = 2
      /\ <<a, b>>[1] = a /\ <<a, b>>[2] = b
  OBVIOUS
<1>2. PICK s \in Seq(S) : s = <<a>>
  BY <1>1
<1>3. PICK t \in Seq(S) : t = <<a, b>>
  BY <1>1
<1>4. Len(s) = 1 /\ Len(t) = 2 /\ t[1] = a
  BY <1>1, <1>2, <1>3
<1> HIDE DEF S
<1>5. SubSeq(s, 1, 1 - 1) = <<>>
  <2>1. SubSeq(s, 1, 0) \in Seq(S) /\ Len(SubSeq(s, 1, 0)) = 0
    BY <1>4, SubSeqProperties
  <2> QED BY <2>1, EmptySeq
<1>6. SubSeq(t, 1, 2 - 1) = s
  <2> DEFINE r == SubSeq(t, 1, 1)
  <2>1. r \in Seq(S) /\ Len(r) = 1 /\ r[1] = a
    BY <1>4, SubSeqProperties
  <2> HIDE DEF r
  <2>2. r = <<r[1]>>
    BY <2>1
  <2> QED BY <1>2, <2>1, <2>2 DEF r
<1> QED BY <1>1, <1>2, <1>3, <1>5, <1>6

\* Texts from one source.
LEMMA FromOne ==
    ASSUME NEW to, NEW e
    PROVE  patchLang(to, <<e>>) =
               [n \in DOMAIN to \cup DOMAIN e |->
                   IF n \in DOMAIN to /\ (to[n] # Blank \/ n \notin DOMAIN e) THEN to[n] ELSE e[n]]
<1> PICK s : s = <<e>>
  OBVIOUS
<1>1. Len(s) = 1 /\ s[1] = e /\ SubSeq(s, 1, Len(s) - 1) = <<>>
  BY OneOrTwo
<1>2. Last(s) = e
  BY <1>1 DEF Last
<1>3. \A n : FirstWith(s, n, Blank, IsText) = e[n]
  BY <1>1 DEF FirstWith
<1> QED BY <1>2, <1>3 DEF patchLang

\* Texts from a fallback, and from English where it has none.
LEMMA FromTwo ==
    ASSUME NEW to, NEW f, NEW e
    PROVE  patchLang(to, <<f, e>>) =
               [n \in DOMAIN to \cup DOMAIN e |->
                   IF n \in DOMAIN to /\ (to[n] # Blank \/ n \notin DOMAIN e) THEN to[n]
                   ELSE IF n \in DOMAIN f THEN f[n] ELSE Blank]
<1> PICK s : s = <<f, e>>
  OBVIOUS
<1> PICK t : t = <<f>>
  OBVIOUS
<1>1. Len(s) = 2 /\ s[2] = e /\ SubSeq(s, 1, Len(s) - 1) = t /\ DOMAIN t = {1} /\ t[1] = f /\ t # <<>> /\ Last(t) = f
  <2>1. Len(s) = 2 /\ s[2] = e /\ SubSeq(s, 1, 2 - 1) = t /\ DOMAIN t = 1..1 /\ t[1] = f /\ Len(t) = 1
    BY OneOrTwo
  <2>2. Len(<<>>) = 0
    BY EmptySeq
  <2> QED BY <2>1, <2>2 DEF Last
<1>2. Last(s) = e
  BY <1>1 DEF Last
<1>3. \A n : FirstWith(s, n, Blank, IsText) = IF n \in DOMAIN f THEN f[n] ELSE Blank
  <2> TAKE n
  <2> DEFINE good == {i \in DOMAIN t : n \in DOMAIN t[i] /\ IsText(t[i][n])}
  <2>1. CASE n \in DOMAIN f /\ IsText(f[n])
    <3>1. good = {1}
      BY <1>1, <2>1
    <3>2. Min(good) = 1
      BY <3>1 DEF Min
    <3> QED BY <1>1, <2>1, <3>1, <3>2 DEF FirstWith
  <2>2. CASE ~(n \in DOMAIN f /\ IsText(f[n]))
    <3>1. good = {}
      BY <1>1, <2>2
    <3> QED BY <1>1, <2>2, <3>1 DEF FirstWith
  <2> QED BY <2>1, <2>2
<1> QED BY <1>2, <1>3 DEF patchLang

\* Forms from one source, or from a fallback and then from English.
LEMMA FormsFrom ==
    ASSUME NEW to, NEW f, NEW e, NEW n \in DOMAIN e,
           NEW ev, ev = IF n \in DOMAIN f THEN f[n] ELSE NoForms
    PROVE  /\ n \in DOMAIN patchQuantityStrings(to, <<e>>)
           /\ patchQuantityStrings(to, <<e>>)[n] = IF n \notin DOMAIN to THEN e[n] ELSE Completed(to[n], e[n])
           /\ n \in DOMAIN patchQuantityStrings(to, <<f, e>>)
           /\ patchQuantityStrings(to, <<f, e>>)[n] = IF n \notin DOMAIN to THEN ev ELSE Completed(to[n], ev)
<1> PICK r : r = <<e>>
  OBVIOUS
<1> PICK s : s = <<f, e>>
  OBVIOUS
<1> PICK t : t = <<f>>
  OBVIOUS
<1>1. /\ Len(s) = 2 /\ s[2] = e /\ SubSeq(s, 1, Len(s) - 1) = t /\ DOMAIN t = {1} /\ t[1] = f /\ t # <<>> /\ Last(t) = f
      /\ Len(r) = 1 /\ r[1] = e /\ SubSeq(r, 1, Len(r) - 1) = <<>>
  <2>1. /\ Len(s) = 2 /\ s[2] = e /\ SubSeq(s, 1, 2 - 1) = t /\ DOMAIN t = 1..1 /\ t[1] = f /\ Len(t) = 1
        /\ Len(r) = 1 /\ r[1] = e /\ SubSeq(r, 1, 1 - 1) = <<>>
    BY OneOrTwo
  <2>2. Len(<<>>) = 0
    BY EmptySeq
  <2> QED BY <2>1, <2>2 DEF Last
<1>2. Last(s) = e /\ Last(r) = e
  BY <1>1 DEF Last
<1>3. \A m : FirstWith(s, m, NoForms, BothForms) = IF m \in DOMAIN f THEN f[m] ELSE NoForms
  <2> TAKE m
  <2> DEFINE good == {i \in DOMAIN t : m \in DOMAIN t[i] /\ BothForms(t[i][m])}
  <2>1. CASE m \in DOMAIN f /\ BothForms(f[m])
    <3>1. good = {1}
      BY <1>1, <2>1
    <3>2. Min(good) = 1
      BY <3>1 DEF Min
    <3> QED BY <1>1, <2>1, <3>1, <3>2 DEF FirstWith
  <2>2. CASE ~(m \in DOMAIN f /\ BothForms(f[m]))
    <3>1. good = {}
      BY <1>1, <2>2
    <3> QED BY <1>1, <2>2, <3>1 DEF FirstWith
  <2> QED BY <2>1, <2>2
<1>4. \A m : FirstWith(r, m, NoForms, BothForms) = e[m]
  BY <1>1 DEF FirstWith
<1>5. PICK q1 : q1 = patchQuantityStrings(to, r)
  OBVIOUS
<1>6. q1 = [x \in DOMAIN to \cup DOMAIN e |->
               CASE x \notin DOMAIN to -> e[x]
                 [] x \in DOMAIN to \cap DOMAIN e -> Completed(to[x], e[x])
                 [] OTHER -> to[x]]
  BY <1>2, <1>4, <1>5 DEF patchQuantityStrings
<1>7. n \in DOMAIN q1 /\ q1[n] = IF n \notin DOMAIN to THEN e[n] ELSE Completed(to[n], e[n])
  BY <1>6
<1>8. PICK q2 : q2 = patchQuantityStrings(to, s)
  OBVIOUS
<1>9. q2 = [x \in DOMAIN to \cup DOMAIN e |->
               LET fx == IF x \in DOMAIN f THEN f[x] ELSE NoForms
               IN  CASE x \notin DOMAIN to -> fx
                     [] x \in DOMAIN to \cap DOMAIN e -> Completed(to[x], fx)
                     [] OTHER -> to[x]]
  BY <1>2, <1>3, <1>8 DEF patchQuantityStrings
<1>10. n \in DOMAIN q2 /\ q2[n] = IF n \notin DOMAIN to THEN ev ELSE Completed(to[n], ev)
  BY <1>9
<1> QED BY <1>5, <1>7, <1>8, <1>10

\* The content of a file, or of a language.
IsContent(c) == c = [fallback |-> c.fallback, strings |-> c.strings,
                     quantity |-> c.quantity, validation |-> c.validation]

\* The texts that are there stay.
Keeps(own, texts) == \A n \in DOMAIN own : own[n] # Blank => n \in DOMAIN texts /\ texts[n] = own[n]

\* No text is missing that English has.
WholeTexts(en, c) == \A n \in DOMAIN en.strings : HasText(en.strings, n) => HasText(c.strings, n)

\* No text with two forms is incomplete that English has, unless a file says that it has none.
WholeForms(kind, files, en, l, c) ==
    kind \in {"common", "admin"} =>
        \A n \in DOMAIN en.quantity :
            BothForms(en.quantity[n]) =>
                \/ n \in DOMAIN c.quantity /\ BothForms(c.quantity[n])
                \/ \E s \in Sources(files, l) : n \in DOMAIN s.quantity /\ s.quantity[n] = NoForms

\* A kind that has texts with two forms.
HasForms(kind) == kind \in {"common", "admin"}

\* What patching does to a file, kind by kind (storage.go:1088).
LEMMA PatchedIs ==
    ASSUME NEW kind, NEW c, IsContent(c), NEW f, NEW e
    PROVE  /\ IsContent(Patched(kind, c, <<e>>)) /\ Patched(kind, c, <<e>>).fallback = c.fallback
           /\ Patched(kind, c, <<e>>).strings = patchLang(c.strings, <<e.strings>>)
           /\ HasForms(kind) => Patched(kind, c, <<e>>).quantity = patchQuantityStrings(c.quantity, <<e.quantity>>)
           /\ IsContent(Patched(kind, c, <<f, e>>)) /\ Patched(kind, c, <<f, e>>).fallback = c.fallback
           /\ Patched(kind, c, <<f, e>>).strings = patchLang(c.strings, <<f.strings, e.strings>>)
           /\ HasForms(kind) =>
                  Patched(kind, c, <<f, e>>).quantity = patchQuantityStrings(c.quantity, <<f.quantity, e.quantity>>)
<1>1. [i \in DOMAIN <<e>> |-> <<e>>[i].strings] = <<e.strings>> /\ [i \in DOMAIN <<e>> |-> <<e>>[i].quantity] = <<e.quantity>>
  OBVIOUS
<1>2. /\ [i \in DOMAIN <<f, e>> |-> <<f, e>>[i].strings] = <<f.strings, e.strings>>
      /\ [i \in DOMAIN <<f, e>> |-> <<f, e>>[i].quantity] = <<f.quantity, e.quantity>>
  OBVIOUS
<1>3. ASSUME NEW from
      PROVE  /\ IsContent(Patched(kind, c, from)) /\ Patched(kind, c, from).fallback = c.fallback
             /\ Patched(kind, c, from).strings = patchLang(c.strings, [i \in DOMAIN from |-> from[i].strings])
             /\ HasForms(kind) => Patched(kind, c, from).quantity
                    = patchQuantityStrings(c.quantity, [i \in DOMAIN from |-> from[i].quantity])
  <2>1. PICK s : s = patchLang(c.strings, [i \in DOMAIN from |-> from[i].strings])
    OBVIOUS
  <2>2. PICK q : q = patchQuantityStrings(c.quantity, [i \in DOMAIN from |-> from[i].quantity])
    OBVIOUS
  <2>3. PICK v : v = patchQuantityStrings(c.validation, [i \in DOMAIN from |-> from[i].validation])
    OBVIOUS
  <2>4. Patched(kind, c, from) =
          [c EXCEPT !.strings = s, !.quantity = IF kind \in {"common", "admin"} THEN q ELSE c.quantity,
                    !.validation = IF kind = "user" THEN v ELSE c.validation]
    BY <2>1, <2>2, <2>3 DEF Patched, IsContent
  <2>5. PICK p : p = Patched(kind, c, from)
    OBVIOUS
  <2>6. p = [fallback |-> c.fallback, strings |-> s, quantity |-> IF kind \in {"common", "admin"} THEN q ELSE c.quantity,
             validation |-> IF kind = "user" THEN v ELSE c.validation]
    BY <2>4, <2>5 DEF IsContent
  <2>7. IsContent(p) /\ p.fallback = c.fallback /\ p.strings = s /\ (HasForms(kind) => p.quantity = q)
    BY <2>6 DEF IsContent, HasForms
  <2> QED BY <2>1, <2>2, <2>5, <2>7
<1>4. PICK one : one = <<e>>
  OBVIOUS
<1>5. PICK two : two = <<f, e>>
  OBVIOUS
<1> QED BY <1>1, <1>2, <1>3, <1>4, <1>5

SixKinds == {"common", "admin", "email", "user", "pwr", "telegram"}

\* Texts of one source are added, those there are stay.
LEMMA OneKeeps ==
    ASSUME NEW to, NEW e
    PROVE  /\ Keeps(to, patchLang(to, <<e>>))
           /\ \A n : HasText(patchLang(to, <<e>>), n) => HasText(to, n) \/ HasText(e, n)
<1>1. patchLang(to, <<e>>) =
               [n \in DOMAIN to \cup DOMAIN e |->
                   IF n \in DOMAIN to /\ (to[n] # Blank \/ n \notin DOMAIN e) THEN to[n] ELSE e[n]]
  BY FromOne
<1> QED BY <1>1 DEF Keeps, HasText

\* A file with texts added, which are common ones.
PreparedFrom(p, kind, l, c, common) ==
    /\ IsContent(p) /\ p.fallback = c.fallback /\ Keeps(c.strings, p.strings)
    /\ HasForms(kind) => p.quantity = c.quantity
    /\ kind # "user" =>
          \A n : HasText(p.strings, n) =>
                    \/ HasText(c.strings, n)
                    \/ kind # "common" /\ HasText(OfCommon(common, l).strings, n)

\* Before the fallback, a file gets the common texts of its language.
LEMMA PreparedIs ==
    ASSUME NEW kind \in SixKinds, NEW l, NEW c, IsContent(c), NEW common, NEW emails,
           NEW p, p = Prepared(kind, l, c, common, emails)
    PROVE  PreparedFrom(p, kind, l, c, common)
<1> USE DEF PreparedFrom
<1>1. PICK s : s = patchCommonStrings(common, c.strings, l)
  OBVIOUS
<1>2. Keeps(c.strings, s) /\ \A n : HasText(s, n) => HasText(c.strings, n) \/ HasText(OfCommon(common, l).strings, n)
  BY <1>1, OneKeeps DEF patchCommonStrings
<1>3. CASE kind = "common"
  BY <1>3 DEF Prepared, Keeps
<1>4. CASE kind \in {"admin", "pwr", "email", "telegram"}
  <2>1. p = [c EXCEPT !.strings = s]
    BY <1>1, <1>4 DEF Prepared
  <2>2. p = [fallback |-> c.fallback, strings |-> s, quantity |-> c.quantity, validation |-> c.validation]
    BY <2>1 DEF IsContent
  <2>3. IsContent(p) /\ p.fallback = c.fallback /\ p.strings = s /\ p.quantity = c.quantity
    BY <2>2 DEF IsContent
  <2> QED BY <1>2, <1>4, <2>3
<1>5. CASE kind = "user"
  <2>1. PICK t : t = patchLang(s, <<OfCommon(emails, l).strings>>)
    OBVIOUS
  <2>2. PICK q : q = patchCommonQuantityStrings(common, c.quantity, l)
    OBVIOUS
  <2>3. p = [c EXCEPT !.strings = t, !.quantity = q]
    BY <1>1, <1>5, <2>1, <2>2 DEF Prepared, IsContent
  <2>4. p = [fallback |-> c.fallback, strings |-> t, quantity |-> q, validation |-> c.validation]
    BY <2>3 DEF IsContent
  <2>5. IsContent(p) /\ p.fallback = c.fallback /\ p.strings = t
    BY <2>4 DEF IsContent
  <2>6. Keeps(s, t)
    BY <2>1, OneKeeps
  <2>7. Keeps(c.strings, t)
    BY <1>2, <2>6 DEF Keeps
  <2> QED BY <1>5, <2>5, <2>7 DEF HasForms
<1> QED BY <1>3, <1>4, <1>5 DEF SixKinds

\* Forms that are completed are whole, unless there were none.
LEMMA FormsWhole ==
    ASSUME NEW o, o = [singular |-> o.singular, plural |-> o.plural], NEW ev, BothForms(ev)
    PROVE  BothForms(Completed(o, ev)) \/ o = NoForms
<1>1. PICK q : q = Completed(o, ev)
  OBVIOUS
<1>3. CASE o.singular # Blank /\ o.plural # Blank
  BY <1>1, <1>3 DEF Completed, BothForms
<1>4. CASE o.singular # Blank /\ o.plural = Blank
  <2>1. q = [singular |-> o.singular, plural |-> ev.plural]
    BY <1>1, <1>4 DEF Completed
  <2> QED BY <1>1, <1>4, <2>1 DEF BothForms
<1>5. CASE o.singular = Blank /\ o.plural # Blank
  <2>1. q = [singular |-> ev.singular, plural |-> o.plural]
    BY <1>1, <1>5 DEF Completed
  <2> QED BY <1>1, <1>5, <2>1 DEF BothForms
<1>6. CASE o.singular = Blank /\ o.plural = Blank
  BY <1>6 DEF NoForms
<1> QED BY <1>3, <1>4, <1>5, <1>6

\* A text may come from the file itself, and from wherever its fallback's may.
LEMMA SourcesGrow ==
    ASSUME NEW files, NEW i \in DOMAIN files, NEW l \in DOMAIN files[i]
    PROVE  /\ files[i][l] \in Sources(files, l)
           /\ files[i][l].fallback \in AllOf(files) =>
                  Sources(files, files[i][l].fallback) \subseteq Sources(files, l)
<1>1. ASSUME NEW m, NEW c
      PROVE  c \in Sources(files, m) <=> \E k \in DOMAIN files : \E n \in Chain(files, m) \cap DOMAIN files[k] : c = files[k][n]
  BY DEF Sources
<1>2. l \in Chain(files, l)
  BY DEF Chain, Closed, AllOf
<1>3. ASSUME files[i][l].fallback \in AllOf(files) PROVE Chain(files, files[i][l].fallback) \subseteq Chain(files, l)
  BY <1>3 DEF Chain, Closed
<1> QED BY <1>1, <1>2, <1>3

\* What a language was loaded from: file l of filesystem i.
FromFile(env, i, l, c) == i \in DOMAIN env.files /\ l \in DOMAIN env.files[i] /\ Keeps(env.files[i][l].strings, c.strings)

\* It has the texts that English has.
Complete(env, l, c) == WholeTexts(env.english, c) /\ WholeForms(env.kind, env.files, env.english, l, c)

\* Everything loaded is whole, and in some file.
AllWhole(env, got) == \A l \in DOMAIN got : l \in AllOf(env.files) /\ Complete(env, l, got[l])

\* The file before its fallback comes in.
Before2(env, i, l) == Prepared(env.kind, l, env.files[i][l], env.common, env.emails)

\* c is what patching file l of filesystem i makes of it, with its fallback as it is in got.
Made(env, i, l, c, got) ==
    IF env.files[i][l].fallback \in DOMAIN got
    THEN c = Patched(env.kind, Before2(env, i, l), <<got[env.files[i][l].fallback], env.english>>)
    ELSE c = Patched(env.kind, Before2(env, i, l), <<env.english>>)

EnvOK(env) == env.kind \in SixKinds /\ Loadable(env.files)

\* What is patched from whole languages is whole, and has the texts of its file; a text that
\* neither it nor the common texts have is that of the fallback.
LEMMA MadeWhole ==
    ASSUME NEW env, EnvOK(env), NEW i \in DOMAIN env.files, NEW l \in DOMAIN env.files[i],
           NEW got, AllWhole(env, got), NEW c, Made(env, i, l, c, got)
    PROVE  /\ Complete(env, l, c) /\ FromFile(env, i, l, c)
           /\ env.files[i][l].fallback \in DOMAIN got /\ env.kind # "user" =>
                 \A n \in DOMAIN env.english.strings \cap DOMAIN got[env.files[i][l].fallback].strings :
                    \/ HasText(env.files[i][l].strings, n)
                    \/ env.kind # "common" /\ HasText(OfCommon(env.common, l).strings, n)
                    \/ c.strings[n] = got[env.files[i][l].fallback].strings[n]
<1>1. PICK own : own = env.files[i][l]
  OBVIOUS
<1>2. PICK p : p = Before2(env, i, l)
  OBVIOUS
<1>3. PICK e : e = env.english
  OBVIOUS
<1>4. PICK f : f = got[own.fallback]
  OBVIOUS
<1>5. /\ IsContent(own) /\ env.kind \in SixKinds
      /\ \A n \in DOMAIN own.quantity :
            own.quantity[n] = [singular |-> own.quantity[n].singular, plural |-> own.quantity[n].plural]
  <2>1. env.kind \in SixKinds /\ Loadable(env.files)
    BY DEF EnvOK
  <2>2. /\ own = [fallback |-> own.fallback, strings |-> own.strings,
                  quantity |-> own.quantity, validation |-> own.validation]
        /\ \A n \in DOMAIN own.quantity :
              own.quantity[n] = [singular |-> own.quantity[n].singular, plural |-> own.quantity[n].plural]
    <3>1. \A k \in DOMAIN env.files : \A m \in DOMAIN env.files[k] : IsFile(env.files[k][m])
      BY <2>1 DEF Loadable
    <3>2. IsFile(own)
      BY <1>1, <3>1
    <3> QED BY <3>2 DEF IsFile
  <2> QED BY <2>1, <2>2 DEF IsContent
<1>6. /\ IsContent(p) /\ p.fallback = own.fallback /\ Keeps(own.strings, p.strings)
      /\ HasForms(env.kind) => p.quantity = own.quantity
      /\ env.kind # "user" =>
            \A n : HasText(p.strings, n) => \/ HasText(own.strings, n)
                                            \/ env.kind # "common" /\ HasText(OfCommon(env.common, l).strings, n)
  <2>1. p = Prepared(env.kind, l, own, env.common, env.emails)
    BY <1>1, <1>2 DEF Before2
  <2>2. PICK k \in SixKinds : k = env.kind
    BY <1>5
  <2>3. PICK cm : cm = env.common
    OBVIOUS
  <2>4. PICK em : em = env.emails
    OBVIOUS
  <2>5. IsContent(own) /\ p = Prepared(k, l, own, cm, em)
    BY <1>5, <2>1, <2>2, <2>3, <2>4
  <2>6. PreparedFrom(p, k, l, own, cm)
    BY <2>5, PreparedIs
  <2> QED BY <2>2, <2>3, <2>6 DEF PreparedFrom
<1>7. PICK has : has = (own.fallback \in DOMAIN got)
  OBVIOUS
<1>8. c = IF has THEN Patched(env.kind, p, <<f, e>>) ELSE Patched(env.kind, p, <<e>>)
  BY <1>1, <1>2, <1>3, <1>4, <1>7 DEF Made
<1>a. /\ Patched(env.kind, p, <<e>>).strings = patchLang(p.strings, <<e.strings>>)
      /\ HasForms(env.kind) => Patched(env.kind, p, <<e>>).quantity = patchQuantityStrings(p.quantity, <<e.quantity>>)
      /\ Patched(env.kind, p, <<f, e>>).strings = patchLang(p.strings, <<f.strings, e.strings>>)
      /\ HasForms(env.kind) =>
            Patched(env.kind, p, <<f, e>>).quantity = patchQuantityStrings(p.quantity, <<f.quantity, e.quantity>>)
  <2>1. PICK k : k = env.kind
    OBVIOUS
  <2>2. IsContent(p)
    BY <1>6
  <2>3. /\ Patched(k, p, <<e>>).strings = patchLang(p.strings, <<e.strings>>)
        /\ HasForms(k) => Patched(k, p, <<e>>).quantity = patchQuantityStrings(p.quantity, <<e.quantity>>)
        /\ Patched(k, p, <<f, e>>).strings = patchLang(p.strings, <<f.strings, e.strings>>)
        /\ HasForms(k) =>
              Patched(k, p, <<f, e>>).quantity = patchQuantityStrings(p.quantity, <<f.quantity, e.quantity>>)
    BY <2>2, PatchedIs
  <2> QED BY <2>1, <2>3
<1>9. c.strings = IF has THEN patchLang(p.strings, <<f.strings, e.strings>>) ELSE patchLang(p.strings, <<e.strings>>)
  BY <1>6, <1>8, <1>a
<1>10. HasForms(env.kind) =>
          c.quantity = IF has THEN patchQuantityStrings(own.quantity, <<f.quantity, e.quantity>>)
                       ELSE patchQuantityStrings(own.quantity, <<e.quantity>>)
  BY <1>6, <1>8, <1>a
<1>11. has => own.fallback \in AllOf(env.files) /\ Complete(env, own.fallback, f)
  BY <1>4, <1>7 DEF AllWhole
<1>12. c.strings = [n \in DOMAIN p.strings \cup DOMAIN e.strings |->
                    IF n \in DOMAIN p.strings /\ (p.strings[n] # Blank \/ n \notin DOMAIN e.strings) THEN p.strings[n]
                    ELSE IF ~has THEN e.strings[n] ELSE IF n \in DOMAIN f.strings THEN f.strings[n] ELSE Blank]
  <2>1. CASE has
    <3>1. PICK ps : ps = p.strings
      OBVIOUS
    <3>2. PICK fs : fs = f.strings
      OBVIOUS
    <3>3. PICK es : es = e.strings
      OBVIOUS
    <3>4. patchLang(ps, <<fs, es>>) =
               [n \in DOMAIN ps \cup DOMAIN es |->
                   IF n \in DOMAIN ps /\ (ps[n] # Blank \/ n \notin DOMAIN es) THEN ps[n]
                   ELSE IF n \in DOMAIN fs THEN fs[n] ELSE Blank]
      BY FromTwo
    <3> QED BY <1>9, <2>1, <3>1, <3>2, <3>3, <3>4
  <2>2. CASE ~has
    <3>1. PICK ps : ps = p.strings
      OBVIOUS
    <3>2. PICK es : es = e.strings
      OBVIOUS
    <3>3. patchLang(ps, <<es>>) =
               [n \in DOMAIN ps \cup DOMAIN es |->
                   IF n \in DOMAIN ps /\ (ps[n] # Blank \/ n \notin DOMAIN es) THEN ps[n] ELSE es[n]]
      BY FromOne
    <3> QED BY <1>9, <2>2, <3>1, <3>2, <3>3
  <2> QED BY <2>1, <2>2
<1>13. Keeps(own.strings, c.strings)
  BY <1>6, <1>12 DEF Keeps
<1>14. WholeTexts(e, c)
  <2>1. has => WholeTexts(e, f)
    BY <1>3, <1>11 DEF Complete
  <2> QED BY <1>12, <2>1 DEF WholeTexts, HasText
<1>15. WholeForms(env.kind, env.files, e, l, c)
  <2> SUFFICES ASSUME HasForms(env.kind), NEW n \in DOMAIN e.quantity, BothForms(e.quantity[n])
               PROVE  \/ n \in DOMAIN c.quantity /\ BothForms(c.quantity[n])
                      \/ \E s \in Sources(env.files, l) : n \in DOMAIN s.quantity /\ s.quantity[n] = NoForms
    BY DEF WholeForms, HasForms
  <2>1. PICK ev : ev = IF ~has THEN e.quantity[n] ELSE IF n \in DOMAIN f.quantity THEN f.quantity[n] ELSE NoForms
    OBVIOUS
  <2>2. n \in DOMAIN c.quantity /\ c.quantity[n] = IF n \notin DOMAIN own.quantity THEN ev ELSE Completed(own.quantity[n], ev)
    <3>1. PICK to : to = own.quantity
      OBVIOUS
    <3>2. PICK fq : fq = f.quantity
      OBVIOUS
    <3>3. PICK eq : eq = e.quantity
      OBVIOUS
    <3>c. PICK other : other = IF n \in DOMAIN fq THEN fq[n] ELSE NoForms
      OBVIOUS
    <3>d. n \in DOMAIN eq
      BY <3>3
    <3>e. /\ n \in DOMAIN patchQuantityStrings(to, <<eq>>)
          /\ patchQuantityStrings(to, <<eq>>)[n] = IF n \notin DOMAIN to THEN eq[n] ELSE Completed(to[n], eq[n])
          /\ n \in DOMAIN patchQuantityStrings(to, <<fq, eq>>)
          /\ patchQuantityStrings(to, <<fq, eq>>)[n] = IF n \notin DOMAIN to THEN other ELSE Completed(to[n], other)
      BY <3>c, <3>d, FormsFrom
    <3>4. PICK q1 : q1 = patchQuantityStrings(to, <<eq>>)
      OBVIOUS
    <3>a. n \in DOMAIN q1 /\ q1[n] = (IF n \notin DOMAIN to THEN eq[n] ELSE Completed(to[n], eq[n]))
      BY <3>4, <3>e
    <3>5. PICK q2 : q2 = patchQuantityStrings(to, <<fq, eq>>)
      OBVIOUS
    <3>b. n \in DOMAIN q2 /\ q2[n] = (IF n \notin DOMAIN to THEN other ELSE Completed(to[n], other))
      BY <3>5, <3>e
    <3>6. c.quantity = IF has THEN q2 ELSE q1
      BY <1>10, <3>1, <3>2, <3>3, <3>4, <3>5
    <3>7. CASE has
      BY <2>1, <3>1, <3>2, <3>b, <3>c, <3>6, <3>7
    <3>8. CASE ~has
      BY <2>1, <3>1, <3>3, <3>a, <3>6, <3>8
    <3> QED BY <3>7, <3>8
  <2>3. BothForms(ev) => BothForms(c.quantity[n]) \/ (n \in DOMAIN own.quantity /\ own.quantity[n] = NoForms)
    <3> SUFFICES ASSUME BothForms(ev), n \in DOMAIN own.quantity
                 PROVE  BothForms(c.quantity[n]) \/ own.quantity[n] = NoForms
      BY <2>2
    <3>1. PICK o : o = own.quantity[n]
      OBVIOUS
    <3>2. o = [singular |-> o.singular, plural |-> o.plural]
      BY <1>5, <3>1
    <3>3. BothForms(Completed(o, ev)) \/ o = NoForms
      BY <3>2, FormsWhole
    <3> QED BY <2>2, <3>1, <3>3
  <2>4. own \in Sources(env.files, l) /\ (has => Sources(env.files, own.fallback) \subseteq Sources(env.files, l))
    BY <1>1, <1>11, SourcesGrow
  <2>5. CASE BothForms(ev)
    BY <2>2, <2>3, <2>4, <2>5
  <2>6. CASE ~BothForms(ev)
    <3>1. has
      BY <2>1, <2>6
    <3>2. \/ n \in DOMAIN f.quantity /\ BothForms(f.quantity[n])
          \/ \E s \in Sources(env.files, own.fallback) : n \in DOMAIN s.quantity /\ s.quantity[n] = NoForms
      BY <1>3, <1>11, <3>1 DEF Complete, WholeForms, HasForms
    <3> QED BY <2>1, <2>4, <2>6, <3>1, <3>2
  <2> QED BY <2>5, <2>6
<1>16. ASSUME has, env.kind # "user", NEW n \in DOMAIN e.strings \cap DOMAIN f.strings
       PROVE  \/ HasText(own.strings, n)
              \/ env.kind # "common" /\ HasText(OfCommon(env.common, l).strings, n)
              \/ c.strings[n] = f.strings[n]
  <2>1. CASE HasText(p.strings, n)
    BY <1>6, <1>16, <2>1
  <2>2. CASE ~HasText(p.strings, n)
    BY <1>12, <1>16, <2>2 DEF HasText
  <2> QED BY <2>1, <2>2
<1> QED BY <1>1, <1>3, <1>4, <1>7, <1>13, <1>14, <1>15, <1>16 DEF Complete, FromFile

-----------------------------------------------------------------------------
(* Loading a file, its fallback first.                                     *)

IsState(st) == st = [langs |-> st.langs, ok |-> st.ok, marked |-> st.marked]

\* What loading file x of filesystem i leaves, given what loading its fallback did.
LoadedAfter(env, st, i, x, before) ==
    IF x \notin DOMAIN env.files[i] THEN [st EXCEPT !.ok = FALSE]
    ELSE IF x = English THEN Keep(st, x, Before2(env, i, x))
    ELSE IF Before2(env, i, x).fallback \in {""} \cup DOMAIN st.langs
    THEN KeepPatched(env, [st EXCEPT !.ok = (Before2(env, i, x).fallback # "")], i, x, Before2(env, i, x))
    ELSE KeepPatched(env, before, i, x, Before2(env, i, x))

\* The fallback of a file, which the common texts do not change.
FallbackOf(env, i, x) == IF x \in DOMAIN env.files[i] THEN env.files[i][x].fallback ELSE ""

\* depth says that no file of the filesystem falls back on itself.
DepthOf(file, depth, most) ==
    /\ most \in Nat /\ depth \in [DOMAIN file -> 0..most]
    /\ \A l \in DOMAIN file \ {English} :
          file[l].fallback \in DOMAIN file \ {English} => depth[file[l].fallback] < depth[l]

\* There is such a depth, the names of the files being finitely many.
LEMMA DepthExists ==
    ASSUME NEW env, EnvOK(env), NEW i \in DOMAIN env.files
    PROVE  \E depth, most : DepthOf(env.files[i], depth, most)
<1> DEFINE file == env.files[i]
<1>1. \E depth \in [DOMAIN file -> 0..Cardinality(DOMAIN file)] :
          \A l \in DOMAIN file \ {English} :
              file[l].fallback \in DOMAIN file \ {English} => depth[file[l].fallback] < depth[l]
  BY DEF EnvOK, Loadable
<1>2. DOMAIN file \subseteq ToSet(LangOrder)
  BY DEF EnvOK, Loadable
<1>3. IsFiniteSet(ToSet(LangOrder))
  <2>1. LangOrder \in Seq(STRING)
    BY LanguagesAssumption
  <2>2. IsFiniteSet(1..Len(LangOrder)) /\ DOMAIN LangOrder = 1..Len(LangOrder)
    BY <2>1, FS_Interval
  <2>3. LangOrder \in Surjection(DOMAIN LangOrder, ToSet(LangOrder))
    BY <2>1 DEF Surjection, ToSet
  <2> QED BY <2>2, <2>3, FS_Surjection
<1>4. Cardinality(DOMAIN file) \in Nat
  BY <1>2, <1>3, FS_Subset, FS_CardinalityType
<1>5. PICK depth \in [DOMAIN file -> 0..Cardinality(DOMAIN file)] :
          \A l \in DOMAIN file \ {English} :
              file[l].fallback \in DOMAIN file \ {English} => depth[file[l].fallback] < depth[l]
  BY <1>1
<1> HIDE DEF file
<1>7. DepthOf(file, depth, Cardinality(DOMAIN file))
  BY <1>4, <1>5 DEF DepthOf
<1> QED BY <1>7 DEF file

\* What a file is before its fallback comes in.
LEMMA BeforeIsPrepared ==
    ASSUME NEW env, EnvOK(env), NEW i \in DOMAIN env.files, NEW l \in DOMAIN env.files[i]
    PROVE  IsContent(Before2(env, i, l)) /\ Before2(env, i, l).fallback = env.files[i][l].fallback
<1>1. PICK own : own = env.files[i][l]
  OBVIOUS
<1>2. IsContent(own)
  <2>1. \A k \in DOMAIN env.files : \A m \in DOMAIN env.files[k] : IsFile(env.files[k][m])
    BY DEF EnvOK, Loadable
  <2>2. IsFile(own)
    BY <1>1, <2>1
  <2> QED BY <2>2 DEF IsFile, IsContent
<1>3. PICK k \in SixKinds : k = env.kind
  BY DEF EnvOK
<1>4. PICK cm : cm = env.common
  OBVIOUS
<1>5. PICK em : em = env.emails
  OBVIOUS
<1>6. PICK p : p = Prepared(k, l, own, cm, em)
  OBVIOUS
<1>7. PreparedFrom(p, k, l, own, cm)
  BY <1>2, <1>6, PreparedIs
<1> QED BY <1>1, <1>3, <1>4, <1>5, <1>6, <1>7 DEF Before2, PreparedFrom

\* Loading comes to an end, as the fallback of each file was loaded before it (storage.go:1093).
LEMMA LoadIs ==
    ASSUME NEW env, EnvOK(env), NEW i \in DOMAIN env.files, NEW l, NEW st
    PROVE  \E f : /\ Load(env, st, i, l) = f[l]
                  /\ \A x \in DOMAIN env.files[i] \cup {l} :
                        f[x] = LoadedAfter(env, st, i, x, f[FallbackOf(env, i, x)])
                  /\ \A x \in DOMAIN env.files[i] : FallbackOf(env, i, x) \notin DOMAIN env.files[i] =>
                        f[FallbackOf(env, i, x)] = [st EXCEPT !.ok = FALSE]
<1> DEFINE file == env.files[i]
           Scope == DOMAIN file \cup {l} \cup {file[m].fallback : m \in DOMAIN file}
           Given(f, x) ==
               IF x \notin DOMAIN file THEN [st EXCEPT !.ok = FALSE]
               ELSE LET c  == Prepared(env.kind, x, file[x], env.common, env.emails)
                        fb == c.fallback
                    IN  CASE x = English -> Keep(st, x, c)
                          [] x # English /\ fb \in {""} \cup DOMAIN st.langs ->
                               KeepPatched(env, [st EXCEPT !.ok = (fb # "")], i, x, c)
                          [] OTHER -> KeepPatched(env, f[fb], i, x, c)
           Table(f) == f = [x \in Scope |-> Given(f, x)]
           F == CHOOSE f : Table(f)
           To(x) == FallbackOf(env, i, x)
<1>1. Load(env, st, i, l) = F[l]
  BY DEF Load
<1>2. \A x \in Scope : \A f : Given(f, x) = LoadedAfter(env, st, i, x, f[To(x)])
  <2> TAKE x \in Scope
  <2> TAKE f
  <2>1. CASE x \notin DOMAIN file
    BY <2>1 DEF LoadedAfter
  <2>2. CASE x \in DOMAIN file
    <3>1. PICK c : c = Before2(env, i, x)
      OBVIOUS
    <3>2. c.fallback = To(x)
      BY <2>2, <3>1, BeforeIsPrepared DEF FallbackOf
    <3>3. Given(f, x) = IF x = English THEN Keep(st, x, c)
                        ELSE IF c.fallback \in {""} \cup DOMAIN st.langs
                        THEN KeepPatched(env, [st EXCEPT !.ok = (c.fallback # "")], i, x, c)
                        ELSE KeepPatched(env, f[c.fallback], i, x, c)
      BY <2>2, <3>1 DEF Before2
    <3>4. LoadedAfter(env, st, i, x, f[To(x)])
             = IF x = English THEN Keep(st, x, c)
               ELSE IF c.fallback \in {""} \cup DOMAIN st.langs
               THEN KeepPatched(env, [st EXCEPT !.ok = (c.fallback # "")], i, x, c)
               ELSE KeepPatched(env, f[To(x)], i, x, c)
      BY <2>2, <3>1 DEF LoadedAfter
    <3> QED BY <3>2, <3>3, <3>4
  <2> QED BY <2>1, <2>2
<1>3. PICK depth, most : DepthOf(file, depth, most)
  BY DepthExists
<1> DEFINE Rank(x) == IF x \in DOMAIN file \ {English} THEN depth[x] + 1 ELSE 0
           Ends(f, n) == DOMAIN f = Scope /\ \A x \in Scope : Rank(x) < n => f[x] = Given(f, x)
           Ready(n) == \E f : Ends(f, n)
<1>4. \A x : Rank(x) \in Nat
  BY <1>3 DEF DepthOf
\* What is loaded for a file only depends on what is of lesser rank.
<1>5. \A x \in Scope : \A f, g :
         (\A y \in Scope : Rank(y) < Rank(x) => f[y] = g[y]) => Given(f, x) = Given(g, x)
  <2> SUFFICES ASSUME NEW x \in Scope, NEW f, NEW g, \A y \in Scope : Rank(y) < Rank(x) => f[y] = g[y]
               PROVE  LoadedAfter(env, st, i, x, f[To(x)]) = LoadedAfter(env, st, i, x, g[To(x)])
    <3> HIDE DEF Given, Rank, Scope, To
    <3> QED BY <1>2
  <2>1. CASE x \notin DOMAIN file \/ x = English
    BY <2>1 DEF LoadedAfter
  <2>3. CASE x \in DOMAIN file \ {English}
    <3>1. To(x) = file[x].fallback /\ To(x) \in Scope
      BY <2>3 DEF FallbackOf
    <3>2. Rank(To(x)) < Rank(x)
      <4>1. CASE To(x) \in DOMAIN file \ {English}
        BY <1>3, <2>3, <3>1, <4>1 DEF DepthOf
      <4>2. CASE To(x) \notin DOMAIN file \ {English}
        BY <1>3, <2>3, <4>2 DEF DepthOf
      <4> QED BY <4>1, <4>2
    <3>3. f[To(x)] = g[To(x)]
      <4> HIDE DEF Rank, Scope, To
      <4> QED BY <3>1, <3>2
    <3> QED BY <3>3
  <2> QED BY <2>1, <2>3
<1>6. Ready(0)
  <2>1. Ends([x \in Scope |-> st], 0)
    <3>1. \A x \in Scope : ~(Rank(x) < 0)
      <4> HIDE DEF Rank, Scope
      <4> QED BY <1>4
    <3> HIDE DEF Rank, Scope, Given
    <3> QED BY <3>1
  <2> QED BY <2>1
<1>7. ASSUME NEW n \in Nat, Ready(n) PROVE Ready(n + 1)
  <2>1. PICK f : Ends(f, n)
    BY <1>7
  <2> DEFINE g == [x \in Scope |-> IF Rank(x) < n THEN f[x] ELSE Given(f, x)]
  <2>2. \A y \in Scope : Rank(y) < n => g[y] = f[y]
    <3> HIDE DEF Rank, Scope, Given
    <3> QED OBVIOUS
  <2>3. \A x \in Scope : Rank(x) < n + 1 => g[x] = Given(f, x) /\ Given(g, x) = Given(f, x)
    <3> SUFFICES ASSUME NEW x \in Scope, Rank(x) < n + 1
                 PROVE  g[x] = Given(f, x) /\ Given(g, x) = Given(f, x)
      OBVIOUS
    <3> HIDE DEF Rank, Scope, Given
    <3>1. \A y \in Scope : Rank(y) < Rank(x) => g[y] = f[y]
      <4> HIDE DEF g
      <4>1. \A y \in Scope : Rank(y) < Rank(x) => Rank(y) < n
        BY <1>4
      <4> QED BY <2>2, <4>1
    <3>2. g[x] = Given(f, x)
      BY <2>1
    <3> HIDE DEF g
    <3>3. Given(g, x) = Given(f, x)
      BY <1>5, <3>1
    <3> QED BY <3>2, <3>3
  <2>4. DOMAIN g = Scope
    BY DEF g
  <2>5. Ends(g, n + 1)
    <3> HIDE DEF Rank, Scope, Given, g
    <3> QED BY <2>3, <2>4
  <2> HIDE DEF Ends, g
  <2> QED BY <2>5
<1>8. \A n \in Nat : Ready(n)
  <2> SUFFICES ASSUME NEW k \in Nat, ~Ready(k) PROVE FALSE
    OBVIOUS
  <2> DEFINE Not == {n \in Nat : ~Ready(n)}
  <2> HIDE DEF Ready
  <2>1. PICK n \in Not : \A m \in Not : n <= m
    <3>1. Not \in SUBSET Nat /\ Not # {}
      OBVIOUS
    <3> HIDE DEF Not
    <3> QED BY <3>1, LeastNat
  <2>2. n # 0 /\ n \in Nat
    BY <1>6, <2>1
  <2>3. n - 1 \in Nat /\ n - 1 \notin Not
    BY <2>1, <2>2
  <2> QED BY <1>7, <2>1, <2>2, <2>3
<1>9. most + 2 \in Nat /\ \A x \in Scope : Rank(x) < most + 2
  <2>1. \A x \in DOMAIN file \ {English} : depth[x] \in 0..most
    BY <1>3 DEF DepthOf
  <2>2. most \in Nat
    BY <1>3 DEF DepthOf
  <2> QED BY <2>1, <2>2
<1>10. \E f : Table(f)
  <2>1. PICK f : Ends(f, most + 2)
    <3> HIDE DEF Ends
    <3> QED BY <1>8, <1>9
  <2>2. DOMAIN f = Scope /\ \A x \in Scope : f[x] = Given(f, x)
    <3> HIDE DEF Rank, Scope, Given
    <3> QED BY <1>9, <2>1
  <2> DEFINE g == [x \in Scope |-> f[x]]
  <2>3. \A x \in Scope : g[x] = Given(g, x)
    <3> TAKE x \in Scope
    <3> HIDE DEF Given, Rank
    <3>1. \A y \in Scope : Rank(y) < Rank(x) => g[y] = f[y]
      <4> HIDE DEF Scope
      <4> QED OBVIOUS
    <3>2. g[x] = Given(f, x)
      <4> HIDE DEF Scope
      <4> QED BY <2>2
    <3> HIDE DEF g, Scope
    <3>3. Given(g, x) = Given(f, x)
      BY <1>5, <3>1
    <3> QED BY <3>2, <3>3
  <2>4. g = [x \in Scope |-> Given(g, x)]
    <3> HIDE DEF Given, Scope
    <3> QED BY <2>3
  <2> HIDE DEF Given, Scope, g
  <2> QED BY <2>4
<1>11. F = [x \in Scope |-> Given(F, x)]
  <2>1. Table(F)
    <3> HIDE DEF Table
    <3> QED BY <1>10
  <2> HIDE DEF F
  <2> QED BY <2>1
<1>12. \A x \in Scope : F[x] = LoadedAfter(env, st, i, x, F[To(x)])
  <2> HIDE DEF F, Scope, Given, To
  <2> QED BY <1>2, <1>11
<1>13. DOMAIN file \cup {l} \subseteq Scope /\ \A x \in DOMAIN file : To(x) \in Scope
  BY DEF FallbackOf
<1>14. \A x \in DOMAIN file : To(x) \notin DOMAIN file => F[To(x)] = [st EXCEPT !.ok = FALSE]
  <2> HIDE DEF F
  <2> QED BY <1>12, <1>13 DEF LoadedAfter
<1> HIDE DEF F, Scope, Given
<1> QED BY <1>1, <1>12, <1>13, <1>14

\* s says whether the fallback was found.
FallbackTold(env, i, x, s) ==
    s.ok = IF FallbackOf(env, i, x) \in DOMAIN s.langs THEN TRUE ELSE FALSE

\* Language x was added to s.
KeptBy(env, i, x, s, to) ==
    /\ IsState(to) /\ to.ok = TRUE
    /\ DOMAIN to.langs = DOMAIN s.langs \cup {x}
    /\ \A y \in DOMAIN s.langs \ {x} : to.langs[y] = s.langs[y]
    /\ Made(env, i, x, to.langs[x], s.langs)
    /\ to.marked = s.marked \cup (IF FallbackOf(env, i, x) \in DOMAIN s.langs /\ MarksFallback(env.kind)
                                  THEN {<<i, FallbackOf(env, i, x)>>} ELSE {})
    /\ AllWhole(env, to.langs)

\* The language is added, patched with its fallback if that is there.
LEMMA KeptPatched ==
    ASSUME NEW env, EnvOK(env), NEW i \in DOMAIN env.files, NEW x \in DOMAIN env.files[i],
           NEW s, IsState(s), AllWhole(env, s.langs),
           FallbackTold(env, i, x, s),
           NEW to, to = KeepPatched(env, s, i, x, Before2(env, i, x))
    PROVE  KeptBy(env, i, x, s, to)
<1>1. PICK p : p = Before2(env, i, x)
  OBVIOUS
<1>2. PICK fb : fb = FallbackOf(env, i, x)
  OBVIOUS
<1>3. p.fallback = fb /\ fb = env.files[i][x].fallback
  BY <1>1, <1>2, BeforeIsPrepared DEF FallbackOf
<1>4. PICK got : got = s.langs
  OBVIOUS
<1>5. PICK marked : marked = s.marked
  OBVIOUS
<1>6. PICK c : c = IF fb \in DOMAIN got THEN Patched(env.kind, p, <<got[fb], env.english>>) ELSE Patched(env.kind, p, <<env.english>>)
  OBVIOUS
<1>7. Made(env, i, x, c, got)
  BY <1>1, <1>2, <1>3, <1>4, <1>6 DEF Made
<1>o. PICK o : o = s.ok
  OBVIOUS
<1>h. s.ok = IF fb \in DOMAIN got THEN TRUE ELSE FALSE
  BY <1>2, <1>4 DEF FallbackTold
<1>w. PICK w : w = With(got, x, c)
  OBVIOUS
<1>8. s = [langs |-> got, ok |-> o, marked |-> marked]
  BY <1>4, <1>5, <1>o DEF IsState
<1>k. Keep(s, x, c) = [langs |-> w, ok |-> TRUE, marked |-> marked]
  <2>1. Keep(s, x, c) = [s EXCEPT !.langs = w, !.ok = TRUE]
    BY <1>4, <1>w DEF Keep
  <2> QED BY <1>8, <2>1
<1>9. PICK marks : marks = marked \cup (IF fb \in DOMAIN got /\ MarksFallback(env.kind) THEN {<<i, fb>>} ELSE {})
  OBVIOUS
<1>10. to = [langs |-> With(got, x, c), ok |-> TRUE, marked |-> marks]
  <2>1. CASE fb \notin DOMAIN got
    <3>1. to = Keep(s, x, c)
      BY <1>1, <1>6, <1>h, <2>1 DEF KeepPatched
    <3>2. marks = marked
      BY <1>9, <2>1
    <3> QED BY <1>k, <1>w, <3>1, <3>2
  <2>2. CASE fb \in DOMAIN got
    <3>1. to = [Keep(s, x, c) EXCEPT !.marked = @ \cup (IF MarksFallback(env.kind) THEN {<<i, fb>>} ELSE {})]
      BY <1>1, <1>3, <1>4, <1>6, <1>h, <2>2 DEF KeepPatched
    <3>2. PICK more : more = IF MarksFallback(env.kind) THEN {<<i, fb>>} ELSE {}
      OBVIOUS
    <3>3. PICK kept : kept = Keep(s, x, c)
      OBVIOUS
    <3>4. kept = [langs |-> w, ok |-> TRUE, marked |-> marked] /\ to = [kept EXCEPT !.marked = @ \cup more]
      BY <1>k, <3>1, <3>2, <3>3
    <3>5. to = [langs |-> w, ok |-> TRUE, marked |-> marked \cup more]
      BY <3>4
    <3>6. marks = marked \cup more
      BY <1>9, <2>2, <3>2
    <3> QED BY <1>w, <3>5, <3>6
  <2> QED BY <2>1, <2>2
<1>11. PICK new : new = With(got, x, c)
  OBVIOUS
<1>12. DOMAIN new = DOMAIN got \cup {x} /\ new[x] = c /\ \A y \in DOMAIN got \ {x} : new[y] = got[y]
  BY <1>11 DEF With
<1>13. IsState(to) /\ to.ok = TRUE /\ to.langs = new /\ to.marked = marks
  BY <1>10, <1>11 DEF IsState
<1>14. Complete(env, x, c)
  <2>1. AllWhole(env, got)
    BY <1>4
  <2> QED BY <1>7, <2>1, MadeWhole
<1>15. AllWhole(env, new)
  <2>1. x \in AllOf(env.files)
    BY DEF AllOf
  <2>2. \A y \in DOMAIN got : y \in AllOf(env.files) /\ Complete(env, y, got[y])
    BY <1>4 DEF AllWhole
  <2>3. ASSUME NEW y \in DOMAIN new PROVE y \in AllOf(env.files) /\ Complete(env, y, new[y])
    BY <1>12, <1>14, <2>1, <2>2
  <2> QED BY <2>3 DEF AllWhole
<1> QED BY <1>2, <1>4, <1>5, <1>7, <1>9, <1>12, <1>13, <1>15 DEF KeptBy

\* What holds from st to a state in which x was loaded.
Grown(env, i, depth, st, x, to) ==
    /\ IsState(to) /\ to.ok = TRUE
    /\ DOMAIN st.langs \cup {x} \subseteq DOMAIN to.langs
    /\ \A y \in DOMAIN st.langs \ {x} : to.langs[y] = st.langs[y]
    /\ \A y \in (DOMAIN to.langs \ DOMAIN st.langs) \cup {x} :
          /\ y \in DOMAIN env.files[i] \ {English}
          /\ Made(env, i, y, to.langs[y], to.langs)
          /\ FallbackOf(env, i, y) \in DOMAIN env.files[i] => FallbackOf(env, i, y) \in DOMAIN to.langs
    /\ \A y \in (DOMAIN to.langs \ DOMAIN st.langs) \ {x} :
          /\ FallenBackOn(env.files, y) /\ depth[y] < depth[x]
          /\ MarksFallback(env.kind) => <<i, y>> \in to.marked
    /\ st.marked \subseteq to.marked
    /\ \A f \in to.marked \ st.marked :
          \E y \in DOMAIN to.langs : f = <<i, y>> /\ FallenBackOn(env.files, y)
    /\ AllWhole(env, to.langs)

\* A language whose fallback is there, or is not to be had, comes alone.
LEMMA GrowsByOne ==
    ASSUME NEW env, EnvOK(env), NEW i \in DOMAIN env.files, NEW x \in DOMAIN env.files[i] \ {English},
           NEW depth, NEW most, DepthOf(env.files[i], depth, most),
           NEW st, IsState(st), AllWhole(env, st.langs), English \in DOMAIN st.langs,
           NEW s, IsState(s), s.langs = st.langs, s.marked = st.marked,
           FallbackTold(env, i, x, s),
           FallbackOf(env, i, x) \in DOMAIN env.files[i] => FallbackOf(env, i, x) \in DOMAIN s.langs,
           NEW to, to = KeepPatched(env, s, i, x, Before2(env, i, x))
    PROVE  Grown(env, i, depth, st, x, to)
<1>1. PICK fb : fb = FallbackOf(env, i, x)
  OBVIOUS
<1>2. fb = env.files[i][x].fallback
  BY <1>1 DEF FallbackOf
<1>3. /\ IsState(to) /\ to.ok = TRUE
      /\ DOMAIN to.langs = DOMAIN s.langs \cup {x}
      /\ \A y \in DOMAIN s.langs \ {x} : to.langs[y] = s.langs[y]
      /\ Made(env, i, x, to.langs[x], s.langs)
      /\ to.marked = s.marked \cup (IF fb \in DOMAIN s.langs /\ MarksFallback(env.kind) THEN {<<i, fb>>} ELSE {})
      /\ AllWhole(env, to.langs)
  <2>1. AllWhole(env, s.langs) /\ x \in DOMAIN env.files[i]
    OBVIOUS
  <2>2. KeptBy(env, i, x, s, to)
    BY <2>1, KeptPatched
  <2> QED BY <1>1, <2>2 DEF KeptBy
<1>4. fb # x
  BY <1>2 DEF DepthOf
<1>5. FallenBackOn(env.files, fb)
  BY <1>2 DEF FallenBackOn
<1>6. Made(env, i, x, to.langs[x], to.langs)
  <2>1. fb \in DOMAIN to.langs <=> fb \in DOMAIN s.langs
    BY <1>3, <1>4
  <2>2. fb \in DOMAIN s.langs => to.langs[fb] = s.langs[fb]
    BY <1>3, <1>4
  <2> QED BY <1>2, <1>3, <2>1, <2>2 DEF Made
<1>7. (DOMAIN to.langs \ DOMAIN st.langs) \ {x} = {}
  BY <1>3
<1>8. \A f \in to.marked \ st.marked : \E y \in DOMAIN to.langs : f = <<i, y>> /\ FallenBackOn(env.files, y)
  BY <1>1, <1>3, <1>5
<1> QED BY <1>1, <1>3, <1>6, <1>7, <1>8 DEF Grown

\* A language whose fallback was loaded just before comes on top of it.
LEMMA GrowsAgain ==
    ASSUME NEW env, EnvOK(env), NEW i \in DOMAIN env.files, NEW x \in DOMAIN env.files[i] \ {English},
           NEW depth, NEW most, DepthOf(env.files[i], depth, most),
           NEW st, NEW fb, fb = FallbackOf(env, i, x), fb \in DOMAIN env.files[i] \ {English},
           fb \notin DOMAIN st.langs,
           NEW s, Grown(env, i, depth, st, fb, s), NEW to, KeptBy(env, i, x, s, to)
    PROVE  Grown(env, i, depth, st, x, to)
<1>1. /\ IsState(s) /\ DOMAIN st.langs \cup {fb} \subseteq DOMAIN s.langs
      /\ \A y \in DOMAIN st.langs \ {fb} : s.langs[y] = st.langs[y]
      /\ \A y \in (DOMAIN s.langs \ DOMAIN st.langs) \cup {fb} :
            /\ y \in DOMAIN env.files[i] \ {English}
            /\ Made(env, i, y, s.langs[y], s.langs)
            /\ FallbackOf(env, i, y) \in DOMAIN env.files[i] => FallbackOf(env, i, y) \in DOMAIN s.langs
      /\ \A y \in (DOMAIN s.langs \ DOMAIN st.langs) \ {fb} :
            /\ FallenBackOn(env.files, y) /\ depth[y] < depth[fb]
            /\ MarksFallback(env.kind) => <<i, y>> \in s.marked
      /\ st.marked \subseteq s.marked
      /\ \A f \in s.marked \ st.marked :
            \E y \in DOMAIN s.langs : f = <<i, y>> /\ FallenBackOn(env.files, y)
  BY DEF Grown
<1>2. /\ IsState(to) /\ to.ok = TRUE
      /\ DOMAIN to.langs = DOMAIN s.langs \cup {x}
      /\ \A y \in DOMAIN s.langs \ {x} : to.langs[y] = s.langs[y]
      /\ Made(env, i, x, to.langs[x], s.langs)
      /\ to.marked = s.marked \cup (IF MarksFallback(env.kind) THEN {<<i, fb>>} ELSE {})
      /\ AllWhole(env, to.langs)
  BY <1>1 DEF KeptBy
<1>3. /\ \A y \in DOMAIN env.files[i] : depth[y] \in Int
      /\ \A y \in DOMAIN env.files[i] \ {English} :
            FallbackOf(env, i, y) \in DOMAIN env.files[i] \ {English} => depth[FallbackOf(env, i, y)] < depth[y]
  <2>1. depth \in [DOMAIN env.files[i] -> 0..most] /\ most \in Nat
    BY DEF DepthOf
  <2>2. \A y \in DOMAIN env.files[i] : FallbackOf(env, i, y) = env.files[i][y].fallback
    BY DEF FallbackOf
  <2> QED BY <2>1, <2>2 DEF DepthOf
<1>4. depth[fb] < depth[x] /\ x # fb
  BY <1>3
<1>5. FallenBackOn(env.files, fb)
  BY DEF FallenBackOn, FallbackOf
<1>6. DOMAIN st.langs \cup {x} \subseteq DOMAIN to.langs
  BY <1>1, <1>2
<1>7. \A y \in DOMAIN st.langs \ {x} : to.langs[y] = st.langs[y]
  BY <1>1, <1>2
\* None of the languages that came first falls back on the one that came last.
<1>8. ASSUME NEW y \in (DOMAIN to.langs \ DOMAIN st.langs) \cup {x}
      PROVE  /\ y \in DOMAIN env.files[i] \ {English}
             /\ Made(env, i, y, to.langs[y], to.langs)
             /\ FallbackOf(env, i, y) \in DOMAIN env.files[i] => FallbackOf(env, i, y) \in DOMAIN to.langs
  <2>1. PICK z : z = FallbackOf(env, i, y)
    OBVIOUS
  <2>2. y \in DOMAIN env.files[i] \ {English} /\ z = env.files[i][y].fallback
    BY <1>1, <1>2, <2>1 DEF FallbackOf
  <2>3. z # x
    <3>1. CASE y = x
      BY <1>4, <2>1, <3>1
    <3>2. CASE y # x
      <4>a. y \in (DOMAIN s.langs \ DOMAIN st.langs) \cup {fb} /\ depth[y] \in Int /\ depth[fb] \in Int
        BY <1>2, <1>3, <2>2, <3>2
      <4>1. depth[y] <= depth[fb]
        <5>1. CASE y = fb
          BY <4>a, <5>1
        <5>2. CASE y # fb
          <6>1. depth[y] < depth[fb]
            BY <1>1, <4>a, <5>2
          <6> QED BY <4>a, <6>1
        <5> QED BY <5>1, <5>2
      <4>2. z = x => depth[x] < depth[y]
        BY <1>3, <2>1, <2>2
      <4>3. depth[x] \in Int /\ depth[y] \in Int /\ depth[fb] \in Int
        BY <1>3, <2>2
      <4> QED BY <1>4, <4>1, <4>2, <4>3
    <3> QED BY <3>1, <3>2
  <2>4. (z \in DOMAIN to.langs <=> z \in DOMAIN s.langs) /\ (z \in DOMAIN s.langs => to.langs[z] = s.langs[z])
    BY <1>2, <2>3
  <2>5. Made(env, i, y, to.langs[y], s.langs)
    BY <1>1, <1>2
  <2>6. Made(env, i, y, to.langs[y], to.langs)
    BY <2>2, <2>4, <2>5 DEF Made
  <2>7. z \in DOMAIN env.files[i] => z \in DOMAIN s.langs
    BY <1>1, <1>2, <2>1
  <2> QED BY <2>1, <2>2, <2>4, <2>6, <2>7
<1>9. ASSUME NEW y \in (DOMAIN to.langs \ DOMAIN st.langs) \ {x}
      PROVE  /\ FallenBackOn(env.files, y) /\ depth[y] < depth[x]
             /\ MarksFallback(env.kind) => <<i, y>> \in to.marked
  <2>1. CASE y = fb
    BY <1>2, <1>4, <1>5, <2>1
  <2>2. CASE y # fb
    <3>1. y \in (DOMAIN s.langs \ DOMAIN st.langs) \ {fb} /\ y \in DOMAIN env.files[i]
      BY <1>1, <1>2, <2>2
    <3>2. depth[y] \in Int /\ depth[x] \in Int /\ depth[fb] \in Int
      BY <1>3, <3>1
    <3> QED BY <1>1, <1>2, <1>4, <3>1, <3>2
  <2> QED BY <2>1, <2>2
<1>10. st.marked \subseteq to.marked
  BY <1>1, <1>2
<1>11. \A f \in to.marked \ st.marked : \E y \in DOMAIN to.langs : f = <<i, y>> /\ FallenBackOn(env.files, y)
  BY <1>1, <1>2, <1>5
<1> QED BY <1>2, <1>6, <1>7, <1>8, <1>9, <1>10, <1>11 DEF Grown

\* A language can be loaded from here on.
Loads(env, st) == IsState(st) /\ AllWhole(env, st.langs) /\ English \in DOMAIN st.langs

\* Loading a file adds it, and what it falls back on (storage.go:1093).
LEMMA LoadGrows ==
    ASSUME NEW env, EnvOK(env), NEW i \in DOMAIN env.files, NEW l \in DOMAIN env.files[i] \ {English},
           NEW st, Loads(env, st)
    PROVE  \E depth : Grown(env, i, depth, st, l, Load(env, st, i, l))
<1>1. PICK depth, most : DepthOf(env.files[i], depth, most)
  BY DepthExists
<1>2. PICK f : /\ Load(env, st, i, l) = f[l]
               /\ \A x \in DOMAIN env.files[i] \cup {l} :
                     f[x] = LoadedAfter(env, st, i, x, f[FallbackOf(env, i, x)])
               /\ \A x \in DOMAIN env.files[i] : FallbackOf(env, i, x) \notin DOMAIN env.files[i] =>
                     f[FallbackOf(env, i, x)] = [st EXCEPT !.ok = FALSE]
  BY LoadIs
<1> DEFINE Good(x) == Grown(env, i, depth, st, x, f[x])
<1>3. "" \notin DOMAIN st.langs /\ "" \notin DOMAIN env.files[i]
  <2>1. \A j \in DOMAIN env.files : "" \notin DOMAIN env.files[j]
    BY DEF EnvOK, Loadable
  <2> QED BY <2>1 DEF Loads, AllWhole, AllOf
\* st, whether or not its last file could be read.
<1>4. ASSUME NEW flag, NEW s, s = [st EXCEPT !.ok = flag]
      PROVE  IsState(s) /\ s.langs = st.langs /\ s.marked = st.marked /\ s.ok = flag
  <2>1. PICK got : got = st.langs
    OBVIOUS
  <2>2. PICK marks : marks = st.marked
    OBVIOUS
  <2>3. PICK o : o = st.ok
    OBVIOUS
  <2>4. st = [langs |-> got, ok |-> o, marked |-> marks]
    BY <2>1, <2>2, <2>3 DEF Loads, IsState
  <2>5. s = [langs |-> got, ok |-> flag, marked |-> marks]
    BY <1>4, <2>4
  <2> QED BY <2>1, <2>2, <2>5 DEF IsState
<1>5. ASSUME NEW x \in DOMAIN env.files[i] \ {English},
             \A y \in DOMAIN env.files[i] \ {English} : depth[y] < depth[x] => Good(y)
      PROVE  Good(x)
  <2>1. PICK fb : fb = FallbackOf(env, i, x)
    OBVIOUS
  <2>2. Before2(env, i, x).fallback = fb /\ fb = env.files[i][x].fallback
    BY <2>1, BeforeIsPrepared DEF FallbackOf
  <2>3. PICK to : to = f[x]
    OBVIOUS
  <2>4. CASE fb \in {""} \cup DOMAIN st.langs
    <3>1. PICK s : s = [st EXCEPT !.ok = (fb # "")]
      OBVIOUS
    <3>2. to = KeepPatched(env, s, i, x, Before2(env, i, x))
      BY <1>2, <2>2, <2>3, <2>4, <3>1 DEF LoadedAfter
    <3>3. IsState(s) /\ s.langs = st.langs /\ s.marked = st.marked /\ s.ok = (fb # "")
      BY <1>4, <3>1
    <3>4. s.ok = IF fb \in DOMAIN st.langs THEN TRUE ELSE FALSE
      <4>1. CASE fb = ""
        BY <1>3, <3>3, <4>1
      <4>2. CASE fb # ""
        BY <2>4, <3>3, <4>2
      <4> QED BY <4>1, <4>2
    <3>5. FallbackTold(env, i, x, s)
      BY <2>1, <3>3, <3>4 DEF FallbackTold
    <3>6. fb \in DOMAIN env.files[i] => fb \in DOMAIN s.langs
      BY <1>3, <2>4, <3>3
    <3>7. Grown(env, i, depth, st, x, to)
      BY <1>1, <2>1, <3>2, <3>3, <3>5, <3>6, GrowsByOne DEF Loads
    <3> QED BY <2>3, <3>7
  <2>5. CASE fb \notin {""} \cup DOMAIN st.langs /\ fb \notin DOMAIN env.files[i]
    <3>1. PICK s : s = f[fb]
      OBVIOUS
    <3>2. to = KeepPatched(env, s, i, x, Before2(env, i, x))
      BY <1>2, <2>1, <2>2, <2>3, <2>5, <3>1 DEF LoadedAfter
    <3>3. s = [st EXCEPT !.ok = FALSE]
      BY <1>2, <2>1, <2>5, <3>1
    <3>4. IsState(s) /\ s.langs = st.langs /\ s.marked = st.marked /\ s.ok = FALSE
      BY <1>4, <3>3
    <3>5. FallbackTold(env, i, x, s)
      BY <2>1, <2>5, <3>4 DEF FallbackTold
    <3>6. Grown(env, i, depth, st, x, to)
      BY <1>1, <2>1, <2>5, <3>2, <3>4, <3>5, GrowsByOne DEF Loads
    <3> QED BY <2>3, <3>6
  <2>6. CASE fb \notin {""} \cup DOMAIN st.langs /\ fb \in DOMAIN env.files[i]
    <3>1. PICK s : s = f[fb]
      OBVIOUS
    <3>2. to = KeepPatched(env, s, i, x, Before2(env, i, x))
      BY <1>2, <2>1, <2>2, <2>3, <2>6, <3>1 DEF LoadedAfter
    <3>3. fb \in DOMAIN env.files[i] \ {English}
      BY <2>6 DEF Loads
    <3>4. depth[fb] < depth[x]
      BY <1>1, <2>2, <3>3 DEF DepthOf
    <3>5. Grown(env, i, depth, st, fb, s)
      BY <1>5, <3>1, <3>3, <3>4
    <3>6. IsState(s) /\ s.ok = TRUE /\ fb \in DOMAIN s.langs /\ AllWhole(env, s.langs)
      BY <3>5 DEF Grown
    <3>7. FallbackTold(env, i, x, s)
      BY <2>1, <3>6 DEF FallbackTold
    <3>8. KeptBy(env, i, x, s, to)
      BY <3>2, <3>6, <3>7, KeptPatched
    <3>9. Grown(env, i, depth, st, x, to)
      BY <1>1, <2>1, <2>6, <3>3, <3>5, <3>8, GrowsAgain
    <3> QED BY <2>3, <3>9
  <2> QED BY <2>4, <2>5, <2>6
<1>6. \A x \in DOMAIN env.files[i] \ {English} : Good(x)
  <2> SUFFICES ASSUME NEW x0 \in DOMAIN env.files[i] \ {English}, ~Good(x0) PROVE FALSE
    OBVIOUS
  <2> DEFINE Bad == {x \in DOMAIN env.files[i] \ {English} : ~Good(x)}
             Depths == {n \in 0..most : \E x \in Bad : depth[x] = n}
  <2> HIDE DEF Good
  <2>1. depth \in [DOMAIN env.files[i] -> 0..most] /\ most \in Nat
    BY <1>1 DEF DepthOf
  <2>2. Depths \in SUBSET Nat /\ Depths # {}
    BY <2>1
  <2>3. PICK n \in Depths : \A m \in Depths : n <= m
    <3> HIDE DEF Depths
    <3> QED BY <2>2, LeastNat
  <2>4. PICK x \in Bad : depth[x] = n
    BY <2>3
  <2>5. \A y \in DOMAIN env.files[i] \ {English} : depth[y] < depth[x] => Good(y)
    <3> TAKE y \in DOMAIN env.files[i] \ {English}
    <3>1. depth[y] \in 0..most /\ depth[x] \in 0..most
      BY <2>1, <2>4
    <3>2. ~Good(y) => n <= depth[y]
      BY <2>3, <3>1
    <3> QED BY <2>4, <3>1, <3>2
  <2> QED BY <1>5, <2>4, <2>5
<1>7. Good(l)
  <2> HIDE DEF Good
  <2> QED BY <1>6
<1> QED BY <1>2, <1>7

-----------------------------------------------------------------------------
(* Loading all files, one after the other.                                 *)

\* The last filesystem that has a language, and the only one.
LEMMA LatestIs ==
    ASSUME NEW files, Loadable(files), NEW l
    PROVE  /\ \A i \in DOMAIN files : l \in DOMAIN files[i] =>
                 /\ Latest(files, l) \in DOMAIN files /\ l \in DOMAIN files[Latest(files, l)]
                 /\ i <= Latest(files, l)
                 /\ Single(files, l) => i = Latest(files, l)
           /\ DOMAIN files \subseteq Nat
<1> DEFINE S == {i \in DOMAIN files : l \in DOMAIN files[i]}
<1>1. Len(files) \in Nat /\ DOMAIN files = 1..Len(files)
  BY DEF Loadable
<1>2. ASSUME NEW i \in DOMAIN files, l \in DOMAIN files[i]
      PROVE  /\ Latest(files, l) \in DOMAIN files /\ l \in DOMAIN files[Latest(files, l)]
             /\ i <= Latest(files, l)
             /\ Single(files, l) => i = Latest(files, l)
  <2>1. S \in SUBSET (1..Len(files)) /\ S # {} /\ i \in S
    BY <1>1, <1>2
  <2>2. Max(S) \in S /\ \A y \in S : y <= Max(S)
    <3> HIDE DEF S
    <3> QED BY <1>1, <2>1, Greatest
  <2>3. ASSUME Single(files, l) PROVE i = Max(S)
    <3>1. Cardinality(S) = 1
      BY <2>3 DEF Single
    <3>2. IsFiniteSet(S)
      <4>1. IsFiniteSet(1..Len(files))
        BY <1>1, FS_Interval
      <4> HIDE DEF S
      <4> QED BY <2>1, <4>1, FS_Subset
    <3>3. PICK e : S = {e}
      BY <3>1, <3>2, FS_Singleton
    <3> QED BY <2>1, <2>2, <3>3
  <2> QED BY <2>1, <2>2, <2>3 DEF Latest
<1> QED BY <1>1, <1>2

\* What c must have of its fallback's content f, when it was patched with that.
Lent(env, i, l, c, f) ==
    \A n \in DOMAIN env.english.strings \cap DOMAIN f.strings :
        \/ HasText(env.files[i][l].strings, n)
        \/ env.kind # "common" /\ HasText(OfCommon(env.common, l).strings, n)
        \/ c.strings[n] = f.strings[n]

\* l comes after its fallback, and that stays as it is.
Leans(env, i, l) ==
    LET fb == FallbackOf(env, i, l)
    IN  /\ fb \in AllOf(env.files) /\ env.kind # "user"
        /\ Single(env.files, fb) /\ Single(env.files, l) /\ Latest(env.files, fb) <= i
        /\ ~MarksFallback(env.kind) => Own(env.files, fb).fallback = ""

\* What there is of l was read from this file.
WasRead(env, st, l, i) ==
    /\ FromFile(env, i, l, st.langs[l])
    /\ MarksFallback(env.kind) => <<i, l>> \in st.marked
    /\ FallbackOf(env, i, l) = "" =>
          st.langs[l] = Patched(env.kind, Before2(env, i, l), <<env.english>>)

\* i is the last filesystem with l whose turn is over.
LastDone(env, done, l, i) ==
    /\ <<i, l>> \in done /\ l \in DOMAIN env.files[i]
    /\ \A j \in DOMAIN env.files : <<j, l>> \in done /\ l \in DOMAIN env.files[j] => j <= i

\* What holds when the turn of the files in `done` is over: English stays; all that was read is
\* there; a language nobody falls back on is as its last file has it; one that leans on its
\* fallback has what it lacks from it.
LoopInv(env, st, done) ==
    /\ Loads(env, st) /\ st.langs[English] = env.english
    /\ \A i \in DOMAIN env.files : <<i, English>> \in st.marked
    /\ \A l \in DOMAIN st.langs \ {English} : \E i \in DOMAIN env.files : WasRead(env, st, l, i)
    /\ \A i \in DOMAIN env.files : \A l \in DOMAIN env.files[i] :
          <<i, l>> \in done \cup st.marked => l \in DOMAIN st.langs
    /\ \A l \in AllOf(env.files) \ {English} : ~FallenBackOn(env.files, l) =>
          \A i \in DOMAIN env.files :
             /\ <<i, l>> \in st.marked => <<i, l>> \in done
             /\ LastDone(env, done, l, i) => FromFile(env, i, l, st.langs[l])
    /\ \A l \in DOMAIN st.langs \ {English} : \A i \in DOMAIN env.files :
          l \in DOMAIN env.files[i] /\ Leans(env, i, l) =>
             /\ FallbackOf(env, i, l) \in DOMAIN st.langs
             /\ Lent(env, i, l, st.langs[l], st.langs[FallbackOf(env, i, l)])

\* The turn of a file comes after those of all files of the filesystems before.
IsTurn(env, done, i, x) ==
    /\ <<i, x>> \notin done
    /\ \A y : \A j \in DOMAIN env.files : <<j, y>> \in done => j <= i
    /\ \A j \in DOMAIN env.files : j < i => \A y \in DOMAIN env.files[j] : <<j, y>> \in done

\* A file that is not there, or was read before, changes nothing.
LEMMA TurnSkipped ==
    ASSUME NEW env, EnvOK(env), NEW i \in DOMAIN env.files, NEW x, NEW st, NEW done,
           LoopInv(env, st, done), IsTurn(env, done, i, x),
           <<i, x>> \in st.marked \/ x \notin DOMAIN env.files[i]
    PROVE  LoopInv(env, st, done \cup {<<i, x>>})
<1> DEFINE after == done \cup {<<i, x>>}
<1>1. ASSUME NEW k \in DOMAIN env.files, NEW l \in DOMAIN env.files[k], <<k, l>> \in after \cup st.marked
      PROVE  l \in DOMAIN st.langs
  <2>1. CASE <<k, l>> \in done \cup st.marked
    BY <2>1 DEF LoopInv
  <2>2. CASE <<k, l>> = <<i, x>>
    <3>1. k = i /\ l = x
      BY <2>2
    <3>2. <<k, l>> \in st.marked
      BY <3>1
    <3> QED BY <3>2 DEF LoopInv
  <2> QED BY <1>1, <2>1, <2>2
<1>2. ASSUME NEW l \in AllOf(env.files) \ {English}, ~FallenBackOn(env.files, l), NEW k \in DOMAIN env.files
      PROVE  /\ <<k, l>> \in st.marked => <<k, l>> \in after
             /\ LastDone(env, after, l, k) => FromFile(env, k, l, st.langs[l])
  <2>1. /\ \A j \in DOMAIN env.files : <<j, l>> \in st.marked => <<j, l>> \in done
        /\ LastDone(env, done, l, k) => FromFile(env, k, l, st.langs[l])
    BY <1>2 DEF LoopInv
  <2>2. ASSUME LastDone(env, after, l, k) PROVE LastDone(env, done, l, k)
    <3>1. <<k, l>> # <<i, x>>
      <4> SUFFICES ASSUME k = i, l = x PROVE FALSE
        OBVIOUS
      <4>1. l \in DOMAIN env.files[k]
        BY <2>2 DEF LastDone
      <4> QED BY <2>1, <4>1 DEF IsTurn
    <3> QED BY <2>2, <3>1 DEF LastDone
  <2> QED BY <2>1, <2>2
<1> HIDE DEF after
<1>3. LoopInv(env, st, after)
  BY <1>1, <1>2 DEF LoopInv
<1> QED BY <1>3 DEF after

\* The turn of a file that is read.
LEMMA TurnTaken ==
    ASSUME NEW env, EnvOK(env), NEW i \in DOMAIN env.files, NEW x \in DOMAIN env.files[i],
           NEW st, NEW done, LoopInv(env, st, done), IsTurn(env, done, i, x), <<i, x>> \notin st.marked,
           NEW to, to = [Load(env, st, i, x) EXCEPT !.marked = @ \cup {<<i, x>>}]
    PROVE  LoopInv(env, to, done \cup {<<i, x>>})
<1>1. x # English /\ Loads(env, st)
  BY DEF LoopInv
<1>2. PICK g : g = Load(env, st, i, x)
  OBVIOUS
<1>3. PICK depth : Grown(env, i, depth, st, x, g)
  BY <1>1, <1>2, LoadGrows
<1>4. PICK got : got = g.langs
  OBVIOUS
<1>5. PICK was : was = st.langs
  OBVIOUS
<1>6. IsState(to) /\ to.langs = got /\ to.marked = g.marked \cup {<<i, x>>}
  <2>1. PICK o : o = g.ok
    OBVIOUS
  <2>2. PICK marks : marks = g.marked
    OBVIOUS
  <2>3. g = [langs |-> got, ok |-> o, marked |-> marks]
    BY <1>3, <1>4, <2>1, <2>2 DEF Grown, IsState
  <2>4. PICK more : more = marks \cup {<<i, x>>}
    OBVIOUS
  <2>5. to = [g EXCEPT !.marked = more]
    BY <1>2, <2>2, <2>4
  <2>6. to = [langs |-> got, ok |-> o, marked |-> more]
    BY <2>3, <2>5
  <2>7. to.langs = got /\ to.marked = more /\ to.ok = o
    BY <2>6
  <2>8. IsState(to)
    BY <2>6, <2>7 DEF IsState
  <2> QED BY <2>2, <2>4, <2>7, <2>8
<1> DEFINE Newly == (DOMAIN got \ DOMAIN was) \cup {x}
           after == done \cup {<<i, x>>}
<1>7. /\ DOMAIN was \cup {x} \subseteq DOMAIN got
      /\ \A y \in DOMAIN was \ {x} : got[y] = was[y]
      /\ \A y \in Newly : /\ y \in DOMAIN env.files[i] \ {English}
                          /\ Made(env, i, y, got[y], got)
                          /\ FallbackOf(env, i, y) \in DOMAIN env.files[i] => FallbackOf(env, i, y) \in DOMAIN got
      /\ \A y \in Newly \ {x} : FallenBackOn(env.files, y) /\ y \notin DOMAIN was
      /\ \A y \in Newly : MarksFallback(env.kind) => <<i, y>> \in to.marked
      /\ st.marked \subseteq to.marked
      /\ \A f \in to.marked \ st.marked :
            f = <<i, x>> \/ \E y \in DOMAIN got : f = <<i, y>> /\ FallenBackOn(env.files, y)
      /\ AllWhole(env, got)
  BY <1>3, <1>4, <1>5, <1>6 DEF Grown
<1>a. x \in Newly
  OBVIOUS
<1> HIDE DEF Newly
<1>b. \A y \in Newly : y \in DOMAIN env.files[i] \ {English} /\ Made(env, i, y, got[y], got)
  BY <1>7
<1>c. \A y \in Newly : FallbackOf(env, i, y) \in DOMAIN env.files[i] => FallbackOf(env, i, y) \in DOMAIN got
  BY <1>7
<1>8. "" \notin DOMAIN got
  <2>1. \A j \in DOMAIN env.files : "" \notin DOMAIN env.files[j]
    BY DEF EnvOK, Loadable
  <2> QED BY <1>7, <2>1 DEF AllWhole, AllOf
<1>9. ASSUME NEW y \in Newly
      PROVE  /\ WasRead(env, to, y, i)
             /\ FallbackOf(env, i, y) \in DOMAIN got /\ env.kind # "user" =>
                   Lent(env, i, y, got[y], got[FallbackOf(env, i, y)])
  <2>1. y \in DOMAIN env.files[i] /\ AllWhole(env, got) /\ Made(env, i, y, got[y], got)
    <3>1. AllWhole(env, got)
      BY <1>7
    <3> QED BY <1>b, <3>1
  <2>2. PICK c : c = got[y]
    OBVIOUS
  <2>3. PICK fb : fb = env.files[i][y].fallback
    OBVIOUS
  <2>4. fb = FallbackOf(env, i, y)
    BY <2>1, <2>3 DEF FallbackOf
  <2>5. Made(env, i, y, c, got)
    BY <2>1, <2>2
  <2>6. /\ Complete(env, y, c) /\ FromFile(env, i, y, c)
        /\ env.files[i][y].fallback \in DOMAIN got /\ env.kind # "user" =>
              \A n \in DOMAIN env.english.strings \cap DOMAIN got[env.files[i][y].fallback].strings :
                 \/ HasText(env.files[i][y].strings, n)
                 \/ env.kind # "common" /\ HasText(OfCommon(env.common, y).strings, n)
                 \/ c.strings[n] = got[env.files[i][y].fallback].strings[n]
    BY <2>1, <2>5, MadeWhole
  <2>7. fb = "" => c = Patched(env.kind, Before2(env, i, y), <<env.english>>)
    BY <1>8, <2>3, <2>5 DEF Made
  <2>8. to.langs[y] = c
    BY <1>6, <2>2
  <2>9. MarksFallback(env.kind) => <<i, y>> \in to.marked
    BY <1>7
  <2>10. WasRead(env, to, y, i)
    BY <2>3, <2>4, <2>6, <2>7, <2>8, <2>9 DEF WasRead
  <2>11. fb \in DOMAIN got /\ env.kind # "user" => Lent(env, i, y, c, got[fb])
    BY <2>3, <2>6 DEF Lent
  <2> QED BY <2>2, <2>4, <2>10, <2>11
<1>10. /\ IsState(to) /\ AllWhole(env, to.langs) /\ English \in DOMAIN to.langs
       /\ to.langs[English] = env.english
       /\ \A j \in DOMAIN env.files : <<j, English>> \in to.marked
  BY <1>1, <1>5, <1>6, <1>7 DEF LoopInv, Loads
<1>11. \A y \in DOMAIN got : y \in Newly \/ (y \in DOMAIN was \ {x} /\ got[y] = was[y])
  BY <1>7 DEF Newly
<1>12. ASSUME NEW y \in DOMAIN got \ {English} PROVE \E j \in DOMAIN env.files : WasRead(env, to, y, j)
  <2>1. CASE y \in Newly
    BY <1>9, <2>1
  <2>2. CASE y \notin Newly
    <3>1. y \in DOMAIN was \ {English} /\ got[y] = was[y]
      BY <1>11, <2>2
    <3>2. PICK j \in DOMAIN env.files : WasRead(env, st, y, j)
      BY <1>5, <3>1 DEF LoopInv
    <3>3. WasRead(env, to, y, j)
      BY <1>5, <1>6, <1>7, <3>1, <3>2 DEF WasRead
    <3> QED BY <3>3
  <2> QED BY <2>1, <2>2
<1>13. ASSUME NEW j \in DOMAIN env.files, NEW y \in DOMAIN env.files[j], <<j, y>> \in after \cup to.marked
       PROVE  y \in DOMAIN got
  <2>1. CASE <<j, y>> \in done \cup st.marked
    BY <1>5, <1>7, <2>1 DEF LoopInv
  <2>2. CASE <<j, y>> = <<i, x>>
    BY <1>7, <2>2
  <2>3. CASE <<j, y>> \in to.marked \ st.marked /\ <<j, y>> # <<i, x>>
    BY <1>7, <2>3
  <2> QED BY <1>13, <2>1, <2>2, <2>3
<1>14. ASSUME NEW y \in AllOf(env.files) \ {English}, ~FallenBackOn(env.files, y), NEW j \in DOMAIN env.files
       PROVE  /\ <<j, y>> \in to.marked => <<j, y>> \in after
              /\ LastDone(env, after, y, j) => FromFile(env, j, y, got[y])
  <2>1. /\ <<j, y>> \in st.marked => <<j, y>> \in done
        /\ LastDone(env, done, y, j) => FromFile(env, j, y, was[y])
    BY <1>5, <1>14 DEF LoopInv
  <2>2. <<j, y>> \in to.marked => <<j, y>> \in after
    BY <1>7, <1>14, <2>1
  <2>3. CASE y = x
    <3>1. ASSUME LastDone(env, after, y, j) PROVE FromFile(env, j, y, got[y])
      <4>1. i <= j /\ j \in Nat /\ i \in Nat
        <5>1. DOMAIN env.files \subseteq Nat
          BY LatestIs DEF EnvOK
        <5> QED BY <2>3, <3>1, <5>1 DEF LastDone
      <4>2. j <= i
        BY <3>1 DEF LastDone, IsTurn
      <4>3. i = j
        BY <4>1, <4>2
      <4>4. WasRead(env, to, y, i)
        BY <1>9, <1>a, <2>3
      <4> QED BY <1>6, <4>3, <4>4 DEF WasRead
    <3> QED BY <2>2, <3>1
  <2>4. CASE y # x
    <3>1. y \notin Newly
      BY <1>7, <1>14, <2>4
    <3>2. ASSUME LastDone(env, after, y, j) PROVE FromFile(env, j, y, got[y])
      <4>1. LastDone(env, done, y, j)
        BY <2>4, <3>2 DEF LastDone
      <4>2. y \in DOMAIN was
        BY <1>5, <4>1 DEF LastDone, LoopInv
      <4> QED BY <1>7, <1>11, <2>1, <3>1, <4>1, <4>2
    <3> QED BY <2>2, <3>2
  <2> QED BY <2>3, <2>4
<1>15. ASSUME NEW y \in DOMAIN got \ {English}, NEW j \in DOMAIN env.files,
              y \in DOMAIN env.files[j], Leans(env, j, y)
       PROVE  /\ FallbackOf(env, j, y) \in DOMAIN got
              /\ Lent(env, j, y, got[y], got[FallbackOf(env, j, y)])
  <2>1. PICK fb : fb = FallbackOf(env, j, y)
    OBVIOUS
  <2>2. /\ fb \in AllOf(env.files) /\ env.kind # "user" /\ Single(env.files, fb) /\ Single(env.files, y)
        /\ Latest(env.files, fb) <= j /\ (~MarksFallback(env.kind) => Own(env.files, fb).fallback = "")
    BY <1>15, <2>1 DEF Leans
  <2>3. PICK k \in DOMAIN env.files : k = Latest(env.files, fb) /\ fb \in DOMAIN env.files[k]
    <3>1. PICK h \in DOMAIN env.files : fb \in DOMAIN env.files[h]
      BY <2>2 DEF AllOf
    <3> QED BY <3>1, LatestIs DEF EnvOK
  <2>4. \A h \in DOMAIN env.files : (fb \in DOMAIN env.files[h] => h = k) /\ (y \in DOMAIN env.files[h] => h = j)
    <3>1. \A h \in DOMAIN env.files : y \in DOMAIN env.files[h] => h = Latest(env.files, y)
      BY <2>2, LatestIs DEF EnvOK
    <3>2. \A h \in DOMAIN env.files : fb \in DOMAIN env.files[h] => h = Latest(env.files, fb)
      BY <2>2, LatestIs DEF EnvOK
    <3> QED BY <1>15, <2>3, <3>1, <3>2
  <2>5. CASE y \in Newly
    <3>1. j = i
      BY <1>b, <2>4, <2>5
    <3>2. fb \in DOMAIN got
      <4>1. CASE k = i
        BY <1>c, <2>1, <2>3, <2>5, <3>1, <4>1
      <4>2. CASE k # i
        <5>1. k < i
          <6>1. k \in Nat /\ i \in Nat
            BY LatestIs DEF EnvOK
          <6>2. k <= i
            BY <2>2, <2>3, <3>1
          <6> QED BY <4>2, <6>1, <6>2
        <5>2. <<k, fb>> \in done
          BY <2>3, <5>1 DEF IsTurn
        <5>3. fb \in DOMAIN was
          BY <1>5, <2>3, <5>2 DEF LoopInv
        <5> QED BY <1>7, <5>3
      <4> QED BY <4>1, <4>2
    <3> QED BY <1>9, <2>1, <2>2, <2>5, <3>1, <3>2
  <2>6. CASE y \notin Newly
    <3>1. y \in DOMAIN was \ {English} /\ got[y] = was[y]
      BY <1>11, <2>6
    <3>2. fb \in DOMAIN was /\ Lent(env, j, y, was[y], was[fb])
      BY <1>5, <1>15, <2>1, <3>1 DEF LoopInv
    <3>3. got[fb] = was[fb]
      <4>1. CASE fb # x
        BY <1>7, <3>2, <4>1
      <4>2. CASE fb = x
        <5>1. k = i
          BY <2>4, <4>2
        <5>2. fb # English
          BY <1>1, <4>2
        <5>3. PICK h \in DOMAIN env.files : WasRead(env, st, fb, h)
          BY <1>5, <3>2, <5>2 DEF LoopInv
        <5>4. h = i
          BY <2>4, <5>1, <5>3 DEF WasRead, FromFile
        <5>5. ~MarksFallback(env.kind)
          BY <4>2, <5>3, <5>4 DEF WasRead
        <5>6. FallbackOf(env, i, fb) = ""
          BY <2>2, <2>3, <5>1, <5>5 DEF Own, FallbackOf
        <5>7. was[fb] = Patched(env.kind, Before2(env, i, fb), <<env.english>>)
          BY <1>5, <5>3, <5>4, <5>6 DEF WasRead
        <5>8. WasRead(env, to, fb, i)
          BY <1>9, <1>a, <4>2
        <5>9. got[fb] = Patched(env.kind, Before2(env, i, fb), <<env.english>>)
          BY <1>6, <5>6, <5>8 DEF WasRead
        <5> QED BY <5>7, <5>9
      <4> QED BY <4>1, <4>2
    <3> QED BY <1>7, <2>1, <3>1, <3>2, <3>3
  <2> QED BY <2>5, <2>6
<1> HIDE DEF Newly, after
<1>16. LoopInv(env, to, after)
  BY <1>6, <1>10, <1>12, <1>13, <1>14, <1>15 DEF LoopInv, Loads
<1> QED BY <1>16 DEF after

\* A turn, taken or not (storage.go:1152).
LEMMA TurnKeeps ==
    ASSUME NEW env, EnvOK(env), NEW i \in DOMAIN env.files, NEW x, NEW st, NEW done,
           LoopInv(env, st, done), IsTurn(env, done, i, x)
    PROVE  LoopInv(env, LoadOnce(env, st, <<i, x>>), done \cup {<<i, x>>})
<1>1. PICK f : f = <<i, x>>
  OBVIOUS
<1>2. f[1] = i /\ f[2] = x
  BY <1>1
<1>3. LoadOnce(env, st, f) = IF f \in st.marked \/ x \notin DOMAIN env.files[i] \cup {English} THEN st
                            ELSE [Load(env, st, i, x) EXCEPT !.marked = @ \cup {f}]
  BY <1>2 DEF LoadOnce
<1>4. x = English => f \in st.marked
  BY <1>1 DEF LoopInv
<1>5. CASE f \in st.marked \/ x \notin DOMAIN env.files[i]
  <2>1. LoadOnce(env, st, f) = st
    BY <1>3, <1>4, <1>5
  <2> QED BY <1>1, <1>5, <2>1, TurnSkipped
<1>6. CASE ~(f \in st.marked \/ x \notin DOMAIN env.files[i])
  <2>1. PICK to : to = LoadOnce(env, st, f)
    OBVIOUS
  <2>2. to = [Load(env, st, i, x) EXCEPT !.marked = @ \cup {<<i, x>>}]
    BY <1>1, <1>3, <1>6, <2>1
  <2>3. LoopInv(env, to, done \cup {<<i, x>>})
    BY <1>1, <1>6, <2>2, TurnTaken
  <2> QED BY <1>1, <2>1, <2>3
<1> QED BY <1>5, <1>6

\* Going through files one by one.
LEMMA FilesInTurn ==
    ASSUME NEW env, NEW order, NEW n \in Nat, DOMAIN order = 1..n, NEW st
    PROVE  \E run : TurnsLead(run, "file", env, order, st, n, LoadFiles(env, st, order))
<1> DEFINE Table(f) == f = [s \in SUBSET (1..n) |->
                               IF s = {} THEN st ELSE LoadOnce(env, f[s \ {Max(s)}], order[Max(s)])]
           F == CHOOSE f : Table(f)
<1>1. PICK g : TurnTable(g, "file", env, order, st, n)
  BY TurnTableExists
<1>2. \A s \in SUBSET (1..n) : s # {} => s \ {Max(s)} \in SUBSET (1..n)
  OBVIOUS
<1>3. \A s \in SUBSET (1..n) :
          g[s] = IF s = {} THEN st ELSE LoadOnce(env, g[s \ {Max(s)}], order[Max(s)])
  BY <1>1 DEF TurnTable, Turn
<1> DEFINE h == [s \in SUBSET (1..n) |-> g[s]]
<1>4. \A s \in SUBSET (1..n) :
          h[s] = IF s = {} THEN st ELSE LoadOnce(env, h[s \ {Max(s)}], order[Max(s)])
  BY <1>2, <1>3
<1>5. Table(h)
  <2> HIDE DEF h
  <2>1. h = [s \in SUBSET (1..n) |-> h[s]]
    BY DEF h
  <2> QED BY <1>4, <2>1
<1>6. Table(F)
  <2> HIDE DEF Table
  <2> QED BY <1>5
<1>7. LoadFiles(env, st, order) = F[1..n]
  BY DEF LoadFiles, FoldLeft, MapThenFoldSet
<1>8. TurnTable(F, "file", env, order, st, n)
  <2> HIDE DEF F
  <2> QED BY <1>6 DEF TurnTable, Turn
<1> HIDE DEF F
<1> QED BY <1>7, <1>8, TableLeads

\* Going through filesystems one by one.
LEMMA FilesystemsInTurn ==
    ASSUME NEW env, NEW order, NEW n \in Nat, DOMAIN env.files = 1..n, NEW st
    PROVE  \E run : TurnsLead(run, "filesystem", env, order, st, n, LoadFilesystems(env, st, order))
<1> DEFINE each == [i \in DOMAIN env.files |-> i]
           Table(f) == f = [s \in SUBSET (1..n) |->
                               IF s = {} THEN st ELSE LoadFilesystem(env, f[s \ {Max(s)}], each[Max(s)], order)]
           F == CHOOSE f : Table(f)
<1>1. PICK g : TurnTable(g, "filesystem", env, order, st, n)
  BY TurnTableExists
<1>2. \A s \in SUBSET (1..n) : s # {} => s \ {Max(s)} \in SUBSET (1..n) /\ each[Max(s)] = Max(s)
  BY Greatest
<1>3. \A s \in SUBSET (1..n) :
          g[s] = IF s = {} THEN st ELSE LoadFilesystem(env, g[s \ {Max(s)}], Max(s), order)
  BY <1>1 DEF TurnTable, Turn
<1> DEFINE h == [s \in SUBSET (1..n) |-> g[s]]
<1>4. \A s \in SUBSET (1..n) :
          h[s] = IF s = {} THEN st ELSE LoadFilesystem(env, h[s \ {Max(s)}], each[Max(s)], order)
  <2> HIDE DEF each
  <2> QED BY <1>2, <1>3
<1>5. Table(h)
  <2> HIDE DEF h, each
  <2>1. h = [s \in SUBSET (1..n) |-> h[s]]
    BY DEF h
  <2> QED BY <1>4, <2>1
<1>6. Table(F)
  <2> HIDE DEF Table
  <2> QED BY <1>5
<1>7. LoadFilesystems(env, st, order) = F[1..n]
  BY DEF LoadFilesystems, FoldLeft, MapThenFoldSet
<1>8. TurnTable(F, "filesystem", env, order, st, n)
  <2> HIDE DEF F, each
  <2> QED BY <1>2, <1>6 DEF TurnTable, Turn
<1> HIDE DEF F
<1> QED BY <1>7, <1>8, TableLeads

\* The files whose turn is over when k files of filesystem i have had theirs.
DoneTo(i, k) == {f \in Nat \X ToSet(LangOrder) :
                    \/ 1 <= f[1] /\ f[1] < i
                    \/ f[1] = i /\ \E n \in 1..k : f[2] = LangOrder[n]}

\* All files of a filesystem in turn (storage.go:1145).
LEMMA FilesystemKeeps ==
    ASSUME NEW env, EnvOK(env), NEW i \in DOMAIN env.files, NEW st, LoopInv(env, st, DoneTo(i, 0))
    PROVE  LoopInv(env, LoadFilesystem(env, st, i, LangOrder), DoneTo(i + 1, 0))
<1> DEFINE size == Len(LangOrder)
           pairs == [n \in DOMAIN LangOrder |-> <<i, LangOrder[n]>>]
<1>1. /\ DOMAIN LangOrder = 1..size /\ size \in Nat /\ DOMAIN pairs = 1..size
      /\ \A m, n \in 1..size : LangOrder[m] = LangOrder[n] => m = n
      /\ \A n \in 1..size : LangOrder[n] \in ToSet(LangOrder) /\ pairs[n] = <<i, LangOrder[n]>>
      /\ \A l \in ToSet(LangOrder) : \E n \in 1..size : l = LangOrder[n]
  BY LanguagesAssumption DEF ToSet
<1>2. /\ DOMAIN env.files = 1..Len(env.files) /\ Len(env.files) \in Nat /\ i \in Nat
      /\ \A j \in DOMAIN env.files : DOMAIN env.files[j] \subseteq ToSet(LangOrder)
  <2>1. DOMAIN env.files = 1..Len(env.files) /\ Len(env.files) \in Nat
    BY DEF EnvOK, Loadable
  <2>2. \A j \in DOMAIN env.files : DOMAIN env.files[j] \subseteq ToSet(LangOrder)
    BY DEF EnvOK, Loadable
  <2> QED BY <2>1, <2>2
<1> HIDE DEF size, pairs
<1>3. PICK run : TurnsLead(run, "file", env, pairs, st, size, LoadFilesystem(env, st, i, LangOrder))
  <2>1. LoadFilesystem(env, st, i, LangOrder) = LoadFiles(env, st, pairs)
    BY DEF LoadFilesystem, pairs
  <2>2. \E run : TurnsLead(run, "file", env, pairs, st, size, LoadFiles(env, st, pairs))
    BY <1>1, FilesInTurn
  <2> QED BY <2>1, <2>2
<1>4. /\ run[0] = st /\ run[size] = LoadFilesystem(env, st, i, LangOrder)
      /\ \A k \in 1..size : run[k] = LoadOnce(env, run[k - 1], <<i, LangOrder[k]>>)
  BY <1>1, <1>3 DEF TurnsLead, Turn
<1> DEFINE Good(k) == LoopInv(env, run[k], DoneTo(i, k))
<1>5. ASSUME NEW k \in 1..size, Good(k - 1) PROVE Good(k)
  <2>1. PICK x : x = LangOrder[k]
    OBVIOUS
  <2>2. x \in ToSet(LangOrder) /\ k \in Nat /\ \A n \in 1..(k - 1) : LangOrder[n] # x
    BY <1>1, <2>1
  <2>3. IsTurn(env, DoneTo(i, k - 1), i, x)
    <3>1. <<i, x>> \notin DoneTo(i, k - 1)
      BY <1>2, <2>2 DEF DoneTo
    <3>2. \A y : \A j \in DOMAIN env.files : <<j, y>> \in DoneTo(i, k - 1) => j <= i
      BY <1>2 DEF DoneTo
    <3>3. \A j \in DOMAIN env.files : j < i => \A y \in DOMAIN env.files[j] : <<j, y>> \in DoneTo(i, k - 1)
      BY <1>2 DEF DoneTo
    <3> QED BY <3>1, <3>2, <3>3 DEF IsTurn
  <2>4. DoneTo(i, k) = DoneTo(i, k - 1) \cup {<<i, x>>}
    <3>1. \A n : n \in 1..k <=> n \in 1..(k - 1) \/ n = k
      BY <2>2
    <3> QED BY <1>2, <2>1, <2>2, <3>1 DEF DoneTo
  <2>5. PICK s : s = run[k - 1]
    OBVIOUS
  <2>6. run[k] = LoadOnce(env, s, <<i, x>>) /\ LoopInv(env, s, DoneTo(i, k - 1))
    BY <1>4, <1>5, <2>1, <2>5
  <2>7. LoopInv(env, LoadOnce(env, s, <<i, x>>), DoneTo(i, k - 1) \cup {<<i, x>>})
    BY <2>3, <2>6, TurnKeeps
  <2> QED BY <2>4, <2>6, <2>7
<1>6. Good(size)
  <2> SUFFICES ASSUME ~Good(size) PROVE FALSE
    OBVIOUS
  <2> DEFINE Bad == {k \in 0..size : ~Good(k)}
  <2>1. Good(0)
    BY <1>4
  <2> HIDE DEF Good
  <2>2. Bad \in SUBSET Nat /\ Bad # {}
    BY <1>1
  <2>3. PICK k \in Bad : \A m \in Bad : k <= m
    <3> HIDE DEF Bad
    <3> QED BY <2>2, LeastNat
  <2>4. k \in 1..size /\ k - 1 \in 0..size /\ ~(k <= k - 1)
    BY <1>1, <2>1, <2>3
  <2>5. Good(k - 1)
    BY <2>3, <2>4
  <2> QED BY <1>5, <2>3, <2>4, <2>5
<1>7. DoneTo(i, size) = DoneTo(i + 1, 0)
  <2>1. \A j \in Nat : j < i + 1 <=> j < i \/ j = i
    BY <1>2
  <2>2. 1 <= i
    BY <1>2
  <2>3. \A n : n \notin 1..0
    OBVIOUS
  <2> QED BY <1>1, <1>2, <2>1, <2>2, <2>3 DEF DoneTo
<1> QED BY <1>4, <1>6, <1>7

\* All filesystems in turn.
LEMMA AllKeep ==
    ASSUME NEW env, EnvOK(env), NEW st, LoopInv(env, st, {})
    PROVE  LoopInv(env, LoadFilesystems(env, st, LangOrder), DoneTo(Len(env.files) + 1, 0))
<1> DEFINE n == Len(env.files)
<1>1. n \in Nat /\ DOMAIN env.files = 1..n
  BY DEF EnvOK, Loadable
<1> HIDE DEF n
<1>e. PICK final : final = LoadFilesystems(env, st, LangOrder)
  OBVIOUS
<1>2. PICK run : TurnsLead(run, "filesystem", env, LangOrder, st, n, final)
  <2>1. \E run : TurnsLead(run, "filesystem", env, LangOrder, st, n, LoadFilesystems(env, st, LangOrder))
    BY <1>1, FilesystemsInTurn
  <2> QED BY <1>e, <2>1
<1>3. /\ run[0] = st /\ run[n] = final
      /\ \A k \in 1..n : run[k] = LoadFilesystem(env, run[k - 1], k, LangOrder)
  BY <1>2 DEF TurnsLead, Turn
<1> DEFINE Good(k) == LoopInv(env, run[k], DoneTo(k + 1, 0))
<1>4. Good(0)
  <2>1. DoneTo(0 + 1, 0) = {}
    <3>1. \A j \in Nat : ~(1 <= j /\ j < 0 + 1)
      OBVIOUS
    <3>2. \A m : m \notin 1..0
      OBVIOUS
    <3> QED BY <3>1, <3>2 DEF DoneTo
  <2> QED BY <1>3, <2>1
<1>5. ASSUME NEW k \in 1..n, Good(k - 1) PROVE Good(k)
  <2>1. PICK s : s = run[k - 1]
    OBVIOUS
  <2>2. k - 1 + 1 = k
    BY <1>1
  <2>3. LoopInv(env, s, DoneTo(k, 0)) /\ k \in DOMAIN env.files
    BY <1>1, <1>5, <2>1, <2>2
  <2>4. LoopInv(env, LoadFilesystem(env, s, k, LangOrder), DoneTo(k + 1, 0))
    BY <2>3, FilesystemKeeps
  <2> QED BY <1>3, <2>1, <2>4
<1>6. Good(n)
  <2> SUFFICES ASSUME ~Good(n) PROVE FALSE
    OBVIOUS
  <2> DEFINE Bad == {k \in 0..n : ~Good(k)}
  <2> HIDE DEF Good
  <2>1. Bad \in SUBSET Nat /\ Bad # {}
    BY <1>1
  <2>2. PICK k \in Bad : \A m \in Bad : k <= m
    <3> HIDE DEF Bad
    <3> QED BY <2>1, LeastNat
  <2>3. k \in 1..n /\ k - 1 \in 0..n /\ ~(k <= k - 1)
    BY <1>1, <1>4, <2>2
  <2>4. Good(k - 1)
    BY <2>2, <2>3
  <2> QED BY <1>5, <2>2, <2>3, <2>4
<1> QED BY <1>3, <1>6, <1>e DEF n

\* English was looked for in the first k filesystems, and nothing else.
EnglishRead(env, st, k) ==
    /\ IsState(st) /\ DOMAIN st.langs \subseteq {English}
    /\ st.marked = {<<j, English>> : j \in 1..k}
    /\ English \in DOMAIN st.langs => English \in AllOf(env.files)

NoneRead == [langs |-> [l \in {} |-> NoContent], ok |-> FALSE, marked |-> {}]

\* English comes first (storage.go:1134).
LEMMA EnglishFirst ==
    ASSUME NEW env, EnvOK(env), NEW pairs, pairs = [i \in DOMAIN env.files |-> <<i, English>>]
    PROVE  EnglishRead(env, LoadFiles(env, NoneRead, pairs), Len(env.files))
<1> DEFINE n == Len(env.files)
<1>1. n \in Nat /\ DOMAIN env.files = 1..n /\ DOMAIN pairs = 1..n
  BY DEF EnvOK, Loadable
<1> HIDE DEF n
<1>e. PICK final : final = LoadFiles(env, NoneRead, pairs)
  OBVIOUS
<1>2. PICK run : TurnsLead(run, "file", env, pairs, NoneRead, n, final)
  <2>1. \E run : TurnsLead(run, "file", env, pairs, NoneRead, n, LoadFiles(env, NoneRead, pairs))
    BY <1>1, FilesInTurn
  <2> QED BY <1>e, <2>1
<1>3. /\ run[0] = NoneRead /\ run[n] = final
      /\ \A k \in 1..n : run[k] = LoadOnce(env, run[k - 1], <<k, English>>)
  BY <1>1, <1>2 DEF TurnsLead, Turn
<1> DEFINE Good(k) == EnglishRead(env, run[k], k)
<1>4. Good(0)
  <2>1. PICK none : none = [l \in {} |-> NoContent]
    OBVIOUS
  <2>2. NoneRead = [langs |-> none, ok |-> FALSE, marked |-> {}] /\ DOMAIN none = {}
    BY <2>1 DEF NoneRead
  <2>3. NoneRead.langs = none /\ NoneRead.marked = {} /\ IsState(NoneRead)
    BY <2>2 DEF IsState
  <2>4. {<<j, English>> : j \in 1..0} = {}
    OBVIOUS
  <2> QED BY <1>3, <2>2, <2>3, <2>4 DEF EnglishRead
<1>5. ASSUME NEW k \in 1..n, Good(k - 1) PROVE Good(k)
  <2>1. PICK s : s = run[k - 1]
    OBVIOUS
  <2>2. EnglishRead(env, s, k - 1) /\ k \in DOMAIN env.files /\ k \in Nat
    BY <1>1, <1>5, <2>1
  <2>3. PICK f : f = <<k, English>>
    OBVIOUS
  <2>4. PICK got : got = s.langs
    OBVIOUS
  <2>5. PICK marks : marks = s.marked
    OBVIOUS
  <2>6. PICK o : o = s.ok
    OBVIOUS
  <2>7. s = [langs |-> got, ok |-> o, marked |-> marks] /\ DOMAIN got \subseteq {English}
    BY <2>2, <2>4, <2>5, <2>6 DEF EnglishRead, IsState
  <2>8. marks = {<<j, English>> : j \in 1..(k - 1)} /\ f \notin marks
    <3>1. marks = {<<j, English>> : j \in 1..(k - 1)}
      BY <2>2, <2>5 DEF EnglishRead
    <3>2. \A j \in 1..(k - 1) : j # k
      BY <2>2
    <3> QED BY <2>3, <3>1, <3>2
  <2>9. PICK g : g = Load(env, s, k, English)
    OBVIOUS
  <2>10. LoadOnce(env, s, f) = [g EXCEPT !.marked = @ \cup {f}]
    BY <2>3, <2>5, <2>8, <2>9 DEF LoadOnce
  <2>11. PICK before : g = LoadedAfter(env, s, k, English, before)
    <3>1. PICK l : l = English
      OBVIOUS
    <3>2. PICK t : /\ Load(env, s, k, l) = t[l]
                   /\ \A x \in DOMAIN env.files[k] \cup {l} :
                         t[x] = LoadedAfter(env, s, k, x, t[FallbackOf(env, k, x)])
                   /\ \A x \in DOMAIN env.files[k] : FallbackOf(env, k, x) \notin DOMAIN env.files[k] =>
                         t[FallbackOf(env, k, x)] = [s EXCEPT !.ok = FALSE]
      BY <2>2, LoadIs
    <3> QED BY <2>9, <3>1, <3>2
  <2>12. \E new, flag : /\ g = [langs |-> new, ok |-> flag, marked |-> marks] /\ DOMAIN new \subseteq {English}
                        /\ English \in DOMAIN new => English \in AllOf(env.files)
    <3>1. CASE English \notin DOMAIN env.files[k]
      <4>1. g = [s EXCEPT !.ok = FALSE]
        BY <2>11, <3>1 DEF LoadedAfter
      <4>2. g = [langs |-> got, ok |-> FALSE, marked |-> marks]
        BY <2>7, <4>1
      <4>3. English \in DOMAIN got => English \in AllOf(env.files)
        BY <2>2, <2>4 DEF EnglishRead
      <4> QED BY <2>7, <4>2, <4>3
    <3>2. CASE English \in DOMAIN env.files[k]
      <4>1. PICK c : c = Before2(env, k, English)
        OBVIOUS
      <4>2. PICK new : new = With(got, English, c)
        OBVIOUS
      <4>3. g = [s EXCEPT !.langs = new, !.ok = TRUE]
        BY <2>4, <2>11, <3>2, <4>1, <4>2 DEF LoadedAfter, Keep
      <4>4. g = [langs |-> new, ok |-> TRUE, marked |-> marks]
        BY <2>7, <4>3
      <4>5. DOMAIN new \subseteq {English}
        BY <2>7, <4>2 DEF With
      <4>6. English \in AllOf(env.files)
        BY <2>2, <3>2 DEF AllOf
      <4> QED BY <4>4, <4>5, <4>6
    <3> QED BY <3>1, <3>2
  <2>13. PICK new, flag : /\ g = [langs |-> new, ok |-> flag, marked |-> marks] /\ DOMAIN new \subseteq {English}
                          /\ English \in DOMAIN new => English \in AllOf(env.files)
    BY <2>12
  <2>14. PICK more : more = marks \cup {f}
    OBVIOUS
  <2>15. more = {<<j, English>> : j \in 1..k}
    <3>1. \A j : j \in 1..k <=> j \in 1..(k - 1) \/ j = k
      BY <2>2
    <3> QED BY <2>3, <2>8, <2>14, <3>1
  <2>16. PICK to : to = LoadOnce(env, s, f)
    OBVIOUS
  <2>17. to = [langs |-> new, ok |-> flag, marked |-> more]
    BY <2>10, <2>13, <2>14, <2>16
  <2>18. to.langs = new /\ to.marked = more /\ IsState(to)
    BY <2>17 DEF IsState
  <2>19. EnglishRead(env, to, k)
    BY <2>13, <2>15, <2>18 DEF EnglishRead
  <2> QED BY <1>3, <2>1, <2>3, <2>16, <2>19
<1>6. Good(n)
  <2> SUFFICES ASSUME ~Good(n) PROVE FALSE
    OBVIOUS
  <2> DEFINE Bad == {k \in 0..n : ~Good(k)}
  <2> HIDE DEF Good
  <2>1. Bad \in SUBSET Nat /\ Bad # {}
    BY <1>1
  <2>2. PICK k \in Bad : \A m \in Bad : k <= m
    <3> HIDE DEF Bad
    <3> QED BY <2>1, LeastNat
  <2>3. k \in 1..n /\ k - 1 \in 0..n /\ ~(k <= k - 1)
    BY <1>1, <1>4, <2>2
  <2>4. Good(k - 1)
    BY <2>2, <2>3
  <2> QED BY <1>5, <2>2, <2>3, <2>4
<1> QED BY <1>3, <1>6, <1>e DEF n

\* What a kind of texts promises of a language, cm being the common texts.
Promised(kind, files, cm, all, l) ==
    LET own == Own(files, l)
    IN  /\ WholeTexts(all[English], all[l]) /\ WholeForms(kind, files, all[English], l, all[l])
        /\ Single(files, l) \/ ~FallenBackOn(files, l) => Keeps(own.strings, all[l].strings)
        /\ FollowsFallback(kind, files, all, l, own.fallback) =>
             \A n \in DOMAIN all[English].strings \cap DOMAIN all[own.fallback].strings :
                 \/ HasText(own.strings, n)
                 \/ kind # "common" /\ HasText(OfCommon(cm, l).strings, n)
                 \/ all[l].strings[n] = all[own.fallback].strings[n]

\* What has been loaded when all turns are over is as promised.
LEMMA LoopPromises ==
    ASSUME NEW env, EnvOK(env), NEW st, LoopInv(env, st, DoneTo(Len(env.files) + 1, 0)),
           NEW l \in DOMAIN st.langs \ {English}
    PROVE  Promised(env.kind, env.files, env.common, st.langs, l)
<1> DEFINE last == Latest(env.files, l)
           done == DoneTo(Len(env.files) + 1, 0)
<1>1. l \in AllOf(env.files) /\ Complete(env, l, st.langs[l]) /\ st.langs[English] = env.english
      /\ \A m \in DOMAIN st.langs : m \in AllOf(env.files)
  BY DEF LoopInv, Loads, AllWhole
<1>2. last \in DOMAIN env.files /\ l \in DOMAIN env.files[last] /\ Own(env.files, l) = env.files[last][l]
      /\ \A j \in DOMAIN env.files : l \in DOMAIN env.files[j] => j <= last /\ (Single(env.files, l) => j = last)
  <2>1. PICK j \in DOMAIN env.files : l \in DOMAIN env.files[j]
    BY <1>1 DEF AllOf
  <2> QED BY <2>1, LatestIs DEF EnvOK, Own
<1>3. ASSUME Single(env.files, l) PROVE Keeps(Own(env.files, l).strings, st.langs[l].strings)
  <2>1. PICK j \in DOMAIN env.files : WasRead(env, st, l, j)
    BY DEF LoopInv
  <2> QED BY <1>2, <1>3, <2>1 DEF WasRead, FromFile
<1>4. ASSUME ~FallenBackOn(env.files, l) PROVE Keeps(Own(env.files, l).strings, st.langs[l].strings)
  <2>1. <<last, l>> \in done
    <3>1. DOMAIN env.files = 1..Len(env.files) /\ Len(env.files) \in Nat /\ l \in ToSet(LangOrder)
      <4>1. DOMAIN env.files = 1..Len(env.files) /\ Len(env.files) \in Nat
        BY DEF EnvOK, Loadable
      <4>2. \A j \in DOMAIN env.files : DOMAIN env.files[j] \subseteq ToSet(LangOrder)
        BY DEF EnvOK, Loadable
      <4> QED BY <1>2, <4>1, <4>2
    <3>2. last \in Nat /\ 1 <= last /\ last < Len(env.files) + 1
      <4> HIDE DEF last
      <4> QED BY <1>2, <3>1
    <3> HIDE DEF last
    <3> QED BY <3>1, <3>2 DEF DoneTo
  <2>2. LastDone(env, done, l, last)
    BY <1>2, <2>1 DEF LastDone
  <2>3. FromFile(env, last, l, st.langs[l])
    <3> HIDE DEF last, done
    <3> QED BY <1>1, <1>2, <1>4, <2>2 DEF LoopInv, done
  <2> QED BY <1>2, <2>3 DEF FromFile
<1>5. PICK fb : fb = Own(env.files, l).fallback
  OBVIOUS
<1>6. ASSUME FollowsFallback(env.kind, env.files, st.langs, l, fb)
      PROVE  Lent(env, last, l, st.langs[l], st.langs[fb])
  <2>1. fb = FallbackOf(env, last, l)
    BY <1>2, <1>5 DEF FallbackOf
  <2>2. Leans(env, last, l)
    BY <1>1, <1>6, <2>1 DEF Leans, FollowsFallback
  <2> HIDE DEF last
  <2> QED BY <1>2, <2>1, <2>2 DEF LoopInv
<1> QED BY <1>1, <1>2, <1>3, <1>4, <1>5, <1>6 DEF Promised, Complete, Lent

\* Loading a kind keeps its promise (storage.go:1088).
LEMMA LoadPromises ==
    ASSUME NEW kind \in SixKinds, NEW files, Loadable(files), NEW cm, NEW emails,
           NEW all, all = LoadLanguages(kind, files, cm, emails, LangOrder), NEW l \in DOMAIN all \ {English}
    PROVE  l \in AllOf(files) /\ Promised(kind, files, cm, all, l)
<1>1. PICK env : env = [kind |-> kind, files |-> files, common |-> cm, emails |-> emails, english |-> NoContent]
  OBVIOUS
<1>2. env.kind = kind /\ env.files = files /\ env.common = cm /\ EnvOK(env)
  BY <1>1 DEF EnvOK
<1>3. PICK pairs : pairs = [i \in DOMAIN env.files |-> <<i, English>>]
  OBVIOUS
<1>4. PICK st : st = LoadFiles(env, NoneRead, pairs)
  OBVIOUS
<1>5. EnglishRead(env, st, Len(files))
  BY <1>2, <1>3, <1>4, EnglishFirst
<1>6. all = LoadOthers(env, st, LangOrder)
  BY <1>1, <1>2, <1>3, <1>4 DEF LoadLanguages, NoneRead
<1>7. English \in DOMAIN st.langs
  <2>1. ASSUME English \notin DOMAIN st.langs PROVE all = st.langs
    BY <1>6, <2>1 DEF LoadOthers
  <2> QED BY <1>5, <2>1 DEF EnglishRead
<1>8. PICK en : en = st.langs[English]
  OBVIOUS
<1>9. PICK with : with = [env EXCEPT !.english = en]
  OBVIOUS
<1>10. with = [kind |-> kind, files |-> files, common |-> cm, emails |-> emails, english |-> en]
  BY <1>1, <1>9
<1>11. /\ with.kind = kind /\ with.files = files /\ with.common = cm /\ with.english = en
       /\ EnvOK(with)
  BY <1>10 DEF EnvOK
<1>12. PICK final : final = LoadFilesystems(with, st, LangOrder)
  OBVIOUS
<1>13. all = final.langs
  BY <1>2, <1>6, <1>7, <1>8, <1>9, <1>11, <1>12 DEF LoadOthers
<1>14. LoopInv(with, st, {})
  <2>1. IsState(st) /\ DOMAIN st.langs = {English} /\ st.marked = {<<j, English>> : j \in 1..Len(files)}
        /\ English \in AllOf(files) /\ DOMAIN files = 1..Len(files)
    <3>1. IsState(st) /\ DOMAIN st.langs = {English} /\ English \in AllOf(files)
      BY <1>2, <1>5, <1>7 DEF EnglishRead
    <3>2. st.marked = {<<j, English>> : j \in 1..Len(files)}
      BY <1>5 DEF EnglishRead
    <3>3. DOMAIN files = 1..Len(files)
      BY DEF Loadable
    <3> QED BY <3>1, <3>2, <3>3
  <2>2. Complete(with, English, en)
    BY <1>11 DEF Complete, WholeTexts, WholeForms
  <2>3. AllWhole(with, st.langs)
    BY <1>8, <1>11, <2>1, <2>2 DEF AllWhole
  <2>4. \A i \in DOMAIN with.files : <<i, English>> \in st.marked
    BY <1>11, <2>1
  <2>5. \A i, m : <<i, m>> \in st.marked => m = English
    BY <2>1
  <2>6. \A i \in DOMAIN with.files : \A m \in DOMAIN with.files[i] :
            <<i, m>> \in {} \cup st.marked => m \in DOMAIN st.langs
    BY <2>1, <2>5
  <2>7. \A m \in AllOf(with.files) \ {English} : \A i \in DOMAIN with.files :
            <<i, m>> \notin st.marked /\ ~LastDone(with, {}, m, i)
    BY <2>5 DEF LastDone
  <2> QED BY <1>8, <1>11, <2>1, <2>3, <2>4, <2>6, <2>7 DEF LoopInv, Loads
<1>15. LoopInv(with, final, DoneTo(Len(with.files) + 1, 0))
  BY <1>11, <1>12, <1>14, AllKeep
<1>16. Promised(with.kind, with.files, with.common, final.langs, l)
  BY <1>11, <1>13, <1>15, LoopPromises
<1>17. l \in AllOf(with.files)
  BY <1>13, <1>15 DEF LoopInv, Loads, AllWhole
<1> QED BY <1>11, <1>13, <1>16, <1>17

\* What has been loaded is as promised, and nothing before the common texts (loadLang, storage.go:947).
LangInv ==
    /\ disk \in LangFiles /\ DOMAIN langs \subseteq DOMAIN disk
    /\ DOMAIN langs # {} => "common" \in DOMAIN langs
    /\ \A kind \in DOMAIN langs : \A l \in DOMAIN langs[kind] \ {English} :
          Promised(kind, disk[kind], langs["common"], langs[kind], l)

\* Nothing is loaded at first (storage.go:947).
LEMMA LangStart == LangInit => LangInv
  BY DEF LangInit, NoLangs, LangInv

\* The common texts do not ask for others.
LEMMA CommonAsksNone ==
    ASSUME NEW files, NEW cm, NEW other, NEW all, NEW l, Promised("common", files, cm, all, l)
    PROVE  Promised("common", files, other, all, l)
  BY DEF Promised

\* A kind is loaded after the common texts, and its promise is kept from then on.
LEMMA KindLoaded ==
    ASSUME LangInv, NEW kind \in SixKinds, NEW cm, NEW emails, LoadKind(kind, cm, emails),
           kind # "common" => cm = langs["common"]
    PROVE  LangInv'
<1>1. PICK files : files = disk[kind]
  OBVIOUS
<1>2. PICK all : all = LoadLanguages(kind, files, cm, emails, LangOrder)
  OBVIOUS
<1>3. disk' = disk /\ kind \in DOMAIN disk /\ kind \notin DOMAIN langs /\ langs' = With(langs, kind, all)
  BY <1>1, <1>2 DEF LoadKind
<1>4. DOMAIN langs' = DOMAIN langs \cup {kind} /\ langs'[kind] = all
      /\ \A k \in DOMAIN langs : langs'[k] = langs[k]
  BY <1>3 DEF With
<1>5. disk \in LangFiles /\ Loadable(files) /\ "common" \in DOMAIN disk
  BY <1>1, <1>3, LanguagesAssumption DEF LangInv
<1>6. kind # "common" => "common" \in DOMAIN langs
  <2> SUFFICES ASSUME kind # "common" PROVE "common" \in DOMAIN langs
    OBVIOUS
  <2>1. PICK at : at = (CHOOSE i \in DOMAIN Kinds : Kinds[i] = kind)
    OBVIOUS
  <2>2. DOMAIN Kinds = 1..6 /\ Kinds[1] = "common"
    BY DEF Kinds
  <2>3. \E i \in DOMAIN Kinds : Kinds[i] = kind
    <3>1. Kinds[1] = "common" /\ Kinds[2] = "admin" /\ Kinds[3] = "email" /\ Kinds[4] = "user"
          /\ Kinds[5] = "pwr" /\ Kinds[6] = "telegram"
      BY DEF Kinds
    <3>2. 1 \in 1..6 /\ 2 \in 1..6 /\ 3 \in 1..6 /\ 4 \in 1..6 /\ 5 \in 1..6 /\ 6 \in 1..6
      OBVIOUS
    <3> QED BY <2>2, <3>1, <3>2 DEF SixKinds
  <2>4. at \in 1..6 /\ Kinds[at] = kind
    BY <2>1, <2>2, <2>3
  <2>5. at # 1
    BY <2>2, <2>4
  <2>6. 1 \in 1..(at - 1)
    BY <2>4, <2>5
  <2> QED BY <1>5, <2>1, <2>2, <2>6 DEF LoadKind
<1>7. \A l \in DOMAIN all \ {English} : Promised(kind, files, cm, all, l)
  BY <1>2, <1>5, LoadPromises
<1>8. "common" \in DOMAIN langs'
  BY <1>4, <1>6
<1>9. ASSUME NEW k \in DOMAIN langs', NEW l \in DOMAIN langs'[k] \ {English}
      PROVE  Promised(k, disk[k], langs'["common"], langs'[k], l)
  <2>1. CASE k # kind
    <3>1. k \in DOMAIN langs /\ langs'[k] = langs[k]
      BY <1>4, <1>9, <2>1
    <3>2. langs'["common"] = langs["common"]
      BY <1>4, <3>1 DEF LangInv
    <3> QED BY <1>9, <3>1, <3>2 DEF LangInv
  <2>2. CASE k = kind /\ kind = "common"
    <3>1. Promised("common", files, cm, all, l)
      BY <1>4, <1>7, <1>9, <2>2
    <3> QED BY <1>1, <1>4, <2>2, <3>1, CommonAsksNone
  <2>3. CASE k = kind /\ kind # "common"
    <3>1. cm = langs'["common"]
      BY <1>4, <1>6, <2>3
    <3> QED BY <1>1, <1>4, <1>7, <1>9, <2>3, <3>1
  <2> QED BY <2>1, <2>2, <2>3
<1> QED BY <1>3, <1>4, <1>5, <1>8, <1>9 DEF LangInv

\* Loading a kind keeps what was promised (loadLang, storage.go:947).
LEMMA LangStep == LangInv /\ [LangNext]_langVars => LangInv'
<1> SUFFICES ASSUME LangInv, [LangNext]_langVars PROVE LangInv'
  OBVIOUS
<1>1. CASE UNCHANGED langVars
  <2>1. disk' = disk /\ langs' = langs
    BY <1>1 DEF langVars
  <2> QED BY <2>1 DEF LangInv
<1>2. CASE loadLangCommon
  BY <1>2, KindLoaded DEF loadLangCommon, SixKinds
<1>3. CASE loadLangAdmin
  BY <1>3, KindLoaded DEF loadLangAdmin, SixKinds
<1>4. CASE loadLangEmail
  BY <1>4, KindLoaded DEF loadLangEmail, SixKinds
<1>5. CASE loadLangUser
  BY <1>5, KindLoaded DEF loadLangUser, SixKinds
<1>6. CASE loadLangPWR
  BY <1>6, KindLoaded DEF loadLangPWR, SixKinds
<1>7. CASE loadLangTelegram
  BY <1>7, KindLoaded DEF loadLangTelegram, SixKinds
<1> QED BY <1>1, <1>2, <1>3, <1>4, <1>5, <1>6, <1>7 DEF LangNext

\* No language lacks what it was promised (storage.go:1088).
LEMMA LangPromise == LangInv => LanguagesFilled
<1> SUFFICES ASSUME LangInv, NEW kind \in DOMAIN langs, NEW l \in DOMAIN langs[kind] \ {English}
             PROVE  Filled(kind, disk[kind], langs[kind], l, Own(disk[kind], l))
  BY DEF LanguagesFilled
<1>1. PICK files, all, own : files = disk[kind] /\ all = langs[kind] /\ own = Own(files, l)
  OBVIOUS
<1>2. Promised(kind, files, langs["common"], all, l)
  BY <1>1 DEF LangInv
<1>3. Filled(kind, files, all, l, own)
  BY <1>1, <1>2 DEF Promised, Filled, WholeTexts, WholeForms, Keeps
<1> QED BY <1>1, <1>3

-----------------------------------------------------------------------------
\* No language lacks a text that English has (loadLang, storage.go:947), and values are
\* filled in wherever a text names them, and nowhere else (templateString, lang.go:173).
THEOREM TextsAreComplete == Spec => []TextsComplete
<1> DEFINE On == /\ part = "languages" => LangInv
                 /\ part = "texts" => text \in Seq(Letters)
<1>1. Init => On
  <2>1. Init => (part = "languages" => LangInit) /\ (part = "texts" => text = <<>>)
    BY DEF Init, TextInit
  <2>2. <<>> \in Seq(Letters)
    OBVIOUS
  <2> QED BY <2>1, <2>2, LangStart
<1>2. On /\ [Next]_vars => On'
  BY PartSteps, LangStep, TextStep
<1>3. On => TextsComplete
  BY LangPromise, TextsAreFilled DEF TextsComplete
<1> QED BY <1>1, <1>2, <1>3, PTL DEF Spec

=============================================================================
