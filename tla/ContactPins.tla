------------------------------ MODULE ContactPins ------------------------------
(***************************************************************************)
(* Linking chat accounts to Jellyfin accounts with PINs (telegram.go,      *)
(* discord.go, matrix.go, api-messages.go, api-userpage.go, api-users.go). *)
(*                                                                         *)
(* A PIN is shown on the sign-up form, on the page of a user, or to the    *)
(* administrator, and is sent to the bot, which moves it from the issued   *)
(* to the verified ones.  Matrix works the other way round: the bot sends  *)
(* the PIN to the chat account, and it is typed into the page.  The maps   *)
(* of PINs are shared by the bot and all handlers and are in memory only.  *)
(***************************************************************************)
EXTENDS Integers

CONSTANTS Handlers,     \* goroutines of requests that may run at the same time
          Users,        \* accounts there are at the beginning
          Visitors,     \* accounts that are signed up for
          Chats,        \* accounts at the messenger
          Pins,
          Form, Admin,  \* to whom a PIN may be shown, apart from users
          Blank,        \* a DiscordUser without an ID
          NoOne,        \* nobody, no account at the messenger
          Modes         \* configurations, see mode

Owner == Users \cup Visitors

\* How often the administrator steps in, preferences are edited, the process ends.
Bounds == [admin : Nat, edits : Nat, restarts : Nat]

\* unique is require_unique of the messenger; checks is what its UniqueRequired says: the
\* same, but for Matrix, which asks for that of Telegram.
Mode == [kind : {"telegram", "discord", "matrix"}, unique : BOOLEAN, checks : BOOLEAN,
         confirm : BOOLEAN, overlap : BOOLEAN, bounds : Bounds]

ASSUME PinsAssumption ==
    /\ NoOne \notin Chats \cup Owner /\ Blank \notin Chats \cup {NoOne}
    /\ Form # NoOne /\ Admin # NoOne
    /\ Modes \subseteq Mode
    /\ \A m \in Modes : m.kind # "matrix" => m.checks = m.unique

VARIABLES mode,      \* the messenger and its settings, email confirmation, whether
                     \* handlers and the bot overlap, and the bounds
          shown,     \* to whom each PIN was shown
          tokens,    \* issued PINs
          verified,  \* verified PINs
          users,     \* what the Discord bot knows of each chat account
          account,   \* accounts at Jellyfin
          linked,    \* stored links, by account
          keys,      \* sign-ups that await the confirmation of their email address
          worker,    \* what each request handler is doing
          budget,    \* what is left of the bounds
          told,      \* history: PINs whose sender was told of the success
          spent,     \* history: PINs that have linked, were refused, or lost in a restart
          uses,      \* history: accounts that each PIN has linked
          confirmed  \* history: chat accounts that have sent or been sent a live PIN

pins    == <<shown, tokens, verified, users>>
stored  == <<account, linked, keys>>
history == <<told, spent, uses, confirmed>>
vars    == <<mode, pins, stored, worker, budget, history>>

-----------------------------------------------------------------------------
Contact == Chats \cup {Blank}

\* for: the account a PIN was assigned to; chat: who was sent it, or has sent it.
Token == [there : BOOLEAN, over : BOOLEAN, for : Owner \cup {NoOne}, chat : Contact \cup {NoOne}]

NoToken == [there |-> FALSE, over |-> FALSE, for |-> NoOne, chat |-> NoOne]

Issued(for, chat) == [there |-> TRUE, over |-> FALSE, for |-> for, chat |-> chat]

Key == [who : Owner, pin : Pins, chat : Contact]

Worker == [pc : {"idle", "polled", "unique", "link", "forget", "check", "create", "attach", "edit"},
           who : Owner \cup {NoOne}, pin : Pins \cup {NoOne}, chat : Contact \cup {NoOne}]

Idle == [pc |-> "idle", who |-> NoOne, pin |-> NoOne, chat |-> NoOne]

\* The variables have their types, and a handler that goes on has a chat account to link.
TypeOK ==
    /\ mode \in Mode
    /\ shown \in [Pins -> Owner \cup {Form, Admin, NoOne}]
    /\ tokens \in [Pins -> Token] /\ verified \in [Pins -> Token]
    /\ users \in [Chats -> {"absent", "known", "blank"}]
    /\ account \in [Owner -> {"new", "there", "gone"}]
    /\ linked \in [Owner -> Contact \cup {NoOne}]
    /\ keys \subseteq Key
    /\ worker \in [Handlers -> Worker]
    /\ \A h \in Handlers : worker[h].pc \notin {"idle", "polled"} => worker[h].chat # NoOne
    /\ budget \in Bounds
    /\ told \subseteq Pins /\ spent \subseteq Pins
    /\ uses \in [Pins -> SUBSET Owner]
    /\ confirmed \subseteq Contact

Init ==
    /\ mode \in Modes
    /\ shown = [p \in Pins |-> NoOne]
    /\ tokens = [p \in Pins |-> NoToken] /\ verified = tokens
    /\ users = [c \in Chats |-> "absent"]
    /\ account = [u \in Owner |-> IF u \in Users THEN "there" ELSE "new"]
    /\ linked = [u \in Owner |-> NoOne]
    /\ keys = {}
    /\ worker = [h \in Handlers |-> Idle]
    /\ budget = mode.bounds
    /\ told = {} /\ spent = {} /\ confirmed = {}
    /\ uses = [p \in Pins |-> {}]

Spend(what) == budget[what] > 0 /\ budget' = [budget EXCEPT ![what] = @ - 1]

Quiet == \A h \in Handlers : worker[h].pc = "idle"

\* Handlers and the bot take turns, or do not.
MayBegin == mode.overlap \/ Quiet

Start(h, rec) == worker[h].pc = "idle" /\ MayBegin /\ worker' = [worker EXCEPT ![h] = rec]
Go(h, pc)     == worker' = [worker EXCEPT ![h].pc = pc]
End(h)        == worker' = [worker EXCEPT ![h] = Idle]

Bot == mode.kind # "matrix"

\* UserExists
Taken(chat) == \E u \in Owner : linked[u] = chat

-----------------------------------------------------------------------------
(* PINs are issued and sent.                                               *)

\* NewAuthToken, NewAssignedAuthToken: for the sign-up form (InviteProxy), for a user
\* (GetMyPIN), for the administrator (TelegramGetPin).
NewToken ==
    \E p \in Pins, to \in {u \in Owner : account[u] = "there"} \cup {Form, Admin} :
       /\ Bot /\ shown[p] = NoOne
       /\ to = Admin => mode.kind = "telegram"
       /\ shown' = [shown EXCEPT ![p] = to]
       /\ tokens' = [tokens EXCEPT ![p] = Issued(IF to \in Owner THEN to ELSE NoOne, NoOne)]
       /\ UNCHANGED <<mode, verified, users, stored, worker, budget, history>>

\* SendStart, for MatrixSendPIN and MatrixSendMyPIN.
SendStart ==
    \E p \in Pins, to \in {u \in Owner : account[u] = "there"} \cup {Form}, c \in Chats :
       /\ ~Bot /\ shown[p] = NoOne
       /\ ~(mode.unique /\ Taken(c))
       /\ shown' = [shown EXCEPT ![p] = to]
       /\ tokens' = [tokens EXCEPT ![p] = Issued(NoOne, c)]
       /\ told' = told \cup {p} /\ confirmed' = confirmed \cup {c}
       /\ UNCHANGED <<mode, verified, users, stored, worker, budget, spent, uses>>

\* VERIF_TOKEN_EXPIRY_SEC; PINs of Matrix do not expire.
PinExpires ==
    \E p \in Pins :
       /\ Bot /\ tokens[p].there /\ ~tokens[p].over
       /\ tokens' = [tokens EXCEPT ![p].over = TRUE]
       /\ UNCHANGED <<mode, shown, verified, users, stored, worker, budget, history>>

\* cmdStart, which keeps what MustGetUser finds ...
Greet ==
    \E c \in Chats :
       /\ mode.kind = "discord" /\ users[c] = "absent"
       /\ users' = [users EXCEPT ![c] = "known"]
       /\ UNCHANGED <<mode, shown, tokens, verified, stored, worker, budget, history>>

\* ... and cmdLang, which puts an empty user in the place of one that is not linked.
SetLang ==
    \E c \in Chats :
       /\ mode.kind = "discord"
       /\ users' = [users EXCEPT ![c] = IF Taken(c) THEN "known" ELSE "blank"]
       /\ Spend("edits")
       /\ UNCHANGED <<mode, shown, tokens, verified, stored, worker, history>>

\* The user of the chat account as the bot knows it.
Sender(c) == IF mode.kind = "telegram" \/ users[c] = "known" THEN c ELSE Blank

SendPin_AcceptsOver ==
    \E p \in Pins, c \in Chats :
       /\ MayBegin
       /\ Bot /\ tokens[p].there
       /\ verified' = [verified EXCEPT ![p] = Issued(tokens[p].for, Sender(c))]
       /\ told' = told \cup {p}
       /\ IF tokens[p].over THEN UNCHANGED confirmed ELSE confirmed' = confirmed \cup {Sender(c)}
       /\ tokens' = [tokens EXCEPT ![p] = NoToken]
       /\ UNCHANGED <<mode, shown, users, stored, worker, budget, spent, uses>>

\* commandPIN, cmdPIN
SendPin ==
    \E p \in Pins, c \in Chats :
       /\ MayBegin
       /\ Bot /\ tokens[p].there
       /\ IF tokens[p].over THEN UNCHANGED <<verified, told, confirmed>>
          ELSE /\ verified' = [verified EXCEPT ![p] = Issued(tokens[p].for, Sender(c))]
               /\ told' = told \cup {p}
               /\ confirmed' = confirmed \cup {Sender(c)}
       /\ tokens' = [tokens EXCEPT ![p] = NoToken]
       /\ UNCHANGED <<mode, shown, users, stored, worker, budget, spent, uses>>

-----------------------------------------------------------------------------
(* The page of a user.                                                     *)

Poll_ForAnyone(h) ==
    \E p \in Pins, u \in Owner :
       /\ Bot /\ account[u] = "there" /\ shown[p] = u
       /\ Start(h, [pc |-> "polled", who |-> u, pin |-> p,
                    chat |-> IF verified[p].there /\ verified[p].for = NoOne
                             THEN verified[p].chat ELSE NoOne])
       /\ UNCHANGED <<mode, pins, stored, budget, history>>

\* AssignedTokenVerified, AssignedUserVerified: the page a PIN is shown on asks for it
\* again and again ...
Poll(h) ==
    \E p \in Pins, u \in Owner :
       /\ Bot /\ account[u] = "there" /\ shown[p] = u
       /\ Start(h, [pc |-> "polled", who |-> u, pin |-> p,
                    chat |-> IF verified[p].there /\ verified[p].for = u
                             THEN verified[p].chat ELSE NoOne])
       /\ UNCHANGED <<mode, pins, stored, budget, history>>

Drop_IgnoresAnswer(h) ==
    /\ worker[h].pc = "polled"
    /\ verified' = [verified EXCEPT ![worker[h].pin] = NoToken]
    /\ Go(h, "unique")
    /\ UNCHANGED <<mode, shown, tokens, users, stored, budget, history>>

\* ... DeleteVerifiedToken, whatever the answer was ...
Drop(h) ==
    /\ worker[h].pc = "polled"
    /\ verified' = [verified EXCEPT ![worker[h].pin] = NoToken]
    /\ IF worker[h].chat = NoOne THEN End(h) ELSE Go(h, "unique")
    /\ UNCHANGED <<mode, shown, tokens, users, stored, budget, history>>

Unique_Skipped(h) ==
    /\ worker[h].pc = "unique"
    /\ Go(h, "link")
    /\ UNCHANGED <<mode, pins, stored, budget, history>>

\* ... MyTelegramVerifiedInvite, MyDiscordVerifiedInvite refuse a chat account in use ...
Unique(h) ==
    /\ worker[h].pc = "unique"
    /\ IF mode.unique /\ Taken(worker[h].chat)
       THEN End(h) /\ spent' = spent \cup {worker[h].pin}
       ELSE Go(h, "link") /\ UNCHANGED spent
    /\ UNCHANGED <<mode, pins, stored, budget, told, uses, confirmed>>

Used(p, u) == /\ uses' = [uses EXCEPT ![p] = @ \cup {u}]
              /\ spent' = spent \cup {p}

\* ... and store the link.
Link(h) ==
    /\ worker[h].pc = "link"
    /\ linked' = [linked EXCEPT ![worker[h].who] = worker[h].chat]
    /\ Used(worker[h].pin, worker[h].who)
    /\ IF Bot THEN End(h) ELSE Go(h, "forget")
    /\ UNCHANGED <<mode, pins, account, keys, budget, told, confirmed>>

\* MatrixCheckMyPIN links first ...
CheckMyPin(h) ==
    \E p \in Pins, u \in Owner :
       /\ ~Bot /\ account[u] = "there" /\ shown[p] = u /\ tokens[p].there
       /\ Start(h, [pc |-> "link", who |-> u, pin |-> p, chat |-> tokens[p].chat])
       /\ UNCHANGED <<mode, pins, stored, budget, history>>

\* ... and deletes the PIN then.
ForgetPin(h) ==
    /\ worker[h].pc = "forget"
    /\ tokens' = [tokens EXCEPT ![worker[h].pin] = NoToken]
    /\ End(h)
    /\ UNCHANGED <<mode, shown, verified, users, stored, budget, history>>

-----------------------------------------------------------------------------
(* The sign-up.                                                            *)

\* DiscordVerifiedInvite; its counterpart for Telegram deletes the PIN of Discord.
RefuseOnForm ==
    \E p \in Pins :
       /\ MayBegin
       /\ mode.kind = "discord" /\ mode.unique
       /\ shown[p] = Form /\ verified[p].there /\ Taken(verified[p].chat)
       /\ verified' = [verified EXCEPT ![p] = NoToken]
       /\ spent' = spent \cup {p}
       /\ UNCHANGED <<mode, shown, tokens, users, stored, worker, budget, told, uses, confirmed>>

\* Where UserVerified looks.
Held == IF Bot THEN verified ELSE tokens

\* NewUserFromInvite asks for the PIN ...
SignUp(h) ==
    \E p \in Pins, v \in Visitors :
       /\ account[v] = "new" /\ shown[p] = Form /\ Held[p].there
       /\ Start(h, [pc |-> "check", who |-> v, pin |-> p, chat |-> Held[p].chat])
       /\ UNCHANGED <<mode, pins, stored, budget, history>>

\* ... whether the chat account is in use, and for a confirmation of the email address ...
Check(h) ==
    /\ worker[h].pc = "check"
    /\ \/ mode.checks /\ Taken(worker[h].chat) /\ End(h) /\ UNCHANGED keys
       \/ /\ ~(mode.checks /\ Taken(worker[h].chat))
          /\ IF mode.confirm
             THEN /\ keys' = keys \cup {[who |-> worker[h].who, pin |-> worker[h].pin,
                                         chat |-> worker[h].chat]}
                  /\ End(h)
             ELSE Go(h, "create") /\ UNCHANGED keys
    /\ UNCHANGED <<mode, pins, account, linked, budget, history>>

\* ... which is a request of its own, NewUserFromConfirmationKey ...
OpenLink(h) ==
    \E k \in keys :
       /\ Start(h, [pc |-> "create", who |-> k.who, pin |-> k.pin, chat |-> k.chat])
       /\ UNCHANGED <<mode, pins, stored, budget, history>>

\* ... NewUserPostVerification creates the account, unless the name is in use ...
Create(h) ==
    /\ worker[h].pc = "create"
    /\ \/ /\ account[worker[h].who] = "new"
          /\ account' = [account EXCEPT ![worker[h].who] = "there"]
          /\ Go(h, "attach")
       \/ account[worker[h].who] # "new" /\ End(h) /\ UNCHANGED account
    /\ UNCHANGED <<mode, pins, linked, keys, budget, history>>

Attach_KeepsPin(h) ==
    /\ worker[h].pc = "attach"
    /\ UNCHANGED <<verified, tokens>>
    /\ linked' = [linked EXCEPT ![worker[h].who] = worker[h].chat]
    /\ Used(worker[h].pin, worker[h].who)
    /\ keys' = keys \ {[who |-> worker[h].who, pin |-> worker[h].pin, chat |-> worker[h].chat]}
    /\ End(h)
    /\ UNCHANGED <<mode, shown, users, account, budget, told, confirmed>>

\* ... and PostNewUserFromInvite deletes the PIN and stores the link.
Attach(h) ==
    /\ worker[h].pc = "attach"
    /\ IF Bot THEN verified' = [verified EXCEPT ![worker[h].pin] = NoToken] /\ UNCHANGED tokens
              ELSE tokens' = [tokens EXCEPT ![worker[h].pin] = NoToken] /\ UNCHANGED verified
    /\ linked' = [linked EXCEPT ![worker[h].who] = worker[h].chat]
    /\ Used(worker[h].pin, worker[h].who)
    /\ keys' = keys \ {[who |-> worker[h].who, pin |-> worker[h].pin, chat |-> worker[h].chat]}
    /\ End(h)
    /\ UNCHANGED <<mode, shown, users, account, budget, told, confirmed>>

-----------------------------------------------------------------------------
(* The administrator, preferences, housekeeping.                           *)

\* TelegramAddUser
AddUser ==
    \E p \in Pins, u \in Owner :
       /\ MayBegin
       /\ shown[p] = Admin /\ verified[p].there /\ account[u] = "there"
       /\ verified' = [verified EXCEPT ![p] = NoToken]
       /\ linked' = [linked EXCEPT ![u] = verified[p].chat]
       /\ Used(p, u)
       /\ Spend("admin")
       /\ UNCHANGED <<mode, shown, tokens, users, account, keys, worker, told, confirmed>>

\* DiscordConnect, MatrixConnect: without a PIN.
Connect ==
    \E u \in Owner, c \in Chats :
       /\ MayBegin
       /\ mode.kind # "telegram" /\ account[u] = "there"
       /\ linked' = [linked EXCEPT ![u] = c]
       /\ confirmed' = confirmed \cup {c}
       /\ Spend("admin")
       /\ UNCHANGED <<mode, pins, account, keys, worker, told, spent, uses>>

\* UnlinkTelegram, UnlinkMyTelegram and their like; the user deleted in Jellyfin.
UnlinkOrDelete ==
    \E u \in Owner :
       /\ MayBegin
       /\ account[u] = "there"
       /\ \/ linked[u] # NoOne /\ linked' = [linked EXCEPT ![u] = NoOne] /\ UNCHANGED account
          \/ account' = [account EXCEPT ![u] = "gone"] /\ UNCHANGED linked
       /\ Spend("admin")
       /\ UNCHANGED <<mode, pins, keys, worker, history>>

\* setContactPreferences, commandLang read the link ...
ReadLink(h) ==
    \E u \in Owner :
       /\ linked[u] # NoOne
       /\ Start(h, [pc |-> "edit", who |-> u, pin |-> NoOne, chat |-> linked[u]])
       /\ Spend("edits")
       /\ UNCHANGED <<mode, pins, stored, history>>

\* ... and store it with another preference or language.
StoreLink(h) ==
    /\ worker[h].pc = "edit"
    /\ linked' = [linked EXCEPT ![worker[h].who] = worker[h].chat]
    /\ End(h)
    /\ UNCHANGED <<mode, pins, account, keys, budget, history>>

\* clearDiscord, clearMatrix, clearTelegram
Housekeep ==
    \E u \in Owner :
       /\ MayBegin /\ mode.unique
       /\ account[u] = "gone" /\ linked[u] # NoOne
       /\ linked' = [linked EXCEPT ![u] = NoOne]
       /\ UNCHANGED <<mode, pins, account, keys, worker, budget, history>>

\* The process ends and starts again: the Discord bot knows the linked users.
Restart ==
    /\ Spend("restarts")
    /\ tokens' = [p \in Pins |-> NoToken] /\ verified' = tokens'
    /\ users' = [c \in Chats |-> IF mode.kind = "discord" /\ Taken(c) THEN "known" ELSE "absent"]
    /\ keys' = {}
    /\ worker' = [h \in Handlers |-> Idle]
    /\ spent' = spent \cup told
    /\ UNCHANGED <<mode, shown, account, linked, told, uses, confirmed>>

-----------------------------------------------------------------------------
Goes(h) ==
    \/ Drop(h) \/ Unique(h) \/ Link(h) \/ ForgetPin(h)
    \/ Check(h) \/ Create(h) \/ Attach(h) \/ StoreLink(h)

Begins(h) == Poll(h) \/ CheckMyPin(h) \/ SignUp(h) \/ OpenLink(h) \/ ReadLink(h)

Next ==
    \/ NewToken \/ SendStart \/ PinExpires \/ Greet \/ SetLang \/ SendPin
    \/ RefuseOnForm \/ AddUser \/ Connect \/ UnlinkOrDelete \/ Housekeep \/ Restart
    \/ \E h \in Handlers : Begins(h) \/ Goes(h)

Spec == Init /\ [][Next]_vars

-----------------------------------------------------------------------------
(* Properties.                                                             *)

Serial == ~mode.overlap

\* An account is linked only to a chat account that has sent a PIN in time, or was sent
\* one by Matrix, or the administrator has named; whatever is kept in the maps of PINs,
\* the awaited confirmations and the copies of handlers that store late.
LinkedConfirmed == \A u \in Owner : linked[u] # NoOne => linked[u] \in confirmed

\* One PIN links one account, with handlers one after the other and no confirmation
\* of email addresses.
UsedOnce ==
    Serial /\ ~mode.confirm => \A p \in Pins : \A u, v \in uses[p] : u = v

\* "Disables using the same user on multiple Jellyfin accounts" (require_unique), for
\* the messengers with a bot, handlers one after the other, no confirmation of email
\* addresses, and an administrator who keeps out of it.
UniqueKept ==
    Serial /\ Bot /\ mode.unique /\ ~mode.confirm /\ budget.admin = mode.bounds.admin
      => \A u, v \in Owner : linked[u] = linked[v] /\ linked[u] # NoOne => u = v

\* With handlers and the bot one after the other, whoever was told of the success finds
\* the PIN verified until it links, is refused, or the process ends.
NothingLost ==
    Serial /\ Quiet => \A p \in told : Held[p].there \/ p \in spent

=============================================================================
