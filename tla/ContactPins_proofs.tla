-------------------------- MODULE ContactPins_proofs --------------------------
(***************************************************************************)
(* Proofs about ContactPins, for any number of handlers, accounts, chat    *)
(* accounts and PINs and every configuration: the variables have their     *)
(* types, only chat accounts that were confirmed are linked, and, with     *)
(* handlers one after the other, a PIN links one account, a chat account   *)
(* is linked once where that is required, and no verified PIN is lost.     *)
(***************************************************************************)
EXTENDS ContactPins, TLAPS

\* Everything that may come to be stored as a link has been confirmed.
Confirmed ==
    /\ \A p \in Pins : verified[p].there => verified[p].chat \in confirmed
    /\ ~Bot => \A p \in Pins : tokens[p].there => tokens[p].chat \in confirmed
    /\ \A k \in keys : k.chat \in confirmed
    /\ \A h \in Handlers : worker[h].chat # NoOne => worker[h].chat \in confirmed
    /\ LinkedConfirmed

HasPin(h)  == worker[h].pc \in {"polled", "unique", "link", "forget", "check", "create", "attach"}
Linking(h) == \/ worker[h].pc \in {"unique", "link", "check", "create", "attach"}
              \/ worker[h].pc = "polled" /\ worker[h].chat # NoOne

\* The life of a PIN: it is issued once, and is verified or awaits that, not both.
PinsInOrder ==
    /\ \A p \in Pins : ~(verified[p].there /\ tokens[p].there)
    /\ ~Bot => \A p \in Pins : ~verified[p].there
    /\ \A p \in Pins : shown[p] = NoOne => uses[p] = {} /\ ~tokens[p].there /\ ~verified[p].there
    /\ \A p \in Pins : Bot /\ shown[p] \in Owner =>
          /\ tokens[p].there => tokens[p].for = shown[p]
          /\ verified[p].there => verified[p].for = shown[p]
    /\ ~mode.confirm => keys = {}
    /\ \A k \in keys : shown[k.pin] # NoOne /\ (Bot => ~tokens[k.pin].there)
    /\ \A h \in Handlers :
          /\ worker[h].pc # "idle" => worker[h].who \in Owner
          /\ HasPin(h) => worker[h].pin \in Pins /\ shown[worker[h].pin] # NoOne
          /\ Linking(h) /\ Bot => ~tokens[worker[h].pin].there
          /\ worker[h].pc \in {"polled", "unique"} => Bot
          /\ worker[h].pc \in {"unique", "link"} => ~verified[worker[h].pin].there
          /\ worker[h].pc = "forget" => ~Bot /\ worker[h].pin \in spent

\* Handlers take turns.
Alone == Serial => \A h, g \in Handlers : worker[h].pc # "idle" /\ worker[g].pc # "idle" => h = g

\* A PIN that has linked is not to be found any more, but for the one just being deleted.
Once ==
    Serial /\ ~mode.confirm =>
        /\ \A p \in Pins : uses[p] # {} =>
              /\ ~verified[p].there
              /\ tokens[p].there =>
                    \E h \in Handlers : worker[h].pc = "forget" /\ worker[h].pin = p
        /\ \A h \in Handlers : Linking(h) => uses[worker[h].pin] = {}

\* The administrator keeps out of it.
Undisturbed == Serial /\ Bot /\ mode.unique /\ ~mode.confirm /\ budget.admin = mode.bounds.admin

\* A chat account that was found not in use is still not in use, and a link that is stored
\* late is the one that is there.
StillFree ==
    /\ budget.admin <= mode.bounds.admin
    /\ Bot => mode.checks = mode.unique
    /\ Undisturbed => \A h \in Handlers :
          /\ worker[h].pc \in {"link", "create", "attach"} => ~Taken(worker[h].chat)
          /\ worker[h].pc = "edit" => linked[worker[h].who] = worker[h].chat

\* A PIN whose sender was told so is verified, spent, or with the handler that links.
Accounted ==
    Serial =>
        /\ \A p \in told : \/ Held[p].there \/ p \in spent
                           \/ \E h \in Handlers :
                                 worker[h].pc \in {"unique", "link"} /\ worker[h].pin = p
        /\ \A h \in Handlers :
              worker[h].pc = "polled" /\ worker[h].chat = NoOne => ~verified[worker[h].pin].there

-----------------------------------------------------------------------------
(* Types.                                                                  *)

WorkerOK == /\ worker \in [Handlers -> Worker]
            /\ \A h \in Handlers :
                  worker[h].pc \notin {"idle", "polled"} => worker[h].chat # NoOne

PcSet == {"idle", "polled", "unique", "link", "forget", "check", "create", "attach", "edit"}

\* What a handler becomes: a new one, one that goes on, one that has ended.
LEMMA StartType ==
    ASSUME TypeOK, NEW h \in Handlers, NEW rec \in Worker,
           rec.pc \notin {"idle", "polled"} => rec.chat # NoOne, Start(h, rec)
    PROVE WorkerOK'
  BY DEF TypeOK, WorkerOK, Start

LEMMA GoType ==
    ASSUME TypeOK, NEW h \in Handlers, NEW pc \in PcSet, worker[h].chat # NoOne, Go(h, pc)
    PROVE WorkerOK'
<1>1. [worker[h] EXCEPT !.pc = pc] \in Worker
  BY DEF TypeOK, Worker, PcSet
<1>2. worker' = [worker EXCEPT ![h] = [worker[h] EXCEPT !.pc = pc]]
  BY DEF Go
<1>3. [worker[h] EXCEPT !.pc = pc].chat = worker[h].chat
  BY DEF TypeOK, Worker
<1>4. QED
  BY <1>1, <1>2, <1>3 DEF TypeOK, WorkerOK

LEMMA EndType ==
    ASSUME TypeOK, NEW h \in Handlers, End(h)
    PROVE WorkerOK'
<1>1. Idle \in Worker /\ Idle.pc = "idle"
  BY DEF Idle, Worker
<1>2. QED
  BY <1>1 DEF TypeOK, WorkerOK, End

\* Tokens and what is left of the bounds.
LEMMA TokenType ==
    ASSUME PinsAssumption, TypeOK
    PROVE /\ NoToken \in Token
          /\ \A r \in Token : [r EXCEPT !.over = TRUE] \in Token
          /\ \A p \in Pins : /\ tokens[p] \in Token /\ verified[p] \in Token
                             /\ tokens[p].for \in Owner \cup {NoOne}
          /\ \A f \in Owner \cup {NoOne}, c \in Contact \cup {NoOne} : Issued(f, c) \in Token
          /\ \A c \in Chats : Sender(c) \in Contact
  BY DEF NoToken, Token, Issued, TypeOK, Sender, Contact

LEMMA SpendType ==
    ASSUME TypeOK, NEW what \in {"admin", "edits", "restarts"}, Spend(what)
    PROVE budget' \in Bounds
<1>1. budget[what] - 1 \in Nat
  BY DEF TypeOK, Bounds, Spend
<1>2. \A n \in Nat : [budget EXCEPT ![what] = n] \in Bounds
  BY DEF TypeOK, Bounds
<1>3. QED
  BY <1>1, <1>2 DEF Spend

\* Whoever is to be linked is an account of the messenger.
LEMMA ContactFound ==
    ASSUME PinsAssumption, TypeOK, Confirmed
    PROVE /\ NoOne \notin Contact
          /\ \A p \in Pins : verified[p].there => verified[p].chat \in Contact
          /\ \A p \in Pins : ~Bot /\ tokens[p].there => tokens[p].chat \in Contact
          /\ \A k \in keys : k.chat \in Contact
          /\ \A u \in Owner : linked[u] # NoOne => linked[u] \in Contact
  BY DEF PinsAssumption, TypeOK, Confirmed, LinkedConfirmed, Contact

\* What a handler holds.
LEMMA HandlerType ==
    ASSUME TypeOK, PinsInOrder, NEW h \in Handlers
    PROVE /\ worker[h].chat \in Contact \cup {NoOne}
          /\ HasPin(h) => worker[h].pin \in Pins
          /\ worker[h].pc # "idle" => worker[h].who \in Owner
  BY DEF TypeOK, PinsInOrder, Worker

\* What becomes of the handlers.
LEMMA StartSays ==
    ASSUME TypeOK, NEW h \in Handlers, NEW rec, Start(h, rec)
    PROVE /\ worker[h].pc = "idle" /\ worker'[h] = rec
          /\ \A g \in Handlers \ {h} : worker'[g] = worker[g]
          /\ Serial => \A g \in Handlers : worker[g].pc = "idle"
  BY DEF TypeOK, Start, MayBegin, Quiet, Serial

LEMMA GoSays ==
    ASSUME TypeOK, NEW h \in Handlers, NEW pc, Go(h, pc)
    PROVE /\ worker'[h].pc = pc /\ worker'[h].who = worker[h].who
          /\ worker'[h].pin = worker[h].pin /\ worker'[h].chat = worker[h].chat
          /\ \A g \in Handlers \ {h} : worker'[g] = worker[g]
  BY DEF TypeOK, Go, Worker

LEMMA EndSays ==
    ASSUME TypeOK, NEW h \in Handlers, End(h)
    PROVE /\ worker'[h].pc = "idle" /\ worker'[h].who = NoOne
          /\ worker'[h].pin = NoOne /\ worker'[h].chat = NoOne
          /\ \A g \in Handlers \ {h} : worker'[g] = worker[g]
  BY DEF TypeOK, End, Idle

\* Every step keeps the types (telegram.go, discord.go, matrix.go).
LEMMA TypeStep ==
    ASSUME PinsAssumption, TypeOK, Confirmed, PinsInOrder, Next
    PROVE TypeOK'
<1>1. CASE NewToken
  BY <1>1 DEF NewToken, Issued, pins, stored, history, TypeOK, Mode, Bounds, Contact, Token, Key,
       Worker, Owner
<1>2. CASE SendStart
  BY <1>2 DEF SendStart, Issued, pins, stored, history, TypeOK, Mode, Bounds, Contact, Token, Key,
       Worker, Owner
<1>3. CASE PinExpires
  <2>1. tokens' \in [Pins -> Token]
    BY <1>3, TokenType DEF PinExpires, TypeOK
  <2>2. QED
    BY <1>3, <2>1 DEF PinExpires, pins, stored, history, TypeOK, WorkerOK
<1>4. CASE Greet
  BY <1>4 DEF Greet, pins, stored, history, TypeOK, Mode, Bounds, Contact, Token, Key, Worker,
       Owner
<1>5. CASE SetLang
  <2>1. budget' \in Bounds
    BY <1>5, SpendType DEF SetLang
  <2>2. users' \in [Chats -> {"absent", "known", "blank"}]
    BY <1>5 DEF SetLang, TypeOK
  <2>3. QED
    BY <1>5, <2>1, <2>2 DEF SetLang, stored, history, TypeOK
<1>6. CASE SendPin
  <2>1. tokens' \in [Pins -> Token]
    BY <1>6, TokenType DEF SendPin, TypeOK
  <2>2. verified' \in [Pins -> Token] /\ told' \subseteq Pins /\ confirmed' \subseteq Contact
    BY <1>6, TokenType DEF SendPin, TypeOK
  <2>3. QED
    BY <1>6, <2>1, <2>2 DEF SendPin, pins, stored, history, TypeOK, WorkerOK
<1>7. CASE RefuseOnForm
  BY <1>7 DEF RefuseOnForm, NoToken, pins, stored, history, TypeOK, Mode, Bounds, Contact, Token,
       Key, Worker, Owner
<1>8. CASE AddUser
  <2>1. budget' \in Bounds
    BY <1>8, SpendType DEF AddUser
  <2>2. PICK p \in Pins, u \in Owner :
            /\ verified[p].there
            /\ verified' = [verified EXCEPT ![p] = NoToken]
            /\ linked' = [linked EXCEPT ![u] = verified[p].chat]
            /\ uses' = [uses EXCEPT ![p] = @ \cup {u}] /\ spent' = spent \cup {p}
    BY <1>8 DEF AddUser, Used
  <2>3. verified' \in [Pins -> Token]
    BY <2>2, TokenType DEF TypeOK
  <2>4. linked' \in [Owner -> Contact \cup {NoOne}]
    BY <2>2, ContactFound DEF TypeOK
  <2>5. uses' \in [Pins -> SUBSET Owner] /\ spent' \subseteq Pins
    BY <2>2 DEF TypeOK
  <2>6. QED
    BY <1>8, <2>1, <2>3, <2>4, <2>5 DEF AddUser, TypeOK
<1>9. CASE Connect
  <2>1. budget' \in Bounds
    BY <1>9, SpendType DEF Connect
  <2>2. linked' \in [Owner -> Contact \cup {NoOne}] /\ confirmed' \subseteq Contact
    BY <1>9 DEF Connect, TypeOK, Contact
  <2>3. QED
    BY <1>9, <2>1, <2>2 DEF Connect, pins, TypeOK
<1>10. CASE UnlinkOrDelete
  <2>1. budget' \in Bounds
    BY <1>10, SpendType DEF UnlinkOrDelete
  <2>2. QED
    BY <1>10, <2>1 DEF UnlinkOrDelete, pins, stored, history, TypeOK, WorkerOK
<1>11. CASE Housekeep
  BY <1>11 DEF Housekeep, pins, stored, history, TypeOK, Mode, Bounds, Contact, Token, Key,
       Worker, Owner
<1>12. CASE Restart
  <2>1. budget' \in Bounds
    BY <1>12, SpendType DEF Restart
  <2>2. WorkerOK'
    BY <1>12 DEF Restart, WorkerOK, Worker, Idle
  <2>3. QED
    BY <1>12, <2>1, <2>2, TokenType DEF Restart, pins, stored, history, TypeOK, WorkerOK, Taken
<1>13. ASSUME NEW h \in Handlers, Poll(h) PROVE TypeOK'
  BY <1>13 DEF Poll, Start, pins, stored, history, TypeOK, Mode, Bounds, Contact, Token, Key,
       Worker, Owner
<1>14. ASSUME NEW h \in Handlers, CheckMyPin(h) PROVE TypeOK'
  <2>1. PICK p \in Pins, u \in Owner : /\ ~Bot /\ tokens[p].there
            /\ Start(h, [pc |-> "link", who |-> u, pin |-> p, chat |-> tokens[p].chat])
    BY <1>14 DEF CheckMyPin
  <2>2. WorkerOK'
    BY <2>1, ContactFound, StartType DEF Worker
  <2>3. QED
    BY <1>14, <2>2 DEF CheckMyPin, pins, stored, history, TypeOK, WorkerOK
<1>15. ASSUME NEW h \in Handlers, SignUp(h) PROVE TypeOK'
  <2>1. PICK p \in Pins, v \in Visitors : /\ Held[p].there
            /\ Start(h, [pc |-> "check", who |-> v, pin |-> p, chat |-> Held[p].chat])
    BY <1>15 DEF SignUp
  <2>2. WorkerOK'
    BY <2>1, ContactFound, StartType DEF Worker, Held, Owner
  <2>3. QED
    BY <1>15, <2>2 DEF SignUp, pins, stored, history, TypeOK, WorkerOK
<1>16. ASSUME NEW h \in Handlers, OpenLink(h) PROVE TypeOK'
  BY <1>16 DEF OpenLink, Start, pins, stored, history, TypeOK, Mode, Bounds, Contact, Token, Key,
       Worker, Owner
<1>17. ASSUME NEW h \in Handlers, ReadLink(h) PROVE TypeOK'
  <2>1. PICK u \in Owner : /\ linked[u] # NoOne
            /\ Start(h, [pc |-> "edit", who |-> u, pin |-> NoOne, chat |-> linked[u]])
    BY <1>17 DEF ReadLink
  <2>2. [pc |-> "edit", who |-> u, pin |-> NoOne, chat |-> linked[u]] \in Worker
    BY DEF TypeOK, Worker
  <2>3. WorkerOK'
    BY <2>1, <2>2, StartType DEF Worker
  <2>4. budget' \in Bounds
    BY <1>17, SpendType DEF ReadLink
  <2>5. QED
    BY <1>17, <2>3, <2>4 DEF ReadLink, pins, stored, history, TypeOK, WorkerOK
<1>18. ASSUME NEW h \in Handlers, Drop(h) PROVE TypeOK'
  <2>1. WorkerOK'
    BY <1>18, GoType, EndType DEF Drop, TypeOK, PcSet
  <2>2. verified' \in [Pins -> Token]
    BY <1>18, TokenType DEF Drop, TypeOK
  <2>3. QED
    BY <1>18, <2>1, <2>2 DEF Drop, pins, stored, history, TypeOK, WorkerOK
<1>19. ASSUME NEW h \in Handlers, Unique(h) PROVE TypeOK'
  <2>1. WorkerOK'
    BY <1>19, GoType, EndType DEF Unique, TypeOK, PcSet
  <2>2. spent' \subseteq Pins
    BY <1>19, HandlerType DEF Unique, TypeOK, HasPin
  <2>3. QED
    BY <1>19, <2>1, <2>2 DEF Unique, pins, stored, history, TypeOK, WorkerOK
<1>20. ASSUME NEW h \in Handlers, Link(h) PROVE TypeOK'
  <2>1. WorkerOK'
    BY <1>20, GoType, EndType DEF Link, TypeOK, PcSet
  <2>2. uses' \in [Pins -> SUBSET Owner] /\ spent' \subseteq Pins
    BY <1>20, HandlerType DEF Link, TypeOK, Used, HasPin
  <2>3. linked' \in [Owner -> Contact \cup {NoOne}]
    BY <1>20, HandlerType DEF Link, TypeOK
  <2>4. QED
    BY <1>20, <2>1, <2>2, <2>3 DEF Link, pins, stored, history, TypeOK, WorkerOK
<1>21. ASSUME NEW h \in Handlers, ForgetPin(h) PROVE TypeOK'
  BY <1>21 DEF ForgetPin, End, Idle, NoToken, pins, stored, history, TypeOK, Mode, Bounds,
       Contact, Token, Key, Worker, Owner
<1>22. ASSUME NEW h \in Handlers, Check(h) PROVE TypeOK'
  <2>1. WorkerOK'
    BY <1>22, GoType, EndType DEF Check, TypeOK, PcSet
  <2>2. keys' \subseteq Key
    <3>1. HasPin(h) /\ worker[h].chat # NoOne
      BY <1>22 DEF Check, HasPin, TypeOK
    <3>2. [who |-> worker[h].who, pin |-> worker[h].pin, chat |-> worker[h].chat] \in Key
      BY <1>22, <3>1, HandlerType DEF Check, Key
    <3>3. QED
      BY <1>22, <3>2 DEF Check, TypeOK
  <2>3. QED
    BY <1>22, <2>1, <2>2 DEF Check, pins, stored, history, TypeOK, WorkerOK
<1>23. ASSUME NEW h \in Handlers, Create(h) PROVE TypeOK'
  <2>1. WorkerOK'
    BY <1>23, GoType, EndType DEF Create, TypeOK, PcSet
  <2>2. QED
    BY <1>23, <2>1 DEF Create, pins, stored, history, TypeOK, WorkerOK
<1>24. ASSUME NEW h \in Handlers, Attach(h) PROVE TypeOK'
  <2>1. WorkerOK'
    BY <1>24, GoType, EndType DEF Attach, TypeOK, PcSet
  <2>2. uses' \in [Pins -> SUBSET Owner] /\ spent' \subseteq Pins
    BY <1>24, HandlerType DEF Attach, TypeOK, Used, HasPin
  <2>3. linked' \in [Owner -> Contact \cup {NoOne}]
    BY <1>24, HandlerType DEF Attach, TypeOK
  <2>4. /\ verified' \in [Pins -> Token] /\ tokens' \in [Pins -> Token]
        /\ keys' \subseteq Key
    BY <1>24, TokenType DEF Attach, TypeOK
  <2>5. QED
    BY <1>24, <2>1, <2>2, <2>3, <2>4 DEF Attach, pins, stored, history, TypeOK, WorkerOK
<1>25. ASSUME NEW h \in Handlers, StoreLink(h) PROVE TypeOK'
  BY <1>25 DEF StoreLink, End, Idle, pins, stored, history, TypeOK, Mode, Bounds, Contact, Token,
       Key, Worker, Owner
<1>26. QED
  BY <1>1, <1>2, <1>3, <1>4, <1>5, <1>6, <1>7, <1>8, <1>9, <1>10, <1>11, <1>12, <1>13, <1>14,
       <1>15, <1>16, <1>17, <1>18, <1>19, <1>20, <1>21, <1>22, <1>23, <1>24, <1>25 DEF Next,
       Begins, Goes

\* Every step links, or prepares to link, confirmed chat accounts only
\* (PostNewUserFromInvite, api-users.go:292).
LEMMA ConfirmedStep ==
    ASSUME PinsAssumption, TypeOK, Confirmed, PinsInOrder, Next
    PROVE Confirmed'
<1>a. /\ tokens \in [Pins -> Token] /\ verified \in [Pins -> Token]
      /\ shown \in [Pins -> Owner \cup {Form, Admin, NoOne}]
      /\ linked \in [Owner -> Contact \cup {NoOne}] /\ uses \in [Pins -> SUBSET Owner]
      /\ account \in [Owner -> {"new", "there", "gone"}]
      /\ \A p \in Pins : NoToken.there = FALSE /\ NoToken.for = NoOne
  BY DEF TypeOK, NoToken
<1>1. CASE NewToken
  BY <1>1, <1>a DEF NewToken, Issued, pins, stored, history, Confirmed, LinkedConfirmed, Bot,
       NoToken
<1>2. CASE SendStart
  BY <1>2, <1>a DEF SendStart, Issued, pins, stored, history, Confirmed, LinkedConfirmed, Bot,
       NoToken
<1>3. CASE PinExpires
  BY <1>3, <1>a DEF PinExpires, pins, stored, history, Confirmed, LinkedConfirmed, Bot, NoToken
<1>4. CASE Greet
  BY <1>4, <1>a DEF Greet, pins, stored, history, Confirmed, LinkedConfirmed, Bot, NoToken
<1>5. CASE SetLang
  BY <1>5, <1>a DEF SetLang, Spend, pins, stored, history, Confirmed, LinkedConfirmed, Bot,
       NoToken
<1>6. CASE SendPin
  BY <1>6, <1>a DEF SendPin, Issued, Sender, NoToken, pins, stored, history, Confirmed,
       LinkedConfirmed, Bot
<1>7. CASE RefuseOnForm
  BY <1>7, <1>a DEF RefuseOnForm, NoToken, pins, stored, history, Confirmed, LinkedConfirmed, Bot
<1>8. CASE AddUser
  BY <1>8, <1>a DEF AddUser, Used, Spend, NoToken, pins, stored, history, Confirmed,
       LinkedConfirmed, Bot
<1>9. CASE Connect
  BY <1>9, <1>a DEF Connect, Spend, pins, stored, history, Confirmed, LinkedConfirmed, Bot,
       NoToken
<1>10. CASE UnlinkOrDelete
  BY <1>10, <1>a DEF UnlinkOrDelete, Spend, pins, stored, history, Confirmed, LinkedConfirmed,
       Bot, NoToken
<1>11. CASE Housekeep
  BY <1>11, <1>a DEF Housekeep, pins, stored, history, Confirmed, LinkedConfirmed, Bot, NoToken
<1>12. CASE Restart
  BY <1>12, <1>a DEF Restart, Spend, Idle, NoToken, pins, stored, history, Confirmed,
       LinkedConfirmed, Bot
<1>13. ASSUME NEW h \in Handlers, Poll(h) PROVE Confirmed'
  BY <1>13, <1>a, StartSays, HandlerType DEF Poll, pins, stored, history, Confirmed,
       LinkedConfirmed, Bot, NoToken
<1>14. ASSUME NEW h \in Handlers, CheckMyPin(h) PROVE Confirmed'
  BY <1>14, <1>a, StartSays, HandlerType DEF CheckMyPin, pins, stored, history, Confirmed,
       LinkedConfirmed, Bot, NoToken
<1>15. ASSUME NEW h \in Handlers, SignUp(h) PROVE Confirmed'
  BY <1>15, <1>a, StartSays, HandlerType DEF SignUp, Held, pins, stored, history, Confirmed,
       LinkedConfirmed, Bot, NoToken
<1>16. ASSUME NEW h \in Handlers, OpenLink(h) PROVE Confirmed'
  BY <1>16, <1>a, StartSays, HandlerType DEF OpenLink, pins, stored, history, Confirmed,
       LinkedConfirmed, Bot, NoToken
<1>17. ASSUME NEW h \in Handlers, ReadLink(h) PROVE Confirmed'
  <2>1. PICK u \in Owner : /\ linked[u] # NoOne
            /\ Start(h, [pc |-> "edit", who |-> u, pin |-> NoOne, chat |-> linked[u]])
    BY <1>17 DEF ReadLink
  <2>2. /\ worker'[h].pc = "edit" /\ worker'[h].chat = linked[u] /\ worker'[h].who = u
        /\ worker'[h].pin = NoOne
    BY <2>1, StartSays
  <2>3. \A g \in Handlers \ {h} : worker'[g] = worker[g]
    BY <2>1, StartSays
  <2>4. QED
    BY <1>17, <1>a, <2>1, <2>2, <2>3 DEF ReadLink, Confirmed, LinkedConfirmed, Bot, pins, stored,
      history
<1>18. ASSUME NEW h \in Handlers, Drop(h) PROVE Confirmed'
  BY <1>18, <1>a, GoSays, EndSays, HandlerType DEF Drop, NoToken, pins, stored, history,
       Confirmed, LinkedConfirmed, Bot
<1>19. ASSUME NEW h \in Handlers, Unique(h) PROVE Confirmed'
  BY <1>19, <1>a, GoSays, EndSays, HandlerType DEF Unique, pins, stored, history, Confirmed,
       LinkedConfirmed, Bot, NoToken
<1>20. ASSUME NEW h \in Handlers, Link(h) PROVE Confirmed'
  BY <1>20, <1>a, GoSays, EndSays, HandlerType DEF Link, Used, pins, stored, history, Confirmed,
       LinkedConfirmed, Bot, NoToken
<1>21. ASSUME NEW h \in Handlers, ForgetPin(h) PROVE Confirmed'
  BY <1>21, <1>a, EndSays, HandlerType DEF ForgetPin, NoToken, pins, stored, history, Confirmed,
       LinkedConfirmed, Bot
<1>22. ASSUME NEW h \in Handlers, Check(h) PROVE Confirmed'
  <2>1. worker[h].chat \in confirmed
    BY <1>22 DEF Check, TypeOK, Confirmed
  <2>2. \A g \in Handlers : worker'[g].chat # NoOne => worker'[g].chat \in confirmed
    BY <1>22, GoSays, EndSays DEF Check, Confirmed
  <2>3. \A k \in keys' : k.chat \in confirmed
    BY <1>22, <2>1 DEF Check, Confirmed
  <2>4. QED
    BY <1>22, <2>2, <2>3 DEF Check, Confirmed, LinkedConfirmed, Bot, pins, history
<1>23. ASSUME NEW h \in Handlers, Create(h) PROVE Confirmed'
  BY <1>23, <1>a, GoSays, EndSays, HandlerType DEF Create, pins, stored, history, Confirmed,
       LinkedConfirmed, Bot, NoToken
<1>24. ASSUME NEW h \in Handlers, Attach(h) PROVE Confirmed'
  BY <1>24, <1>a, EndSays, HandlerType DEF Attach, Used, NoToken, pins, stored, history,
       Confirmed, LinkedConfirmed, Bot
<1>25. ASSUME NEW h \in Handlers, StoreLink(h) PROVE Confirmed'
  BY <1>25, <1>a, EndSays, HandlerType DEF StoreLink, pins, stored, history, Confirmed,
       LinkedConfirmed, Bot, NoToken
<1>26. QED
  BY <1>1, <1>2, <1>3, <1>4, <1>5, <1>6, <1>7, <1>8, <1>9, <1>10, <1>11, <1>12, <1>13, <1>14,
       <1>15, <1>16, <1>17, <1>18, <1>19, <1>20, <1>21, <1>22, <1>23, <1>24, <1>25 DEF Next,
       Begins, Goes

\* Every step keeps the PINs in order (telegram.go:299, discord.go:627).
LEMMA PinsStep ==
    ASSUME PinsAssumption, TypeOK, Confirmed, PinsInOrder, Next
    PROVE PinsInOrder'
<1>a. /\ tokens \in [Pins -> Token] /\ verified \in [Pins -> Token]
      /\ shown \in [Pins -> Owner \cup {Form, Admin, NoOne}]
      /\ linked \in [Owner -> Contact \cup {NoOne}] /\ uses \in [Pins -> SUBSET Owner]
      /\ account \in [Owner -> {"new", "there", "gone"}]
      /\ \A p \in Pins : NoToken.there = FALSE /\ NoToken.for = NoOne
  BY DEF TypeOK, NoToken
<1>1. CASE NewToken
  BY <1>1, <1>a DEF NewToken, Issued, pins, stored, history, PinsInOrder, HasPin, Linking, Bot
<1>2. CASE SendStart
  BY <1>2, <1>a DEF SendStart, Issued, pins, stored, history, PinsInOrder, HasPin, Linking, Bot
<1>3. CASE PinExpires
  BY <1>3, <1>a DEF PinExpires, pins, stored, history, PinsInOrder, HasPin, Linking, Bot
<1>4. CASE Greet
  BY <1>4, <1>a DEF Greet, pins, stored, history, PinsInOrder, HasPin, Linking, Bot
<1>5. CASE SetLang
  BY <1>5, <1>a DEF SetLang, Spend, pins, stored, history, PinsInOrder, HasPin, Linking, Bot
<1>6. CASE SendPin
  BY <1>6, <1>a DEF SendPin, Issued, Sender, NoToken, pins, stored, history, PinsInOrder, HasPin,
       Linking, Bot
<1>7. CASE RefuseOnForm
  BY <1>7, <1>a DEF RefuseOnForm, NoToken, pins, stored, history, PinsInOrder, HasPin, Linking,
       Bot
<1>8. CASE AddUser
  BY <1>8, <1>a DEF AddUser, Used, Spend, NoToken, pins, stored, history, PinsInOrder, HasPin,
       Linking, Bot
<1>9. CASE Connect
  BY <1>9, <1>a DEF Connect, Spend, pins, stored, history, PinsInOrder, HasPin, Linking, Bot
<1>10. CASE UnlinkOrDelete
  BY <1>10, <1>a DEF UnlinkOrDelete, Spend, pins, stored, history, PinsInOrder, HasPin, Linking,
       Bot
<1>11. CASE Housekeep
  BY <1>11, <1>a DEF Housekeep, pins, stored, history, PinsInOrder, HasPin, Linking, Bot
<1>12. CASE Restart
  BY <1>12, <1>a DEF Restart, Spend, Idle, NoToken, pins, stored, history, PinsInOrder, HasPin,
       Linking, Bot
<1>13. ASSUME NEW h \in Handlers, Poll(h) PROVE PinsInOrder'
  BY <1>13, <1>a, StartSays, ContactFound DEF Poll, pins, stored, history, PinsInOrder, HasPin,
       Linking, Bot
<1>14. ASSUME NEW h \in Handlers, CheckMyPin(h) PROVE PinsInOrder'
  BY <1>14, <1>a, StartSays, ContactFound DEF CheckMyPin, pins, stored, history, PinsInOrder,
       HasPin, Linking, Bot
<1>15. ASSUME NEW h \in Handlers, SignUp(h) PROVE PinsInOrder'
  <2>1. PICK p \in Pins, v \in Visitors :
            /\ shown[p] = Form /\ Held[p].there
            /\ Start(h, [pc |-> "check", who |-> v, pin |-> p, chat |-> Held[p].chat])
    BY <1>15 DEF SignUp
  <2>2. /\ worker'[h].pc = "check" /\ worker'[h].who = v /\ worker'[h].pin = p
        /\ worker'[h].chat = Held[p].chat
        /\ \A g \in Handlers \ {h} : worker'[g] = worker[g]
    BY <2>1, StartSays
  <2>3. v \in Owner /\ Form # NoOne
    BY DEF Owner, PinsAssumption
  <2>4. Bot => ~tokens[p].there
    BY <2>1 DEF Held, PinsInOrder
  <2>5. QED
    BY <1>15, <1>a, <2>1, <2>2, <2>3, <2>4 DEF SignUp, pins, stored, history, PinsInOrder, HasPin,
         Linking, Bot
<1>16. ASSUME NEW h \in Handlers, OpenLink(h) PROVE PinsInOrder'
  <2>1. PICK k \in keys :
            Start(h, [pc |-> "create", who |-> k.who, pin |-> k.pin, chat |-> k.chat])
    BY <1>16 DEF OpenLink
  <2>2. /\ worker'[h].pc = "create" /\ worker'[h].who = k.who /\ worker'[h].pin = k.pin
        /\ worker'[h].chat = k.chat
        /\ \A g \in Handlers \ {h} : worker'[g] = worker[g]
    BY <2>1, StartSays
  <2>3. k \in Key /\ k.who \in Owner /\ k.pin \in Pins
    BY DEF TypeOK, Key
  <2>4. QED
    BY <1>16, <1>a, <2>1, <2>2, <2>3 DEF OpenLink, pins, stored, history, PinsInOrder, HasPin,
      Linking, Bot
<1>17. ASSUME NEW h \in Handlers, ReadLink(h) PROVE PinsInOrder'
  <2>1. PICK u \in Owner : /\ linked[u] # NoOne
            /\ Start(h, [pc |-> "edit", who |-> u, pin |-> NoOne, chat |-> linked[u]])
    BY <1>17 DEF ReadLink
  <2>2. /\ worker'[h].pc = "edit" /\ worker'[h].chat = linked[u] /\ worker'[h].who = u
        /\ worker'[h].pin = NoOne
    BY <2>1, StartSays
  <2>3. \A g \in Handlers \ {h} : worker'[g] = worker[g]
    BY <2>1, StartSays
  <2>4. QED
    BY <1>17, <1>a, <2>1, <2>2, <2>3 DEF ReadLink, pins, stored, history, PinsInOrder, HasPin,
      Linking, Bot
<1>18. ASSUME NEW h \in Handlers, Drop(h) PROVE PinsInOrder'
  BY <1>18, <1>a, GoSays, EndSays, ContactFound DEF Drop, NoToken, pins, stored, history,
       PinsInOrder, HasPin, Linking, Bot
<1>19. ASSUME NEW h \in Handlers, Unique(h) PROVE PinsInOrder'
  BY <1>19, <1>a, GoSays, EndSays, ContactFound DEF Unique, pins, stored, history, PinsInOrder,
       HasPin, Linking, Bot
<1>20. ASSUME NEW h \in Handlers, Link(h) PROVE PinsInOrder'
  BY <1>20, <1>a, GoSays, EndSays, ContactFound DEF Link, Used, pins, stored, history,
       PinsInOrder, HasPin, Linking, Bot
<1>21. ASSUME NEW h \in Handlers, ForgetPin(h) PROVE PinsInOrder'
  BY <1>21, <1>a, EndSays, ContactFound DEF ForgetPin, NoToken, pins, stored, history,
       PinsInOrder, HasPin, Linking, Bot
<1>22. ASSUME NEW h \in Handlers, Check(h) PROVE PinsInOrder'
  BY <1>22, <1>a, GoSays, EndSays, ContactFound DEF Check, pins, stored, history, PinsInOrder,
       HasPin, Linking, Bot
<1>23. ASSUME NEW h \in Handlers, Create(h) PROVE PinsInOrder'
  BY <1>23, <1>a, GoSays, EndSays, ContactFound DEF Create, pins, stored, history, PinsInOrder,
       HasPin, Linking, Bot
<1>24. ASSUME NEW h \in Handlers, Attach(h) PROVE PinsInOrder'
  <2>1. worker'[h].pc = "idle"
    BY <1>24, EndSays DEF Attach
  <2>2. \A g \in Handlers \ {h} : worker'[g] = worker[g]
    BY <1>24, EndSays DEF Attach
  <2>3. /\ mode' = mode /\ shown' = shown /\ keys' \subseteq keys
        /\ spent' = spent \cup {worker[h].pin}
        /\ \A p \in Pins \ {worker[h].pin} : uses'[p] = uses[p]
    BY <1>24, <1>a DEF Attach, Used
  <2>4. \A p \in Pins : /\ verified'[p].there => verified'[p] = verified[p]
                        /\ tokens'[p].there => tokens'[p] = tokens[p]
    BY <1>24, <1>a DEF Attach
  <2>5. worker[h].pin \in Pins /\ shown[worker[h].pin] # NoOne
    BY <1>24 DEF Attach, PinsInOrder, HasPin
  <2>6. \A k \in keys : k.pin \in Pins
    BY DEF TypeOK, Key
  <2>7. QED
    BY <2>1, <2>2, <2>3, <2>4, <2>5, <2>6 DEF PinsInOrder, HasPin, Linking, Bot
<1>25. ASSUME NEW h \in Handlers, StoreLink(h) PROVE PinsInOrder'
  BY <1>25, <1>a, EndSays, ContactFound DEF StoreLink, pins, stored, history, PinsInOrder, HasPin,
       Linking, Bot
<1>26. QED
  BY <1>1, <1>2, <1>3, <1>4, <1>5, <1>6, <1>7, <1>8, <1>9, <1>10, <1>11, <1>12, <1>13, <1>14,
       <1>15, <1>16, <1>17, <1>18, <1>19, <1>20, <1>21, <1>22, <1>23, <1>24, <1>25 DEF Next,
       Begins, Goes

\* Handlers that take turns go on doing so.
LEMMA AloneStep ==
    ASSUME TypeOK, Alone, Next
    PROVE Alone'
<1>1. CASE NewToken
  BY <1>1 DEF NewToken, Issued, pins, stored, history, Alone, Serial
<1>2. CASE SendStart
  BY <1>2 DEF SendStart, Issued, pins, stored, history, Alone, Serial
<1>3. CASE PinExpires
  BY <1>3 DEF PinExpires, pins, stored, history, Alone, Serial
<1>4. CASE Greet
  BY <1>4 DEF Greet, pins, stored, history, Alone, Serial
<1>5. CASE SetLang
  BY <1>5 DEF SetLang, Spend, pins, stored, history, Alone, Serial
<1>6. CASE SendPin
  BY <1>6 DEF SendPin, Issued, Sender, NoToken, pins, stored, history, Alone, Serial
<1>7. CASE RefuseOnForm
  BY <1>7 DEF RefuseOnForm, NoToken, pins, stored, history, Alone, Serial
<1>8. CASE AddUser
  BY <1>8 DEF AddUser, Used, Spend, NoToken, pins, stored, history, Alone, Serial
<1>9. CASE Connect
  BY <1>9 DEF Connect, Spend, pins, stored, history, Alone, Serial
<1>10. CASE UnlinkOrDelete
  BY <1>10 DEF UnlinkOrDelete, Spend, pins, stored, history, Alone, Serial
<1>11. CASE Housekeep
  BY <1>11 DEF Housekeep, pins, stored, history, Alone, Serial
<1>12. CASE Restart
  <2>1. \A g \in Handlers : worker'[g].pc = "idle"
    BY <1>12 DEF Restart, Idle
  <2>2. QED
    BY <2>1 DEF Alone
<1>13. ASSUME NEW h \in Handlers, Poll(h) PROVE Alone'
  <2>1. PICK rec : Start(h, rec)
    BY <1>13 DEF Poll
  <2>2. Serial => \A g \in Handlers : worker[g].pc = "idle"
    BY <2>1, StartSays
  <2>3. \A g \in Handlers \ {h} : worker'[g] = worker[g]
    BY <2>1, StartSays
  <2>4. Serial' => Serial
    BY <1>13 DEF Poll, Serial
  <2>5. QED
    BY <2>2, <2>3, <2>4 DEF Alone
<1>14. ASSUME NEW h \in Handlers, CheckMyPin(h) PROVE Alone'
  <2>1. PICK rec : Start(h, rec)
    BY <1>14 DEF CheckMyPin
  <2>2. Serial => \A g \in Handlers : worker[g].pc = "idle"
    BY <2>1, StartSays
  <2>3. \A g \in Handlers \ {h} : worker'[g] = worker[g]
    BY <2>1, StartSays
  <2>4. Serial' => Serial
    BY <1>14 DEF CheckMyPin, Serial
  <2>5. QED
    BY <2>2, <2>3, <2>4 DEF Alone
<1>15. ASSUME NEW h \in Handlers, SignUp(h) PROVE Alone'
  <2>1. PICK rec : Start(h, rec)
    BY <1>15 DEF SignUp
  <2>2. Serial => \A g \in Handlers : worker[g].pc = "idle"
    BY <2>1, StartSays
  <2>3. \A g \in Handlers \ {h} : worker'[g] = worker[g]
    BY <2>1, StartSays
  <2>4. Serial' => Serial
    BY <1>15 DEF SignUp, Serial
  <2>5. QED
    BY <2>2, <2>3, <2>4 DEF Alone
<1>16. ASSUME NEW h \in Handlers, OpenLink(h) PROVE Alone'
  <2>1. PICK rec : Start(h, rec)
    BY <1>16 DEF OpenLink
  <2>2. Serial => \A g \in Handlers : worker[g].pc = "idle"
    BY <2>1, StartSays
  <2>3. \A g \in Handlers \ {h} : worker'[g] = worker[g]
    BY <2>1, StartSays
  <2>4. Serial' => Serial
    BY <1>16 DEF OpenLink, Serial
  <2>5. QED
    BY <2>2, <2>3, <2>4 DEF Alone
<1>17. ASSUME NEW h \in Handlers, ReadLink(h) PROVE Alone'
  <2>1. PICK rec : Start(h, rec)
    BY <1>17 DEF ReadLink
  <2>2. Serial => \A g \in Handlers : worker[g].pc = "idle"
    BY <2>1, StartSays
  <2>3. \A g \in Handlers \ {h} : worker'[g] = worker[g]
    BY <2>1, StartSays
  <2>4. Serial' => Serial
    BY <1>17 DEF ReadLink, Serial
  <2>5. QED
    BY <2>2, <2>3, <2>4 DEF Alone
<1>18. ASSUME NEW h \in Handlers, Drop(h) PROVE Alone'
  <2>1. worker[h].pc # "idle"
    BY <1>18 DEF Drop
  <2>2. \A g \in Handlers \ {h} : worker'[g] = worker[g]
    BY <1>18, GoSays, EndSays DEF Drop
  <2>3. Serial' => Serial
    BY <1>18 DEF Drop, Serial
  <2>4. QED
    BY <2>1, <2>2, <2>3 DEF Alone
<1>19. ASSUME NEW h \in Handlers, Unique(h) PROVE Alone'
  <2>1. worker[h].pc # "idle"
    BY <1>19 DEF Unique
  <2>2. \A g \in Handlers \ {h} : worker'[g] = worker[g]
    BY <1>19, GoSays, EndSays DEF Unique
  <2>3. Serial' => Serial
    BY <1>19 DEF Unique, Serial
  <2>4. QED
    BY <2>1, <2>2, <2>3 DEF Alone
<1>20. ASSUME NEW h \in Handlers, Link(h) PROVE Alone'
  <2>1. worker[h].pc # "idle"
    BY <1>20 DEF Link
  <2>2. \A g \in Handlers \ {h} : worker'[g] = worker[g]
    BY <1>20, GoSays, EndSays DEF Link
  <2>3. Serial' => Serial
    BY <1>20 DEF Link, Serial
  <2>4. QED
    BY <2>1, <2>2, <2>3 DEF Alone
<1>21. ASSUME NEW h \in Handlers, ForgetPin(h) PROVE Alone'
  <2>1. worker[h].pc # "idle"
    BY <1>21 DEF ForgetPin
  <2>2. \A g \in Handlers \ {h} : worker'[g] = worker[g]
    BY <1>21, GoSays, EndSays DEF ForgetPin
  <2>3. Serial' => Serial
    BY <1>21 DEF ForgetPin, Serial
  <2>4. QED
    BY <2>1, <2>2, <2>3 DEF Alone
<1>22. ASSUME NEW h \in Handlers, Check(h) PROVE Alone'
  <2>1. worker[h].pc # "idle"
    BY <1>22 DEF Check
  <2>2. \A g \in Handlers \ {h} : worker'[g] = worker[g]
    BY <1>22, GoSays, EndSays DEF Check
  <2>3. Serial' => Serial
    BY <1>22 DEF Check, Serial
  <2>4. QED
    BY <2>1, <2>2, <2>3 DEF Alone
<1>23. ASSUME NEW h \in Handlers, Create(h) PROVE Alone'
  <2>1. worker[h].pc # "idle"
    BY <1>23 DEF Create
  <2>2. \A g \in Handlers \ {h} : worker'[g] = worker[g]
    BY <1>23, GoSays, EndSays DEF Create
  <2>3. Serial' => Serial
    BY <1>23 DEF Create, Serial
  <2>4. QED
    BY <2>1, <2>2, <2>3 DEF Alone
<1>24. ASSUME NEW h \in Handlers, Attach(h) PROVE Alone'
  <2>1. worker[h].pc # "idle"
    BY <1>24 DEF Attach
  <2>2. \A g \in Handlers \ {h} : worker'[g] = worker[g]
    BY <1>24, GoSays, EndSays DEF Attach
  <2>3. Serial' => Serial
    BY <1>24 DEF Attach, Serial
  <2>4. QED
    BY <2>1, <2>2, <2>3 DEF Alone
<1>25. ASSUME NEW h \in Handlers, StoreLink(h) PROVE Alone'
  <2>1. worker[h].pc # "idle"
    BY <1>25 DEF StoreLink
  <2>2. \A g \in Handlers \ {h} : worker'[g] = worker[g]
    BY <1>25, GoSays, EndSays DEF StoreLink
  <2>3. Serial' => Serial
    BY <1>25 DEF StoreLink, Serial
  <2>4. QED
    BY <2>1, <2>2, <2>3 DEF Alone
<1>26. QED
  BY <1>1, <1>2, <1>3, <1>4, <1>5, <1>6, <1>7, <1>8, <1>9, <1>10, <1>11, <1>12, <1>13, <1>14,
       <1>15, <1>16, <1>17, <1>18, <1>19, <1>20, <1>21, <1>22, <1>23, <1>24, <1>25 DEF Next,
       Begins, Goes

\* With handlers one after the other, a PIN that has linked links nobody else
\* (api-userpage.go:391, api-users.go:300).
LEMMA OnceStep ==
    ASSUME PinsAssumption, TypeOK, PinsInOrder, Alone, Once, UsedOnce, Next
    PROVE Once' /\ UsedOnce'
<1>a. /\ tokens \in [Pins -> Token] /\ verified \in [Pins -> Token]
      /\ shown \in [Pins -> Owner \cup {Form, Admin, NoOne}]
      /\ linked \in [Owner -> Contact \cup {NoOne}] /\ uses \in [Pins -> SUBSET Owner]
      /\ account \in [Owner -> {"new", "there", "gone"}]
      /\ \A p \in Pins : NoToken.there = FALSE /\ NoToken.for = NoOne
  BY DEF TypeOK, NoToken
<1>1. CASE NewToken
  BY <1>1, <1>a DEF NewToken, Issued, pins, stored, history, Once, UsedOnce, HasPin, Linking,
       PinsInOrder, Alone, Serial, Bot
<1>2. CASE SendStart
  BY <1>2, <1>a DEF SendStart, Issued, pins, stored, history, Once, UsedOnce, HasPin, Linking,
       PinsInOrder, Alone, Serial, Bot
<1>3. CASE PinExpires
  BY <1>3, <1>a DEF PinExpires, pins, stored, history, Once, UsedOnce, HasPin, Linking,
       PinsInOrder, Alone, Serial, Bot
<1>4. CASE Greet
  BY <1>4, <1>a DEF Greet, pins, stored, history, Once, UsedOnce, HasPin, Linking, PinsInOrder,
       Alone, Serial, Bot
<1>5. CASE SetLang
  BY <1>5, <1>a DEF SetLang, Spend, pins, stored, history, Once, UsedOnce, HasPin, Linking,
       PinsInOrder, Alone, Serial, Bot
<1>6. CASE SendPin
  BY <1>6, <1>a DEF SendPin, Issued, Sender, NoToken, pins, stored, history, Once, UsedOnce,
       HasPin, Linking, PinsInOrder, Alone, Serial, Bot
<1>7. CASE RefuseOnForm
  BY <1>7, <1>a DEF RefuseOnForm, NoToken, pins, stored, history, Once, UsedOnce, HasPin, Linking,
       PinsInOrder, Alone, Serial, Bot
<1>8. CASE AddUser
  <2>1. Serial => \A h \in Handlers : ~Linking(h) /\ worker'[h] = worker[h]
    BY <1>8 DEF AddUser, MayBegin, Quiet, Serial, Linking
  <2>2. PICK p \in Pins, u \in Owner : /\ verified[p].there
                                      /\ verified' = [verified EXCEPT ![p] = NoToken]
                                      /\ uses' = [uses EXCEPT ![p] = @ \cup {u}]
    BY <1>8 DEF AddUser, Used
  <2>3. \A h \in Handlers : Serial /\ Linking(h)' => Linking(h)
    BY <2>1 DEF Linking
  <2>4. tokens' = tokens /\ mode' = mode
    BY <1>8 DEF AddUser
  <2>5. Serial /\ ~mode.confirm => uses[p] = {}
    BY <2>2, <1>a DEF Once
  <2>6. QED
    BY <1>a, <2>1, <2>2, <2>3, <2>4, <2>5 DEF Once, UsedOnce, Serial, PinsInOrder
<1>9. CASE Connect
  BY <1>9, <1>a DEF Connect, Spend, pins, stored, history, Once, UsedOnce, HasPin, Linking,
       PinsInOrder, Alone, Serial, Bot
<1>10. CASE UnlinkOrDelete
  BY <1>10, <1>a DEF UnlinkOrDelete, Spend, pins, stored, history, Once, UsedOnce, HasPin,
       Linking, PinsInOrder, Alone, Serial, Bot
<1>11. CASE Housekeep
  BY <1>11, <1>a DEF Housekeep, pins, stored, history, Once, UsedOnce, HasPin, Linking,
       PinsInOrder, Alone, Serial, Bot
<1>12. CASE Restart
  BY <1>12, <1>a DEF Restart, Spend, Idle, NoToken, pins, stored, history, Once, UsedOnce, HasPin,
       Linking, PinsInOrder, Alone, Serial, Bot
<1>13. ASSUME NEW h \in Handlers, Poll(h) PROVE Once' /\ UsedOnce'
  BY <1>13, <1>a, StartSays, HandlerType DEF Poll, pins, stored, history, Once, UsedOnce, HasPin,
       Linking, PinsInOrder, Alone, Serial, Bot
<1>14. ASSUME NEW h \in Handlers, CheckMyPin(h) PROVE Once' /\ UsedOnce'
  BY <1>14, <1>a, StartSays, HandlerType DEF CheckMyPin, pins, stored, history, Once, UsedOnce,
       HasPin, Linking, PinsInOrder, Alone, Serial, Bot
<1>15. ASSUME NEW h \in Handlers, SignUp(h) PROVE Once' /\ UsedOnce'
  BY <1>15, <1>a, StartSays, HandlerType DEF SignUp, Held, pins, stored, history, Once, UsedOnce,
       HasPin, Linking, PinsInOrder, Alone, Serial, Bot
<1>16. ASSUME NEW h \in Handlers, OpenLink(h) PROVE Once' /\ UsedOnce'
  BY <1>16, <1>a, StartSays, HandlerType DEF OpenLink, pins, stored, history, Once, UsedOnce,
       HasPin, Linking, PinsInOrder, Alone, Serial, Bot
<1>17. ASSUME NEW h \in Handlers, ReadLink(h) PROVE Once' /\ UsedOnce'
  BY <1>17, <1>a, StartSays, HandlerType DEF ReadLink, Spend, pins, stored, history, Once,
       UsedOnce, HasPin, Linking, PinsInOrder, Alone, Serial, Bot
<1>18. ASSUME NEW h \in Handlers, Drop(h) PROVE Once' /\ UsedOnce'
  BY <1>18, <1>a, GoSays, EndSays, HandlerType DEF Drop, NoToken, pins, stored, history, Once,
       UsedOnce, HasPin, Linking, PinsInOrder, Alone, Serial, Bot
<1>19. ASSUME NEW h \in Handlers, Unique(h) PROVE Once' /\ UsedOnce'
  BY <1>19, <1>a, GoSays, EndSays, HandlerType DEF Unique, pins, stored, history, Once, UsedOnce,
       HasPin, Linking, PinsInOrder, Alone, Serial, Bot
<1>20. ASSUME NEW h \in Handlers, Link(h) PROVE Once' /\ UsedOnce'
  BY <1>20, <1>a, GoSays, EndSays, HandlerType DEF Link, Used, pins, stored, history, Once,
       UsedOnce, HasPin, Linking, PinsInOrder, Alone, Serial, Bot
<1>21. ASSUME NEW h \in Handlers, ForgetPin(h) PROVE Once' /\ UsedOnce'
  BY <1>21, <1>a, EndSays, HandlerType DEF ForgetPin, NoToken, pins, stored, history, Once,
       UsedOnce, HasPin, Linking, PinsInOrder, Alone, Serial, Bot
<1>22. ASSUME NEW h \in Handlers, Check(h) PROVE Once' /\ UsedOnce'
  BY <1>22, <1>a, GoSays, EndSays, HandlerType DEF Check, pins, stored, history, Once, UsedOnce,
       HasPin, Linking, PinsInOrder, Alone, Serial, Bot
<1>23. ASSUME NEW h \in Handlers, Create(h) PROVE Once' /\ UsedOnce'
  BY <1>23, <1>a, GoSays, EndSays, HandlerType DEF Create, pins, stored, history, Once, UsedOnce,
       HasPin, Linking, PinsInOrder, Alone, Serial, Bot
<1>24. ASSUME NEW h \in Handlers, Attach(h) PROVE Once' /\ UsedOnce'
  <2>1. worker[h].pc = "attach" /\ worker[h].pin \in Pins /\ Linking(h)
    BY <1>24, HandlerType DEF Attach, HasPin, Linking
  <2>2. worker'[h].pc = "idle"
    BY <1>24, EndSays DEF Attach
  <2>3. Serial => \A g \in Handlers : worker'[g].pc = "idle"
    BY <1>24, <2>1, <2>2, EndSays DEF Attach, Alone
  <2>4. mode' = mode /\ uses' = [uses EXCEPT ![worker[h].pin] = @ \cup {worker[h].who}]
    BY <1>24 DEF Attach, Used
  <2>5. \A p \in Pins : /\ verified'[p].there => verified[p].there
                        /\ tokens'[p].there => tokens[p].there
    BY <1>24, <1>a DEF Attach
  <2>6. ~verified'[worker[h].pin].there /\ ~tokens'[worker[h].pin].there
    BY <1>24, <1>a, <2>1 DEF Attach, PinsInOrder, Bot
  <2>7. Serial /\ ~mode.confirm => uses[worker[h].pin] = {}
    BY <2>1 DEF Once
  <2>8. Serial => \A p \in Pins : uses[p] # {} /\ ~mode.confirm
            => ~verified[p].there /\ ~tokens[p].there
    BY <2>1 DEF Once, Alone
  <2>9. UsedOnce'
    BY <1>a, <2>1, <2>4, <2>7 DEF UsedOnce, Serial
  <2>10. Once'
    BY <1>a, <2>1, <2>3, <2>4, <2>5, <2>6, <2>8 DEF Once, Serial, Linking
  <2>11. QED
    BY <2>9, <2>10
<1>25. ASSUME NEW h \in Handlers, StoreLink(h) PROVE Once' /\ UsedOnce'
  BY <1>25, <1>a, EndSays, HandlerType DEF StoreLink, pins, stored, history, Once, UsedOnce,
       HasPin, Linking, PinsInOrder, Alone, Serial, Bot
<1>26. QED
  BY <1>1, <1>2, <1>3, <1>4, <1>5, <1>6, <1>7, <1>8, <1>9, <1>10, <1>11, <1>12, <1>13, <1>14,
       <1>15, <1>16, <1>17, <1>18, <1>19, <1>20, <1>21, <1>22, <1>23, <1>24, <1>25 DEF Next,
       Begins, Goes

\* Where a chat account may be linked once only, with handlers one after the other, it is
\* (api-userpage.go:396, api-users.go:175).
LEMMA StillFreeStep ==
    ASSUME PinsAssumption, TypeOK, PinsInOrder, Alone, StillFree, UniqueKept, Next
    PROVE StillFree' /\ UniqueKept'
<1>a. /\ tokens \in [Pins -> Token] /\ verified \in [Pins -> Token]
      /\ shown \in [Pins -> Owner \cup {Form, Admin, NoOne}]
      /\ linked \in [Owner -> Contact \cup {NoOne}] /\ uses \in [Pins -> SUBSET Owner]
      /\ account \in [Owner -> {"new", "there", "gone"}]
      /\ \A p \in Pins : NoToken.there = FALSE /\ NoToken.for = NoOne
  BY DEF TypeOK, NoToken
<1>b. /\ budget.admin \in Nat /\ mode.bounds.admin \in Nat /\ budget.admin <= mode.bounds.admin
      /\ Spend("admin") => budget'.admin < mode.bounds.admin /\ budget'.admin \in Nat
      /\ Spend("edits") \/ Spend("restarts") => budget'.admin = budget.admin
  BY DEF TypeOK, Mode, Bounds, Spend, StillFree
<1>1. CASE NewToken
  BY <1>1, <1>a, <1>b DEF NewToken, Issued, pins, stored, history, StillFree, UniqueKept,
       Undisturbed, Taken, HasPin, PinsInOrder, Alone, Serial, Bot
<1>2. CASE SendStart
  BY <1>2, <1>a, <1>b DEF SendStart, Issued, pins, stored, history, StillFree, UniqueKept,
       Undisturbed, Taken, HasPin, PinsInOrder, Alone, Serial, Bot
<1>3. CASE PinExpires
  BY <1>3, <1>a, <1>b DEF PinExpires, pins, stored, history, StillFree, UniqueKept, Undisturbed,
       Taken, HasPin, PinsInOrder, Alone, Serial, Bot
<1>4. CASE Greet
  BY <1>4, <1>a, <1>b DEF Greet, pins, stored, history, StillFree, UniqueKept, Undisturbed, Taken,
       HasPin, PinsInOrder, Alone, Serial, Bot
<1>5. CASE SetLang
  BY <1>5, <1>a, <1>b DEF SetLang, pins, stored, history, StillFree, UniqueKept, Undisturbed,
       Taken, HasPin, PinsInOrder, Alone, Serial, Bot
<1>6. CASE SendPin
  BY <1>6, <1>a, <1>b DEF SendPin, Issued, Sender, NoToken, pins, stored, history, StillFree,
       UniqueKept, Undisturbed, Taken, HasPin, PinsInOrder, Alone, Serial, Bot
<1>7. CASE RefuseOnForm
  <2>1. /\ linked' = linked /\ worker' = worker /\ mode' = mode /\ budget' = budget
    BY <1>7 DEF RefuseOnForm, stored
  <2>2. QED
    BY <2>1 DEF StillFree, UniqueKept, Undisturbed, Taken, Serial, Bot
<1>8. CASE AddUser
  BY <1>8, <1>a, <1>b DEF AddUser, Used, NoToken, pins, stored, history, StillFree, UniqueKept,
       Undisturbed, Taken, HasPin, PinsInOrder, Alone, Serial, Bot
<1>9. CASE Connect
  BY <1>9, <1>a, <1>b DEF Connect, pins, stored, history, StillFree, UniqueKept, Undisturbed,
       Taken, HasPin, PinsInOrder, Alone, Serial, Bot
<1>10. CASE UnlinkOrDelete
  BY <1>10, <1>a, <1>b DEF UnlinkOrDelete, pins, stored, history, StillFree, UniqueKept,
       Undisturbed, Taken, HasPin, PinsInOrder, Alone, Serial, Bot
<1>11. CASE Housekeep
  <2>1. Serial => \A h \in Handlers : worker'[h].pc = "idle"
    BY <1>11 DEF Housekeep, MayBegin, Quiet, Serial
  <2>2. PICK u \in Owner : linked' = [linked EXCEPT ![u] = NoOne]
    BY <1>11 DEF Housekeep
  <2>3. mode' = mode /\ budget' = budget
    BY <1>11 DEF Housekeep
  <2>4. QED
    BY <1>a, <2>1, <2>2, <2>3 DEF StillFree, UniqueKept, Undisturbed, Serial, Bot
<1>12. CASE Restart
  BY <1>12, <1>a, <1>b DEF Restart, Idle, NoToken, pins, stored, history, StillFree, UniqueKept,
       Undisturbed, Taken, HasPin, PinsInOrder, Alone, Serial, Bot
<1>13. ASSUME NEW h \in Handlers, Poll(h) PROVE StillFree' /\ UniqueKept'
  BY <1>13, <1>a, <1>b, StartSays, HandlerType DEF Poll, pins, stored, history, StillFree,
       UniqueKept, Undisturbed, Taken, HasPin, PinsInOrder, Alone, Serial, Bot
<1>14. ASSUME NEW h \in Handlers, CheckMyPin(h) PROVE StillFree' /\ UniqueKept'
  BY <1>14, <1>a, <1>b, StartSays, HandlerType DEF CheckMyPin, pins, stored, history, StillFree,
       UniqueKept, Undisturbed, Taken, HasPin, PinsInOrder, Alone, Serial, Bot
<1>15. ASSUME NEW h \in Handlers, SignUp(h) PROVE StillFree' /\ UniqueKept'
  BY <1>15, <1>a, <1>b, StartSays, HandlerType DEF SignUp, Held, pins, stored, history, StillFree,
       UniqueKept, Undisturbed, Taken, HasPin, PinsInOrder, Alone, Serial, Bot
<1>16. ASSUME NEW h \in Handlers, OpenLink(h) PROVE StillFree' /\ UniqueKept'
  BY <1>16, <1>a, <1>b, StartSays, HandlerType DEF OpenLink, pins, stored, history, StillFree,
       UniqueKept, Undisturbed, Taken, HasPin, PinsInOrder, Alone, Serial, Bot
<1>17. ASSUME NEW h \in Handlers, ReadLink(h) PROVE StillFree' /\ UniqueKept'
  BY <1>17, <1>a, <1>b, StartSays, HandlerType DEF ReadLink, pins, stored, history, StillFree,
       UniqueKept, Undisturbed, Taken, HasPin, PinsInOrder, Alone, Serial, Bot
<1>18. ASSUME NEW h \in Handlers, Drop(h) PROVE StillFree' /\ UniqueKept'
  BY <1>18, <1>a, <1>b, GoSays, EndSays, HandlerType DEF Drop, NoToken, pins, stored, history,
       StillFree, UniqueKept, Undisturbed, Taken, HasPin, PinsInOrder, Alone, Serial, Bot
<1>19. ASSUME NEW h \in Handlers, Unique(h) PROVE StillFree' /\ UniqueKept'
  BY <1>19, <1>a, <1>b, GoSays, EndSays, HandlerType DEF Unique, pins, stored, history, StillFree,
       UniqueKept, Undisturbed, Taken, HasPin, PinsInOrder, Alone, Serial, Bot
<1>20. ASSUME NEW h \in Handlers, Link(h) PROVE StillFree' /\ UniqueKept'
  BY <1>20, <1>a, <1>b, GoSays, EndSays, HandlerType DEF Link, Used, pins, stored, history,
       StillFree, UniqueKept, Undisturbed, Taken, HasPin, PinsInOrder, Alone, Serial, Bot
<1>21. ASSUME NEW h \in Handlers, ForgetPin(h) PROVE StillFree' /\ UniqueKept'
  BY <1>21, <1>a, <1>b, EndSays, HandlerType DEF ForgetPin, NoToken, pins, stored, history,
       StillFree, UniqueKept, Undisturbed, Taken, HasPin, PinsInOrder, Alone, Serial, Bot
<1>22. ASSUME NEW h \in Handlers, Check(h) PROVE StillFree' /\ UniqueKept'
  BY <1>22, <1>a, <1>b, GoSays, EndSays, HandlerType DEF Check, pins, stored, history, StillFree,
       UniqueKept, Undisturbed, Taken, HasPin, PinsInOrder, Alone, Serial, Bot
<1>23. ASSUME NEW h \in Handlers, Create(h) PROVE StillFree' /\ UniqueKept'
  BY <1>23, <1>a, <1>b, GoSays, EndSays, HandlerType DEF Create, pins, stored, history, StillFree,
       UniqueKept, Undisturbed, Taken, HasPin, PinsInOrder, Alone, Serial, Bot
<1>24. ASSUME NEW h \in Handlers, Attach(h) PROVE StillFree' /\ UniqueKept'
  BY <1>24, <1>a, <1>b, EndSays, HandlerType DEF Attach, Used, NoToken, pins, stored, history,
       StillFree, UniqueKept, Undisturbed, Taken, HasPin, PinsInOrder, Alone, Serial, Bot
<1>25. ASSUME NEW h \in Handlers, StoreLink(h) PROVE StillFree' /\ UniqueKept'
  BY <1>25, <1>a, <1>b, EndSays, HandlerType DEF StoreLink, pins, stored, history, StillFree,
       UniqueKept, Undisturbed, Taken, HasPin, PinsInOrder, Alone, Serial, Bot
<1>26. QED
  BY <1>1, <1>2, <1>3, <1>4, <1>5, <1>6, <1>7, <1>8, <1>9, <1>10, <1>11, <1>12, <1>13, <1>14,
       <1>15, <1>16, <1>17, <1>18, <1>19, <1>20, <1>21, <1>22, <1>23, <1>24, <1>25 DEF Next,
       Begins, Goes

\* With handlers and the bot one after the other, no verified PIN is lost (telegram.go:299).
LEMMA AccountedStep ==
    ASSUME PinsAssumption, TypeOK, Confirmed, PinsInOrder, Alone, Accounted, Next
    PROVE Accounted'
<1>a. /\ tokens \in [Pins -> Token] /\ verified \in [Pins -> Token]
      /\ shown \in [Pins -> Owner \cup {Form, Admin, NoOne}]
      /\ linked \in [Owner -> Contact \cup {NoOne}] /\ uses \in [Pins -> SUBSET Owner]
      /\ account \in [Owner -> {"new", "there", "gone"}]
      /\ \A p \in Pins : NoToken.there = FALSE /\ NoToken.for = NoOne
  BY DEF TypeOK, NoToken
<1>1. CASE NewToken
  BY <1>1, <1>a, ContactFound DEF NewToken, Issued, pins, stored, history, Accounted, Held,
       Serial, Alone, Bot, PinsInOrder, HasPin, Linking
<1>2. CASE SendStart
  BY <1>2, <1>a, ContactFound DEF SendStart, Issued, pins, stored, history, Accounted, Held,
       Serial, Alone, Bot, PinsInOrder, HasPin, Linking
<1>3. CASE PinExpires
  BY <1>3, <1>a, ContactFound DEF PinExpires, pins, stored, history, Accounted, Held, Serial,
       Alone, Bot, PinsInOrder, HasPin, Linking
<1>4. CASE Greet
  BY <1>4, <1>a, ContactFound DEF Greet, pins, stored, history, Accounted, Held, Serial, Alone,
       Bot, PinsInOrder, HasPin, Linking
<1>5. CASE SetLang
  BY <1>5, <1>a, ContactFound DEF SetLang, pins, stored, history, Accounted, Held, Serial, Alone,
       Bot, PinsInOrder, HasPin, Linking
<1>6. CASE SendPin
  <2>1. Serial => \A h \in Handlers : worker'[h].pc = "idle" /\ worker[h].pc = "idle"
    BY <1>6 DEF SendPin, MayBegin, Quiet, Serial
  <2>2. PICK p \in Pins, c \in Chats :
            /\ \/ verified' = verified /\ told' = told
               \/ /\ verified' = [verified EXCEPT ![p] = Issued(tokens[p].for, Sender(c))]
                  /\ told' = told \cup {p}
            /\ Bot /\ mode' = mode /\ spent' = spent
    BY <1>6 DEF SendPin
  <2>3. \A f, d : Issued(f, d).there
    BY DEF Issued
  <2>4. Serial => \A r \in told : verified[r].there \/ r \in spent
    BY <2>1, <2>2 DEF Accounted, Held
  <2>5. Serial => \A r \in told' : verified'[r].there \/ r \in spent
    BY <1>a, <2>2, <2>3, <2>4 DEF TypeOK
  <2>6. QED
    BY <2>1, <2>2, <2>5 DEF Accounted, Held, Serial, Bot
<1>7. CASE RefuseOnForm
  BY <1>7, <1>a, ContactFound DEF RefuseOnForm, NoToken, pins, stored, history, Accounted, Held,
       Serial, Alone, Bot, PinsInOrder, HasPin, Linking
<1>8. CASE AddUser
  BY <1>8, <1>a, ContactFound DEF AddUser, Used, NoToken, pins, stored, history, Accounted, Held,
       Serial, Alone, Bot, PinsInOrder, HasPin, Linking
<1>9. CASE Connect
  BY <1>9, <1>a, ContactFound DEF Connect, pins, stored, history, Accounted, Held, Serial, Alone,
       Bot, PinsInOrder, HasPin, Linking
<1>10. CASE UnlinkOrDelete
  BY <1>10, <1>a, ContactFound DEF UnlinkOrDelete, pins, stored, history, Accounted, Held, Serial,
       Alone, Bot, PinsInOrder, HasPin, Linking
<1>11. CASE Housekeep
  BY <1>11, <1>a, ContactFound DEF Housekeep, pins, stored, history, Accounted, Held, Serial,
       Alone, Bot, PinsInOrder, HasPin, Linking
<1>12. CASE Restart
  BY <1>12, <1>a, ContactFound DEF Restart, Idle, NoToken, pins, stored, history, Accounted, Held,
       Serial, Alone, Bot, PinsInOrder, HasPin, Linking
<1>13. ASSUME NEW h \in Handlers, Poll(h) PROVE Accounted'
  BY <1>13, <1>a, StartSays, HandlerType, ContactFound DEF Poll, pins, stored, history, Accounted,
       Held, Serial, Alone, Bot, PinsInOrder, HasPin, Linking
<1>14. ASSUME NEW h \in Handlers, CheckMyPin(h) PROVE Accounted'
  BY <1>14, <1>a, StartSays, HandlerType, ContactFound DEF CheckMyPin, pins, stored, history,
       Accounted, Held, Serial, Alone, Bot, PinsInOrder, HasPin, Linking
<1>15. ASSUME NEW h \in Handlers, SignUp(h) PROVE Accounted'
  BY <1>15, <1>a, StartSays, HandlerType, ContactFound DEF SignUp, Held, pins, stored, history,
       Accounted, Serial, Alone, Bot, PinsInOrder, HasPin, Linking
<1>16. ASSUME NEW h \in Handlers, OpenLink(h) PROVE Accounted'
  <2>1. PICK rec : rec.pc = "create" /\ Start(h, rec)
    BY <1>16 DEF OpenLink
  <2>2. worker'[h].pc = "create" /\ worker[h].pc = "idle"
    BY <2>1, StartSays
  <2>3. \A g \in Handlers \ {h} : worker'[g] = worker[g]
    BY <2>1, StartSays
  <2>4. /\ verified' = verified /\ tokens' = tokens /\ mode' = mode
        /\ told' = told /\ spent' = spent
    BY <1>16 DEF OpenLink, pins, history
  <2>5. QED
    BY <2>2, <2>3, <2>4 DEF Accounted, Held, Serial, Bot
<1>17. ASSUME NEW h \in Handlers, ReadLink(h) PROVE Accounted'
  BY <1>17, <1>a, StartSays, HandlerType, ContactFound DEF ReadLink, pins, stored, history,
       Accounted, Held, Serial, Alone, Bot, PinsInOrder, HasPin, Linking
<1>18. ASSUME NEW h \in Handlers, Drop(h) PROVE Accounted'
  BY <1>18, <1>a, GoSays, EndSays, HandlerType, ContactFound DEF Drop, NoToken, pins, stored,
       history, Accounted, Held, Serial, Alone, Bot, PinsInOrder, HasPin, Linking
<1>19. ASSUME NEW h \in Handlers, Unique(h) PROVE Accounted'
  BY <1>19, <1>a, GoSays, EndSays, HandlerType, ContactFound DEF Unique, pins, stored, history,
       Accounted, Held, Serial, Alone, Bot, PinsInOrder, HasPin, Linking
<1>20. ASSUME NEW h \in Handlers, Link(h) PROVE Accounted'
  BY <1>20, <1>a, GoSays, EndSays, HandlerType, ContactFound DEF Link, Used, pins, stored,
       history, Accounted, Held, Serial, Alone, Bot, PinsInOrder, HasPin, Linking
<1>21. ASSUME NEW h \in Handlers, ForgetPin(h) PROVE Accounted'
  <2>1. worker[h].pc = "forget" /\ worker[h].pin \in spent /\ ~Bot
    BY <1>21 DEF ForgetPin, PinsInOrder
  <2>2. worker'[h].pc = "idle"
    BY <1>21, EndSays DEF ForgetPin
  <2>3. \A g \in Handlers \ {h} : worker'[g] = worker[g]
    BY <1>21, EndSays DEF ForgetPin
  <2>4. /\ mode' = mode /\ verified' = verified /\ told' = told /\ spent' = spent
        /\ tokens' = [tokens EXCEPT ![worker[h].pin] = NoToken]
    BY <1>21 DEF ForgetPin, history
  <2>5. \A p \in Pins : p \notin spent => Held'[p] = Held[p]
    BY <1>a, <2>1, <2>4 DEF Held, Bot
  <2>6. told \subseteq Pins
    BY DEF TypeOK
  <2>7. QED
    BY <2>1, <2>2, <2>3, <2>4, <2>5, <2>6 DEF Accounted, Serial
<1>22. ASSUME NEW h \in Handlers, Check(h) PROVE Accounted'
  BY <1>22, <1>a, GoSays, EndSays, HandlerType, ContactFound DEF Check, pins, stored, history,
       Accounted, Held, Serial, Alone, Bot, PinsInOrder, HasPin, Linking
<1>23. ASSUME NEW h \in Handlers, Create(h) PROVE Accounted'
  BY <1>23, <1>a, GoSays, EndSays, HandlerType, ContactFound DEF Create, pins, stored, history,
       Accounted, Held, Serial, Alone, Bot, PinsInOrder, HasPin, Linking
<1>24. ASSUME NEW h \in Handlers, Attach(h) PROVE Accounted'
  <2>1. worker[h].pc = "attach" /\ worker[h].pin \in Pins
    BY <1>24, HandlerType DEF Attach, HasPin
  <2>2. worker'[h].pc = "idle"
    BY <1>24, EndSays DEF Attach
  <2>3. \A g \in Handlers \ {h} : worker'[g] = worker[g]
    BY <1>24, EndSays DEF Attach
  <2>4. /\ mode' = mode /\ told' = told /\ spent' = spent \cup {worker[h].pin}
        /\ \/ Bot /\ verified' = [verified EXCEPT ![worker[h].pin] = NoToken]
           \/ ~Bot /\ verified' = verified /\ tokens' = [tokens EXCEPT ![worker[h].pin] = NoToken]
    BY <1>24 DEF Attach, Used
  <2>5. \A p \in Pins : p \notin spent' => Held'[p] = Held[p]
    BY <1>a, <2>1, <2>4 DEF Held, Bot
  <2>6. \A p \in Pins : verified'[p].there => verified[p].there
    BY <1>a, <2>1, <2>4
  <2>7. told \subseteq Pins
    BY DEF TypeOK
  <2>8. \A g \in Handlers : worker'[g].pc = "polled"
            => worker[g].pc = "polled" /\ worker[g].pin \in Pins
    BY <2>2, <2>3, HandlerType DEF HasPin
  <2>9. QED
    BY <2>1, <2>2, <2>3, <2>4, <2>5, <2>6, <2>7, <2>8 DEF Accounted, Serial
<1>25. ASSUME NEW h \in Handlers, StoreLink(h) PROVE Accounted'
  BY <1>25, <1>a, EndSays, HandlerType, ContactFound DEF StoreLink, pins, stored, history,
       Accounted, Held, Serial, Alone, Bot, PinsInOrder, HasPin, Linking
<1>26. QED
  BY <1>1, <1>2, <1>3, <1>4, <1>5, <1>6, <1>7, <1>8, <1>9, <1>10, <1>11, <1>12, <1>13, <1>14,
       <1>15, <1>16, <1>17, <1>18, <1>19, <1>20, <1>21, <1>22, <1>23, <1>24, <1>25 DEF Next,
       Begins, Goes

-----------------------------------------------------------------------------
(* The inductive invariant.                                                *)

IInv == /\ TypeOK /\ Confirmed /\ PinsInOrder /\ Alone
        /\ Once /\ UsedOnce /\ StillFree /\ UniqueKept /\ Accounted

\* It holds at first.
LEMMA InitHolds == Init => IInv
<1> SUFFICES ASSUME Init PROVE IInv
  OBVIOUS
<1>1. /\ NoToken \in Token /\ Idle \in Worker /\ Idle.pc = "idle" /\ Idle.chat = NoOne
      /\ ~NoToken.there /\ NoToken.chat = NoOne
  BY DEF NoToken, Token, Idle, Worker
<1>2. mode \in Mode /\ mode.bounds \in Bounds /\ (Bot => mode.checks = mode.unique)
  BY PinsAssumption DEF Init, Mode, Bot
<1>3. \A h \in Handlers : worker[h] = Idle
  BY DEF Init
<1>4. \A p \in Pins : tokens[p] = NoToken /\ verified[p] = NoToken /\ uses[p] = {}
  BY DEF Init
<1>5. TypeOK
  BY <1>1, <1>2, <1>3 DEF Init, TypeOK, Contact, Owner
<1>6. Confirmed
  BY <1>1, <1>3, <1>4 DEF Init, Confirmed, LinkedConfirmed
<1>7. PinsInOrder
  BY <1>1, <1>3, <1>4 DEF Init, PinsInOrder, HasPin, Linking
<1>8. Alone
  BY <1>1, <1>3 DEF Alone
<1>9. Once /\ UsedOnce
  BY <1>1, <1>3, <1>4 DEF Once, UsedOnce, Linking
<1>10. StillFree
  <2>1. budget.admin = mode.bounds.admin /\ mode.bounds.admin \in Nat
    BY <1>2 DEF Init, Bounds
  <2>2. QED
    BY <1>1, <1>2, <1>3, <2>1 DEF StillFree
<1>11. UniqueKept
  BY DEF Init, UniqueKept
<1>12. Accounted
  BY <1>1, <1>3, <1>4 DEF Init, Accounted
<1>13. QED
  BY <1>5, <1>6, <1>7, <1>8, <1>9, <1>10, <1>11, <1>12 DEF IInv

\* And after every step.
LEMMA StepHolds == IInv /\ [Next]_vars => IInv'
<1> SUFFICES ASSUME IInv, [Next]_vars PROVE IInv'
  OBVIOUS
<1>1. CASE Next
  <2>1. TypeOK' /\ Confirmed' /\ PinsInOrder'
    BY <1>1, PinsAssumption, TypeStep, ConfirmedStep, PinsStep DEF IInv
  <2>2. Alone' /\ Once' /\ UsedOnce'
    BY <1>1, PinsAssumption, AloneStep, OnceStep DEF IInv
  <2>3. StillFree' /\ UniqueKept' /\ Accounted'
    BY <1>1, PinsAssumption, StillFreeStep, AccountedStep DEF IInv
  <2>4. QED
    BY <2>1, <2>2, <2>3 DEF IInv
<1>2. CASE UNCHANGED vars
  <2> USE <1>2 DEF IInv, vars, pins, stored, history
  <2>1. TypeOK'
    BY DEF TypeOK
  <2>2. Confirmed'
    BY DEF Confirmed, LinkedConfirmed, Bot
  <2>3. PinsInOrder'
    BY DEF PinsInOrder, HasPin, Linking, Bot
  <2>4. Alone' /\ Once' /\ UsedOnce'
    BY DEF Alone, Once, UsedOnce, Linking, Serial
  <2>5. StillFree' /\ UniqueKept'
    BY DEF StillFree, UniqueKept, Undisturbed, Taken, Serial, Bot
  <2>6. Accounted'
    BY DEF Accounted, Held, Serial, Bot
  <2>7. QED
    BY <2>1, <2>2, <2>3, <2>4, <2>5, <2>6
<1>3. QED
  BY <1>1, <1>2

\* For any number of handlers, accounts and PINs, and every configuration.
LEMMA AlwaysIInv == Spec => []IInv
  BY InitHolds, StepHolds, PTL DEF Spec

\* The variables have their types, and no handler goes on to link without a chat account
\* (api-userpage.go:390).
THEOREM TypesKept == Spec => []TypeOK
<1>1. IInv => TypeOK
  BY DEF IInv
<1>2. QED
  BY <1>1, AlwaysIInv, PTL

\* Whatever handlers, the bot and restarts do, only a chat account that was confirmed is
\* linked (AssignedTokenVerified, telegram.go:317; PostNewUserFromInvite, api-users.go:292).
THEOREM LinksAreConfirmed == Spec => []LinkedConfirmed
<1>1. IInv => LinkedConfirmed
  BY DEF IInv, Confirmed
<1>2. QED
  BY <1>1, AlwaysIInv, PTL

\* With handlers one after the other, a PIN links one account (DeleteVerifiedToken,
\* api-userpage.go:391; PostNewUserFromInvite, api-users.go:300).
THEOREM OneAccountPerPin == Spec => []UsedOnce
<1>1. IInv => UsedOnce
  BY DEF IInv
<1>2. QED
  BY <1>1, AlwaysIInv, PTL

\* Where require_unique is set, and handlers take turns, no two accounts are linked to one
\* chat account (UserExists, api-userpage.go:396; Exists, api-users.go:175).
THEOREM ChatsStayUnique == Spec => []UniqueKept
<1>1. IInv => UniqueKept
  BY DEF IInv
<1>2. QED
  BY <1>1, AlwaysIInv, PTL

\* With handlers and the bot one after the other, a PIN its sender knows to be verified is
\* there until it links, is refused, or the process ends (commandPIN, telegram.go:299).
THEOREM NothingIsLost == Spec => []NothingLost
<1>1. IInv => NothingLost
  BY DEF IInv, Accounted, NothingLost, Quiet
<1>2. QED
  BY <1>1, AlwaysIInv, PTL

=============================================================================
