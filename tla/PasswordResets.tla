---------------------------- MODULE PasswordResets ----------------------------
(***************************************************************************)
(* Resetting a password with a PIN: PINs of jfa-go itself, kept in memory  *)
(* (pwreset.go, api-users.go, api-userpage.go), and those Jellyfin writes  *)
(* to a file; the page behind the link of either (views.go), the request   *)
(* it makes (api.go), its captcha, and the sweep of captchas               *)
(* (housekeeping-d.go).                                                    *)
(*                                                                         *)
(* Time is in units of ten minutes.  PINs are numbered as they are issued. *)
(***************************************************************************)
EXTENDS Integers, Sequences, FiniteSets, Maps

CONSTANTS
    Users, Clients,         \* users; requests that may be handled at the same time
    WithAddress,            \* the users messages can be sent to
    ResetSettings,          \* records [set_password, captcha, validate], and two bounds, [pins, captchas]
    PIN_VALIDITY, CAPTCHA_VALIDITY,
    LastMoment, MaxFailures, MaxResetStarts      \* bounds

ASSUME ResetsAssumption ==
    /\ {PIN_VALIDITY, CAPTCHA_VALIDITY} \subseteq Nat
    /\ ResetSettings \subseteq [set_password : BOOLEAN, captcha : BOOLEAN, validate : BOOLEAN,
                               pins : Nat, captchas : Nat]

VARIABLES
    moment,
    conf,
    internalPWRs,       \* PIN -> [user, exp], in memory
    fileResets,         \* external: the same, of Jellyfin
    pwrCaptchas,        \* PIN -> [answer, generated], in memory
    copied,             \* {} or {the captchas a sweep is about to keep}
    password, ombi,     \* external: of each user, at Jellyfin and at Ombi
    request,            \* what each client waits for
    issued,             \* history: every PIN with its user and expiry
    known,              \* history: the PINs somebody was told
    changedBy,          \* history: [pin, at] of each change of a password
    usedUp, reused,     \* history: PINs used by one request of the page, by two
    overlapped,         \* history: PINs used by two requests at a time
    spoiled,            \* history: users whose reset was not carried through
    shown,              \* history: the last captcha shown for each PIN
    lostCaptchas,       \* history: PINs whose captcha a restart or a sweep under way took
    captchas, resetFailures, resetStarts

resetVars == <<moment, conf, internalPWRs, fileResets, pwrCaptchas, copied, password, ombi, request,
               issued, known, changedBy, usedUp, reused, overlapped, spoiled, shown, lostCaptchas,
               captchas, resetFailures, resetStarts>>
historyVars == <<issued, known, shown, lostCaptchas>>
useVars == <<changedBy, usedUp, reused>>

Blank == <<"blank", 0>>
Old == <<"old", 0>>
PIN(p) == <<"pin", p>>
Chosen(p) == <<"chosen", p>>
NoRequest == [step |-> "idle"]
NotSweeping == {}

Pins == DOMAIN issued
Active(c) == request[c] # NoRequest
MayFail == resetFailures < MaxFailures /\ resetFailures' = resetFailures + 1

-----------------------------------------------------------------------------
ResetsInit ==
    /\ moment = 0 /\ conf \in ResetSettings
    /\ internalPWRs = <<>> /\ fileResets = <<>> /\ pwrCaptchas = <<>> /\ copied = NotSweeping
    /\ password = [u \in Users |-> Old] /\ ombi = [u \in Users |-> Old]
    /\ request = [c \in Clients |-> NoRequest]
    /\ issued = <<>> /\ known = {} /\ changedBy = [u \in Users |-> {}]
    /\ usedUp = {} /\ reused = {} /\ overlapped = {} /\ spoiled = {} /\ shown = <<>> /\ lostCaptchas = {}
    /\ captchas = 0 /\ resetFailures = 0 /\ resetStarts = 1

\* GenInternalReset for some users in a row: internalPWRs and issued with their new PINs.
GenInternalReset(us) ==
    LET new == [i \in 1..Len(us) |-> [user |-> us[i], exp |-> moment + PIN_VALIDITY]]
        at(f) == [p \in DOMAIN f \cup (Len(issued) + 1)..(Len(issued) + Len(us)) |->
                     IF p \in DOMAIN f THEN f[p] ELSE new[p - Len(issued)]]
    IN  /\ Len(issued) + Len(us) <= conf.pins
        /\ internalPWRs' = at(internalPWRs)
        /\ issued' = issued \o new

\* AdminPasswordReset: it ends at the first user Jellyfin does not find.  Each PIN is sent to a
\* user who can be written to; the answer has the link of the only user asked for, or of the
\* only one who cannot.
AdminPasswordReset(us) ==
    \E k \in 0..Len(us) :
        LET part   == SubSeq(us, 1, k)
            pin(i) == Len(issued) + i
            linked == {i \in 1..k : part[i] \notin WithAddress \/ Len(us) = 1}
            link   == IF k = Len(us) /\ Cardinality(linked) = 1 THEN {pin(i) : i \in linked} ELSE {}
            sent   == {pin(i) : i \in {j \in 1..k : part[j] \in WithAddress}}
        IN  /\ GenInternalReset(part)
            /\ \/ known' = known \cup link \cup sent /\ UNCHANGED resetFailures
               \/ sent # {} /\ MayFail /\ known' = known \cup link
            /\ UNCHANGED <<moment, conf, fileResets, pwrCaptchas, copied, password, ombi, request,
                           useVars, overlapped, spoiled, shown, lostCaptchas, captchas, resetStarts>>

\* ResetMyPassword, for a user that was found.
ResetMyPassword(u) ==
    /\ GenInternalReset(<<u>>)
    /\ \/ known' = known \cup (IF u \in WithAddress THEN {Len(issued) + 1} ELSE {})
          /\ UNCHANGED resetFailures
       \/ MayFail /\ UNCHANGED known
    /\ UNCHANGED <<moment, conf, fileResets, pwrCaptchas, copied, password, ombi, request, useVars,
                   overlapped, spoiled, shown, lostCaptchas, captchas, resetStarts>>

\* Jellyfin writes a file, which a monitor reads: validatePWR sends its PIN.
FileReset(u) ==
    LET p == Len(issued) + 1
        pwr == [user |-> u, exp |-> moment + PIN_VALIDITY]
    IN  /\ p <= conf.pins
        /\ fileResets' = With(fileResets, p, pwr)
        /\ issued' = Append(issued, pwr)
        /\ \/ known' = known \cup (IF u \in WithAddress THEN {p} ELSE {}) /\ UNCHANGED resetFailures
           \/ MayFail /\ UNCHANGED known
        /\ UNCHANGED <<moment, conf, internalPWRs, pwrCaptchas, copied, password, ombi, request, useVars,
                       overlapped, spoiled, shown, lostCaptchas, captchas, resetStarts>>

-----------------------------------------------------------------------------
(* Captchas of the page.                                                   *)

\* GenCaptcha: one for each PIN, the latest.
GenCaptcha(p) ==
    /\ conf.captcha /\ conf.set_password /\ captchas < conf.captchas
    /\ captchas' = captchas + 1
    /\ pwrCaptchas' = With(pwrCaptchas, p, [answer |-> captchas + 1, generated |-> moment])
    /\ shown' = With(shown, p, [answer |-> captchas + 1, generated |-> moment])
    /\ lostCaptchas' = IF copied = NotSweeping THEN lostCaptchas \ {p} ELSE lostCaptchas \cup {p}
    /\ UNCHANGED <<moment, conf, internalPWRs, fileResets, copied, password, ombi, request, issued, known,
                   useVars, overlapped, spoiled, resetFailures, resetStarts>>

\* verifyCaptcha, VerifyCaptcha: a captcha can be answered any number of times.
verifyCaptcha(p, answer) ==
    ~conf.captcha \/ (p \in DOMAIN pwrCaptchas /\ pwrCaptchas[p].answer = answer)

\* clearPWRCaptchas copies what is to stay, then puts the copy in place.
SweepCaptchas ==
    /\ conf.captcha
    /\ \/ /\ copied = NotSweeping
          /\ copied' = {Restrict(pwrCaptchas, {p \in DOMAIN pwrCaptchas :
                                     pwrCaptchas[p].generated + CAPTCHA_VALIDITY > moment})}
          /\ UNCHANGED pwrCaptchas
       \/ /\ copied # NotSweeping
          /\ pwrCaptchas' \in copied /\ copied' = NotSweeping
    /\ UNCHANGED <<moment, conf, internalPWRs, fileResets, password, ombi, request, useVars, overlapped,
                   spoiled, historyVars, captchas, resetFailures, resetStarts>>

-----------------------------------------------------------------------------
(* The link and the request of its page.                                   *)

\* A request goes on with the PIN of a user: it was found now.
Begin(c, p, via, new) ==
    /\ request' = [request EXCEPT ![c] =
                      [step |-> IF p \in DOMAIN internalPWRs THEN "reset" ELSE "file",
                       via |-> via, pin |-> p, at |-> moment, new |-> new]]
    /\ overlapped' = IF \E d \in Clients : Active(d) /\ request[d].pin = p
                     THEN overlapped \cup {p} ELSE overlapped

\* ResetPassword (views.go): the page only asks for a password, where it may be set.
OpenLink(c, p) ==
    /\ ~conf.set_password /\ ~Active(c) /\ p \in known
    /\ p \in DOMAIN internalPWRs => internalPWRs[p].exp >= moment
    /\ Begin(c, p, "link", PIN(p))
    /\ UNCHANGED <<moment, conf, internalPWRs, fileResets, pwrCaptchas, copied, password, ombi, useVars,
                   spoiled, historyVars, captchas, resetFailures, resetStarts>>

\* ResetSetPassword (api.go): a PIN that expired is dropped.
ResetSetPassword(c, p, new, answer) ==
    /\ conf.set_password /\ ~Active(c) /\ p \in known
    /\ conf.validate => new # Blank
    /\ verifyCaptcha(p, answer)
    /\ IF p \in DOMAIN internalPWRs /\ internalPWRs[p].exp < moment
       THEN internalPWRs' = Without(internalPWRs, {p}) /\ UNCHANGED <<request, overlapped>>
       ELSE Begin(c, p, "page", new) /\ UNCHANGED internalPWRs
    /\ UNCHANGED <<moment, conf, fileResets, pwrCaptchas, copied, password, ombi, useVars, spoiled,
                   historyVars, captchas, resetFailures, resetStarts>>

Goes(c, step) == request' = [request EXCEPT ![c].step = step]
Finished(c) == request' = [request EXCEPT ![c] = NoRequest]
Spoils(u) == spoiled' = spoiled \cup {u}
Changed(c, u, value) ==
    /\ password' = [password EXCEPT ![u] = value]
    /\ changedBy' = [changedBy EXCEPT ![u] = @ \cup {[pin |-> request[c].pin, at |-> request[c].at]}]
\* A request of the page has used its PIN.
Uses(c) ==
    IF request[c].via = "page"
    THEN /\ usedUp' = usedUp \cup {request[c].pin}
         /\ reused' = reused \cup ({request[c].pin} \cap usedUp)
    ELSE UNCHANGED <<usedUp, reused>>

\* The page drops the PIN it has used; the link does not.
Remaining_All(r) == internalPWRs
Remaining(r) == IF r.via = "page" THEN Without(internalPWRs, {r.pin}) ELSE internalPWRs

\* ResetPasswordAdmin: the link goes on even when it failed.
ResetAdmin(c) ==
    LET r == request[c]  u == issued[r.pin].user
    IN  /\ Active(c) /\ r.step = "reset"
        /\ \/ /\ Changed(c, u, Blank) /\ Uses(c)
              /\ internalPWRs' = Remaining(r)
              /\ Goes(c, "set")
              /\ UNCHANGED <<spoiled, resetFailures>>
           \/ /\ MayFail /\ Spoils(u)
              /\ IF r.via = "page" THEN Finished(c) ELSE Goes(c, "ombi")
              /\ UNCHANGED <<password, changedBy, usedUp, reused, internalPWRs>>
        /\ UNCHANGED <<moment, conf, fileResets, pwrCaptchas, copied, ombi, overlapped, historyVars,
                       captchas, resetStarts>>

\* ResetPassword at Jellyfin, which makes a PIN it wrote the password, once.
ResetByFile(c) ==
    LET r == request[c]  u == issued[r.pin].user
    IN  /\ Active(c) /\ r.step = "file"
        /\ \/ /\ r.pin \in DOMAIN fileResets /\ fileResets[r.pin].exp >= moment
              /\ fileResets' = Without(fileResets, {r.pin})
              /\ Changed(c, u, PIN(r.pin)) /\ Uses(c)
              /\ CASE r.via = "link" -> Goes(c, "ombi") /\ UNCHANGED spoiled
                   [] r.new = Blank  -> Finished(c) /\ Spoils(u)
                   [] OTHER          -> Goes(c, "set") /\ UNCHANGED spoiled
              /\ UNCHANGED resetFailures
           \/ /\ \/ r.pin \notin DOMAIN fileResets /\ UNCHANGED resetFailures
                 \/ r.pin \in DOMAIN fileResets /\ fileResets[r.pin].exp < moment /\ UNCHANGED resetFailures
                 \/ MayFail
              /\ Finished(c)
              /\ UNCHANGED <<fileResets, password, changedBy, usedUp, reused, spoiled>>
        /\ UNCHANGED <<moment, conf, internalPWRs, pwrCaptchas, copied, ombi, overlapped, historyVars,
                       captchas, resetStarts>>

\* The user is read and SetPassword called; either may fail.
SetPassword(c) ==
    LET r == request[c]  u == issued[r.pin].user
    IN  /\ Active(c) /\ r.step = "set"
        /\ \/ /\ Changed(c, u, r.new) /\ Goes(c, "ombi")
              /\ UNCHANGED <<spoiled, resetFailures>>
           \/ /\ MayFail /\ Spoils(u)
              /\ IF r.via = "page" THEN Finished(c) ELSE Goes(c, "ombi")
              /\ UNCHANGED <<password, changedBy>>
        /\ UNCHANGED <<moment, conf, internalPWRs, fileResets, pwrCaptchas, copied, ombi, usedUp, reused,
                       overlapped, historyVars, captchas, resetStarts>>

\* The password of Ombi follows; its failure is not told.
SetOmbi(c) ==
    LET r == request[c]  u == issued[r.pin].user
    IN  /\ Active(c) /\ r.step = "ombi"
        /\ Finished(c)
        /\ \/ ombi' = [ombi EXCEPT ![u] = r.new] /\ UNCHANGED <<spoiled, resetFailures>>
           \/ MayFail /\ Spoils(u) /\ UNCHANGED ombi
        /\ UNCHANGED <<moment, conf, internalPWRs, fileResets, pwrCaptchas, copied, password, useVars,
                       overlapped, historyVars, captchas, resetStarts>>

-----------------------------------------------------------------------------
\* PINs, captchas and requests are in memory only.
RestartResets ==
    /\ resetStarts < MaxResetStarts /\ resetStarts' = resetStarts + 1
    /\ internalPWRs' = <<>> /\ pwrCaptchas' = <<>> /\ copied' = NotSweeping
    /\ request' = [c \in Clients |-> NoRequest]
    /\ spoiled' = spoiled \cup {issued[request[c].pin].user : c \in {d \in Clients : Active(d)}}
    /\ lostCaptchas' = lostCaptchas \cup DOMAIN shown
    /\ UNCHANGED <<moment, conf, fileResets, password, ombi, issued, known, useVars, overlapped, shown,
                   captchas, resetFailures>>

MomentPasses ==
    /\ moment < LastMoment /\ moment' = moment + 1
    /\ UNCHANGED <<conf, internalPWRs, fileResets, pwrCaptchas, copied, password, ombi, request, useVars,
                   overlapped, spoiled, historyVars, captchas, resetFailures, resetStarts>>

UserLists == {<<u>> : u \in Users} \cup {<<u, v>> : u, v \in Users}

ResetsNext ==
    \/ \E us \in UserLists : AdminPasswordReset(us)
    \/ \E u \in Users : ResetMyPassword(u) \/ FileReset(u)
    \/ \E p \in known : GenCaptcha(p)
    \/ SweepCaptchas
    \/ \E c \in Clients :
          \/ \E p \in known :
                \/ OpenLink(c, p)
                \/ \E new \in {Blank, Chosen(p)} : \E answer \in 0..captchas :
                       ResetSetPassword(c, p, new, answer)
          \/ ResetAdmin(c) \/ ResetByFile(c) \/ SetPassword(c) \/ SetOmbi(c)
    \/ RestartResets \/ MomentPasses

-----------------------------------------------------------------------------
Busy(u) == \E c \in Clients : Active(c) /\ issued[request[c].pin].user = u
Mixed(u) == \E p \in overlapped : issued[p].user = u
TwoPins(u) == Cardinality({ch.pin : ch \in changedBy[u]}) > 1

\* ResetSetPassword and the link (api.go:107, views.go:377): a password is changed only with a
\* PIN issued for that user that had not expired when the request found it, and with a PIN of
\* the page in one request, unless two of them overlap.
PinsHonoured ==
    /\ \A u \in Users : \A ch \in changedBy[u] :
          issued[ch.pin].user = u /\ ch.at <= issued[ch.pin].exp
    /\ reused \subseteq overlapped

\* What a reset leaves behind (api.go:143): a blank password only where the user chose one, a
\* request is under way, or one failed half-way; otherwise Ombi has the same password.
PasswordsWhole ==
    \A u \in Users : ~Busy(u) /\ u \notin spoiled /\ ~Mixed(u) =>
        /\ password[u] = Blank => ~conf.validate
        /\ ~TwoPins(u) => ombi[u] = password[u]

\* A captcha that was shown can be answered until it is old, unless the process restarted or
\* it was made while a sweep copied the others (clearPWRCaptchas, housekeeping-d.go:84).
CaptchasAnswerable ==
    \A p \in DOMAIN shown :
        \/ verifyCaptcha(p, shown[p].answer)
        \/ shown[p].generated + CAPTCHA_VALIDITY <= moment
        \/ p \in lostCaptchas

ResetsGuarded == PinsHonoured /\ PasswordsWhole /\ CaptchasAnswerable

=============================================================================
