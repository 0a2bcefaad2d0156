------------------------------ MODULE Sessions ------------------------------
(***************************************************************************)
(* Refresh tokens and the sign-in with a password, on top of Accounts:     *)
(* src/src/auth/auth.service.ts (login, buildTokenResponse, refresh,       *)
(* logout) and the counters of failed sign-ins of                          *)
(* src/src/common/services/abuse.service.ts.                               *)
(*                                                                         *)
(* A refresh token is good for one use: refresh stores its successor and   *)
(* then revokes it.  A session is a token made at a sign-in with all its   *)
(* successors.                                                             *)
(***************************************************************************)
EXTENDS Accounts

CONSTANTS
    Ips,           \* client addresses
    LoginLimit,    \* failed sign-ins that lock an address or a client out (5)
    InitTokens     \* the refresh tokens that exist at first, a sequence of rows

\* of: the account; parent: the token this one replaces, 0 after a sign-in.
TokenRows == [of : Nat \ {0}, parent : Nat, root : Nat \ {0}, revoked : BOOLEAN,
              expired : BOOLEAN, given : BOOLEAN]

\* The tokens at first are what calls that did not overlap have left.
ASSUME SessionsAssumption ==
    /\ InitTokens \in Seq(TokenRows)
    /\ \A t \in DOMAIN InitTokens :
          LET row == InitTokens[t] IN
          /\ row.of \in DOMAIN InitUsers
          /\ row.parent \in 0 .. t - 1 /\ row.root \in 1 .. t
          /\ row.parent # 0 => InitTokens[row.parent].revoked
          /\ \A s \in DOMAIN InitTokens \ {t} :
                /\ InitTokens[s].parent = row.parent => row.parent = 0
                /\ InitTokens[s].root = row.root => InitTokens[s].revoked \/ row.revoked
    /\ LoginLimit \in Nat
    /\ Ips \cap Emails = {}

VARIABLES
    tokens,      \* the refresh_tokens table; root and given are history
    fails,       \* the cache keys login:fail:*, per address and per client
    failed       \* history: failed sign-ins since the last good one or time-out

sessionVars == <<tokens, fails, failed>>

vars == <<accountVars, sessionVars, calls, bounds, disturbed>>
-----------------------------------------------------------------------------
Tokens == DOMAIN tokens

LoginKeys == Mailboxes \cup Ips

Init ==
    /\ AccountsInit
    /\ tokens = InitTokens
    /\ fails = [k \in LoginKeys |-> 0]
    /\ failed = [k \in LoginKeys |-> 0]
-----------------------------------------------------------------------------
(* login *)

\* mutation: one failure more is let through
LockedOut_OffByOne(n) == n > LoginLimit

LockedOut(n) == n >= LoginLimit

\* right: the password is that of the account.  A locked address is refused.
Login(w, e, ip, right) ==
    /\ ~LockedOut(fails[e])
    /\ Begin(w, [Idle EXCEPT !.op = "login", !.email = e, !.ip = ip, !.right = right,
                             !.pc = "checkIp"])
    /\ UNCHANGED <<accountVars, sessionVars>>

CheckIp(w) ==
    /\ At(w, "checkIp")
    /\ IF LockedOut(fails[calls[w].ip]) THEN Return(w) ELSE Goto(w, "findUser")
    /\ UNCHANGED <<accountVars, sessionVars>>

\* The two keys of a sign-in.
KeysOf(call) == {call.email, call.ip}

\* An account that was deactivated counts neither as a failure nor as a success.
FindUser(w) ==
    /\ At(w, "findUser")
    /\ LET call == calls[w]
           good == {u \in UserOf(call.email) : users[u].hash /\ call.right}
           refused == \E u \in good : ~users[u].active
           reset == [k \in LoginKeys |-> IF k \in KeysOf(call) THEN 0 ELSE failed[k]]
           more == [k \in LoginKeys |-> IF k \in KeysOf(call) THEN failed[k] + 1
                                        ELSE failed[k]]
       IN \/ good = {} /\ failed' = more /\ Goto(w, "readEmailFails")
          \/ refused /\ Return(w) /\ UNCHANGED failed
          \/ \E u \in good : /\ users[u].active
                             /\ failed' = reset
                             /\ Continue(w, [call EXCEPT !.user = u, !.pc = "resetEmail"])
    /\ UNCHANGED <<accountVars, tokens, fails>>

\* incrementFailures: a get, then a set of the number read plus one.
ReadFails(w, pc, k, next) ==
    /\ At(w, pc)
    /\ Continue(w, [calls[w] EXCEPT !.pc = next, !.count = fails[k]])
    /\ UNCHANGED <<accountVars, sessionVars>>

WriteFails(w, pc, k, next) ==
    /\ At(w, pc)
    /\ fails' = [fails EXCEPT ![k] = calls[w].count + 1]
    /\ IF next = "idle" THEN Return(w) ELSE Goto(w, next)
    /\ UNCHANGED <<accountVars, tokens, failed>>

RecordLoginFailure(w) ==
    \/ ReadFails(w, "readEmailFails", calls[w].email, "writeEmailFails")
    \/ WriteFails(w, "writeEmailFails", calls[w].email, "readIpFails")
    \/ ReadFails(w, "readIpFails", calls[w].ip, "writeIpFails")
    \/ WriteFails(w, "writeIpFails", calls[w].ip, "idle")

ResetFails(w, pc, k, next) ==
    /\ At(w, pc)
    /\ fails' = [fails EXCEPT ![k] = 0]
    /\ Goto(w, next)
    /\ UNCHANGED <<accountVars, tokens, failed>>

ResetLoginFailures(w) ==
    \/ ResetFails(w, "resetEmail", calls[w].email, "resetIp")
    \/ ResetFails(w, "resetIp", calls[w].ip, "newToken")

\* Fifteen minutes since the last failure that was counted.  In the middle of a
\* call, between its get and its set, this disturbs the count.
FailsExpire(k) ==
    /\ TimeOut
    /\ fails[k] # 0
    /\ fails' = [fails EXCEPT ![k] = 0]
    /\ failed' = [failed EXCEPT ![k] = 0]
    /\ disturbed' = (disturbed \/ ~Quiet)
    /\ UNCHANGED <<accountVars, tokens>>
-----------------------------------------------------------------------------
(* Tokens *)

NewToken(u, parent, root) ==
    [of |-> u, parent |-> parent, root |-> root, revoked |-> FALSE, expired |-> FALSE,
     given |-> FALSE]

\* buildTokenResponse of register, login and googleLogin.
BuildTokenResponse(w) ==
    /\ At(w, "newToken")
    /\ LET t == Len(tokens) + 1 IN
         tokens' = Append(tokens, [NewToken(calls[w].user, 0, t) EXCEPT !.given = TRUE])
    /\ Return(w)
    /\ UNCHANGED <<accountVars, fails, failed>>

\* mutation: a revoked token is refreshed
Refreshable_Revoked(t) == ~tokens[t].expired /\ users[tokens[t].of].active

\* mutation: the account is not looked at
Refreshable_Inactive(t) == ~tokens[t].revoked /\ ~tokens[t].expired

Refreshable(t) ==
    /\ ~tokens[t].revoked
    /\ ~tokens[t].expired
    /\ users[tokens[t].of].active

\* The token was given to somebody; one that is not refreshable is refused.
Refresh(w, t) ==
    /\ tokens[t].given
    /\ Refreshable(t)
    /\ Begin(w, [Idle EXCEPT !.op = "refresh", !.token = t, !.pc = "successor"])
    /\ UNCHANGED <<accountVars, sessionVars>>

CreateSuccessor(w) ==
    /\ At(w, "successor")
    /\ LET t == calls[w].token IN
         /\ tokens' = Append(tokens, NewToken(tokens[t].of, t, tokens[t].root))
         /\ Continue(w, [calls[w] EXCEPT !.pc = "rotate", !.child = Len(tokens) + 1])
    /\ UNCHANGED <<accountVars, fails, failed>>

\* mutation: the used token stays good
Rotate_Forgotten(w) ==
    /\ At(w, "rotate")
    /\ tokens' = [tokens EXCEPT ![calls[w].child].given = TRUE]
    /\ Return(w)
    /\ UNCHANGED <<accountVars, fails, failed>>

\* The used token is revoked, then the answer names the new one.
Rotate(w) ==
    /\ At(w, "rotate")
    /\ tokens' = [tokens EXCEPT ![calls[w].token].revoked = TRUE,
                                ![calls[w].child].given = TRUE]
    /\ Return(w)
    /\ UNCHANGED <<accountVars, fails, failed>>

\* Revoked or not, the row is looked up and then revoked.
Logout(w, t) ==
    /\ tokens[t].given
    /\ Begin(w, [Idle EXCEPT !.op = "logout", !.token = t, !.pc = "revoke"])
    /\ UNCHANGED <<accountVars, sessionVars>>

Revoke(w) ==
    /\ At(w, "revoke")
    /\ tokens' = [tokens EXCEPT ![calls[w].token].revoked = TRUE]
    /\ Return(w)
    /\ UNCHANGED <<accountVars, fails, failed>>

\* Seven days have passed.
TokenExpires(t) ==
    /\ TimeOut
    /\ ~tokens[t].expired
    /\ tokens' = [tokens EXCEPT ![t].expired = TRUE]
    /\ UNCHANGED <<accountVars, fails, failed, disturbed>>
-----------------------------------------------------------------------------
\* A call dies between two awaits.  What it has written stays.
Fail(w) ==
    /\ ~At(w, "idle")
    /\ failures < MaxFailures
    /\ failures' = failures + 1
    /\ disturbed' = TRUE
    /\ calls' = [calls EXCEPT ![w] = Idle]
    /\ UNCHANGED <<accountVars, sessionVars, begun, timeouts, overlapped>>

\* The calls of a free worker; Begin repeats the two guards.
Start(w) ==
    /\ At(w, "idle")
    /\ begun < MaxCalls
    /\ \/ AccountsStart(w) /\ UNCHANGED sessionVars
       \/ \E e \in Mailboxes, ip \in Ips, b \in BOOLEAN : Login(w, e, ip, b)
       \/ \E t \in Tokens : Refresh(w, t) \/ Logout(w, t)

Step(w) ==
    \/ AccountsStep(w) /\ UNCHANGED sessionVars
    \/ CheckIp(w)
    \/ FindUser(w)
    \/ RecordLoginFailure(w)
    \/ ResetLoginFailures(w)
    \/ BuildTokenResponse(w)
    \/ CreateSuccessor(w)
    \/ Rotate(w)
    \/ Revoke(w)

Expire ==
    \/ TimePasses /\ UNCHANGED sessionVars
    \/ \E k \in LoginKeys : FailsExpire(k)
    \/ \E t \in Tokens : TokenExpires(t)

Next ==
    \/ \E w \in Workers : Start(w) \/ Step(w) \/ Fail(w)
    \/ Expire

Spec == Init /\ [][Next]_vars
-----------------------------------------------------------------------------
(* Properties *)

\* Every variable has its type (auth.service.ts, user.service.ts,
\* abuse.service.ts, jwt.strategy.ts).
TypeOK ==
    /\ AccountsTypeOK
    /\ tokens \in Seq(TokenRows)
    /\ \A t \in Tokens : tokens[t].of \in Users
    /\ fails \in [LoginKeys -> Nat]
    /\ failed \in [LoginKeys -> Nat]

\* How often a thing may be used that is deleted or revoked only after its use:
\* once, or when calls overlap once by each call that can be in progress, and
\* once more for each failure.
UseLimit == (IF overlapped THEN Cardinality(Workers) ELSE 1) + failures

\* A code is good for one registration or one new password.  Calls that overlap
\* may use it once each, because row and copy are deleted only after the write.
\* A call that dies in between, or whose delete fails, leaves the row or the
\* copy behind, and a copy without a row is taken (auth.service.ts:229-231):
\* each failure makes the code good for one use more, and never for two.
CodeUsesBounded == \A c \in DOMAIN letters : letters[c].uses <= UseLimit

\* As long as nothing is disturbed, the last code that was mailed to an address
\* stays in the table until it has opened an account or a new password: neither
\* a form that is refused nor the sign-up of somebody else takes it away.
MailedCodeWorks ==
    ~disturbed /\ Quiet =>
        \A e \in Mailboxes, c \in Mailed :
            /\ letters[c].to = e /\ letters[c].uses = 0
            /\ \A d \in Mailed : letters[d].to = e => d <= c
            => otps[e] = c

\* The key of an account is deleted after each edit: as long as nothing is
\* disturbed, the account a request is checked against is the stored one.
AccountFresh ==
    ~disturbed /\ Quiet =>
        \A u \in Users : accounts[u] \in {NoAccount, Account(u)}

Live(root) == {t \in Tokens : tokens[t].root = root /\ ~tokens[t].revoked}

\* "rotates it" (auth.controller.ts:285): as long as nothing is disturbed, a
\* session has at most one token that is still good.
OneLiveToken ==
    ~disturbed /\ Quiet => \A t \in Tokens : Cardinality(Live(t)) <= 1

Children(t) == {c \in Tokens : tokens[c].parent = t}

\* refresh looks at the token, stores the successor and then revokes the token:
\* one token has one successor, or when calls overlap one per call that can be
\* in progress, and one more for each call that died in between.
SuccessorsBounded == \A t \in Tokens : Cardinality(Children(t)) <= UseLimit

\* A session that was logged out stays so as long as nothing is disturbed.
SessionStaysEnded ==
    [][~disturbed' => \A t \in Tokens :
           tokens[t].root = t /\ Live(t) = {} => (Live(t) = {})']_vars

\* A token is made only for an account that is active, as long as nothing is
\* disturbed: deactivating an account ends its refreshes and sign-ins.
TokenForActive ==
    [][Len(tokens') > Len(tokens) /\ ~disturbed' =>
           users[tokens'[Len(tokens')].of].active]_vars

\* "Account locked" (abuse.service.ts:70): as long as nothing is disturbed, the
\* counters are the failures since the last good sign-in, and nobody fails
\* more often than the limit.
LockoutExact ==
    ~disturbed /\ Quiet =>
        /\ fails = failed
        /\ \A k \in LoginKeys : failed[k] <= LoginLimit
=============================================================================
