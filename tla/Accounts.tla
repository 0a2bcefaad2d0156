------------------------------ MODULE Accounts ------------------------------
(***************************************************************************)
(* Accounts and the one-time codes that open them:                         *)
(* src/src/auth/auth.service.ts (codes, registration, password reset,      *)
(* Google), src/src/user/user.service.ts and the cached account of         *)
(* src/src/auth/strategies/jwt.strategy.ts.                                *)
(*                                                                         *)
(* A code is kept twice: in the table email_otps and, as a fallback, in    *)
(* the cache.  A call is a sequence of actions, one per query or cache     *)
(* operation; Sessions adds tokens and the sign-in with a password.        *)
(***************************************************************************)
EXTENDS Integers, Sequences, FiniteSets

CONSTANTS
    Emails,        \* e-mail addresses as they are stored
    Lower(_),      \* toLowerCase
    Phones,        \* phone numbers
    InitUsers,     \* the accounts that exist at first, a sequence of rows
    InitLetters,   \* the codes drawn before, a sequence of letters
    Changes,       \* bodies of updateProfile and updateUserByAdmin
    Workers,       \* bound: calls in progress at the same time
    MaxCalls,      \* bound: number of calls
    MaxTimeouts,   \* bound: number of codes, keys and tokens that time out
    MaxFailures,   \* bound: calls that die, and deletes that fail
    None           \* undefined / NULL

Mailboxes == {Lower(e) : e \in Emails}

\* A body names the columns it changes.
ChangeDtos == [email : Emails \cup {None}, phone : Phones \cup {None},
               active : BOOLEAN \cup {None}]

\* hash: a password is set; active stands for role and isActive.
UserRows == [email : Emails, phone : Phones \cup {None}, hash : BOOLEAN, active : BOOLEAN]

Letters == [to : Mailboxes, mailed : BOOLEAN, expired : BOOLEAN, uses : Nat]

\* The last code that was sent to a mailbox before, or 0.
LastTo(e) ==
    LET sent == {c \in DOMAIN InitLetters : InitLetters[c].to = e}
    IN IF sent = {} THEN 0 ELSE CHOOSE c \in sent : \A d \in sent : d <= c

ASSUME AccountsAssumption ==
    /\ Mailboxes \subseteq Emails
    /\ \A e \in Mailboxes : Lower(e) = e
    /\ None \notin Emails /\ None \notin Phones /\ None \notin BOOLEAN
    /\ InitUsers \in Seq(UserRows)
    /\ InitLetters \in Seq(Letters)
    /\ \A c \in DOMAIN InitLetters :    \* the codes that are still stored are unused
          /\ InitLetters[c].mailed /\ InitLetters[c].uses <= 1
          /\ LastTo(InitLetters[c].to) = c => InitLetters[c].uses = 0
    /\ Changes \subseteq ChangeDtos
    /\ MaxCalls \in Nat /\ MaxTimeouts \in Nat /\ MaxFailures \in Nat
    /\ IsFiniteSet(Workers) /\ Workers # {}

VARIABLES
    users,       \* the users table; the id of an account is its position
    letters,     \* the codes drawn so far: to whom, sent yet, expired, times accepted
    otps,        \* the email_otps table: the code per mailbox, or 0
    otpCache,    \* the cache keys otp:*, or 0
    accounts,    \* the cache keys users:id:*
    calls,       \* per worker: where its handler stands and what it has read
    begun,       \* number of calls so far
    timeouts,    \* number of time-outs so far
    failures,    \* number of failures so far
    overlapped,  \* history: calls have overlapped
    disturbed    \* history: calls have overlapped, or something has failed or
                 \* timed out in the middle of one

codes == <<letters, otps, otpCache>>

bounds == <<begun, timeouts, failures, overlapped>>

accountVars == <<users, codes, accounts>>
-----------------------------------------------------------------------------
(* Rows, cache entries and calls *)

Users == DOMAIN users

\* Ids the table may hand out: a call creates at most one account.
UserIds == 1 .. Len(InitUsers) + MaxCalls

NoAccount == [email |-> None, active |-> FALSE]

Entries == [email : Emails, active : BOOLEAN]

\* What is cached of an account.
Account(u) == [email |-> users[u].email, active |-> users[u].active]

Ops == {"none", "send", "register", "reset", "change", "update", "create", "google",
        "validate", "login", "refresh", "logout"}

\* code is the one the form gives, row and the one found in the table;
\* child, count, ip and right belong to Sessions.
Idle == [op |-> "none", pc |-> "idle", user |-> 0, email |-> None, phone |-> None,
         active |-> None, code |-> 0, row |-> 0, view |-> NoAccount,
         token |-> 0, child |-> 0, count |-> 0, ip |-> None, right |-> FALSE]

AccountsInit ==
    /\ users = InitUsers
    /\ letters = InitLetters
    /\ otps = [e \in Mailboxes |-> LastTo(e)]
    /\ otpCache = otps
    /\ accounts = [u \in UserIds |-> NoAccount]
    /\ calls = [w \in Workers |-> Idle]
    /\ begun = 0
    /\ timeouts = 0
    /\ failures = 0
    /\ overlapped = FALSE
    /\ disturbed = FALSE

Quiet == \A w \in Workers : calls[w].pc = "idle"

At(w, pc) == calls[w].pc = pc

\* A free worker takes a call.  Bound: MaxCalls.
Begin(w, call) ==
    /\ At(w, "idle")
    /\ begun < MaxCalls
    /\ begun' = begun + 1
    /\ calls' = [calls EXCEPT ![w] = call]
    /\ overlapped' = (overlapped \/ ~Quiet)
    /\ disturbed' = (disturbed \/ ~Quiet)
    /\ UNCHANGED <<timeouts, failures>>

Continue(w, call) == calls' = [calls EXCEPT ![w] = call] /\ UNCHANGED <<bounds, disturbed>>

Goto(w, pc) == Continue(w, [calls[w] EXCEPT !.pc = pc])

Return(w) == Continue(w, Idle)

UserOf(e) == {u \in Users : users[u].email = e}

OwnerOf(p) == {u \in Users : users[u].phone = p}
-----------------------------------------------------------------------------
(* Drawing a code: sendRegisterOtp, sendForgotPasswordOtp, sendPasswordOtp *)

SendRegisterOtp(w, e, p) ==
    /\ UserOf(e) = {}
    /\ Begin(w, [Idle EXCEPT !.op = "send", !.email = e, !.phone = p,
                             !.pc = IF p = None THEN "storeCode" ELSE "checkPhone"])
    /\ UNCHANGED accountVars

SendForgotPasswordOtp(w, e) ==
    /\ UserOf(e) # {}
    /\ Begin(w, [Idle EXCEPT !.op = "send", !.email = e, !.pc = "storeCode"])
    /\ UNCHANGED accountVars

SendPasswordOtp(w, u) ==
    /\ Begin(w, [Idle EXCEPT !.op = "send", !.email = Lower(users[u].email),
                             !.pc = "storeCode"])
    /\ UNCHANGED accountVars

\* Two codes drawn at random are taken to differ.
StoreCode(w) ==
    /\ At(w, "storeCode")
    /\ LET e == calls[w].email
           c == Len(letters) + 1
       IN /\ letters' = Append(letters, [to |-> e, mailed |-> FALSE, expired |-> FALSE,
                                         uses |-> 0])
          /\ otps' = [otps EXCEPT ![e] = c]
          /\ Continue(w, [calls[w] EXCEPT !.pc = "cacheCode", !.code = c])
    /\ UNCHANGED <<users, otpCache, accounts>>

CacheCode(w) ==
    /\ At(w, "cacheCode")
    /\ otpCache' = [otpCache EXCEPT ![calls[w].email] = calls[w].code]
    /\ Goto(w, "mail")
    /\ UNCHANGED <<users, letters, otps, accounts>>

Mail(w) ==
    /\ At(w, "mail")
    /\ letters' = [letters EXCEPT ![calls[w].code].mailed = TRUE]
    /\ Return(w)
    /\ UNCHANGED <<users, otps, otpCache, accounts>>

\* Bound: MaxTimeouts.
TimeOut ==
    /\ timeouts < MaxTimeouts
    /\ timeouts' = timeouts + 1
    /\ UNCHANGED <<calls, begun, failures, overlapped>>

\* Ten minutes have passed: for the row, and for the key of the cache.
CodeExpires(c) ==
    /\ TimeOut
    /\ ~letters[c].expired
    /\ letters' = [letters EXCEPT ![c].expired = TRUE]
    /\ UNCHANGED <<users, otps, otpCache, accounts, disturbed>>

CachedCodeExpires(e) ==
    /\ TimeOut
    /\ otpCache[e] # 0
    /\ otpCache' = [otpCache EXCEPT ![e] = 0]
    /\ UNCHANGED <<users, letters, otps, accounts, disturbed>>
-----------------------------------------------------------------------------
(* Giving a code back: register, resetPasswordWithOtp, changePassword *)

Mailed == {c \in DOMAIN letters : letters[c].mailed}

\* A form with a code that was mailed to somebody; any other is refused.
Register(w, e, c, p) ==
    /\ Begin(w, [Idle EXCEPT !.op = "register", !.email = e, !.code = c, !.phone = p,
                             !.row = otps[e], !.pc = "readCached"])
    /\ UNCHANGED accountVars

ResetPassword(w, e, c) ==
    /\ \E u \in UserOf(e) :
          Begin(w, [Idle EXCEPT !.op = "reset", !.user = u, !.email = e, !.code = c,
                                !.pc = "readCode"])
    /\ UNCHANGED accountVars

ChangePassword(w, u, c) ==
    /\ Begin(w, [Idle EXCEPT !.op = "change", !.user = u, !.code = c,
                             !.email = Lower(users[u].email), !.pc = "readCode"])
    /\ UNCHANGED accountVars

ReadCode(w) ==
    /\ At(w, "readCode")
    /\ Continue(w, [calls[w] EXCEPT !.pc = "readCached", !.row = otps[calls[w].email]])
    /\ UNCHANGED accountVars

\* The cache is asked only if the table has no row.
Valid(c, row, cached) ==
    IF row # 0 THEN row = c /\ ~letters[row].expired ELSE cached = c

\* mutation: a form with another code uses the code up
ReadCached_Burns(w) ==
    /\ At(w, "readCached")
    /\ LET call == calls[w] IN
         IF ~Valid(call.code, call.row, otpCache[call.email])
         THEN otps' = [otps EXCEPT ![call.email] = 0] /\ Return(w)
         ELSE /\ Goto(w, IF call.op = "register" THEN "checkEmail" ELSE "setPassword")
              /\ UNCHANGED otps
    /\ UNCHANGED <<users, letters, otpCache, accounts>>

ReadCached(w) ==
    /\ At(w, "readCached")
    /\ IF ~Valid(calls[w].code, calls[w].row, otpCache[calls[w].email]) THEN Return(w)
       ELSE Goto(w, IF calls[w].op = "register" THEN "checkEmail" ELSE "setPassword")
    /\ UNCHANGED accountVars

\* One more use of the code that a call gave.
Used(c) == [letters EXCEPT ![c].uses = @ + 1]

\* reset finds the account by its address once more, change by its id.
SetPassword(w) ==
    /\ At(w, "setPassword")
    /\ LET call == calls[w]
           rows == IF call.op = "reset" THEN UserOf(call.email) ELSE {call.user}
       IN IF rows = {} THEN Return(w) /\ UNCHANGED <<users, letters>>
          ELSE /\ \E u \in rows : users' = [users EXCEPT ![u].hash = TRUE]
               /\ letters' = Used(call.code)
               /\ Goto(w, "dropCode")
    /\ UNCHANGED <<otps, otpCache, accounts>>

\* The row is deleted by its address, whatever code it holds by now.
DropCode(w) ==
    /\ At(w, "dropCode")
    /\ otps' = [otps EXCEPT ![calls[w].email] = 0]
    /\ Goto(w, "dropCachedCode")
    /\ UNCHANGED <<users, letters, otpCache, accounts>>

\* mutation: the cached copy of a used code is left behind
DropCachedCode_Forgotten(w) ==
    /\ At(w, "dropCachedCode")
    /\ IF calls[w].op = "register" THEN Goto(w, "newToken") ELSE Return(w)
    /\ UNCHANGED accountVars

DropCachedCode(w) ==
    /\ At(w, "dropCachedCode")
    /\ otpCache' = [otpCache EXCEPT ![calls[w].email] = 0]
    /\ IF calls[w].op = "register" THEN Goto(w, "newToken") ELSE Return(w)
    /\ UNCHANGED <<users, letters, otps, accounts>>

\* Both deletes end in .catch(() => null).
DropFails(w) ==
    /\ calls[w].pc \in {"dropCode", "dropCachedCode"}
    /\ failures < MaxFailures
    /\ failures' = failures + 1
    /\ disturbed' = TRUE
    /\ calls' = [calls EXCEPT ![w] =
           IF At(w, "dropCode") THEN [@ EXCEPT !.pc = "dropCachedCode"]
           ELSE IF calls[w].op = "register" THEN [@ EXCEPT !.pc = "newToken"] ELSE Idle]
    /\ UNCHANGED <<accountVars, begun, timeouts, overlapped>>
-----------------------------------------------------------------------------
(* Accounts: the unique columns, creation and edits *)

\* The write that a call that checks the columns is about to make.
Write(op) ==
    CASE op = "send" -> "storeCode"
      [] op = "update" -> "updateUser"
      [] OTHER -> "createUser"

\* validateUniqueFields; register does the same for itself.
CheckEmail(w) ==
    /\ At(w, "checkEmail")
    /\ IF UserOf(calls[w].email) \ {calls[w].user} # {} THEN Return(w)
       ELSE Goto(w, IF calls[w].phone = None THEN Write(calls[w].op) ELSE "checkPhone")
    /\ UNCHANGED accountVars

CheckPhone(w) ==
    /\ At(w, "checkPhone")
    /\ IF OwnerOf(calls[w].phone) \ {calls[w].user} # {} THEN Return(w)
       ELSE Goto(w, Write(calls[w].op))
    /\ UNCHANGED accountVars

\* email and phone_number are unique: a second row with one of them is refused.
Taken(row, u) ==
    \E v \in Users \ {u} : \/ users[v].email = row.email
                           \/ row.phone # None /\ users[v].phone = row.phone

CreateUserByAdmin(w, e, p, b) ==
    /\ UserOf(e) = {}
    /\ Begin(w, [Idle EXCEPT !.op = "create", !.email = e, !.phone = p, !.active = b,
                             !.pc = "checkPhone"])
    /\ UNCHANGED accountVars

\* mutation: a column that the body leaves out is overwritten
Given_Unchecked(new, old) == new

Given(new, old) == IF new = None THEN old ELSE new

\* A sign-in with Google creates an account without password and phone number.
NewRow(call) == [email |-> call.email, phone |-> call.phone, hash |-> call.op # "google",
                 active |-> Given(call.active, TRUE)]

CreateUser(w) ==
    /\ At(w, "createUser")
    /\ LET call == calls[w] IN
         IF Taken(NewRow(call), 0) THEN Return(w) /\ UNCHANGED <<users, letters>>
         ELSE /\ users' = Append(users, NewRow(call))
              /\ letters' = IF call.op = "register" THEN Used(call.code) ELSE letters
              /\ IF call.op = "create" THEN Return(w)
                 ELSE Continue(w, [call EXCEPT !.user = Len(users) + 1,
                          !.pc = IF call.op = "register" THEN "dropCode" ELSE "newToken"])
    /\ UNCHANGED <<otps, otpCache, accounts>>

\* googleLogin: the first sign-in of an address creates its account.
GoogleLogin(w, e) ==
    /\ \/ /\ UserOf(e) = {}
          /\ Begin(w, [Idle EXCEPT !.op = "google", !.email = e, !.pc = "createUser"])
       \/ \E u \in UserOf(e) :
             /\ users[u].active
             /\ Begin(w, [Idle EXCEPT !.op = "google", !.user = u, !.pc = "newToken"])
    /\ UNCHANGED accountVars

\* The part of a body that differs from the row.
Changed(new, old) == IF new = old THEN None ELSE new

\* updateProfile and updateUserByAdmin; only the latter names active.
UpdateUser(w, u, ch) ==
    /\ LET email == Changed(ch.email, users[u].email)
           phone == Changed(ch.phone, users[u].phone)
       IN Begin(w, [Idle EXCEPT !.op = "update", !.user = u, !.email = email,
                    !.phone = phone, !.active = ch.active,
                    !.pc = IF email # None THEN "checkEmail"
                           ELSE IF phone # None THEN "checkPhone" ELSE "updateUser"])
    /\ UNCHANGED accountVars

UpdateWrite(w) ==
    /\ At(w, "updateUser")
    /\ LET u == calls[w].user
           row == [users[u] EXCEPT !.email = Given(calls[w].email, @),
                                   !.phone = Given(calls[w].phone, @),
                                   !.active = Given(calls[w].active, @)]
       IN IF Taken(row, u) THEN Return(w) /\ UNCHANGED users
          ELSE users' = [users EXCEPT ![u] = row] /\ Goto(w, "dropAccount")
    /\ UNCHANGED <<codes, accounts>>

\* mutation: the key of the account is not deleted
DropAccount_Forgotten(w) ==
    /\ At(w, "dropAccount")
    /\ Return(w)
    /\ UNCHANGED accountVars

DropAccount(w) ==
    /\ At(w, "dropAccount")
    /\ accounts' = [accounts EXCEPT ![calls[w].user] = NoAccount]
    /\ Return(w)
    /\ UNCHANGED <<users, codes>>
-----------------------------------------------------------------------------
(* The account that each request is checked against: JwtStrategy.validate *)

\* A request whose account is cached is served from the cache.
Validate(w, u) ==
    /\ accounts[u] = NoAccount
    /\ Begin(w, [Idle EXCEPT !.op = "validate", !.user = u, !.pc = "readAccount"])
    /\ UNCHANGED accountVars

ReadAccount(w) ==
    /\ At(w, "readAccount")
    /\ Continue(w, [calls[w] EXCEPT !.pc = "fillAccount", !.view = Account(calls[w].user)])
    /\ UNCHANGED accountVars

FillAccount(w) ==
    /\ At(w, "fillAccount")
    /\ accounts' = [accounts EXCEPT ![calls[w].user] = calls[w].view]
    /\ Return(w)
    /\ UNCHANGED <<users, codes>>

\* Five minutes have passed.
AccountExpires(u) ==
    /\ TimeOut
    /\ accounts[u] # NoAccount
    /\ accounts' = [accounts EXCEPT ![u] = NoAccount]
    /\ UNCHANGED <<users, codes, disturbed>>
-----------------------------------------------------------------------------
AccountsStart(w) ==
    \/ \E e \in Mailboxes : SendForgotPasswordOtp(w, e)
    \/ \E e \in Mailboxes, p \in Phones \cup {None} : SendRegisterOtp(w, e, p)
    \/ \E e \in Mailboxes, c \in Mailed, p \in Phones : Register(w, e, c, p)
    \/ \E e \in Mailboxes, c \in Mailed : ResetPassword(w, e, c)
    \/ \E u \in Users, c \in Mailed : ChangePassword(w, u, c)
    \/ \E u \in Users : SendPasswordOtp(w, u) \/ Validate(w, u)
    \/ \E u \in Users, ch \in Changes : UpdateUser(w, u, ch)
    \/ \E e \in Emails, p \in Phones, b \in BOOLEAN : CreateUserByAdmin(w, e, p, b)
    \/ \E e \in Emails : GoogleLogin(w, e)

\* The steps of a call in progress.
AccountsStep(w) ==
    \/ StoreCode(w)
    \/ CacheCode(w)
    \/ Mail(w)
    \/ ReadCode(w)
    \/ ReadCached(w)
    \/ SetPassword(w)
    \/ DropCode(w)
    \/ DropCachedCode(w)
    \/ DropFails(w)
    \/ CheckEmail(w)
    \/ CheckPhone(w)
    \/ CreateUser(w)
    \/ UpdateWrite(w)
    \/ DropAccount(w)
    \/ ReadAccount(w)
    \/ FillAccount(w)

TimePasses ==
    \/ \E c \in DOMAIN letters : CodeExpires(c)
    \/ \E e \in Mailboxes : CachedCodeExpires(e)
    \/ \E u \in UserIds : AccountExpires(u)
-----------------------------------------------------------------------------
(* Properties *)

\* Every variable of this module has its type (auth.service.ts, user.service.ts).
AccountsTypeOK ==
    /\ users \in Seq(UserRows) /\ Len(users) <= Len(InitUsers) + begun
    /\ letters \in Seq(Letters)
    /\ \A e \in Mailboxes : {otps[e], otpCache[e]} \subseteq {0} \cup DOMAIN letters
    /\ accounts \in [UserIds -> Entries \cup {NoAccount}]
    /\ \A w \in Workers : calls[w].op \in Ops
    /\ begun <= MaxCalls /\ timeouts <= MaxTimeouts /\ failures <= MaxFailures
    /\ overlapped \in BOOLEAN /\ disturbed \in BOOLEAN
=============================================================================
