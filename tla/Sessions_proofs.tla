--------------------------- MODULE Sessions_proofs ---------------------------
(***************************************************************************)
(* Theorems about Sessions, for every number of accounts, addresses, codes *)
(* and tokens, any number of overlapping calls, and calls that die.        *)
(***************************************************************************)
EXTENDS Sessions, FiniteSetTheorems, SequenceTheorems, WellFoundedInduction, TLAPS

Steps == {"idle", "checkPhone", "storeCode", "cacheCode", "mail", "readCached", "checkEmail",
          "createUser", "dropCode", "dropCachedCode", "newToken", "readCode", "setPassword",
          "updateUser", "dropAccount", "readAccount", "fillAccount", "checkIp", "findUser",
          "readEmailFails", "writeEmailFails", "readIpFails", "writeIpFails", "resetEmail",
          "resetIp", "successor", "rotate", "revoke"}

CallRows == [op : Ops, pc : Steps, user : Nat, email : Emails \cup {None},
             phone : Phones \cup {None}, active : BOOLEAN \cup {None}, code : Nat, row : Nat,
             view : Entries \cup {NoAccount}, token : Nat, child : Nat, count : Nat,
             ip : Ips \cup {None}, right : BOOLEAN]

\* The steps of each operation.
OnItsWay(op, pc) ==
    /\ op = "none" => pc = "idle"
    /\ op = "send" => pc \in {"checkPhone", "storeCode", "cacheCode", "mail"}
    /\ op = "register" => pc \in {"readCached", "checkEmail", "checkPhone", "createUser",
           "dropCode", "dropCachedCode", "newToken"}
    /\ op \in {"reset", "change"} => pc \in {"readCode", "readCached", "setPassword",
           "dropCode", "dropCachedCode"}
    /\ op = "update" => pc \in {"checkEmail", "checkPhone", "updateUser", "dropAccount"}
    /\ op = "create" => pc \in {"checkPhone", "createUser"}
    /\ op = "google" => pc \in {"createUser", "newToken"}
    /\ op = "validate" => pc \in {"readAccount", "fillAccount"}
    /\ op = "login" => pc \in {"checkIp", "findUser", "readEmailFails", "writeEmailFails",
           "readIpFails", "writeIpFails", "resetEmail", "resetIp", "newToken"}
    /\ op = "refresh" => pc \in {"successor", "rotate"}
    /\ op = "logout" => pc = "revoke"

\* What a call has read by the time it reaches pc, when there are u accounts,
\* l codes and t tokens.
HasRead(call, pc, u, l, t) ==
    /\ call.op = "send" =>
          /\ call.email \in Mailboxes
          /\ pc \in {"cacheCode", "mail"} => call.code \in 1 .. l
    /\ call.op = "register" =>
          /\ call.email \in Mailboxes /\ call.code \in 1 .. l /\ call.active = None
          /\ pc \in {"dropCode", "dropCachedCode", "newToken"} => call.user \in 1 .. u
    /\ call.op \in {"reset", "change"} =>
          call.email \in Mailboxes /\ call.code \in 1 .. l /\ call.user \in 1 .. u
    /\ call.op \in {"update", "validate"} => call.user \in 1 .. u
    /\ call.op = "create" => call.email \in Emails
    /\ call.op = "google" =>
          /\ call.active = None
          /\ pc = "createUser" => call.email \in Emails
          /\ pc = "newToken" => call.user \in 1 .. u
    /\ call.op = "login" =>
          /\ call.email \in Mailboxes /\ call.ip \in Ips
          /\ pc \in {"resetEmail", "resetIp", "newToken"} => call.user \in 1 .. u
    /\ call.op = "refresh" =>
          /\ call.token \in 1 .. t
          /\ pc = "rotate" => call.child \in 1 .. t
    /\ call.op = "logout" => call.token \in 1 .. t

Good(call, u, l, t) ==
    call \in CallRows /\ OnItsWay(call.op, call.pc) /\ HasRead(call, call.pc, u, l, t)

CallsGood == /\ calls \in [Workers -> CallRows]
             /\ \A w \in Workers : Good(calls[w], Len(users), Len(letters), Len(tokens))

\* The tables and the cache.
StoresOK ==
    /\ users \in Seq(UserRows)
    /\ letters \in Seq(Letters)
    /\ otps \in [Mailboxes -> 0 .. Len(letters)]
    /\ otpCache \in [Mailboxes -> 0 .. Len(letters)]
    /\ accounts \in [UserIds -> Entries \cup {NoAccount}]
    /\ tokens \in Seq(TokenRows)
    /\ \A t \in 1 .. Len(tokens) : tokens[t].of \in 1 .. Len(users)
    /\ fails \in [LoginKeys -> Nat]
    /\ failed \in [LoginKeys -> Nat]
    /\ begun \in 0 .. MaxCalls /\ timeouts \in 0 .. MaxTimeouts /\ failures \in 0 .. MaxFailures

TypeInv == StoresOK /\ CallsGood
-----------------------------------------------------------------------------
\* The last code sent to an address, if there is one.
LEMMA CodeLast ==
  ASSUME NEW e \in Mailboxes
  PROVE  /\ LastTo(e) \in 0 .. Len(InitLetters)
         /\ LastTo(e) # 0 => InitLetters[LastTo(e)].to = e
         /\ \A c \in DOMAIN InitLetters : InitLetters[c].to = e => c <= LastTo(e)
<1>. DEFINE n == Len(InitLetters)
            sent == {c \in DOMAIN InitLetters : InitLetters[c].to = e}
            rest == {n - c : c \in sent}
<1>1. n \in Nat /\ DOMAIN InitLetters = 1 .. n
  BY AccountsAssumption, LenProperties
<1>2. CASE sent = {}
  BY <1>1, <1>2 DEF LastTo
<1>3. CASE sent # {}
  <2>1. rest \subseteq Nat /\ rest # {}
    BY <1>1, <1>3
  <2>2. PICK x \in rest : \A y \in rest : <<y, x>> \notin OpToRel(<, Nat)
    BY <2>1, NatLessThanWellFounded, WFMin
  <2>3. PICK c \in sent : x = n - c
    OBVIOUS
  <2>4. ASSUME NEW d \in sent PROVE d <= c
    <3>1. <<n - d, x>> \notin OpToRel(<, Nat) /\ n - d \in Nat /\ x \in Nat
      BY <2>1, <2>2
    <3>2. ~(n - d < x)
      BY <3>1 DEF OpToRel
    <3>. QED BY <1>1, <2>3, <3>2
  <2>5. LastTo(e) = CHOOSE m \in sent : \A d \in sent : d <= m
    BY <1>3 DEF LastTo
  <2>6. LastTo(e) \in sent /\ \A d \in sent : d <= LastTo(e)
    BY <2>4, <2>5
  <2>. QED BY <1>1, <2>6
<1>. QED BY <1>2, <1>3

LEMMA IdleGood ==
  ASSUME NEW u \in Nat, NEW l \in Nat, NEW t \in Nat PROVE Good(Idle, u, l, t) /\ Idle.pc = "idle"
<1>1. Idle.op = "none" /\ Idle.pc = "idle"
  BY DEF Idle
<1>2. Idle \in CallRows
  BY DEF Idle, CallRows, Ops, Steps
<1>. QED BY <1>1, <1>2 DEF Good, OnItsWay, HasRead

LEMMA InitTypeInv == Init => TypeInv
<1> SUFFICES ASSUME Init PROVE TypeInv
  OBVIOUS
<1>. USE AccountsAssumption, SessionsAssumption DEF Init, AccountsInit
<1>1. Len(users) \in Nat /\ Len(letters) \in Nat /\ Len(tokens) \in Nat
  BY LenProperties
<1>2. CallsGood
  <2>1. Idle \in CallRows
    BY <1>1, IdleGood DEF Good
  <2>. QED BY <1>1, <2>1, IdleGood DEF CallsGood
<1>3. otps \in [Mailboxes -> 0 .. Len(letters)]
  BY CodeLast
<1>4. \A t \in 1 .. Len(tokens) : tokens[t].of \in 1 .. Len(users)
  BY LenProperties
<1>5. accounts \in [UserIds -> Entries \cup {NoAccount}]
  OBVIOUS
<1>6. users \in Seq(UserRows) /\ letters \in Seq(Letters) /\ tokens \in Seq(TokenRows)
  OBVIOUS
<1>7. fails \in [LoginKeys -> Nat] /\ failed \in [LoginKeys -> Nat] /\ otpCache = otps
  OBVIOUS
<1>8. /\ begun \in 0 .. MaxCalls /\ timeouts \in 0 .. MaxTimeouts
      /\ failures \in 0 .. MaxFailures
  <2>1. begun = 0 /\ timeouts = 0 /\ failures = 0
    OBVIOUS
  <2>2. MaxCalls \in Nat /\ MaxTimeouts \in Nat /\ MaxFailures \in Nat
    OBVIOUS
  <2>. QED BY ONLY <2>1, <2>2
<1>9. StoresOK
  BY ONLY <1>3, <1>4, <1>5, <1>6, <1>7, <1>8 DEF StoresOK
<1>. QED BY <1>2, <1>9 DEF TypeInv

LEMMA MoreIsGood ==
  ASSUME NEW call, NEW u \in Nat, NEW l \in Nat, NEW t \in Nat,
         NEW u2 \in Nat, NEW l2 \in Nat, NEW t2 \in Nat, u <= u2, l <= l2, t <= t2,
         Good(call, u, l, t)
  PROVE  Good(call, u2, l2, t2)
<1>1. 1 .. u \subseteq 1 .. u2 /\ 1 .. l \subseteq 1 .. l2 /\ 1 .. t \subseteq 1 .. t2
  OBVIOUS
<1>. QED BY ONLY <1>1, Good(call, u, l, t) DEF Good, HasRead

\* No step removes an account, a code or a token.
Grows == /\ Len(users) <= Len(users') /\ Len(letters) <= Len(letters')
         /\ Len(tokens) <= Len(tokens')

LEMMA Lengths ==
  ASSUME StoresOK
  PROVE  /\ Len(users) \in Nat /\ Len(letters) \in Nat /\ Len(tokens) \in Nat
         /\ DOMAIN users = 1 .. Len(users) /\ DOMAIN letters = 1 .. Len(letters)
         /\ DOMAIN tokens = 1 .. Len(tokens)
  BY LenProperties DEF StoresOK

LEMMA UserFields ==
  ASSUME StoresOK, NEW u \in 1 .. Len(users)
  PROVE  /\ users[u] \in UserRows /\ users[u].email \in Emails
         /\ users[u].phone \in Phones \cup {None} /\ users[u].active \in BOOLEAN
<1>1. users \in Seq(UserRows)
  BY DEF StoresOK
<1>2. users[u] \in UserRows
  BY ONLY <1>1, u \in 1 .. Len(users), ElementOfSeq
<1>. QED BY ONLY <1>2 DEF UserRows

LEMMA LengthsNext ==
  ASSUME StoresOK'
  PROVE  /\ Len(users') \in Nat /\ Len(letters') \in Nat /\ Len(tokens') \in Nat
         /\ DOMAIN users' = 1 .. Len(users') /\ DOMAIN letters' = 1 .. Len(letters')
         /\ DOMAIN tokens' = 1 .. Len(tokens')
  BY LenProperties DEF StoresOK

\* One call moves: it is enough to look at that call.
LEMMA StepCalls ==
  ASSUME TypeInv, StoresOK', Grows, NEW w \in Workers, NEW k, calls' = [calls EXCEPT ![w] = k],
         Good(k, Len(users'), Len(letters'), Len(tokens'))
  PROVE  TypeInv'
<1>1. ASSUME NEW v \in Workers PROVE Good(calls'[v], Len(users'), Len(letters'), Len(tokens'))
  <2>1. CASE v = w
    BY <2>1 DEF TypeInv, CallsGood
  <2>2. CASE v # w
    <3>1. calls'[v] = calls[v]
      BY <2>2 DEF TypeInv, CallsGood
    <3>. QED BY <3>1, MoreIsGood, Lengths, LengthsNext DEF TypeInv, CallsGood, Grows
  <2>. QED BY <2>1, <2>2
<1>2. calls' \in [Workers -> CallRows]
  BY DEF TypeInv, CallsGood, Good
<1>. QED BY <1>1, <1>2 DEF TypeInv, CallsGood
-----------------------------------------------------------------------------
LEMMA SameStores ==
  ASSUME StoresOK, UNCHANGED <<accountVars, sessionVars>>, begun' \in 0 .. MaxCalls,
         timeouts' \in 0 .. MaxTimeouts, failures' \in 0 .. MaxFailures
  PROVE  StoresOK' /\ Grows
<1>1. UNCHANGED <<users, letters, otps, otpCache, accounts, tokens, fails, failed>>
  BY DEF accountVars, codes, sessionVars
<1>. QED BY <1>1, Lengths DEF StoresOK, Grows

LEMMA BeginCalls ==
  ASSUME TypeInv, UNCHANGED <<accountVars, sessionVars>>, NEW w \in Workers, NEW k, Begin(w, k),
         Good(k, Len(users), Len(letters), Len(tokens))
  PROVE  TypeInv'
<1>1. begun' \in 0 .. MaxCalls /\ UNCHANGED <<timeouts, failures>>
  BY AccountsAssumption DEF Begin, TypeInv, StoresOK
<1>2. StoresOK' /\ Grows
  BY <1>1, SameStores DEF TypeInv, StoresOK
<1>3. UNCHANGED <<users, letters, tokens>> /\ calls' = [calls EXCEPT ![w] = k]
  BY DEF Begin, accountVars, codes, sessionVars
<1>. QED BY <1>2, <1>3, StepCalls

LEMMA ReturnCalls ==
  ASSUME TypeInv, StoresOK', Grows, NEW w \in Workers, calls' = [calls EXCEPT ![w] = Idle]
  PROVE  TypeInv'
  BY LengthsNext, IdleGood, StepCalls

LEMMA PcChanged ==
  ASSUME NEW call \in CallRows, NEW pc \in Steps, NEW k, k = [call EXCEPT !.pc = pc]
  PROVE  /\ k \in CallRows /\ k.pc = pc /\ k.op = call.op /\ k.user = call.user
         /\ k.email = call.email /\ k.phone = call.phone /\ k.active = call.active
         /\ k.code = call.code /\ k.row = call.row /\ k.view = call.view
         /\ k.token = call.token /\ k.child = call.child /\ k.count = call.count
         /\ k.ip = call.ip /\ k.right = call.right
  BY DEF CallRows

LEMMA GotoCalls ==
  ASSUME TypeInv, StoresOK', Grows, NEW w \in Workers, NEW pc \in Steps,
         calls' = [calls EXCEPT ![w] = [calls[w] EXCEPT !.pc = pc]],
         OnItsWay(calls[w].op, pc),
         HasRead(calls[w], pc, Len(users'), Len(letters'), Len(tokens'))
  PROVE  TypeInv'
<1>1. PICK k : k = [calls[w] EXCEPT !.pc = pc]
  OBVIOUS
<1>2. calls[w] \in CallRows
  BY DEF TypeInv, CallsGood
<1>3. Good(k, Len(users'), Len(letters'), Len(tokens'))
  BY <1>1, <1>2, PcChanged DEF Good, HasRead
<1>. QED BY <1>1, <1>3, StepCalls

\* What is known of a call that moves.
LEMMA TheCall ==
  ASSUME TypeInv, NEW w \in Workers
  PROVE  /\ calls[w] \in CallRows /\ OnItsWay(calls[w].op, calls[w].pc) /\ calls[w].op \in Ops
         /\ HasRead(calls[w], calls[w].pc, Len(users), Len(letters), Len(tokens))
  BY DEF TypeInv, CallsGood, Good, CallRows
-----------------------------------------------------------------------------
(* The beginnings of calls *)

LEMMA IdleFields ==
  /\ Idle.email = None /\ Idle.phone = None /\ Idle.active = None /\ Idle.code = 0
  /\ Idle.row = 0 /\ Idle.view = NoAccount /\ Idle.token = 0 /\ Idle.child = 0
  /\ Idle.count = 0 /\ Idle.ip = None /\ Idle.right = FALSE /\ Idle.user = 0
  BY DEF Idle

LEMMA CodeCallsStart ==
  ASSUME TypeInv, UNCHANGED sessionVars, NEW w \in Workers,
         \/ \E e \in Mailboxes : SendForgotPasswordOtp(w, e)
         \/ \E e \in Mailboxes, p \in Phones \cup {None} : SendRegisterOtp(w, e, p)
         \/ \E e \in Mailboxes, c \in Mailed, p \in Phones : Register(w, e, c, p)
         \/ \E e \in Mailboxes, c \in Mailed : ResetPassword(w, e, c)
         \/ \E u \in Users, c \in Mailed : ChangePassword(w, u, c)
         \/ \E u \in Users : SendPasswordOtp(w, u)
  PROVE  TypeInv'
<1>a. Len(users) \in Nat /\ Len(letters) \in Nat /\ Len(tokens) \in Nat /\ Users = 1 .. Len(users)
  BY Lengths DEF TypeInv, Users
<1>b. Mailed \subseteq 1 .. Len(letters)
  BY Lengths DEF TypeInv, Mailed
<1>c. \A u \in Users : users[u].email \in Emails
  BY <1>a, UserFields DEF TypeInv
<1>d. \A u \in Users : Lower(users[u].email) \in Mailboxes
  BY <1>c DEF Mailboxes
<1>e. \A e : UserOf(e) \subseteq 1 .. Len(users)
  BY <1>a DEF UserOf
<1>f. \A e \in Mailboxes : otps[e] \in Nat
  BY <1>a DEF TypeInv, StoresOK
<1>1. ASSUME NEW k \in CallRows, k.op = "send", k.pc \in {"storeCode", "checkPhone"},
             k.email \in Mailboxes, Begin(w, k), UNCHANGED accountVars
      PROVE  TypeInv'
  <2>1. Good(k, Len(users), Len(letters), Len(tokens))
    BY <1>1 DEF Good, OnItsWay, HasRead
  <2>. QED BY <1>1, <2>1, BeginCalls
<1>2. ASSUME NEW e \in Mailboxes, UNCHANGED accountVars,
             Begin(w, [Idle EXCEPT !.op = "send", !.email = e, !.pc = "storeCode"])
      PROVE TypeInv'
  <2>. DEFINE k == [Idle EXCEPT !.op = "send", !.email = e, !.pc = "storeCode"]
  <2>1. k \in CallRows /\ k.op = "send" /\ k.pc = "storeCode" /\ k.email = e
    BY AccountsAssumption DEF Idle, CallRows, Ops, Steps
  <2>2. Begin(w, k)
    BY <1>2
  <2>. HIDE DEF k
  <2>. QED BY <1>1, <1>2, <2>1, <2>2
<1>3. ASSUME NEW e \in Mailboxes, NEW p \in Phones \cup {None}, SendRegisterOtp(w, e, p)
      PROVE TypeInv'
  <2>1. PICK pc \in {"storeCode", "checkPhone"} :
            pc = IF p = None THEN "storeCode" ELSE "checkPhone"
    OBVIOUS
  <2>. DEFINE k == [Idle EXCEPT !.op = "send", !.email = e, !.phone = p, !.pc = pc]
  <2>2. k \in CallRows /\ k.op = "send" /\ k.pc = pc /\ k.email = e
    BY AccountsAssumption DEF Idle, CallRows, Ops, Steps
  <2>3. Begin(w, k) /\ UNCHANGED accountVars
    BY <1>3, <2>1 DEF SendRegisterOtp
  <2>. HIDE DEF k
  <2>. QED BY <1>1, <2>1, <2>2, <2>3
<1>4. ASSUME NEW u \in Users, SendPasswordOtp(w, u) PROVE TypeInv'
  <2>1. PICK e \in Mailboxes : e = Lower(users[u].email)
    BY <1>d
  <2>. QED BY <1>2, <1>4, <2>1 DEF SendPasswordOtp
<1>5. ASSUME NEW e \in Mailboxes, NEW c \in Mailed, NEW p \in Phones, Register(w, e, c, p)
      PROVE TypeInv'
  <2>1. PICK row \in Nat : row = otps[e]
    BY <1>f
  <2>. DEFINE k == [Idle EXCEPT !.op = "register", !.email = e, !.code = c, !.phone = p,
                                !.row = row, !.pc = "readCached"]
  <2>2. c \in Nat /\ c \in 1 .. Len(letters)
    BY <1>a, <1>b
  <2>3. /\ k \in CallRows /\ k.op = "register" /\ k.pc = "readCached" /\ k.email = e /\ k.code = c
        /\ k.active = None
    BY <2>2, AccountsAssumption DEF Idle, CallRows, Ops, Steps
  <2>4. Begin(w, k) /\ UNCHANGED accountVars
    BY <1>5, <2>1 DEF Register
  <2>. HIDE DEF k
  <2>5. Good(k, Len(users), Len(letters), Len(tokens))
    BY <2>2, <2>3 DEF Good, OnItsWay, HasRead
  <2>. QED BY <2>4, <2>5, BeginCalls
<1>6. ASSUME NEW k \in CallRows, k.op \in {"reset", "change"}, k.pc = "readCode",
             k.user \in 1 .. Len(users), k.email \in Mailboxes, k.code \in Mailed,
             Begin(w, k), UNCHANGED accountVars
      PROVE TypeInv'
  <2>1. Good(k, Len(users), Len(letters), Len(tokens))
    BY <1>6, <1>b DEF Good, OnItsWay, HasRead
  <2>. QED BY <1>6, <2>1, BeginCalls
<1>7. ASSUME NEW e \in Mailboxes, NEW c \in Mailed, ResetPassword(w, e, c) PROVE TypeInv'
  <2>1. PICK u \in UserOf(e) :
           Begin(w, [Idle EXCEPT !.op = "reset", !.user = u, !.email = e, !.code = c,
                                 !.pc = "readCode"])
    BY <1>7 DEF ResetPassword
  <2>. DEFINE k == [Idle EXCEPT !.op = "reset", !.user = u, !.email = e, !.code = c,
                                !.pc = "readCode"]
  <2>2. c \in Nat /\ u \in Nat /\ u \in 1 .. Len(users)
    BY <1>a, <1>b, <1>e
  <2>3. /\ k \in CallRows /\ k.op = "reset" /\ k.pc = "readCode" /\ k.email = e /\ k.code = c
        /\ k.user = u
    BY <2>2, AccountsAssumption DEF Idle, CallRows, Ops, Steps
  <2>4. Begin(w, k) /\ UNCHANGED accountVars
    BY <1>7, <2>1 DEF ResetPassword
  <2>. HIDE DEF k
  <2>. QED BY <1>6, <2>2, <2>3, <2>4
<1>8. ASSUME NEW u \in Users, NEW c \in Mailed, ChangePassword(w, u, c) PROVE TypeInv'
  <2>1. PICK e \in Mailboxes : e = Lower(users[u].email)
    BY <1>d
  <2>. DEFINE k == [Idle EXCEPT !.op = "change", !.user = u, !.code = c, !.email = e,
                                !.pc = "readCode"]
  <2>2. c \in Nat /\ u \in Nat /\ u \in 1 .. Len(users)
    BY <1>a, <1>b
  <2>3. /\ k \in CallRows /\ k.op = "change" /\ k.pc = "readCode" /\ k.email = e /\ k.code = c
        /\ k.user = u
    BY <2>2, AccountsAssumption DEF Idle, CallRows, Ops, Steps
  <2>4. Begin(w, k) /\ UNCHANGED accountVars
    BY <1>8, <2>1 DEF ChangePassword
  <2>. HIDE DEF k
  <2>. QED BY <1>6, <2>2, <2>3, <2>4
<1>. QED
  <2>1. ASSUME NEW e \in Mailboxes, SendForgotPasswordOtp(w, e) PROVE TypeInv'
    BY <1>2, <2>1 DEF SendForgotPasswordOtp
  <2>. QED BY <1>3, <1>4, <1>5, <1>7, <1>8, <2>1

LEMMA AccountCallsStart ==
  ASSUME TypeInv, UNCHANGED sessionVars, NEW w \in Workers,
         \/ \E u \in Users : Validate(w, u)
         \/ \E u \in Users, ch \in Changes : UpdateUser(w, u, ch)
         \/ \E e \in Emails, p \in Phones, b \in BOOLEAN : CreateUserByAdmin(w, e, p, b)
         \/ \E e \in Emails : GoogleLogin(w, e)
  PROVE  TypeInv'
<1>1. Len(users) \in Nat /\ Len(letters) \in Nat /\ Len(tokens) \in Nat /\ Users = 1 .. Len(users)
  BY Lengths DEF TypeInv, Users
<1>2. ASSUME NEW u \in Users, Validate(w, u) PROVE TypeInv'
  <2>. DEFINE k == [Idle EXCEPT !.op = "validate", !.user = u, !.pc = "readAccount"]
  <2>1. u \in Nat
    BY <1>1
  <2>2. k \in CallRows /\ k.op = "validate" /\ k.pc = "readAccount" /\ k.user = u
    BY <2>1, AccountsAssumption DEF Idle, CallRows, Ops, Steps
  <2>3. Begin(w, k) /\ UNCHANGED accountVars
    BY <1>2 DEF Validate
  <2>. HIDE DEF k
  <2>4. Good(k, Len(users), Len(letters), Len(tokens))
    BY <1>1, <2>2 DEF Good, OnItsWay, HasRead
  <2>. QED BY <2>3, <2>4, BeginCalls
<1>3. ASSUME NEW u \in Users, NEW ch \in Changes, UpdateUser(w, u, ch) PROVE TypeInv'
  <2>1. /\ ch.email \in Emails \cup {None} /\ ch.phone \in Phones \cup {None}
        /\ ch.active \in BOOLEAN \cup {None}
    BY AccountsAssumption DEF ChangeDtos
  <2>2. PICK email \in Emails \cup {None} : email = Changed(ch.email, users[u].email)
    BY <2>1 DEF Changed
  <2>3. PICK phone \in Phones \cup {None} : phone = Changed(ch.phone, users[u].phone)
    BY <2>1 DEF Changed
  <2>4. PICK active \in BOOLEAN \cup {None} : active = ch.active
    BY <2>1
  <2>5. PICK pc \in {"checkEmail", "checkPhone", "updateUser"} :
            pc = IF email # None THEN "checkEmail"
                 ELSE IF phone # None THEN "checkPhone" ELSE "updateUser"
    OBVIOUS
  <2>. DEFINE k == [Idle EXCEPT !.op = "update", !.user = u, !.email = email, !.phone = phone,
                                !.active = active, !.pc = pc]
  <2>6. u \in Nat
    BY <1>1
  <2>7. k \in CallRows /\ k.op = "update" /\ k.pc = pc /\ k.user = u
    <3>1. NoAccount \in Entries \cup {NoAccount} /\ None \in Emails \cup {None} /\ None \in Ips \cup {None}
      OBVIOUS
    <3>2. pc \in Steps /\ "update" \in Ops
      BY <2>5 DEF Steps, Ops
    <3>. QED BY ONLY <2>2, <2>3, <2>4, <2>6, <3>1, <3>2 DEF Idle, CallRows
  <2>8. Begin(w, k) /\ UNCHANGED accountVars
    BY <1>3, <2>2, <2>3, <2>4, <2>5, Zenon DEF UpdateUser
  <2>. HIDE DEF k
  <2>9. Good(k, Len(users), Len(letters), Len(tokens))
    BY <1>1, <2>5, <2>7 DEF Good, OnItsWay, HasRead
  <2>. QED BY <2>8, <2>9, BeginCalls
<1>4. ASSUME NEW e \in Emails, NEW p \in Phones, NEW b \in BOOLEAN, CreateUserByAdmin(w, e, p, b)
      PROVE TypeInv'
  <2>. DEFINE k == [Idle EXCEPT !.op = "create", !.email = e, !.phone = p, !.active = b,
                                !.pc = "checkPhone"]
  <2>1. k \in CallRows /\ k.op = "create" /\ k.pc = "checkPhone" /\ k.email = e
    BY AccountsAssumption DEF Idle, CallRows, Ops, Steps
  <2>2. Begin(w, k) /\ UNCHANGED accountVars
    BY <1>4 DEF CreateUserByAdmin
  <2>. HIDE DEF k
  <2>3. Good(k, Len(users), Len(letters), Len(tokens))
    BY <2>1 DEF Good, OnItsWay, HasRead
  <2>. QED BY <2>2, <2>3, BeginCalls
<1>5. ASSUME NEW e \in Emails, GoogleLogin(w, e) PROVE TypeInv'
  <2>1. CASE Begin(w, [Idle EXCEPT !.op = "google", !.email = e, !.pc = "createUser"])
    <3>. DEFINE k == [Idle EXCEPT !.op = "google", !.email = e, !.pc = "createUser"]
    <3>1. /\ k \in CallRows /\ k.op = "google" /\ k.pc = "createUser" /\ k.email = e
          /\ k.active = None
      BY AccountsAssumption DEF Idle, CallRows, Ops, Steps
    <3>2. Begin(w, k) /\ UNCHANGED accountVars
      BY <1>5, <2>1 DEF GoogleLogin
    <3>. HIDE DEF k
    <3>3. Good(k, Len(users), Len(letters), Len(tokens))
      BY <3>1 DEF Good, OnItsWay, HasRead
    <3>. QED BY <3>2, <3>3, BeginCalls
  <2>2. ASSUME NEW u \in UserOf(e),
               Begin(w, [Idle EXCEPT !.op = "google", !.user = u, !.pc = "newToken"])
        PROVE TypeInv'
    <3>. DEFINE k == [Idle EXCEPT !.op = "google", !.user = u, !.pc = "newToken"]
    <3>1. u \in Nat /\ u \in 1 .. Len(users)
      BY <1>1 DEF UserOf
    <3>2. /\ k \in CallRows /\ k.op = "google" /\ k.pc = "newToken" /\ k.user = u
          /\ k.active = None
      BY <3>1, AccountsAssumption DEF Idle, CallRows, Ops, Steps
    <3>3. Begin(w, k) /\ UNCHANGED accountVars
      BY <1>5, <2>2 DEF GoogleLogin
    <3>. HIDE DEF k
    <3>4. Good(k, Len(users), Len(letters), Len(tokens))
      BY <3>1, <3>2 DEF Good, OnItsWay, HasRead
    <3>. QED BY <3>3, <3>4, BeginCalls
  <2>. QED BY <1>5, <2>1, <2>2 DEF GoogleLogin
<1>. QED BY <1>2, <1>3, <1>4, <1>5

LEMMA SessionCallsStart ==
  ASSUME TypeInv, NEW w \in Workers,
         \/ \E e \in Mailboxes, ip \in Ips, b \in BOOLEAN : Login(w, e, ip, b)
         \/ \E t \in Tokens : Refresh(w, t) \/ Logout(w, t)
  PROVE  TypeInv'
<1>1. Len(users) \in Nat /\ Len(letters) \in Nat /\ Len(tokens) \in Nat /\ Tokens = 1 .. Len(tokens)
  BY Lengths DEF TypeInv, Tokens
<1>2. ASSUME NEW e \in Mailboxes, NEW ip \in Ips, NEW b \in BOOLEAN, Login(w, e, ip, b)
      PROVE TypeInv'
  <2>. DEFINE k == [Idle EXCEPT !.op = "login", !.email = e, !.ip = ip, !.right = b,
                                !.pc = "checkIp"]
  <2>1. k \in CallRows /\ k.op = "login" /\ k.pc = "checkIp" /\ k.email = e /\ k.ip = ip
    BY AccountsAssumption DEF Idle, CallRows, Ops, Steps
  <2>2. Begin(w, k) /\ UNCHANGED <<accountVars, sessionVars>>
    BY <1>2 DEF Login
  <2>. HIDE DEF k
  <2>3. Good(k, Len(users), Len(letters), Len(tokens))
    BY <2>1 DEF Good, OnItsWay, HasRead
  <2>. QED BY <2>2, <2>3, BeginCalls
<1>3. ASSUME NEW t \in Tokens, Refresh(w, t) PROVE TypeInv'
  <2>. DEFINE k == [Idle EXCEPT !.op = "refresh", !.token = t, !.pc = "successor"]
  <2>1. t \in Nat
    BY <1>1
  <2>2. k \in CallRows /\ k.op = "refresh" /\ k.pc = "successor" /\ k.token = t
    BY <2>1, AccountsAssumption DEF Idle, CallRows, Ops, Steps
  <2>3. Begin(w, k) /\ UNCHANGED <<accountVars, sessionVars>>
    BY <1>3 DEF Refresh
  <2>. HIDE DEF k
  <2>4. Good(k, Len(users), Len(letters), Len(tokens))
    BY <1>1, <2>2 DEF Good, OnItsWay, HasRead
  <2>. QED BY <2>3, <2>4, BeginCalls
<1>4. ASSUME NEW t \in Tokens, Logout(w, t) PROVE TypeInv'
  <2>. DEFINE k == [Idle EXCEPT !.op = "logout", !.token = t, !.pc = "revoke"]
  <2>1. t \in Nat
    BY <1>1
  <2>2. k \in CallRows /\ k.op = "logout" /\ k.pc = "revoke" /\ k.token = t
    BY <2>1, AccountsAssumption DEF Idle, CallRows, Ops, Steps
  <2>3. Begin(w, k) /\ UNCHANGED <<accountVars, sessionVars>>
    BY <1>4 DEF Logout
  <2>. HIDE DEF k
  <2>4. Good(k, Len(users), Len(letters), Len(tokens))
    BY <1>1, <2>2 DEF Good, OnItsWay, HasRead
  <2>. QED BY <2>3, <2>4, BeginCalls
<1>. QED BY <1>2, <1>3, <1>4
-----------------------------------------------------------------------------
(* The tables after a step *)

LetterFields(row) == /\ row.to \in Mailboxes /\ row.mailed \in BOOLEAN /\ row.expired \in BOOLEAN
                     /\ row.uses \in Nat

LEMMA LetterRow ==
  ASSUME StoresOK, NEW c \in 1 .. Len(letters)
  PROVE  letters[c] \in Letters /\ LetterFields(letters[c])
<1>1. letters \in Seq(Letters)
  BY DEF StoresOK
<1>2. letters[c] \in Letters
  BY ONLY <1>1, c \in 1 .. Len(letters), ElementOfSeq
<1>. QED BY ONLY <1>2 DEF Letters, LetterFields

\* One letter is rewritten.
LEMMA LetterSet ==
  ASSUME StoresOK, NEW c \in 1 .. Len(letters), NEW row \in Letters,
         letters' = [letters EXCEPT ![c] = row]
  PROVE  letters' \in Seq(Letters) /\ Len(letters') = Len(letters)
  BY ExceptSeq DEF StoresOK

LEMMA LetterUsed ==
  ASSUME StoresOK, NEW c \in 1 .. Len(letters), letters' = Used(c)
  PROVE  letters' \in Seq(Letters) /\ Len(letters') = Len(letters)
<1>1. PICK row : row = [letters[c] EXCEPT !.uses = @ + 1]
  OBVIOUS
<1>2. row \in Letters
  BY <1>1, LetterRow DEF Letters, LetterFields
<1>3. letters' = [letters EXCEPT ![c] = row]
  BY <1>1 DEF Used
<1>. QED BY <1>2, <1>3, LetterSet

LEMMA UserSet ==
  ASSUME StoresOK, NEW u \in 1 .. Len(users), NEW row \in UserRows,
         users' = [users EXCEPT ![u] = row]
  PROVE  users' \in Seq(UserRows) /\ Len(users') = Len(users)
  BY ExceptSeq DEF StoresOK

LEMMA TokenRow ==
  ASSUME StoresOK, NEW t \in 1 .. Len(tokens)
  PROVE  /\ tokens[t] \in TokenRows /\ tokens[t].of \in Nat \ {0} /\ tokens[t].parent \in Nat
         /\ tokens[t].root \in Nat \ {0} /\ tokens[t].revoked \in BOOLEAN
<1>1. tokens \in Seq(TokenRows)
  BY DEF StoresOK
<1>2. tokens[t] \in TokenRows
  BY ONLY <1>1, t \in 1 .. Len(tokens), ElementOfSeq
<1>. QED BY ONLY <1>2 DEF TokenRows

\* The tables and the cache, piece by piece.
UsersOK == users \in Seq(UserRows)
LettersOK == /\ letters \in Seq(Letters)
             /\ otps \in [Mailboxes -> 0 .. Len(letters)]
             /\ otpCache \in [Mailboxes -> 0 .. Len(letters)]
AccountsOK == accounts \in [UserIds -> Entries \cup {NoAccount}]
TokensOK == tokens \in Seq(TokenRows) /\ \A t \in 1 .. Len(tokens) : tokens[t].of \in 1 .. Len(users)
FailsOK == fails \in [LoginKeys -> Nat] /\ failed \in [LoginKeys -> Nat]
BoundsOK == begun \in 0 .. MaxCalls /\ timeouts \in 0 .. MaxTimeouts /\ failures \in 0 .. MaxFailures

LEMMA Pieces ==
  UsersOK' /\ LettersOK' /\ AccountsOK' /\ TokensOK' /\ FailsOK' /\ BoundsOK' => StoresOK'
  BY DEF StoresOK, UsersOK, LettersOK, AccountsOK, TokensOK, FailsOK, BoundsOK

LEMMA SameUsers ==
  ASSUME StoresOK, users' = users
  PROVE  UsersOK' /\ Len(users) <= Len(users')
  BY Lengths DEF StoresOK, UsersOK

LEMMA SameLetters ==
  ASSUME StoresOK, UNCHANGED codes
  PROVE  LettersOK' /\ Len(letters) <= Len(letters')
  BY Lengths DEF StoresOK, LettersOK, codes

LEMMA SameAccounts ==
  ASSUME StoresOK, accounts' = accounts
  PROVE  AccountsOK'
  BY DEF StoresOK, AccountsOK

LEMMA SameTokens ==
  ASSUME StoresOK, tokens' = tokens, UsersOK', Len(users) <= Len(users')
  PROVE  TokensOK' /\ Len(tokens) <= Len(tokens')
<1>1. Len(users') \in Nat /\ Len(users) \in Nat /\ Len(tokens) \in Nat
  BY Lengths, LenProperties DEF UsersOK
<1>2. tokens' \in Seq(TokenRows) /\ Len(tokens) <= Len(tokens')
  BY <1>1 DEF StoresOK
<1>3. \A t \in 1 .. Len(tokens) : tokens[t].of \in 1 .. Len(users)
  BY DEF StoresOK
<1>4. 1 .. Len(users) \subseteq 1 .. Len(users')
  BY <1>1
<1>. QED BY ONLY <1>2, <1>3, <1>4, tokens' = tokens DEF TokensOK

LEMMA SameFails ==
  ASSUME StoresOK, UNCHANGED <<fails, failed>>
  PROVE  FailsOK'
  BY DEF StoresOK, FailsOK

LEMMA SameBounds ==
  ASSUME StoresOK, UNCHANGED bounds
  PROVE  BoundsOK'
  BY DEF StoresOK, BoundsOK, bounds

\* The codes of the table and the cache when letters only grows.
LEMMA CodesKept ==
  ASSUME StoresOK, letters' \in Seq(Letters), Len(letters) <= Len(letters'),
         otps' \in [Mailboxes -> 0 .. Len(letters')],
         \/ otpCache' = otpCache
         \/ otpCache' \in [Mailboxes -> 0 .. Len(letters')]
  PROVE  LettersOK'
<1>1. Len(letters') \in Nat /\ Len(letters) \in Nat
  BY Lengths, LenProperties
<1>2. 0 .. Len(letters) \subseteq 0 .. Len(letters')
  BY <1>1
<1>3. otpCache' \in [Mailboxes -> 0 .. Len(letters')]
  <2>1. otpCache \in [Mailboxes -> 0 .. Len(letters)]
    BY DEF StoresOK
  <2>. QED BY <1>2, <2>1
<1>. QED BY <1>3 DEF LettersOK
-----------------------------------------------------------------------------
(* The steps of a call: those that write nothing *)

LEMMA ReadStep ==
  ASSUME TypeInv, UNCHANGED accountVars, UNCHANGED <<tokens, fails>>,
         failed' \in [LoginKeys -> Nat], BoundsOK'
  PROVE  StoresOK' /\ Grows
<1>1. UNCHANGED users /\ UNCHANGED codes /\ UNCHANGED accounts
  BY DEF accountVars
<1>2. UsersOK' /\ LettersOK' /\ AccountsOK' /\ TokensOK' /\ Grows
  BY <1>1, SameUsers, SameLetters, SameAccounts, SameTokens DEF TypeInv, Grows
<1>3. FailsOK'
  BY DEF TypeInv, StoresOK, FailsOK
<1>. QED BY <1>2, <1>3, Pieces

LEMMA CallFields ==
  ASSUME NEW k \in CallRows
  PROVE  /\ k.op \in Ops /\ k.pc \in Steps /\ k.user \in Nat /\ k.email \in Emails \cup {None}
         /\ k.phone \in Phones \cup {None} /\ k.active \in BOOLEAN \cup {None} /\ k.code \in Nat
         /\ k.row \in Nat /\ k.view \in Entries \cup {NoAccount} /\ k.token \in Nat
         /\ k.child \in Nat /\ k.count \in Nat /\ k.ip \in Ips \cup {None} /\ k.right \in BOOLEAN
  BY DEF CallRows

LEMMA FailTypeInv ==
  ASSUME TypeInv, NEW w \in Workers, Fail(w) \/ (DropFails(w) /\ UNCHANGED sessionVars)
  PROVE  TypeInv'
<1>1. /\ UNCHANGED accountVars /\ UNCHANGED sessionVars /\ UNCHANGED begun
      /\ UNCHANGED timeouts /\ failures < MaxFailures /\ failures' = failures + 1
  BY DEF Fail, DropFails
<1>2. BoundsOK'
  BY <1>1, AccountsAssumption DEF TypeInv, StoresOK, BoundsOK
<1>3. StoresOK' /\ Grows
  BY <1>1, <1>2, ReadStep DEF TypeInv, StoresOK, sessionVars
<1>4. CASE calls' = [calls EXCEPT ![w] = Idle]
  BY <1>3, <1>4, ReturnCalls
<1>5. CASE ~(calls' = [calls EXCEPT ![w] = Idle])
  <2>1. DropFails(w)
    BY <1>5 DEF Fail
  <2>2. PICK pc \in {"dropCachedCode", "newToken"} :
           /\ calls' = [calls EXCEPT ![w] = [calls[w] EXCEPT !.pc = pc]]
           /\ calls[w].pc \in {"dropCode", "dropCachedCode"}
           /\ pc = "newToken" => calls[w].op = "register" /\ calls[w].pc = "dropCachedCode"
           /\ pc = "dropCachedCode" => calls[w].pc = "dropCode"
    BY <2>1, <1>5 DEF DropFails, At
  <2>3. OnItsWay(calls[w].op, pc) /\ pc \in Steps
    BY <2>2, TheCall DEF OnItsWay, Steps
  <2>4. HasRead(calls[w], pc, Len(users), Len(letters), Len(tokens))
    BY <2>2, TheCall DEF HasRead, OnItsWay
  <2>5. UNCHANGED users /\ UNCHANGED letters /\ UNCHANGED tokens
    BY <1>1 DEF accountVars, codes, sessionVars
  <2>. QED BY <1>3, <2>2, <2>3, <2>4, <2>5, GotoCalls
<1>. QED BY <1>4, <1>5

\* Where a call that only reads can go.
LEMMA GotoTypeInv ==
  ASSUME TypeInv, StoresOK', Grows, NEW w \in Workers, NEW pc \in Steps, Goto(w, pc),
         OnItsWay(calls[w].op, pc),
         HasRead(calls[w], pc, Len(users'), Len(letters'), Len(tokens'))
  PROVE  TypeInv'
  BY GotoCalls DEF Goto, Continue

LEMMA ReturnTypeInv ==
  ASSUME TypeInv, StoresOK', Grows, NEW w \in Workers, Return(w)
  PROVE  TypeInv'
  BY ReturnCalls DEF Return, Continue

\* What a call has read stays read.
LEMMA ReadMore ==
  ASSUME TypeInv, StoresOK', Grows, NEW w \in Workers
  PROVE  HasRead(calls[w], calls[w].pc, Len(users'), Len(letters'), Len(tokens'))
<1>1. Good(calls[w], Len(users), Len(letters), Len(tokens))
  BY DEF TypeInv, CallsGood
<1>2. Good(calls[w], Len(users'), Len(letters'), Len(tokens'))
  BY <1>1, MoreIsGood, Lengths, LengthsNext DEF TypeInv, Grows
<1>. QED BY <1>2 DEF Good

LEMMA CheckTypeInv ==
  ASSUME TypeInv, NEW w \in Workers, UNCHANGED sessionVars,
         ReadCode(w) \/ ReadCached(w) \/ CheckEmail(w) \/ CheckPhone(w) \/ ReadAccount(w)
  PROVE  TypeInv'
<1>1. UNCHANGED accountVars /\ UNCHANGED bounds
  BY DEF ReadCode, ReadCached, CheckEmail, CheckPhone, ReadAccount, Return, Goto, Continue
<1>2. BoundsOK' /\ failed' \in [LoginKeys -> Nat] /\ UNCHANGED <<tokens, fails>>
  BY <1>1, SameBounds DEF TypeInv, StoresOK, sessionVars
<1>3. StoresOK' /\ Grows
  BY <1>1, <1>2, ReadStep
<1>4. /\ calls[w] \in CallRows /\ OnItsWay(calls[w].op, calls[w].pc) /\ calls[w].op \in Ops
      /\ HasRead(calls[w], calls[w].pc, Len(users'), Len(letters'), Len(tokens'))
  BY <1>3, TheCall, ReadMore
<1>5. CASE Return(w)
  BY <1>3, <1>5, ReturnTypeInv
<1>6. CASE ReadCode(w)
  <2>1. calls[w].email \in Mailboxes /\ calls[w].pc = "readCode" /\ calls[w].op \in {"reset", "change"}
    BY <1>4, <1>6 DEF ReadCode, At, OnItsWay, HasRead, Ops
  <2>2. PICK row \in Nat : row = otps[calls[w].email]
    BY <2>1, Lengths DEF TypeInv, StoresOK
  <2>3. PICK k : k = [calls[w] EXCEPT !.pc = "readCached", !.row = row]
    OBVIOUS
  <2>4. /\ k \in CallRows /\ k.pc = "readCached" /\ k.op = calls[w].op /\ k.email = calls[w].email
        /\ k.code = calls[w].code /\ k.user = calls[w].user
    BY <1>4, <2>3 DEF CallRows, Steps
  <2>5. Good(k, Len(users'), Len(letters'), Len(tokens'))
    BY <1>4, <2>1, <2>4 DEF Good, OnItsWay, HasRead
  <2>6. calls' = [calls EXCEPT ![w] = k]
    BY <1>6, <2>2, <2>3 DEF ReadCode, Continue
  <2>. QED BY <1>3, <2>5, <2>6, StepCalls
<1>7. CASE ReadAccount(w)
  <2>1. calls[w].pc = "readAccount" /\ calls[w].op = "validate" /\ calls[w].user \in 1 .. Len(users)
    BY <1>7, TheCall DEF ReadAccount, At, OnItsWay, HasRead, Ops
  <2>2. PICK view \in Entries : view = Account(calls[w].user)
    BY <2>1, UserFields DEF TypeInv, Entries, Account
  <2>3. PICK k : k = [calls[w] EXCEPT !.pc = "fillAccount", !.view = view]
    OBVIOUS
  <2>4. /\ k \in CallRows /\ k.pc = "fillAccount" /\ k.op = calls[w].op /\ k.user = calls[w].user
    BY <1>4, <2>3 DEF CallRows, Steps
  <2>5. Good(k, Len(users'), Len(letters'), Len(tokens'))
    BY <1>4, <2>1, <2>4 DEF Good, OnItsWay, HasRead
  <2>6. calls' = [calls EXCEPT ![w] = k]
    BY <1>7, <2>2, <2>3 DEF ReadAccount, Continue
  <2>. QED BY <1>3, <2>5, <2>6, StepCalls
<1>8. CASE ReadCached(w) /\ ~Return(w)
  <2>1. /\ calls[w].pc = "readCached"
        /\ Goto(w, IF calls[w].op = "register" THEN "checkEmail" ELSE "setPassword")
    BY <1>8 DEF ReadCached, At
  <2>2. PICK pc \in {"checkEmail", "setPassword"} :
           pc = IF calls[w].op = "register" THEN "checkEmail" ELSE "setPassword"
    OBVIOUS
  <2>3. Goto(w, pc) /\ pc \in Steps
    BY <2>1, <2>2 DEF Steps
  <2>4. OnItsWay(calls[w].op, pc)
    BY <1>4, <2>1, <2>2 DEF OnItsWay, Ops
  <2>5. HasRead(calls[w], pc, Len(users'), Len(letters'), Len(tokens'))
    BY <1>4, <2>1, <2>2 DEF OnItsWay, Ops, HasRead
  <2>. QED BY <1>3, <2>3, <2>4, <2>5, GotoTypeInv
<1>9. CASE (CheckEmail(w) \/ CheckPhone(w)) /\ ~Return(w)
  <2>1. calls[w].pc \in {"checkEmail", "checkPhone"}
    BY <1>9 DEF CheckEmail, CheckPhone, At
  <2>2. PICK pc \in {"storeCode", "updateUser", "createUser", "checkPhone"} :
           /\ Goto(w, pc)
           /\ \/ pc = Write(calls[w].op)
              \/ pc = "checkPhone" /\ calls[w].pc = "checkEmail"
    BY <1>9 DEF CheckEmail, CheckPhone, Write, At
  <2>3. OnItsWay(calls[w].op, pc) /\ pc \in Steps
    BY <1>4, <2>1, <2>2 DEF OnItsWay, Write, Ops, Steps
  <2>4. HasRead(calls[w], pc, Len(users'), Len(letters'), Len(tokens'))
    BY <1>4, <2>1, <2>2 DEF OnItsWay, HasRead, Ops
  <2>. QED BY <1>3, <2>2, <2>3, <2>4, GotoTypeInv
<1>. QED BY <1>5, <1>6, <1>7, <1>8, <1>9
-----------------------------------------------------------------------------
(* The steps of a call: those that write the codes and the accounts *)

LEMMA CodeWriteTypeInv ==
  ASSUME TypeInv, NEW w \in Workers, UNCHANGED sessionVars,
         StoreCode(w) \/ CacheCode(w) \/ Mail(w) \/ DropCode(w) \/ DropCachedCode(w)
  PROVE  TypeInv'
<1>1. UNCHANGED users /\ UNCHANGED accounts /\ UNCHANGED bounds /\ UNCHANGED <<tokens, fails, failed>>
  BY DEF StoreCode, CacheCode, Mail, DropCode, DropCachedCode, Return, Goto, Continue, sessionVars
<1>2. StoresOK
  BY DEF TypeInv
<1>3. /\ UsersOK' /\ AccountsOK' /\ TokensOK' /\ FailsOK' /\ BoundsOK'
      /\ Len(users) <= Len(users') /\ Len(tokens) <= Len(tokens')
  BY <1>1, <1>2, SameUsers, SameAccounts, SameTokens, SameFails, SameBounds
<1>4. /\ calls[w] \in CallRows /\ OnItsWay(calls[w].op, calls[w].pc) /\ calls[w].op \in Ops
      /\ HasRead(calls[w], calls[w].pc, Len(users), Len(letters), Len(tokens))
  BY TheCall
<1>5. /\ letters \in Seq(Letters) /\ otps \in [Mailboxes -> 0 .. Len(letters)]
      /\ otpCache \in [Mailboxes -> 0 .. Len(letters)]
  BY <1>2 DEF StoresOK
<1>6. Len(users) \in Nat /\ Len(letters) \in Nat /\ Len(tokens) \in Nat
  BY <1>2, Lengths
<1>7. CASE StoreCode(w)
  <2>1. calls[w].pc = "storeCode" /\ calls[w].op = "send" /\ calls[w].email \in Mailboxes
    BY <1>4, <1>7 DEF StoreCode, At, OnItsWay, HasRead, Ops
  <2>2. PICK row \in Letters :
            row = [to |-> calls[w].email, mailed |-> FALSE, expired |-> FALSE, uses |-> 0]
    BY <2>1 DEF Letters
  <2>3. /\ letters' = Append(letters, row) /\ UNCHANGED otpCache
        /\ otps' = [otps EXCEPT ![calls[w].email] = Len(letters) + 1]
        /\ calls' = [calls EXCEPT ![w] = [calls[w] EXCEPT !.pc = "cacheCode",
                                                           !.code = Len(letters) + 1]]
    BY <1>7, <2>2 DEF StoreCode, Continue
  <2>4. letters' \in Seq(Letters) /\ Len(letters') = Len(letters) + 1
    BY <1>5, <2>3, AppendProperties
  <2>5. otps' \in [Mailboxes -> 0 .. Len(letters')]
    <3>1. PICK n : n = Len(letters) + 1
      OBVIOUS
    <3>2. n \in 0 .. n /\ 0 .. Len(letters) \subseteq 0 .. n
      BY ONLY <1>6, <3>1
    <3>3. otps' = [otps EXCEPT ![calls[w].email] = n]
      BY ONLY <2>3, <3>1
    <3>4. otps' \in [Mailboxes -> 0 .. n]
      BY ONLY <1>5, <3>2, <3>3
    <3>. QED BY ONLY <2>4, <3>1, <3>4
  <2>6. LettersOK' /\ Len(letters) <= Len(letters')
    BY <1>2, <1>6, <2>3, <2>4, <2>5, CodesKept
  <2>7. StoresOK' /\ Grows
    BY <1>3, <2>6, Pieces DEF Grows
  <2>8. PICK k : k = [calls[w] EXCEPT !.pc = "cacheCode", !.code = Len(letters) + 1]
    OBVIOUS
  <2>9. k \in CallRows /\ k.op = "send" /\ k.email \in Mailboxes /\ k.pc = "cacheCode"
        /\ k.code \in 1 .. Len(letters')
    <3>1. PICK n \in Nat : n = Len(letters) + 1
      BY <1>6
    <3>2. n \in 1 .. Len(letters')
      BY ONLY <1>6, <2>4, <3>1
    <3>3. k = [calls[w] EXCEPT !.pc = "cacheCode", !.code = n]
      BY ONLY <2>8, <3>1
    <3>. QED BY ONLY <1>4, <2>1, <3>2, <3>3, n \in Nat DEF CallRows, Steps
  <2>10. Good(k, Len(users'), Len(letters'), Len(tokens'))
    BY <2>9 DEF Good, OnItsWay, HasRead
  <2>. QED BY <2>3, <2>7, <2>8, <2>10, StepCalls
<1>8. CASE CacheCode(w)
  <2>1. /\ calls[w].pc = "cacheCode" /\ calls[w].op = "send" /\ calls[w].email \in Mailboxes
        /\ calls[w].code \in 1 .. Len(letters)
    BY <1>4, <1>8 DEF CacheCode, At, OnItsWay, HasRead, Ops
  <2>2. /\ UNCHANGED letters /\ UNCHANGED otps
        /\ otpCache' = [otpCache EXCEPT ![calls[w].email] = calls[w].code] /\ Goto(w, "mail")
    BY <1>8 DEF CacheCode
  <2>3. otpCache' \in [Mailboxes -> 0 .. Len(letters')]
    BY <1>5, <1>6, <2>1, <2>2
  <2>4. LettersOK' /\ Len(letters) <= Len(letters')
    BY <1>5, <1>6, <2>2, <2>3 DEF LettersOK
  <2>5. StoresOK' /\ Grows
    BY <1>3, <2>4, Pieces DEF Grows
  <2>6. OnItsWay(calls[w].op, "mail") /\ "mail" \in Steps
    BY <2>1 DEF OnItsWay, Steps
  <2>7. HasRead(calls[w], "mail", Len(users'), Len(letters'), Len(tokens'))
    BY <2>1, <2>2 DEF HasRead
  <2>. QED BY <2>2, <2>5, <2>6, <2>7, GotoTypeInv
<1>9. CASE Mail(w)
  <2>1. calls[w].pc = "mail" /\ calls[w].op = "send" /\ calls[w].code \in 1 .. Len(letters)
    BY <1>4, <1>9 DEF Mail, At, OnItsWay, HasRead, Ops
  <2>2. PICK c \in 1 .. Len(letters) : c = calls[w].code
    BY <2>1
  <2>3. PICK row : row = [letters[c] EXCEPT !.mailed = TRUE]
    OBVIOUS
  <2>4. row \in Letters
    BY <1>2, <2>3, LetterRow DEF Letters, LetterFields
  <2>5. letters' = [letters EXCEPT ![c] = row] /\ UNCHANGED <<otps, otpCache>> /\ Return(w)
    BY <1>9, <2>2, <2>3 DEF Mail
  <2>6. letters' \in Seq(Letters) /\ Len(letters') = Len(letters)
    BY <1>2, <2>4, <2>5, LetterSet
  <2>7. LettersOK' /\ Len(letters) <= Len(letters')
    BY <1>5, <1>6, <2>5, <2>6 DEF LettersOK
  <2>8. StoresOK' /\ Grows
    BY <1>3, <2>7, Pieces DEF Grows
  <2>. QED BY <2>5, <2>8, ReturnTypeInv
<1>10. CASE DropCode(w)
  <2>1. /\ calls[w].pc = "dropCode" /\ calls[w].op \in {"register", "reset", "change"}
        /\ calls[w].email \in Mailboxes
    BY <1>4, <1>10 DEF DropCode, At, OnItsWay, HasRead, Ops
  <2>2. /\ UNCHANGED letters /\ UNCHANGED otpCache
        /\ otps' = [otps EXCEPT ![calls[w].email] = 0] /\ Goto(w, "dropCachedCode")
    BY <1>10 DEF DropCode
  <2>3. LettersOK' /\ Len(letters) <= Len(letters')
    BY <1>5, <1>6, <2>1, <2>2 DEF LettersOK
  <2>4. StoresOK' /\ Grows
    BY <1>3, <2>3, Pieces DEF Grows
  <2>5. OnItsWay(calls[w].op, "dropCachedCode") /\ "dropCachedCode" \in Steps
    BY <2>1 DEF OnItsWay, Steps
  <2>6. HasRead(calls[w], "dropCachedCode", Len(users'), Len(letters'), Len(tokens'))
    BY <1>1, <1>4, <2>1, <2>2 DEF HasRead
  <2>. QED BY <2>2, <2>4, <2>5, <2>6, GotoTypeInv
<1>11. CASE DropCachedCode(w)
  <2>1. /\ calls[w].pc = "dropCachedCode" /\ calls[w].op \in {"register", "reset", "change"}
        /\ calls[w].email \in Mailboxes
    BY <1>4, <1>11 DEF DropCachedCode, At, OnItsWay, HasRead, Ops
  <2>2. /\ UNCHANGED letters /\ UNCHANGED otps
        /\ otpCache' = [otpCache EXCEPT ![calls[w].email] = 0]
    BY <1>11 DEF DropCachedCode
  <2>3. LettersOK' /\ Len(letters) <= Len(letters')
    BY <1>5, <1>6, <2>1, <2>2 DEF LettersOK
  <2>4. StoresOK' /\ Grows
    BY <1>3, <2>3, Pieces DEF Grows
  <2>5. CASE calls[w].op = "register"
    <3>1. Goto(w, "newToken")
      BY <1>11, <2>5 DEF DropCachedCode
    <3>2. OnItsWay(calls[w].op, "newToken") /\ "newToken" \in Steps
      BY <2>5 DEF OnItsWay, Steps
    <3>3. HasRead(calls[w], "newToken", Len(users'), Len(letters'), Len(tokens'))
      BY <1>1, <1>4, <2>1, <2>2, <2>5 DEF HasRead
    <3>. QED BY <2>4, <3>1, <3>2, <3>3, GotoTypeInv
  <2>6. CASE calls[w].op # "register"
    BY <1>11, <2>4, <2>6, ReturnTypeInv DEF DropCachedCode
  <2>. QED BY <2>5, <2>6
<1>. QED BY <1>7, <1>8, <1>9, <1>10, <1>11

LEMMA AccountFields ==
  ASSUME StoresOK
  PROVE  /\ DOMAIN accounts = UserIds
         /\ \A u \in UserIds : accounts[u] \in Entries \cup {NoAccount}
  BY DEF StoresOK

LEMMA NewRowType ==
  ASSUME NEW k \in CallRows, k.email \in Emails
  PROVE  NewRow(k) \in UserRows
<1>1. k.phone \in Phones \cup {None} /\ k.active \in BOOLEAN \cup {None}
  BY CallFields
<1>2. Given(k.active, TRUE) \in BOOLEAN
  BY <1>1, Zenon DEF Given
<1>. QED BY <1>1, <1>2 DEF NewRow, UserRows

LEMMA AccountWriteTypeInv ==
  ASSUME TypeInv, NEW w \in Workers, UNCHANGED sessionVars,
         SetPassword(w) \/ CreateUser(w) \/ UpdateWrite(w) \/ DropAccount(w) \/ FillAccount(w)
  PROVE  TypeInv'
<1>1. UNCHANGED <<otps, otpCache>> /\ UNCHANGED bounds /\ UNCHANGED <<tokens, fails, failed>>
  BY DEF SetPassword, CreateUser, UpdateWrite, DropAccount, FillAccount, Return, Goto, Continue,
         sessionVars, codes
<1>2. StoresOK
  BY DEF TypeInv
<1>3. FailsOK' /\ BoundsOK'
  BY <1>1, <1>2, SameFails, SameBounds
<1>4. /\ calls[w] \in CallRows /\ OnItsWay(calls[w].op, calls[w].pc) /\ calls[w].op \in Ops
      /\ HasRead(calls[w], calls[w].pc, Len(users), Len(letters), Len(tokens))
  BY TheCall
<1>5. Len(users) \in Nat /\ Len(letters) \in Nat /\ Len(tokens) \in Nat /\ Users = 1 .. Len(users)
  BY <1>2, Lengths DEF Users
<1>6. ASSUME users' \in Seq(UserRows), Len(users) <= Len(users'), UNCHANGED accounts,
             letters' \in Seq(Letters), Len(letters) = Len(letters')
      PROVE  StoresOK' /\ Grows
  <2>1. AccountsOK'
    BY <1>2, <1>6, SameAccounts
  <2>2. LettersOK'
    BY <1>1, <1>2, <1>6 DEF StoresOK, LettersOK
  <2>3. UsersOK'
    BY <1>6 DEF UsersOK
  <2>4. TokensOK' /\ Len(tokens) <= Len(tokens')
    BY <1>1, <1>2, <1>6, <2>3, SameTokens
  <2>. QED BY <1>3, <1>5, <1>6, <2>1, <2>2, <2>3, <2>4, Pieces DEF Grows
<1>7. ASSUME UNCHANGED <<users, letters>>, AccountsOK' PROVE StoresOK' /\ Grows
  <2>1. UsersOK' /\ Len(users) <= Len(users') /\ UNCHANGED codes
    BY <1>1, <1>2, <1>7, SameUsers DEF codes
  <2>2. LettersOK' /\ Len(letters) <= Len(letters') /\ TokensOK' /\ Len(tokens) <= Len(tokens')
    BY <1>1, <1>2, <2>1, SameLetters, SameTokens
  <2>. QED BY <1>3, <1>7, <2>1, <2>2, Pieces DEF Grows
<1>8. ASSUME UNCHANGED <<users, letters, accounts>> PROVE StoresOK' /\ Grows
  BY <1>2, <1>7, <1>8, SameAccounts
<1>9. CASE SetPassword(w)
  <2>1. CASE Return(w) /\ UNCHANGED <<users, letters>>
    BY <1>8, <1>9, <2>1, ReturnTypeInv DEF SetPassword
  <2>2. CASE ~(Return(w) /\ UNCHANGED <<users, letters>>)
    <3>1. /\ calls[w].pc = "setPassword" /\ calls[w].op \in {"reset", "change"}
          /\ calls[w].code \in 1 .. Len(letters) /\ calls[w].user \in 1 .. Len(users)
      BY <1>4, <1>9 DEF SetPassword, At, OnItsWay, HasRead, Ops
    <3>2. PICK u \in 1 .. Len(users) : users' = [users EXCEPT ![u].hash = TRUE]
      BY <1>5, <1>9, <2>2, <3>1 DEF SetPassword, UserOf
    <3>3. PICK row : row = [users[u] EXCEPT !.hash = TRUE]
      OBVIOUS
    <3>4. row \in UserRows
      BY <1>2, <3>3, UserFields DEF UserRows
    <3>5. users' \in Seq(UserRows) /\ Len(users') = Len(users)
      BY <1>2, <3>2, <3>3, <3>4, UserSet
    <3>6. letters' = Used(calls[w].code) /\ Goto(w, "dropCode") /\ UNCHANGED accounts
      BY <1>9, <2>2 DEF SetPassword
    <3>7. letters' \in Seq(Letters) /\ Len(letters') = Len(letters)
      BY <1>2, <3>1, <3>6, LetterUsed
    <3>8. StoresOK' /\ Grows
      BY <1>5, <1>6, <3>5, <3>6, <3>7
    <3>9. OnItsWay(calls[w].op, "dropCode") /\ "dropCode" \in Steps
      BY <3>1 DEF OnItsWay, Steps
    <3>10. HasRead(calls[w], "dropCode", Len(users'), Len(letters'), Len(tokens'))
      BY <1>1, <1>4, <3>1, <3>5, <3>7 DEF HasRead
    <3>. QED BY <3>6, <3>8, <3>9, <3>10, GotoTypeInv
  <2>. QED BY <2>1, <2>2
<1>10. CASE CreateUser(w)
  <2>1. CASE Return(w) /\ UNCHANGED <<users, letters>>
    BY <1>8, <1>10, <2>1, ReturnTypeInv DEF CreateUser
  <2>2. CASE ~(Return(w) /\ UNCHANGED <<users, letters>>)
    <3>1. calls[w].pc = "createUser" /\ calls[w].op \in {"register", "create", "google"}
      BY <1>4, <1>10 DEF CreateUser, At, OnItsWay, Ops
    <3>2. /\ calls[w].email \in Emails
          /\ calls[w].op = "register" => calls[w].code \in 1 .. Len(letters)
          /\ calls[w].op = "register" => calls[w].email \in Mailboxes
          /\ calls[w].op # "create" => calls[w].active = None
      BY <1>4, <3>1, AccountsAssumption DEF HasRead
    <3>3. PICK row \in UserRows : row = NewRow(calls[w])
      BY <1>4, <3>2, NewRowType
    <3>4. /\ users' = Append(users, row) /\ UNCHANGED accounts
          /\ letters' = IF calls[w].op = "register" THEN Used(calls[w].code) ELSE letters
      BY <1>10, <2>2, <3>3 DEF CreateUser
    <3>5. users' \in Seq(UserRows) /\ Len(users') = Len(users) + 1
      BY <1>2, <3>4, AppendProperties DEF StoresOK
    <3>6. letters' \in Seq(Letters) /\ Len(letters') = Len(letters)
      BY <1>2, <3>2, <3>4, LetterUsed DEF StoresOK
    <3>7. StoresOK' /\ Grows
      BY <1>5, <1>6, <3>4, <3>5, <3>6
    <3>8. CASE Return(w)
      BY <3>7, <3>8, ReturnTypeInv
    <3>9. CASE ~Return(w)
      <4>1. PICK n \in Nat : n = Len(users) + 1
        BY <1>5
      <4>2. PICK pc \in {"dropCode", "newToken"} :
               pc = IF calls[w].op = "register" THEN "dropCode" ELSE "newToken"
        OBVIOUS
      <4>3. PICK k : k = [calls[w] EXCEPT !.user = n, !.pc = pc]
        OBVIOUS
      <4>4. calls[w].op # "create" /\ calls' = [calls EXCEPT ![w] = k]
        BY <1>10, <2>2, <3>9, <4>1, <4>2, <4>3 DEF CreateUser, Continue
      <4>5. /\ k \in CallRows /\ k.pc = pc /\ k.op = calls[w].op /\ k.user = n
            /\ k.email = calls[w].email /\ k.code = calls[w].code /\ k.active = calls[w].active
        <5>1. pc \in Steps
          BY ONLY pc \in {"dropCode", "newToken"} DEF Steps
        <5>2. calls[w] \in CallRows
          BY <1>4
        <5>. QED BY ONLY <4>3, n \in Nat, <5>1, <5>2 DEF CallRows
      <4>6. n \in 1 .. Len(users')
        BY <1>5, <3>5, <4>1
      <4>7. Good(k, Len(users'), Len(letters'), Len(tokens'))
        BY <3>1, <3>2, <3>6, <4>2, <4>4, <4>5, <4>6 DEF Good, OnItsWay, HasRead
      <4>. QED BY <3>7, <4>4, <4>7, StepCalls
    <3>. QED BY <3>8, <3>9
  <2>. QED BY <2>1, <2>2
<1>11. CASE UpdateWrite(w)
  <2>0. UNCHANGED <<letters, accounts>>
    BY <1>11 DEF UpdateWrite, codes
  <2>1. CASE Return(w) /\ UNCHANGED users
    BY <1>8, <2>0, <2>1, ReturnTypeInv
  <2>2. CASE ~(Return(w) /\ UNCHANGED users)
    <3>1. /\ calls[w].pc = "updateUser" /\ calls[w].op = "update"
          /\ calls[w].user \in 1 .. Len(users)
      BY <1>4, <1>11 DEF UpdateWrite, At, OnItsWay, HasRead, Ops
    <3>2. PICK u \in 1 .. Len(users) : u = calls[w].user
      BY <3>1
    <3>3. PICK email \in Emails : email = Given(calls[w].email, users[u].email)
      BY <1>2, <1>4, UserFields, CallFields DEF Given
    <3>4. PICK phone \in Phones \cup {None} : phone = Given(calls[w].phone, users[u].phone)
      BY <1>2, <1>4, UserFields, CallFields DEF Given
    <3>5. PICK active \in BOOLEAN : active = Given(calls[w].active, users[u].active)
      <4>1. calls[w].active \in BOOLEAN \cup {None} /\ users[u].active \in BOOLEAN
        BY <1>2, <1>4, UserFields, CallFields
      <4>. QED BY ONLY <4>1, Zenon DEF Given
    <3>6. PICK row : row = [users[u] EXCEPT !.email = email, !.phone = phone, !.active = active]
      OBVIOUS
    <3>7. row \in UserRows
      BY <1>2, <3>6, UserFields DEF UserRows
    <3>8. users' = [users EXCEPT ![u] = row] /\ Goto(w, "dropAccount")
      BY <1>11, <2>2, <3>2, <3>3, <3>4, <3>5, <3>6, Zenon DEF UpdateWrite
    <3>9. users' \in Seq(UserRows) /\ Len(users') = Len(users)
      BY <1>2, <3>7, <3>8, UserSet
    <3>10. StoresOK' /\ Grows
      BY <1>2, <1>5, <1>6, <2>0, <3>9 DEF StoresOK
    <3>11. OnItsWay(calls[w].op, "dropAccount") /\ "dropAccount" \in Steps
      BY <3>1 DEF OnItsWay, Steps
    <3>12. HasRead(calls[w], "dropAccount", Len(users'), Len(letters'), Len(tokens'))
      BY <3>1, <3>9 DEF HasRead
    <3>. QED BY <3>8, <3>10, <3>11, <3>12, GotoTypeInv
  <2>. QED BY <2>1, <2>2
<1>12. CASE DropAccount(w) \/ FillAccount(w)
  <2>1. UNCHANGED <<users, letters>> /\ Return(w)
    BY <1>12 DEF DropAccount, FillAccount, codes
  <2>2. PICK e \in Entries \cup {NoAccount} : accounts' = [accounts EXCEPT ![calls[w].user] = e]
    BY <1>4, <1>12, CallFields DEF DropAccount, FillAccount
  <2>3. AccountsOK'
    BY <1>2, <2>2 DEF StoresOK, AccountsOK
  <2>. QED BY <1>7, <2>1, <2>3, ReturnTypeInv
<1>. QED BY <1>9, <1>10, <1>11, <1>12
-----------------------------------------------------------------------------
(* The steps of a sign-in and of the tokens *)

LEMMA LoginTypeInv ==
  ASSUME TypeInv, NEW w \in Workers,
         CheckIp(w) \/ FindUser(w) \/ RecordLoginFailure(w) \/ ResetLoginFailures(w)
  PROVE  TypeInv'
<1>1. UNCHANGED accountVars /\ UNCHANGED bounds /\ UNCHANGED tokens
  BY DEF CheckIp, FindUser, RecordLoginFailure, ResetLoginFailures, ReadFails, WriteFails, ResetFails,
         Return, Goto, Continue, sessionVars
<1>2. StoresOK
  BY DEF TypeInv
<1>3. /\ calls[w] \in CallRows /\ OnItsWay(calls[w].op, calls[w].pc) /\ calls[w].op \in Ops
      /\ HasRead(calls[w], calls[w].pc, Len(users), Len(letters), Len(tokens))
  BY TheCall
<1>4. /\ calls[w].op = "login" /\ calls[w].email \in Mailboxes /\ calls[w].ip \in Ips
      /\ calls[w].pc \in {"checkIp", "findUser", "readEmailFails", "writeEmailFails",
                          "readIpFails", "writeIpFails", "resetEmail", "resetIp"}
      /\ calls[w].pc \in {"resetEmail", "resetIp"} => calls[w].user \in 1 .. Len(users)
  BY <1>3 DEF CheckIp, FindUser, RecordLoginFailure, ResetLoginFailures, ReadFails, WriteFails,
              ResetFails, At, OnItsWay, HasRead, Ops
<1>5. UNCHANGED users /\ UNCHANGED codes /\ UNCHANGED accounts /\ UNCHANGED letters
  BY <1>1 DEF accountVars, codes
<1>6. /\ UsersOK' /\ LettersOK' /\ AccountsOK' /\ TokensOK' /\ BoundsOK' /\ Grows
  BY <1>1, <1>2, <1>5, SameUsers, SameLetters, SameAccounts, SameTokens, SameBounds DEF Grows
<1>7. Len(users) \in Nat /\ Users = 1 .. Len(users)
  BY <1>2, Lengths DEF Users
<1>8. fails \in [LoginKeys -> Nat] /\ failed \in [LoginKeys -> Nat] /\ KeysOf(calls[w]) \subseteq LoginKeys
  BY <1>2, <1>4 DEF StoresOK, LoginKeys, KeysOf
<1>9. calls[w].count \in Nat
  BY <1>3, CallFields
<1>10. fails' \in [LoginKeys -> Nat]
  <2>1. \/ UNCHANGED fails
        \/ \E k \in {calls[w].email, calls[w].ip} :
              \/ fails' = [fails EXCEPT ![k] = calls[w].count + 1]
              \/ fails' = [fails EXCEPT ![k] = 0]
    BY DEF CheckIp, FindUser, RecordLoginFailure, ResetLoginFailures, ReadFails, WriteFails,
           ResetFails, sessionVars
  <2>2. PICK n \in Nat : n = calls[w].count + 1
    BY <1>9
  <2>. QED BY ONLY <1>8, <2>1, <2>2
<1>11. failed' \in [LoginKeys -> Nat]
  <2>1. CASE UNCHANGED failed
    BY <1>8, <2>1
  <2>2. CASE ~UNCHANGED failed
    <3>1. FindUser(w)
      BY <2>2 DEF CheckIp, RecordLoginFailure, ResetLoginFailures, ReadFails, WriteFails,
                  ResetFails, sessionVars
    <3>2. \/ failed' = [k \in LoginKeys |-> IF k \in KeysOf(calls[w]) THEN 0 ELSE failed[k]]
          \/ failed' = [k \in LoginKeys |-> IF k \in KeysOf(calls[w]) THEN failed[k] + 1
                                            ELSE failed[k]]
      BY <2>2, <3>1 DEF FindUser
    <3>. QED BY ONLY <1>8, <3>2
  <2>. QED BY <2>1, <2>2
<1>12. StoresOK' /\ Grows
  BY <1>6, <1>10, <1>11, Pieces DEF FailsOK
<1>13. \/ Return(w)
       \/ \E pc \in {"findUser", "readEmailFails", "readIpFails"} : Goto(w, pc)
       \/ \E pc \in {"resetIp", "newToken"} :
             Goto(w, pc) /\ calls[w].pc \in {"resetEmail", "resetIp"}
       \/ \E pc \in {"writeEmailFails", "writeIpFails"}, n \in Nat :
             calls' = [calls EXCEPT ![w] = [calls[w] EXCEPT !.pc = pc, !.count = n]]
       \/ \E u \in 1 .. Len(users) :
             calls' = [calls EXCEPT ![w] = [calls[w] EXCEPT !.user = u, !.pc = "resetEmail"]]
  <2>1. CASE CheckIp(w)
    BY <2>1 DEF CheckIp
  <2>2. CASE FindUser(w)
    BY <1>7, <2>2 DEF FindUser, UserOf, Continue
  <2>3. CASE RecordLoginFailure(w)
    <3>1. fails[calls[w].email] \in Nat /\ fails[calls[w].ip] \in Nat
      BY <1>4, <1>8 DEF LoginKeys
    <3>. QED BY <2>3, <3>1 DEF RecordLoginFailure, ReadFails, WriteFails, Continue
  <2>4. CASE ResetLoginFailures(w)
    BY <2>4 DEF ResetLoginFailures, ResetFails, At
  <2>. QED BY <2>1, <2>2, <2>3, <2>4
<1>14. ASSUME NEW pc \in {"findUser", "readEmailFails", "readIpFails", "resetIp", "newToken"},
              Goto(w, pc), pc \in {"resetIp", "newToken"} => calls[w].pc \in {"resetEmail", "resetIp"}
       PROVE  TypeInv'
  <2>1. OnItsWay(calls[w].op, pc) /\ pc \in Steps
    BY <1>4 DEF OnItsWay, Steps
  <2>2. HasRead(calls[w], pc, Len(users'), Len(letters'), Len(tokens'))
    BY <1>4, <1>5, <1>14 DEF HasRead
  <2>. QED BY <1>12, <1>14, <2>1, <2>2, GotoTypeInv
<1>15. ASSUME NEW k \in CallRows, k.op = "login", k.email \in Mailboxes, k.ip \in Ips,
              \/ k.pc \in {"writeEmailFails", "writeIpFails"}
              \/ k.pc = "resetEmail" /\ k.user \in 1 .. Len(users),
              calls' = [calls EXCEPT ![w] = k]
       PROVE  TypeInv'
  <2>1. Good(k, Len(users'), Len(letters'), Len(tokens'))
    BY <1>5, <1>15 DEF Good, OnItsWay, HasRead
  <2>. QED BY <1>12, <1>15, <2>1, StepCalls
<1>16. ASSUME NEW pc \in {"writeEmailFails", "writeIpFails"}, NEW n \in Nat,
              calls' = [calls EXCEPT ![w] = [calls[w] EXCEPT !.pc = pc, !.count = n]]
       PROVE  TypeInv'
  <2>1. PICK k : k = [calls[w] EXCEPT !.pc = pc, !.count = n]
    OBVIOUS
  <2>2. k \in CallRows /\ k.op = calls[w].op /\ k.pc = pc /\ k.email = calls[w].email /\ k.ip = calls[w].ip
    BY <1>3, <2>1 DEF CallRows, Steps
  <2>. QED BY <1>4, <1>15, <1>16, <2>1, <2>2
<1>17. ASSUME NEW u \in 1 .. Len(users),
              calls' = [calls EXCEPT ![w] = [calls[w] EXCEPT !.user = u, !.pc = "resetEmail"]]
       PROVE  TypeInv'
  <2>1. PICK k : k = [calls[w] EXCEPT !.user = u, !.pc = "resetEmail"]
    OBVIOUS
  <2>2. u \in Nat
    BY <1>7
  <2>3. /\ k \in CallRows /\ k.op = calls[w].op /\ k.pc = "resetEmail" /\ k.email = calls[w].email
        /\ k.ip = calls[w].ip /\ k.user = u
    BY <1>3, <2>1, <2>2 DEF CallRows, Steps
  <2>. QED BY <1>4, <1>15, <1>17, <2>1, <2>3
<1>18. CASE Return(w)
  BY <1>12, <1>18, ReturnTypeInv
<1>. QED BY <1>13, <1>14, <1>16, <1>17, <1>18

\* What happens to the tokens in one step: at most one is made or rewritten at a time.
LEMMA TokenSet ==
  ASSUME NEW s \in Seq(TokenRows), NEW t \in 1 .. Len(s), NEW row \in TokenRows
  PROVE  /\ [s EXCEPT ![t] = row] \in Seq(TokenRows)
         /\ Len([s EXCEPT ![t] = row]) = Len(s)
         /\ \A j \in 1 .. Len(s) : [s EXCEPT ![t] = row][j] = IF j = t THEN row ELSE s[j]
  BY ExceptSeq

LEMMA TokenTypeInv ==
  ASSUME TypeInv, NEW w \in Workers,
         BuildTokenResponse(w) \/ CreateSuccessor(w) \/ Rotate(w) \/ Revoke(w)
  PROVE  TypeInv'
<1>1. UNCHANGED accountVars /\ UNCHANGED bounds /\ UNCHANGED <<fails, failed>>
  BY DEF BuildTokenResponse, CreateSuccessor, Rotate, Revoke, Return, Goto, Continue
<1>2. StoresOK
  BY DEF TypeInv
<1>3. /\ calls[w] \in CallRows /\ OnItsWay(calls[w].op, calls[w].pc) /\ calls[w].op \in Ops
      /\ HasRead(calls[w], calls[w].pc, Len(users), Len(letters), Len(tokens))
  BY TheCall
<1>4. UNCHANGED users /\ UNCHANGED codes /\ UNCHANGED accounts /\ UNCHANGED letters
  BY <1>1 DEF accountVars, codes
<1>5. /\ UsersOK' /\ LettersOK' /\ AccountsOK' /\ FailsOK' /\ BoundsOK'
      /\ Len(users) <= Len(users') /\ Len(letters) <= Len(letters')
  BY <1>1, <1>2, <1>4, SameUsers, SameLetters, SameAccounts, SameFails, SameBounds
<1>6. Len(users) \in Nat /\ Len(tokens) \in Nat /\ Len(letters) \in Nat /\ tokens \in Seq(TokenRows)
  BY <1>2, Lengths DEF StoresOK
<1>7. \A t \in 1 .. Len(tokens) : tokens[t].of \in 1 .. Len(users)
  BY <1>2 DEF StoresOK
<1>8. ASSUME tokens' \in Seq(TokenRows), Len(tokens) <= Len(tokens'),
             \A t \in 1 .. Len(tokens') : tokens'[t].of \in 1 .. Len(users)
      PROVE  StoresOK' /\ Grows
  <2>1. TokensOK'
    BY <1>4, <1>8 DEF TokensOK
  <2>. QED BY <1>5, <1>8, <2>1, Pieces DEF Grows
<1>9. ASSUME NEW row \in TokenRows, row.of \in 1 .. Len(users), tokens' = Append(tokens, row)
      PROVE  StoresOK' /\ Grows /\ Len(tokens') = Len(tokens) + 1
  <2>1. /\ tokens' \in Seq(TokenRows) /\ Len(tokens') = Len(tokens) + 1
        /\ \A t \in 1 .. Len(tokens) : tokens'[t] = tokens[t]
        /\ tokens'[Len(tokens) + 1] = row
    BY <1>6, <1>9, AppendProperties
  <2>2. \A t \in 1 .. Len(tokens') : t \in 1 .. Len(tokens) \/ t = Len(tokens) + 1
    BY <1>6, <2>1
  <2>3. \A t \in 1 .. Len(tokens') : tokens'[t].of \in 1 .. Len(users)
    BY ONLY <1>7, <1>9, <2>1, <2>2
  <2>4. Len(tokens) <= Len(tokens')
    BY <1>6, <2>1
  <2>. QED BY <1>8, <2>1, <2>3, <2>4
<1>10. CASE BuildTokenResponse(w)
  <2>1. calls[w].user \in 1 .. Len(users) /\ calls[w].pc = "newToken"
    BY <1>3, <1>10 DEF BuildTokenResponse, At, OnItsWay, HasRead, Ops
  <2>2. PICK n \in Nat \ {0} : n = Len(tokens) + 1
    BY <1>6
  <2>3. PICK u \in Nat \ {0} : u = calls[w].user
    BY <1>6, <2>1
  <2>4. PICK row : row = [NewToken(u, 0, n) EXCEPT !.given = TRUE]
    OBVIOUS
  <2>5. row \in TokenRows /\ row.of = u
    BY <2>4 DEF NewToken, TokenRows
  <2>6. tokens' = Append(tokens, row) /\ Return(w)
    BY <1>10, <2>2, <2>3, <2>4 DEF BuildTokenResponse
  <2>. QED BY <1>9, <2>1, <2>3, <2>5, <2>6, ReturnTypeInv
<1>11. CASE CreateSuccessor(w)
  <2>1. calls[w].op = "refresh" /\ calls[w].token \in 1 .. Len(tokens) /\ calls[w].pc = "successor"
    BY <1>3, <1>11 DEF CreateSuccessor, At, OnItsWay, HasRead, Ops
  <2>2. PICK t \in 1 .. Len(tokens) : t = calls[w].token
    BY <2>1
  <2>3. tokens[t].of \in Nat \ {0} /\ tokens[t].root \in Nat \ {0} /\ tokens[t].of \in 1 .. Len(users)
    BY <1>2, <1>7, TokenRow
  <2>4. PICK row : row = NewToken(tokens[t].of, t, tokens[t].root)
    OBVIOUS
  <2>5. row \in TokenRows /\ row.of = tokens[t].of
    BY <1>6, <2>3, <2>4 DEF NewToken, TokenRows
  <2>6. PICK n \in Nat : n = Len(tokens) + 1
    BY <1>6
  <2>7. PICK k : k = [calls[w] EXCEPT !.pc = "rotate", !.child = n]
    OBVIOUS
  <2>8. tokens' = Append(tokens, row) /\ calls' = [calls EXCEPT ![w] = k]
    BY <1>11, <2>2, <2>4, <2>6, <2>7 DEF CreateSuccessor, Continue
  <2>9. StoresOK' /\ Grows /\ Len(tokens') = Len(tokens) + 1
    BY <1>9, <2>3, <2>5, <2>8
  <2>10. k \in CallRows /\ k.op = "refresh" /\ k.pc = "rotate" /\ k.token = t /\ k.child = n
    BY <1>3, <2>1, <2>2, <2>7 DEF CallRows, Steps
  <2>11. t \in 1 .. Len(tokens') /\ n \in 1 .. Len(tokens')
    BY <1>6, <2>6, <2>9
  <2>12. Good(k, Len(users'), Len(letters'), Len(tokens'))
    BY <2>10, <2>11 DEF Good, OnItsWay, HasRead
  <2>. QED BY <2>8, <2>9, <2>12, StepCalls
<1>12. CASE Rotate(w) \/ Revoke(w)
  <2>1. Return(w) /\ calls[w].token \in 1 .. Len(tokens) /\ (Rotate(w) => calls[w].child \in 1 .. Len(tokens))
    BY <1>3, <1>12 DEF Rotate, Revoke, At, OnItsWay, HasRead, Ops
  <2>2. PICK t \in 1 .. Len(tokens) : t = calls[w].token
    BY <2>1
  <2>3. PICK row : row = [tokens[t] EXCEPT !.revoked = TRUE]
    OBVIOUS
  <2>4. row \in TokenRows /\ row.of = tokens[t].of
    BY <1>2, <2>3, TokenRow DEF TokenRows
  <2>5. PICK s : s = [tokens EXCEPT ![t] = row]
    OBVIOUS
  <2>6. /\ s \in Seq(TokenRows) /\ Len(s) = Len(tokens)
        /\ \A j \in 1 .. Len(s) : s[j].of = tokens[j].of
    BY <1>6, <2>4, <2>5, TokenSet
  <2>7. CASE Revoke(w)
    <3>1. tokens' = s
      BY <2>2, <2>3, <2>5, <2>7 DEF Revoke
    <3>2. tokens' \in Seq(TokenRows) /\ Len(tokens) <= Len(tokens')
      BY <1>6, <2>6, <3>1
    <3>3. \A j \in 1 .. Len(tokens') : tokens'[j].of \in 1 .. Len(users)
      BY <1>7, <2>6, <3>1
    <3>. QED BY <1>8, <2>1, <3>2, <3>3, ReturnTypeInv
  <2>8. CASE Rotate(w)
    <3>1. PICK c \in 1 .. Len(s) : c = calls[w].child
      BY <2>1, <2>6, <2>8
    <3>2. PICK row2 : row2 = [s[c] EXCEPT !.given = TRUE]
      OBVIOUS
    <3>3. s[c] \in TokenRows
      BY <2>6, ElementOfSeq
    <3>4. row2 \in TokenRows /\ row2.of = s[c].of
      BY <3>2, <3>3 DEF TokenRows
    <3>5. tokens' = [s EXCEPT ![c] = row2]
      BY <2>2, <2>3, <2>5, <2>8, <3>1, <3>2 DEF Rotate
    <3>6. /\ tokens' \in Seq(TokenRows) /\ Len(tokens') = Len(s)
          /\ \A j \in 1 .. Len(s) : tokens'[j] = IF j = c THEN row2 ELSE s[j]
      BY <2>6, <3>4, <3>5, TokenSet
    <3>7. \A j \in 1 .. Len(tokens') : tokens'[j].of \in 1 .. Len(users)
      BY <1>7, <2>6, <3>4, <3>6
    <3>8. Len(tokens) <= Len(tokens')
      BY <1>6, <2>6, <3>6
    <3>. QED BY <1>8, <2>1, <3>6, <3>7, <3>8, ReturnTypeInv
  <2>. QED BY <1>12, <2>7, <2>8
<1>. QED BY <1>10, <1>11, <1>12
-----------------------------------------------------------------------------
(* Time passes *)

LEMMA SameCalls ==
  ASSUME TypeInv, StoresOK', Grows, UNCHANGED calls PROVE TypeInv'
<1>1. \A v \in Workers : Good(calls'[v], Len(users'), Len(letters'), Len(tokens'))
  BY MoreIsGood, Lengths, LengthsNext DEF TypeInv, CallsGood, Grows
<1>. QED BY <1>1 DEF TypeInv, CallsGood

LEMMA ExpireTypeInv ==
  ASSUME TypeInv, Expire PROVE TypeInv'
<1>1. StoresOK
  BY DEF TypeInv
<1>2. TimeOut /\ UNCHANGED users /\ UNCHANGED calls
  BY DEF Expire, TimePasses, CodeExpires, CachedCodeExpires, AccountExpires, FailsExpire,
         TokenExpires, TimeOut, accountVars
<1>3. BoundsOK'
  BY <1>1, <1>2, AccountsAssumption DEF TimeOut, StoresOK, BoundsOK
<1>4. UsersOK' /\ Len(users) <= Len(users')
  BY <1>1, <1>2, SameUsers
<1>5. Len(users) \in Nat /\ Len(tokens) \in Nat /\ Len(letters) \in Nat
  BY <1>1, Lengths
<1>6. CASE UNCHANGED sessionVars
  <2>1. TokensOK' /\ Len(tokens) <= Len(tokens') /\ FailsOK'
    BY <1>1, <1>4, <1>6, SameTokens, SameFails DEF sessionVars
  <2>2. ASSUME NEW c \in DOMAIN letters, CodeExpires(c) PROVE TypeInv'
    <3>1. c \in 1 .. Len(letters)
      BY <1>1, Lengths
    <3>2. PICK row : row = [letters[c] EXCEPT !.expired = TRUE]
      OBVIOUS
    <3>3. row \in Letters
      BY <1>1, <3>1, <3>2, LetterRow DEF Letters, LetterFields
    <3>4. letters' = [letters EXCEPT ![c] = row] /\ UNCHANGED <<otps, otpCache>> /\ UNCHANGED accounts
      BY <2>2, <3>2 DEF CodeExpires
    <3>5. letters' \in Seq(Letters) /\ Len(letters') = Len(letters)
      BY <1>1, <3>1, <3>3, <3>4, LetterSet
    <3>6. LettersOK' /\ Len(letters) <= Len(letters')
      BY <1>1, <1>5, <3>4, <3>5 DEF LettersOK, StoresOK
    <3>. QED BY <1>1, <1>2, <1>3, <1>4, <2>1, <3>4, <3>6, SameAccounts, SameCalls, Pieces DEF Grows
  <2>3. ASSUME NEW e \in Mailboxes, CachedCodeExpires(e) PROVE TypeInv'
    <3>1. /\ UNCHANGED letters /\ UNCHANGED otps /\ UNCHANGED accounts
          /\ otpCache' = [otpCache EXCEPT ![e] = 0]
      BY <2>3 DEF CachedCodeExpires
    <3>2. LettersOK' /\ Len(letters) <= Len(letters')
      BY <1>1, <1>5, <3>1 DEF LettersOK, StoresOK
    <3>. QED BY <1>1, <1>2, <1>3, <1>4, <2>1, <3>1, <3>2, SameAccounts, SameCalls, Pieces DEF Grows
  <2>4. ASSUME NEW u \in UserIds, AccountExpires(u) PROVE TypeInv'
    <3>1. UNCHANGED codes /\ accounts' = [accounts EXCEPT ![u] = NoAccount]
      BY <2>4 DEF AccountExpires
    <3>2. LettersOK' /\ Len(letters) <= Len(letters')
      BY <1>1, <3>1, SameLetters
    <3>3. AccountsOK'
      BY <1>1, <3>1 DEF StoresOK, AccountsOK
    <3>. QED BY <1>1, <1>2, <1>3, <1>4, <2>1, <3>2, <3>3, SameCalls, Pieces DEF Grows
  <2>5. CASE TimePasses
    BY <2>2, <2>3, <2>4, <2>5 DEF TimePasses
  <2>6. CASE ~TimePasses
    <3>1. /\ UNCHANGED codes /\ UNCHANGED accounts
      BY <2>6 DEF Expire, FailsExpire, TokenExpires, accountVars
    <3>2. LettersOK' /\ Len(letters) <= Len(letters') /\ AccountsOK'
      BY <1>1, <3>1, SameLetters, SameAccounts
    <3>. QED BY <1>2, <1>3, <1>4, <2>1, <3>2, SameCalls, Pieces DEF Grows
  <2>. QED BY <2>5, <2>6
<1>7. CASE ~UNCHANGED sessionVars
  <2>1. UNCHANGED codes /\ UNCHANGED accounts
    BY <1>7 DEF Expire, TimePasses, FailsExpire, TokenExpires, accountVars
  <2>2. LettersOK' /\ Len(letters) <= Len(letters') /\ AccountsOK'
    BY <1>1, <2>1, SameLetters, SameAccounts
  <2>3. ASSUME NEW k \in LoginKeys, FailsExpire(k) PROVE TypeInv'
    <3>1. UNCHANGED tokens
      BY <2>3 DEF FailsExpire
    <3>2. TokensOK' /\ Len(tokens) <= Len(tokens')
      BY <1>1, <1>4, <3>1, SameTokens
    <3>3. FailsOK'
      BY <1>1, <2>3 DEF FailsExpire, StoresOK, FailsOK
    <3>. QED BY <1>2, <1>3, <1>4, <2>2, <3>2, <3>3, SameCalls, Pieces DEF Grows
  <2>4. ASSUME NEW t \in Tokens, TokenExpires(t) PROVE TypeInv'
    <3>1. t \in 1 .. Len(tokens) /\ tokens \in Seq(TokenRows)
      BY <1>1, Lengths DEF Tokens, StoresOK
    <3>2. PICK row : row = [tokens[t] EXCEPT !.expired = TRUE]
      OBVIOUS
    <3>3. row \in TokenRows /\ row.of = tokens[t].of
      BY <1>1, <3>1, <3>2, TokenRow DEF TokenRows
    <3>4. tokens' = [tokens EXCEPT ![t] = row] /\ UNCHANGED <<fails, failed>>
      BY <2>4, <3>2 DEF TokenExpires
    <3>5. /\ tokens' \in Seq(TokenRows) /\ Len(tokens') = Len(tokens)
          /\ \A j \in 1 .. Len(tokens) : tokens'[j] = IF j = t THEN row ELSE tokens[j]
      BY <3>1, <3>3, <3>4, TokenSet
    <3>6. \A j \in 1 .. Len(tokens) : tokens[j].of \in 1 .. Len(users)
      BY <1>1 DEF StoresOK
    <3>7. \A j \in 1 .. Len(tokens') : tokens'[j].of \in 1 .. Len(users')
      BY ONLY <1>2, <3>3, <3>5, <3>6
    <3>8. TokensOK' /\ Len(tokens) <= Len(tokens') /\ FailsOK'
      BY <1>1, <1>5, <3>4, <3>5, <3>7, SameFails DEF TokensOK
    <3>. QED BY <1>2, <1>3, <1>4, <2>2, <3>8, SameCalls, Pieces DEF Grows
  <2>. QED BY <1>7, <2>3, <2>4 DEF Expire
<1>. QED BY <1>6, <1>7

LEMMA NextTypeInv == TypeInv /\ [Next]_vars => TypeInv'
<1> SUFFICES ASSUME TypeInv, [Next]_vars PROVE TypeInv'
  OBVIOUS
<1>1. CASE UNCHANGED vars
  <2>1. UNCHANGED <<accountVars, sessionVars, calls, bounds>>
    BY <1>1 DEF vars
  <2>2. BoundsOK' /\ failed' \in [LoginKeys -> Nat] /\ UNCHANGED <<tokens, fails>>
    BY <2>1, SameBounds DEF TypeInv, StoresOK, sessionVars
  <2>3. StoresOK' /\ Grows
    BY <2>1, <2>2, ReadStep
  <2>. QED BY <2>1, <2>3, SameCalls
<1>2. ASSUME NEW w \in Workers, Start(w) PROVE TypeInv'
  <2>1. CASE AccountsStart(w) /\ UNCHANGED sessionVars
    BY <2>1, CodeCallsStart, AccountCallsStart DEF AccountsStart
  <2>. QED BY <1>2, <2>1, SessionCallsStart DEF Start
<1>3. ASSUME NEW w \in Workers, Step(w) PROVE TypeInv'
  <2>1. CASE AccountsStep(w) /\ UNCHANGED sessionVars
    BY <2>1, CheckTypeInv, CodeWriteTypeInv, AccountWriteTypeInv, FailTypeInv DEF AccountsStep
  <2>. QED BY <1>3, <2>1, LoginTypeInv, TokenTypeInv DEF Step
<1>4. ASSUME NEW w \in Workers, Fail(w) PROVE TypeInv'
  BY <1>4, FailTypeInv
<1>. QED BY <1>1, <1>2, <1>3, <1>4, ExpireTypeInv DEF Next

LEMMA TypeInvHolds == Spec => []TypeInv
  BY InitTypeInv, NextTypeInv, PTL DEF Spec
-----------------------------------------------------------------------------
(* How a call moves on *)

Follows(pc, next) ==
    \/ pc = "storeCode" /\ next = "cacheCode"
    \/ pc = "cacheCode" /\ next = "mail"
    \/ pc = "readCode" /\ next = "readCached"
    \/ pc = "readCached" /\ next \in {"checkEmail", "setPassword"}
    \/ pc = "checkEmail" /\ next \in {"checkPhone", "storeCode", "updateUser", "createUser"}
    \/ pc = "checkPhone" /\ next \in {"storeCode", "updateUser", "createUser"}
    \/ pc = "setPassword" /\ next = "dropCode"
    \/ pc = "createUser" /\ next \in {"dropCode", "newToken"}
    \/ pc = "dropCode" /\ next = "dropCachedCode"
    \/ pc = "dropCachedCode" /\ next = "newToken"
    \/ pc = "updateUser" /\ next = "dropAccount"
    \/ pc = "readAccount" /\ next = "fillAccount"
    \/ pc = "checkIp" /\ next = "findUser"
    \/ pc = "findUser" /\ next \in {"readEmailFails", "resetEmail"}
    \/ pc = "readEmailFails" /\ next = "writeEmailFails"
    \/ pc = "writeEmailFails" /\ next = "readIpFails"
    \/ pc = "readIpFails" /\ next = "writeIpFails"
    \/ pc = "resetEmail" /\ next = "resetIp"
    \/ pc = "resetIp" /\ next = "newToken"
    \/ pc = "successor" /\ next = "rotate"

\* What a call keeps: everything but what the step reads into it.
GoesOn(call, k) ==
    /\ k.op = call.op /\ k.email = call.email /\ k.phone = call.phone /\ k.token = call.token
    /\ k.active = call.active /\ k.ip = call.ip /\ k.right = call.right
    /\ call.pc # "storeCode" => k.code = call.code
    /\ call.pc \notin {"createUser", "findUser"} => k.user = call.user
    /\ call.pc # "successor" => k.child = call.child
    /\ Follows(call.pc, k.pc)

LEMMA StepMoves ==
  ASSUME TypeInv, NEW w \in Workers, Step(w) \/ Fail(w)
  PROVE  /\ calls[w].pc # "idle"
         /\ \E k : calls' = [calls EXCEPT ![w] = k] /\ (k = Idle \/ GoesOn(calls[w], k))
<1>1. /\ calls[w] \in CallRows /\ OnItsWay(calls[w].op, calls[w].pc) /\ calls[w].op \in Ops
  BY TheCall
<1>2. PICK call \in CallRows : call = calls[w]
  BY <1>1
<1>3. ASSUME NEW pc \in Steps, Goto(w, pc), Follows(call.pc, pc)
      PROVE  \E k : calls' = [calls EXCEPT ![w] = k] /\ GoesOn(call, k)
  <2>1. PICK k : k = [call EXCEPT !.pc = pc]
    OBVIOUS
  <2>2. GoesOn(call, k)
    BY <1>3, <2>1, PcChanged DEF GoesOn
  <2>. QED BY <1>2, <1>3, <2>1, <2>2 DEF Goto, Continue
<1>4. CASE Return(w) \/ Fail(w)
  <2>1. calls' = [calls EXCEPT ![w] = Idle]
    BY <1>4 DEF Return, Continue, Fail
  <2>2. calls[w].pc # "idle"
    BY <1>4 DEF Step, AccountsStep, StoreCode, CacheCode, Mail, ReadCode, ReadCached, SetPassword,
          DropCode, DropCachedCode, DropFails, CheckEmail, CheckPhone, CreateUser, UpdateWrite,
          DropAccount, ReadAccount, FillAccount, CheckIp, FindUser, RecordLoginFailure,
          ResetLoginFailures, ReadFails, WriteFails, ResetFails, BuildTokenResponse,
          CreateSuccessor, Rotate, Revoke, Fail, At
  <2>. QED BY <2>1, <2>2
<1>5. CASE ~Return(w) /\ ~Fail(w) /\ AccountsStep(w)
  <2>1. CASE StoreCode(w)
    <3>1. PICK k : k = [call EXCEPT !.pc = "cacheCode", !.code = Len(letters) + 1]
      OBVIOUS
    <3>2. GoesOn(call, k)
      BY <1>2, <2>1, <3>1 DEF CallRows, GoesOn, Follows, StoreCode, At
    <3>. QED BY <1>2, <2>1, <3>1, <3>2 DEF StoreCode, Continue, At
  <2>2. CASE ReadCode(w)
    <3>1. PICK k : k = [call EXCEPT !.pc = "readCached", !.row = otps[call.email]]
      OBVIOUS
    <3>2. GoesOn(call, k)
      BY <1>2, <2>2, <3>1 DEF CallRows, GoesOn, Follows, ReadCode, At
    <3>. QED BY <1>2, <2>2, <3>1, <3>2 DEF ReadCode, Continue, At
  <2>3. CASE ReadAccount(w)
    <3>1. PICK k : k = [call EXCEPT !.pc = "fillAccount", !.view = Account(call.user)]
      OBVIOUS
    <3>2. GoesOn(call, k)
      BY <1>2, <2>3, <3>1 DEF CallRows, GoesOn, Follows, ReadAccount, At
    <3>. QED BY <1>2, <2>3, <3>1, <3>2 DEF ReadAccount, Continue, At
  <2>4. CASE CreateUser(w)
    <3>1. PICK k : k = [call EXCEPT !.user = Len(users) + 1,
                          !.pc = IF call.op = "register" THEN "dropCode" ELSE "newToken"]
      OBVIOUS
    <3>2. GoesOn(call, k)
      BY <1>2, <2>4, <3>1 DEF CallRows, GoesOn, Follows, CreateUser, At
    <3>. QED BY <1>2, <1>5, <2>4, <3>1, <3>2 DEF CreateUser, Continue, At
  <2>5. CASE DropFails(w)
    <3>1. PICK pc \in Steps : \/ calls' = [calls EXCEPT ![w] = Idle]
                              \/ /\ calls' = [calls EXCEPT ![w] = [call EXCEPT !.pc = pc]]
                                 /\ Follows(call.pc, pc)
      BY <1>2, <2>5 DEF DropFails, Follows, Steps, At
    <3>2. PICK k : k = [call EXCEPT !.pc = pc]
      OBVIOUS
    <3>3. Follows(call.pc, pc) => GoesOn(call, k)
      BY <3>2, PcChanged DEF GoesOn
    <3>. QED BY <1>2, <2>5, <3>1, <3>2, <3>3 DEF DropFails
  <2>6. CASE CacheCode(w)
    BY <1>2, <1>3, <2>6 DEF CacheCode, At, Follows, Steps
  <2>7. CASE Mail(w) \/ DropAccount(w) \/ FillAccount(w)
    BY <1>5, <2>7 DEF Mail, DropAccount, FillAccount
  <2>8. CASE ReadCached(w)
    <3>1. PICK pc \in {"checkEmail", "setPassword"} : Goto(w, pc)
      BY <1>5, <2>8 DEF ReadCached
    <3>2. Follows(call.pc, pc) /\ pc \in Steps
      BY <1>2, <2>8 DEF ReadCached, At, Follows, Steps
    <3>. QED BY <1>2, <1>3, <2>8, <3>1, <3>2 DEF ReadCached, At
  <2>9. CASE SetPassword(w)
    BY <1>2, <1>3, <1>5, <2>9 DEF SetPassword, At, Follows, Steps
  <2>10. CASE DropCode(w)
    BY <1>2, <1>3, <1>5, <2>10 DEF DropCode, At, Follows, Steps
  <2>11. CASE DropCachedCode(w)
    BY <1>2, <1>3, <1>5, <2>11 DEF DropCachedCode, At, Follows, Steps
  <2>12. CASE UpdateWrite(w)
    BY <1>2, <1>3, <1>5, <2>12 DEF UpdateWrite, At, Follows, Steps
  <2>13. CASE CheckEmail(w) \/ CheckPhone(w)
    <3>1. PICK pc \in {"checkPhone", "storeCode", "updateUser", "createUser"} :
             Goto(w, pc) /\ (call.pc = "checkPhone" => pc # "checkPhone")
      BY <1>2, <1>5, <2>13 DEF CheckEmail, CheckPhone, Write, At
    <3>2. Follows(call.pc, pc) /\ pc \in Steps
      BY <1>2, <2>13, <3>1 DEF CheckEmail, CheckPhone, At, Follows, Steps
    <3>. QED BY <1>2, <1>3, <2>13, <3>1, <3>2 DEF CheckEmail, CheckPhone, At
  <2>. QED BY <1>5, <2>1, <2>2, <2>3, <2>4, <2>5, <2>6, <2>7, <2>8, <2>9, <2>10, <2>11, <2>12,
              <2>13 DEF AccountsStep
<1>6. CASE ~Return(w) /\ ~Fail(w) /\ ~AccountsStep(w)
  <2>1. CASE CheckIp(w)
    BY <1>2, <1>3, <1>6, <2>1 DEF CheckIp, At, Follows, Steps
  <2>2. CASE FindUser(w)
    <3>1. CASE Goto(w, "readEmailFails")
      BY <1>2, <1>3, <2>2, <3>1 DEF FindUser, At, Follows, Steps
    <3>2. ASSUME NEW u, Continue(w, [call EXCEPT !.user = u, !.pc = "resetEmail"])
          PROVE  \E k : calls' = [calls EXCEPT ![w] = k] /\ GoesOn(call, k)
      <4>1. PICK k : k = [call EXCEPT !.user = u, !.pc = "resetEmail"]
        OBVIOUS
      <4>2. GoesOn(call, k)
        BY <1>2, <2>2, <4>1 DEF CallRows, GoesOn, Follows, FindUser, At
      <4>. QED BY <3>2, <4>1, <4>2 DEF Continue
    <3>. QED BY <1>2, <1>6, <2>2, <3>1, <3>2 DEF FindUser, At
  <2>3. CASE RecordLoginFailure(w)
    <3>1. ASSUME NEW n, NEW pc \in Steps, Follows(call.pc, pc), call.pc \in {"readEmailFails", "readIpFails"},
                 Continue(w, [call EXCEPT !.pc = pc, !.count = n])
          PROVE  \E k : calls' = [calls EXCEPT ![w] = k] /\ GoesOn(call, k)
      <4>1. PICK k : k = [call EXCEPT !.pc = pc, !.count = n]
        OBVIOUS
      <4>2. GoesOn(call, k)
        BY <3>1, <4>1 DEF CallRows, GoesOn
      <4>. QED BY <3>1, <4>1, <4>2 DEF Continue
    <3>2. CASE WriteFails(w, "writeEmailFails", calls[w].email, "readIpFails")
      BY <1>2, <1>3, <3>2 DEF WriteFails, At, Follows, Steps
    <3>3. CASE ReadFails(w, "readEmailFails", calls[w].email, "writeEmailFails")
      BY <1>2, <3>1, <3>3 DEF ReadFails, At, Follows, Steps
    <3>4. CASE ReadFails(w, "readIpFails", calls[w].ip, "writeIpFails")
      BY <1>2, <3>1, <3>4 DEF ReadFails, At, Follows, Steps
    <3>. QED BY <1>6, <2>3, <3>2, <3>3, <3>4 DEF RecordLoginFailure, WriteFails
  <2>4. CASE ResetLoginFailures(w)
    BY <1>2, <1>3, <2>4 DEF ResetLoginFailures, ResetFails, At, Follows, Steps
  <2>5. CASE BuildTokenResponse(w) \/ Rotate(w) \/ Revoke(w)
    BY <1>6, <2>5 DEF BuildTokenResponse, Rotate, Revoke
  <2>6. CASE CreateSuccessor(w)
    <3>1. PICK k : k = [call EXCEPT !.pc = "rotate", !.child = Len(tokens) + 1]
      OBVIOUS
    <3>2. GoesOn(call, k)
      BY <1>2, <2>6, <3>1 DEF CallRows, GoesOn, Follows, CreateSuccessor, At
    <3>. QED BY <1>2, <2>6, <3>1, <3>2 DEF CreateSuccessor, Continue, At
  <2>. QED BY <1>6, <2>1, <2>2, <2>3, <2>4, <2>5, <2>6 DEF Step
<1>. QED BY <1>4, <1>5, <1>6

\* The calls that begin read only.
LEMMA StartMoves ==
  ASSUME TypeInv, NEW w \in Workers, Start(w)
  PROVE  /\ UNCHANGED <<accountVars, sessionVars>> /\ calls[w].pc = "idle"
         /\ begun' = begun + 1 /\ UNCHANGED <<timeouts, failures>>
         /\ overlapped' = (overlapped \/ ~Quiet) /\ disturbed' = (disturbed \/ ~Quiet)
         /\ \E k : Begin(w, k) /\ calls' = [calls EXCEPT ![w] = k]
  BY DEF Start, AccountsStart, SendForgotPasswordOtp, SendRegisterOtp, SendPasswordOtp, Register,
         ResetPassword, ChangePassword, CreateUserByAdmin, GoogleLogin, UpdateUser, Validate,
         Login, Refresh, Logout, Begin, At

\* Only the creation of an account adds a row.
LEMMA UsersMove ==
  ASSUME TypeInv, NEW w \in Workers, Step(w) \/ Fail(w)
  PROVE  \/ Len(users') = Len(users)
         \/ calls[w].pc = "createUser" /\ Len(users') = Len(users) + 1
<1>1. /\ calls[w] \in CallRows /\ OnItsWay(calls[w].op, calls[w].pc) /\ calls[w].op \in Ops
      /\ HasRead(calls[w], calls[w].pc, Len(users), Len(letters), Len(tokens))
  BY TheCall
<1>2. CASE UNCHANGED users
  BY <1>2
<1>3. CASE ~UNCHANGED users
  <2>1. \/ SetPassword(w) \/ UpdateWrite(w) \/ CreateUser(w)
    BY <1>3 DEF Step, AccountsStep, StoreCode, CacheCode, Mail, ReadCode, ReadCached,
          DropCode, DropCachedCode, DropFails, CheckEmail, CheckPhone,
          DropAccount, ReadAccount, FillAccount, CheckIp, FindUser, RecordLoginFailure,
          ResetLoginFailures, ReadFails, WriteFails, ResetFails, BuildTokenResponse,
          CreateSuccessor, Rotate, Revoke, Fail, accountVars
  <2>2. users \in Seq(UserRows)
    BY DEF TypeInv, StoresOK
  <2>3. CASE SetPassword(w) \/ UpdateWrite(w)
    <3>1. \E u, row : users' = [users EXCEPT ![u] = row]
      BY <1>3, <2>3 DEF SetPassword, UpdateWrite
    <3>. QED BY <2>2, <3>1
  <2>4. CASE CreateUser(w)
    <3>1. \E row : users' = Append(users, row)
      BY <1>3, <2>4 DEF CreateUser
    <3>. QED BY <2>2, <2>4, <3>1 DEF CreateUser, At
  <2>. QED BY <2>1, <2>3, <2>4
<1>. QED BY <1>2, <1>3
-----------------------------------------------------------------------------
(* The accounts: at most one per call, so the ids stay within UserIds *)

Creating(call) == call.op \in {"register", "create", "google"}
                  /\ call.pc \in {"readCached", "checkEmail", "checkPhone", "createUser"}

Creators == {w \in Workers : Creating(calls[w])}

UsersCounted == Len(users) + Cardinality(Creators) <= Len(InitUsers) + begun

LEMMA CreatorsFinite == IsFiniteSet(Creators) /\ Cardinality(Creators) \in Nat
  BY AccountsAssumption, FS_Subset, FS_CardinalityType DEF Creators

LEMMA CreatorsFiniteNext == IsFiniteSet(Creators') /\ Cardinality(Creators') \in Nat
  BY AccountsAssumption, FS_Subset, FS_CardinalityType DEF Creators

LEMMA StepCounted ==
  ASSUME TypeInv, UsersCounted, NEW w \in Workers, Step(w) \/ Fail(w), UNCHANGED begun
  PROVE  UsersCounted'
<1>1. /\ calls[w] \in CallRows /\ OnItsWay(calls[w].op, calls[w].pc) /\ calls[w].op \in Ops
      /\ calls \in [Workers -> CallRows]
  BY TheCall DEF TypeInv, CallsGood
<1>2. PICK k : calls' = [calls EXCEPT ![w] = k] /\ (k = Idle \/ GoesOn(calls[w], k))
  BY StepMoves
<1>3. Creating(k) => Creating(calls[w]) /\ calls[w].pc # "createUser"
  BY <1>1, <1>2 DEF Creating, GoesOn, Follows, Idle, OnItsWay
<1>4. Creators' \subseteq Creators
  BY <1>1, <1>2, <1>3 DEF Creators
<1>5. Cardinality(Creators') <= Cardinality(Creators)
  BY <1>4, CreatorsFinite, FS_Subset
<1>6. Len(users) \in Nat /\ Len(InitUsers) \in Nat /\ begun \in Nat
  BY Lengths, LenProperties, AccountsAssumption DEF TypeInv, StoresOK
<1>7. CASE Len(users') = Len(users)
  BY <1>5, <1>6, <1>7, CreatorsFinite, CreatorsFiniteNext DEF UsersCounted
<1>8. CASE calls[w].pc = "createUser" /\ Len(users') = Len(users) + 1
  <2>1. w \in Creators
    BY <1>1, <1>8 DEF Creators, Creating, OnItsWay, Ops
  <2>2. Creators' \subseteq Creators \ {w}
    BY <1>1, <1>2, <1>3, <1>4, <1>8 DEF Creators
  <2>3. IsFiniteSet(Creators \ {w}) /\ Cardinality(Creators \ {w}) = Cardinality(Creators) - 1
    BY <2>1, CreatorsFinite, FS_RemoveElement
  <2>4. Cardinality(Creators') <= Cardinality(Creators) - 1
    BY <2>2, <2>3, FS_Subset
  <2>. QED BY <1>6, <1>8, <2>4, CreatorsFinite, CreatorsFiniteNext DEF UsersCounted
<1>. QED BY <1>7, <1>8, UsersMove

LEMMA StepBegun ==
  ASSUME NEW w \in Workers, Step(w) \/ Fail(w)
  PROVE  begun' = begun
  BY DEF Step, AccountsStep, StoreCode, CacheCode, Mail, ReadCode, ReadCached, SetPassword,
      DropCode, DropCachedCode, DropFails, CheckEmail, CheckPhone, CreateUser, UpdateWrite,
      DropAccount, ReadAccount, FillAccount, CheckIp, FindUser, RecordLoginFailure,
      ResetLoginFailures, ReadFails, WriteFails, ResetFails, BuildTokenResponse,
      CreateSuccessor, Rotate, Revoke, Fail, Return, Goto, Continue, bounds

LEMMA NextCounted == TypeInv /\ UsersCounted /\ [Next]_vars => UsersCounted'
<1> SUFFICES ASSUME TypeInv, UsersCounted, [Next]_vars PROVE UsersCounted'
  OBVIOUS
<1>1. CASE UNCHANGED vars \/ Expire
  <2>1. UNCHANGED <<users, calls, begun>>
    BY <1>1 DEF vars, bounds, accountVars, Expire, TimePasses, CodeExpires, CachedCodeExpires,
                AccountExpires, FailsExpire, TokenExpires, TimeOut
  <2>. QED BY <2>1 DEF UsersCounted, Creators
<1>2. ASSUME NEW w \in Workers, Start(w) PROVE UsersCounted'
  <2>1. UNCHANGED users /\ begun' = begun + 1
    BY <1>2, StartMoves DEF accountVars
  <2>2. PICK k : calls' = [calls EXCEPT ![w] = k]
    BY <1>2, StartMoves
  <2>3. Creators' \subseteq Creators \cup {w}
    BY <2>2 DEF Creators, TypeInv, CallsGood
  <2>4. /\ IsFiniteSet(Creators \cup {w})
        /\ Cardinality(Creators \cup {w}) \in {Cardinality(Creators), Cardinality(Creators) + 1}
    BY CreatorsFinite, FS_AddElement
  <2>5. Cardinality(Creators') <= Cardinality(Creators) + 1
    BY <2>3, <2>4, CreatorsFinite, CreatorsFiniteNext, FS_Subset
  <2>6. Len(users) \in Nat /\ Len(InitUsers) \in Nat /\ begun \in Nat
    BY Lengths, LenProperties, AccountsAssumption DEF TypeInv, StoresOK
  <2>. QED BY <2>1, <2>5, <2>6, CreatorsFinite, CreatorsFiniteNext DEF UsersCounted
<1>3. ASSUME NEW w \in Workers, Step(w) \/ Fail(w) PROVE UsersCounted'
  BY <1>3, StepCounted, StepBegun
<1>. QED BY <1>1, <1>2, <1>3 DEF Next

LEMMA InitCounted == Init => UsersCounted
<1> SUFFICES ASSUME Init PROVE UsersCounted
  OBVIOUS
<1>1. Creators = {}
  BY DEF Init, AccountsInit, Creators, Creating, Idle
<1>. QED BY <1>1, FS_EmptySet, LenProperties, AccountsAssumption DEF Init, AccountsInit, UsersCounted

DisturbedOK == overlapped \in BOOLEAN /\ disturbed \in BOOLEAN

LEMMA InitDisturbed == Init => DisturbedOK
  BY DEF Init, AccountsInit, DisturbedOK

\* Only a failure in the middle of a call disturbs it.
LEMMA StepDisturbs ==
  ASSUME NEW w \in Workers, Step(w) \/ Fail(w)
  PROVE  /\ UNCHANGED overlapped
         /\ \/ UNCHANGED disturbed /\ UNCHANGED failures
            \/ disturbed' = TRUE /\ failures' = failures + 1 /\ UNCHANGED <<accountVars, sessionVars>>
<1>1. CASE Fail(w)
  BY <1>1 DEF Fail
<1>2. CASE AccountsStep(w) /\ UNCHANGED sessionVars
  <2>1. CASE DropFails(w)
    BY <1>2, <2>1 DEF DropFails
  <2>2. CASE ~DropFails(w)
    BY <1>2, <2>2 DEF AccountsStep, StoreCode, CacheCode, Mail, ReadCode, ReadCached, SetPassword,
      DropCode, DropCachedCode, CheckEmail, CheckPhone, CreateUser, UpdateWrite,
      DropAccount, ReadAccount, FillAccount, Return, Goto, Continue, bounds
  <2>. QED BY <2>1, <2>2
<1>3. CASE ~Fail(w) /\ ~(AccountsStep(w) /\ UNCHANGED sessionVars)
  BY <1>3 DEF Step, CheckIp, FindUser, RecordLoginFailure, ResetLoginFailures, ReadFails,
      WriteFails, ResetFails, BuildTokenResponse, CreateSuccessor, Rotate, Revoke, Return, Goto,
      Continue, bounds
<1>. QED BY <1>1, <1>2, <1>3

LEMMA NextDisturbed == TypeInv /\ DisturbedOK /\ [Next]_vars => DisturbedOK'
<1> SUFFICES ASSUME TypeInv, DisturbedOK, [Next]_vars PROVE DisturbedOK'
  OBVIOUS
<1>1. CASE UNCHANGED vars \/ Expire
  <2>1. UNCHANGED disturbed \/ disturbed' = (disturbed \/ ~Quiet)
    BY <1>1 DEF vars, Expire, TimePasses, CodeExpires, CachedCodeExpires, AccountExpires,
                FailsExpire, TokenExpires
  <2>2. UNCHANGED overlapped
    BY <1>1 DEF vars, bounds, Expire, TimePasses, CodeExpires, CachedCodeExpires, AccountExpires,
                FailsExpire, TokenExpires, TimeOut
  <2>. QED BY ONLY <2>1, <2>2, DisturbedOK, Zenon DEF DisturbedOK
<1>2. ASSUME NEW w \in Workers, Start(w) PROVE DisturbedOK'
  <2>1. overlapped' = (overlapped \/ ~Quiet) /\ disturbed' = (disturbed \/ ~Quiet)
    BY <1>2, StartMoves
  <2>. QED BY ONLY <2>1, DisturbedOK, Zenon DEF DisturbedOK
<1>3. ASSUME NEW w \in Workers, Step(w) \/ Fail(w) PROVE DisturbedOK'
  <2>1. UNCHANGED overlapped /\ (UNCHANGED disturbed \/ disturbed' = TRUE)
    BY <1>3, StepDisturbs
  <2>. QED BY ONLY <2>1, DisturbedOK, Zenon DEF DisturbedOK
<1>. QED BY <1>1, <1>2, <1>3, Zenon DEF Next

LEMMA TypesTogether == TypeInv /\ UsersCounted /\ DisturbedOK => TypeOK
<1> SUFFICES ASSUME TypeInv, UsersCounted, DisturbedOK PROVE TypeOK
  OBVIOUS
<1>1. StoresOK
  BY DEF TypeInv
<1>2. /\ Len(users) \in Nat /\ Len(letters) \in Nat /\ Len(tokens) \in Nat /\ Users = 1 .. Len(users)
      /\ DOMAIN letters = 1 .. Len(letters) /\ Tokens = 1 .. Len(tokens)
  BY <1>1, Lengths DEF Users, Tokens
<1>3. Len(users) <= Len(InitUsers) + begun
  <2>1. Len(InitUsers) \in Nat /\ begun \in Nat
    BY <1>1, LenProperties, AccountsAssumption DEF StoresOK
  <2>. QED BY <1>2, <2>1, CreatorsFinite DEF UsersCounted
<1>4. \A e \in Mailboxes : {otps[e], otpCache[e]} \subseteq {0} \cup DOMAIN letters
  <2>1. \A e \in Mailboxes : otps[e] \in 0 .. Len(letters) /\ otpCache[e] \in 0 .. Len(letters)
    BY <1>1 DEF StoresOK
  <2>. QED BY ONLY <1>2, <2>1
<1>5. \A w \in Workers : calls[w].op \in Ops
  BY TheCall
<1>6. begun <= MaxCalls /\ timeouts <= MaxTimeouts /\ failures <= MaxFailures
  BY <1>1, AccountsAssumption DEF StoresOK
<1>7. AccountsTypeOK
  BY ONLY <1>1, <1>3, <1>4, <1>5, <1>6, DisturbedOK, Zenon DEF AccountsTypeOK, StoresOK, DisturbedOK
<1>8. \A t \in Tokens : tokens[t].of \in Users
  BY <1>1, <1>2 DEF StoresOK
<1>. QED BY ONLY <1>1, <1>7, <1>8 DEF TypeOK, StoresOK

\* Every variable has its type in every reachable state: no step of auth.service.ts,
\* user.service.ts, jwt.strategy.ts or abuse.service.ts writes a malformed row or
\* counter, and no refresh token belongs to an account that does not exist.
THEOREM TypeCorrect == Spec => []TypeOK
  BY InitTypeInv, NextTypeInv, InitCounted, NextCounted, InitDisturbed, NextDisturbed, TypesTogether,
     PTL DEF Spec
=============================================================================
