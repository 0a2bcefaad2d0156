------------------------ MODULE SessionSafety_proofs ------------------------
(***************************************************************************)
(* What Sessions promises of one-time codes, refresh tokens, cached        *)
(* accounts and the lockout, for every number of accounts, codes, tokens   *)
(* and overlapping calls, and calls that die.                              *)
(***************************************************************************)
EXTENDS Sessions_proofs

Busy == {w \in Workers : ~At(w, "idle")}

\* Calls that have not overlapped are in progress one at a time, and as long as
\* nothing is disturbed nothing has failed either.
Alone == /\ ~disturbed => ~overlapped /\ failures = 0
         /\ ~overlapped => \A v, w \in Workers : ~At(v, "idle") /\ ~At(w, "idle") => v = w

\* A step of a call.
LEMMA OneMoves ==
  ASSUME TypeInv, NEW w \in Workers, Step(w) \/ Fail(w)
  PROVE  /\ \A v \in Workers \ {w} : calls'[v] = calls[v]
         /\ calls[w].pc # "idle"
         /\ calls'[w] = Idle \/ GoesOn(calls[w], calls'[w])
<1>1. PICK k : calls' = [calls EXCEPT ![w] = k] /\ (k = Idle \/ GoesOn(calls[w], k))
  BY StepMoves
<1>. QED BY <1>1, StepMoves DEF TypeInv, CallsGood

\* A step that leaves the history undisturbed is made by the only call there is.
LEMMA OnlyCall ==
  ASSUME Alone, NEW w \in Workers, Step(w) \/ Fail(w), TypeInv, ~disturbed'
  PROVE  /\ ~disturbed /\ ~overlapped /\ UNCHANGED failures /\ failures = 0
         /\ \A v \in Workers \ {w} : calls[v].pc = "idle" /\ calls'[v] = calls[v]
<1>1. ~disturbed /\ UNCHANGED failures
  BY StepDisturbs
<1>. QED BY <1>1, OneMoves DEF Alone, At

LEMMA InitAlone == Init => Alone
  BY DEF Init, AccountsInit, Alone, At, Idle

\* Nothing makes a disturbed history undisturbed.
LEMMA StaysDisturbed ==
  ASSUME TypeInv, [Next]_vars PROVE disturbed => disturbed'
<1>1. CASE UNCHANGED vars
  <2>1. disturbed' = disturbed
    BY <1>1 DEF vars
  <2>. QED BY ONLY <2>1, Zenon
<1>2. CASE Expire
  <2>1. disturbed' = disturbed \/ disturbed' = (disturbed \/ ~Quiet)
    BY <1>2 DEF Expire, TimePasses, CodeExpires, CachedCodeExpires, AccountExpires, FailsExpire,
                TokenExpires
  <2>. QED BY ONLY <2>1, Zenon
<1>3. ASSUME NEW w \in Workers, Start(w) PROVE disturbed => disturbed'
  <2>1. disturbed' = (disturbed \/ ~Quiet)
    BY <1>3, StartMoves
  <2>. QED BY ONLY <2>1, Zenon
<1>4. ASSUME NEW w \in Workers, Step(w) \/ Fail(w) PROVE disturbed => disturbed'
  <2>1. disturbed' = disturbed \/ disturbed' = TRUE
    BY <1>4, StepDisturbs
  <2>. QED BY ONLY <2>1, Zenon
<1>. QED BY <1>1, <1>2, <1>3, <1>4, Zenon DEF Next

LEMMA ExpireMoves ==
  ASSUME Expire PROVE UNCHANGED <<calls, users, otps, begun, failures, overlapped>>
  BY DEF Expire, TimePasses, CodeExpires, CachedCodeExpires, AccountExpires, FailsExpire,
         TokenExpires, TimeOut, accountVars, codes

\* Nothing makes calls that have overlapped not overlap.
LEMMA StaysOverlapped ==
  ASSUME TypeInv, [Next]_vars PROVE overlapped => overlapped'
<1>1. CASE UNCHANGED vars \/ Expire
  <2>1. overlapped' = overlapped
    BY <1>1, ExpireMoves DEF vars, bounds
  <2>. QED BY ONLY <2>1, Zenon
<1>2. ASSUME NEW w \in Workers, Start(w) PROVE overlapped => overlapped'
  <2>1. overlapped' = (overlapped \/ ~Quiet)
    BY <1>2, StartMoves
  <2>. QED BY ONLY <2>1, Zenon
<1>3. ASSUME NEW w \in Workers, Step(w) \/ Fail(w) PROVE overlapped => overlapped'
  <2>1. overlapped' = overlapped
    BY <1>3, StepDisturbs
  <2>. QED BY ONLY <2>1, Zenon
<1>. QED BY <1>1, <1>2, <1>3, Zenon DEF Next

\* A call that begins in an undisturbed history is the only one.
LEMMA QuietStart ==
  ASSUME TypeInv, NEW w \in Workers, Start(w), ~disturbed'
  PROVE  Quiet /\ ~disturbed
<1>1. disturbed' = (disturbed \/ ~Quiet)
  BY StartMoves
<1>. QED BY ONLY <1>1, ~disturbed', Zenon

LEMMA NextUndisturbed ==
  ASSUME TypeInv, Alone, [Next]_vars, ~disturbed' PROVE ~overlapped' /\ failures' = 0
<1>0. ~disturbed /\ ~overlapped /\ failures = 0
  BY StaysDisturbed DEF Alone
<1>1. CASE UNCHANGED vars \/ Expire
  <2>1. overlapped' = overlapped /\ failures' = failures
    BY <1>1, ExpireMoves DEF vars, bounds
  <2>. QED BY ONLY <1>0, <2>1, Zenon
<1>2. ASSUME NEW w \in Workers, Start(w) PROVE ~overlapped' /\ failures' = 0
  <2>1. overlapped' = (overlapped \/ ~Quiet) /\ failures' = failures /\ Quiet
    BY <1>2, StartMoves, QuietStart
  <2>. QED BY ONLY <1>0, <2>1, Zenon
<1>3. ASSUME NEW w \in Workers, Step(w) \/ Fail(w) PROVE ~overlapped' /\ failures' = 0
  <2>1. overlapped' = overlapped /\ failures' = failures
    BY <1>3, StepDisturbs, OnlyCall
  <2>. QED BY ONLY <1>0, <2>1, Zenon
<1>. QED BY <1>1, <1>2, <1>3, Zenon DEF Next

LEMMA NextOneAtATime ==
  ASSUME TypeInv, Alone, [Next]_vars, ~overlapped',
         NEW u \in Workers, NEW v \in Workers, ~At(u, "idle")', ~At(v, "idle")'
  PROVE  u = v
<1>0. ~overlapped
  BY StaysOverlapped
<1>1. CASE UNCHANGED vars \/ Expire
  <2>1. UNCHANGED calls
    BY <1>1, ExpireMoves DEF vars
  <2>. QED BY <1>0, <2>1 DEF Alone, At
<1>2. ASSUME NEW w \in Workers, Start(w) PROVE u = v
  <2>1. Quiet
    <3>1. overlapped' = (overlapped \/ ~Quiet)
      BY <1>2, StartMoves
    <3>. QED BY ONLY <3>1, ~overlapped', Zenon
  <2>2. PICK k : calls' = [calls EXCEPT ![w] = k]
    BY <1>2, StartMoves
  <2>3. \A x \in Workers \ {w} : At(x, "idle")'
    BY <2>1, <2>2 DEF Quiet, At, TypeInv, CallsGood
  <2>. QED BY <2>3
<1>3. ASSUME NEW w \in Workers, Step(w) \/ Fail(w) PROVE u = v
  <2>1. calls[w].pc # "idle" /\ \A x \in Workers \ {w} : calls'[x] = calls[x]
    BY <1>3, OneMoves
  <2>. QED BY <1>0, <2>1 DEF Alone, At
<1>. QED BY <1>1, <1>2, <1>3 DEF Next

LEMMA NextAlone == TypeInv /\ Alone /\ [Next]_vars => Alone'
  BY NextUndisturbed, NextOneAtATime DEF Alone

\* The limit after a step that leaves n failures.
LEMMA LimitNext ==
  ASSUME NEW n \in Nat, failures' = n
  PROVE  /\ UseLimit' \in Nat
         /\ overlapped' => UseLimit' = Cardinality(Workers) + n
         /\ ~overlapped' => UseLimit' = 1 + n
<1>1. Cardinality(Workers) \in Nat
  BY AccountsAssumption, FS_CardinalityType
<1>2. PICK m : m = UseLimit'
  OBVIOUS
<1>3. m = (IF overlapped' THEN Cardinality(Workers) ELSE 1) + n
  BY <1>2 DEF UseLimit
<1>4. /\ m \in Nat
      /\ overlapped' => m = Cardinality(Workers) + n
      /\ ~overlapped' => m = 1 + n
  BY ONLY <1>1, <1>3, n \in Nat
<1>. QED BY ONLY <1>2, <1>4

\* The calls in progress, counted as the limit of Sessions counts them.
LEMMA BusyBound ==
  ASSUME StoresOK', Alone'
  PROVE  /\ Cardinality(Busy') + failures' <= UseLimit'
         /\ IsFiniteSet(Busy') /\ failures' \in Nat /\ UseLimit' \in Nat
<1>1. IsFiniteSet(Busy') /\ Cardinality(Busy') <= Cardinality(Workers) /\ Cardinality(Busy') \in Nat
  BY AccountsAssumption, FS_Subset, FS_CardinalityType DEF Busy
<1>2. Cardinality(Workers) \in Nat
  BY AccountsAssumption, FS_CardinalityType
<1>3. PICK n \in Nat : n = failures'
  BY AccountsAssumption DEF StoresOK
<1>4. PICK m \in Nat : /\ m = UseLimit'
                       /\ overlapped' => m = Cardinality(Workers) + n
                       /\ ~overlapped' => m = 1 + n
  BY <1>3, LimitNext
<1>5. PICK b : b = Cardinality(Busy')
  OBVIOUS
<1>6. b \in Nat /\ b <= Cardinality(Workers)
  BY ONLY <1>1, <1>5
<1>7. ~overlapped' => b \in {0, 1}
  <2>1. ~overlapped' => \A v, w \in Busy' : v = w
    BY DEF Alone, Busy
  <2>2. CASE Busy' = {}
    <3>1. Cardinality(Busy') = 0
      BY <2>2, FS_EmptySet
    <3>. QED BY ONLY <3>1, <1>5
  <2>3. CASE overlapped'
    BY ONLY <2>3
  <2>4. CASE Busy' # {} /\ ~overlapped'
    <3>1. PICK v : Busy' = {v}
      BY <2>1, <2>4
    <3>2. Cardinality({v}) = 1
      BY FS_Singleton
    <3>. QED BY ONLY <3>1, <3>2, <1>5
  <2>. QED BY <2>2, <2>3, <2>4
<1>8. b + n <= m
  <2>1. CASE overlapped'
    <3>1. m = Cardinality(Workers) + n
      BY ONLY <1>4, <2>1
    <3>. QED BY ONLY <3>1, <1>2, <1>6, n \in Nat
  <2>2. CASE ~overlapped'
    <3>1. m = 1 + n /\ b \in {0, 1}
      BY ONLY <1>4, <1>7, <2>2
    <3>. QED BY ONLY <3>1, n \in Nat
  <2>. QED BY ONLY <2>1, <2>2
<1>9. Cardinality(Busy') + failures' <= UseLimit'
  BY ONLY <1>3, <1>4, <1>5, <1>8
<1>. QED BY <1>1, <1>3, <1>4, <1>9

\* The limit only grows: with the first overlap, and with each failure.
LEMMA BoundGrows ==
  ASSUME StoresOK, StoresOK', failures' >= failures, overlapped => overlapped'
  PROVE  UseLimit <= UseLimit' /\ UseLimit \in Nat /\ UseLimit' \in Nat
<1>1. Cardinality(Workers) \in Nat /\ Cardinality(Workers) # 0
  BY AccountsAssumption, FS_CardinalityType, FS_EmptySet
<1>2. PICK n \in Nat : n = failures'
  BY AccountsAssumption DEF StoresOK
<1>3. failures \in Nat /\ n >= failures
  BY <1>2, AccountsAssumption DEF StoresOK
<1>4. PICK m \in Nat : /\ m = UseLimit'
                       /\ overlapped' => m = Cardinality(Workers) + n
                       /\ ~overlapped' => m = 1 + n
  BY <1>2, LimitNext
<1>5. UseLimit \in {Cardinality(Workers) + failures, 1 + failures}
  BY DEF UseLimit
<1>6. overlapped \/ UseLimit = 1 + failures
  BY DEF UseLimit
<1>7. UseLimit <= m
  BY ONLY <1>1, <1>3, <1>4, <1>5, <1>6, overlapped => overlapped', n \in Nat, m \in Nat
<1>8. UseLimit \in Nat
  BY ONLY <1>1, <1>3, <1>5
<1>. QED BY ONLY <1>4, <1>7, <1>8, m \in Nat

LEMMA NextGrows ==
  ASSUME TypeInv, [Next]_vars
  PROVE  failures' >= failures
<1>1. failures \in Nat
  BY AccountsAssumption DEF TypeInv, StoresOK
<1>2. CASE UNCHANGED vars \/ Expire
  <2>1. UNCHANGED failures
    BY <1>2, ExpireMoves DEF vars, bounds
  <2>. QED BY ONLY <1>1, <2>1
<1>3. ASSUME NEW w \in Workers, Start(w) PROVE failures' >= failures
  <2>1. UNCHANGED failures
    BY <1>3, StartMoves
  <2>. QED BY ONLY <1>1, <2>1
<1>4. ASSUME NEW w \in Workers, Step(w) \/ Fail(w) PROVE failures' >= failures
  <2>1. failures' \in {failures, failures + 1}
    BY <1>4, StepDisturbs
  <2>. QED BY ONLY <1>1, <2>1
<1>. QED BY <1>2, <1>3, <1>4 DEF Next
-----------------------------------------------------------------------------
(* What a step does to the tokens *)

SameToken(a, b) == a.of = b.of /\ a.parent = b.parent /\ a.root = b.root

AddsToken(row) ==
    /\ Len(tokens') = Len(tokens) + 1
    /\ tokens'[Len(tokens) + 1] = row
    /\ \A t \in 1 .. Len(tokens) : tokens'[t] = tokens[t]

RevokesToken(r) ==
    /\ Len(tokens') = Len(tokens)
    /\ \A t \in 1 .. Len(tokens) :
          /\ SameToken(tokens'[t], tokens[t])
          /\ IF t = r THEN tokens'[t].revoked = TRUE ELSE tokens'[t].revoked = tokens[t].revoked

LEMMA StoresNat ==
  ASSUME StoresOK
  PROVE  failures \in Nat /\ failures + 1 # failures
  BY AccountsAssumption DEF StoresOK

LEMMA GivenRow ==
  ASSUME NEW s \in Seq(TokenRows), NEW t \in 1 .. Len(s), NEW r, r = [s EXCEPT ![t].given = TRUE]
  PROVE  /\ r \in Seq(TokenRows) /\ Len(r) = Len(s)
         /\ \A j \in 1 .. Len(s) : SameToken(r[j], s[j]) /\ r[j].revoked = s[j].revoked
<1>1. PICK row : row = [s[t] EXCEPT !.given = TRUE]
  OBVIOUS
<1>2. s[t] \in TokenRows
  BY ElementOfSeq
<1>3. row \in TokenRows /\ SameToken(row, s[t]) /\ row.revoked = s[t].revoked
  BY <1>1, <1>2 DEF TokenRows, SameToken
<1>4. r = [s EXCEPT ![t] = row]
  BY <1>1
<1>5. /\ r \in Seq(TokenRows) /\ Len(r) = Len(s)
      /\ \A j \in 1 .. Len(s) : r[j] = IF j = t THEN row ELSE s[j]
  BY ONLY <1>3, <1>4, TokenSet, s \in Seq(TokenRows), t \in 1 .. Len(s)
<1>. QED BY ONLY <1>3, <1>5 DEF SameToken

LEMMA TokensMove ==
  ASSUME TypeInv, NEW w \in Workers, Step(w) \/ Fail(w)
  PROVE  \/ /\ UNCHANGED tokens /\ calls'[w].pc \notin {"successor", "rotate"}
            /\ calls[w].pc = "rotate" => failures' = failures + 1
         \/ /\ calls[w].pc = "newToken" /\ calls'[w] = Idle /\ ~Fail(w) /\ UNCHANGED users
            /\ AddsToken([NewToken(calls[w].user, 0, Len(tokens) + 1) EXCEPT !.given = TRUE])
         \/ /\ calls[w].pc = "successor" /\ calls'[w].pc = "rotate" /\ ~Fail(w) /\ UNCHANGED users
            /\ calls'[w].token = calls[w].token /\ calls'[w].child = Len(tokens) + 1
            /\ LET t == calls[w].token IN AddsToken(NewToken(tokens[t].of, t, tokens[t].root))
         \/ /\ calls[w].pc \in {"rotate", "revoke"} /\ calls'[w] = Idle
            /\ RevokesToken(calls[w].token)
<1>1. /\ calls[w] \in CallRows /\ OnItsWay(calls[w].op, calls[w].pc) /\ calls[w].op \in Ops
      /\ HasRead(calls[w], calls[w].pc, Len(users), Len(letters), Len(tokens))
  BY TheCall
<1>2. tokens \in Seq(TokenRows) /\ Len(tokens) \in Nat /\ calls \in [Workers -> CallRows]
  BY Lengths DEF TypeInv, StoresOK, CallsGood
<1>3. \/ UNCHANGED tokens /\ (Fail(w) \/ calls[w].pc \notin {"successor", "rotate"})
      \/ BuildTokenResponse(w) \/ CreateSuccessor(w) \/ Rotate(w) \/ Revoke(w)
  <2>1. CASE AccountsStep(w) /\ UNCHANGED sessionVars
    <3>1. calls[w].pc \notin {"successor", "rotate"}
      BY <2>1 DEF AccountsStep, StoreCode, CacheCode, Mail, ReadCode, ReadCached, SetPassword,
          DropCode, DropCachedCode, DropFails, CheckEmail, CheckPhone, CreateUser, UpdateWrite,
          DropAccount, ReadAccount, FillAccount, At
    <3>. QED BY <2>1, <3>1 DEF sessionVars
  <2>2. CASE Fail(w)
    BY <2>2 DEF Fail, sessionVars
  <2>3. CASE CheckIp(w) \/ FindUser(w) \/ RecordLoginFailure(w) \/ ResetLoginFailures(w)
    BY <2>3 DEF CheckIp, FindUser, RecordLoginFailure, ResetLoginFailures, ReadFails, WriteFails,
        ResetFails, At, sessionVars
  <2>. QED BY <2>1, <2>2, <2>3 DEF Step
<1>4. CASE UNCHANGED tokens /\ (Fail(w) \/ calls[w].pc \notin {"successor", "rotate"})
  <2>1. CASE calls'[w] = Idle
    BY <1>4, <2>1, IdleGood DEF Fail
  <2>2. CASE GoesOn(calls[w], calls'[w]) /\ calls[w].pc \notin {"successor", "rotate"}
    BY <1>4, <2>2 DEF GoesOn, Follows
  <2>3. CASE Fail(w)
    BY <1>2, <1>4, <2>3, IdleGood DEF Fail
  <2>. QED BY <1>4, <2>1, <2>2, <2>3, OneMoves
<1>5. CASE BuildTokenResponse(w)
  <2>1. calls[w].user \in 1 .. Len(users) /\ calls[w].pc = "newToken"
    BY <1>1, <1>5 DEF BuildTokenResponse, At, OnItsWay, HasRead, Ops
  <2>2. PICK n \in Nat \ {0} : n = Len(tokens) + 1
    BY <1>2
  <2>3. PICK u \in Nat \ {0} : u = calls[w].user
    BY <2>1, Lengths DEF TypeInv
  <2>4. PICK row : row = [NewToken(u, 0, n) EXCEPT !.given = TRUE]
    OBVIOUS
  <2>5. row \in TokenRows
    BY <2>4 DEF NewToken, TokenRows
  <2>6. tokens' = Append(tokens, row)
    BY <1>5, <2>2, <2>3, <2>4 DEF BuildTokenResponse
  <2>7. AddsToken(row)
    BY <1>2, <2>5, <2>6, AppendProperties DEF AddsToken
  <2>8. UNCHANGED users /\ UNCHANGED failures /\ calls'[w] = Idle
    BY <1>2, <1>5 DEF BuildTokenResponse, Return, Continue, bounds, accountVars
  <2>9. ~Fail(w)
    BY <2>8, StoresNat DEF Fail, TypeInv
  <2>. QED BY <2>1, <2>2, <2>3, <2>4, <2>7, <2>8, <2>9
<1>6. CASE CreateSuccessor(w)
  <2>1. calls[w].op = "refresh" /\ calls[w].token \in 1 .. Len(tokens) /\ calls[w].pc = "successor"
    BY <1>1, <1>6 DEF CreateSuccessor, At, OnItsWay, HasRead, Ops
  <2>2. PICK t \in 1 .. Len(tokens) : t = calls[w].token
    BY <2>1
  <2>3. tokens[t].of \in Nat \ {0} /\ tokens[t].root \in Nat \ {0}
    BY TokenRow DEF TypeInv
  <2>4. PICK row : row = NewToken(tokens[t].of, t, tokens[t].root)
    OBVIOUS
  <2>5. row \in TokenRows
    BY <1>2, <2>3, <2>4 DEF NewToken, TokenRows
  <2>6. PICK k : k = [calls[w] EXCEPT !.pc = "rotate", !.child = Len(tokens) + 1]
    OBVIOUS
  <2>7. tokens' = Append(tokens, row) /\ calls' = [calls EXCEPT ![w] = k]
    BY <1>6, <2>2, <2>4, <2>6 DEF CreateSuccessor, Continue
  <2>8. AddsToken(row)
    BY <1>2, <2>5, <2>7, AppendProperties DEF AddsToken
  <2>9. k.pc = "rotate" /\ k.token = calls[w].token /\ k.child = Len(tokens) + 1 /\ calls'[w] = k
    BY <1>1, <1>2, <2>6, <2>7 DEF CallRows
  <2>10. UNCHANGED users /\ UNCHANGED failures
    BY <1>6 DEF CreateSuccessor, Continue, bounds, accountVars
  <2>11. ~Fail(w)
    BY <2>10, StoresNat DEF Fail, TypeInv
  <2>. QED BY <2>1, <2>2, <2>4, <2>8, <2>9, <2>10, <2>11
<1>7. CASE Rotate(w) \/ Revoke(w)
  <2>1. /\ calls[w].pc \in {"rotate", "revoke"} /\ calls[w].token \in 1 .. Len(tokens)
        /\ Rotate(w) => calls[w].child \in 1 .. Len(tokens)
    BY <1>1, <1>7 DEF Rotate, Revoke, At, OnItsWay, HasRead, Ops
  <2>2. calls'[w] = Idle
    BY <1>2, <1>7 DEF Rotate, Revoke, Return, Continue
  <2>0. PICK t \in 1 .. Len(tokens) : t = calls[w].token
    BY <2>1
  <2>r. PICK r : r = [tokens EXCEPT ![t].revoked = TRUE]
    OBVIOUS
  <2>s. /\ r \in Seq(TokenRows) /\ Len(r) = Len(tokens)
        /\ \A j \in 1 .. Len(tokens) :
              /\ SameToken(r[j], tokens[j])
              /\ j = t => r[j].revoked = TRUE
              /\ j # t => r[j] = tokens[j]
    <3>1. tokens[t] \in TokenRows
      BY TokenRow DEF TypeInv
    <3>2. PICK row : row = [tokens[t] EXCEPT !.revoked = TRUE]
      OBVIOUS
    <3>3. row \in TokenRows /\ SameToken(row, tokens[t]) /\ row.revoked = TRUE
      BY ONLY <3>1, <3>2 DEF TokenRows, SameToken
    <3>4. r = [tokens EXCEPT ![t] = row]
      BY ONLY <2>r, <3>2
    <3>5. /\ r \in Seq(TokenRows) /\ Len(r) = Len(tokens)
          /\ \A j \in 1 .. Len(tokens) : r[j] = IF j = t THEN row ELSE tokens[j]
      BY ONLY <1>2, <3>3, <3>4, TokenSet, t \in 1 .. Len(tokens)
    <3>. QED BY ONLY <3>3, <3>5 DEF SameToken
  <2>3. CASE Revoke(w)
    <3>1. tokens' = r
      BY <2>0, <2>3, <2>r DEF Revoke
    <3>2. RevokesToken(t)
      BY ONLY <2>s, <3>1 DEF RevokesToken, SameToken
    <3>. QED BY <2>0, <2>1, <2>2, <3>2
  <2>4. CASE Rotate(w)
    <3>3. tokens' = [r EXCEPT ![calls[w].child].given = TRUE]
      BY <2>0, <2>4, <2>r DEF Rotate
    <3>4. /\ Len(tokens') = Len(r)
          /\ \A j \in 1 .. Len(r) : SameToken(tokens'[j], r[j]) /\ tokens'[j].revoked = r[j].revoked
      <4>1. calls[w].child \in 1 .. Len(r)
        BY <2>1, <2>4, <2>s
      <4>. QED BY ONLY <2>s, <3>3, <4>1, GivenRow
    <3>5. RevokesToken(t)
      BY ONLY <2>s, <3>4 DEF RevokesToken, SameToken
    <3>. QED BY <2>0, <2>1, <2>2, <3>5
  <2>. QED BY <1>7, <2>3, <2>4
<1>. QED BY <1>3, <1>4, <1>5, <1>6, <1>7

LEMMA ExpiredTokens ==
  ASSUME TypeInv, Expire
  PROVE  /\ Len(tokens') = Len(tokens)
         /\ \A t \in 1 .. Len(tokens) : /\ SameToken(tokens'[t], tokens[t])
                                        /\ tokens'[t].revoked = tokens[t].revoked
<1>1. CASE UNCHANGED tokens
  BY <1>1 DEF SameToken
<1>2. ASSUME NEW t \in Tokens, TokenExpires(t)
      PROVE  /\ Len(tokens') = Len(tokens)
             /\ \A j \in 1 .. Len(tokens) : /\ SameToken(tokens'[j], tokens[j])
                                            /\ tokens'[j].revoked = tokens[j].revoked
  <2>1. t \in 1 .. Len(tokens) /\ tokens \in Seq(TokenRows)
    BY Lengths DEF Tokens, TypeInv, StoresOK
  <2>2. tokens[t] \in TokenRows
    BY <2>1, TokenRow DEF TypeInv
  <2>3. PICK row : row = [tokens[t] EXCEPT !.expired = TRUE]
    OBVIOUS
  <2>4. row \in TokenRows /\ SameToken(row, tokens[t]) /\ row.revoked = tokens[t].revoked
    BY ONLY <2>2, <2>3 DEF TokenRows, SameToken
  <2>5. tokens' = [tokens EXCEPT ![t] = row]
    BY <1>2, <2>3 DEF TokenExpires
  <2>6. /\ Len(tokens') = Len(tokens)
        /\ \A j \in 1 .. Len(tokens) : tokens'[j] = IF j = t THEN row ELSE tokens[j]
    BY ONLY <2>1, <2>4, <2>5, TokenSet
  <2>. QED BY ONLY <2>4, <2>6 DEF SameToken
<1>. QED BY <1>1, <1>2 DEF Expire, FailsExpire, sessionVars
-----------------------------------------------------------------------------
(* The successors of a token *)

LEMMA Disjoint ==
  ASSUME NEW A, NEW B, IsFiniteSet(A), IsFiniteSet(B), A \cap B = {}
  PROVE  Cardinality(A \cup B) = Cardinality(A) + Cardinality(B)
<1>1. Cardinality(A \cup B) = Cardinality(A) + Cardinality(B) - Cardinality(A \cap B)
  BY FS_Union
<1>2. Cardinality(A \cap B) = 0 /\ Cardinality(A) \in Nat /\ Cardinality(B) \in Nat
  BY FS_EmptySet, FS_CardinalityType
<1>. QED BY <1>1, <1>2

\* The calls that are about to replace t, and those that have and not yet revoked it.
Starting(t) == {w \in Workers : calls[w].pc = "successor" /\ calls[w].token = t}
Rotating(t) == {w \in Workers : calls[w].pc = "rotate" /\ calls[w].token = t}

\* A token is older than its successors, and the first of its session.
OlderInv == \A t \in 1 .. Len(tokens) : tokens[t].parent \in 0 .. t - 1 /\ tokens[t].root \in 1 .. t

\* A token that is still good was replaced only by calls that are about to revoke it or died.
UnusedOne(t) == ~tokens[t].revoked => Cardinality(Children(t)) <= Cardinality(Rotating(t)) + failures

\* A call that found the token good is one of those it may have as a successor.
CountedOne(t) == Cardinality(Children(t)) + Cardinality(Starting(t)) <= UseLimit

SuccessorsInv == /\ TypeInv /\ Alone /\ OlderInv
                 /\ \A t \in 1 .. Len(tokens) : UnusedOne(t) /\ CountedOne(t)

LEMMA TokenSetsFinite ==
  ASSUME StoresOK, NEW t
  PROVE  /\ IsFiniteSet(Children(t)) /\ IsFiniteSet(Starting(t)) /\ IsFiniteSet(Rotating(t))
         /\ Cardinality(Children(t)) \in Nat /\ Cardinality(Starting(t)) \in Nat
         /\ Cardinality(Rotating(t)) \in Nat /\ Children(t) \subseteq 1 .. Len(tokens)
<1>1. Children(t) \subseteq 1 .. Len(tokens) /\ IsFiniteSet(1 .. Len(tokens))
  BY Lengths, FS_Interval DEF Children, Tokens
<1>2. Starting(t) \subseteq Workers /\ Rotating(t) \subseteq Workers
  BY DEF Starting, Rotating
<1>. QED BY <1>1, <1>2, AccountsAssumption, FS_Subset, FS_CardinalityType

LEMMA TokenSetsFiniteNext ==
  ASSUME StoresOK', NEW t
  PROVE  /\ IsFiniteSet(Children(t)') /\ IsFiniteSet(Starting(t)') /\ IsFiniteSet(Rotating(t)')
         /\ Cardinality(Children(t)') \in Nat /\ Cardinality(Starting(t)') \in Nat
         /\ Cardinality(Rotating(t)') \in Nat /\ Children(t)' \subseteq 1 .. Len(tokens')
<1>1. Children(t)' \subseteq 1 .. Len(tokens') /\ IsFiniteSet(1 .. Len(tokens'))
  BY LengthsNext, FS_Interval DEF Children, Tokens
<1>2. Starting(t)' \subseteq Workers /\ Rotating(t)' \subseteq Workers
  BY DEF Starting, Rotating
<1>. QED BY <1>1, <1>2, AccountsAssumption, FS_Subset, FS_CardinalityType

\* A token that nothing starts to replace.
LEMMA CountedAsBefore ==
  ASSUME StoresOK, StoresOK', NEW t, CountedOne(t), UseLimit \in Nat, UseLimit' \in Nat,
         UseLimit <= UseLimit', Children(t)' \subseteq Children(t), Starting(t)' \subseteq Starting(t)
  PROVE  CountedOne(t)'
<1>1. /\ Cardinality(Children(t)') <= Cardinality(Children(t))
      /\ Cardinality(Starting(t)') <= Cardinality(Starting(t))
  BY TokenSetsFinite, FS_Subset
<1>2. /\ Cardinality(Children(t)') \in Nat /\ Cardinality(Children(t)) \in Nat
      /\ Cardinality(Starting(t)') \in Nat /\ Cardinality(Starting(t)) \in Nat
  BY TokenSetsFinite, TokenSetsFiniteNext
<1>3. Cardinality(Children(t)) + Cardinality(Starting(t)) <= UseLimit
  BY DEF CountedOne
<1>4. Cardinality(Children(t)') + Cardinality(Starting(t)') <= UseLimit'
  BY ONLY <1>1, <1>2, <1>3, UseLimit \in Nat, UseLimit' \in Nat, UseLimit <= UseLimit'
<1>. QED BY <1>4 DEF CountedOne

\* A call that was about to revoke the token either still is or has died.
LEMMA UnusedAsBefore ==
  ASSUME StoresOK, StoresOK', NEW t, NEW v, UnusedOne(t), Children(t)' \subseteq Children(t),
         ~tokens'[t].revoked => ~tokens[t].revoked,
         \/ tokens'[t].revoked
         \/ Rotating(t) \subseteq Rotating(t)' /\ failures' = failures
         \/ Rotating(t) \subseteq Rotating(t)' \cup {v} /\ failures' = failures + 1
  PROVE  UnusedOne(t)'
<1> SUFFICES ASSUME ~tokens'[t].revoked
             PROVE  Cardinality(Children(t)') <= Cardinality(Rotating(t)') + failures'
  BY DEF UnusedOne
<1>1. Cardinality(Children(t)') <= Cardinality(Children(t))
  BY TokenSetsFinite, FS_Subset
<1>2. /\ Cardinality(Children(t)') \in Nat /\ Cardinality(Children(t)) \in Nat
      /\ Cardinality(Rotating(t)') \in Nat /\ Cardinality(Rotating(t)) \in Nat
      /\ failures \in Nat
  BY TokenSetsFinite, TokenSetsFiniteNext, StoresNat
<1>3. Cardinality(Children(t)) <= Cardinality(Rotating(t)) + failures
  BY DEF UnusedOne
<1>4. CASE Rotating(t) \subseteq Rotating(t)' /\ failures' = failures
  <2>1. Cardinality(Rotating(t)) <= Cardinality(Rotating(t)')
    BY <1>4, TokenSetsFiniteNext, FS_Subset
  <2>. QED BY ONLY <1>1, <1>2, <1>3, <1>4, <2>1
<1>5. CASE Rotating(t) \subseteq Rotating(t)' \cup {v} /\ failures' = failures + 1
  <2>1. PICK R : R = Rotating(t)'
    OBVIOUS
  <2>2. IsFiniteSet(R)
    BY <2>1, TokenSetsFiniteNext
  <2>3. IsFiniteSet(R \cup {v}) /\ Cardinality(R \cup {v}) \in {Cardinality(R), Cardinality(R) + 1}
    BY ONLY <2>2, FS_AddElement
  <2>4. /\ IsFiniteSet(Rotating(t)' \cup {v})
        /\ Cardinality(Rotating(t)' \cup {v}) <= Cardinality(Rotating(t)') + 1
    BY ONLY <1>2, <2>1, <2>3
  <2>5. /\ Cardinality(Rotating(t)) <= Cardinality(Rotating(t)' \cup {v})
        /\ Cardinality(Rotating(t)' \cup {v}) \in Nat
    BY <1>5, <2>4, FS_Subset, FS_CardinalityType
  <2>. QED BY ONLY <1>1, <1>2, <1>3, <1>5, <2>4, <2>5
<1>. QED BY <1>4, <1>5

\* A new token has no successor yet.
LEMMA TokenNew ==
  ASSUME StoresOK', NEW t, UseLimit' \in Nat, Children(t)' = {}, Starting(t)' = {}
  PROVE  UnusedOne(t)' /\ CountedOne(t)'
<1>1. Cardinality(Children(t)') = 0 /\ Cardinality(Starting(t)') = 0
  BY FS_EmptySet
<1>2. Cardinality(Rotating(t)') \in Nat /\ failures' \in Nat
  BY TokenSetsFiniteNext DEF StoresOK
<1>. QED BY <1>1, <1>2 DEF UnusedOne, CountedOne

\* Where the calls begin.
LEMMA StartsAt ==
  ASSUME TypeInv, NEW w \in Workers, Start(w), NEW k, k = calls'[w]
  PROVE  \/ k.op = "send" /\ k.pc \in {"storeCode", "checkPhone"}
         \/ k.op = "register" /\ k.pc = "readCached" /\ k.row = otps[k.email] /\ k.code \in Mailed
         \/ k.op \in {"reset", "change"} /\ k.pc = "readCode" /\ k.code \in Mailed
         \/ k.op = "update" /\ k.pc \in {"checkEmail", "checkPhone", "updateUser"}
         \/ k.op = "create" /\ k.pc = "checkPhone"
         \/ k.op = "google" /\ k.pc = "createUser"
         \/ k.op = "google" /\ k.pc = "newToken" /\ users[k.user].active
         \/ k.op = "validate" /\ k.pc = "readAccount"
         \/ k.op = "login" /\ k.pc = "checkIp" /\ \E ip, b : Login(w, k.email, ip, b)
         \/ k.op = "refresh" /\ k.pc = "successor" /\ Refresh(w, k.token) /\ k.token \in Tokens
         \/ k.op = "logout" /\ k.pc = "revoke"
<1>1. calls \in [Workers -> CallRows]
  BY DEF TypeInv, CallsGood
<1>2. CASE AccountsStart(w)
  <2>1. ASSUME NEW e, SendForgotPasswordOtp(w, e) PROVE k.op = "send" /\ k.pc = "storeCode"
    BY <1>1, <2>1 DEF SendForgotPasswordOtp, Begin, Idle
  <2>2. ASSUME NEW e, NEW p, SendRegisterOtp(w, e, p)
        PROVE  k.op = "send" /\ k.pc \in {"storeCode", "checkPhone"}
    <3>1. PICK pc \in {"storeCode", "checkPhone"} : pc = IF p = None THEN "storeCode" ELSE "checkPhone"
      OBVIOUS
    <3>. QED BY <1>1, <2>2, <3>1 DEF SendRegisterOtp, Begin, Idle
  <2>3. ASSUME NEW e, NEW c \in Mailed, NEW p, Register(w, e, c, p)
        PROVE  k.op = "register" /\ k.pc = "readCached" /\ k.row = otps[k.email] /\ k.code \in Mailed
    BY <1>1, <2>3 DEF Register, Begin, Idle
  <2>4. ASSUME NEW e, NEW c \in Mailed, ResetPassword(w, e, c)
        PROVE  k.op = "reset" /\ k.pc = "readCode" /\ k.code \in Mailed
    BY <1>1, <2>4 DEF ResetPassword, Begin, Idle
  <2>5. ASSUME NEW u, NEW c \in Mailed, ChangePassword(w, u, c)
        PROVE  k.op = "change" /\ k.pc = "readCode" /\ k.code \in Mailed
    BY <1>1, <2>5 DEF ChangePassword, Begin, Idle
  <2>6. ASSUME NEW u, SendPasswordOtp(w, u) PROVE k.op = "send" /\ k.pc = "storeCode"
    BY <1>1, <2>6 DEF SendPasswordOtp, Begin, Idle
  <2>7. ASSUME NEW u, Validate(w, u) PROVE k.op = "validate" /\ k.pc = "readAccount"
    BY <1>1, <2>7 DEF Validate, Begin, Idle
  <2>8. ASSUME NEW u, NEW ch, UpdateUser(w, u, ch)
        PROVE  k.op = "update" /\ k.pc \in {"checkEmail", "checkPhone", "updateUser"}
    <3>1. PICK email, phone :
              /\ email = Changed(ch.email, users[u].email) /\ phone = Changed(ch.phone, users[u].phone)
      OBVIOUS
    <3>2. PICK pc \in {"checkEmail", "checkPhone", "updateUser"} :
              pc = IF email # None THEN "checkEmail" ELSE IF phone # None THEN "checkPhone" ELSE "updateUser"
      OBVIOUS
    <3>3. Begin(w, [Idle EXCEPT !.op = "update", !.user = u, !.email = email, !.phone = phone,
                                !.active = ch.active, !.pc = pc])
      BY <2>8, <3>1, <3>2 DEF UpdateUser
    <3>. QED BY <1>1, <3>3 DEF Begin, Idle
  <2>9. ASSUME NEW e, NEW p, NEW b, CreateUserByAdmin(w, e, p, b)
        PROVE  k.op = "create" /\ k.pc = "checkPhone"
    BY <1>1, <2>9 DEF CreateUserByAdmin, Begin, Idle
  <2>10. ASSUME NEW e, GoogleLogin(w, e)
         PROVE  k.op = "google" /\ (k.pc = "createUser" \/ (k.pc = "newToken" /\ users[k.user].active))
    <3>1. CASE Begin(w, [Idle EXCEPT !.op = "google", !.email = e, !.pc = "createUser"])
      BY <1>1, <3>1 DEF Begin, Idle
    <3>2. ASSUME NEW u, Begin(w, [Idle EXCEPT !.op = "google", !.user = u, !.pc = "newToken"])
          PROVE  k.op = "google" /\ k.pc = "newToken" /\ k.user = u
      BY <1>1, <3>2 DEF Begin, Idle
    <3>. QED BY <2>10, <3>1, <3>2 DEF GoogleLogin
  <2>. QED BY <1>2, <2>1, <2>2, <2>3, <2>4, <2>5, <2>6, <2>7, <2>8, <2>9, <2>10 DEF AccountsStart
<1>3. ASSUME NEW e, NEW ip, NEW b, Login(w, e, ip, b)
      PROVE  k.op = "login" /\ k.pc = "checkIp" /\ k.email = e
  BY <1>1, <1>3 DEF Login, Begin, Idle
<1>4. ASSUME NEW t, Logout(w, t) PROVE k.op = "logout" /\ k.pc = "revoke"
  BY <1>1, <1>4 DEF Logout, Begin, Idle
<1>5. ASSUME NEW t, Refresh(w, t) PROVE k.op = "refresh" /\ k.pc = "successor" /\ k.token = t
  BY <1>1, <1>5 DEF Refresh, Begin, Idle
<1>. QED BY <1>2, <1>3, <1>4, <1>5 DEF Start

\* Only refresh begins a call that replaces a token.
LEMMA StartsRefresh ==
  ASSUME TypeInv, NEW w \in Workers, Start(w), calls'[w].pc \in {"successor", "rotate"}
  PROVE  \E t \in Tokens : Refresh(w, t) /\ calls'[w].pc = "successor" /\ calls'[w].token = t
<1>1. PICK k : k = calls'[w]
  OBVIOUS
<1>. QED BY <1>1, StartsAt

\* What every step gives.
LEMMA StepFacts ==
  ASSUME TypeInv, Alone, [Next]_vars
  PROVE  /\ TypeInv' /\ Alone' /\ StoresOK /\ StoresOK'
         /\ UseLimit \in Nat /\ UseLimit' \in Nat /\ UseLimit <= UseLimit'
         /\ Len(tokens) \in Nat /\ Len(tokens') \in Nat
         /\ Tokens = 1 .. Len(tokens) /\ Tokens' = 1 .. Len(tokens')
         /\ calls \in [Workers -> CallRows] /\ calls' \in [Workers -> CallRows]
<1>1. TypeInv' /\ Alone'
  BY NextTypeInv, NextAlone
<1>2. StoresOK /\ StoresOK' /\ calls \in [Workers -> CallRows] /\ calls' \in [Workers -> CallRows]
  BY <1>1 DEF TypeInv, CallsGood
<1>3. UseLimit \in Nat /\ UseLimit' \in Nat /\ UseLimit <= UseLimit'
  BY <1>2, BoundGrows, NextGrows, StaysOverlapped
<1>. QED BY <1>1, <1>2, <1>3, Lengths, LengthsNext DEF Tokens

\* The tokens that were there before the step, when none is added.
LEMMA SameChildren ==
  ASSUME StoresOK, Len(tokens') = Len(tokens), StoresOK',
         \A t \in 1 .. Len(tokens) : SameToken(tokens'[t], tokens[t])
  PROVE  (\A t : Children(t)' = Children(t)) /\ (OlderInv => OlderInv')
<1>1. Tokens = 1 .. Len(tokens) /\ Tokens' = 1 .. Len(tokens)
  BY Lengths, LengthsNext DEF Tokens
<1>2. \A t : Children(t)' = Children(t)
  BY <1>1 DEF Children, SameToken
<1>. QED BY <1>2 DEF OlderInv, SameToken

LEMMA StartSuccessors ==
  ASSUME SuccessorsInv, NEW w \in Workers, Start(w), [Next]_vars, NEW t \in 1 .. Len(tokens)
  PROVE  UnusedOne(t)' /\ CountedOne(t)'
<1>. USE DEF SuccessorsInv
<1>1. /\ UNCHANGED <<accountVars, sessionVars>> /\ calls[w].pc = "idle" /\ UNCHANGED failures
      /\ \A v \in Workers \ {w} : calls'[v] = calls[v]
  BY StartMoves DEF TypeInv, CallsGood
<1>2. UNCHANGED tokens
  BY <1>1 DEF sessionVars
<1>3. Children(t)' = Children(t)
  BY <1>2 DEF Children, Tokens
<1>4. Rotating(t) \subseteq Rotating(t)'
  BY <1>1 DEF Rotating
<1>5. UnusedOne(t)'
  BY <1>1, <1>2, <1>3, <1>4, StepFacts, UnusedAsBefore
<1>6. CASE Starting(t)' \subseteq Starting(t)
  BY <1>3, <1>5, <1>6, StepFacts, CountedAsBefore
<1>7. CASE ~(Starting(t)' \subseteq Starting(t))
  <2>1. calls'[w].pc = "successor" /\ calls'[w].token = t
    BY <1>1, <1>7 DEF Starting
  <2>2. ~tokens[t].revoked
    BY <2>1, StartsRefresh DEF Refresh, Refreshable
  <2>3. Cardinality(Children(t)) <= Cardinality(Rotating(t)) + failures
    BY <2>2 DEF UnusedOne
  <2>4. /\ Rotating(t)' \cup Starting(t)' \subseteq Busy' /\ Rotating(t)' \cap Starting(t)' = {}
    BY DEF Rotating, Starting, Busy, At
  <2>5. /\ Cardinality(Busy') + failures' <= UseLimit' /\ IsFiniteSet(Busy')
        /\ failures' \in Nat /\ UseLimit' \in Nat
    BY StepFacts, BusyBound
  <2>6. /\ IsFiniteSet(Rotating(t)') /\ IsFiniteSet(Starting(t)')
        /\ Cardinality(Rotating(t)') \in Nat /\ Cardinality(Starting(t)') \in Nat
        /\ Cardinality(Children(t)') \in Nat /\ Cardinality(Rotating(t)) \in Nat
    BY StepFacts, TokenSetsFinite, TokenSetsFiniteNext
  <2>7. Cardinality(Rotating(t)' \cup Starting(t)') = Cardinality(Rotating(t)') + Cardinality(Starting(t)')
    BY <2>4, <2>6, Disjoint
  <2>8. Cardinality(Rotating(t)' \cup Starting(t)') <= Cardinality(Busy') /\ Cardinality(Busy') \in Nat
    BY <2>4, <2>5, FS_Subset, FS_CardinalityType
  <2>9. Cardinality(Rotating(t)) <= Cardinality(Rotating(t)')
    BY <1>4, <2>6, FS_Subset
  <2>10. Cardinality(Children(t)') + Cardinality(Starting(t)') <= UseLimit'
    <3>1. Cardinality(Children(t)') = Cardinality(Children(t)) /\ failures' = failures
      BY <1>1, <1>3
    <3>. QED BY ONLY <2>3, <2>5, <2>6, <2>7, <2>8, <2>9, <3>1
  <2>. QED BY <1>5, <2>10 DEF CountedOne
<1>. QED BY <1>6, <1>7

LEMMA StepSuccessors ==
  ASSUME SuccessorsInv, NEW w \in Workers, Step(w) \/ Fail(w), [Next]_vars
  PROVE  OlderInv' /\ \A t \in 1 .. Len(tokens') : UnusedOne(t)' /\ CountedOne(t)'
<1>. USE DEF SuccessorsInv
<1>1. /\ \A v \in Workers \ {w} : calls'[v] = calls[v]
      /\ failures' \in {failures, failures + 1}
  BY OneMoves, StepDisturbs
<1>2. ASSUME NEW t, calls'[w].pc # "successor" PROVE Starting(t)' \subseteq Starting(t)
  BY <1>1, <1>2 DEF Starting
<1>3. ASSUME NEW t PROVE Rotating(t) \subseteq Rotating(t)' \cup {w}
  BY <1>1 DEF Rotating
<1>4. ASSUME NEW t, calls[w].pc # "rotate" \/ calls[w].token # t PROVE Rotating(t) \subseteq Rotating(t)'
  BY <1>1, <1>4 DEF Rotating
<1>5. ASSUME UNCHANGED tokens, calls'[w].pc \notin {"successor", "rotate"},
             calls[w].pc = "rotate" => failures' = failures + 1
      PROVE  OlderInv' /\ \A t \in 1 .. Len(tokens') : UnusedOne(t)' /\ CountedOne(t)'
  <2>1. OlderInv' /\ \A t : Children(t)' = Children(t)
    BY <1>5 DEF OlderInv, Children, Tokens
  <2>2. ASSUME NEW t \in 1 .. Len(tokens) PROVE UnusedOne(t)' /\ CountedOne(t)'
    <3>1. CountedOne(t)'
      BY <1>2, <1>5, <2>1, StepFacts, CountedAsBefore
    <3>2. \/ Rotating(t) \subseteq Rotating(t)' /\ failures' = failures
          \/ Rotating(t) \subseteq Rotating(t)' \cup {w} /\ failures' = failures + 1
      BY <1>1, <1>3, <1>4, <1>5
    <3>3. UnusedOne(t)'
      BY <1>5, <2>1, <3>2, StepFacts, UnusedAsBefore
    <3>. QED BY <3>1, <3>3
  <2>. QED BY <1>5, <2>1, <2>2
<1>6. ASSUME NEW r \in 1 .. Len(tokens), RevokesToken(r), calls[w].pc = "rotate" => calls[w].token = r,
             calls'[w] = Idle
      PROVE  OlderInv' /\ \A t \in 1 .. Len(tokens') : UnusedOne(t)' /\ CountedOne(t)'
  <2>1. OlderInv' /\ \A t : Children(t)' = Children(t)
    BY <1>6, StepFacts, SameChildren DEF RevokesToken
  <2>2. calls'[w].pc # "successor"
    BY <1>6, IdleGood
  <2>3. ASSUME NEW t \in 1 .. Len(tokens) PROVE UnusedOne(t)' /\ CountedOne(t)'
    <3>1. CountedOne(t)'
      BY <1>2, <2>1, <2>2, StepFacts, CountedAsBefore
    <3>2. t # r =>
             \/ Rotating(t) \subseteq Rotating(t)' /\ failures' = failures
             \/ Rotating(t) \subseteq Rotating(t)' \cup {w} /\ failures' = failures + 1
      BY <1>1, <1>3, <1>4, <1>6
    <3>3. /\ t = r => tokens'[t].revoked
          /\ t # r => tokens'[t].revoked = tokens[t].revoked
      BY <1>6 DEF RevokesToken
    <3>4. UnusedOne(t)'
      BY <2>1, <3>2, <3>3, StepFacts, UnusedAsBefore
    <3>. QED BY <3>1, <3>4
  <2>. QED BY <1>6, <2>1, <2>3 DEF RevokesToken
<1>7. ASSUME NEW row, AddsToken(row), row.parent \in 0 .. Len(tokens), row.root \in 1 .. Len(tokens) + 1,
             calls[w].pc # "rotate", calls'[w].pc # "successor",
             calls[w].pc = "successor" => calls[w].token = row.parent,
             row.parent # 0 => /\ w \in Starting(row.parent) /\ w \in Rotating(row.parent)'
      PROVE  OlderInv' /\ \A t \in 1 .. Len(tokens') : UnusedOne(t)' /\ CountedOne(t)'
  <2>3. PICK n \in Nat : n = Len(tokens) + 1
    BY StepFacts
  <2>0. n \in Nat /\ Len(tokens) \in Nat /\ Len(tokens') = n /\ Tokens = 1 .. Len(tokens) /\ Tokens' = 1 .. n
    BY <1>7, <2>3, StepFacts DEF AddsToken
  <2>1. tokens'[n] = row /\ \A t \in 1 .. Len(tokens) : tokens'[t] = tokens[t]
    BY <1>7, <2>3 DEF AddsToken
  <2>2. failures' = failures
    <3>1. tokens' # tokens
      BY <2>0, <2>3
    <3>. QED BY <3>1, StepDisturbs DEF sessionVars
  <2>4. 1 .. n = 1 .. Len(tokens) \cup {n}
    BY <2>0, <2>3
  <2>5. OlderInv'
    <3>1. \A t \in 1 .. Len(tokens) : tokens'[t].parent \in 0 .. t - 1 /\ tokens'[t].root \in 1 .. t
      BY <2>1 DEF OlderInv
    <3>2. tokens'[n].parent \in 0 .. n - 1 /\ tokens'[n].root \in 1 .. n
      BY <1>7, <2>0, <2>1, <2>3
    <3>. QED BY <2>0, <2>4, <3>1, <3>2 DEF OlderInv
  <2>6. ASSUME NEW t \in 1 .. Len(tokens), row.parent # t PROVE UnusedOne(t)' /\ CountedOne(t)'
    <3>1. Children(t)' \subseteq Children(t)
      BY <2>0, <2>1, <2>4, <2>6 DEF Children
    <3>2. CountedOne(t)'
      BY <1>2, <1>7, <3>1, StepFacts, CountedAsBefore
    <3>3. UnusedOne(t)'
      BY <1>4, <1>7, <2>1, <2>2, <3>1, StepFacts, UnusedAsBefore
    <3>. QED BY <3>2, <3>3
  <2>7. ASSUME NEW t \in 1 .. Len(tokens), row.parent = t PROVE UnusedOne(t)' /\ CountedOne(t)'
    <3>1. Children(t)' \subseteq Children(t) \cup {n}
      BY <2>0, <2>1, <2>4, <2>7 DEF Children
    <3>2. Starting(t)' \subseteq Starting(t) \ {w} /\ w \in Starting(t)
      BY <1>1, <1>7, <2>0, <2>7 DEF Starting
    <3>3. Rotating(t) \cup {w} \subseteq Rotating(t)' /\ w \notin Rotating(t)
      BY <1>1, <1>7, <2>0, <2>7 DEF Rotating
    <3>4. /\ IsFiniteSet(Children(t)) /\ IsFiniteSet(Starting(t)) /\ IsFiniteSet(Rotating(t))
          /\ IsFiniteSet(Rotating(t)')
          /\ Cardinality(Children(t)) \in Nat /\ Cardinality(Starting(t)) \in Nat
          /\ Cardinality(Rotating(t)) \in Nat /\ Cardinality(Children(t)') \in Nat
          /\ Cardinality(Starting(t)') \in Nat /\ Cardinality(Rotating(t)') \in Nat
      BY StepFacts, TokenSetsFinite, TokenSetsFiniteNext
    <3>5. Cardinality(Children(t)') <= Cardinality(Children(t)) + 1
      <4>1. /\ IsFiniteSet(Children(t) \cup {n})
            /\ Cardinality(Children(t) \cup {n}) \in {Cardinality(Children(t)), Cardinality(Children(t)) + 1}
        BY <3>4, FS_AddElement
      <4>2. Cardinality(Children(t)') <= Cardinality(Children(t) \cup {n})
        BY <3>1, <4>1, FS_Subset
      <4>. QED BY ONLY <3>4, <4>1, <4>2
    <3>6. Cardinality(Starting(t)') <= Cardinality(Starting(t)) - 1
      <4>1. /\ IsFiniteSet(Starting(t) \ {w})
            /\ Cardinality(Starting(t) \ {w}) = Cardinality(Starting(t)) - 1
        BY <3>2, <3>4, FS_RemoveElement
      <4>. QED BY <3>2, <4>1, FS_Subset
    <3>7. Cardinality(Rotating(t)) + 1 <= Cardinality(Rotating(t)')
      <4>1. Cardinality(Rotating(t) \cup {w}) = Cardinality(Rotating(t)) + 1
        BY <3>3, <3>4, FS_AddElement
      <4>2. Cardinality(Rotating(t) \cup {w}) <= Cardinality(Rotating(t)')
        BY <3>3, <3>4, FS_Subset
      <4>. QED BY ONLY <4>1, <4>2
    <3>8. CountedOne(t)'
      <4>1. Cardinality(Children(t)) + Cardinality(Starting(t)) <= UseLimit
        BY DEF CountedOne
      <4>2. UseLimit \in Nat /\ UseLimit' \in Nat /\ UseLimit <= UseLimit'
        BY StepFacts
      <4>3. Cardinality(Children(t)') + Cardinality(Starting(t)') <= UseLimit'
        BY ONLY <3>4, <3>5, <3>6, <4>1, <4>2
      <4>. QED BY <4>3 DEF CountedOne
    <3>9. UnusedOne(t)'
      <4>1. tokens'[t] = tokens[t]
        BY <2>1
      <4>2. ~tokens[t].revoked => Cardinality(Children(t)) <= Cardinality(Rotating(t)) + failures
        BY DEF UnusedOne
      <4>3. failures \in Nat
        BY StepFacts, StoresNat
      <4>4. Cardinality(Children(t)) <= Cardinality(Rotating(t)) + failures
              => Cardinality(Children(t)') <= Cardinality(Rotating(t)') + failures'
        BY ONLY <2>2, <3>4, <3>5, <3>7, <4>3
      <4>. QED BY <4>1, <4>2, <4>4 DEF UnusedOne
    <3>. QED BY <3>8, <3>9
  <2>8. UnusedOne(n)' /\ CountedOne(n)'
    <3>1. Children(n)' = {}
      <4>1. \A t \in 1 .. n : tokens'[t].parent \in 0 .. t - 1
        BY <2>0, <2>5 DEF OlderInv
      <4>2. \A t \in 1 .. n : tokens'[t].parent # n
        BY <2>0, <4>1
      <4>. QED BY <2>0, <4>2 DEF Children
    <3>2. Starting(n)' = {}
      <4>1. ASSUME NEW v \in Workers, calls'[v].pc = "successor", calls'[v].token = n PROVE FALSE
        <5>1. v # w
          BY <1>7, <4>1
        <5>2. calls[v].pc = "successor" /\ calls[v].token = n
          BY <1>1, <4>1, <5>1
        <5>3. calls[v].token \in 1 .. Len(tokens)
          BY <5>2, TheCall DEF OnItsWay, HasRead, Ops
        <5>. QED BY <2>0, <2>3, <5>2, <5>3
      <4>. QED BY <4>1 DEF Starting
    <3>. QED BY <3>1, <3>2, StepFacts, TokenNew
  <2>9. ASSUME NEW t \in 1 .. n PROVE UnusedOne(t)' /\ CountedOne(t)'
    <3>1. t \in 1 .. Len(tokens) \/ t = n
      BY <2>4
    <3>. QED BY <2>6, <2>7, <2>8, <3>1
  <2>. QED BY <2>0, <2>5, <2>9
<1>8. CASE /\ UNCHANGED tokens /\ calls'[w].pc \notin {"successor", "rotate"}
           /\ calls[w].pc = "rotate" => failures' = failures + 1
  BY <1>5, <1>8
<1>9. CASE /\ calls[w].pc = "newToken" /\ calls'[w] = Idle
           /\ AddsToken([NewToken(calls[w].user, 0, Len(tokens) + 1) EXCEPT !.given = TRUE])
  <2>1. PICK row : row = [NewToken(calls[w].user, 0, Len(tokens) + 1) EXCEPT !.given = TRUE]
    OBVIOUS
  <2>2. row.parent = 0 /\ row.root = Len(tokens) + 1
    BY <2>1 DEF NewToken
  <2>3. Len(tokens) \in Nat /\ calls'[w].pc = "idle"
    BY <1>9, StepFacts DEF Idle
  <2>4. row.parent \in 0 .. Len(tokens) /\ row.root \in 1 .. Len(tokens) + 1
    BY <2>2, <2>3
  <2>5. AddsToken(row)
    BY <1>9, <2>1
  <2>. QED BY <1>7, <1>9, <2>2, <2>3, <2>4, <2>5
<1>10. CASE /\ calls[w].pc = "successor" /\ calls'[w].pc = "rotate"
            /\ calls'[w].token = calls[w].token
            /\ LET t == calls[w].token IN AddsToken(NewToken(tokens[t].of, t, tokens[t].root))
  <2>1. PICK t \in 1 .. Len(tokens) : t = calls[w].token
    BY <1>10, TheCall DEF OnItsWay, HasRead, Ops
  <2>2. PICK row : row = NewToken(tokens[t].of, t, tokens[t].root)
    OBVIOUS
  <2>3. row.parent = t /\ row.root = tokens[t].root
    BY <2>2 DEF NewToken
  <2>4. Len(tokens) \in Nat
    BY StepFacts
  <2>5. tokens[t].root \in 1 .. t
    BY DEF OlderInv
  <2>6. row.parent \in 0 .. Len(tokens) /\ row.root \in 1 .. Len(tokens) + 1
    BY <2>3, <2>4, <2>5
  <2>7. AddsToken(row)
    BY <1>10, <2>1, <2>2
  <2>8. w \in Starting(t) /\ w \in Rotating(t)'
    BY <1>10, <2>1 DEF Starting, Rotating
  <2>. QED BY <1>7, <1>10, <2>1, <2>3, <2>6, <2>7, <2>8
<1>11. CASE calls[w].pc \in {"rotate", "revoke"} /\ calls'[w] = Idle /\ RevokesToken(calls[w].token)
  <2>1. PICK r \in 1 .. Len(tokens) : r = calls[w].token
    BY <1>11, TheCall DEF OnItsWay, HasRead, Ops
  <2>. QED BY <1>6, <1>11, <2>1
<1>. QED BY <1>8, <1>9, <1>10, <1>11, TokensMove

LEMMA NextSuccessors == SuccessorsInv /\ [Next]_vars => SuccessorsInv'
<1> SUFFICES ASSUME SuccessorsInv, [Next]_vars PROVE SuccessorsInv'
  OBVIOUS
<1>1. TypeInv /\ TypeInv' /\ Alone'
  BY StepFacts DEF SuccessorsInv
<1>2. CASE UNCHANGED vars \/ Expire
  <2>1. /\ UNCHANGED <<calls, failures>> /\ Len(tokens') = Len(tokens)
        /\ \A t \in 1 .. Len(tokens) : /\ SameToken(tokens'[t], tokens[t])
                                       /\ tokens'[t].revoked = tokens[t].revoked
    <3>1. CASE UNCHANGED vars
      BY <3>1 DEF vars, bounds, sessionVars, SameToken
    <3>2. CASE Expire
      BY <1>1, <3>2, ExpireMoves, ExpiredTokens
    <3>. QED BY <1>2, <3>1, <3>2
  <2>2. OlderInv' /\ \A t : Children(t)' = Children(t)
    BY <2>1, StepFacts, SameChildren DEF SuccessorsInv
  <2>3. \A t : Starting(t)' = Starting(t) /\ Rotating(t)' = Rotating(t)
    BY <2>1 DEF Starting, Rotating
  <2>4. ASSUME NEW t \in 1 .. Len(tokens) PROVE UnusedOne(t)' /\ CountedOne(t)'
    <3>1. UnusedOne(t)'
      BY <2>1, <2>2, <2>3 DEF SuccessorsInv, UnusedOne
    <3>2. CountedOne(t)'
      BY <2>2, <2>3, StepFacts, CountedAsBefore DEF SuccessorsInv
    <3>. QED BY <3>1, <3>2
  <2>. QED BY <1>1, <2>1, <2>2, <2>4 DEF SuccessorsInv
<1>3. ASSUME NEW w \in Workers, Start(w) PROVE SuccessorsInv'
  <2>1. UNCHANGED tokens
    BY <1>1, <1>3, StartMoves DEF sessionVars
  <2>2. \A t \in 1 .. Len(tokens) : UnusedOne(t)' /\ CountedOne(t)'
    BY <1>3, StartSuccessors
  <2>. QED BY <1>1, <2>1, <2>2 DEF SuccessorsInv, OlderInv
<1>4. ASSUME NEW w \in Workers, Step(w) \/ Fail(w) PROVE SuccessorsInv'
  BY <1>1, <1>4, StepSuccessors DEF SuccessorsInv
<1>. QED BY <1>2, <1>3, <1>4 DEF Next

LEMMA InitSuccessors == Init => SuccessorsInv
<1> SUFFICES ASSUME Init PROVE SuccessorsInv
  OBVIOUS
<1>1. TypeInv /\ Alone
  BY InitTypeInv, InitAlone
<1>2. /\ Len(tokens) \in Nat /\ DOMAIN tokens = 1 .. Len(tokens) /\ tokens = InitTokens
      /\ Tokens = 1 .. Len(tokens)
  BY <1>1, Lengths DEF TypeInv, Tokens, Init
<1>3. OlderInv
  BY <1>2, SessionsAssumption DEF OlderInv
<1>4. ASSUME NEW t \in 1 .. Len(tokens) PROVE UnusedOne(t) /\ CountedOne(t)
  <2>1. Starting(t) = {} /\ Rotating(t) = {}
    BY DEF Starting, Rotating, Init, AccountsInit, Idle
  <2>2. failures = 0 /\ UseLimit = 1
    BY DEF Init, AccountsInit, UseLimit
  <2>3. Cardinality(Starting(t)) = 0 /\ Cardinality(Rotating(t)) = 0
    BY <2>1, FS_EmptySet
  <2>4. \A c \in Children(t) : tokens[t].revoked
    BY <1>2, SessionsAssumption DEF Children
  <2>5. \A c, d \in Children(t) : c = d
    BY <1>2, SessionsAssumption DEF Children
  <2>6. ~tokens[t].revoked => Cardinality(Children(t)) = 0
    BY <2>4, FS_EmptySet
  <2>7. Cardinality(Children(t)) \in {0, 1}
    <3>1. CASE Children(t) = {}
      BY <3>1, FS_EmptySet
    <3>2. CASE Children(t) # {}
      <4>1. PICK c : Children(t) = {c}
        BY <2>5, <3>2
      <4>. QED BY <4>1, FS_Singleton
    <3>. QED BY <3>1, <3>2
  <2>8. Cardinality(Children(t)) + Cardinality(Starting(t)) <= UseLimit
    BY ONLY <2>2, <2>3, <2>7
  <2>9. ~tokens[t].revoked => Cardinality(Children(t)) <= Cardinality(Rotating(t)) + failures
    BY ONLY <2>2, <2>3, <2>6
  <2>. QED BY <2>8, <2>9 DEF UnusedOne, CountedOne
<1>. QED BY <1>1, <1>3, <1>4 DEF SuccessorsInv

LEMMA CountedIsBounded == SuccessorsInv => SuccessorsBounded
<1> SUFFICES ASSUME SuccessorsInv, NEW t \in Tokens
             PROVE  Cardinality(Children(t)) <= UseLimit
  BY DEF SuccessorsBounded
<1>1. StoresOK /\ Tokens = 1 .. Len(tokens) /\ Cardinality(Workers) \in Nat
  BY Lengths, AccountsAssumption, FS_CardinalityType DEF SuccessorsInv, TypeInv, Tokens
<1>2. Cardinality(Children(t)) \in Nat /\ Cardinality(Starting(t)) \in Nat /\ failures \in Nat
  BY <1>1, TokenSetsFinite, StoresNat
<1>3. UseLimit \in Nat
  <2>1. UseLimit \in {1 + failures, Cardinality(Workers) + failures}
    BY DEF UseLimit
  <2>. QED BY ONLY <1>1, <1>2, <2>1
<1>4. Cardinality(Children(t)) + Cardinality(Starting(t)) <= UseLimit
  BY <1>1 DEF SuccessorsInv, CountedOne
<1>. QED BY ONLY <1>2, <1>3, <1>4

\* A refresh token never gets more successors than one, or, once calls have overlapped,
\* than one per call that can be in progress, and one more for each call that died:
\* refresh (auth.service.ts) looks at the token before it stores the successor and
\* revokes the token only afterwards.
THEOREM SuccessorsAlwaysBounded == Spec => []SuccessorsBounded
  BY InitSuccessors, NextSuccessors, CountedIsBounded, PTL DEF Spec
-----------------------------------------------------------------------------
(* The good tokens of a session *)

\* Two good tokens of a session are the one a call has replaced and its successor.
OnePerSession ==
    \A s, t \in 1 .. Len(tokens) :
        /\ ~tokens[s].revoked /\ ~tokens[t].revoked /\ tokens[s].root = tokens[t].root
        => s = t \/ \E w \in Workers : /\ calls[w].pc = "rotate"
                                       /\ {s, t} = {calls[w].token, calls[w].child}

StillGood == \A w \in Workers : calls[w].pc = "successor" => ~tokens[calls[w].token].revoked

LiveInv == TypeInv /\ Alone /\ OlderInv /\ (~disturbed => OnePerSession /\ StillGood)

LEMMA InitLive == Init => LiveInv
<1> SUFFICES ASSUME Init PROVE LiveInv
  OBVIOUS
<1>1. TypeInv /\ Alone /\ OlderInv
  BY InitSuccessors DEF SuccessorsInv
<1>2. DOMAIN tokens = 1 .. Len(tokens) /\ tokens = InitTokens
  BY <1>1, Lengths DEF TypeInv, Init
<1>3. OnePerSession
  BY <1>2, SessionsAssumption DEF OnePerSession
<1>4. StillGood
  BY DEF StillGood, Init, AccountsInit, Idle
<1>. QED BY <1>1, <1>3, <1>4 DEF LiveInv

\* A step of the only call, in a history that stays undisturbed.
LEMMA StepLive ==
  ASSUME TypeInv, Alone, OlderInv, OlderInv', OnePerSession, StillGood, [Next]_vars,
         NEW w \in Workers, Step(w) \/ Fail(w), ~disturbed'
  PROVE  OnePerSession' /\ StillGood'
<1>1. /\ UNCHANGED failures
      /\ \A v \in Workers \ {w} : calls[v].pc = "idle" /\ calls'[v].pc = "idle"
  BY OnlyCall
<1>2. failures + 1 # failures /\ Len(tokens) \in Nat
  BY StoresNat, StepFacts
<1>3. ASSUME UNCHANGED tokens \/ RevokesToken(calls[w].token), calls'[w].pc # "successor",
             calls[w].pc = "rotate" => RevokesToken(calls[w].token)
      PROVE  OnePerSession' /\ StillGood'
  <2>1. StillGood'
    BY <1>1, <1>3 DEF StillGood
  <2>2. Len(tokens') = Len(tokens)
    BY <1>3 DEF RevokesToken
  <2>3. ASSUME NEW s \in 1 .. Len(tokens), NEW t \in 1 .. Len(tokens), ~tokens'[s].revoked,
               ~tokens'[t].revoked, tokens'[s].root = tokens'[t].root
        PROVE  s = t
    <3>1. CASE RevokesToken(calls[w].token)
      <4>1. /\ ~tokens[s].revoked /\ ~tokens[t].revoked /\ tokens[s].root = tokens[t].root
            /\ s # calls[w].token /\ t # calls[w].token
        BY <2>3, <3>1 DEF RevokesToken, SameToken
      <4>. QED BY <1>1, <4>1 DEF OnePerSession
    <3>2. CASE UNCHANGED tokens /\ calls[w].pc # "rotate"
      BY <1>1, <2>3, <3>2 DEF OnePerSession
    <3>. QED BY <1>3, <3>1, <3>2
  <2>. QED BY <2>1, <2>2, <2>3 DEF OnePerSession
<1>4. ASSUME NEW row, AddsToken(row), calls[w].pc # "rotate", calls'[w].pc # "successor",
             \/ row.root = Len(tokens) + 1
             \/ /\ calls'[w].pc = "rotate" /\ calls'[w].child = Len(tokens) + 1
                /\ calls'[w].token \in 1 .. Len(tokens) /\ ~tokens[calls'[w].token].revoked
                /\ row.root = tokens[calls'[w].token].root
      PROVE  OnePerSession' /\ StillGood'
  <2>1. StillGood'
    BY <1>1, <1>4 DEF StillGood
  <2>2. PICK n \in Nat : n = Len(tokens) + 1
    BY <1>2
  <2>3. 1 .. Len(tokens') = 1 .. Len(tokens) \cup {n} /\ n \notin 1 .. Len(tokens)
    BY <1>2, <1>4, <2>2 DEF AddsToken
  <2>4. tokens'[n] = row /\ \A t \in 1 .. Len(tokens) : tokens'[t] = tokens[t]
    BY <1>4, <2>2 DEF AddsToken
  <2>5. \A t \in 1 .. Len(tokens) : tokens[t].root # n
    BY <1>2, <2>2 DEF OlderInv
  <2>6. \A s, t \in 1 .. Len(tokens) :
            ~tokens[s].revoked /\ ~tokens[t].revoked /\ tokens[s].root = tokens[t].root => s = t
    BY <1>1, <1>4 DEF OnePerSession
  <2>7. ASSUME NEW t \in 1 .. Len(tokens), ~tokens[t].revoked, tokens[t].root = row.root
        PROVE  /\ calls'[w].pc = "rotate"
               /\ {t, n} = {calls'[w].token, calls'[w].child}
    BY <1>4, <2>2, <2>5, <2>6, <2>7
  <2>8. ASSUME NEW s \in 1 .. Len(tokens'), NEW t \in 1 .. Len(tokens'), ~tokens'[s].revoked,
               ~tokens'[t].revoked, tokens'[s].root = tokens'[t].root
        PROVE  s = t \/ /\ calls'[w].pc = "rotate"
                        /\ {s, t} = {calls'[w].token, calls'[w].child}
    <3>1. CASE s = n \/ t = n
      BY <2>3, <2>4, <2>7, <2>8, <3>1
    <3>2. CASE s # n /\ t # n
      BY <2>3, <2>4, <2>6, <2>8, <3>2
    <3>. QED BY <3>1, <3>2
  <2>. QED BY <2>1, <2>8 DEF OnePerSession
<1>5. CASE /\ UNCHANGED tokens /\ calls'[w].pc \notin {"successor", "rotate"}
           /\ calls[w].pc = "rotate" => failures' = failures + 1
  BY <1>1, <1>2, <1>3, <1>5
<1>6. CASE /\ calls[w].pc = "newToken" /\ calls'[w] = Idle
           /\ AddsToken([NewToken(calls[w].user, 0, Len(tokens) + 1) EXCEPT !.given = TRUE])
  <2>1. PICK row : row = [NewToken(calls[w].user, 0, Len(tokens) + 1) EXCEPT !.given = TRUE]
    OBVIOUS
  <2>2. row.root = Len(tokens) + 1 /\ calls'[w].pc = "idle"
    BY <1>6, <2>1 DEF NewToken, Idle
  <2>. QED BY <1>4, <1>6, <2>1, <2>2
<1>7. CASE /\ calls[w].pc = "successor" /\ calls'[w].pc = "rotate"
           /\ calls'[w].token = calls[w].token /\ calls'[w].child = Len(tokens) + 1
           /\ LET t == calls[w].token IN AddsToken(NewToken(tokens[t].of, t, tokens[t].root))
  <2>1. PICK t \in 1 .. Len(tokens) : t = calls[w].token
    BY <1>7, TheCall DEF OnItsWay, HasRead, Ops
  <2>2. PICK row : row = NewToken(tokens[t].of, t, tokens[t].root)
    OBVIOUS
  <2>3. row.root = tokens[t].root /\ ~tokens[t].revoked
    BY <1>7, <2>1, <2>2 DEF NewToken, StillGood
  <2>4. AddsToken(row)
    BY <1>7, <2>1, <2>2
  <2>. QED BY <1>4, <1>7, <2>1, <2>3, <2>4
<1>8. CASE calls[w].pc \in {"rotate", "revoke"} /\ calls'[w] = Idle /\ RevokesToken(calls[w].token)
  <2>1. calls'[w].pc = "idle"
    BY <1>8 DEF Idle
  <2>. QED BY <1>3, <1>8, <2>1
<1>. QED BY <1>5, <1>6, <1>7, <1>8, TokensMove

LEMMA NextLive == LiveInv /\ SuccessorsInv' /\ [Next]_vars => LiveInv'
<1> SUFFICES ASSUME LiveInv, SuccessorsInv', [Next]_vars PROVE LiveInv'
  OBVIOUS
<1>1. TypeInv /\ TypeInv' /\ Alone /\ Alone' /\ OlderInv'
  BY DEF LiveInv, SuccessorsInv
<1>. SUFFICES ASSUME ~disturbed' PROVE OnePerSession' /\ StillGood'
  BY <1>1 DEF LiveInv
<1>2. ~disturbed /\ OnePerSession /\ StillGood
  BY <1>1, StaysDisturbed DEF LiveInv
<1>3. CASE UNCHANGED vars \/ Expire
  <2>1. /\ UNCHANGED <<calls, failures>> /\ Len(tokens') = Len(tokens)
        /\ \A t \in 1 .. Len(tokens) : /\ SameToken(tokens'[t], tokens[t])
                                       /\ tokens'[t].revoked = tokens[t].revoked
    <3>1. CASE UNCHANGED vars
      BY <3>1 DEF vars, bounds, sessionVars, SameToken
    <3>2. CASE Expire
      BY <1>1, <3>2, ExpireMoves, ExpiredTokens
    <3>. QED BY <1>3, <3>1, <3>2
  <2>2. \A w \in Workers : calls[w].pc = "successor" => calls[w].token \in 1 .. Len(tokens)
    BY <1>1, TheCall DEF OnItsWay, HasRead, Ops
  <2>3. StillGood'
    BY <1>2, <2>1, <2>2 DEF StillGood
  <2>4. OnePerSession'
    <3>1. ASSUME NEW s \in 1 .. Len(tokens'), NEW t \in 1 .. Len(tokens'), ~tokens'[s].revoked,
                 ~tokens'[t].revoked, tokens'[s].root = tokens'[t].root
          PROVE  s = t \/ \E w \in Workers : /\ calls[w].pc = "rotate"
                                            /\ {s, t} = {calls[w].token, calls[w].child}
      <4>1. /\ s \in 1 .. Len(tokens) /\ t \in 1 .. Len(tokens)
            /\ ~tokens[s].revoked /\ ~tokens[t].revoked /\ tokens[s].root = tokens[t].root
        BY <2>1, <3>1 DEF SameToken
      <4>. QED BY ONLY <1>2, <4>1, Zenon DEF OnePerSession
    <3>. QED BY ONLY <2>1, <3>1, Zenon DEF OnePerSession
  <2>. QED BY <2>3, <2>4
<1>4. ASSUME NEW w \in Workers, Start(w) PROVE OnePerSession' /\ StillGood'
  <2>1. Quiet /\ UNCHANGED tokens
    BY <1>1, <1>4, QuietStart, StartMoves DEF sessionVars
  <2>2. \A v \in Workers \ {w} : calls'[v] = calls[v]
    BY <1>1, <1>4, StartMoves DEF TypeInv, CallsGood
  <2>3. OnePerSession'
    BY <1>2, <2>1 DEF OnePerSession, Quiet
  <2>4. calls'[w].pc = "successor" => ~tokens[calls'[w].token].revoked
    BY <1>1, <1>4, StartsRefresh DEF Refresh, Refreshable
  <2>5. StillGood'
    BY <2>1, <2>2, <2>4 DEF StillGood, Quiet
  <2>. QED BY <2>3, <2>5
<1>5. ASSUME NEW w \in Workers, Step(w) \/ Fail(w) PROVE OnePerSession' /\ StillGood'
  BY <1>1, <1>2, <1>5, StepLive DEF LiveInv
<1>. QED BY <1>3, <1>4, <1>5 DEF Next

LEMMA LiveIsOne == LiveInv => OneLiveToken
<1> SUFFICES ASSUME LiveInv, ~disturbed, Quiet, NEW r \in Tokens
             PROVE  Cardinality(Live(r)) <= 1
  BY DEF OneLiveToken
<1>1. Tokens = 1 .. Len(tokens)
  BY Lengths DEF LiveInv, TypeInv, Tokens
<1>2. \A s, t \in Live(r) : s = t
  BY <1>1 DEF LiveInv, OnePerSession, Live, Quiet
<1>3. CASE Live(r) = {}
  BY <1>3, FS_EmptySet
<1>4. CASE Live(r) # {}
  <2>1. PICK t : Live(r) = {t}
    BY <1>2, <1>4
  <2>. QED BY <2>1, FS_Singleton
<1>. QED BY <1>3, <1>4

\* A session has at most one good refresh token whenever nothing is in progress and
\* nothing has overlapped, failed or timed out in the middle of a call: refresh
\* (auth.service.ts) revokes the token it replaces.
THEOREM SessionHasOneToken == Spec => []OneLiveToken
  BY InitSuccessors, NextSuccessors, InitLive, NextLive, LiveIsOne, PTL DEF Spec

LEMMA EndedStaysEnded ==
  ASSUME LiveInv, [Next]_vars, ~disturbed', NEW t \in Tokens, Live(t) = {}
  PROVE  Live(t)' = {}
<1>1. /\ TypeInv /\ Alone /\ OlderInv /\ Tokens = 1 .. Len(tokens) /\ Len(tokens) \in Nat
      /\ Tokens' = 1 .. Len(tokens')
  BY StepFacts DEF LiveInv
<1>2. StillGood
  BY <1>1, StaysDisturbed DEF LiveInv
<1>3. ASSUME Len(tokens') = Len(tokens),
             \A s \in 1 .. Len(tokens) : /\ SameToken(tokens'[s], tokens[s])
                                         /\ tokens[s].revoked => tokens'[s].revoked
      PROVE  Live(t)' = {}
  BY <1>1, <1>3 DEF Live, SameToken
<1>4. ASSUME NEW row, AddsToken(row), row.root # t PROVE Live(t)' = {}
  <2>1. PICK n \in Nat : n = Len(tokens) + 1
    BY <1>1
  <2>2. Tokens' = Tokens \cup {n}
    BY <1>1, <1>4, <2>1 DEF AddsToken
  <2>3. tokens'[n].root # t /\ \A s \in Tokens : tokens'[s] = tokens[s]
    BY <1>1, <1>4, <2>1 DEF AddsToken
  <2>. QED BY <2>2, <2>3 DEF Live
<1>5. CASE UNCHANGED tokens
  BY <1>3, <1>5 DEF SameToken
<1>6. CASE Expire
  BY <1>1, <1>3, <1>6, ExpiredTokens
<1>7. ASSUME NEW w \in Workers, Step(w) \/ Fail(w) PROVE Live(t)' = {}
  <2>1. CASE AddsToken([NewToken(calls[w].user, 0, Len(tokens) + 1) EXCEPT !.given = TRUE])
    <3>1. PICK row : row = [NewToken(calls[w].user, 0, Len(tokens) + 1) EXCEPT !.given = TRUE]
      OBVIOUS
    <3>2. row.root # t
      BY <1>1, <3>1 DEF NewToken
    <3>. QED BY <1>4, <2>1, <3>1, <3>2
  <2>2. CASE /\ calls[w].pc = "successor"
             /\ LET s == calls[w].token IN AddsToken(NewToken(tokens[s].of, s, tokens[s].root))
    <3>1. PICK s \in 1 .. Len(tokens) : s = calls[w].token
      BY <1>1, <2>2, TheCall DEF OnItsWay, HasRead, Ops
    <3>2. ~tokens[s].revoked
      BY <1>2, <2>2, <3>1 DEF StillGood
    <3>3. tokens[s].root # t
      BY <1>1, <3>2 DEF Live
    <3>4. PICK row : row = NewToken(tokens[s].of, s, tokens[s].root)
      OBVIOUS
    <3>5. row.root # t
      BY <3>3, <3>4 DEF NewToken
    <3>. QED BY <1>4, <2>2, <3>1, <3>4, <3>5
  <2>3. CASE RevokesToken(calls[w].token)
    BY <1>3, <2>3 DEF RevokesToken
  <2>. QED BY <1>1, <1>5, <1>7, <2>1, <2>2, <2>3, TokensMove
<1>8. CASE UNCHANGED vars
  BY <1>5, <1>8 DEF vars, sessionVars
<1>9. ASSUME NEW w \in Workers, Start(w) PROVE Live(t)' = {}
  BY <1>1, <1>5, <1>9, StartMoves DEF sessionVars
<1>. QED BY <1>6, <1>7, <1>8, <1>9 DEF Next

\* A session without a good refresh token never gets one again, as long as calls do not
\* overlap and none dies: what logout (auth.service.ts) revoked stays revoked, and a
\* token that is revoked is not refreshed.
THEOREM EndedSessionsStayEnded == Spec => SessionStaysEnded
<1>1. LiveInv /\ [Next]_vars =>
        [~disturbed' => \A t \in Tokens :
             tokens[t].root = t /\ Live(t) = {} => (Live(t) = {})']_vars
  BY EndedStaysEnded
<1>. QED BY InitSuccessors, NextSuccessors, InitLive, NextLive, <1>1, PTL
         DEF Spec, SessionStaysEnded
-----------------------------------------------------------------------------
(* The accounts that tokens are made for *)

\* A sign-in that has found its account, or a registration that has made it.
SignsIn(call) == \/ call.pc \in {"resetEmail", "resetIp", "newToken"}
                 \/ call.op = "register" /\ call.pc \in {"dropCode", "dropCachedCode"}

ForActive ==
    \A w \in Workers :
        /\ SignsIn(calls[w]) => users[calls[w].user].active
        /\ calls[w].pc = "successor" => users[tokens[calls[w].token].of].active

ActiveInv == TypeInv /\ Alone /\ (~disturbed => ForActive)

LEMMA StartsSignIn ==
  ASSUME TypeInv, NEW w \in Workers, Start(w), SignsIn(calls'[w])
  PROVE  users[calls'[w].user].active
<1>1. PICK k : k = calls'[w]
  OBVIOUS
<1>. QED BY <1>1, StartsAt DEF SignsIn

\* The steps that write the users table.
LEMMA UsersWritten ==
  ASSUME NEW w \in Workers, Step(w) \/ Fail(w), ~UNCHANGED users
  PROVE  SetPassword(w) \/ UpdateWrite(w) \/ CreateUser(w)
  BY DEF Step, AccountsStep, StoreCode, CacheCode, Mail, ReadCode, ReadCached,
      DropCode, DropCachedCode, DropFails, CheckEmail, CheckPhone,
      DropAccount, ReadAccount, FillAccount, CheckIp, FindUser, RecordLoginFailure,
      ResetLoginFailures, ReadFails, WriteFails, ResetFails, BuildTokenResponse,
      CreateSuccessor, Rotate, Revoke, Fail, accountVars

LEMMA StepSignsIn ==
  ASSUME TypeInv, TypeInv', NEW w \in Workers, Step(w) \/ Fail(w), SignsIn(calls'[w]),
         SignsIn(calls[w]) => users[calls[w].user].active
  PROVE  users'[calls'[w].user].active
<1>1. /\ calls[w] \in CallRows /\ OnItsWay(calls[w].op, calls[w].pc) /\ calls[w].op \in Ops
      /\ HasRead(calls[w], calls[w].pc, Len(users), Len(letters), Len(tokens))
      /\ calls \in [Workers -> CallRows]
  BY TheCall DEF TypeInv, CallsGood
<1>2. GoesOn(calls[w], calls'[w])
  <2>1. ~SignsIn(Idle)
    BY DEF SignsIn, Idle
  <2>. QED BY <2>1, OneMoves
<1>3. OnItsWay(calls'[w].op, calls'[w].pc)
  BY DEF TypeInv, CallsGood, Good
<1>4. CASE CreateUser(w)
  <2>2. ~Return(w)
    BY <1>1, IdleGood DEF Return, Continue, SignsIn, Idle
  <2>1. calls[w].op # "create"
    BY <1>4, <2>2 DEF CreateUser
  <2>3. PICK k : /\ k = [calls[w] EXCEPT !.user = Len(users) + 1,
                          !.pc = IF calls[w].op = "register" THEN "dropCode" ELSE "newToken"]
                 /\ calls' = [calls EXCEPT ![w] = k] /\ users' = Append(users, NewRow(calls[w]))
    BY <1>4, <2>1, <2>2 DEF CreateUser, Continue
  <2>4. calls'[w].user = Len(users) + 1
    BY <1>1, <2>3 DEF CallRows
  <2>5. calls[w].active = None
    BY <1>1, <1>4, <2>1 DEF CreateUser, At, OnItsWay, HasRead, Ops
  <2>6. PICK row : row = NewRow(calls[w])
    OBVIOUS
  <2>7. row.active = TRUE
    BY <2>5, <2>6 DEF NewRow, Given
  <2>8. users'[Len(users) + 1] = row
    BY <2>3, <2>6, Lengths, AppendProperties DEF TypeInv, StoresOK
  <2>. QED BY <2>4, <2>7, <2>8
<1>5. CASE FindUser(w)
  <2>1. calls'[w].pc = "resetEmail"
    BY <1>2, <1>5 DEF FindUser, At, GoesOn, Follows, SignsIn
  <2>2. UNCHANGED users
    BY <1>5 DEF FindUser, accountVars
  <2>3. PICK u : users[u].active /\ Continue(w, [calls[w] EXCEPT !.user = u, !.pc = "resetEmail"])
    <3>1. ~Goto(w, "readEmailFails") /\ ~Return(w)
      BY <1>1, <2>1 DEF Goto, Return, Continue, Idle, CallRows
    <3>. QED BY <1>5, <3>1 DEF FindUser
  <2>4. calls'[w].user = u
    BY <1>1, <2>3 DEF Continue, CallRows
  <2>. QED BY <2>2, <2>3, <2>4
<1>6. CASE SetPassword(w) \/ UpdateWrite(w)
  BY <1>1, <1>2, <1>6 DEF SetPassword, UpdateWrite, At, GoesOn, Follows, OnItsWay, Ops, SignsIn
<1>7. CASE calls[w].pc \notin {"createUser", "findUser"} /\ UNCHANGED users
  <2>1. SignsIn(calls[w])
    <3>1. calls[w].pc # "setPassword" \/ calls[w].op # "register"
      BY <1>1 DEF OnItsWay
    <3>. QED BY <1>1, <1>2, <1>3, <1>7, <3>1 DEF GoesOn, Follows, SignsIn, OnItsWay, Ops
  <2>. QED BY <1>2, <1>7, <2>1 DEF GoesOn
<1>8. calls[w].pc = "createUser" => CreateUser(w)
  <2>1. calls[w].pc = "createUser" => ~Fail(w) /\ ~DropFails(w)
    BY <1>1 DEF Fail, DropFails, SignsIn, Idle
  <2>. QED BY <2>1 DEF Step, AccountsStep, StoreCode, CacheCode, Mail, ReadCode, ReadCached,
      SetPassword, DropCode, DropCachedCode, CheckEmail, CheckPhone, UpdateWrite,
      DropAccount, ReadAccount, FillAccount, CheckIp, FindUser, RecordLoginFailure,
      ResetLoginFailures, ReadFails, WriteFails, ResetFails, BuildTokenResponse,
      CreateSuccessor, Rotate, Revoke, At
<1>9. calls[w].pc = "findUser" => FindUser(w)
  <2>1. calls[w].pc = "findUser" => ~Fail(w) /\ ~DropFails(w)
    BY <1>1 DEF Fail, DropFails, SignsIn, Idle
  <2>. QED BY <2>1 DEF Step, AccountsStep, StoreCode, CacheCode, Mail, ReadCode, ReadCached,
      SetPassword, DropCode, DropCachedCode, CheckEmail, CheckPhone, UpdateWrite, CreateUser,
      DropAccount, ReadAccount, FillAccount, CheckIp, RecordLoginFailure,
      ResetLoginFailures, ReadFails, WriteFails, ResetFails, BuildTokenResponse,
      CreateSuccessor, Rotate, Revoke, At
<1>. QED BY <1>4, <1>5, <1>6, <1>7, <1>8, <1>9, UsersWritten

LEMMA NextActive == ActiveInv /\ [Next]_vars => ActiveInv'
<1> SUFFICES ASSUME ActiveInv, [Next]_vars PROVE ActiveInv'
  OBVIOUS
<1>1. TypeInv /\ TypeInv' /\ Alone /\ Alone'
  BY StepFacts DEF ActiveInv
<1>. SUFFICES ASSUME ~disturbed' PROVE ForActive'
  BY <1>1 DEF ActiveInv
<1>2. ~disturbed /\ ForActive
  BY <1>1, StaysDisturbed DEF ActiveInv
<1>3. CASE UNCHANGED vars \/ Expire
  <2>1. UNCHANGED <<calls, users>>
    BY <1>3, ExpireMoves DEF vars, accountVars
  <2>2. ASSUME NEW t \in 1 .. Len(tokens) PROVE tokens'[t].of = tokens[t].of
    BY <1>1, <1>3, ExpiredTokens DEF vars, sessionVars, SameToken
  <2>3. \A w \in Workers : calls[w].pc = "successor" => calls[w].token \in 1 .. Len(tokens)
    BY <1>1, TheCall DEF OnItsWay, HasRead, Ops
  <2>. QED BY <1>2, <2>1, <2>2, <2>3 DEF ForActive, SignsIn
<1>4. ASSUME NEW w \in Workers, Start(w) PROVE ForActive'
  <2>1. Quiet /\ UNCHANGED <<tokens, users>>
    BY <1>1, <1>4, QuietStart, StartMoves DEF sessionVars, accountVars
  <2>2. \A v \in Workers \ {w} : calls'[v] = calls[v]
    BY <1>1, <1>4, StartMoves DEF TypeInv, CallsGood
  <2>3. calls'[w].pc = "successor" => users[tokens[calls'[w].token].of].active
    BY <1>1, <1>4, StartsRefresh DEF Refresh, Refreshable
  <2>4. SignsIn(calls'[w]) => users[calls'[w].user].active
    BY <1>1, <1>4, StartsSignIn
  <2>. QED BY <1>2, <2>1, <2>2, <2>3, <2>4 DEF ForActive
<1>5. ASSUME NEW w \in Workers, Step(w) \/ Fail(w) PROVE ForActive'
  <2>1. \A v \in Workers \ {w} : calls'[v].pc = "idle"
    BY <1>1, <1>5, OnlyCall
  <2>2. calls'[w].pc # "successor"
    BY <1>1, <1>5, OneMoves DEF GoesOn, Follows, Idle
  <2>3. SignsIn(calls'[w]) => users'[calls'[w].user].active
    BY <1>1, <1>2, <1>5, StepSignsIn DEF ForActive
  <2>4. \A v \in Workers \ {w} : ~SignsIn(calls'[v])
    <3>1. \A v \in Workers : OnItsWay(calls'[v].op, calls'[v].pc)
      BY <1>1 DEF TypeInv, CallsGood, Good
    <3>. QED BY <2>1, <3>1 DEF SignsIn, OnItsWay
  <2>. QED BY <2>1, <2>2, <2>3, <2>4 DEF ForActive
<1>. QED BY <1>3, <1>4, <1>5 DEF Next

LEMMA InitActive == Init => ActiveInv
<1> SUFFICES ASSUME Init PROVE ActiveInv
  OBVIOUS
<1>1. \A w \in Workers : calls[w].pc = "idle" /\ calls[w].op = "none"
  BY DEF Init, AccountsInit, Idle
<1>. QED BY <1>1, InitTypeInv, InitAlone DEF ActiveInv, ForActive, SignsIn

LEMMA MadeForActive ==
  ASSUME ActiveInv, [Next]_vars, Len(tokens') > Len(tokens), ~disturbed'
  PROVE  users[tokens'[Len(tokens')].of].active
<1>1. TypeInv /\ Alone /\ Len(tokens) \in Nat
  BY StepFacts DEF ActiveInv
<1>2. ForActive
  BY <1>1, StaysDisturbed DEF ActiveInv
<1>3. PICK w \in Workers : Step(w) \/ Fail(w)
  <2>1. CASE UNCHANGED vars \/ Expire
    <3>1. Len(tokens') = Len(tokens)
      BY <1>1, <2>1, ExpiredTokens DEF vars, sessionVars
    <3>. QED BY <1>1, <3>1
  <2>2. ASSUME NEW w \in Workers, Start(w) PROVE FALSE
    <3>1. Len(tokens') = Len(tokens)
      BY <1>1, <2>2, StartMoves DEF sessionVars
    <3>. QED BY <1>1, <3>1
  <2>. QED BY <2>1, <2>2 DEF Next
<1>4. CASE /\ calls[w].pc = "newToken"
           /\ AddsToken([NewToken(calls[w].user, 0, Len(tokens) + 1) EXCEPT !.given = TRUE])
  <2>1. PICK row : row = [NewToken(calls[w].user, 0, Len(tokens) + 1) EXCEPT !.given = TRUE]
    OBVIOUS
  <2>2. row.of = calls[w].user
    BY <2>1 DEF NewToken
  <2>3. users[calls[w].user].active
    BY <1>2, <1>4 DEF ForActive, SignsIn
  <2>. QED BY <1>4, <2>1, <2>2, <2>3 DEF AddsToken
<1>5. CASE /\ calls[w].pc = "successor"
           /\ LET t == calls[w].token IN AddsToken(NewToken(tokens[t].of, t, tokens[t].root))
  <2>1. PICK t : t = calls[w].token
    OBVIOUS
  <2>2. PICK row : row = NewToken(tokens[t].of, t, tokens[t].root)
    OBVIOUS
  <2>3. row.of = tokens[t].of
    BY <2>2 DEF NewToken
  <2>4. users[tokens[t].of].active
    BY <1>2, <1>5, <2>1 DEF ForActive
  <2>. QED BY <1>5, <2>1, <2>2, <2>3, <2>4 DEF AddsToken
<1>6. CASE UNCHANGED tokens \/ RevokesToken(calls[w].token)
  <2>1. Len(tokens') = Len(tokens)
    BY <1>6 DEF RevokesToken
  <2>. QED BY <1>1, <2>1
<1>. QED BY <1>1, <1>3, <1>4, <1>5, <1>6, TokensMove

\* As long as calls do not overlap and none dies, a refresh token is made only for an
\* account that is active at that moment: login, googleLogin and refresh
\* (auth.service.ts) all look at isActive first.
THEOREM TokensAreForActive == Spec => TokenForActive
<1>1. ActiveInv /\ [Next]_vars =>
        [Len(tokens') > Len(tokens) /\ ~disturbed' =>
             users[tokens'[Len(tokens')].of].active]_vars
  BY MadeForActive
<1>. QED BY InitActive, NextActive, <1>1, PTL DEF Spec, TokenForActive
-----------------------------------------------------------------------------
(* The lockout *)

LoginSteps == {"checkIp", "findUser", "readEmailFails", "writeEmailFails", "readIpFails",
               "writeIpFails", "resetEmail", "resetIp"}

\* A failed sign-in has still to count k; a good one has still to reset it.
Owes(call, k) ==
    \/ call.pc \in {"readEmailFails", "writeEmailFails"} /\ k \in KeysOf(call)
    \/ call.pc \in {"readIpFails", "writeIpFails"} /\ k = call.ip

Forgives(call, k) ==
    \/ call.pc = "resetEmail" /\ k \in KeysOf(call)
    \/ call.pc = "resetIp" /\ k = call.ip

\* The failures of k, as the counter and the call in progress tell them.
Due(call, k) ==
    IF Owes(call, k) THEN fails[k] + 1 ELSE IF Forgives(call, k) THEN 0 ELSE fails[k]

\* What the call has looked at is still so.
Looked(call) ==
    /\ call.pc \in {"checkIp", "findUser"} => fails[call.email] < LoginLimit
    /\ call.pc = "findUser" => fails[call.ip] < LoginLimit
    /\ call.pc = "writeEmailFails" => call.count = fails[call.email]
    /\ call.pc = "writeIpFails" => call.count = fails[call.ip]

Locked(call) ==
    /\ \A k \in LoginKeys : failed[k] <= LoginLimit /\ failed[k] = Due(call, k)
    /\ Looked(call)

OthersIdle(w) == \A v \in Workers \ {w} : calls[v].pc = "idle"

LockInv ==
    /\ TypeInv /\ Alone
    /\ ~disturbed => \E w \in Workers : OthersIdle(w) /\ Locked(calls[w])

\* Outside a sign-in the counters are exact.
LEMMA LockedPlain ==
  ASSUME NEW call, call.pc \notin LoginSteps
  PROVE  Locked(call) <=> \A k \in LoginKeys : failed[k] <= LoginLimit /\ failed[k] = fails[k]
  BY DEF Locked, Due, Owes, Forgives, Looked, LoginSteps

LEMMA LockedPlainNext ==
  ASSUME NEW call, call.pc \notin LoginSteps
  PROVE  Locked(call)' <=> \A k \in LoginKeys : failed'[k] <= LoginLimit /\ failed'[k] = fails'[k]
  BY DEF Locked, Due, Owes, Forgives, Looked, LoginSteps

LEMMA LoginCall ==
  ASSUME TypeInv, NEW w \in Workers, calls[w].pc \in LoginSteps
  PROVE  /\ calls[w].email \in Mailboxes /\ calls[w].ip \in Ips
         /\ calls[w].email \in LoginKeys /\ calls[w].ip \in LoginKeys
         /\ calls[w].email # calls[w].ip
         /\ fails \in [LoginKeys -> Nat] /\ failed \in [LoginKeys -> Nat] /\ LoginLimit \in Nat
<1>1. OnItsWay(calls[w].op, calls[w].pc) /\ calls[w].op \in Ops
  BY TheCall
<1>2. calls[w].op = "login"
  BY <1>1 DEF OnItsWay, Ops, LoginSteps
<1>3. calls[w].email \in Mailboxes /\ calls[w].ip \in Ips
  BY <1>2, TheCall DEF HasRead
<1>. QED BY <1>3, AccountsAssumption, SessionsAssumption DEF LoginKeys, TypeInv, StoresOK

\* The steps that touch the counters are those of a sign-in.
LEMMA LoginStep ==
  ASSUME NEW w \in Workers, Step(w)
  PROVE  \/ /\ CheckIp(w) \/ FindUser(w) \/ RecordLoginFailure(w) \/ ResetLoginFailures(w)
            /\ calls[w].pc \in LoginSteps
         \/ UNCHANGED <<fails, failed>> /\ calls[w].pc \notin LoginSteps
<1>1. CASE AccountsStep(w) /\ UNCHANGED sessionVars
  <2>1. calls[w].pc \notin LoginSteps
    BY <1>1 DEF AccountsStep, StoreCode, CacheCode, Mail, ReadCode, ReadCached, SetPassword,
        DropCode, DropCachedCode, DropFails, CheckEmail, CheckPhone, CreateUser, UpdateWrite,
        DropAccount, ReadAccount, FillAccount, At, LoginSteps
  <2>. QED BY <1>1, <2>1 DEF sessionVars
<1>2. CASE BuildTokenResponse(w) \/ CreateSuccessor(w) \/ Rotate(w) \/ Revoke(w)
  BY <1>2 DEF BuildTokenResponse, CreateSuccessor, Rotate, Revoke, At, LoginSteps
<1>3. CASE CheckIp(w) \/ FindUser(w) \/ RecordLoginFailure(w) \/ ResetLoginFailures(w)
  BY <1>3 DEF CheckIp, FindUser, RecordLoginFailure, ResetLoginFailures, ReadFails, WriteFails,
      ResetFails, At, LoginSteps
<1>. QED BY <1>1, <1>2, <1>3 DEF Step

LEMMA SignInLocked ==
  ASSUME TypeInv, NEW w \in Workers, NEW call \in CallRows, call = calls[w], Locked(call),
         call.pc \in LoginSteps, NEW k, k = calls'[w],
         CheckIp(w) \/ FindUser(w) \/ RecordLoginFailure(w) \/ ResetLoginFailures(w)
  PROVE  Locked(k)'
<1>1. /\ call.email \in Mailboxes /\ call.ip \in Ips
      /\ call.email \in LoginKeys /\ call.ip \in LoginKeys /\ call.email # call.ip
      /\ fails \in [LoginKeys -> Nat] /\ failed \in [LoginKeys -> Nat] /\ LoginLimit \in Nat
      /\ calls \in [Workers -> CallRows]
  BY LoginCall DEF TypeInv, CallsGood
<1>2. Idle.pc = "idle"
  BY DEF Idle
<1>3. CASE CheckIp(w)
  <2>1. /\ call.pc = "checkIp" /\ UNCHANGED <<fails, failed>>
        /\ \/ k = Idle
           \/ k = [call EXCEPT !.pc = "findUser"] /\ ~LockedOut(fails[call.ip])
    BY <1>1, <1>3 DEF CheckIp, At, Return, Goto, Continue, sessionVars
  <2>2. \A i \in LoginKeys : failed[i] <= LoginLimit /\ failed[i] = fails[i]
    BY <2>1 DEF Locked, Due, Owes, Forgives
  <2>3. CASE k = Idle
    BY <1>2, <2>1, <2>2, <2>3, LockedPlainNext DEF LoginSteps
  <2>4. CASE k = [call EXCEPT !.pc = "findUser"] /\ ~LockedOut(fails[call.ip])
    <3>1. k.pc = "findUser" /\ k.email = call.email /\ k.ip = call.ip
      BY <2>4 DEF CallRows
    <3>2. fails[call.email] < LoginLimit /\ fails[call.ip] < LoginLimit
      BY <1>1, <2>1, <2>4 DEF Locked, Looked, LockedOut
    <3>3. Looked(k)'
      BY <2>1, <3>1, <3>2 DEF Looked
    <3>. QED BY <2>1, <2>2, <3>1, <3>3 DEF Locked, Due, Owes, Forgives
  <2>. QED BY <2>1, <2>3, <2>4
<1>4. CASE FindUser(w)
  <2>1. call.pc = "findUser" /\ UNCHANGED fails
    BY <1>4 DEF FindUser, At
  <2>2. \A i \in LoginKeys : failed[i] <= LoginLimit /\ failed[i] = fails[i]
    BY <2>1 DEF Locked, Due, Owes, Forgives
  <2>3. CASE k = Idle /\ UNCHANGED failed
    BY <1>2, <2>1, <2>2, <2>3, LockedPlainNext DEF LoginSteps
  <2>4. CASE /\ failed' = [i \in LoginKeys |-> IF i \in KeysOf(call) THEN failed[i] + 1 ELSE failed[i]]
             /\ k = [call EXCEPT !.pc = "readEmailFails"]
    <3>1. k.pc = "readEmailFails" /\ KeysOf(k) = KeysOf(call)
      BY <2>4 DEF CallRows, KeysOf
    <3>2. \A i \in KeysOf(call) : fails[i] < LoginLimit
      BY <2>1 DEF Locked, Looked, KeysOf
    <3>3. \A i \in LoginKeys : failed'[i] <= LoginLimit
      BY <1>1, <2>2, <2>4, <3>2
    <3>4. \A i \in LoginKeys : failed'[i] = IF i \in KeysOf(k) THEN fails'[i] + 1 ELSE fails'[i]
      BY <2>1, <2>2, <2>4, <3>1
    <3>. QED BY <3>1, <3>3, <3>4 DEF Locked, Due, Owes, Forgives, Looked
  <2>5. ASSUME NEW u, k = [call EXCEPT !.user = u, !.pc = "resetEmail"],
               failed' = [i \in LoginKeys |-> IF i \in KeysOf(call) THEN 0 ELSE failed[i]]
        PROVE  Locked(k)'
    <3>1. k.pc = "resetEmail" /\ KeysOf(k) = KeysOf(call)
      BY <2>5 DEF CallRows, KeysOf
    <3>3. \A i \in LoginKeys : failed'[i] <= LoginLimit
      BY <1>1, <2>2, <2>5
    <3>4. \A i \in LoginKeys : failed'[i] = IF i \in KeysOf(k) THEN 0 ELSE fails'[i]
      BY <2>1, <2>2, <2>5, <3>1
    <3>. QED BY <3>1, <3>3, <3>4 DEF Locked, Due, Owes, Forgives, Looked
  <2>6. \/ k = Idle /\ UNCHANGED failed
        \/ /\ failed' = [i \in LoginKeys |-> IF i \in KeysOf(call) THEN failed[i] + 1 ELSE failed[i]]
           /\ k = [call EXCEPT !.pc = "readEmailFails"]
        \/ \E u : /\ k = [call EXCEPT !.user = u, !.pc = "resetEmail"]
                  /\ failed' = [i \in LoginKeys |-> IF i \in KeysOf(call) THEN 0 ELSE failed[i]]
    BY <1>1, <1>4 DEF FindUser, Return, Goto, Continue
  <2>. QED BY <2>3, <2>4, <2>5, <2>6
<1>5. CASE RecordLoginFailure(w)
  <2>0. \A i \in LoginKeys : failed[i] <= LoginLimit /\ failed[i] = Due(call, i)
    BY DEF Locked
  <2>1. CASE ReadFails(w, "readEmailFails", call.email, "writeEmailFails")
    <3>1. call.pc = "readEmailFails" /\ UNCHANGED <<fails, failed>>
          /\ k = [call EXCEPT !.pc = "writeEmailFails", !.count = fails[call.email]]
      BY <1>1, <2>1 DEF ReadFails, At, Continue, sessionVars
    <3>2. k.pc = "writeEmailFails" /\ k.count = fails[call.email] /\ KeysOf(k) = KeysOf(call)
          /\ k.email = call.email
      BY <3>1 DEF CallRows, KeysOf
    <3>3. \A i \in LoginKeys : Due(k, i)' = Due(call, i)
      BY <3>1, <3>2 DEF Due, Owes, Forgives
    <3>. QED BY <2>0, <3>1, <3>2, <3>3 DEF Locked, Looked
  <2>2. CASE WriteFails(w, "writeEmailFails", call.email, "readIpFails")
    <3>1. /\ call.pc = "writeEmailFails" /\ UNCHANGED failed /\ k = [call EXCEPT !.pc = "readIpFails"]
          /\ fails' = [fails EXCEPT ![call.email] = call.count + 1]
      BY <1>1, <2>2 DEF WriteFails, At, Goto, Continue
    <3>2. k.pc = "readIpFails" /\ k.ip = call.ip /\ call.count = fails[call.email]
      BY <3>1 DEF CallRows, Locked, Looked
    <3>3. \A i \in LoginKeys : Due(k, i)' = Due(call, i)
      BY <1>1, <3>1, <3>2 DEF Due, Owes, Forgives, KeysOf
    <3>. QED BY <2>0, <3>1, <3>2, <3>3 DEF Locked, Looked
  <2>3. CASE ReadFails(w, "readIpFails", call.ip, "writeIpFails")
    <3>1. call.pc = "readIpFails" /\ UNCHANGED <<fails, failed>>
          /\ k = [call EXCEPT !.pc = "writeIpFails", !.count = fails[call.ip]]
      BY <1>1, <2>3 DEF ReadFails, At, Continue, sessionVars
    <3>2. k.pc = "writeIpFails" /\ k.count = fails[call.ip] /\ k.ip = call.ip
      BY <3>1 DEF CallRows
    <3>3. \A i \in LoginKeys : Due(k, i)' = Due(call, i)
      BY <3>1, <3>2 DEF Due, Owes, Forgives
    <3>. QED BY <2>0, <3>1, <3>2, <3>3 DEF Locked, Looked
  <2>4. CASE WriteFails(w, "writeIpFails", call.ip, "idle")
    <3>1. /\ call.pc = "writeIpFails" /\ UNCHANGED failed /\ k = Idle
          /\ fails' = [fails EXCEPT ![call.ip] = call.count + 1]
      BY <1>1, <2>4 DEF WriteFails, At, Return, Continue
    <3>2. call.count = fails[call.ip]
      BY <3>1 DEF Locked, Looked
    <3>3. \A i \in LoginKeys : fails'[i] = Due(call, i)
      BY <1>1, <3>1, <3>2 DEF Due, Owes, Forgives
    <3>. QED BY <1>2, <2>0, <3>1, <3>3, LockedPlainNext DEF LoginSteps
  <2>. QED BY <1>5, <2>1, <2>2, <2>3, <2>4 DEF RecordLoginFailure
<1>6. CASE ResetLoginFailures(w)
  <2>0. \A i \in LoginKeys : failed[i] <= LoginLimit /\ failed[i] = Due(call, i)
    BY DEF Locked
  <2>1. CASE ResetFails(w, "resetEmail", call.email, "resetIp")
    <3>1. /\ call.pc = "resetEmail" /\ UNCHANGED failed /\ k = [call EXCEPT !.pc = "resetIp"]
          /\ fails' = [fails EXCEPT ![call.email] = 0]
      BY <1>1, <2>1 DEF ResetFails, At, Goto, Continue
    <3>2. k.pc = "resetIp" /\ k.ip = call.ip
      BY <3>1 DEF CallRows
    <3>3. \A i \in LoginKeys : Due(k, i)' = Due(call, i)
      BY <1>1, <3>1, <3>2 DEF Due, Owes, Forgives, KeysOf
    <3>. QED BY <2>0, <3>1, <3>2, <3>3 DEF Locked, Looked
  <2>2. CASE ResetFails(w, "resetIp", call.ip, "newToken")
    <3>1. /\ call.pc = "resetIp" /\ UNCHANGED failed /\ k = [call EXCEPT !.pc = "newToken"]
          /\ fails' = [fails EXCEPT ![call.ip] = 0]
      BY <1>1, <2>2 DEF ResetFails, At, Goto, Continue
    <3>2. k.pc = "newToken"
      BY <3>1 DEF CallRows
    <3>3. \A i \in LoginKeys : fails'[i] = Due(call, i)
      BY <1>1, <3>1, <3>2 DEF Due, Owes, Forgives
    <3>. QED BY <2>0, <3>1, <3>2, <3>3, LockedPlainNext DEF LoginSteps
  <2>. QED BY <1>6, <2>1, <2>2 DEF ResetLoginFailures
<1>. QED BY <1>3, <1>4, <1>5, <1>6

LEMMA StepLocked ==
  ASSUME TypeInv, Alone, NEW w \in Workers, Locked(calls[w]), Step(w) \/ Fail(w), ~disturbed'
  PROVE  Locked(calls[w])'
<1>1. PICK call \in CallRows : call = calls[w]
  BY DEF TypeInv, CallsGood
<1>2. PICK k : k = calls'[w]
  OBVIOUS
<1>3. Step(w)
  <2>1. ~Fail(w)
    BY OnlyCall, StoresNat DEF Fail, TypeInv
  <2>. QED BY <2>1
<1>4. CASE calls[w].pc \in LoginSteps
  <2>1. CheckIp(w) \/ FindUser(w) \/ RecordLoginFailure(w) \/ ResetLoginFailures(w)
    BY <1>3, <1>4, LoginStep
  <2>2. Locked(k)'
    BY <1>1, <1>2, <1>4, <2>1, SignInLocked
  <2>. QED BY <1>2, <2>2
<1>5. CASE calls[w].pc \notin LoginSteps
  <2>1. UNCHANGED <<fails, failed>>
    BY <1>3, <1>5, LoginStep
  <2>2. k.pc \notin LoginSteps
    BY <1>2, <1>5, OneMoves DEF GoesOn, Follows, LoginSteps, Idle
  <2>3. \A i \in LoginKeys : failed[i] <= LoginLimit /\ failed[i] = fails[i]
    BY <1>1, <1>5, LockedPlain
  <2>4. Locked(k)'
    BY <2>1, <2>2, <2>3, LockedPlainNext
  <2>. QED BY <1>2, <2>4
<1>. QED BY <1>4, <1>5

\* A sign-in begins with an address that is not locked.
LEMMA StartLocked ==
  ASSUME TypeInv, TypeInv', NEW w \in Workers, Start(w),
         \A k \in LoginKeys : failed[k] <= LoginLimit /\ failed[k] = fails[k]
  PROVE  Locked(calls[w])'
<1>1. UNCHANGED <<fails, failed>> /\ calls \in [Workers -> CallRows]
  BY StartMoves DEF sessionVars, TypeInv, CallsGood
<1>2. PICK k : k = calls'[w]
  OBVIOUS
<1>3. CASE k.pc \notin LoginSteps
  <2>1. Locked(k)'
    BY <1>1, <1>3, LockedPlainNext
  <2>. QED BY <1>2, <2>1
<1>4. CASE k.pc \in LoginSteps
  <2>1. PICK ip, b : Login(w, k.email, ip, b) /\ k.pc = "checkIp"
    BY <1>2, <1>4, StartsAt DEF LoginSteps
  <2>2. OnItsWay(k.op, k.pc) /\ k.op \in Ops /\ HasRead(k, k.pc, Len(users'), Len(letters'), Len(tokens'))
    BY <1>2 DEF TypeInv, CallsGood, Good, CallRows
  <2>3. PICK e \in Mailboxes : e = k.email
    BY <2>1, <2>2 DEF OnItsWay, HasRead, Ops
  <2>4. k.pc = "checkIp" /\ k.email = e /\ ~LockedOut(fails[e])
    BY <2>1, <2>3 DEF Login
  <2>5. fails[e] < LoginLimit
    <3>1. fails[e] \in Nat /\ LoginLimit \in Nat
      BY SessionsAssumption DEF LoginKeys, TypeInv, StoresOK
    <3>2. ~(fails[e] >= LoginLimit)
      BY <2>4 DEF LockedOut
    <3>. QED BY ONLY <3>1, <3>2
  <2>6. Locked(k)'
    BY <1>1, <2>4, <2>5 DEF Locked, Due, Owes, Forgives, Looked
  <2>. QED BY <1>2, <2>6
<1>. QED BY <1>3, <1>4

LEMMA NextLock == LockInv /\ [Next]_vars => LockInv'
<1> SUFFICES ASSUME LockInv, [Next]_vars PROVE LockInv'
  OBVIOUS
<1>1. TypeInv /\ TypeInv' /\ Alone /\ Alone'
  BY StepFacts DEF LockInv
<1>. SUFFICES ASSUME ~disturbed'
              PROVE  \E w \in Workers : OthersIdle(w)' /\ Locked(calls[w])'
  BY <1>1 DEF LockInv
<1>2. PICK w \in Workers : OthersIdle(w) /\ Locked(calls[w])
  BY <1>1, StaysDisturbed DEF LockInv
<1>3. CASE UNCHANGED <<calls, fails, failed>>
  <2>1. OthersIdle(w)' /\ Locked(calls[w])'
    BY <1>2, <1>3 DEF OthersIdle, Locked, Due, Owes, Forgives, Looked
  <2>. QED BY <2>1
<1>4. ASSUME NEW k \in LoginKeys, FailsExpire(k)
      PROVE  \E v \in Workers : OthersIdle(v)' /\ Locked(calls[v])'
  <2>1. disturbed' = (disturbed \/ ~Quiet)
    BY <1>4 DEF FailsExpire
  <2>2. Quiet
    BY ONLY <2>1, ~disturbed', Zenon
  <2>3. /\ UNCHANGED calls /\ fails' = [fails EXCEPT ![k] = 0]
        /\ failed' = [failed EXCEPT ![k] = 0] /\ calls[w].pc \notin LoginSteps
    BY <1>4, <2>2 DEF FailsExpire, TimeOut, Quiet, LoginSteps
  <2>4. PICK c : c = calls[w]
    OBVIOUS
  <2>5. \A i \in LoginKeys : failed[i] <= LoginLimit /\ failed[i] = fails[i]
    BY <1>2, <2>3, <2>4, LockedPlain
  <2>6. fails \in [LoginKeys -> Nat] /\ failed \in [LoginKeys -> Nat] /\ LoginLimit \in Nat
    BY <1>1, SessionsAssumption DEF TypeInv, StoresOK
  <2>7. \A i \in LoginKeys : failed'[i] <= LoginLimit /\ failed'[i] = fails'[i]
    BY ONLY <2>3, <2>5, <2>6
  <2>8. Locked(c)'
    BY <2>3, <2>4, <2>7, LockedPlainNext
  <2>. QED BY <1>2, <2>3, <2>4, <2>8 DEF OthersIdle
<1>5. CASE Expire
  <2>1. UNCHANGED <<calls, fails, failed>> \/ \E k \in LoginKeys : FailsExpire(k)
    BY <1>5, ExpireMoves DEF Expire, TokenExpires, sessionVars
  <2>. QED BY <1>3, <1>4, <2>1
<1>6. ASSUME NEW v \in Workers, Start(v) PROVE OthersIdle(v)' /\ Locked(calls[v])'
  <2>1. Quiet /\ \A u \in Workers \ {v} : calls'[u] = calls[u]
    BY <1>1, <1>6, QuietStart, StartMoves DEF TypeInv, CallsGood
  <2>2. calls[w].pc \notin LoginSteps
    BY <2>1 DEF Quiet, LoginSteps
  <2>3. PICK c : c = calls[w]
    OBVIOUS
  <2>4. \A i \in LoginKeys : failed[i] <= LoginLimit /\ failed[i] = fails[i]
    BY <1>2, <2>2, <2>3, LockedPlain
  <2>. QED BY <1>1, <1>6, <2>1, <2>4, StartLocked DEF OthersIdle, Quiet
<1>7. ASSUME NEW v \in Workers, Step(v) \/ Fail(v) PROVE OthersIdle(v)' /\ Locked(calls[v])'
  <2>1. calls[v].pc # "idle" /\ \A u \in Workers \ {v} : calls'[u].pc = "idle"
    BY <1>1, <1>7, OneMoves, OnlyCall
  <2>2. v = w
    BY <1>2, <2>1 DEF OthersIdle
  <2>. QED BY <1>1, <1>2, <1>7, <2>1, <2>2, StepLocked DEF OthersIdle
<1>. QED BY <1>3, <1>5, <1>6, <1>7 DEF Next, vars, sessionVars

LEMMA InitLock == Init => LockInv
<1> SUFFICES ASSUME Init PROVE LockInv
  OBVIOUS
<1>1. PICK w \in Workers : TRUE
  BY AccountsAssumption
<1>2. PICK call : call = calls[w]
  OBVIOUS
<1>3. \A v \in Workers : calls[v].pc = "idle"
  BY DEF Init, AccountsInit, Idle
<1>4. \A k \in LoginKeys : failed[k] <= LoginLimit /\ failed[k] = fails[k]
  BY SessionsAssumption DEF Init
<1>5. Locked(call)
  BY <1>2, <1>3, <1>4, LockedPlain DEF LoginSteps
<1>. QED BY <1>2, <1>3, <1>5, InitTypeInv, InitAlone DEF LockInv, OthersIdle

LEMMA LockedIsExact == LockInv => LockoutExact
<1> SUFFICES ASSUME LockInv, ~disturbed, Quiet
             PROVE  fails = failed /\ \A k \in LoginKeys : failed[k] <= LoginLimit
  BY DEF LockoutExact
<1>1. PICK w \in Workers : Locked(calls[w])
  BY DEF LockInv
<1>2. PICK call : call = calls[w]
  OBVIOUS
<1>3. \A k \in LoginKeys : failed[k] <= LoginLimit /\ failed[k] = fails[k]
  BY <1>1, <1>2, LockedPlain DEF Quiet, LoginSteps
<1>4. fails \in [LoginKeys -> Nat] /\ failed \in [LoginKeys -> Nat]
  BY DEF LockInv, TypeInv, StoresOK
<1>. QED BY ONLY <1>3, <1>4

\* As long as sign-ins do not overlap and none dies, the counters login:fail:* of
\* abuse.service.ts are the failures since the last good sign-in or time-out, and no
\* address and no client fails more often than the limit.
THEOREM LockoutIsExact == Spec => []LockoutExact
  BY InitLock, NextLock, LockedIsExact, PTL DEF Spec
-----------------------------------------------------------------------------
(* The cached accounts *)

\* Nothing is cached for an id that is not given out.
NoneCached == \A u \in UserIds : u > Len(users) => accounts[u] = NoAccount

\* What is about to be cached is what is stored, and what is cached is that or about
\* to be deleted.
Fresh ==
    /\ \A w \in Workers : calls[w].pc = "fillAccount" => calls[w].view = Account(calls[w].user)
    /\ \A u \in 1 .. Len(users) :
          \/ accounts[u] \in {NoAccount, Account(u)}
          \/ \E w \in Workers : calls[w].pc = "dropAccount" /\ calls[w].user = u

FreshInv == TypeInv /\ UsersCounted /\ Alone /\ NoneCached /\ (~disturbed => Fresh)

LEMMA UsersInRange ==
  ASSUME TypeInv, UsersCounted
  PROVE  1 .. Len(users) \subseteq UserIds
<1>1. Len(users) \in Nat /\ Len(InitUsers) \in Nat /\ begun \in Nat /\ begun <= MaxCalls /\ MaxCalls \in Nat
  BY Lengths, LenProperties, AccountsAssumption DEF TypeInv, StoresOK
<1>2. Len(users) <= Len(InitUsers) + MaxCalls
  BY <1>1, CreatorsFinite DEF UsersCounted
<1>. QED BY <1>1, <1>2 DEF UserIds

\* What a step does to the cached accounts.
LEMMA AccountsMove ==
  ASSUME TypeInv, NEW w \in Workers, Step(w) \/ Fail(w)
  PROVE  \/ UNCHANGED accounts /\ (calls[w].pc \notin {"dropAccount", "fillAccount"} \/ failures' # failures)
         \/ /\ calls[w].pc = "dropAccount" /\ calls'[w] = Idle /\ UNCHANGED users
            /\ accounts' = [accounts EXCEPT ![calls[w].user] = NoAccount]
         \/ /\ calls[w].pc = "fillAccount" /\ calls'[w] = Idle /\ UNCHANGED users
            /\ accounts' = [accounts EXCEPT ![calls[w].user] = calls[w].view]
<1>1. calls \in [Workers -> CallRows]
  BY DEF TypeInv, CallsGood
<1>2. CASE DropAccount(w) \/ FillAccount(w)
  BY <1>1, <1>2 DEF DropAccount, FillAccount, At, Return, Continue
<1>3. CASE Fail(w)
  BY <1>3, StoresNat DEF Fail, accountVars, TypeInv
<1>4. CASE ~DropAccount(w) /\ ~FillAccount(w) /\ AccountsStep(w)
  BY <1>4 DEF AccountsStep, StoreCode, CacheCode, Mail, ReadCode, ReadCached, SetPassword,
        DropCode, DropCachedCode, DropFails, CheckEmail, CheckPhone, CreateUser, UpdateWrite,
        ReadAccount, At, accountVars
<1>5. CASE ~Fail(w) /\ ~AccountsStep(w)
  BY <1>5 DEF Step, CheckIp, FindUser, RecordLoginFailure, ResetLoginFailures, ReadFails,
      WriteFails, ResetFails, BuildTokenResponse, CreateSuccessor, Rotate, Revoke, At, accountVars
<1>. QED BY <1>2, <1>3, <1>4, <1>5

\* What a step does to the stored accounts.
LEMMA StoredMove ==
  ASSUME TypeInv, NEW w \in Workers, Step(w) \/ Fail(w)
  PROVE  \/ Len(users') = Len(users) /\ \A u \in 1 .. Len(users) : Account(u)' = Account(u)
         \/ Len(users') = Len(users) + 1 /\ \A u \in 1 .. Len(users) : Account(u)' = Account(u)
         \/ /\ Len(users') = Len(users) /\ calls'[w].pc = "dropAccount"
            /\ \A u \in 1 .. Len(users) \ {calls'[w].user} : Account(u)' = Account(u)
<1>1. /\ calls[w] \in CallRows /\ OnItsWay(calls[w].op, calls[w].pc) /\ calls[w].op \in Ops
      /\ HasRead(calls[w], calls[w].pc, Len(users), Len(letters), Len(tokens))
      /\ users \in Seq(UserRows) /\ Len(users) \in Nat
  BY TheCall, Lengths DEF TypeInv, StoresOK
<1>2. CASE UNCHANGED users
  BY <1>2 DEF Account
<1>3. CASE SetPassword(w) /\ ~UNCHANGED users
  <2>1. PICK u \in Users : users' = [users EXCEPT ![u].hash = TRUE]
    <3>1. calls[w].user \in Users
      BY <1>1, <1>3, Lengths DEF SetPassword, At, OnItsWay, HasRead, Ops, Users, TypeInv
    <3>. QED BY <1>3, <3>1 DEF SetPassword, UserOf
  <2>2. u \in 1 .. Len(users) /\ users[u] \in UserRows
    BY <2>1, Lengths, UserFields DEF Users, TypeInv
  <2>3. PICK row : row = [users[u] EXCEPT !.hash = TRUE]
    OBVIOUS
  <2>4. row \in UserRows /\ row.email = users[u].email /\ row.active = users[u].active
    BY <2>2, <2>3 DEF UserRows
  <2>5. users' = [users EXCEPT ![u] = row]
    BY <2>1, <2>3
  <2>6. /\ Len(users') = Len(users)
        /\ \A j \in 1 .. Len(users) : users'[j] = IF j = u THEN row ELSE users[j]
    BY ONLY <1>1, <2>2, <2>4, <2>5, UserSet
  <2>. QED BY <2>4, <2>6 DEF Account
<1>4. CASE UpdateWrite(w) /\ ~UNCHANGED users
  <2>1. PICK row : users' = [users EXCEPT ![calls[w].user] = row] /\ Goto(w, "dropAccount")
    BY <1>4 DEF UpdateWrite
  <2>2. PICK k : k = [calls[w] EXCEPT !.pc = "dropAccount"]
    OBVIOUS
  <2>3. calls'[w] = k /\ k.pc = "dropAccount" /\ k.user = calls[w].user
    BY <1>1, <2>1, <2>2 DEF Goto, Continue, TypeInv, CallsGood, CallRows
  <2>4. /\ Len(users') = Len(users)
        /\ \A u \in 1 .. Len(users) \ {calls[w].user} : users'[u] = users[u]
    BY <1>1, <2>1
  <2>. QED BY <2>3, <2>4 DEF Account
<1>5. CASE CreateUser(w) /\ ~UNCHANGED users
  <2>1. PICK row : users' = Append(users, row)
    BY <1>5 DEF CreateUser
  <2>2. Len(users') = Len(users) + 1 /\ \A u \in 1 .. Len(users) : users'[u] = users[u]
    BY <1>1, <2>1
  <2>. QED BY <2>2 DEF Account
<1>. QED BY <1>2, <1>3, <1>4, <1>5, UsersWritten

LEMMA UsersInRangeNext ==
  ASSUME TypeInv', UsersCounted'
  PROVE  1 .. Len(users') \subseteq UserIds
<1>1. /\ Len(users') \in Nat /\ Len(InitUsers) \in Nat /\ begun' \in Nat /\ begun' <= MaxCalls
      /\ MaxCalls \in Nat
  BY LengthsNext, LenProperties, AccountsAssumption DEF TypeInv, StoresOK
<1>2. Len(users') <= Len(InitUsers) + MaxCalls
  BY <1>1, CreatorsFiniteNext DEF UsersCounted
<1>. QED BY <1>1, <1>2 DEF UserIds

LEMMA ReadsAccount ==
  ASSUME TypeInv, NEW w \in Workers, Step(w) \/ Fail(w), calls'[w].pc = "fillAccount"
  PROVE  calls'[w].view = Account(calls'[w].user) /\ UNCHANGED users
<1>1. calls[w].pc = "readAccount" /\ calls[w] \in CallRows /\ calls \in [Workers -> CallRows]
  BY OneMoves, TheCall DEF GoesOn, Follows, Idle, TypeInv, CallsGood
<1>2. ReadAccount(w)
  <2>1. ~Fail(w)
    BY <1>1 DEF Fail, Idle
  <2>. QED BY <1>1, <2>1 DEF Step, AccountsStep, StoreCode, CacheCode, Mail, ReadCode, ReadCached,
      SetPassword, DropCode, DropCachedCode, DropFails, CheckEmail, CheckPhone, UpdateWrite,
      CreateUser, DropAccount, FillAccount, CheckIp, FindUser, RecordLoginFailure,
      ResetLoginFailures, ReadFails, WriteFails, ResetFails, BuildTokenResponse,
      CreateSuccessor, Rotate, Revoke, At
<1>3. PICK k : k = [calls[w] EXCEPT !.pc = "fillAccount", !.view = Account(calls[w].user)]
  OBVIOUS
<1>4. k.view = Account(calls[w].user) /\ k.user = calls[w].user
  BY <1>1, <1>3 DEF CallRows
<1>5. calls'[w] = k /\ UNCHANGED users
  BY <1>1, <1>2, <1>3 DEF ReadAccount, Continue, accountVars
<1>. QED BY <1>4, <1>5

LEMMA StepNoneCached ==
  ASSUME TypeInv, TypeInv', NoneCached, NEW w \in Workers, Step(w) \/ Fail(w)
  PROVE  NoneCached'
<1>1. Len(users) \in Nat /\ Len(users') \in Nat /\ Len(users') >= Len(users)
  BY UsersMove, Lengths DEF TypeInv
<1>2. accounts \in [UserIds -> Entries \cup {NoAccount}] /\ UserIds \subseteq Int
  BY DEF TypeInv, StoresOK, UserIds
<1>3. CASE UNCHANGED accounts
  BY <1>1, <1>2, <1>3 DEF NoneCached
<1>4. CASE accounts' = [accounts EXCEPT ![calls[w].user] = NoAccount]
  BY <1>1, <1>2, <1>4 DEF NoneCached
<1>5. CASE calls[w].pc = "fillAccount" /\ accounts' = [accounts EXCEPT ![calls[w].user] = calls[w].view]
  <2>1. calls[w].user \in 1 .. Len(users)
    BY <1>5, TheCall DEF OnItsWay, HasRead, Ops
  <2>2. \A u \in UserIds : u # calls[w].user => accounts'[u] = accounts[u]
    BY ONLY <1>2, <1>5
  <2>3. \A u \in UserIds : u > Len(users') => u > Len(users) /\ u # calls[w].user
    BY ONLY <1>1, <1>2, <2>1
  <2>. QED BY <2>2, <2>3 DEF NoneCached
<1>. QED BY <1>3, <1>4, <1>5, AccountsMove

LEMMA StepFresh ==
  ASSUME TypeInv, TypeInv', UsersCounted, UsersCounted', Alone, NoneCached, Fresh,
         NEW w \in Workers, Step(w) \/ Fail(w), ~disturbed'
  PROVE  Fresh'
<1>1. /\ UNCHANGED failures
      /\ \A v \in Workers \ {w} : calls[v].pc = "idle" /\ calls'[v].pc = "idle"
  BY OnlyCall
<1>2. \A v \in Workers :
         calls'[v].pc = "fillAccount" => (calls[v].view = Account(calls[v].user))'
  <2>1. calls'[w].pc = "fillAccount" => (calls[w].view = Account(calls[w].user))'
    BY ReadsAccount DEF Account
  <2>. QED BY <1>1, <2>1
<1>3. \A u \in 1 .. Len(users) : \/ accounts[u] \in {NoAccount, Account(u)}
                                 \/ calls[w].pc = "dropAccount" /\ calls[w].user = u
  BY <1>1 DEF Fresh
<1>4. /\ accounts \in [UserIds -> Entries \cup {NoAccount}] /\ 1 .. Len(users) \subseteq UserIds
      /\ 1 .. Len(users') \subseteq UserIds /\ Len(users) \in Nat
  BY UsersInRange, UsersInRangeNext, Lengths DEF TypeInv, StoresOK
<1>5. ASSUME NEW u \in 1 .. Len(users')
      PROVE  \/ accounts'[u] \in {NoAccount, Account(u)'}
             \/ calls'[w].pc = "dropAccount" /\ calls'[w].user = u
  <2>1. CASE /\ calls[w].pc = "dropAccount" /\ UNCHANGED users
             /\ accounts' = [accounts EXCEPT ![calls[w].user] = NoAccount]
    BY <1>3, <1>4, <2>1 DEF Account
  <2>2. CASE /\ calls[w].pc = "fillAccount" /\ UNCHANGED users
             /\ accounts' = [accounts EXCEPT ![calls[w].user] = calls[w].view]
    <3>1. calls[w].view = Account(calls[w].user)
      BY <2>2 DEF Fresh
    <3>. QED BY <1>3, <1>4, <2>2, <3>1 DEF Account
  <2>3. CASE UNCHANGED accounts /\ calls[w].pc # "dropAccount"
    <3>1. \A v \in 1 .. Len(users) : accounts'[v] \in {NoAccount, Account(v)}
      BY <1>3, <2>3
    <3>2. CASE Len(users') = Len(users) + 1 /\ \A v \in 1 .. Len(users) : Account(v)' = Account(v)
      <4>1. CASE u \in 1 .. Len(users)
        BY <3>1, <3>2, <4>1
      <4>2. CASE u \notin 1 .. Len(users)
        <5>1. u > Len(users) /\ u \in UserIds
          BY <1>4, <3>2, <4>2
        <5>. QED BY <2>3, <5>1 DEF NoneCached
      <4>. QED BY <4>1, <4>2
    <3>. QED BY <3>1, <3>2, StoredMove
  <2>. QED BY <1>1, <2>1, <2>2, <2>3, AccountsMove
<1>. QED BY <1>2, <1>5 DEF Fresh

LEMMA NextFresh == FreshInv /\ [Next]_vars => FreshInv'
<1> SUFFICES ASSUME FreshInv, [Next]_vars PROVE FreshInv'
  OBVIOUS
<1>1. TypeInv /\ TypeInv' /\ Alone /\ Alone' /\ UsersCounted /\ UsersCounted' /\ NoneCached
  BY StepFacts, NextCounted DEF FreshInv
<1>2. ~disturbed' => ~disturbed /\ Fresh
  BY <1>1, StaysDisturbed DEF FreshInv
<1>3. ASSUME UNCHANGED <<calls, users>>,
             UNCHANGED accounts \/ \E u : accounts' = [accounts EXCEPT ![u] = NoAccount]
      PROVE  NoneCached' /\ (Fresh => Fresh')
  <2>1. accounts \in [UserIds -> Entries \cup {NoAccount}] /\ 1 .. Len(users) \subseteq UserIds
    BY <1>1, UsersInRange DEF TypeInv, StoresOK
  <2>2. \A u \in UserIds : accounts'[u] \in {NoAccount, accounts[u]}
    BY <1>3, <2>1
  <2>3. NoneCached'
    BY <1>1, <1>3, <2>2 DEF NoneCached
  <2>4. Fresh => Fresh'
    BY <1>3, <2>1, <2>2 DEF Fresh, Account
  <2>. QED BY <2>3, <2>4
<1>4. CASE UNCHANGED vars \/ Expire
  <2>1. UNCHANGED <<calls, users>>
    BY <1>4, ExpireMoves DEF vars, accountVars
  <2>2. UNCHANGED accounts \/ \E u : accounts' = [accounts EXCEPT ![u] = NoAccount]
    BY <1>4 DEF vars, accountVars, Expire, TimePasses, CodeExpires, CachedCodeExpires,
                AccountExpires, FailsExpire, TokenExpires
  <2>. QED BY <1>1, <1>2, <1>3, <2>1, <2>2 DEF FreshInv
<1>5. ASSUME NEW w \in Workers, Start(w) PROVE FreshInv'
  <2>1. UNCHANGED <<users, accounts>>
    BY <1>1, <1>5, StartMoves DEF accountVars
  <2>2. NoneCached'
    BY <1>1, <2>1 DEF NoneCached
  <2>3. ASSUME ~disturbed' PROVE Fresh'
    <3>1. Quiet /\ \A v \in Workers \ {w} : calls'[v] = calls[v]
      BY <1>1, <1>5, <2>3, QuietStart, StartMoves DEF TypeInv, CallsGood
    <3>2. calls'[w].pc # "fillAccount"
      <4>1. PICK k : k = calls'[w]
        OBVIOUS
      <4>. QED BY <1>1, <1>5, <4>1, StartsAt
    <3>. QED BY <1>2, <2>1, <2>3, <3>1, <3>2 DEF Fresh, Quiet, Account
  <2>. QED BY <1>1, <2>2, <2>3 DEF FreshInv
<1>6. ASSUME NEW w \in Workers, Step(w) \/ Fail(w) PROVE FreshInv'
  <2>1. NoneCached'
    BY <1>1, <1>6, StepNoneCached
  <2>2. ~disturbed' => Fresh'
    BY <1>1, <1>2, <1>6, StepFresh
  <2>. QED BY <1>1, <2>1, <2>2 DEF FreshInv
<1>. QED BY <1>4, <1>5, <1>6 DEF Next

LEMMA InitFresh == Init => FreshInv
<1> SUFFICES ASSUME Init PROVE FreshInv
  OBVIOUS
<1>1. TypeInv /\ UsersCounted /\ Alone
  BY InitTypeInv, InitCounted, InitAlone
<1>2. \A u \in UserIds : accounts[u] = NoAccount
  BY DEF Init, AccountsInit
<1>3. 1 .. Len(users) \subseteq UserIds
  BY <1>1, UsersInRange
<1>4. Fresh
  BY <1>2, <1>3 DEF Fresh, Init, AccountsInit, Idle
<1>. QED BY <1>1, <1>2, <1>4 DEF FreshInv, NoneCached

LEMMA FreshAtRest == FreshInv => AccountFresh
<1> SUFFICES ASSUME FreshInv, ~disturbed, Quiet, NEW u \in Users
             PROVE  accounts[u] \in {NoAccount, Account(u)}
  BY DEF AccountFresh
<1>1. u \in 1 .. Len(users)
  BY Lengths DEF FreshInv, TypeInv, Users
<1>. QED BY <1>1 DEF FreshInv, Fresh, Quiet

\* As long as calls do not overlap and none dies, the account that jwt.strategy.ts checks
\* a request against is the stored one: every edit of user.service.ts that changes its
\* address or whether it is active deletes users:id:* before the next request is checked.
THEOREM AccountIsFresh == Spec => []AccountFresh
  BY InitFresh, NextFresh, FreshAtRest, PTL DEF Spec
-----------------------------------------------------------------------------
(* What a step does to the codes *)

GivesCode(call) == call.op \in {"register", "reset", "change"}

\* The call has found its code in the table, or is past both.
Passed(call) ==
    /\ GivesCode(call)
    /\ \/ call.pc = "readCached" /\ call.row = call.code
       \/ call.pc \in {"checkEmail", "checkPhone", "createUser", "setPassword"}

Sending(call) == call.pc \in {"cacheCode", "mail"}

\* Only the code x is touched; what was mailed stays mailed.
LettersKept(x) ==
    /\ Len(letters') = Len(letters)
    /\ \A c \in 1 .. Len(letters) :
          /\ letters'[c].to = letters[c].to
          /\ letters[c].mailed => letters'[c].mailed
          /\ c # x => letters'[c].mailed = letters[c].mailed /\ letters'[c].uses = letters[c].uses

DrawsCode(call, k) ==
    /\ call.pc = "storeCode" /\ k.pc = "cacheCode" /\ k.code = Len(letters) + 1
    /\ Len(letters') = Len(letters) + 1
    /\ \A c \in 1 .. Len(letters) : letters'[c] = letters[c]
    /\ letters'[k.code].to = call.email /\ letters'[k.code].uses = 0
    /\ ~letters'[k.code].mailed
    /\ otps' = [otps EXCEPT ![call.email] = Len(letters) + 1] /\ UNCHANGED otpCache

CachesCode(call, k) ==
    /\ call.pc = "cacheCode" /\ k.pc = "mail" /\ UNCHANGED <<letters, otps>>
    /\ otpCache' = [otpCache EXCEPT ![call.email] = call.code]

MailsCode(call, k) ==
    /\ call.pc = "mail" /\ k = Idle /\ UNCHANGED <<otps, otpCache>>
    /\ LettersKept(call.code) /\ letters'[call.code].mailed
    /\ letters'[call.code].uses = letters[call.code].uses

UsesCode(call, k) ==
    /\ Passed(call) /\ call.pc \in {"createUser", "setPassword"} /\ k.pc = "dropCode"
    /\ UNCHANGED <<otps, otpCache>> /\ LettersKept(call.code)
    /\ letters'[call.code].mailed = letters[call.code].mailed
    /\ letters'[call.code].uses = letters[call.code].uses + 1

DropsCode(call, k) ==
    /\ call.pc = "dropCode" /\ k.pc = "dropCachedCode" /\ UNCHANGED <<letters, otpCache>>
    /\ otps' = [otps EXCEPT ![call.email] = 0]

DropsCachedCode(call, k) ==
    /\ call.pc = "dropCachedCode" /\ (k = Idle \/ k.pc = "newToken")
    /\ UNCHANGED <<letters, otps>> /\ otpCache' = [otpCache EXCEPT ![call.email] = 0]

ReadsCode(call, k) ==
    call.pc = "readCode" /\ k.pc = "readCached" /\ k.row = otps[call.email] /\ UNCHANGED codes

AcceptsCode(call, k) ==
    /\ call.pc = "readCached" /\ k.pc \in {"checkEmail", "setPassword"} /\ UNCHANGED codes
    /\ Valid(call.code, call.row, otpCache[call.email])

\* Any other step, or one that fails.
PassesOn(call, k) ==
    /\ UNCHANGED codes
    /\ failures' = failures + 1 \/ call.pc \notin {"dropCode", "dropCachedCode", "cacheCode", "mail"}
    /\ \/ k = Idle
       \/ k.pc = "dropCachedCode" /\ call.pc = "dropCode" /\ failures' = failures + 1
       \/ /\ k.pc \notin {"cacheCode", "mail", "readCached", "dropCode", "dropCachedCode"}
          /\ Passed(k) => Passed(call)

CodesMove(call, k) ==
    \/ DrawsCode(call, k) \/ CachesCode(call, k) \/ MailsCode(call, k)
    \/ UsesCode(call, k) \/ DropsCode(call, k) \/ DropsCachedCode(call, k)
    \/ ReadsCode(call, k) \/ AcceptsCode(call, k) \/ PassesOn(call, k)

\* One row of the table of letters is rewritten.
LEMMA OneLetter ==
  ASSUME StoresOK, NEW c \in 1 .. Len(letters), NEW row \in Letters,
         letters' = [letters EXCEPT ![c] = row], row.to = letters[c].to,
         letters[c].mailed => row.mailed
  PROVE  LettersKept(c) /\ letters'[c] = row
<1>1. letters \in Seq(Letters)
  BY DEF StoresOK
<1>2. /\ Len(letters') = Len(letters)
      /\ \A d \in 1 .. Len(letters) : letters'[d] = IF d = c THEN row ELSE letters[d]
  BY ONLY <1>1, c \in 1 .. Len(letters), letters' = [letters EXCEPT ![c] = row], row \in Letters,
          ExceptSeq
<1>. QED BY <1>2 DEF LettersKept

LEMMA UsedLetter ==
  ASSUME StoresOK, NEW c \in 1 .. Len(letters), letters' = Used(c)
  PROVE  /\ LettersKept(c) /\ letters'[c].mailed = letters[c].mailed
         /\ letters'[c].uses = letters[c].uses + 1
<1>1. PICK row : row = [letters[c] EXCEPT !.uses = @ + 1]
  OBVIOUS
<1>2. /\ row \in Letters /\ row.to = letters[c].to /\ row.mailed = letters[c].mailed
      /\ row.uses = letters[c].uses + 1
  BY <1>1, LetterRow DEF Letters, LetterFields
<1>3. letters' = [letters EXCEPT ![c] = row]
  BY <1>1 DEF Used
<1>4. LettersKept(c) /\ letters'[c] = row
  BY <1>2, <1>3, OneLetter
<1>. QED BY <1>2, <1>4

LEMMA CodesStep ==
  ASSUME TypeInv, NEW w \in Workers, Step(w) \/ Fail(w), NEW call \in CallRows, call = calls[w],
         NEW k, k = calls'[w]
  PROVE  CodesMove(call, k)
<1>1. /\ OnItsWay(call.op, call.pc) /\ call.op \in Ops
      /\ HasRead(call, call.pc, Len(users), Len(letters), Len(tokens))
      /\ calls \in [Workers -> CallRows] /\ StoresOK
  BY TheCall DEF TypeInv, CallsGood
<1>2. k = Idle \/ GoesOn(call, k)
  BY OneMoves
<1>3. CASE StoreCode(w)
  <2>1. PICK row : row = [to |-> call.email, mailed |-> FALSE, expired |-> FALSE, uses |-> 0]
    OBVIOUS
  <2>2. row.to = call.email /\ row.uses = 0 /\ row.mailed = FALSE
    BY <2>1
  <2>3. letters' = Append(letters, row) /\ letters \in Seq(Letters) /\ Len(letters) \in Nat
    BY <1>1, <1>3, <2>1, Lengths DEF StoreCode, StoresOK
  <2>4. /\ Len(letters') = Len(letters) + 1 /\ letters'[Len(letters) + 1] = row
        /\ \A c \in 1 .. Len(letters) : letters'[c] = letters[c]
    BY <2>3
  <2>5. k = [call EXCEPT !.pc = "cacheCode", !.code = Len(letters) + 1]
    BY <1>1, <1>3 DEF StoreCode, Continue
  <2>6. k.pc = "cacheCode" /\ k.code = Len(letters) + 1
    BY <2>5 DEF CallRows
  <2>. QED BY <1>3, <2>2, <2>4, <2>6 DEF CodesMove, DrawsCode, StoreCode, At
<1>4. CASE CacheCode(w)
  <2>1. k = [call EXCEPT !.pc = "mail"] /\ call.pc = "cacheCode"
    BY <1>1, <1>4 DEF CacheCode, Goto, Continue, At
  <2>2. k.pc = "mail"
    BY <2>1 DEF CallRows
  <2>. QED BY <1>4, <2>1, <2>2 DEF CodesMove, CachesCode, CacheCode
<1>5. CASE Mail(w)
  <2>1. call.pc = "mail" /\ call.code \in 1 .. Len(letters) /\ k = Idle
    BY <1>1, <1>5 DEF Mail, At, OnItsWay, HasRead, Ops, Return, Continue
  <2>2. PICK c \in 1 .. Len(letters) : c = call.code
    BY <2>1
  <2>3. PICK row : row = [letters[c] EXCEPT !.mailed = TRUE]
    OBVIOUS
  <2>4. row \in Letters /\ row.to = letters[c].to /\ row.mailed = TRUE /\ row.uses = letters[c].uses
    BY <1>1, <2>3, LetterRow DEF Letters, LetterFields
  <2>5. letters' = [letters EXCEPT ![c] = row] /\ UNCHANGED <<otps, otpCache>>
    BY <1>5, <2>2, <2>3 DEF Mail
  <2>6. LettersKept(c) /\ letters'[c] = row
    BY <1>1, <2>4, <2>5, OneLetter
  <2>. QED BY <2>1, <2>2, <2>4, <2>5, <2>6 DEF CodesMove, MailsCode
<1>6. CASE SetPassword(w) /\ ~Return(w)
  <2>1. /\ call.pc = "setPassword" /\ GivesCode(call) /\ call.code \in 1 .. Len(letters)
        /\ letters' = Used(call.code) /\ UNCHANGED <<otps, otpCache>>
        /\ k = [call EXCEPT !.pc = "dropCode"]
    BY <1>1, <1>6 DEF SetPassword, At, OnItsWay, HasRead, Ops, Goto, Continue, GivesCode
  <2>2. PICK c \in 1 .. Len(letters) : c = call.code
    BY <2>1
  <2>3. /\ LettersKept(c) /\ letters'[c].mailed = letters[c].mailed
        /\ letters'[c].uses = letters[c].uses + 1
    BY <1>1, <2>1, <2>2, UsedLetter
  <2>4. k.pc = "dropCode"
    BY <2>1 DEF CallRows
  <2>. QED BY <2>1, <2>2, <2>3, <2>4 DEF CodesMove, UsesCode, Passed
<1>7. CASE CreateUser(w) /\ ~Return(w) /\ call.op = "register"
  <2>1. /\ call.pc = "createUser" /\ GivesCode(call) /\ call.code \in 1 .. Len(letters)
        /\ letters' = Used(call.code) /\ UNCHANGED <<otps, otpCache>>
        /\ k = [call EXCEPT !.user = Len(users) + 1, !.pc = "dropCode"]
    BY <1>1, <1>7 DEF CreateUser, At, OnItsWay, HasRead, Ops, Continue, GivesCode
  <2>2. PICK c \in 1 .. Len(letters) : c = call.code
    BY <2>1
  <2>3. /\ LettersKept(c) /\ letters'[c].mailed = letters[c].mailed
        /\ letters'[c].uses = letters[c].uses + 1
    BY <1>1, <2>1, <2>2, UsedLetter
  <2>4. k.pc = "dropCode"
    BY <2>1 DEF CallRows
  <2>. QED BY <2>1, <2>2, <2>3, <2>4 DEF CodesMove, UsesCode, Passed
<1>8. CASE DropCode(w)
  <2>1. k = [call EXCEPT !.pc = "dropCachedCode"] /\ call.pc = "dropCode"
    BY <1>1, <1>8 DEF DropCode, Goto, Continue, At
  <2>2. k.pc = "dropCachedCode"
    BY <2>1 DEF CallRows
  <2>. QED BY <1>8, <2>1, <2>2 DEF CodesMove, DropsCode, DropCode
<1>9. CASE DropCachedCode(w)
  <2>1. (k = [call EXCEPT !.pc = "newToken"] \/ k = Idle) /\ call.pc = "dropCachedCode"
    BY <1>1, <1>9 DEF DropCachedCode, Goto, Return, Continue, At
  <2>2. k.pc = "newToken" \/ k = Idle
    BY <2>1 DEF CallRows
  <2>. QED BY <1>9, <2>1, <2>2 DEF CodesMove, DropsCachedCode, DropCachedCode
<1>10. CASE ReadCode(w)
  <2>1. k = [call EXCEPT !.pc = "readCached", !.row = otps[call.email]] /\ call.pc = "readCode"
    BY <1>1, <1>10 DEF ReadCode, Continue, At
  <2>2. k.pc = "readCached" /\ k.row = otps[call.email]
    BY <2>1 DEF CallRows
  <2>. QED BY <1>10, <2>1, <2>2 DEF CodesMove, ReadsCode, ReadCode, accountVars
<1>11. CASE ReadCached(w) /\ ~Return(w)
  <2>1. PICK pc \in {"checkEmail", "setPassword"} : Goto(w, pc)
    BY <1>11 DEF ReadCached
  <2>2. k = [call EXCEPT !.pc = pc] /\ call.pc = "readCached"
        /\ Valid(call.code, call.row, otpCache[call.email])
    BY <1>1, <1>11, <2>1 DEF ReadCached, Goto, Continue, At
  <2>3. k.pc = pc
    BY <2>2 DEF CallRows
  <2>. QED BY <1>11, <2>2, <2>3 DEF CodesMove, AcceptsCode, ReadCached, accountVars
<1>12. CASE Fail(w)
  <2>1. k = Idle /\ failures' = failures + 1 /\ UNCHANGED codes
    BY <1>1, <1>12 DEF Fail, accountVars
  <2>. QED BY <2>1 DEF CodesMove, PassesOn
<1>13. CASE DropFails(w)
  <2>1. failures' = failures + 1 /\ UNCHANGED codes /\ call.pc \in {"dropCode", "dropCachedCode"}
    BY <1>13 DEF DropFails, accountVars
  <2>2. k = Idle \/ (call.pc = "dropCode" /\ k.pc = "dropCachedCode")
          \/ (call.pc = "dropCachedCode" /\ k.pc = "newToken")
    BY <1>2, <2>1 DEF GoesOn, Follows
  <2>3. k.pc = "newToken" => ~Passed(k)
    BY DEF Passed
  <2>. QED BY <2>1, <2>2, <2>3 DEF CodesMove, PassesOn
<1>14. CASE Return(w) /\ UNCHANGED codes /\ call.pc \notin {"dropCode", "dropCachedCode", "cacheCode", "mail"}
  <2>1. k = Idle
    BY <1>1, <1>14 DEF Return, Continue
  <2>. QED BY <1>14, <2>1 DEF CodesMove, PassesOn
<1>15. CASE CheckEmail(w) \/ CheckPhone(w)
  <2>1. UNCHANGED codes /\ call.pc \in {"checkEmail", "checkPhone"}
    BY <1>15 DEF CheckEmail, CheckPhone, At, accountVars
  <2>2. k.pc \in {"checkPhone", "storeCode", "updateUser", "createUser"} \/ k = Idle
    BY <1>2, <2>1 DEF GoesOn, Follows
  <2>3. k # Idle => (Passed(k) => Passed(call))
    BY <1>2, <2>1 DEF Passed, GivesCode, GoesOn
  <2>. QED BY <2>1, <2>2, <2>3 DEF CodesMove, PassesOn
<1>16. CASE CreateUser(w) /\ call.op # "register"
  <2>1. UNCHANGED codes /\ call.pc = "createUser"
    BY <1>16 DEF CreateUser, At, codes
  <2>2. k = Idle \/ k.pc = "newToken"
    <3>1. CASE call.op = "create"
      BY <1>1, <1>16, <3>1 DEF CreateUser, Return, Continue
    <3>2. CASE call.op # "create" /\ ~Return(w)
      <4>1. k = [call EXCEPT !.user = Len(users) + 1, !.pc = "newToken"]
        BY <1>1, <1>16, <3>2 DEF CreateUser, Continue
      <4>. QED BY <4>1 DEF CallRows
    <3>3. CASE Return(w)
      BY <1>1, <3>3 DEF Return, Continue
    <3>. QED BY <3>1, <3>2, <3>3
  <2>3. k.pc = "newToken" => ~Passed(k)
    BY DEF Passed
  <2>. QED BY <2>1, <2>2, <2>3 DEF CodesMove, PassesOn
<1>17. CASE \/ UpdateWrite(w) \/ DropAccount(w) \/ ReadAccount(w) \/ FillAccount(w)
            \/ CheckIp(w) \/ FindUser(w) \/ RecordLoginFailure(w) \/ ResetLoginFailures(w)
            \/ BuildTokenResponse(w) \/ CreateSuccessor(w) \/ Rotate(w) \/ Revoke(w)
  <2>1. UNCHANGED codes
    BY <1>17 DEF UpdateWrite, DropAccount, ReadAccount, FillAccount, CheckIp, FindUser,
        RecordLoginFailure, ResetLoginFailures, ReadFails, WriteFails, ResetFails,
        BuildTokenResponse, CreateSuccessor, Rotate, Revoke, accountVars
  <2>2. call.pc \in {"updateUser", "dropAccount", "readAccount", "fillAccount", "checkIp", "findUser",
                     "readEmailFails", "writeEmailFails", "readIpFails", "writeIpFails",
                     "resetEmail", "resetIp", "newToken", "successor", "rotate", "revoke"}
    BY <1>17 DEF UpdateWrite, DropAccount, ReadAccount, FillAccount, CheckIp, FindUser,
        RecordLoginFailure, ResetLoginFailures, ReadFails, WriteFails, ResetFails,
        BuildTokenResponse, CreateSuccessor, Rotate, Revoke, At
  <2>3. k # Idle => /\ k.pc \notin {"cacheCode", "mail", "readCached", "dropCode", "dropCachedCode"}
                    /\ ~Passed(k)
    BY <1>2, <2>2 DEF GoesOn, Follows, Passed
  <2>. QED BY <2>1, <2>2, <2>3 DEF CodesMove, PassesOn
<1>18. CASE (SetPassword(w) \/ CreateUser(w) \/ ReadCached(w)) /\ Return(w)
  <2>1. CASE UNCHANGED codes
    BY <1>14, <1>18, <2>1 DEF SetPassword, CreateUser, ReadCached, At
  <2>2. CASE ReadCached(w)
    BY <2>1, <2>2 DEF ReadCached, accountVars
  <2>3. CASE SetPassword(w) /\ ~UNCHANGED codes
    <3>1. Goto(w, "dropCode") /\ call.pc = "setPassword"
      BY <2>3 DEF SetPassword, At, codes
    <3>2. k = [call EXCEPT !.pc = "dropCode"] /\ k = Idle
      BY <1>1, <1>18, <3>1 DEF Goto, Return, Continue
    <3>. QED BY <3>2 DEF CallRows, Idle
  <2>4. CASE CreateUser(w) /\ ~UNCHANGED codes
    <3>1. call.op = "register" /\ call.pc = "createUser"
      BY <2>4, <1>16 DEF CreateUser, At, codes
    <3>2. Continue(w, [call EXCEPT !.user = Len(users) + 1, !.pc = "dropCode"])
      BY <2>4, <3>1 DEF CreateUser, codes
    <3>3. k = [call EXCEPT !.user = Len(users) + 1, !.pc = "dropCode"]
      BY <1>1, <3>2 DEF Continue
    <3>4. k.pc = "dropCode"
      BY <3>3 DEF CallRows
    <3>5. k = Idle
      BY <1>1, <1>18 DEF Return, Continue
    <3>. QED BY <3>4, <3>5 DEF Idle
  <2>. QED BY <1>18, <2>1, <2>2, <2>3, <2>4
<1>. QED BY <1>3, <1>4, <1>5, <1>6, <1>7, <1>8, <1>9, <1>10, <1>11, <1>12, <1>13, <1>15, <1>16,
            <1>17, <1>18 DEF Step, AccountsStep
-----------------------------------------------------------------------------
(* A code is used once, and once more per call in progress and failure *)

\* What is stored for an address was drawn for it.
StoredTo ==
    \A e \in Mailboxes : /\ otps[e] # 0 => letters[otps[e]].to = e
                         /\ otpCache[e] # 0 => letters[otpCache[e]].to = e

\* A call that is past the check has a code of its own address.
CallTo(call) ==
    /\ GivesCode(call) => letters[call.code].mailed
    /\ Passed(call) \/ call.pc \in {"dropCode", "dropCachedCode"} => letters[call.code].to = call.email
    /\ call.pc = "readCached" /\ call.row # 0 =>
          call.row \in 1 .. Len(letters) /\ letters[call.row].to = call.email
    /\ Sending(call) => /\ letters[call.code].to = call.email
                        /\ ~letters[call.code].mailed /\ letters[call.code].uses = 0

SendersDiffer ==
    \A v, w \in Workers : Sending(calls[v]) /\ Sending(calls[w]) /\ calls[v].code = calls[w].code => v = w

Addressed == StoredTo /\ (\A w \in Workers : CallTo(calls[w])) /\ SendersDiffer

\* The codes of all calls but w are read as before.
LEMMA OtherCalls ==
  ASSUME TypeInv, NEW v \in Workers, CallTo(calls[v]), calls'[v] = calls[v],
         Len(letters') >= Len(letters), Len(letters') \in Nat, Len(letters) \in Nat,
         \A c \in 1 .. Len(letters) :
            /\ letters'[c].to = letters[c].to /\ (letters[c].mailed => letters'[c].mailed)
            /\ Sending(calls[v]) /\ c = calls[v].code =>
                  ~letters'[c].mailed /\ letters'[c].uses = letters[c].uses
  PROVE  (CallTo(calls[v]))'
<1>1. PICK call : call = calls[v]
  OBVIOUS
<1>2. /\ OnItsWay(call.op, call.pc) /\ call.op \in Ops
      /\ HasRead(call, call.pc, Len(users), Len(letters), Len(tokens))
  BY <1>1, TheCall
<1>3. GivesCode(call) \/ Sending(call) \/ call.pc \in {"dropCode", "dropCachedCode"}
        => call.code \in 1 .. Len(letters)
  BY <1>2 DEF GivesCode, Sending, OnItsWay, HasRead, Ops
<1>4. Passed(call) => GivesCode(call)
  BY DEF Passed
<1>5. CallTo(call) /\ calls'[v] = call
  BY <1>1
<1>6. GivesCode(call) => letters'[call.code].mailed
  BY <1>3, <1>5 DEF CallTo
<1>7. Passed(call) \/ call.pc \in {"dropCode", "dropCachedCode"} => letters'[call.code].to = call.email
  BY <1>3, <1>4, <1>5 DEF CallTo
<1>8. call.pc = "readCached" /\ call.row # 0 =>
          call.row \in 1 .. Len(letters') /\ letters'[call.row].to = call.email
  BY <1>5 DEF CallTo
<1>9. Sending(call) => /\ letters'[call.code].to = call.email
                       /\ ~letters'[call.code].mailed /\ letters'[call.code].uses = 0
  BY <1>1, <1>3, <1>5 DEF CallTo
<1>. QED BY <1>5, <1>6, <1>7, <1>8, <1>9 DEF CallTo

\* What a step of a call writes into the letters.
LEMMA LettersStep ==
  ASSUME StoresOK, StoresOK', NEW call, NEW k, CodesMove(call, k), NEW c \in 1 .. Len(letters)
  PROVE  /\ Len(letters') >= Len(letters) /\ Len(letters') \in Nat /\ Len(letters) \in Nat
         /\ letters'[c].to = letters[c].to /\ (letters[c].mailed => letters'[c].mailed)
         /\ \/ letters'[c].mailed = letters[c].mailed
            \/ MailsCode(call, k) /\ c = call.code
         /\ \/ letters'[c].uses = letters[c].uses
            \/ UsesCode(call, k) /\ c = call.code /\ letters'[c].uses = letters[c].uses + 1
<1>1. Len(letters) \in Nat /\ Len(letters') \in Nat
  BY Lengths, LengthsNext
<1>2. CASE DrawsCode(call, k)
  BY <1>1, <1>2 DEF DrawsCode
<1>3. CASE MailsCode(call, k)
  BY <1>1, <1>3 DEF MailsCode, LettersKept
<1>4. CASE UsesCode(call, k)
  BY <1>1, <1>4 DEF UsesCode, LettersKept
<1>5. CASE UNCHANGED letters
  BY <1>1, <1>5
<1>. QED BY <1>2, <1>3, <1>4, <1>5 DEF CodesMove, CachesCode, DropsCode, DropsCachedCode, ReadsCode,
            AcceptsCode, PassesOn, codes

\* What a step of a call writes into the table and into the cache.
LEMMA StoredStep ==
  ASSUME StoresOK, NEW call, NEW k, CodesMove(call, k), NEW e \in Mailboxes
  PROVE  /\ \/ otps'[e] = otps[e] /\ (DropsCode(call, k) => e # call.email)
            \/ DrawsCode(call, k) /\ e = call.email /\ otps'[e] = k.code
            \/ DropsCode(call, k) /\ e = call.email /\ otps'[e] = 0
         /\ \/ otpCache'[e] = otpCache[e] /\ (DropsCachedCode(call, k) => e # call.email)
            \/ CachesCode(call, k) /\ e = call.email /\ otpCache'[e] = call.code
            \/ DropsCachedCode(call, k) /\ e = call.email /\ otpCache'[e] = 0
<1>1. otps \in [Mailboxes -> 0 .. Len(letters)] /\ otpCache \in [Mailboxes -> 0 .. Len(letters)]
  BY DEF StoresOK
<1>2. CASE DrawsCode(call, k)
  BY <1>1, <1>2 DEF DrawsCode, DropsCode, DropsCachedCode
<1>3. CASE CachesCode(call, k)
  BY <1>1, <1>3 DEF CachesCode, DropsCode, DropsCachedCode
<1>4. CASE DropsCode(call, k)
  BY <1>1, <1>4 DEF DropsCode, DropsCachedCode
<1>5. CASE DropsCachedCode(call, k)
  BY <1>1, <1>5 DEF DropsCode, DropsCachedCode
<1>6. CASE /\ UNCHANGED <<otps, otpCache>> /\ ~DropsCode(call, k) /\ ~DropsCachedCode(call, k)
  BY <1>6
<1>. QED BY <1>2, <1>3, <1>4, <1>5, <1>6 DEF CodesMove, MailsCode, UsesCode, ReadsCode, AcceptsCode,
            PassesOn, codes

LEMMA StepAddressed ==
  ASSUME TypeInv, TypeInv', Addressed, NEW w \in Workers, Step(w) \/ Fail(w)
  PROVE  Addressed'
<1>1. PICK call, k : call = calls[w] /\ k = calls'[w]
  OBVIOUS
<1>2. /\ OnItsWay(call.op, call.pc) /\ call.op \in Ops /\ call \in CallRows
      /\ HasRead(call, call.pc, Len(users), Len(letters), Len(tokens))
  BY <1>1, TheCall
<1>3. CodesMove(call, k) /\ (k = Idle \/ GoesOn(call, k)) /\ StoresOK /\ StoresOK'
  BY <1>1, <1>2, CodesStep, OneMoves DEF TypeInv
<1>4. CallTo(call) /\ StoredTo /\ \A v \in Workers \ {w} : calls'[v] = calls[v] /\ CallTo(calls[v])
  BY <1>1, OneMoves DEF Addressed
<1>5. /\ Len(letters') >= Len(letters) /\ Len(letters') \in Nat /\ Len(letters) \in Nat
  <2>1. CASE Len(letters) = 0
    BY <2>1, LengthsNext, <1>3
  <2>2. CASE Len(letters) # 0
    <3>1. 1 \in 1 .. Len(letters)
      BY <2>2, <1>3, Lengths
    <3>. QED BY <3>1, <1>3, LettersStep
  <2>. QED BY <2>1, <2>2
<1>6. \A c \in 1 .. Len(letters) :
          /\ letters'[c].to = letters[c].to /\ (letters[c].mailed => letters'[c].mailed)
          /\ \/ letters'[c].mailed = letters[c].mailed
             \/ MailsCode(call, k) /\ c = call.code
          /\ \/ letters'[c].uses = letters[c].uses
             \/ UsesCode(call, k) /\ c = call.code
  BY <1>3, LettersStep
<1>7. MailsCode(call, k) => Sending(call)
  BY DEF MailsCode, Sending
<1>8. UsesCode(call, k) => letters[call.code].mailed
  BY <1>4 DEF UsesCode, Passed, CallTo
<1>9. ASSUME NEW v \in Workers \ {w} PROVE (CallTo(calls[v]))'
  <2>1. ASSUME NEW c \in 1 .. Len(letters), Sending(calls[v]), c = calls[v].code
        PROVE  ~letters'[c].mailed /\ letters'[c].uses = letters[c].uses
    <3>1. ~letters[c].mailed
      BY <1>4, <2>1 DEF CallTo
    <3>2. ~(MailsCode(call, k) /\ c = call.code)
      BY <1>1, <1>7, <2>1 DEF Addressed, SendersDiffer
    <3>3. ~(UsesCode(call, k) /\ c = call.code)
      BY <1>8, <3>1
    <3>4. letters'[c].mailed = letters[c].mailed
      BY <1>6, <3>2
    <3>. QED BY <1>6, <3>1, <3>3, <3>4
  <2>. QED BY <1>4, <1>5, <1>6, <2>1, OtherCalls
<1>10. GivesCode(call) \/ Sending(call) \/ call.pc \in {"dropCode", "dropCachedCode"}
         => call.code \in 1 .. Len(letters)
  BY <1>2 DEF GivesCode, Sending, OnItsWay, HasRead, Ops
<1>11. call.email \in Mailboxes \/ ~(GivesCode(call) \/ call.pc \in {"storeCode", "cacheCode"})
  BY <1>2 DEF GivesCode, OnItsWay, HasRead, Ops
<1>12. StoredTo'
  <2>1. ASSUME NEW e \in Mailboxes, otps'[e] # 0 PROVE letters'[otps'[e]].to = e
    <3>1. otps[e] \in 0 .. Len(letters)
      BY <1>3 DEF StoresOK
    <3>2. CASE otps'[e] = otps[e]
      BY <1>4, <1>6, <2>1, <3>1, <3>2 DEF StoredTo
    <3>3. CASE DrawsCode(call, k) /\ e = call.email /\ otps'[e] = k.code
      BY <3>3 DEF DrawsCode
    <3>. QED BY <1>3, <2>1, <3>2, <3>3, StoredStep
  <2>2. ASSUME NEW e \in Mailboxes, otpCache'[e] # 0 PROVE letters'[otpCache'[e]].to = e
    <3>1. otpCache[e] \in 0 .. Len(letters)
      BY <1>3 DEF StoresOK
    <3>2. CASE otpCache'[e] = otpCache[e]
      BY <1>4, <1>6, <2>2, <3>1, <3>2 DEF StoredTo
    <3>3. CASE CachesCode(call, k) /\ e = call.email /\ otpCache'[e] = call.code
      BY <1>4, <1>6, <1>10, <3>3 DEF CachesCode, CallTo, Sending
    <3>. QED BY <1>3, <2>2, <3>2, <3>3, StoredStep
  <2>. QED BY <2>1, <2>2 DEF StoredTo
<1>13. k = Idle => (CallTo(calls[w]))'
  BY <1>1 DEF CallTo, Idle, GivesCode, Passed, Sending
<1>14. ASSUME GoesOn(call, k) PROVE (CallTo(calls[w]))'
  <2>1. k.op = call.op /\ k.email = call.email /\ (call.pc # "storeCode" => k.code = call.code)
    BY <1>14 DEF GoesOn
  <2>2. GivesCode(k) => /\ GivesCode(call) /\ k.code = call.code /\ call.code \in 1 .. Len(letters)
                        /\ letters'[k.code].mailed
    BY <1>2, <1>4, <1>6, <1>10, <2>1 DEF GivesCode, OnItsWay, CallTo
  <2>3. Passed(k) \/ k.pc \in {"dropCode", "dropCachedCode"} => letters'[k.code].to = k.email
    <3>1. CASE ReadsCode(call, k)
      <4>1. Passed(k) => k.code = otps[call.email] /\ k.code # 0 /\ call.email \in Mailboxes
        BY <1>11, <2>2, <3>1 DEF ReadsCode, Passed
      <4>2. Passed(k) => letters[k.code].to = k.email
        BY <1>4, <2>1, <4>1 DEF StoredTo
      <4>. QED BY <2>2, <3>1, <4>2 DEF Passed, ReadsCode, codes
    <3>2. CASE AcceptsCode(call, k)
      <4>1. k.pc \in {"checkEmail", "setPassword"}
        BY <3>2 DEF AcceptsCode
      <4>2. Passed(k) => call.code = call.row \/ otpCache[call.email] = call.code
        BY <3>2 DEF AcceptsCode, Valid
      <4>3. Passed(k) => letters[call.code].to = call.email
        <5>1. Passed(k) /\ otpCache[call.email] = call.code => letters[call.code].to = call.email
          BY <1>4, <1>11, <2>2 DEF Passed, StoredTo
        <5>2. Passed(k) /\ call.code = call.row => Passed(call)
          BY <2>2, <3>2 DEF Passed, AcceptsCode
        <5>. QED BY <1>4, <4>2, <5>1, <5>2 DEF CallTo
      <4>. QED BY <2>1, <2>2, <3>2, <4>1, <4>3 DEF AcceptsCode, codes, Passed
    <3>3. CASE \/ Passed(k) /\ Passed(call)
               \/ call.pc \in {"dropCode", "dropCachedCode"}
      <4>1. k.code = call.code /\ letters[call.code].to = call.email /\ call.code \in 1 .. Len(letters)
        BY <1>4, <1>10, <2>1, <2>2, <3>3 DEF CallTo, Passed
      <4>. QED BY <1>6, <2>1, <4>1
    <3>4. CASE UsesCode(call, k)
      <4>1. k.code = call.code /\ letters[call.code].to = call.email /\ call.code \in 1 .. Len(letters)
        BY <1>4, <1>10, <2>1, <3>4 DEF CallTo, Passed, UsesCode
      <4>. QED BY <1>6, <2>1, <4>1
    <3>5. CASE DrawsCode(call, k) \/ CachesCode(call, k)
      BY <3>5 DEF DrawsCode, CachesCode, Passed
    <3>6. CASE MailsCode(call, k)
      BY <3>6 DEF MailsCode, Idle, Passed
    <3>7. CASE PassesOn(call, k)
      BY <3>3, <3>7 DEF PassesOn, Idle, Passed
    <3>. QED BY <1>3, <3>1, <3>2, <3>3, <3>4, <3>5, <3>6, <3>7
             DEF CodesMove, DropsCode, DropsCachedCode
  <2>4. k.pc = "readCached" /\ k.row # 0 => k.row \in 1 .. Len(letters') /\ letters'[k.row].to = k.email
    <3>1. SUFFICES ASSUME k.pc = "readCached", k.row # 0
                   PROVE  k.row \in 1 .. Len(letters') /\ letters'[k.row].to = k.email
      OBVIOUS
    <3>2. call.pc = "readCode"
      BY <1>14, <3>1 DEF GoesOn, Follows
    <3>3. ReadsCode(call, k)
      BY <1>3, <3>1, <3>2 DEF CodesMove, DrawsCode, CachesCode, MailsCode, UsesCode, DropsCode,
         DropsCachedCode, AcceptsCode, PassesOn, Idle
    <3>4. call.email \in Mailboxes
      BY <1>2, <3>2 DEF OnItsWay, HasRead, Ops
    <3>5. k.row = otps[call.email] /\ k.row \in 0 .. Len(letters)
      BY <1>3, <3>3, <3>4 DEF ReadsCode, StoresOK
    <3>. QED BY <1>4, <1>5, <1>6, <2>1, <3>1, <3>4, <3>5 DEF StoredTo
  <2>5. Sending(k) => /\ letters'[k.code].to = k.email
                      /\ ~letters'[k.code].mailed /\ letters'[k.code].uses = 0
    <3>1. CASE DrawsCode(call, k)
      BY <2>1, <3>1 DEF DrawsCode
    <3>2. CASE CachesCode(call, k)
      BY <1>4, <2>1, <3>2 DEF CachesCode, CallTo, Sending
    <3>. QED BY <1>3, <3>1, <3>2 DEF CodesMove, MailsCode, UsesCode, DropsCode, DropsCachedCode,
         ReadsCode, AcceptsCode, PassesOn, Sending, Idle
  <2>. QED BY <1>1, <2>2, <2>3, <2>4, <2>5 DEF CallTo
<1>15. ASSUME NEW v \in Workers \ {w}, Sending(calls[v]), Sending(k) PROVE calls[v].code # k.code
  <2>1. calls[v].code \in 1 .. Len(letters)
    BY <1>15, TheCall DEF Sending, OnItsWay, HasRead, Ops
  <2>2. CASE DrawsCode(call, k)
    BY <1>5, <2>1, <2>2 DEF DrawsCode
  <2>3. CASE CachesCode(call, k)
    <3>1. Sending(call) /\ k.code = call.code
      BY <1>3, <2>3 DEF CachesCode, Sending, GoesOn, Idle
    <3>. QED BY <1>1, <1>15, <3>1 DEF Addressed, SendersDiffer
  <2>. QED BY <1>3, <1>15, <2>2, <2>3 DEF CodesMove, MailsCode, UsesCode, DropsCode, DropsCachedCode,
         ReadsCode, AcceptsCode, PassesOn, Sending, Idle
<1>16. (CallTo(calls[w]))'
  BY <1>3, <1>13, <1>14
<1>17. \A v \in Workers : (CallTo(calls[v]))'
  BY <1>9, <1>16
<1>18. SendersDiffer'
  <2>1. ASSUME NEW u \in Workers, NEW v \in Workers, Sending(calls'[u]), Sending(calls'[v]),
               calls'[u].code = calls'[v].code
        PROVE  u = v
    <3>1. CASE u # w /\ v # w
      BY <1>4, <2>1, <3>1 DEF Addressed, SendersDiffer
    <3>2. CASE u = w /\ v # w
      BY <1>1, <1>4, <1>15, <2>1, <3>2
    <3>3. CASE u # w /\ v = w
      BY <1>1, <1>4, <1>15, <2>1, <3>3
    <3>. QED BY <3>1, <3>2, <3>3
  <2>. QED BY <2>1 DEF SendersDiffer, Sending
<1>. QED BY <1>12, <1>17, <1>18 DEF Addressed

\* Time makes codes expire and takes copies away.
LEMMA ExpireCodes ==
  ASSUME TypeInv, Expire
  PROVE  /\ Len(letters') = Len(letters)
         /\ \A c \in 1 .. Len(letters) : /\ letters'[c].to = letters[c].to
                                         /\ letters'[c].mailed = letters[c].mailed
                                         /\ letters'[c].uses = letters[c].uses
         /\ \A e \in Mailboxes : otpCache'[e] \in {0, otpCache[e]}
<1>1. letters \in Seq(Letters) /\ otpCache \in [Mailboxes -> 0 .. Len(letters)] /\ StoresOK
  BY DEF TypeInv, StoresOK
<1>2. ASSUME NEW c \in DOMAIN letters, CodeExpires(c)
      PROVE  /\ Len(letters') = Len(letters) /\ UNCHANGED otpCache
             /\ \A d \in 1 .. Len(letters) : /\ letters'[d].to = letters[d].to
                                             /\ letters'[d].mailed = letters[d].mailed
                                             /\ letters'[d].uses = letters[d].uses
  <2>1. c \in 1 .. Len(letters)
    BY <1>1, Lengths
  <2>2. PICK row : row = [letters[c] EXCEPT !.expired = TRUE]
    OBVIOUS
  <2>3. /\ row \in Letters /\ row.to = letters[c].to /\ row.mailed = letters[c].mailed
        /\ row.uses = letters[c].uses
    BY <1>1, <2>1, <2>2, LetterRow DEF Letters, LetterFields
  <2>4. letters' = [letters EXCEPT ![c] = row] /\ UNCHANGED otpCache
    BY <1>2, <2>2 DEF CodeExpires
  <2>5. Len(letters') = Len(letters) /\ \A d \in 1 .. Len(letters) : letters'[d] = IF d = c THEN row ELSE letters[d]
    BY ONLY <1>1, <2>1, <2>3, <2>4, ExceptSeq
  <2>. QED BY <2>3, <2>4, <2>5
<1>3. ASSUME NEW e, CachedCodeExpires(e)
      PROVE  UNCHANGED letters /\ \A d \in Mailboxes : otpCache'[d] \in {0, otpCache[d]}
  BY <1>1, <1>3 DEF CachedCodeExpires
<1>4. CASE UNCHANGED <<letters, otpCache>>
  BY <1>4
<1>. QED BY <1>2, <1>3, <1>4 DEF Expire, TimePasses, AccountExpires, FailsExpire, TokenExpires,
            accountVars, codes

LEMMA ExpireAddressed ==
  ASSUME TypeInv, Addressed, Expire PROVE Addressed'
<1>1. UNCHANGED <<calls, otps>> /\ StoresOK
  BY ExpireMoves DEF TypeInv
<1>2. /\ Len(letters') = Len(letters) /\ Len(letters) \in Nat
      /\ \A c \in 1 .. Len(letters) : /\ letters'[c].to = letters[c].to
                                      /\ letters'[c].mailed = letters[c].mailed
                                      /\ letters'[c].uses = letters[c].uses
      /\ \A e \in Mailboxes : otpCache'[e] \in {0, otpCache[e]}
  BY <1>1, ExpireCodes, Lengths
<1>3. ASSUME NEW v \in Workers PROVE (CallTo(calls[v]))'
  <2>1. ASSUME NEW c \in 1 .. Len(letters), Sending(calls[v]), c = calls[v].code
        PROVE  ~letters'[c].mailed /\ letters'[c].uses = letters[c].uses
    BY <1>2, <2>1 DEF Addressed, CallTo
  <2>2. Len(letters') >= Len(letters) /\ CallTo(calls[v]) /\ calls'[v] = calls[v]
    BY <1>1, <1>2 DEF Addressed
  <2>. QED BY <1>2, <2>1, <2>2, OtherCalls
<1>4. \A e \in Mailboxes : otps[e] \in 0 .. Len(letters) /\ otpCache[e] \in 0 .. Len(letters)
  BY <1>1 DEF StoresOK
<1>5. StoredTo'
  BY <1>1, <1>2, <1>4 DEF Addressed, StoredTo
<1>6. SendersDiffer'
  BY <1>1 DEF Addressed, SendersDiffer
<1>. QED BY <1>3, <1>5, <1>6 DEF Addressed

LEMMA StartAddressed ==
  ASSUME TypeInv, TypeInv', Addressed, NEW w \in Workers, Start(w) PROVE Addressed'
<1>1. UNCHANGED <<users, letters, otps, otpCache>> /\ \A v \in Workers \ {w} : calls'[v] = calls[v]
  BY StartMoves DEF TypeInv, CallsGood, accountVars, codes
<1>2. Len(letters) \in Nat /\ Mailed \subseteq 1 .. Len(letters) /\ StoresOK
  BY Lengths DEF Mailed, TypeInv
<1>3. PICK k : k = calls'[w]
  OBVIOUS
<1>4. \/ k.op = "register" /\ k.pc = "readCached" /\ k.row = otps[k.email] /\ k.code \in Mailed
      \/ k.op \in {"reset", "change"} /\ k.pc = "readCode" /\ k.code \in Mailed
      \/ ~GivesCode(k) /\ ~Sending(k) /\ k.pc \notin {"readCached", "dropCode", "dropCachedCode"}
  BY <1>3, StartsAt DEF GivesCode, Sending
<1>5. k.op = "register" => k.email \in Mailboxes
  BY <1>3 DEF TypeInv, CallsGood, Good, HasRead
<1>6. ~Sending(k)
  BY <1>4 DEF Sending
<1>7. CallTo(k)
  <2>1. CASE k.op = "register" /\ k.pc = "readCached" /\ k.row = otps[k.email] /\ k.code \in Mailed
    <3>1. k.row \in 0 .. Len(letters) /\ (k.row # 0 => letters[k.row].to = k.email)
      BY <1>2, <1>5, <2>1 DEF Addressed, StoredTo, StoresOK
    <3>2. k.code # 0 /\ letters[k.code].mailed
      BY <1>2, <2>1 DEF Mailed
    <3>. QED BY <1>6, <2>1, <3>1, <3>2 DEF CallTo, Passed
  <2>2. CASE k.op \in {"reset", "change"} /\ k.pc = "readCode" /\ k.code \in Mailed
    BY <1>6, <2>2 DEF CallTo, Passed, Mailed
  <2>3. CASE ~GivesCode(k) /\ ~Sending(k) /\ k.pc \notin {"readCached", "dropCode", "dropCachedCode"}
    BY <2>3 DEF CallTo, Passed
  <2>. QED BY <1>4, <2>1, <2>2, <2>3
<1>8. \A v \in Workers : (CallTo(calls[v]))'
  BY <1>1, <1>3, <1>7 DEF Addressed, CallTo
<1>9. SendersDiffer'
  BY <1>1, <1>3, <1>6 DEF Addressed, SendersDiffer
<1>10. StoredTo'
  BY <1>1 DEF Addressed, StoredTo
<1>. QED BY <1>8, <1>9, <1>10 DEF Addressed

LEMMA InitAddressed == Init => Addressed
<1>. SUFFICES ASSUME Init PROVE Addressed
  OBVIOUS
<1>1. /\ letters = InitLetters /\ otps = [e \in Mailboxes |-> LastTo(e)] /\ otpCache = otps
      /\ \A w \in Workers : calls[w] = Idle
  BY DEF Init, AccountsInit
<1>2. \A w \in Workers : CallTo(calls[w])
  BY <1>1 DEF CallTo, Idle, GivesCode, Passed, Sending
<1>3. SendersDiffer
  BY <1>1 DEF SendersDiffer, Sending, Idle
<1>4. StoredTo
  BY <1>1, CodeLast DEF StoredTo
<1>. QED BY <1>2, <1>3, <1>4 DEF Addressed

\* The calls that may still use the code c, those that have and not yet deleted
\* its row, and those that have not yet deleted its copy.
Trying(c) == {w \in Workers : Passed(calls[w]) /\ calls[w].code = c}
Dropping(c) == {w \in Workers : calls[w].pc = "dropCode" /\ calls[w].code = c}
DroppingCopy(c) == {w \in Workers : calls[w].pc \in {"dropCode", "dropCachedCode"} /\ calls[w].code = c}

\* A code that is still stored was used only by calls that are about to delete
\* it, or have failed.
RowUnused(e) == otps[e] # 0 => letters[otps[e]].uses <= Cardinality(Dropping(otps[e])) + failures
CopyUnused(e) ==
    otpCache[e] # 0 => letters[otpCache[e]].uses <= Cardinality(DroppingCopy(otpCache[e])) + failures

CodeCounted(c) == letters[c].uses + Cardinality(Trying(c)) <= UseLimit

CodesInv == /\ TypeInv /\ Alone /\ Addressed
            /\ \A e \in Mailboxes : RowUnused(e) /\ CopyUnused(e)
            /\ \A c \in 1 .. Len(letters) : CodeCounted(c)

\* n uses, each of a call in A or one that failed: what one step of v does.
LEMMA UsesOwed ==
  ASSUME NEW A, NEW B, NEW v, NEW n \in Nat, NEW m \in Nat, NEW f \in Nat, NEW g \in Nat,
         IsFiniteSet(A), IsFiniteSet(B), n <= Cardinality(A) + f,
         \/ m = n /\ A \subseteq B /\ g = f
         \/ m = n /\ A \subseteq B \cup {v} /\ g = f + 1
         \/ m = n + 1 /\ A \subseteq B /\ v \in B /\ v \notin A /\ g = f
  PROVE  m <= Cardinality(B) + g
<1>1. Cardinality(A) \in Nat /\ Cardinality(B) \in Nat
  BY FS_CardinalityType
<1>2. CASE m = n /\ A \subseteq B /\ g = f
  <2>1. Cardinality(A) <= Cardinality(B)
    BY <1>2, FS_Subset
  <2>. QED BY ONLY <1>1, <1>2, <2>1, n <= Cardinality(A) + f, n \in Nat, f \in Nat
<1>3. CASE m = n /\ A \subseteq B \cup {v} /\ g = f + 1
  <2>1. IsFiniteSet(B \cup {v}) /\ Cardinality(B \cup {v}) \in {Cardinality(B), Cardinality(B) + 1}
    BY FS_AddElement
  <2>2. Cardinality(A) <= Cardinality(B \cup {v})
    BY <1>3, <2>1, FS_Subset
  <2>. QED BY ONLY <1>1, <1>3, <2>1, <2>2, n <= Cardinality(A) + f, n \in Nat, f \in Nat
<1>4. CASE m = n + 1 /\ A \subseteq B /\ v \in B /\ v \notin A /\ g = f
  <2>1. Cardinality(A \cup {v}) = Cardinality(A) + 1
    BY <1>4, FS_AddElement
  <2>2. Cardinality(A \cup {v}) <= Cardinality(B)
    BY <1>4, FS_Subset
  <2>. QED BY ONLY <1>1, <1>4, <2>1, <2>2, n <= Cardinality(A) + f, n \in Nat, f \in Nat
<1>. QED BY <1>2, <1>3, <1>4

LEMMA CodeSetsFinite ==
  ASSUME NEW c
  PROVE  /\ IsFiniteSet(Trying(c)) /\ IsFiniteSet(Dropping(c)) /\ IsFiniteSet(DroppingCopy(c))
         /\ Cardinality(Trying(c)) \in Nat /\ Cardinality(Dropping(c)) \in Nat
         /\ Cardinality(DroppingCopy(c)) \in Nat
<1>1. Trying(c) \subseteq Workers /\ Dropping(c) \subseteq Workers /\ DroppingCopy(c) \subseteq Workers
  BY DEF Trying, Dropping, DroppingCopy
<1>. QED BY <1>1, AccountsAssumption, FS_Subset, FS_CardinalityType

LEMMA CodeSetsFiniteNext ==
  ASSUME NEW c
  PROVE  /\ IsFiniteSet(Trying(c)') /\ IsFiniteSet(Dropping(c)') /\ IsFiniteSet(DroppingCopy(c)')
         /\ Cardinality(Trying(c)') \in Nat /\ Cardinality(Dropping(c)') \in Nat
         /\ Cardinality(DroppingCopy(c)') \in Nat
<1>1. Trying(c)' \subseteq Workers /\ Dropping(c)' \subseteq Workers /\ DroppingCopy(c)' \subseteq Workers
  BY DEF Trying, Dropping, DroppingCopy
<1>. QED BY <1>1, AccountsAssumption, FS_Subset, FS_CardinalityType

\* The calls that try a code and those that delete it are different calls in
\* progress: a code that is stored may be used by all that are not deleting it.
LEMMA StoredCounted ==
  ASSUME StoresOK', Alone', NEW e \in Mailboxes, NEW c, c # 0,
         \/ otps'[e] = c /\ RowUnused(e)'
         \/ otpCache'[e] = c /\ CopyUnused(e)'
  PROVE  CodeCounted(c)'
<1>1. \/ letters'[c].uses <= Cardinality(Dropping(c)') + failures'
      \/ letters'[c].uses <= Cardinality(DroppingCopy(c)') + failures'
  BY DEF RowUnused, CopyUnused, Dropping, DroppingCopy
<1>2. Cardinality(Dropping(c)') <= Cardinality(DroppingCopy(c)')
  <2>1. Dropping(c)' \subseteq DroppingCopy(c)'
    BY DEF Dropping, DroppingCopy
  <2>. QED BY <2>1, CodeSetsFiniteNext, FS_Subset
<1>3. /\ Cardinality(Busy') + failures' <= UseLimit' /\ IsFiniteSet(Busy')
      /\ failures' \in Nat /\ UseLimit' \in Nat
  BY BusyBound
<1>4. Cardinality(DroppingCopy(c)') + Cardinality(Trying(c)') <= Cardinality(Busy')
  <2>1. DroppingCopy(c)' \cup Trying(c)' \subseteq Busy' /\ DroppingCopy(c)' \cap Trying(c)' = {}
    BY DEF DroppingCopy, Trying, Passed, Busy, At
  <2>2. Cardinality(DroppingCopy(c)' \cup Trying(c)') = Cardinality(DroppingCopy(c)') + Cardinality(Trying(c)')
    BY <2>1, CodeSetsFiniteNext, Disjoint
  <2>3. Cardinality(DroppingCopy(c)' \cup Trying(c)') <= Cardinality(Busy')
    BY <1>3, <2>1, FS_Subset
  <2>. QED BY <2>2, <2>3
<1>5. letters'[c].uses \in Nat /\ Cardinality(Busy') \in Nat
  <2>1. c \in 1 .. Len(letters') /\ letters' \in Seq(Letters)
    BY DEF StoresOK
  <2>2. letters'[c] \in Letters
    BY ONLY <2>1, ElementOfSeq
  <2>. QED BY <1>3, <2>2, FS_CardinalityType DEF Letters
<1>6. letters'[c].uses + Cardinality(Trying(c)') <= UseLimit'
  BY ONLY <1>1, <1>2, <1>3, <1>4, <1>5, CodeSetsFiniteNext
<1>. QED BY <1>6 DEF CodeCounted

\* A code that nothing begins to try.
LEMMA CountedKept ==
  ASSUME NEW c, CodeCounted(c), UseLimit \in Nat, UseLimit' \in Nat, UseLimit <= UseLimit',
         letters[c].uses \in Nat, NEW v,
         \/ letters'[c].uses = letters[c].uses /\ Trying(c)' \subseteq Trying(c)
         \/ /\ letters'[c].uses = letters[c].uses + 1
            /\ v \in Trying(c) /\ v \notin Trying(c)' /\ Trying(c)' \subseteq Trying(c)
  PROVE  CodeCounted(c)'
<1>1. /\ IsFiniteSet(Trying(c)) /\ IsFiniteSet(Trying(c)')
      /\ Cardinality(Trying(c)) \in Nat /\ Cardinality(Trying(c)') \in Nat
  BY CodeSetsFinite, CodeSetsFiniteNext
<1>2. letters[c].uses + Cardinality(Trying(c)) <= UseLimit
  BY DEF CodeCounted
<1>3. CASE letters'[c].uses = letters[c].uses /\ Trying(c)' \subseteq Trying(c)
  <2>1. Cardinality(Trying(c)') <= Cardinality(Trying(c))
    BY <1>1, <1>3, FS_Subset
  <2>2. letters'[c].uses + Cardinality(Trying(c)') <= UseLimit'
    BY ONLY <1>1, <1>2, <1>3, <2>1, UseLimit \in Nat, UseLimit' \in Nat, UseLimit <= UseLimit', letters[c].uses \in Nat
  <2>. QED BY <2>2 DEF CodeCounted
<1>4. CASE /\ letters'[c].uses = letters[c].uses + 1
           /\ v \in Trying(c) /\ v \notin Trying(c)' /\ Trying(c)' \subseteq Trying(c)
  <2>1. PICK A, B : A = Trying(c) /\ B = Trying(c)'
    OBVIOUS
  <2>2. Cardinality(B \cup {v}) = Cardinality(B) + 1 /\ B \cup {v} \subseteq A
    BY <1>1, <1>4, <2>1, FS_AddElement
  <2>3. Cardinality(B \cup {v}) <= Cardinality(A)
    BY <1>1, <2>1, <2>2, FS_Subset
  <2>4. letters'[c].uses + Cardinality(Trying(c)') <= UseLimit'
    BY ONLY <1>1, <1>2, <1>4, <2>1, <2>2, <2>3, UseLimit \in Nat, UseLimit' \in Nat, UseLimit <= UseLimit', letters[c].uses \in Nat
  <2>. QED BY <2>4 DEF CodeCounted
<1>. QED BY <1>3, <1>4

\* What a step of the call w does to the calls that are about to delete a code.
LEMMA DroppingStep ==
  ASSUME TypeInv, NEW w \in Workers, NEW call, NEW k, call = calls[w], k = calls'[w],
         CodesMove(call, k), k = Idle \/ GoesOn(call, k),
         \A v \in Workers \ {w} : calls'[v] = calls[v], failures' \in {failures, failures + 1},
         NEW c, c # 0
  PROVE  /\ \/ Dropping(c) \subseteq Dropping(c)' /\ failures' = failures
            \/ Dropping(c) \subseteq Dropping(c)' \cup {w} /\ failures' = failures + 1
            \/ DropsCode(call, k) /\ call.code = c
         /\ \/ DroppingCopy(c) \subseteq DroppingCopy(c)' /\ failures' = failures
            \/ DroppingCopy(c) \subseteq DroppingCopy(c)' \cup {w} /\ failures' = failures + 1
            \/ DropsCachedCode(call, k) /\ call.code = c
<1>1. /\ Dropping(c) \subseteq Dropping(c)' \cup {w} /\ (w \notin Dropping(c) => Dropping(c) \subseteq Dropping(c)')
      /\ DroppingCopy(c) \subseteq DroppingCopy(c)' \cup {w}
      /\ (w \notin DroppingCopy(c) => DroppingCopy(c) \subseteq DroppingCopy(c)')
  BY DEF Dropping, DroppingCopy
<1>2. CASE failures' = failures + 1
  BY <1>1, <1>2
<1>3. CASE failures' = failures
  <2>1. CASE w \notin DroppingCopy(c)
    BY <1>1, <1>3, <2>1 DEF Dropping, DroppingCopy
  <2>2. CASE w \in DroppingCopy(c)
    <3>1. call.pc \in {"dropCode", "dropCachedCode"} /\ call.code = c
      BY <2>2 DEF DroppingCopy
    <3>2. failures \in Nat
      BY AccountsAssumption DEF TypeInv, StoresOK
    <3>3. failures' # failures + 1
      BY ONLY <1>3, <3>2
    <3>4. DropsCode(call, k) \/ DropsCachedCode(call, k)
      BY <3>1, <3>3 DEF CodesMove, DrawsCode, CachesCode, MailsCode, UsesCode, ReadsCode, AcceptsCode,
         PassesOn
    <3>5. CASE DropsCode(call, k)
      <4>1. k.code = c /\ k.pc = "dropCachedCode"
        BY <3>1, <3>5 DEF DropsCode, GoesOn, Idle
      <4>2. DroppingCopy(c) \subseteq DroppingCopy(c)'
        BY <1>1, <4>1 DEF DroppingCopy
      <4>. QED BY <1>3, <3>1, <3>5, <4>2
    <3>6. CASE DropsCachedCode(call, k)
      <4>1. w \notin Dropping(c)
        BY <3>6 DEF DropsCachedCode, Dropping
      <4>. QED BY <1>1, <1>3, <3>1, <3>6, <4>1
    <3>. QED BY <3>4, <3>5, <3>6
  <2>. QED BY <2>1, <2>2
<1>. QED BY <1>2, <1>3

LEMMA StepStored ==
  ASSUME CodesInv, TypeInv', NEW w \in Workers, Step(w) \/ Fail(w), NEW e \in Mailboxes
  PROVE  RowUnused(e)' /\ CopyUnused(e)'
<1>. USE DEF CodesInv
<1>1. PICK call, k : call = calls[w] /\ k = calls'[w]
  OBVIOUS
<1>2. /\ OnItsWay(call.op, call.pc) /\ call.op \in Ops /\ call \in CallRows
      /\ HasRead(call, call.pc, Len(users), Len(letters), Len(tokens))
  BY <1>1, TheCall
<1>3. CodesMove(call, k) /\ (k = Idle \/ GoesOn(call, k)) /\ StoresOK /\ StoresOK'
  BY <1>1, <1>2, CodesStep, OneMoves DEF TypeInv
<1>4. /\ \A v \in Workers \ {w} : calls'[v] = calls[v]
      /\ failures' \in {failures, failures + 1} /\ failures \in Nat /\ failures' \in Nat
  <2>1. \A v \in Workers \ {w} : calls'[v] = calls[v]
    BY OneMoves
  <2>2. failures' \in {failures, failures + 1}
    BY StepDisturbs
  <2>3. failures \in Nat
    BY <1>3, AccountsAssumption DEF StoresOK
  <2>. QED BY ONLY <2>1, <2>2, <2>3
<1>5. CallTo(call) /\ StoredTo
  BY <1>1 DEF Addressed
<1>6. GivesCode(call) \/ Sending(call) \/ call.pc \in {"dropCode", "dropCachedCode"}
        => call.code \in 1 .. Len(letters)
  BY <1>2 DEF GivesCode, Sending, OnItsWay, HasRead, Ops
<1>7. otps[e] \in 0 .. Len(letters) /\ otpCache[e] \in 0 .. Len(letters) /\ Len(letters) \in Nat
  BY <1>3, Lengths DEF StoresOK
<1>8. ASSUME NEW c \in 1 .. Len(letters)
      PROVE  /\ letters'[c].uses = letters[c].uses \/ (UsesCode(call, k) /\ c = call.code)
             /\ letters'[c].uses \in {letters[c].uses, letters[c].uses + 1}
             /\ letters[c].uses \in Nat /\ letters'[c].uses \in Nat
  <2>1. letters[c].uses \in Nat
    BY <1>3, LetterRow DEF LetterFields
  <2>2. letters'[c].uses \in {letters[c].uses, letters[c].uses + 1}
    BY <1>3, LettersStep
  <2>. QED BY <1>3, <2>1, <2>2, LettersStep
<1>9. UsesCode(call, k) => /\ w \in Dropping(call.code)' /\ w \notin DroppingCopy(call.code)
                           /\ w \in DroppingCopy(call.code)' /\ w \notin Dropping(call.code)
                           /\ k.code = call.code /\ UNCHANGED <<otps, otpCache>>
  BY <1>1, <1>3 DEF UsesCode, Dropping, DroppingCopy, GoesOn, Idle
<1>10. UsesCode(call, k) => failures' = failures /\ letters'[call.code].uses = letters[call.code].uses + 1
  <2>1. SUFFICES ASSUME UsesCode(call, k)
                 PROVE  failures' = failures /\ letters'[call.code].uses = letters[call.code].uses + 1
    OBVIOUS
  <2>2. call.code \in 1 .. Len(letters) /\ letters'[call.code].uses = letters[call.code].uses + 1
    BY <1>6, <2>1 DEF UsesCode, Passed
  <2>3. letters[call.code].uses \in Nat
    BY <1>8, <2>2
  <2>4. letters' # letters
    BY <2>2, <2>3
  <2>. QED BY <2>2, <2>4, StepDisturbs DEF accountVars, codes
<1>11. ASSUME NEW c \in 1 .. Len(letters), c # 0, otps[e] = c, otps'[e] = c PROVE RowUnused(e)'
  <2>1. PICK A, B : A = Dropping(c) /\ B = Dropping(c)'
    OBVIOUS
  <2>2. IsFiniteSet(A) /\ IsFiniteSet(B)
    BY <2>1, CodeSetsFinite, CodeSetsFiniteNext
  <2>3. letters[c].uses <= Cardinality(A) + failures
    BY <1>11, <2>1 DEF RowUnused
  <2>4. letters[c].to = e
    BY <1>5, <1>11 DEF StoredTo
  <2>5. ~(DropsCode(call, k) /\ call.code = c)
    <3>1. DropsCode(call, k) /\ call.code = c => call.email = e
      BY <1>5, <2>4 DEF CallTo, DropsCode
    <3>2. DropsCode(call, k) => e # call.email
      BY <1>3, <1>11 DEF DropsCode, StoresOK
    <3>. QED BY <3>1, <3>2
  <2>6. \/ A \subseteq B /\ failures' = failures
        \/ A \subseteq B \cup {w} /\ failures' = failures + 1
    BY <1>1, <1>3, <1>4, <1>11, <2>1, <2>5, DroppingStep
  <2>7. \/ letters'[c].uses = letters[c].uses
        \/ /\ letters'[c].uses = letters[c].uses + 1 /\ failures' = failures
           /\ w \in B /\ w \notin A
    BY <1>8, <1>9, <1>10, <2>1
  <2>8. \/ letters'[c].uses = letters[c].uses /\ A \subseteq B /\ failures' = failures
        \/ letters'[c].uses = letters[c].uses /\ A \subseteq B \cup {w} /\ failures' = failures + 1
        \/ letters'[c].uses = letters[c].uses + 1 /\ A \subseteq B /\ w \in B /\ w \notin A /\ failures' = failures
    BY ONLY <1>4, <2>6, <2>7
  <2>9. letters[c].uses \in Nat /\ letters'[c].uses \in Nat
    BY <1>8
  <2>10. PICK n \in Nat, m \in Nat, f \in Nat, g \in Nat :
             n = letters[c].uses /\ m = letters'[c].uses /\ f = failures /\ g = failures'
    BY <1>4, <2>9
  <2>11. m <= Cardinality(B) + g
    <3>1. /\ n <= Cardinality(A) + f
          /\ \/ m = n /\ A \subseteq B /\ g = f
             \/ m = n /\ A \subseteq B \cup {w} /\ g = f + 1
             \/ m = n + 1 /\ A \subseteq B /\ w \in B /\ w \notin A /\ g = f
      BY ONLY <2>3, <2>8, <2>10
    <3>. QED BY ONLY <2>2, <3>1, UsesOwed, n \in Nat, m \in Nat, f \in Nat, g \in Nat
  <2>. QED BY <1>11, <2>1, <2>10, <2>11 DEF RowUnused, Dropping
<1>12. ASSUME NEW c \in 1 .. Len(letters), c # 0, otpCache[e] = c, otpCache'[e] = c PROVE CopyUnused(e)'
  <2>1. PICK A, B : A = DroppingCopy(c) /\ B = DroppingCopy(c)'
    OBVIOUS
  <2>2. IsFiniteSet(A) /\ IsFiniteSet(B)
    BY <2>1, CodeSetsFinite, CodeSetsFiniteNext
  <2>3. letters[c].uses <= Cardinality(A) + failures
    BY <1>12, <2>1 DEF CopyUnused
  <2>4. letters[c].to = e
    BY <1>5, <1>12 DEF StoredTo
  <2>5. ~(DropsCachedCode(call, k) /\ call.code = c)
    <3>1. DropsCachedCode(call, k) /\ call.code = c => call.email = e
      BY <1>5, <2>4 DEF CallTo, DropsCachedCode
    <3>2. DropsCachedCode(call, k) => e # call.email
      BY <1>3, <1>12 DEF DropsCachedCode, StoresOK
    <3>. QED BY <3>1, <3>2
  <2>6. \/ A \subseteq B /\ failures' = failures
        \/ A \subseteq B \cup {w} /\ failures' = failures + 1
    BY <1>1, <1>3, <1>4, <1>12, <2>1, <2>5, DroppingStep
  <2>7. \/ letters'[c].uses = letters[c].uses
        \/ /\ letters'[c].uses = letters[c].uses + 1 /\ failures' = failures
           /\ w \in B /\ w \notin A
    BY <1>8, <1>9, <1>10, <2>1
  <2>8. \/ letters'[c].uses = letters[c].uses /\ A \subseteq B /\ failures' = failures
        \/ letters'[c].uses = letters[c].uses /\ A \subseteq B \cup {w} /\ failures' = failures + 1
        \/ letters'[c].uses = letters[c].uses + 1 /\ A \subseteq B /\ w \in B /\ w \notin A /\ failures' = failures
    BY ONLY <1>4, <2>6, <2>7
  <2>9. letters[c].uses \in Nat /\ letters'[c].uses \in Nat
    BY <1>8
  <2>10. PICK n \in Nat, m \in Nat, f \in Nat, g \in Nat :
             n = letters[c].uses /\ m = letters'[c].uses /\ f = failures /\ g = failures'
    BY <1>4, <2>9
  <2>11. m <= Cardinality(B) + g
    <3>1. /\ n <= Cardinality(A) + f
          /\ \/ m = n /\ A \subseteq B /\ g = f
             \/ m = n /\ A \subseteq B \cup {w} /\ g = f + 1
             \/ m = n + 1 /\ A \subseteq B /\ w \in B /\ w \notin A /\ g = f
      BY ONLY <2>3, <2>8, <2>10
    <3>. QED BY ONLY <2>2, <3>1, UsesOwed, n \in Nat, m \in Nat, f \in Nat, g \in Nat
  <2>. QED BY <1>12, <2>1, <2>10, <2>11 DEF CopyUnused, DroppingCopy
<1>13. RowUnused(e)'
  <2>1. CASE otps'[e] = 0
    BY <2>1 DEF RowUnused
  <2>2. CASE otps'[e] = otps[e] /\ otps[e] # 0
    BY <1>7, <1>11, <2>2
  <2>3. CASE DrawsCode(call, k) /\ otps'[e] = k.code
    <3>1. letters'[otps'[e]].uses = 0
      BY <2>3 DEF DrawsCode
    <3>. QED BY <1>4, <3>1, CodeSetsFiniteNext DEF RowUnused
  <2>. QED BY <1>3, <2>1, <2>2, <2>3, StoredStep
<1>14. CopyUnused(e)'
  <2>1. CASE otpCache'[e] = 0
    BY <2>1 DEF CopyUnused
  <2>2. CASE otpCache'[e] = otpCache[e] /\ otpCache[e] # 0
    BY <1>7, <1>12, <2>2
  <2>3. CASE CachesCode(call, k) /\ otpCache'[e] = call.code
    <3>1. letters'[otpCache'[e]].uses = 0
      BY <1>5, <2>3 DEF CachesCode, CallTo, Sending
    <3>. QED BY <1>4, <3>1, CodeSetsFiniteNext DEF CopyUnused
  <2>. QED BY <1>3, <2>1, <2>2, <2>3, StoredStep
<1>. QED BY <1>13, <1>14

\* A call begins to try a code only if the code is stored.
LEMMA TriesStored ==
  ASSUME TypeInv, Addressed, NEW w \in Workers, NEW call, NEW k, call = calls[w], k = calls'[w],
         CodesMove(call, k), k = Idle \/ GoesOn(call, k), Passed(k), ~Passed(call)
  PROVE  /\ k.code \in 1 .. Len(letters) /\ call.email \in Mailboxes
         /\ otps'[call.email] = k.code \/ otpCache'[call.email] = k.code
<1>1. /\ OnItsWay(call.op, call.pc) /\ call.op \in Ops
      /\ HasRead(call, call.pc, Len(users), Len(letters), Len(tokens))
  BY TheCall
<1>2. GoesOn(call, k)
  BY DEF Idle, Passed, GivesCode
<1>3. GivesCode(call) /\ call.email \in Mailboxes /\ call.code \in 1 .. Len(letters) /\ k.code = call.code
  BY <1>1, <1>2 DEF GoesOn, Passed, GivesCode, OnItsWay, HasRead
<1>4. CASE ReadsCode(call, k)
  BY <1>3, <1>4 DEF ReadsCode, Passed, codes
<1>5. CASE AcceptsCode(call, k)
  <2>1. call.row # call.code
    BY <1>3, <1>5 DEF AcceptsCode, Passed
  <2>. QED BY <1>3, <1>5, <2>1 DEF AcceptsCode, Valid, codes
<1>6. ReadsCode(call, k) \/ AcceptsCode(call, k)
  BY DEF CodesMove, DrawsCode, CachesCode, MailsCode, UsesCode, DropsCode, DropsCachedCode,
         PassesOn, Passed, Idle
<1>. QED BY <1>3, <1>4, <1>5, <1>6

LEMMA StepCodeCounted ==
  ASSUME CodesInv, [Next]_vars, NEW w \in Workers, Step(w) \/ Fail(w), NEW c \in 1 .. Len(letters')
  PROVE  CodeCounted(c)'
<1>. USE DEF CodesInv
<1>1. PICK call, k : call = calls[w] /\ k = calls'[w]
  OBVIOUS
<1>2. call \in CallRows /\ StoresOK /\ StoresOK' /\ TypeInv' /\ Alone'
      /\ UseLimit \in Nat /\ UseLimit' \in Nat /\ UseLimit <= UseLimit'
  BY <1>1, TheCall, StepFacts
<1>3. /\ CodesMove(call, k) /\ (k = Idle \/ GoesOn(call, k))
      /\ \A v \in Workers \ {w} : calls'[v] = calls[v]
  BY <1>1, <1>2, CodesStep, OneMoves
<1>4. ASSUME NEW e \in Mailboxes, otps'[e] = c \/ otpCache'[e] = c PROVE CodeCounted(c)'
  <2>1. RowUnused(e)' /\ CopyUnused(e)'
    BY <1>2, StepStored
  <2>2. c # 0
    BY <1>2, LengthsNext
  <2>. QED BY <1>2, <1>4, <2>1, <2>2, StoredCounted
<1>5. CASE c \notin 1 .. Len(letters)
  <2>1. DrawsCode(call, k)
    BY <1>3, <1>5 DEF CodesMove, CachesCode, MailsCode, UsesCode, LettersKept, DropsCode,
       DropsCachedCode, ReadsCode, AcceptsCode, PassesOn, codes
  <2>2. c = Len(letters) + 1
    BY <1>2, <1>5, <2>1, Lengths DEF DrawsCode
  <2>3. call.email \in Mailboxes
    BY <1>1, <2>1, TheCall DEF DrawsCode, OnItsWay, HasRead, Ops
  <2>4. otps'[call.email] = c
    BY <1>2, <2>1, <2>2, <2>3 DEF DrawsCode, StoresOK
  <2>. QED BY <1>4, <2>3, <2>4
<1>6. CASE c \in 1 .. Len(letters)
  <2>1. CASE Passed(k) /\ k.code = c /\ ~Passed(call)
    <3>1. call.email \in Mailboxes /\ (otps'[call.email] = c \/ otpCache'[call.email] = c)
      BY <1>1, <1>3, <2>1, TriesStored
    <3>. QED BY <1>4, <3>1
  <2>2. CASE ~(Passed(k) /\ k.code = c /\ ~Passed(call))
    <3>1. Passed(k) /\ Passed(call) => k.code = call.code
      BY <1>3 DEF Passed, GoesOn, Idle, GivesCode
    <3>2. Trying(c)' \subseteq Trying(c)
      BY <1>1, <1>3, <2>2, <3>1 DEF Trying
    <3>3. UsesCode(call, k) /\ c = call.code => w \in Trying(c) /\ w \notin Trying(c)'
      BY <1>1 DEF UsesCode, Trying, Passed
    <3>4. \/ letters'[c].uses = letters[c].uses
          \/ letters'[c].uses = letters[c].uses + 1 /\ w \in Trying(c) /\ w \notin Trying(c)'
      BY <1>2, <1>3, <1>6, <3>3, LettersStep
    <3>5. letters[c].uses \in Nat /\ CodeCounted(c)
      BY <1>2, <1>6, LetterRow DEF LetterFields
    <3>. QED BY <1>2, <3>2, <3>4, <3>5, CountedKept
  <2>. QED BY <2>1, <2>2
<1>. QED BY <1>5, <1>6

LEMMA StartCodeCounted ==
  ASSUME CodesInv, [Next]_vars, NEW w \in Workers, Start(w)
  PROVE  /\ \A e \in Mailboxes : RowUnused(e)' /\ CopyUnused(e)'
         /\ \A c \in 1 .. Len(letters') : CodeCounted(c)'
<1>. USE DEF CodesInv
<1>1. /\ UNCHANGED <<letters, otps, otpCache, failures>> /\ calls[w].pc = "idle"
      /\ \A v \in Workers \ {w} : calls'[v] = calls[v]
  BY StartMoves DEF TypeInv, CallsGood, accountVars, codes
<1>2. StoresOK /\ StoresOK' /\ TypeInv' /\ Alone' /\ UseLimit \in Nat /\ UseLimit' \in Nat /\ UseLimit <= UseLimit'
  BY StepFacts
<1>3. ASSUME NEW c
      PROVE  /\ Cardinality(Dropping(c)) <= Cardinality(Dropping(c)')
             /\ Cardinality(DroppingCopy(c)) <= Cardinality(DroppingCopy(c)')
  <2>1. Dropping(c) \subseteq Dropping(c)' /\ DroppingCopy(c) \subseteq DroppingCopy(c)'
    BY <1>1 DEF Dropping, DroppingCopy
  <2>. QED BY <2>1, CodeSetsFiniteNext, FS_Subset
<1>4. ASSUME NEW e \in Mailboxes PROVE RowUnused(e)' /\ CopyUnused(e)'
  <2>1. failures \in Nat /\ otps[e] \in 0 .. Len(letters) /\ otpCache[e] \in 0 .. Len(letters)
    BY <1>2, AccountsAssumption DEF StoresOK
  <2>2. PICK r, c : r = otps[e] /\ c = otpCache[e]
    OBVIOUS
  <2>3. /\ r # 0 => letters[r].uses \in Nat /\ letters[r].uses <= Cardinality(Dropping(r)) + failures
        /\ c # 0 => letters[c].uses \in Nat /\ letters[c].uses <= Cardinality(DroppingCopy(c)) + failures
    BY <1>2, <2>1, <2>2, LetterRow DEF LetterFields, RowUnused, CopyUnused
  <2>4. /\ r # 0 => letters[r].uses <= Cardinality(Dropping(r)') + failures
        /\ c # 0 => letters[c].uses <= Cardinality(DroppingCopy(c)') + failures
    <3>1. /\ Cardinality(Dropping(r)) \in Nat /\ Cardinality(Dropping(r)') \in Nat
          /\ Cardinality(DroppingCopy(c)) \in Nat /\ Cardinality(DroppingCopy(c)') \in Nat
      BY CodeSetsFinite, CodeSetsFiniteNext
    <3>2. /\ Cardinality(Dropping(r)) <= Cardinality(Dropping(r)')
          /\ Cardinality(DroppingCopy(c)) <= Cardinality(DroppingCopy(c)')
      BY <1>3
    <3>. QED BY ONLY <2>1, <2>3, <3>1, <3>2
  <2>5. otps'[e] = r /\ otpCache'[e] = c /\ letters' = letters /\ failures' = failures
    BY <1>1, <2>2
  <2>6. RowUnused(e)'
    BY <2>4, <2>5 DEF RowUnused, Dropping
  <2>7. CopyUnused(e)'
    BY <2>4, <2>5 DEF CopyUnused, DroppingCopy
  <2>. QED BY <2>6, <2>7
<1>5. ASSUME NEW c \in 1 .. Len(letters) PROVE CodeCounted(c)'
  <2>1. PICK k : k = calls'[w]
    OBVIOUS
  <2>2. CASE Passed(k) /\ k.code = c
    <3>1. k.op = "register" /\ k.row = otps[k.email] /\ k.row = c
      BY <2>1, <2>2, StartsAt DEF Passed, GivesCode
    <3>2. k.email \in Mailboxes
      BY <1>2, <2>1, <3>1 DEF TypeInv, CallsGood, Good, HasRead
    <3>3. c # 0 /\ otps'[k.email] = c
      BY <1>1, <1>2, <3>1, Lengths
    <3>. QED BY <1>2, <1>4, <3>2, <3>3, StoredCounted
  <2>3. CASE ~(Passed(k) /\ k.code = c)
    <3>1. Trying(c)' \subseteq Trying(c)
      BY <1>1, <2>1, <2>3 DEF Trying
    <3>2. letters[c].uses \in Nat /\ letters'[c].uses = letters[c].uses
      BY <1>1, <1>2, LetterRow DEF LetterFields
    <3>. QED BY <1>2, <3>1, <3>2, CountedKept
  <2>. QED BY <2>2, <2>3
<1>. QED BY <1>1, <1>4, <1>5

LEMMA ExpireCodeCounted ==
  ASSUME CodesInv, [Next]_vars, UNCHANGED <<calls, otps, failures>>,
         Len(letters') = Len(letters),
         \A c \in 1 .. Len(letters) : letters'[c].uses = letters[c].uses,
         \A e \in Mailboxes : otpCache'[e] \in {0, otpCache[e]}
  PROVE  /\ \A e \in Mailboxes : RowUnused(e)' /\ CopyUnused(e)'
         /\ \A c \in 1 .. Len(letters') : CodeCounted(c)'
<1>. USE DEF CodesInv
<1>1. StoresOK /\ StoresOK' /\ UseLimit \in Nat /\ UseLimit' \in Nat /\ UseLimit <= UseLimit'
  BY StepFacts
<1>2. \A c : /\ Trying(c)' = Trying(c) /\ Dropping(c)' = Dropping(c) /\ DroppingCopy(c)' = DroppingCopy(c)
  BY DEF Trying, Dropping, DroppingCopy
<1>3. ASSUME NEW e \in Mailboxes PROVE RowUnused(e)' /\ CopyUnused(e)'
  <2>1. otps[e] \in 0 .. Len(letters) /\ otpCache[e] \in 0 .. Len(letters) /\ Len(letters) \in Nat
    BY <1>1, Lengths DEF StoresOK
  <2>2. PICK r, c : r = otps[e] /\ c = otpCache[e]
    OBVIOUS
  <2>3. /\ r # 0 => letters'[r].uses <= Cardinality(Dropping(r)') + failures'
        /\ c # 0 => letters'[c].uses <= Cardinality(DroppingCopy(c)') + failures'
    BY <1>2, <2>1, <2>2 DEF RowUnused, CopyUnused
  <2>4. RowUnused(e)'
    <3>1. otps'[e] = r
      BY <2>2
    <3>. QED BY <2>3, <3>1 DEF RowUnused, Dropping
  <2>5. CopyUnused(e)'
    <3>1. otpCache'[e] = c \/ otpCache'[e] = 0
      BY <2>2
    <3>. QED BY <2>3, <3>1 DEF CopyUnused, DroppingCopy
  <2>. QED BY <2>4, <2>5
<1>4. ASSUME NEW c \in 1 .. Len(letters) PROVE CodeCounted(c)'
  <2>1. letters[c].uses \in Nat
    BY <1>1, LetterRow DEF LetterFields
  <2>. QED BY <1>1, <1>2, <2>1, CountedKept
<1>. QED BY <1>3, <1>4

LEMMA NextCodes == CodesInv /\ [Next]_vars => CodesInv'
<1>. SUFFICES ASSUME CodesInv, [Next]_vars PROVE CodesInv'
  OBVIOUS
<1>1. TypeInv /\ Addressed /\ TypeInv' /\ Alone' /\ StoresOK /\ Len(letters) \in Nat
  BY StepFacts, Lengths DEF CodesInv
<1>2. CASE UNCHANGED vars
  <2>1. UNCHANGED <<calls, letters, otps, otpCache, failures>>
    BY <1>2 DEF vars, accountVars, codes, bounds
  <2>2. Addressed'
    BY <1>1, <2>1 DEF Addressed, StoredTo, CallTo, SendersDiffer
  <2>. QED BY <1>1, <2>1, <2>2, ExpireCodeCounted DEF CodesInv
<1>3. CASE Expire
  <2>1. Addressed'
    BY <1>1, <1>3, ExpireAddressed
  <2>. QED BY <1>1, <1>3, <2>1, ExpireMoves, ExpireCodes, ExpireCodeCounted DEF CodesInv
<1>4. ASSUME NEW w \in Workers, Start(w) PROVE CodesInv'
  BY <1>1, <1>4, StartAddressed, StartCodeCounted DEF CodesInv
<1>5. ASSUME NEW w \in Workers, Step(w) \/ Fail(w) PROVE CodesInv'
  BY <1>1, <1>5, StepAddressed, StepStored, StepCodeCounted DEF CodesInv
<1>. QED BY <1>2, <1>3, <1>4, <1>5 DEF Next

LEMMA InitCodes == Init => CodesInv
<1>. SUFFICES ASSUME Init PROVE CodesInv
  OBVIOUS
<1>1. TypeInv /\ Alone /\ Addressed
  BY InitTypeInv, InitAlone, InitAddressed
<1>2. /\ letters = InitLetters /\ otps = [e \in Mailboxes |-> LastTo(e)] /\ otpCache = otps
      /\ failures = 0 /\ overlapped = FALSE /\ \A w \in Workers : calls[w] = Idle
  BY DEF Init, AccountsInit
<1>3. DOMAIN letters = 1 .. Len(letters) /\ Len(letters) \in Nat
  BY <1>1, Lengths DEF TypeInv
<1>4. ASSUME NEW e \in Mailboxes, otps[e] # 0 PROVE letters[otps[e]].uses = 0
  <2>1. otps[e] = LastTo(e) /\ LastTo(e) \in DOMAIN InitLetters /\ InitLetters[LastTo(e)].to = e
    BY <1>2, <1>3, <1>4, CodeLast
  <2>. QED BY <1>2, <2>1, AccountsAssumption
<1>5. ASSUME NEW e \in Mailboxes PROVE RowUnused(e) /\ CopyUnused(e)
  <2>1. /\ Cardinality(Dropping(otps[e])) \in Nat /\ Cardinality(DroppingCopy(otps[e])) \in Nat
    BY CodeSetsFinite
  <2>. QED BY <1>2, <1>4, <2>1 DEF RowUnused, CopyUnused
<1>6. ASSUME NEW c \in 1 .. Len(letters) PROVE CodeCounted(c)
  <2>1. Trying(c) = {}
    BY <1>2 DEF Trying, Passed, GivesCode, Idle
  <2>2. Cardinality(Trying(c)) = 0
    BY <2>1, FS_EmptySet
  <2>3. letters[c].uses <= 1 /\ letters[c].uses \in Nat
    BY <1>1, <1>2, <1>3, AccountsAssumption, LetterRow DEF LetterFields, TypeInv
  <2>4. UseLimit = 1
    BY <1>2 DEF UseLimit
  <2>5. letters[c].uses + Cardinality(Trying(c)) <= UseLimit
    BY ONLY <2>2, <2>3, <2>4
  <2>. QED BY <2>5 DEF CodeCounted
<1>. QED BY <1>1, <1>5, <1>6 DEF CodesInv

LEMMA CodesAreBounded == CodesInv => CodeUsesBounded
<1>. SUFFICES ASSUME CodesInv, NEW c \in DOMAIN letters
              PROVE  letters[c].uses <= UseLimit
  BY DEF CodeUsesBounded
<1>1. StoresOK /\ c \in 1 .. Len(letters)
  BY Lengths DEF CodesInv, TypeInv
<1>2. letters[c].uses \in Nat /\ Cardinality(Trying(c)) \in Nat
  BY <1>1, LetterRow, CodeSetsFinite DEF LetterFields
<1>3. UseLimit \in Nat
  BY <1>1, AccountsAssumption, FS_CardinalityType DEF UseLimit, StoresOK
<1>4. letters[c].uses + Cardinality(Trying(c)) <= UseLimit
  BY <1>1 DEF CodesInv, CodeCounted
<1>5. letters[c].uses <= UseLimit
  BY ONLY <1>2, <1>3, <1>4
<1>. QED BY <1>5

\* A one-time code opens one account or one new password; when calls overlap, at
\* most one per call that can be in progress.  Each call that dies after its write,
\* and each delete that fails, leaves a row or a cached copy that is taken once more
\* (auth.service.ts, register, resetPasswordWithOtp, changePassword), and no more
\* than once.
THEOREM CodesAlwaysBounded == Spec => []CodeUsesBounded
<1>1. CodesInv /\ [Next]_vars => CodesInv'
  BY NextCodes
<1>. QED BY InitCodes, <1>1, CodesAreBounded, PTL DEF Spec
-----------------------------------------------------------------------------
(* The last code that was mailed is the one that is stored *)

LastMailed(e, c) == /\ c \in Mailed /\ letters[c].to = e
                    /\ \A d \in Mailed : letters[d].to = e => d <= c

StoredIsLast ==
    \A e \in Mailboxes, c \in Mailed :
        LastMailed(e, c) /\ letters[c].uses = 0 =>
            otps[e] = c \/ \E w \in Workers : Sending(calls[w]) /\ calls[w].email = e

NoneNewer == \A e \in Mailboxes : otps[e] # 0 => \A d \in Mailed : letters[d].to = e => d <= otps[e]

\* What a call knows of the row of its address.
KnowsRow(call) ==
    /\ Sending(call) => otps[call.email] = call.code
    /\ call.pc = "readCached" => call.row = otps[call.email]
    /\ Passed(call) \/ call.pc = "dropCode" => otps[call.email] \in {0, call.code}
    /\ call.pc = "dropCode" => letters[call.code].uses # 0

Kept == StoredIsLast /\ NoneNewer /\ \A w \in Workers : KnowsRow(calls[w])

MailInv == CodesInv /\ (~disturbed => Kept)

LEMMA IdleKnows ==
  ASSUME NEW call, call.pc = "idle" PROVE KnowsRow(call) /\ ~Sending(call)
  BY DEF KnowsRow, Sending, Passed

LEMMA IdleKnowsNext ==
  ASSUME NEW call, call.pc = "idle" PROVE KnowsRow(call)'
  BY DEF KnowsRow, Sending, Passed

\* As long as nothing is disturbed, a step of the only call keeps this.
LEMMA StepKept ==
  ASSUME CodesInv, TypeInv', Addressed', Kept, NEW w \in Workers, Step(w) \/ Fail(w), ~disturbed'
  PROVE  Kept'
<1>1. PICK call, k : call = calls[w] /\ k = calls'[w]
  OBVIOUS
<1>2. /\ OnItsWay(call.op, call.pc) /\ call.op \in Ops /\ call \in CallRows
      /\ HasRead(call, call.pc, Len(users), Len(letters), Len(tokens)) /\ TypeInv /\ Alone
  BY <1>1, TheCall DEF CodesInv
<1>3. CodesMove(call, k) /\ (k = Idle \/ GoesOn(call, k)) /\ StoresOK /\ StoresOK'
  BY <1>1, <1>2, CodesStep, OneMoves DEF TypeInv
<1>4. /\ \A v \in Workers \ {w} : calls[v].pc = "idle" /\ calls'[v] = calls[v]
      /\ failures = 0 /\ failures' = failures
  BY <1>2, OnlyCall
<1>5. failures' # failures + 1
  BY ONLY <1>4
<1>6. CallTo(call) /\ StoredTo /\ KnowsRow(call)
  BY <1>1 DEF CodesInv, Addressed, Kept
<1>7. /\ Len(letters) \in Nat /\ Mailed \subseteq 1 .. Len(letters) /\ otps \in [Mailboxes -> 0 .. Len(letters)]
      /\ Mailed' \subseteq 1 .. Len(letters')
  BY <1>3, Lengths, LengthsNext DEF Mailed, StoresOK
<1>8. GivesCode(call) \/ Sending(call) \/ call.pc \in {"dropCode", "dropCachedCode"}
        => call.code \in 1 .. Len(letters)
  BY <1>2 DEF GivesCode, Sending, OnItsWay, HasRead, Ops
<1>9. call.email \in Mailboxes \/ ~(GivesCode(call) \/ Sending(call) \/ call.pc \in {"storeCode", "dropCode"})
  BY <1>2 DEF GivesCode, Sending, OnItsWay, HasRead, Ops
<1>10. \A e \in Mailboxes, c \in Mailed :
          LastMailed(e, c) /\ letters[c].uses = 0 => otps[e] = c \/ (Sending(call) /\ call.email = e)
  BY <1>1, <1>4, IdleKnows DEF Kept, StoredIsLast
<1>11. Passed(call) => GivesCode(call)
  BY DEF Passed
<1>12. KnowsRow(k)'
  <2>1. CASE k = Idle
    BY <2>1, IdleKnowsNext DEF Idle
  <2>2. CASE GoesOn(call, k)
    <3>1. k.email = call.email /\ k.op = call.op /\ (call.pc # "storeCode" => k.code = call.code)
      BY <2>2 DEF GoesOn
    <3>2. CASE DrawsCode(call, k)
      BY <1>7, <1>9, <3>1, <3>2 DEF DrawsCode, KnowsRow, Sending, Passed
    <3>3. CASE CachesCode(call, k)
      BY <1>6, <3>1, <3>3 DEF CachesCode, KnowsRow, Sending, Passed
    <3>4. CASE MailsCode(call, k)
      BY <3>4, IdleKnowsNext DEF MailsCode, Idle
    <3>5. CASE UsesCode(call, k)
      <4>1. call.code \in 1 .. Len(letters) /\ letters[call.code].uses \in Nat
        BY <1>3, <1>8, <1>11, <3>5, LetterRow DEF UsesCode, LetterFields
      <4>2. letters'[call.code].uses # 0
        BY <3>5, <4>1 DEF UsesCode
      <4>. QED BY <1>6, <3>1, <3>5, <4>2 DEF UsesCode, KnowsRow, Sending, Passed
    <3>6. CASE DropsCode(call, k) \/ DropsCachedCode(call, k)
      BY <3>6, IdleKnowsNext DEF DropsCode, DropsCachedCode, KnowsRow, Sending, Passed, Idle
    <3>7. CASE ReadsCode(call, k)
      BY <3>1, <3>7 DEF ReadsCode, KnowsRow, Sending, Passed, codes
    <3>8. CASE AcceptsCode(call, k)
      <4>1. call.row = 0 \/ call.row = call.code
        BY <3>8 DEF AcceptsCode, Valid
      <4>. QED BY <1>6, <3>1, <3>8, <4>1 DEF AcceptsCode, KnowsRow, Sending, Passed, codes
    <3>9. CASE PassesOn(call, k)
      BY <1>5, <1>6, <2>1, <3>1, <3>9 DEF PassesOn, KnowsRow, Sending, Passed, codes
    <3>. QED BY <1>3, <3>2, <3>3, <3>4, <3>5, <3>6, <3>7, <3>8, <3>9 DEF CodesMove
  <2>. QED BY <1>3, <2>1, <2>2
<1>13. \A v \in Workers : (KnowsRow(calls[v]))'
  BY <1>1, <1>4, <1>12, IdleKnowsNext DEF KnowsRow
<1>14. CASE MailsCode(call, k)
  <2>1. PICK x : x = call.code
    OBVIOUS
  <2>2. /\ UNCHANGED otps /\ letters'[x].mailed /\ Len(letters') = Len(letters)
        /\ \A c \in 1 .. Len(letters) : /\ letters'[c].to = letters[c].to
                                        /\ letters[c].mailed => letters'[c].mailed
                                        /\ c # x => /\ letters'[c].mailed = letters[c].mailed
                                                    /\ letters'[c].uses = letters[c].uses
    BY <1>14, <2>1 DEF MailsCode, LettersKept
  <2>3. Sending(call) /\ x \in 1 .. Len(letters) /\ letters[x].to = call.email /\ otps[call.email] = x
    BY <1>6, <1>8, <1>14, <2>1 DEF MailsCode, Sending, CallTo, KnowsRow
  <2>4. Mailed' = Mailed \cup {x} /\ Mailed \subseteq Mailed'
    <3>1. DOMAIN letters = 1 .. Len(letters) /\ DOMAIN letters' = 1 .. Len(letters)
      BY <1>3, <2>2, Lengths, LengthsNext
    <3>. QED BY <2>2, <2>3, <3>1 DEF Mailed
  <2>5. call.email \in Mailboxes /\ x # 0
    BY <1>7, <1>9, <2>3
  <2>6. \A d \in Mailed : letters[d].to = call.email => d <= x
    BY <2>3, <2>5 DEF Kept, NoneNewer
  <2>7. NoneNewer'
    <3>1. ASSUME NEW e \in Mailboxes, otps[e] # 0, NEW d \in Mailed', letters'[d].to = e PROVE d <= otps[e]
      <4>1. d \in 1 .. Len(letters) /\ letters[d].to = e
        BY <1>7, <2>2, <2>3, <2>4, <3>1
      <4>. QED BY <1>7, <2>3, <2>4, <2>6, <3>1, <4>1 DEF Kept, NoneNewer
    <3>. QED BY <2>2, <3>1 DEF NoneNewer
  <2>8. StoredIsLast'
    <3>1. ASSUME NEW e \in Mailboxes, NEW c \in Mailed', LastMailed(e, c)', letters'[c].uses = 0
          PROVE  otps[e] = c
      <4>1. /\ letters'[c].to = e /\ c \in 1 .. Len(letters)
            /\ \A d \in Mailed' : letters'[d].to = e => d <= c
        BY <1>7, <2>2, <3>1 DEF LastMailed
      <4>2. CASE e = call.email
        <5>1. x <= c
          BY <2>2, <2>3, <2>4, <4>1, <4>2
        <5>2. c <= x
          BY <1>7, <2>2, <2>4, <2>6, <4>1, <4>2
        <5>3. x = c
          BY ONLY <1>7, <2>3, <4>1, <5>1, <5>2
        <5>. QED BY <2>3, <4>2, <5>3
      <4>3. CASE e # call.email
        <5>1. c # x /\ c \in Mailed
          BY <2>2, <2>3, <2>4, <4>1, <4>3
        <5>2. letters[c].to = e /\ letters[c].uses = 0
          BY <2>2, <3>1, <4>1, <5>1
        <5>3. LastMailed(e, c)
          BY <1>7, <2>2, <2>4, <4>1, <5>1, <5>2 DEF LastMailed
        <5>. QED BY <1>10, <4>3, <5>1, <5>2, <5>3
      <4>. QED BY <4>2, <4>3
    <3>. QED BY <2>2, <3>1 DEF StoredIsLast
  <2>. QED BY <1>13, <2>7, <2>8 DEF Kept
<1>15. CASE ~MailsCode(call, k)
  <2>1. ASSUME NEW c \in 1 .. Len(letters)
        PROVE  /\ letters'[c].to = letters[c].to /\ letters'[c].mailed = letters[c].mailed
               /\ letters'[c].uses = 0 => letters[c].uses = 0
    <3>1. letters'[c].to = letters[c].to /\ letters'[c].mailed = letters[c].mailed
      BY <1>3, <1>15, LettersStep
    <3>2. letters[c].uses \in Nat /\ letters'[c].uses \in {letters[c].uses, letters[c].uses + 1}
      BY <1>3, LettersStep, LetterRow DEF LetterFields
    <3>3. letters'[c].uses = 0 => letters[c].uses = 0
      BY ONLY <3>2
    <3>. QED BY <3>1, <3>3
  <2>2. Mailed' = Mailed
    <3>1. DOMAIN letters = 1 .. Len(letters) /\ DOMAIN letters' = 1 .. Len(letters')
      BY <1>3, Lengths, LengthsNext
    <3>2. CASE DrawsCode(call, k)
      BY <1>7, <3>1, <3>2 DEF DrawsCode, Mailed
    <3>3. CASE Len(letters') = Len(letters)
      BY <2>1, <3>1, <3>3 DEF Mailed
    <3>. QED BY <1>3, <1>15, <3>2, <3>3 DEF CodesMove, CachesCode, UsesCode, LettersKept, DropsCode,
             DropsCachedCode, ReadsCode, AcceptsCode, PassesOn, codes
  <2>3. \A e, c : LastMailed(e, c)' <=> LastMailed(e, c)
    BY <1>7, <2>1, <2>2 DEF LastMailed
  <2>4. NoneNewer'
    <3>1. ASSUME NEW e \in Mailboxes, otps'[e] # 0, NEW d \in Mailed, letters[d].to = e PROVE d <= otps'[e]
      <4>1. CASE otps'[e] = otps[e]
        BY <3>1, <4>1 DEF Kept, NoneNewer
      <4>2. CASE DrawsCode(call, k) /\ otps'[e] = k.code
        BY <1>7, <4>2 DEF DrawsCode
      <4>. QED BY <1>3, <3>1, <4>1, <4>2, StoredStep
    <3>. QED BY <1>7, <2>1, <2>2, <3>1 DEF NoneNewer
  <2>5. StoredIsLast'
    <3>1. ASSUME NEW e \in Mailboxes, NEW c \in Mailed, LastMailed(e, c), letters[c].uses = 0,
                 letters'[c].uses = 0
          PROVE  otps'[e] = c \/ (Sending(k) /\ k.email = e)
      <4>1. otps[e] = c \/ (Sending(call) /\ call.email = e)
        BY <1>10, <3>1
      <4>2. CASE Sending(call) /\ call.email = e
        <5>1. CachesCode(call, k)
          BY <1>3, <1>5, <1>15, <4>2 DEF CodesMove, DrawsCode, UsesCode, DropsCode, DropsCachedCode, ReadsCode,
             AcceptsCode, PassesOn, Sending
        <5>2. k.pc = "mail" /\ k.email = call.email
          BY <1>3, <5>1 DEF CachesCode, GoesOn, Idle
        <5>. QED BY <4>2, <5>2 DEF Sending
      <4>3. CASE otps[e] = c /\ ~(Sending(call) /\ call.email = e)
        <5>1. CASE DropsCode(call, k) /\ e = call.email
          <6>1. c = call.code
            BY <1>6, <1>7, <3>1, <4>3, <5>1 DEF DropsCode, KnowsRow
          <6>. QED BY <1>6, <3>1, <5>1, <6>1 DEF DropsCode, KnowsRow
        <5>2. CASE DrawsCode(call, k) /\ e = call.email
          BY <1>3, <5>2 DEF DrawsCode, Sending, GoesOn, Idle
        <5>. QED BY <1>3, <4>3, <5>1, <5>2, StoredStep
      <4>. QED BY <4>1, <4>2, <4>3
    <3>2. ASSUME NEW e \in Mailboxes, NEW c \in Mailed', LastMailed(e, c)', letters'[c].uses = 0
          PROVE  otps'[e] = c \/ \E v \in Workers : Sending(calls'[v]) /\ calls'[v].email = e
      <4>1. c \in Mailed /\ LastMailed(e, c) /\ letters[c].uses = 0
        BY <1>7, <2>1, <2>2, <2>3, <3>2
      <4>. QED BY <1>1, <3>1, <3>2, <4>1
    <3>. QED BY <3>2 DEF StoredIsLast, Sending
  <2>. QED BY <1>13, <2>4, <2>5 DEF Kept
<1>. QED BY <1>14, <1>15

LEMMA StartKept ==
  ASSUME CodesInv, TypeInv', Kept, NEW w \in Workers, Start(w), ~disturbed'
  PROVE  Kept'
<1>1. /\ UNCHANGED <<letters, otps>> /\ \A v \in Workers : calls[v].pc = "idle"
      /\ \A v \in Workers \ {w} : calls'[v] = calls[v]
  BY StartMoves, QuietStart DEF CodesInv, TypeInv, CallsGood, accountVars, codes, Quiet
<1>2. PICK k : k = calls'[w]
  OBVIOUS
<1>3. KnowsRow(k)'
  <2>1. CASE k.op = "register" /\ k.pc = "readCached" /\ k.row = otps[k.email]
    BY <1>1, <2>1 DEF KnowsRow, Sending, Passed
  <2>2. CASE k.op # "register"
    BY <1>2, <2>2, StartsAt DEF CodesInv, KnowsRow, Sending, Passed, GivesCode
  <2>. QED BY <1>2, <2>1, <2>2, StartsAt DEF CodesInv
<1>4. \A v \in Workers : (KnowsRow(calls[v]))'
  BY <1>1, <1>2, <1>3, IdleKnowsNext DEF KnowsRow
<1>5. \A e \in Mailboxes, c \in Mailed : LastMailed(e, c) /\ letters[c].uses = 0 => otps[e] = c
  BY <1>1, IdleKnows DEF Kept, StoredIsLast
<1>6. Mailed' = Mailed /\ \A e, c : LastMailed(e, c)' <=> LastMailed(e, c)
  BY <1>1 DEF Mailed, LastMailed
<1>7. StoredIsLast'
  BY <1>1, <1>5, <1>6 DEF StoredIsLast
<1>8. NoneNewer'
  BY <1>1, <1>6 DEF Kept, NoneNewer
<1>. QED BY <1>4, <1>7, <1>8 DEF Kept

\* Time only makes codes expire.
LEMMA ExpireKept ==
  ASSUME CodesInv, Kept, TypeInv', UNCHANGED <<calls, otps>>, Len(letters') = Len(letters),
         \A c \in 1 .. Len(letters) : /\ letters'[c].to = letters[c].to
                                      /\ letters'[c].mailed = letters[c].mailed
                                      /\ letters'[c].uses = letters[c].uses
  PROVE  Kept'
<1>1. DOMAIN letters = 1 .. Len(letters) /\ DOMAIN letters' = 1 .. Len(letters)
  BY Lengths, LengthsNext DEF CodesInv, TypeInv
<1>2. Mailed' = Mailed /\ Mailed \subseteq 1 .. Len(letters)
  BY <1>1 DEF Mailed
<1>3. \A e, c : LastMailed(e, c)' <=> LastMailed(e, c)
  BY <1>2 DEF LastMailed
<1>4. StoredIsLast'
  BY <1>2, <1>3 DEF Kept, StoredIsLast
<1>5. NoneNewer'
  BY <1>2 DEF Kept, NoneNewer
<1>6. ASSUME NEW v \in Workers PROVE (KnowsRow(calls[v]))'
  <2>1. PICK call : call = calls[v]
    OBVIOUS
  <2>2. /\ OnItsWay(call.op, call.pc) /\ call.op \in Ops /\ KnowsRow(call) /\ calls'[v] = call
        /\ HasRead(call, call.pc, Len(users), Len(letters), Len(tokens))
    BY <2>1, TheCall DEF CodesInv, Kept
  <2>3. call.pc = "dropCode" => call.code \in 1 .. Len(letters)
    BY <2>2 DEF OnItsWay, HasRead, Ops
  <2>. QED BY <2>2, <2>3 DEF KnowsRow
<1>. QED BY <1>4, <1>5, <1>6 DEF Kept

LEMMA NextMail == MailInv /\ [Next]_vars => MailInv'
<1>. SUFFICES ASSUME MailInv, [Next]_vars, ~disturbed' PROVE Kept'
  BY NextCodes DEF MailInv
<1>1. CodesInv /\ CodesInv' /\ TypeInv /\ TypeInv' /\ Addressed'
  BY NextCodes DEF MailInv, CodesInv
<1>2. Kept
  BY <1>1, StaysDisturbed DEF MailInv
<1>3. CASE UNCHANGED vars
  <2>1. UNCHANGED <<calls, letters, otps>>
    BY <1>3 DEF vars, accountVars, codes
  <2>. QED BY <1>1, <1>2, <2>1, ExpireKept
<1>4. CASE Expire
  BY <1>1, <1>2, <1>4, ExpireMoves, ExpireCodes, ExpireKept
<1>5. ASSUME NEW w \in Workers, Start(w) PROVE Kept'
  BY <1>1, <1>2, <1>5, StartKept
<1>6. ASSUME NEW w \in Workers, Step(w) \/ Fail(w) PROVE Kept'
  BY <1>1, <1>2, <1>6, StepKept
<1>. QED BY <1>3, <1>4, <1>5, <1>6 DEF Next

LEMMA InitMail == Init => MailInv
<1>. SUFFICES ASSUME Init PROVE Kept
  BY InitCodes DEF MailInv
<1>1. /\ letters = InitLetters /\ otps = [e \in Mailboxes |-> LastTo(e)]
      /\ \A w \in Workers : calls[w] = Idle
  BY DEF Init, AccountsInit
<1>2. DOMAIN letters = 1 .. Len(letters) /\ Len(letters) \in Nat
  BY InitTypeInv, Lengths DEF TypeInv
<1>3. Mailed = DOMAIN InitLetters
  BY <1>1, AccountsAssumption DEF Mailed
<1>4. \A w \in Workers : KnowsRow(calls[w])
  BY <1>1, IdleKnows DEF Idle
<1>5. NoneNewer
  BY <1>1, <1>3, CodeLast DEF NoneNewer
<1>6. ASSUME NEW e \in Mailboxes, NEW c \in Mailed, LastMailed(e, c) PROVE otps[e] = c
  <2>1. letters[c].to = e /\ c \in 1 .. Len(letters) /\ c <= LastTo(e)
    BY <1>1, <1>2, <1>3, <1>6, CodeLast DEF LastMailed
  <2>2. LastTo(e) \in 0 .. Len(letters)
    BY <1>1, CodeLast
  <2>3. LastTo(e) # 0 /\ LastTo(e) \in 1 .. Len(letters)
    BY ONLY <1>2, <2>1, <2>2
  <2>4. LastTo(e) \in Mailed /\ letters[LastTo(e)].to = e
    BY <1>1, <1>2, <1>3, <2>3, CodeLast
  <2>5. LastTo(e) <= c
    BY <1>6, <2>4 DEF LastMailed
  <2>6. LastTo(e) = c
    BY ONLY <1>2, <2>1, <2>2, <2>5
  <2>. QED BY <1>1, <2>6
<1>7. StoredIsLast
  BY <1>6 DEF StoredIsLast
<1>. QED BY <1>4, <1>5, <1>7 DEF Kept

LEMMA KeptWorks == MailInv => MailedCodeWorks
<1>. SUFFICES ASSUME MailInv, ~disturbed, Quiet, NEW e \in Mailboxes, NEW c \in Mailed,
                     letters[c].to = e, letters[c].uses = 0,
                     \A d \in Mailed : letters[d].to = e => d <= c
              PROVE  otps[e] = c
  BY DEF MailedCodeWorks
<1>1. LastMailed(e, c) /\ Kept
  BY DEF LastMailed, MailInv
<1>2. \A w \in Workers : ~Sending(calls[w])
  BY IdleKnows DEF Quiet
<1>. QED BY <1>1, <1>2 DEF Kept, StoredIsLast

\* As long as nothing is disturbed, the last code that was mailed to an address
\* is in the table until it is used: no refused form, no later step of a send
\* and no other sign-up takes it away (auth.service.ts, sendRegisterOtp,
\* sendForgotPasswordOtp, sendPasswordOtp and the three calls that take a code).
THEOREM MailedCodeAlwaysWorks == Spec => []MailedCodeWorks
<1>1. MailInv /\ [Next]_vars => MailInv'
  BY NextMail
<1>. QED BY InitMail, <1>1, KeptWorks, PTL DEF Spec
=============================================================================
