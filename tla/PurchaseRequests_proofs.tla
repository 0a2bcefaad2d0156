---------------------- MODULE PurchaseRequests_proofs ----------------------
(***************************************************************************)
(* Theorems about PurchaseRequests, for every number of users, requests,   *)
(* coupons and overlapping calls.                                          *)
(***************************************************************************)
EXTENDS PurchaseRequests, FiniteSetTheorems, TLAPS

\* What a handler has read by the time it reaches a step.
CallOK(w) ==
    LET call == calls[w] IN
    /\ call.pc \in Creating \cup {"readPhone", "checkPhone", "writePhone"}
         => call.user \in Users /\ call.template \in Templates /\ call.phone \in Phones
    /\ call.pc \in {"readCoupon", "readUse", "writeCoupon"} => call.coupon \in Coupons
    /\ call.pc \in {"decide", "release", "markCancelled"}
         => call.req \in Requests /\ requests[call.req] \in Rows
    /\ call.pc = "decide" => call.target \in Statuses
    /\ call.pc = "release" => requests[call.req].coupon \in Coupons

CallsOK == \A w \in Workers : CallOK(w)

\* The types, and what the calls in progress rely on.
TypeInv == TypeOK /\ CallsOK
-----------------------------------------------------------------------------
LEMMA InitTypeInv == Init => TypeInv
  BY PRAssumption DEF Init, TypeInv, TypeOK, CallsOK, CallOK, Absent, Idle, NoEdit,
     NoCoupon, Calls, Steps, EditDtos, CouponRows, MaxUsesValues, Creating

LEMMA IdleType == Idle \in Calls /\ Idle.pc = "idle" /\ NoEdit \in EditDtos
  BY DEF Idle, Calls, Steps, EditDtos, NoEdit

\* The tables other than the calls in progress.
TablesOK ==
    /\ requests \in [Requests -> Rows \cup {Absent}]
    /\ purchases \subseteq Requests
    /\ coupons \in [Coupons -> CouponRows]
    /\ phone \in [Users -> Phones \cup {None}]
    /\ peak \in [Coupons -> MaxUsesValues]
    /\ failures \in Nat

\* No step removes a request or changes its coupon.
RowsKept == \A r \in Requests : requests[r] \in Rows =>
               requests'[r] \in Rows /\ requests'[r].coupon = requests[r].coupon

LEMMA SameRows == UNCHANGED requests => RowsKept
  BY DEF RowsKept

\* One call moves: it is enough to look at that call.
LEMMA StepCalls ==
  ASSUME TypeInv, TablesOK', RowsKept, NEW w \in Workers, NEW k \in Calls,
         calls' = [calls EXCEPT ![w] = k], CallOK(w)'
  PROVE  TypeInv'
<1>1. calls' \in [Workers -> Calls]
  BY DEF TypeInv, TypeOK
<1>2. ASSUME NEW v \in Workers, v # w PROVE CallOK(v)'
  <2>1. calls'[v] = calls[v]
    BY <1>2
  <2>. QED BY <2>1 DEF TypeInv, CallsOK, CallOK, RowsKept
<1>. QED BY <1>1, <1>2 DEF TypeInv, TypeOK, TablesOK, CallsOK

LEMMA ReturnCalls ==
  ASSUME TypeInv, TablesOK', RowsKept, NEW w \in Workers, Return(w)
  PROVE  TypeInv'
<1>1. calls'[w].pc = "idle"
  BY IdleType DEF Return, TypeInv, TypeOK
<1>2. CallOK(w)'
  BY <1>1 DEF CallOK, Creating
<1>. QED BY <1>2, IdleType, StepCalls DEF Return

LEMMA GotoCalls ==
  ASSUME TypeInv, TablesOK', RowsKept, NEW w \in Workers, NEW pc \in Steps, Goto(w, pc),
         calls'[w] = [calls[w] EXCEPT !.pc = pc] => CallOK(w)'
  PROVE  TypeInv'
<1>. DEFINE k == [calls[w] EXCEPT !.pc = pc]
<1>1. k \in Calls
  BY DEF TypeInv, TypeOK, Calls
<1>2. calls' = [calls EXCEPT ![w] = k] /\ calls'[w] = k
  BY DEF Goto, TypeInv, TypeOK
<1>. HIDE DEF k
<1>3. CallOK(w)'
  BY <1>2 DEF k
<1>. QED BY <1>1, <1>2, <1>3, StepCalls

LEMMA ReadUseCall ==
  ASSUME NEW call \in Calls, NEW full \in BOOLEAN,
         NEW k, k = [call EXCEPT !.pc = "readUse", !.full = full]
  PROVE  /\ k \in Calls /\ k.pc = "readUse" /\ k.coupon = call.coupon
         /\ k.user = call.user /\ k.template = call.template /\ k.phone = call.phone
  BY DEF Calls, Steps

LEMMA CouponCounted ==
  ASSUME coupons \in [Coupons -> CouponRows], NEW c \in Coupons
  PROVE  /\ [coupons EXCEPT ![c].used = coupons[c].used + 1] \in [Coupons -> CouponRows]
         /\ [coupons EXCEPT ![c].used = coupons[c].used - 1] \in [Coupons -> CouponRows]
<1>1. \A row \in CouponRows, n \in Int : [row EXCEPT !.used = n] \in CouponRows
  BY DEF CouponRows
<1>2. coupons[c].used \in Int
  BY DEF CouponRows
<1>. QED BY <1>1, <1>2

LEMMA CouponFlags ==
  ASSUME coupons \in [Coupons -> CouponRows], NEW c \in Coupons, NEW d \in BOOLEAN, NEW a \in BOOLEAN
  PROVE  [coupons EXCEPT ![c].deleted = d, ![c].active = a] \in [Coupons -> CouponRows]
<1>1. \A row \in CouponRows : [row EXCEPT !.deleted = d, !.active = a] \in CouponRows
  BY DEF CouponRows
<1>. QED BY <1>1

\* The steps that only read: the tables stay and the call goes on or ends.
LEMMA SameTables ==
  ASSUME TypeInv, UNCHANGED <<requests, purchases, coupons, phone, peak, failures>>
  PROVE  TablesOK' /\ RowsKept
  BY DEF TypeInv, TypeOK, TablesOK, RowsKept
-----------------------------------------------------------------------------
LEMMA CreateTypeInv ==
  ASSUME TypeInv, NEW w \in Workers, CreateNext(w) PROVE TypeInv'
<1>. USE PRAssumption
<1>1. ASSUME NEW u \in Users, NEW t \in Templates, NEW c \in Coupons \cup {None},
             NEW p \in Phones, CreateStart(w, u, t, c, p)
      PROVE TypeInv'
  <2>. DEFINE k == [Idle EXCEPT !.pc = IF c = None THEN "commit" ELSE "readCoupon",
                                !.user = u, !.template = t, !.coupon = c, !.phone = p]
  <2>1. /\ k \in Calls
        /\ k.user \in Users /\ k.template \in Templates /\ k.phone \in Phones
        /\ k.pc \in {"commit", "readCoupon"} /\ (k.pc = "readCoupon" => k.coupon \in Coupons)
    BY IdleType DEF Idle, Calls, Steps
  <2>2. calls' = [calls EXCEPT ![w] = k] /\ TablesOK' /\ RowsKept
    BY <1>1, SameTables DEF CreateStart
  <2>. HIDE DEF k
  <2>3. calls'[w] = k
    BY <2>2 DEF TypeInv, TypeOK
  <2>4. CallOK(w)'
    BY <2>1, <2>3 DEF CallOK
  <2>. QED BY <2>1, <2>2, <2>4, StepCalls
<1>2. CASE CreateReadCoupon(w)
  <2>. DEFINE c == calls[w].coupon
              k == [calls[w] EXCEPT !.pc = "readUse", !.full = coupons[c].full]
  <2>1. TablesOK' /\ RowsKept
    BY <1>2, SameTables DEF CreateReadCoupon
  <2>2. CASE Usable(c)
    <3>1. c \in Coupons /\ coupons[c].full \in BOOLEAN
      BY <1>2 DEF CreateReadCoupon, TypeInv, TypeOK, CallsOK, CallOK, CouponRows
    <3>2. /\ k \in Calls /\ k.pc = "readUse" /\ k.coupon = calls[w].coupon
          /\ k.user = calls[w].user /\ k.template = calls[w].template
          /\ k.phone = calls[w].phone
      <4>1. calls[w] \in Calls
        BY DEF TypeInv, TypeOK
      <4>2. k = [calls[w] EXCEPT !.pc = "readUse", !.full = coupons[c].full]
        OBVIOUS
      <4>. DEFINE full == coupons[c].full  call == calls[w]
      <4>3. call \in Calls /\ full \in BOOLEAN /\ k = [call EXCEPT !.pc = "readUse", !.full = full]
        BY <3>1, <4>1, <4>2
      <4>. HIDE DEF c, k, full, call
      <4>4. /\ k \in Calls /\ k.pc = "readUse" /\ k.coupon = call.coupon
            /\ k.user = call.user /\ k.template = call.template /\ k.phone = call.phone
        BY <4>3, ReadUseCall
      <4>. QED BY <4>4 DEF call
    <3>3. calls' = [calls EXCEPT ![w] = k]
      BY <1>2, <2>2 DEF CreateReadCoupon
    <3>. HIDE DEF k
    <3>4. calls'[w] = k
      BY <3>3 DEF TypeInv, TypeOK
    <3>5. CallOK(w)'
      BY <1>2, <3>1, <3>2, <3>4 DEF CreateReadCoupon, CallOK, TypeInv, CallsOK, Creating
    <3>. QED BY <2>1, <3>2, <3>3, <3>5, StepCalls
  <2>3. CASE ~Usable(c)
    BY <1>2, <2>1, <2>3, ReturnCalls DEF CreateReadCoupon
  <2>. QED BY <2>2, <2>3
<1>3. CASE CreateReadUse(w)
  <2>1. TablesOK' /\ RowsKept
    BY <1>3, SameTables DEF CreateReadUse
  <2>2. CASE Return(w)
    BY <2>1, <2>2, ReturnCalls
  <2>3. CASE Goto(w, "commit")
    <3>1. calls'[w] = [calls[w] EXCEPT !.pc = "commit"] => CallOK(w)'
      BY <1>3 DEF CreateReadUse, TypeInv, TypeOK, CallsOK, CallOK, Calls, Creating
    <3>. QED BY <2>1, <2>3, <3>1, GotoCalls DEF Steps
  <2>. QED BY <1>3, <2>2, <2>3 DEF CreateReadUse
<1>4. CASE CreateCommit(w)
  <2>. DEFINE call == calls[w]
  <2>1. /\ call.user \in Users /\ call.template \in Templates
        /\ call.coupon \in Coupons \cup {None}
    BY <1>4 DEF CreateCommit, TypeInv, TypeOK, CallsOK, CallOK, Calls, Creating
  <2>3. coupons' \in [Coupons -> CouponRows]
    <3>1. CASE call.coupon = None
      BY <1>4, <3>1 DEF CreateCommit, TypeInv, TypeOK
    <3>2. CASE call.coupon # None
      <4>1. coupons' = [coupons EXCEPT ![call.coupon].used = coupons[call.coupon].used + 1]
        BY <1>4, <3>2 DEF CreateCommit
      <4>2. call.coupon \in Coupons
        BY <2>1, <3>2
      <4>. HIDE DEF call
      <4>. QED BY <4>1, <4>2, CouponCounted DEF TypeInv, TypeOK
    <3>. QED BY <3>1, <3>2
  <2>4. PICK r \in FreshIds :
          /\ requests' = [requests EXCEPT ![r] =
                 [status |-> IF AutoApproved(call) THEN "APPROVED" ELSE "PENDING",
                  user |-> call.user, template |-> call.template, coupon |-> call.coupon]]
          /\ purchases' = Granted(r, AutoApproved(call))
    BY <1>4 DEF CreateCommit
  <2>5. r \in Requests /\ requests[r] \notin Rows
    BY DEF FreshIds, Rows, Statuses
  <2>6. [status |-> IF AutoApproved(call) THEN "APPROVED" ELSE "PENDING",
         user |-> call.user, template |-> call.template, coupon |-> call.coupon] \in Rows
    BY <2>1 DEF Rows, Statuses
  <2>7. requests' \in [Requests -> Rows \cup {Absent}] /\ RowsKept
    BY <2>4, <2>5, <2>6 DEF TypeInv, TypeOK, RowsKept
  <2>8. purchases' \subseteq Requests
    BY <2>4, <2>5 DEF Granted, TypeInv, TypeOK
  <2>9. TablesOK' /\ RowsKept
    BY <1>4, <2>3, <2>7, <2>8 DEF CreateCommit, TypeInv, TypeOK, TablesOK
  <2>2. calls'[w] = [calls[w] EXCEPT !.pc = "readPhone"] => CallOK(w)'
    BY <1>4 DEF CreateCommit, TypeInv, TypeOK, CallsOK, CallOK, Calls, Creating
  <2>. QED BY <1>4, <2>2, <2>9, GotoCalls DEF CreateCommit, Steps
<1>5. CASE ReadPhone(w)
  <2>1. TablesOK' /\ RowsKept
    BY <1>5, SameTables DEF ReadPhone
  <2>2. calls'[w] = [calls[w] EXCEPT !.pc = "checkPhone"] => CallOK(w)'
    BY <1>5 DEF ReadPhone, TypeInv, TypeOK, CallsOK, CallOK, Calls, Creating
  <2>. QED BY <1>5, <2>1, <2>2, GotoCalls, ReturnCalls DEF ReadPhone, Steps
<1>6. CASE CheckPhone(w)
  <2>1. TablesOK' /\ RowsKept
    BY <1>6, SameTables DEF CheckPhone
  <2>2. calls'[w] = [calls[w] EXCEPT !.pc = "writePhone"] => CallOK(w)'
    BY <1>6 DEF CheckPhone, TypeInv, TypeOK, CallsOK, CallOK, Calls, Creating
  <2>. QED BY <1>6, <2>1, <2>2, GotoCalls, ReturnCalls DEF CheckPhone, Steps
<1>7. CASE WritePhone(w)
  <2>1. TablesOK' /\ RowsKept
    BY <1>7 DEF WritePhone, TypeInv, TypeOK, CallsOK, CallOK, TablesOK, RowsKept
  <2>. QED BY <1>7, <2>1, ReturnCalls DEF WritePhone
<1>. QED BY <1>1, <1>2, <1>3, <1>4, <1>5, <1>6, <1>7 DEF CreateNext

LEMMA ReleasedType ==
  ASSUME TypeInv, NEW r \in Requests, requests[r] \in Rows
  PROVE  Released(r) \in [Coupons -> CouponRows]
<1>1. CASE requests[r].coupon = None
  BY <1>1 DEF Released, TypeInv, TypeOK
<1>2. CASE requests[r].coupon # None
  <2>. DEFINE c == requests[r].coupon
  <2>1. c \in Coupons
    BY <1>2 DEF Rows
  <2>2. Released(r) = [coupons EXCEPT ![c].used = coupons[c].used - 1]
    BY <1>2 DEF Released
  <2>. HIDE DEF c
  <2>. QED BY <2>1, <2>2, CouponCounted DEF TypeInv, TypeOK
<1>. QED BY <1>1, <1>2

LEMMA DecideTypeInv ==
  ASSUME TypeInv, NEW w \in Workers, DecideNext(w) PROVE TypeInv'
<1>. USE PRAssumption
<1>1. ASSUME NEW r \in Requests, NEW s \in Targets, UpdateRead(w, r, s) PROVE TypeInv'
  <2>. DEFINE k == [Idle EXCEPT !.pc = "decide", !.req = r, !.target = s]
  <2>1. k \in Calls /\ k.pc = "decide" /\ k.req = r /\ k.target = s /\ s \in Statuses
    BY IdleType DEF Idle, Calls, Steps
  <2>2. requests[r] \in Rows
    BY <1>1 DEF UpdateRead, TypeInv, TypeOK, Absent
  <2>3. calls' = [calls EXCEPT ![w] = k] /\ TablesOK' /\ RowsKept /\ UNCHANGED requests
    BY <1>1, SameTables DEF UpdateRead
  <2>. HIDE DEF k
  <2>4. calls'[w] = k
    BY <2>3 DEF TypeInv, TypeOK
  <2>5. CallOK(w)'
    BY <2>1, <2>2, <2>3, <2>4 DEF CallOK, Creating
  <2>. QED BY <2>1, <2>3, <2>5, StepCalls
<1>2. CASE UpdateCommit(w)
  <2>1. calls[w].req \in Requests /\ calls[w].target \in Statuses /\ requests[calls[w].req] \in Rows
    BY <1>2 DEF UpdateCommit, TypeInv, CallsOK, CallOK
  <2>2. requests' \in [Requests -> Rows \cup {Absent}] /\ RowsKept
    BY <1>2, <2>1 DEF UpdateCommit, TypeInv, TypeOK, RowsKept, Rows
  <2>3. coupons' \in [Coupons -> CouponRows]
    BY <1>2, <2>1, ReleasedType DEF UpdateCommit, TypeInv, TypeOK
  <2>5. purchases' \subseteq Requests
    BY <1>2, <2>1 DEF UpdateCommit, Granted, TypeInv, TypeOK
  <2>4. TablesOK'
    BY <1>2, <2>2, <2>3, <2>5 DEF UpdateCommit, TypeInv, TypeOK, TablesOK
  <2>. QED BY <1>2, <2>2, <2>4, ReturnCalls DEF UpdateCommit
<1>3. CASE UpdateRollback(w)
  BY <1>3, SameTables, ReturnCalls DEF UpdateRollback
<1>4. ASSUME NEW r \in Requests, CancelRead(w, r) PROVE TypeInv'
  <2>. DEFINE k == [Idle EXCEPT !.pc = IF requests[r].coupon = None THEN "markCancelled"
                                       ELSE "release", !.req = r]
  <2>1. requests[r] \in Rows
    BY <1>4 DEF CancelRead, TypeInv, TypeOK, Absent
  <2>2. /\ k \in Calls /\ k.pc \in {"markCancelled", "release"} /\ k.req = r
        /\ k.pc = "release" => requests[r].coupon \in Coupons
    BY <2>1, IdleType DEF Idle, Calls, Steps, Rows
  <2>3. calls' = [calls EXCEPT ![w] = k] /\ TablesOK' /\ RowsKept /\ UNCHANGED requests
    BY <1>4, SameTables DEF CancelRead
  <2>. HIDE DEF k
  <2>4. calls'[w] = k
    BY <2>3 DEF TypeInv, TypeOK
  <2>5. CallOK(w)'
    BY <2>1, <2>2, <2>3, <2>4 DEF CallOK, Creating
  <2>. QED BY <2>2, <2>3, <2>5, StepCalls
<1>5. CASE CancelRelease(w)
  <2>1. calls[w].req \in Requests /\ requests[calls[w].req] \in Rows
    BY <1>5 DEF CancelRelease, TypeInv, CallsOK, CallOK
  <2>2. coupons' \in [Coupons -> CouponRows]
    BY <1>5, <2>1, ReleasedType DEF CancelRelease
  <2>3. TablesOK' /\ RowsKept
    BY <1>5, <2>2 DEF CancelRelease, TypeInv, TypeOK, TablesOK, RowsKept
  <2>4. calls'[w] = [calls[w] EXCEPT !.pc = "markCancelled"] => CallOK(w)'
    BY <1>5, <2>1 DEF CancelRelease, TypeInv, TypeOK, CallOK, Calls, Creating
  <2>. QED BY <1>5, <2>3, <2>4, GotoCalls DEF CancelRelease, Steps
<1>6. CASE CancelWrite(w)
  <2>1. calls[w].req \in Requests /\ requests[calls[w].req] \in Rows
    BY <1>6 DEF CancelWrite, TypeInv, CallsOK, CallOK
  <2>2. TablesOK' /\ RowsKept
    BY <1>6, <2>1 DEF CancelWrite, TypeInv, TypeOK, TablesOK, RowsKept, Rows, Statuses
  <2>. QED BY <1>6, <2>2, ReturnCalls DEF CancelWrite
<1>. QED BY <1>1, <1>2, <1>3, <1>4, <1>5, <1>6 DEF DecideNext

LEMMA CouponTypeInv ==
  ASSUME TypeInv, NEW w \in Workers, CouponNext(w) PROVE TypeInv'
<1>. USE PRAssumption
<1>1. ASSUME NEW c \in Coupons, NEW e \in EditDtos, TablesOK', RowsKept,
             calls' = [calls EXCEPT ![w] =
                 [Idle EXCEPT !.pc = "writeCoupon", !.coupon = c, !.edit = e]]
      PROVE TypeInv'
  <2>. DEFINE k == [Idle EXCEPT !.pc = "writeCoupon", !.coupon = c, !.edit = e]
  <2>1. k \in Calls /\ k.pc = "writeCoupon" /\ k.coupon = c
    BY IdleType DEF Idle, Calls, Steps
  <2>2. calls' = [calls EXCEPT ![w] = k]
    BY <1>1
  <2>. HIDE DEF k
  <2>3. calls'[w] = k
    BY <2>2 DEF TypeInv, TypeOK
  <2>4. CallOK(w)'
    BY <2>1, <2>3 DEF CallOK, Creating
  <2>. QED BY <1>1, <2>1, <2>2, <2>4, StepCalls
<1>2. ASSUME NEW c \in Coupons, NEW e \in Edits, CouponUpdateRead(w, c, e) PROVE TypeInv'
  BY <1>1, <1>2, SameTables DEF CouponUpdateRead
<1>3. ASSUME NEW c \in Coupons, CouponToggleRead(w, c) PROVE TypeInv'
  <2>1. [NoEdit EXCEPT !.active = ~coupons[c].active] \in EditDtos
    BY DEF NoEdit, EditDtos
  <2>. QED BY <1>1, <1>3, <2>1, SameTables DEF CouponToggleRead
<1>4. CASE CouponWrite(w)
  <2>. DEFINE c == calls[w].coupon  e == calls[w].edit
  <2>1. c \in Coupons /\ e \in EditDtos
    BY <1>4 DEF CouponWrite, TypeInv, TypeOK, CallsOK, CallOK, Calls
  <2>2. coupons' \in [Coupons -> CouponRows]
    <3>1. PICK full \in BOOLEAN : full = Given(e.full, coupons[c].full)
      BY <2>1 DEF Given, TypeInv, TypeOK, CouponRows, EditDtos
    <3>2. PICK max \in MaxUsesValues : max = Given(e.max, coupons[c].max)
      BY <2>1 DEF Given, TypeInv, TypeOK, CouponRows, EditDtos
    <3>3. PICK active \in BOOLEAN : active = Given(e.active, coupons[c].active)
      BY <2>1 DEF Given, TypeInv, TypeOK, CouponRows, EditDtos
    <3>4. coupons \in [Coupons -> CouponRows]
      BY DEF TypeInv, TypeOK
    <3>5. coupons' = [coupons EXCEPT ![c].full = full, ![c].max = max, ![c].active = active]
      BY <1>4, <2>1, <3>1, <3>2, <3>3, <3>4 DEF CouponWrite, CouponRows
    <3>6. \A row \in CouponRows :
             [row EXCEPT !.full = full, !.max = max, !.active = active] \in CouponRows
      BY DEF CouponRows
    <3>. QED BY ONLY <2>1, <3>4, <3>5, <3>6
  <2>3. peak' \in [Coupons -> MaxUsesValues]
    BY <1>4, <2>1 DEF CouponWrite, Raised, TypeInv, TypeOK, EditDtos, MaxUsesValues
  <2>4. TablesOK' /\ RowsKept
    BY <1>4, <2>2, <2>3 DEF CouponWrite, TypeInv, TypeOK, TablesOK, RowsKept
  <2>. QED BY <1>4, <2>4, ReturnCalls DEF CouponWrite
<1>. QED BY <1>2, <1>3, <1>4 DEF CouponNext

LEMMA NextTypeInv == TypeInv /\ [Next]_vars => TypeInv'
<1> SUFFICES ASSUME TypeInv, [Next]_vars PROVE TypeInv'
  OBVIOUS
<1>1. CASE UNCHANGED vars
  BY <1>1 DEF vars, TypeInv, TypeOK, CallsOK, CallOK
<1>2. ASSUME NEW w \in Workers, Fail(w) PROVE TypeInv'
  <2>1. TablesOK' /\ RowsKept
    BY <1>2 DEF Fail, TypeInv, TypeOK, TablesOK, RowsKept
  <2>. QED BY <1>2, <2>1, ReturnCalls DEF Fail
<1>3. ASSUME NEW c \in Coupons, NEW dto \in NewCoupons, CouponCreate(c, dto) PROVE TypeInv'
  <2>1. dto \in NewCouponDtos
    BY PRAssumption
  <2>2. coupons' \in [Coupons -> CouponRows] /\ peak' \in [Coupons -> MaxUsesValues]
    BY <1>3, <2>1 DEF CouponCreate, NewCouponDtos, CouponRows, TypeInv, TypeOK
  <2>. QED BY <1>3, <2>2 DEF CouponCreate, TypeInv, TypeOK, CallsOK, CallOK
<1>4. ASSUME NEW c \in Coupons, CouponSoftDelete(c) \/ CouponRestore(c) PROVE TypeInv'
  <2>1. coupons \in [Coupons -> CouponRows]
    BY DEF TypeInv, TypeOK
  <2>2. PICK d \in BOOLEAN, a \in BOOLEAN :
           coupons' = [coupons EXCEPT ![c].deleted = d, ![c].active = a]
    BY <1>4 DEF CouponSoftDelete, CouponRestore
  <2>3. coupons' \in [Coupons -> CouponRows]
    BY ONLY <2>1, <2>2, CouponFlags
  <2>. QED BY <1>4, <2>3 DEF CouponSoftDelete, CouponRestore, TypeInv, TypeOK, CallsOK, CallOK
<1>. QED BY <1>1, <1>2, <1>3, <1>4, CreateTypeInv, DecideTypeInv, CouponTypeInv
         DEF Next, CouponAdmin

\* Every reachable state is well typed: TypeOK holds in all of them.
THEOREM TypeCorrect == Spec => []TypeOK
<1>1. TypeInv => TypeOK
  BY DEF TypeInv
<1>. QED BY <1>1, InitTypeInv, NextTypeInv, PTL DEF Spec
-----------------------------------------------------------------------------
(* Approvals and purchases *)

\* The steps that write purchase_requests or purchases.
LEMMA Writers ==
  ASSUME Next
  PROVE  \/ UNCHANGED <<requests, purchases>>
         \/ \E w \in Workers : CreateCommit(w) \/ UpdateCommit(w) \/ CancelWrite(w)
<1>1. ASSUME NEW w \in Workers, CreateNext(w), ~CreateCommit(w)
      PROVE UNCHANGED <<requests, purchases>>
  BY <1>1 DEF CreateNext, CreateStart, CreateReadCoupon, CreateReadUse, ReadPhone,
     CheckPhone, WritePhone
<1>2. ASSUME NEW w \in Workers, DecideNext(w), ~UpdateCommit(w), ~CancelWrite(w)
      PROVE UNCHANGED <<requests, purchases>>
  BY <1>2 DEF DecideNext, UpdateRead, UpdateRollback, CancelRead, CancelRelease
<1>3. ASSUME NEW w \in Workers, CouponNext(w) \/ Fail(w)
      PROVE UNCHANGED <<requests, purchases>>
  BY <1>3 DEF CouponNext, CouponUpdateRead, CouponToggleRead, CouponWrite, Fail
<1>4. CouponAdmin => UNCHANGED <<requests, purchases>>
  BY DEF CouponAdmin, CouponCreate, CouponSoftDelete, CouponRestore
<1>. QED BY <1>1, <1>2, <1>3, <1>4 DEF Next

\* A purchase belongs to a request that exists.
PurchasesHaveRows == \A r \in purchases : requests[r] \in Rows

AccessInv == TypeInv /\ ApprovedHasPurchase /\ PurchasesHaveRows

\* What the three writers do, in the words of the ledger.
LEMMA CommitAccess ==
  ASSUME TypeInv, NEW w \in Workers, CreateCommit(w)
  PROVE  \E r \in Requests, s \in {"APPROVED", "PENDING"} :
           /\ requests[r] = Absent
           /\ \E row \in Rows : row.status = s /\ requests' = [requests EXCEPT ![r] = row]
           /\ purchases' = IF s = "APPROVED" THEN purchases \cup {r} ELSE purchases
<1>. DEFINE call == calls[w]
            s == IF AutoApproved(call) THEN "APPROVED" ELSE "PENDING"
            row == [status |-> s, user |-> call.user, template |-> call.template,
                    coupon |-> call.coupon]
<1>1. row \in Rows /\ row.status = s /\ s \in {"APPROVED", "PENDING"}
  BY DEF CreateCommit, TypeInv, TypeOK, CallsOK, CallOK, Calls, Creating, Rows, Statuses
<1>2. PICK r \in FreshIds : /\ requests' = [requests EXCEPT ![r] = row]
                            /\ purchases' = Granted(r, AutoApproved(call))
  BY DEF CreateCommit
<1>3. r \in Requests /\ requests[r] = Absent
  BY DEF FreshIds, TypeInv, TypeOK, Rows, Statuses
<1>4. purchases' = IF s = "APPROVED" THEN purchases \cup {r} ELSE purchases
  BY <1>2 DEF Granted
<1>. HIDE DEF row, s
<1>. QED BY <1>1, <1>2, <1>3, <1>4

LEMMA DecideAccess ==
  ASSUME TypeInv, NEW w \in Workers, UpdateCommit(w) \/ CancelWrite(w)
  PROVE  \E r \in Requests, s \in Statuses :
           /\ requests[r] \in Rows
           /\ requests' = [requests EXCEPT ![r].status = s]
           /\ s = "APPROVED" => r \notin purchases
           /\ purchases' = IF s = "APPROVED" THEN purchases \cup {r} ELSE purchases
<1>1. CASE UpdateCommit(w)
  <2>1. calls[w].req \in Requests /\ calls[w].target \in Statuses /\ requests[calls[w].req] \in Rows
    BY <1>1 DEF UpdateCommit, TypeInv, CallsOK, CallOK
  <2>. QED BY <1>1, <2>1 DEF UpdateCommit, Granted, PurchaseConflict
<1>2. CASE CancelWrite(w)
  <2>1. calls[w].req \in Requests /\ requests[calls[w].req] \in Rows
    BY <1>2 DEF CancelWrite, TypeInv, CallsOK, CallOK
  <2>. QED BY <1>2, <2>1 DEF CancelWrite, Statuses
<1>. QED BY <1>1, <1>2

LEMMA InitAccessInv == Init => AccessInv
  BY InitTypeInv DEF Init, AccessInv, ApprovedHasPurchase, PurchasesHaveRows, Absent

LEMMA NextAccessInv == AccessInv /\ [Next]_vars => AccessInv'
<1> SUFFICES ASSUME AccessInv, [Next]_vars PROVE AccessInv'
  OBVIOUS
<1>1. TypeInv'
  BY NextTypeInv DEF AccessInv
<1>2. CASE UNCHANGED <<requests, purchases>>
  BY <1>1, <1>2 DEF AccessInv, ApprovedHasPurchase, PurchasesHaveRows
<1>3. ASSUME NEW w \in Workers, CreateCommit(w) PROVE AccessInv'
  <2>1. PICK r \in Requests, s \in {"APPROVED", "PENDING"} :
           /\ requests[r] = Absent
           /\ \E row \in Rows : row.status = s /\ requests' = [requests EXCEPT ![r] = row]
           /\ purchases' = IF s = "APPROVED" THEN purchases \cup {r} ELSE purchases
    BY <1>3, CommitAccess DEF AccessInv
  <2>. QED BY <1>1, <2>1 DEF AccessInv, TypeInv, TypeOK, ApprovedHasPurchase, PurchasesHaveRows
<1>4. ASSUME NEW w \in Workers, UpdateCommit(w) \/ CancelWrite(w) PROVE AccessInv'
  <2>1. PICK r \in Requests, s \in Statuses :
           /\ requests[r] \in Rows
           /\ requests' = [requests EXCEPT ![r].status = s]
           /\ purchases' = IF s = "APPROVED" THEN purchases \cup {r} ELSE purchases
    BY <1>4, DecideAccess DEF AccessInv
  <2>. QED BY <1>1, <2>1 DEF AccessInv, TypeInv, TypeOK, ApprovedHasPurchase, PurchasesHaveRows, Rows
<1>. QED BY <1>2, <1>3, <1>4, Writers DEF vars

\* Every approved request has its purchase, in every reachable state.
THEOREM ApprovedHasPurchaseAlways == Spec => []ApprovedHasPurchase
<1>1. AccessInv => ApprovedHasPurchase
  BY DEF AccessInv
<1>. QED BY <1>1, InitAccessInv, NextAccessInv, PTL DEF Spec

LEMMA LedgerInitially == Init => Ledger!LedgerInit
  BY DEF Init, Ledger!LedgerInit, Absent

LEMMA LedgerStep ==
  AccessInv /\ [Next]_vars
    => [Ledger!LedgerNext]_<<{r \in Requests : requests[r].status = "APPROVED"}, purchases>>
<1>. DEFINE approved == {r \in Requests : requests[r].status = "APPROVED"}
<1> SUFFICES ASSUME AccessInv, [Next]_vars
             PROVE  Ledger!LedgerNext \/ UNCHANGED <<approved, purchases>>
  OBVIOUS
<1>1. CASE UNCHANGED <<requests, purchases>>
  BY <1>1
<1>2. ASSUME NEW w \in Workers, CreateCommit(w)
      PROVE  Ledger!LedgerNext \/ UNCHANGED <<approved, purchases>>
  <2>1. PICK r \in Requests, s \in {"APPROVED", "PENDING"} :
           /\ requests[r] = Absent
           /\ \E row \in Rows : row.status = s /\ requests' = [requests EXCEPT ![r] = row]
           /\ purchases' = IF s = "APPROVED" THEN purchases \cup {r} ELSE purchases
    BY <1>2, CommitAccess DEF AccessInv
  <2>2. requests[r].status = "ABSENT" /\ r \notin purchases
    BY <2>1 DEF Absent, AccessInv, PurchasesHaveRows, Rows, Statuses
  <2>3. approved' = IF s = "APPROVED" THEN approved \cup {r} ELSE approved
    BY <2>1, <2>2 DEF AccessInv, TypeInv, TypeOK
  <2>. QED BY <2>1, <2>2, <2>3 DEF Ledger!LedgerNext, Ledger!Approve
<1>3. ASSUME NEW w \in Workers, UpdateCommit(w) \/ CancelWrite(w)
      PROVE  Ledger!LedgerNext \/ UNCHANGED <<approved, purchases>>
  <2>1. PICK r \in Requests, s \in Statuses :
           /\ requests[r] \in Rows
           /\ requests' = [requests EXCEPT ![r].status = s]
           /\ s = "APPROVED" => r \notin purchases
           /\ purchases' = IF s = "APPROVED" THEN purchases \cup {r} ELSE purchases
    BY <1>3, DecideAccess DEF AccessInv
  <2>2. approved' = IF s = "APPROVED" THEN approved \cup {r} ELSE approved \ {r}
    BY <2>1 DEF AccessInv, TypeInv, TypeOK, Rows
  <2>. QED BY <2>1, <2>2 DEF Ledger!LedgerNext, Ledger!Approve, Ledger!Overwrite
<1>. QED BY <1>1, <1>2, <1>3, Writers DEF vars

\* The purchase requests implement the ledger: one approval per request, in
\* one step with its purchase, which is never taken back.
THEOREM LedgerImplemented == Spec => ImplementsLedger
<1>. DEFINE approved == {r \in Requests : requests[r].status = "APPROVED"}
<1>. QED BY InitAccessInv, NextAccessInv, LedgerInitially, LedgerStep, PTL
         DEF Spec, ImplementsLedger, Ledger!LedgerSpec
-----------------------------------------------------------------------------
(* Coupon limits *)

\* The limit in force is never above the largest one so far.
PeakOK == \A c \in Coupons : coupons[c].exists /\ peak[c] # NoLimit =>
              coupons[c].max # NoLimit /\ coupons[c].max <= peak[c]

CouponInv == TypeInv /\ PeakOK /\ CouponOvershootBounded

Bound(c) == coupons[c].used + Cardinality(CallsPastLimitCheck(c))
              <= peak[c] + Cardinality(Workers) - 1

LEMMA PastFinite ==
  ASSUME NEW c \in Coupons
  PROVE  /\ IsFiniteSet(CallsPastLimitCheck(c))
         /\ Cardinality(CallsPastLimitCheck(c)) \in Nat
         /\ Cardinality(Workers) \in Nat
         /\ Cardinality(CallsPastLimitCheck(c)) <= Cardinality(Workers)
<1>1. CallsPastLimitCheck(c) \subseteq Workers
  BY DEF CallsPastLimitCheck
<1>. QED BY <1>1, WorkersAssumption, FS_Subset, FS_CardinalityType

\* The same in the next state.
LEMMA PastFiniteNext ==
  ASSUME NEW c \in Coupons
  PROVE  /\ IsFiniteSet(CallsPastLimitCheck(c)')
         /\ Cardinality(CallsPastLimitCheck(c)') \in Nat
         /\ Cardinality(CallsPastLimitCheck(c)') <= Cardinality(Workers)
<1>1. CallsPastLimitCheck(c)' \subseteq Workers
  BY DEF CallsPastLimitCheck
<1>. QED BY <1>1, WorkersAssumption, FS_Subset, FS_CardinalityType

LEMMA CouponTypes ==
  ASSUME TypeInv, NEW c \in Coupons
  PROVE  /\ coupons[c].used \in Int /\ peak[c] \in Limits \cup {NoLimit}
         /\ coupons[c].max \in Limits \cup {NoLimit}
  BY DEF TypeInv, TypeOK, CouponRows, MaxUsesValues

LEMMA Reflexive ==
  ASSUME TypeInv, NEW c \in Coupons, peak[c] # NoLimit
  PROVE  peak[c] <= peak[c] /\ coupons[c].used <= coupons[c].used
<1>1. peak[c] \in Nat /\ coupons[c].used \in Int
  BY CouponTypes, PRAssumption
<1>. QED BY <1>1

\* A step that counts no use, lets no call past the check and lowers no peak.
Relaxed(c) ==
    /\ CallsPastLimitCheck(c)' \subseteq CallsPastLimitCheck(c)
    /\ coupons'[c].exists => coupons[c].exists
    /\ coupons'[c].used <= coupons[c].used
    /\ peak'[c] # NoLimit => peak[c] # NoLimit /\ peak[c] <= peak'[c]

LEMMA RelaxedKeepsBound ==
  ASSUME TypeInv, TypeInv', CouponOvershootBounded, NEW c \in Coupons, Relaxed(c),
         coupons'[c].exists, peak'[c] # NoLimit
  PROVE  Bound(c)'
<1>1. Bound(c)
  BY DEF Relaxed, CouponOvershootBounded, Bound
<1>2. Cardinality(CallsPastLimitCheck(c)') <= Cardinality(CallsPastLimitCheck(c))
  BY PastFinite, FS_Subset DEF Relaxed
<1>3. peak[c] \in Nat /\ peak'[c] \in Nat /\ coupons[c].used \in Int /\ coupons'[c].used \in Int
  BY PRAssumption DEF Relaxed, TypeInv, TypeOK, CouponRows, MaxUsesValues
<1>. QED BY <1>1, <1>2, <1>3, PastFinite, PastFiniteNext DEF Bound, Relaxed

\* A call that ends, or moves to a step outside readUse and commit, leaves the set.
LEMMA LeavesPast ==
  ASSUME TypeInv, NEW w \in Workers, NEW k, calls' = [calls EXCEPT ![w] = k],
         NEW c \in Coupons, k.pc \in {"readUse", "commit"} => k.coupon # c
  PROVE  CallsPastLimitCheck(c)' \subseteq CallsPastLimitCheck(c) \ {w}
  BY DEF CallsPastLimitCheck, TypeInv, TypeOK

LEMMA ReturnLeaves ==
  ASSUME TypeInv, NEW w \in Workers, Return(w), NEW c \in Coupons
  PROVE  CallsPastLimitCheck(c)' \subseteq CallsPastLimitCheck(c) \ {w}
  BY IdleType, LeavesPast DEF Return

LEMMA GotoLeaves ==
  ASSUME TypeInv, NEW w \in Workers, NEW pc \in Steps \ {"readUse", "commit"}, Goto(w, pc),
         NEW c \in Coupons
  PROVE  CallsPastLimitCheck(c)' \subseteq CallsPastLimitCheck(c) \ {w}
<1>. DEFINE k == [calls[w] EXCEPT !.pc = pc]
<1>1. k.pc = pc
  BY DEF TypeInv, TypeOK, Calls
<1>2. calls' = [calls EXCEPT ![w] = k]
  BY DEF Goto
<1>. HIDE DEF k
<1>. QED BY <1>1, <1>2, LeavesPast

\* Steps that leave the coupons alone and let no call past the check.
LEMMA SameCoupons ==
  ASSUME CouponInv, TypeInv', UNCHANGED <<coupons, peak>>,
         \A c \in Coupons : CallsPastLimitCheck(c)' \subseteq CallsPastLimitCheck(c)
  PROVE  CouponInv'
<1>1. PeakOK'
  BY DEF CouponInv, PeakOK
<1>2. ASSUME NEW c \in Coupons, coupons'[c].exists, peak'[c] # NoLimit PROVE Bound(c)'
  <2>1. coupons[c].used <= coupons[c].used /\ peak[c] # NoLimit /\ peak[c] <= peak[c]
    BY <1>2, Reflexive DEF CouponInv
  <2>2. Relaxed(c)
    BY <2>1 DEF Relaxed
  <2>. QED BY <1>2, <2>2, RelaxedKeepsBound DEF CouponInv
<1>. QED BY <1>1, <1>2 DEF CouponInv, CouponOvershootBounded, Bound

\* The limit check: below the limit, there is room for every call in progress.
LEMMA ReadCouponInv ==
  ASSUME CouponInv, TypeInv', NEW w \in Workers, CreateReadCoupon(w) PROVE CouponInv'
<1>. DEFINE d == calls[w].coupon
<1>1. UNCHANGED <<coupons, peak>>
  BY DEF CreateReadCoupon
<1>2. CASE ~Usable(d)
  <2>1. Return(w)
    BY <1>2 DEF CreateReadCoupon
  <2>. QED BY <1>1, <2>1, ReturnLeaves, SameCoupons DEF CouponInv
<1>3. CASE Usable(d)
  <2>1. PeakOK'
    BY <1>1 DEF CouponInv, PeakOK
  <2>2. ASSUME NEW c \in Coupons, coupons'[c].exists, peak'[c] # NoLimit PROVE Bound(c)'
    <3>1. CASE c = d
      <4>1. coupons[c].max # NoLimit /\ coupons[c].max <= peak[c] /\ coupons[c].used < coupons[c].max
        <5>1. coupons[c].max # NoLimit /\ coupons[c].max <= peak[c]
          BY <1>1, <2>2 DEF CouponInv, PeakOK
        <5>2. ~(coupons[c].used >= coupons[c].max)
          BY <1>3, <3>1, <5>1 DEF Usable, LimitReached
        <5>3. coupons[c].max \in Nat /\ coupons[c].used \in Int
          BY <5>1, CouponTypes, PRAssumption DEF CouponInv
        <5>. QED BY <5>1, <5>2, <5>3
      <4>2. coupons[c].used \in Int /\ coupons[c].max \in Nat /\ peak[c] \in Nat
        BY <1>1, <2>2, <4>1, CouponTypes, PRAssumption DEF CouponInv
      <4>. QED BY <1>1, <4>1, <4>2, PastFinite, PastFiniteNext DEF Bound
    <3>2. CASE c # d
      <4>1. /\ \A v \in Workers : v # w => calls'[v] = calls[v]
            /\ calls'[w].coupon = d
        BY <1>3 DEF CreateReadCoupon, CouponInv, TypeInv, TypeOK, Calls
      <4>2. CallsPastLimitCheck(c)' \subseteq CallsPastLimitCheck(c)
        BY <3>2, <4>1 DEF CallsPastLimitCheck
      <4>3. coupons[c].used <= coupons[c].used /\ peak[c] # NoLimit /\ peak[c] <= peak[c]
        BY <1>1, <2>2, Reflexive DEF CouponInv
      <4>4. Relaxed(c)
        BY <1>1, <4>2, <4>3 DEF Relaxed
      <4>. QED BY <2>2, <4>4, RelaxedKeepsBound DEF CouponInv
    <3>. QED BY <3>1, <3>2
  <2>. QED BY <2>1, <2>2 DEF CouponInv, CouponOvershootBounded, Bound
<1>. QED BY <1>2, <1>3

LEMMA ReadUseInv ==
  ASSUME CouponInv, TypeInv', NEW w \in Workers, CreateReadUse(w) PROVE CouponInv'
<1>1. UNCHANGED <<coupons, peak>> /\ calls[w].pc = "readUse"
  BY DEF CreateReadUse
<1>2. CASE Return(w)
  BY <1>1, <1>2, ReturnLeaves, SameCoupons DEF CouponInv
<1>3. CASE Goto(w, "commit")
  <2>1. ASSUME NEW c \in Coupons PROVE CallsPastLimitCheck(c)' \subseteq CallsPastLimitCheck(c)
    BY <1>1, <1>3 DEF Goto, CallsPastLimitCheck, CouponInv, TypeInv, TypeOK, Calls
  <2>. QED BY <1>1, <2>1, SameCoupons
<1>. QED BY <1>2, <1>3 DEF CreateReadUse

\* The commit turns a call past the check into a counted use.
LEMMA CommitInv ==
  ASSUME CouponInv, TypeInv', NEW w \in Workers, CreateCommit(w) PROVE CouponInv'
<1>. DEFINE d == calls[w].coupon
<1>1. /\ coupons' = IF d = None THEN coupons ELSE [coupons EXCEPT ![d].used = @ + 1]
      /\ UNCHANGED peak /\ Goto(w, "readPhone") /\ calls[w].pc = "commit"
  BY DEF CreateCommit
<1>2. \A c \in Coupons : /\ coupons'[c].exists = coupons[c].exists
                         /\ coupons'[c].max = coupons[c].max
                         /\ coupons'[c].used = IF c = d THEN coupons[c].used + 1 ELSE coupons[c].used
  BY <1>1, PRAssumption DEF CouponInv, TypeInv, TypeOK, CouponRows
<1>3. PeakOK'
  BY <1>1, <1>2 DEF CouponInv, PeakOK
<1>4. ASSUME NEW c \in Coupons, coupons'[c].exists, peak'[c] # NoLimit PROVE Bound(c)'
  <2>1. CallsPastLimitCheck(c)' \subseteq CallsPastLimitCheck(c) \ {w}
    BY <1>1, GotoLeaves DEF CouponInv, Steps
  <2>2. coupons[c].used \in Int /\ peak[c] \in Nat
    BY <1>1, <1>4, CouponTypes, PRAssumption DEF CouponInv
  <2>3. CASE c = d
    <3>1. w \in CallsPastLimitCheck(c)
      BY <1>1, <2>3 DEF CallsPastLimitCheck
    <3>2. /\ IsFiniteSet(CallsPastLimitCheck(c) \ {w})
          /\ Cardinality(CallsPastLimitCheck(c) \ {w}) = Cardinality(CallsPastLimitCheck(c)) - 1
      BY <3>1, PastFinite, FS_RemoveElement
    <3>3. Cardinality(CallsPastLimitCheck(c)') <= Cardinality(CallsPastLimitCheck(c)) - 1
      BY <2>1, <3>2, FS_Subset
    <3>4. Bound(c)
      BY <1>1, <1>2, <1>4 DEF CouponInv, CouponOvershootBounded, Bound
    <3>. QED BY <1>1, <1>2, <2>2, <2>3, <3>3, <3>4, PastFinite, PastFiniteNext DEF Bound
  <2>4. CASE c # d
    <3>1. coupons[c].used <= coupons[c].used /\ peak[c] <= peak[c]
      BY <2>2
    <3>2. Relaxed(c)
      BY <1>1, <1>2, <1>4, <2>1, <2>4, <3>1 DEF Relaxed
    <3>. QED BY <1>4, <3>2, RelaxedKeepsBound DEF CouponInv
  <2>. QED BY <2>3, <2>4
<1>. QED BY <1>3, <1>4 DEF CouponInv, CouponOvershootBounded, Bound

\* Giving a use back.
LEMMA ReleaseInv ==
  ASSUME CouponInv, TypeInv', NEW w \in Workers, UpdateCommit(w) \/ CancelRelease(w)
  PROVE  CouponInv'
<1>. DEFINE d == requests[calls[w].req].coupon
<1>1. UNCHANGED peak /\ (coupons' = coupons \/ coupons' = Released(calls[w].req))
  BY DEF UpdateCommit, CancelRelease
<1>2. \A c \in Coupons : /\ coupons'[c].exists = coupons[c].exists
                         /\ coupons'[c].max = coupons[c].max
                         /\ coupons'[c].used <= coupons[c].used
  <2>1. \A c \in Coupons : coupons[c].used \in Int
    BY CouponTypes DEF CouponInv
  <2>2. \/ coupons' = coupons
        \/ coupons' = [coupons EXCEPT ![d].used = coupons[d].used - 1]
    BY <1>1 DEF Released
  <2>. HIDE DEF d
  <2>. QED BY <2>1, <2>2 DEF CouponInv, TypeInv, TypeOK, CouponRows
<1>3. \A c \in Coupons : CallsPastLimitCheck(c)' \subseteq CallsPastLimitCheck(c)
  BY ReturnLeaves, GotoLeaves DEF UpdateCommit, CancelRelease, CouponInv, Steps
<1>4. PeakOK'
  BY <1>1, <1>2 DEF CouponInv, PeakOK
<1>5. ASSUME NEW c \in Coupons, coupons'[c].exists, peak'[c] # NoLimit PROVE Bound(c)'
  <2>1. peak[c] <= peak[c]
    BY <1>1, <1>5, Reflexive DEF CouponInv
  <2>2. Relaxed(c)
    BY <1>1, <1>2, <1>3, <1>5, <2>1 DEF Relaxed
  <2>. QED BY <1>5, <2>2, RelaxedKeepsBound DEF CouponInv
<1>. QED BY <1>4, <1>5 DEF CouponInv, CouponOvershootBounded, Bound

LEMMA CouponWriteInv ==
  ASSUME CouponInv, TypeInv', NEW w \in Workers, CouponWrite(w) PROVE CouponInv'
<1>. DEFINE d == calls[w].coupon  e == calls[w].edit
<1>1. d \in Coupons /\ e.max \in Limits \cup {NoLimit, None}
  BY DEF CouponWrite, CouponInv, TypeInv, TypeOK, CallsOK, CallOK, Calls, EditDtos, MaxUsesValues
<1>2. \A c \in Coupons :
        /\ coupons'[c].exists = coupons[c].exists
        /\ coupons'[c].used = coupons[c].used
        /\ coupons'[c].max = IF c = d THEN Given(e.max, coupons[c].max) ELSE coupons[c].max
        /\ peak'[c] = IF c = d /\ e.max # None THEN Raised(peak[c], e.max) ELSE peak[c]
  BY <1>1 DEF CouponWrite, CouponInv, TypeInv, TypeOK, CouponRows
<1>3. \A c \in Coupons : CallsPastLimitCheck(c)' \subseteq CallsPastLimitCheck(c)
  BY ReturnLeaves DEF CouponWrite, CouponInv
<1>. HIDE DEF d, e
<1>4. ASSUME NEW c \in Coupons, coupons'[c].exists, peak'[c] # NoLimit
      PROVE  /\ peak[c] # NoLimit /\ peak[c] <= peak'[c]
             /\ coupons'[c].max # NoLimit /\ coupons'[c].max <= peak'[c]
  <2>1. peak[c] # NoLimit /\ coupons[c].exists
    BY <1>2, <1>4 DEF Raised
  <2>2. coupons[c].max # NoLimit /\ coupons[c].max <= peak[c]
    BY <2>1 DEF CouponInv, PeakOK
  <2>3. peak[c] \in Nat /\ coupons[c].max \in Nat
    BY <2>1, <2>2, CouponTypes, PRAssumption DEF CouponInv
  <2>4. CASE c = d /\ e.max # None
    <3>1. peak'[c] = Raised(peak[c], e.max) /\ coupons'[c].max = e.max
      BY <1>2, <2>4 DEF Given
    <3>2. e.max # NoLimit
      BY <1>4, <3>1 DEF Raised
    <3>3. e.max \in Nat
      BY <1>1, <2>4, <3>2, PRAssumption
    <3>4. peak'[c] = IF e.max > peak[c] THEN e.max ELSE peak[c]
      BY <2>1, <3>1, <3>2 DEF Raised
    <3>. QED BY <2>1, <2>3, <3>1, <3>2, <3>3, <3>4
  <2>5. CASE c # d \/ e.max = None
    <3>1. peak'[c] = peak[c] /\ coupons'[c].max = coupons[c].max
      BY <1>2, <2>5 DEF Given
    <3>. QED BY <2>1, <2>2, <2>3, <3>1
  <2>. QED BY <2>4, <2>5
<1>5. PeakOK'
  BY <1>4 DEF PeakOK
<1>6. ASSUME NEW c \in Coupons, coupons'[c].exists, peak'[c] # NoLimit PROVE Bound(c)'
  <2>1. peak[c] # NoLimit /\ coupons[c].used <= coupons[c].used
    BY <1>4, <1>6, Reflexive DEF CouponInv
  <2>2. Relaxed(c)
    BY <1>2, <1>3, <1>4, <1>6, <2>1 DEF Relaxed
  <2>. QED BY <1>6, <2>2, RelaxedKeepsBound DEF CouponInv
<1>. QED BY <1>5, <1>6 DEF CouponInv, CouponOvershootBounded, Bound

LEMMA CouponAdminInv ==
  ASSUME CouponInv, TypeInv', CouponAdmin PROVE CouponInv'
<1>1. UNCHANGED calls
  BY DEF CouponAdmin, CouponCreate, CouponSoftDelete, CouponRestore
<1>2. \A c \in Coupons : CallsPastLimitCheck(c)' = CallsPastLimitCheck(c)
  BY <1>1 DEF CallsPastLimitCheck
<1>3. ASSUME NEW d \in Coupons, NEW dto \in NewCoupons, CouponCreate(d, dto) PROVE CouponInv'
  <2>1. dto.max \in Limits \cup {NoLimit}
    BY PRAssumption DEF NewCouponDtos, MaxUsesValues
  <2>2. \A c \in Coupons :
          /\ c # d => coupons'[c] = coupons[c] /\ peak'[c] = peak[c]
          /\ c = d => coupons'[c].max = dto.max /\ coupons'[c].used = 0 /\ peak'[c] = dto.max
    BY <1>3 DEF CouponCreate, CouponInv, TypeInv, TypeOK
  <2>3. ASSUME NEW c \in Coupons, coupons'[c].exists, peak'[c] # NoLimit
        PROVE  coupons'[c].max # NoLimit /\ coupons'[c].max <= peak'[c] /\ Bound(c)'
    <3>1. CASE c = d
      <4>1. peak'[c] \in Nat \ {0} /\ coupons'[c].max = peak'[c] /\ coupons'[c].used = 0
        BY <2>1, <2>2, <2>3, <3>1, PRAssumption
      <4>. QED BY <2>3, <4>1, PastFinite, PastFiniteNext DEF Bound
    <3>2. CASE c # d
      <4>1. coupons[c].exists /\ peak[c] # NoLimit /\ Bound(c)
        BY <2>2, <2>3, <3>2 DEF CouponInv, CouponOvershootBounded, Bound
      <4>. QED BY <1>2, <2>2, <3>2, <4>1 DEF Bound, CouponInv, PeakOK
    <3>. QED BY <3>1, <3>2
  <2>. QED BY <2>3 DEF CouponInv, PeakOK, CouponOvershootBounded, Bound
<1>4. ASSUME NEW d \in Coupons, CouponSoftDelete(d) \/ CouponRestore(d) PROVE CouponInv'
  <2>1. /\ UNCHANGED peak
        /\ \A c \in Coupons : /\ coupons'[c].exists = coupons[c].exists
                              /\ coupons'[c].max = coupons[c].max
                              /\ coupons'[c].used = coupons[c].used
    BY <1>4 DEF CouponSoftDelete, CouponRestore, CouponInv, TypeInv, TypeOK, CouponRows
  <2>. QED BY <1>2, <2>1 DEF CouponInv, PeakOK, CouponOvershootBounded
<1>. QED BY <1>3, <1>4 DEF CouponAdmin

LEMMA InitCouponInv == Init => CouponInv
  BY InitTypeInv DEF Init, CouponInv, PeakOK, CouponOvershootBounded, NoCoupon

LEMMA NextCouponInv == CouponInv /\ [Next]_vars => CouponInv'
<1> SUFFICES ASSUME CouponInv, [Next]_vars PROVE CouponInv'
  OBVIOUS
<1>. TypeInv'
  BY NextTypeInv DEF CouponInv
<1>1. CASE UNCHANGED vars
  <2>1. \A c \in Coupons : CallsPastLimitCheck(c)' = CallsPastLimitCheck(c)
    BY <1>1 DEF vars, CallsPastLimitCheck
  <2>. QED BY <1>1, <2>1, SameCoupons DEF vars
<1>2. ASSUME NEW w \in Workers, CreateNext(w) PROVE CouponInv'
  <2>1. ASSUME NEW u \in Users, NEW t \in Templates, NEW c \in Coupons \cup {None},
               NEW p \in Phones, CreateStart(w, u, t, c, p)
        PROVE CouponInv'
    <3>. DEFINE k == [Idle EXCEPT !.pc = IF c = None THEN "commit" ELSE "readCoupon",
                                  !.user = u, !.template = t, !.coupon = c, !.phone = p]
    <3>1. \A d \in Coupons : k.pc \in {"readUse", "commit"} => k.coupon # d
      BY PRAssumption DEF Idle
    <3>2. calls' = [calls EXCEPT ![w] = k] /\ UNCHANGED <<coupons, peak>>
      BY <2>1 DEF CreateStart
    <3>. HIDE DEF k
    <3>. QED BY <3>1, <3>2, LeavesPast, SameCoupons DEF CouponInv
  <2>2. CASE ReadPhone(w)
    <3>1. UNCHANGED <<coupons, peak>> /\ (Return(w) \/ Goto(w, "checkPhone"))
      BY <2>2 DEF ReadPhone
    <3>. QED BY <3>1, ReturnLeaves, GotoLeaves, SameCoupons DEF CouponInv, Steps
  <2>3. CASE CheckPhone(w)
    <3>1. UNCHANGED <<coupons, peak>> /\ (Return(w) \/ Goto(w, "writePhone"))
      BY <2>3 DEF CheckPhone
    <3>. QED BY <3>1, ReturnLeaves, GotoLeaves, SameCoupons DEF CouponInv, Steps
  <2>4. CASE WritePhone(w)
    BY <2>4, ReturnLeaves, SameCoupons DEF WritePhone, CouponInv
  <2>. QED BY <1>2, <2>1, <2>2, <2>3, <2>4, ReadCouponInv, ReadUseInv, CommitInv DEF CreateNext
<1>3. ASSUME NEW w \in Workers, DecideNext(w) PROVE CouponInv'
  <2>1. ASSUME NEW r \in Requests, NEW s \in Targets, UpdateRead(w, r, s) PROVE CouponInv'
    <3>. DEFINE k == [Idle EXCEPT !.pc = "decide", !.req = r, !.target = s]
    <3>1. k.pc \notin {"readUse", "commit"}
      BY DEF Idle
    <3>2. calls' = [calls EXCEPT ![w] = k] /\ UNCHANGED <<coupons, peak>>
      BY <2>1 DEF UpdateRead
    <3>. HIDE DEF k
    <3>. QED BY <3>1, <3>2, LeavesPast, SameCoupons DEF CouponInv
  <2>2. ASSUME NEW r \in Requests, CancelRead(w, r) PROVE CouponInv'
    <3>. DEFINE k == [Idle EXCEPT !.pc = IF requests[r].coupon = None THEN "markCancelled"
                                         ELSE "release", !.req = r]
    <3>1. k.pc \notin {"readUse", "commit"}
      BY DEF Idle
    <3>2. calls' = [calls EXCEPT ![w] = k] /\ UNCHANGED <<coupons, peak>>
      BY <2>2 DEF CancelRead
    <3>. HIDE DEF k
    <3>. QED BY <3>1, <3>2, LeavesPast, SameCoupons DEF CouponInv
  <2>3. CASE UpdateRollback(w)
    BY <2>3, ReturnLeaves, SameCoupons DEF UpdateRollback, CouponInv
  <2>4. CASE CancelWrite(w)
    BY <2>4, ReturnLeaves, SameCoupons DEF CancelWrite, CouponInv
  <2>. QED BY <1>3, <2>1, <2>2, <2>3, <2>4, ReleaseInv DEF DecideNext
<1>4. ASSUME NEW w \in Workers, CouponNext(w) PROVE CouponInv'
  <2>1. ASSUME NEW k, k.pc = "writeCoupon", calls' = [calls EXCEPT ![w] = k],
               UNCHANGED <<coupons, peak>>
        PROVE CouponInv'
    BY <2>1, LeavesPast, SameCoupons DEF CouponInv
  <2>2. ASSUME NEW c \in Coupons, NEW e, calls' = [calls EXCEPT ![w] =
                 [Idle EXCEPT !.pc = "writeCoupon", !.coupon = c, !.edit = e]],
               UNCHANGED <<coupons, peak>>
        PROVE CouponInv'
    <3>. DEFINE k == [Idle EXCEPT !.pc = "writeCoupon", !.coupon = c, !.edit = e]
    <3>1. k.pc = "writeCoupon"
      BY DEF Idle
    <3>2. calls' = [calls EXCEPT ![w] = k]
      BY <2>2
    <3>. HIDE DEF k
    <3>. QED BY <2>1, <2>2, <3>1, <3>2
  <2>3. ASSUME NEW c \in Coupons, NEW e \in Edits, CouponUpdateRead(w, c, e) PROVE CouponInv'
    BY <2>2, <2>3 DEF CouponUpdateRead
  <2>4. ASSUME NEW c \in Coupons, CouponToggleRead(w, c) PROVE CouponInv'
    BY <2>2, <2>4 DEF CouponToggleRead
  <2>. QED BY <1>4, <2>3, <2>4, CouponWriteInv DEF CouponNext
<1>5. ASSUME NEW w \in Workers, Fail(w) PROVE CouponInv'
  BY <1>5, ReturnLeaves, SameCoupons DEF Fail, CouponInv
<1>. QED BY <1>1, <1>2, <1>3, <1>4, <1>5, CouponAdminInv DEF Next

\* However many calls overlap, a coupon is used at most once per other call in
\* progress more often than its limit ever allowed.
THEOREM CouponOvershootAlwaysBounded == Spec => []CouponOvershootBounded
<1>1. CouponInv => CouponOvershootBounded
  BY DEF CouponInv
<1>. QED BY <1>1, InitCouponInv, NextCouponInv, PTL DEF Spec
=============================================================================
