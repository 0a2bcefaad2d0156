------------------------ MODULE SerialRequests_proofs ------------------------
(***************************************************************************)
(* What PurchaseRequests promises when calls do not overlap, that is, with *)
(* one worker: for every number of users, requests and coupons, and while  *)
(* an administrator creates, deletes and restores coupons at any moment.   *)
(* The theorems that do not say otherwise allow calls that die.            *)
(***************************************************************************)
EXTENDS PurchaseRequests_proofs

OneWorker == \A v, w \in Workers : v = w

\* What a call alone has read still holds when it uses it.
ReadHolds(w) ==
    LET call == calls[w] IN
    /\ call.pc \in {"decide", "release", "markCancelled"}
         => requests[call.req].status = "PENDING"
    /\ call.pc = "decide" => call.target \in Targets
    /\ call.pc \in {"checkPhone", "writePhone"} => phone[call.user] = None
    /\ call.pc \in {"readUse", "commit"} /\ call.coupon # None
         => coupons[call.coupon].exists /\ ~LimitReached(call.coupon)
    /\ call.pc = "writeCoupon" => LimitAllowed(call.coupon, call.edit.max)

ReadsHold == \A w \in Workers : ReadHolds(w)

SerialInv == TypeInv /\ ReadsHold /\ CouponWithinLimit

\* A coupon that requests name exists.
NamedCouponsExist ==
    \A r \in Requests : requests[r].coupon # None => coupons[requests[r].coupon].exists

CountInv == SerialInv /\ NamedCouponsExist /\ CouponCountExact
-----------------------------------------------------------------------------
LEMMA OneCall ==
  ASSUME TypeInv, NEW w \in Workers
  PROVE  /\ Return(w) => calls'[w] = Idle
         /\ \A pc \in Steps : Goto(w, pc) => calls'[w] = [calls[w] EXCEPT !.pc = pc]
         /\ \A k : calls' = [calls EXCEPT ![w] = k] => calls'[w] = k
         /\ calls[w] \in Calls
  BY DEF Return, Goto, TypeInv, TypeOK

\* A call that ends relies on nothing.
LEMMA ReturnHolds ==
  ASSUME TypeInv, NEW w \in Workers, Return(w) PROVE ReadHolds(w)'
<1>1. calls'[w].pc = "idle"
  BY OneCall, IdleType
<1>. QED BY <1>1 DEF ReadHolds

\* A call that goes on to pc keeps what it has read.
LEMMA GotoHolds ==
  ASSUME TypeInv, NEW w \in Workers, NEW pc \in Steps, Goto(w, pc)
  PROVE  /\ calls'[w].pc = pc /\ calls'[w].user = calls[w].user
         /\ calls'[w].coupon = calls[w].coupon /\ calls'[w].req = calls[w].req
         /\ calls'[w].target = calls[w].target /\ calls'[w].edit = calls[w].edit
  BY DEF Goto, TypeInv, TypeOK, Calls

LEMMA CreateHolds ==
  ASSUME TypeInv, ReadsHold, NEW w \in Workers, CreateNext(w) PROVE ReadHolds(w)'
<1>. USE PRAssumption
<1>0. ReadHolds(w)
  BY DEF ReadsHold
<1>1. ASSUME NEW u \in Users, NEW t \in Templates, NEW c \in Coupons \cup {None},
             NEW p \in Phones, CreateStart(w, u, t, c, p)
      PROVE ReadHolds(w)'
  <2>. DEFINE k == [Idle EXCEPT !.pc = IF c = None THEN "commit" ELSE "readCoupon",
                                !.user = u, !.template = t, !.coupon = c, !.phone = p]
  <2>1. k.coupon = c /\ k.pc = IF c = None THEN "commit" ELSE "readCoupon"
    BY DEF Idle
  <2>2. calls' = [calls EXCEPT ![w] = k]
    BY <1>1 DEF CreateStart
  <2>. HIDE DEF k
  <2>3. calls'[w] = k
    BY <2>2, OneCall
  <2>. QED BY <2>1, <2>3 DEF ReadHolds
<1>2. CASE CreateReadCoupon(w)
  <2>1. CASE ~Usable(calls[w].coupon)
    BY <1>2, <2>1, ReturnHolds DEF CreateReadCoupon
  <2>2. CASE Usable(calls[w].coupon)
    <3>1. calls'[w].pc = "readUse" /\ calls'[w].coupon = calls[w].coupon /\ UNCHANGED coupons
      BY <1>2, <2>2, OneCall DEF CreateReadCoupon, Calls
    <3>. QED BY <2>2, <3>1 DEF ReadHolds, Usable, LimitReached
  <2>. QED BY <2>1, <2>2
<1>3. CASE CreateReadUse(w)
  <2>1. CASE Goto(w, "commit")
    BY <1>0, <1>3, <2>1, GotoHolds DEF Steps, CreateReadUse, ReadHolds, LimitReached
  <2>. QED BY <1>3, <2>1, ReturnHolds DEF CreateReadUse
<1>4. CASE CreateCommit(w)
  BY <1>4, GotoHolds DEF CreateCommit, Steps, ReadHolds
<1>5. CASE ReadPhone(w)
  <2>1. CASE phone[calls[w].user] = None
    BY <1>5, <2>1, GotoHolds DEF ReadPhone, Steps, ReadHolds
  <2>. QED BY <1>5, <2>1, ReturnHolds DEF ReadPhone
<1>6. CASE CheckPhone(w)
  <2>1. CASE Goto(w, "writePhone")
    BY <1>0, <1>6, <2>1, GotoHolds DEF CheckPhone, Steps, ReadHolds
  <2>. QED BY <1>6, <2>1, ReturnHolds DEF CheckPhone
<1>7. CASE WritePhone(w)
  BY <1>7, ReturnHolds DEF WritePhone
<1>. QED BY <1>1, <1>2, <1>3, <1>4, <1>5, <1>6, <1>7 DEF CreateNext

LEMMA DecideHolds ==
  ASSUME TypeInv, ReadsHold, NEW w \in Workers, DecideNext(w) PROVE ReadHolds(w)'
<1>0. ReadHolds(w)
  BY DEF ReadsHold
<1>1. ASSUME NEW r \in Requests, NEW s \in Targets, UpdateRead(w, r, s) PROVE ReadHolds(w)'
  <2>1. calls'[w].pc = "decide" /\ calls'[w].req = r /\ calls'[w].target = s
    BY <1>1 DEF UpdateRead, Idle, TypeInv, TypeOK
  <2>. QED BY <1>1, <2>1 DEF ReadHolds, UpdateRead
<1>2. ASSUME NEW r \in Requests, CancelRead(w, r) PROVE ReadHolds(w)'
  <2>1. calls'[w].pc \in {"markCancelled", "release"} /\ calls'[w].req = r
    BY <1>2 DEF CancelRead, Idle, TypeInv, TypeOK
  <2>. QED BY <1>2, <2>1 DEF ReadHolds, CancelRead
<1>3. CASE CancelRelease(w)
  BY <1>0, <1>3, GotoHolds DEF CancelRelease, Steps, ReadHolds
<1>. QED BY <1>1, <1>2, <1>3, ReturnHolds
         DEF DecideNext, UpdateCommit, UpdateRollback, CancelWrite

LEMMA CouponHolds ==
  ASSUME TypeInv, ReadsHold, NEW w \in Workers, CouponNext(w) PROVE ReadHolds(w)'
<1>. USE PRAssumption
<1>1. ASSUME NEW c \in Coupons, NEW e, LimitAllowed(c, e.max), UNCHANGED coupons,
             calls' = [calls EXCEPT ![w] =
                 [Idle EXCEPT !.pc = "writeCoupon", !.coupon = c, !.edit = e]]
      PROVE ReadHolds(w)'
  <2>1. calls'[w].pc = "writeCoupon" /\ calls'[w].coupon = c /\ calls'[w].edit = e
    BY <1>1 DEF Idle, TypeInv, TypeOK
  <2>. QED BY <1>1, <2>1 DEF ReadHolds, LimitAllowed
<1>2. ASSUME NEW c \in Coupons, NEW e \in Edits, CouponUpdateRead(w, c, e) PROVE ReadHolds(w)'
  BY <1>1, <1>2 DEF CouponUpdateRead
<1>3. ASSUME NEW c \in Coupons, CouponToggleRead(w, c) PROVE ReadHolds(w)'
  <2>1. [NoEdit EXCEPT !.active = ~coupons[c].active].max = None
    BY DEF NoEdit
  <2>2. LimitAllowed(c, None)
    BY DEF LimitAllowed, MaxUsesValues
  <2>. QED BY <1>1, <1>3, <2>1, <2>2 DEF CouponToggleRead
<1>. QED BY <1>2, <1>3, ReturnHolds DEF CouponNext, CouponWrite

\* An administrator changes neither the limit nor the count of a coupon there is.
LEMMA AdminKeeps ==
  ASSUME TypeInv, CouponAdmin
  PROVE  /\ UNCHANGED <<requests, purchases, phone, calls>>
         /\ \A c \in Coupons : coupons[c].exists =>
               /\ coupons'[c].exists /\ coupons'[c].max = coupons[c].max
               /\ coupons'[c].used = coupons[c].used
         /\ \A c \in Coupons : ~coupons[c].exists =>
               \/ coupons'[c] = coupons[c]
               \/ coupons'[c].used = 0
<1>1. ASSUME NEW d \in Coupons, NEW dto \in NewCoupons, CouponCreate(d, dto)
      PROVE  \A c \in Coupons : \/ coupons'[c] = coupons[c]
                                \/ ~coupons[c].exists /\ coupons'[c].used = 0
  BY <1>1 DEF CouponCreate, TypeInv, TypeOK
<1>2. ASSUME NEW d \in Coupons, CouponSoftDelete(d) \/ CouponRestore(d)
      PROVE  \A c \in Coupons : \/ coupons'[c] = coupons[c]
                                \/ /\ coupons[c].exists /\ coupons'[c].exists
                                   /\ coupons'[c].max = coupons[c].max
                                   /\ coupons'[c].used = coupons[c].used
  BY <1>2 DEF CouponSoftDelete, CouponRestore, TypeInv, TypeOK, CouponRows
<1>3. UNCHANGED <<requests, purchases, phone, calls>>
  BY DEF CouponAdmin, CouponCreate, CouponSoftDelete, CouponRestore
<1>. QED BY <1>1, <1>2, <1>3 DEF CouponAdmin

LEMMA AdminHolds ==
  ASSUME TypeInv, TypeInv', ReadsHold, CouponAdmin PROVE ReadsHold'
<1>. USE PRAssumption
<1> SUFFICES ASSUME NEW w \in Workers PROVE ReadHolds(w)'
  BY DEF ReadsHold
<1>0. ReadHolds(w) /\ UNCHANGED <<requests, phone, calls>>
  BY AdminKeeps DEF ReadsHold
<1>1. ASSUME calls[w].pc \in {"readUse", "commit"}, calls[w].coupon # None
      PROVE  coupons'[calls[w].coupon].exists /\ ~LimitReached(calls[w].coupon)'
  <2>1. calls[w].coupon \in Coupons
    BY <1>1, OneCall DEF Calls
  <2>. QED BY <1>0, <1>1, <2>1, AdminKeeps DEF ReadHolds, LimitReached
<1>2. ASSUME calls[w].pc = "writeCoupon"
      PROVE  LimitAllowed(calls[w].coupon, calls[w].edit.max)'
  <2>1. calls[w].coupon \in Coupons
    BY <1>2 DEF TypeInv, CallsOK, CallOK
  <2>2. /\ LimitAllowed(calls[w].coupon, calls[w].edit.max)
        /\ \/ coupons'[calls[w].coupon].used = coupons[calls[w].coupon].used
           \/ coupons'[calls[w].coupon].used = 0
    BY <1>0, <1>2, <2>1, AdminKeeps DEF ReadHolds
  <2>3. \A m \in Limits : m >= 0
    OBVIOUS
  <2>4. calls'[w] = calls[w]
    BY <1>0
  <2>. QED BY <2>2, <2>3, <2>4 DEF LimitAllowed
<1>. QED BY <1>0, <1>1, <1>2 DEF ReadHolds
-----------------------------------------------------------------------------
(* The limit of a coupon *)

\* The limit check has just been made, or was made before and still holds.
LEMMA LimitKept ==
  ASSUME SerialInv, TypeInv', NEW w \in Workers,
         CreateNext(w) \/ DecideNext(w) \/ CouponNext(w) \/ Fail(w)
  PROVE  CouponWithinLimit'
<1>. USE PRAssumption
<1>0. /\ TypeInv /\ ReadHolds(w) /\ CouponWithinLimit
      /\ \A c \in Coupons : coupons[c].used \in Int /\ coupons[c].max \in Limits \cup {NoLimit}
  BY CouponTypes DEF SerialInv, ReadsHold
<1>1. CASE UNCHANGED coupons
  BY <1>0, <1>1 DEF CouponWithinLimit
<1>2. CASE CreateCommit(w)
  <2>. DEFINE d == calls[w].coupon
  <2>1. \/ d = None /\ UNCHANGED coupons
        \/ /\ d \in Coupons /\ coupons' = [coupons EXCEPT ![d].used = coupons[d].used + 1]
           /\ coupons[d].exists /\ ~LimitReached(d)
    BY <1>0, <1>2, OneCall DEF CreateCommit, ReadHolds, Calls
  <2>. HIDE DEF d
  <2>2. CASE d \in Coupons /\ coupons' = [coupons EXCEPT ![d].used = coupons[d].used + 1]
             /\ ~LimitReached(d)
    <3>1. \A c \in Coupons : /\ coupons'[c].exists = coupons[c].exists
                             /\ coupons'[c].max = coupons[c].max
                             /\ coupons'[c].used = IF c = d THEN coupons[d].used + 1
                                                   ELSE coupons[c].used
      BY <1>0, <2>2 DEF TypeInv, TypeOK, CouponRows
    <3>2. ASSUME coupons[d].max # NoLimit PROVE coupons[d].used + 1 <= coupons[d].max
      <4>1. coupons[d].max \in Nat /\ coupons[d].used \in Int
        BY <1>0, <2>2, <3>2
      <4>2. ~(coupons[d].used >= coupons[d].max)
        BY <2>2, <3>2 DEF LimitReached
      <4>. QED BY <4>1, <4>2
    <3>. QED BY <1>0, <3>1, <3>2 DEF CouponWithinLimit
  <2>. QED BY <1>1, <2>1, <2>2
<1>3. CASE UpdateCommit(w) \/ CancelRelease(w)
  <2>. DEFINE d == requests[calls[w].req].coupon
  <2>1. coupons' = coupons \/ coupons' = [coupons EXCEPT ![d].used = coupons[d].used - 1]
    BY <1>3 DEF UpdateCommit, CancelRelease, Released
  <2>. HIDE DEF d
  <2>2. ASSUME NEW c \in Coupons
        PROVE  /\ coupons'[c].exists = coupons[c].exists
               /\ coupons'[c].max = coupons[c].max
               /\ coupons'[c].used <= coupons[c].used
               /\ coupons'[c].used \in Int
    BY <1>0, <2>1 DEF TypeInv, TypeOK, CouponRows
  <2>3. ASSUME NEW c \in Coupons, coupons'[c].exists, coupons'[c].max # NoLimit
        PROVE  coupons'[c].used <= coupons'[c].max
    <3>1. coupons[c].used <= coupons[c].max /\ coupons[c].max \in Nat /\ coupons[c].used \in Int
      BY <1>0, <2>2, <2>3 DEF CouponWithinLimit
    <3>. QED BY <2>2, <3>1
  <2>. QED BY <2>3 DEF CouponWithinLimit
<1>4. CASE CouponWrite(w)
  <2>. DEFINE d == calls[w].coupon  e == calls[w].edit
  <2>1. d \in Coupons /\ e.max \in Limits \cup {NoLimit, None} /\ LimitAllowed(d, e.max)
    <3>1. calls[w].pc = "writeCoupon"
      BY <1>4 DEF CouponWrite
    <3>2. d \in Coupons /\ e \in EditDtos
      BY <1>0, <3>1 DEF TypeInv, TypeOK, CallsOK, CallOK, Calls
    <3>3. e.max \in Limits \cup {NoLimit, None}
      BY ONLY <3>2 DEF EditDtos, MaxUsesValues
    <3>4. LimitAllowed(d, e.max)
      BY <1>0, <3>1 DEF ReadHolds
    <3>. QED BY ONLY <3>2, <3>3, <3>4
  <2>2. \A c \in Coupons :
          /\ coupons'[c].exists = coupons[c].exists
          /\ coupons'[c].used = coupons[c].used
          /\ coupons'[c].max = IF c = d THEN Given(e.max, coupons[c].max) ELSE coupons[c].max
    BY <1>0, <1>4, <2>1 DEF CouponWrite, TypeInv, TypeOK, CouponRows
  <2>. HIDE DEF d, e
  <2>3. e.max \in Limits => coupons[d].used <= e.max
    <3>1. ASSUME e.max \in Limits PROVE coupons[d].used <= e.max
      <4>1. e.max >= coupons[d].used /\ e.max \in Nat /\ coupons[d].used \in Int
        BY <1>0, <2>1, <3>1 DEF LimitAllowed
      <4>. QED BY <4>1
    <3>. QED BY <3>1
  <2>. QED BY <1>0, <2>1, <2>2, <2>3 DEF CouponWithinLimit, Given
<1>. QED BY <1>1, <1>2, <1>3, <1>4
         DEF CreateNext, DecideNext, CouponNext, Fail, CreateStart, CreateReadCoupon, CreateReadUse,
             ReadPhone, CheckPhone, WritePhone, UpdateRead, UpdateRollback, CancelRead,
             CancelWrite, CouponUpdateRead, CouponToggleRead

LEMMA LimitKeptByAdmin ==
  ASSUME SerialInv, TypeInv', CouponAdmin PROVE CouponWithinLimit'
<1>. USE PRAssumption
<1>1. ASSUME NEW c \in Coupons, coupons'[c].exists, coupons'[c].max # NoLimit
      PROVE  coupons'[c].used <= coupons'[c].max
  <2>0. coupons'[c].max \in Limits
    BY <1>1, CouponTypes DEF TypeInv, TypeOK, CouponRows, MaxUsesValues
  <2>1. CASE coupons[c].exists
    BY <1>1, <2>1, AdminKeeps DEF SerialInv, CouponWithinLimit
  <2>2. CASE ~coupons[c].exists
    <3>1. coupons'[c] = coupons[c] \/ coupons'[c].used = 0
      BY <2>2, AdminKeeps DEF SerialInv
    <3>2. coupons'[c].used = 0
      BY <1>1, <2>2, <3>1
    <3>3. coupons'[c].max \in Nat
      BY <2>0
    <3>. QED BY <3>2, <3>3
  <2>. QED BY <2>1, <2>2
<1>. QED BY <1>1 DEF CouponWithinLimit

LEMMA InitSerial == Init => SerialInv
  BY InitTypeInv DEF Init, SerialInv, ReadsHold, ReadHolds, Idle, CouponWithinLimit, NoCoupon

LEMMA NextSerial ==
  ASSUME OneWorker PROVE SerialInv /\ [Next]_vars => SerialInv'
<1> SUFFICES ASSUME SerialInv, [Next]_vars PROVE SerialInv'
  OBVIOUS
<1>1. TypeInv /\ TypeInv' /\ ReadsHold
  BY NextTypeInv DEF SerialInv
<1>2. CASE UNCHANGED vars
  BY <1>1, <1>2 DEF vars, SerialInv, ReadsHold, ReadHolds, LimitReached, LimitAllowed,
     CouponWithinLimit
<1>3. ASSUME NEW w \in Workers, CreateNext(w) \/ DecideNext(w) \/ CouponNext(w) \/ Fail(w)
      PROVE  SerialInv'
  <2>1. ReadHolds(w)'
    BY <1>1, <1>3, CreateHolds, DecideHolds, CouponHolds, ReturnHolds DEF Fail
  <2>2. ReadsHold'
    BY <2>1 DEF ReadsHold, OneWorker
  <2>. QED BY <1>1, <1>3, <2>2, LimitKept DEF SerialInv
<1>4. CASE CouponAdmin
  BY <1>1, <1>4, AdminHolds, LimitKeptByAdmin DEF SerialInv
<1>. QED BY <1>2, <1>3, <1>4 DEF Next

\* As long as calls do not overlap, no coupon is used more often than the limit
\* in force allows, whatever an administrator edits and whichever calls die.
THEOREM CouponAlwaysWithinLimit ==
  ASSUME OneWorker PROVE Spec => []CouponWithinLimit
<1>1. SerialInv => CouponWithinLimit
  BY DEF SerialInv
<1>. QED BY <1>1, InitSerial, NextSerial, PTL DEF Spec

LEMMA PhoneStep ==
  SerialInv /\ [Next]_vars
    => [\A u \in Users : phone[u] # None => phone'[u] = phone[u]]_vars
<1> SUFFICES ASSUME SerialInv, Next
             PROVE  \A u \in Users : phone[u] # None => phone'[u] = phone[u]
  BY DEF vars
<1>1. CASE UNCHANGED phone
  BY <1>1
<1>2. ASSUME NEW w \in Workers, WritePhone(w)
      PROVE  \A u \in Users : phone[u] # None => phone'[u] = phone[u]
  <2>1. phone[calls[w].user] = None
    BY <1>2 DEF WritePhone, SerialInv, ReadsHold, ReadHolds
  <2>. QED BY <1>2, <2>1 DEF WritePhone, SerialInv, TypeInv, TypeOK
<1>3. ASSUME NEW w \in Workers, CreateNext(w), ~WritePhone(w) PROVE UNCHANGED phone
  BY <1>3 DEF CreateNext, CreateStart, CreateReadCoupon, CreateReadUse, CreateCommit, ReadPhone,
     CheckPhone
<1>4. ASSUME NEW w \in Workers, DecideNext(w) PROVE UNCHANGED phone
  BY <1>4 DEF DecideNext, UpdateRead, UpdateCommit, UpdateRollback, CancelRead, CancelRelease,
     CancelWrite
<1>5. ASSUME NEW w \in Workers, CouponNext(w) PROVE UNCHANGED phone
  BY <1>5 DEF CouponNext, CouponUpdateRead, CouponToggleRead, CouponWrite
<1>6. ASSUME NEW w \in Workers, Fail(w) PROVE UNCHANGED phone
  BY <1>6 DEF Fail
<1>7. CASE CouponAdmin
  BY <1>1, <1>7 DEF CouponAdmin, CouponCreate, CouponSoftDelete, CouponRestore
<1>. QED BY <1>1, <1>2, <1>3, <1>4, <1>5, <1>6, <1>7 DEF Next

\* As long as calls do not overlap, a phone number that is set is not replaced.
THEOREM PhoneIsNotReplaced ==
  ASSUME OneWorker PROVE Spec => PhoneNotReplaced
<1>. QED BY InitSerial, NextSerial, PhoneStep, PTL DEF Spec, PhoneNotReplaced
-----------------------------------------------------------------------------
(* The life of a request *)

LEMMA LifeInitially == Init => Life!LifeInit
  BY DEF Init, Life!LifeInit, Absent

LEMMA LifeStep ==
  SerialInv /\ [Next]_vars
    => [Life!LifeNext]_<<[r \in Requests |-> requests[r].status], purchases>>
<1>. DEFINE status == [r \in Requests |-> requests[r].status]
<1> SUFFICES ASSUME SerialInv, [Next]_vars
             PROVE  Life!LifeNext \/ UNCHANGED <<status, purchases>>
  OBVIOUS
<1>0. TypeInv /\ requests \in [Requests -> Rows \cup {Absent}]
  BY DEF SerialInv, TypeInv, TypeOK
<1>1. CASE UNCHANGED <<requests, purchases>>
  BY <1>1
<1>2. ASSUME NEW w \in Workers, CreateCommit(w)
      PROVE  Life!LifeNext \/ UNCHANGED <<status, purchases>>
  <2>1. PICK r \in Requests, s \in {"APPROVED", "PENDING"} :
           /\ requests[r] = Absent
           /\ \E row \in Rows : row.status = s /\ requests' = [requests EXCEPT ![r] = row]
           /\ purchases' = IF s = "APPROVED" THEN purchases \cup {r} ELSE purchases
    BY <1>0, <1>2, CommitAccess
  <2>2. status[r] = "ABSENT" /\ status' = [status EXCEPT ![r] = s]
    <3>1. requests[r].status = "ABSENT" /\ requests'[r].status = s
      BY <1>0, <2>1 DEF Absent
    <3>2. \A q \in Requests : q # r => requests'[q] = requests[q]
      BY <1>0, <2>1
    <3>. QED BY <3>1, <3>2
  <2>. QED BY <2>1, <2>2 DEF Life!LifeNext, Life!Submit, Life!Approve
<1>3. ASSUME NEW w \in Workers, UpdateCommit(w) \/ CancelWrite(w)
      PROVE  Life!LifeNext \/ UNCHANGED <<status, purchases>>
  <2>1. PICK r \in Requests, s \in Statuses :
           /\ requests[r].status = "PENDING"
           /\ requests[r] \in Rows
           /\ requests' = [requests EXCEPT ![r].status = s]
           /\ purchases' = IF s = "APPROVED" THEN purchases \cup {r} ELSE purchases
    <3>1. /\ calls[w].req \in Requests /\ requests[calls[w].req] \in Rows
          /\ requests[calls[w].req].status = "PENDING"
          /\ calls[w].pc = "decide" => calls[w].target \in Statuses
      BY <1>0, <1>3 DEF UpdateCommit, CancelWrite, TypeInv, CallsOK, CallOK, SerialInv,
         ReadsHold, ReadHolds
    <3>2. CASE UpdateCommit(w)
      BY <3>1, <3>2 DEF UpdateCommit, Granted
    <3>3. CASE CancelWrite(w)
      BY <3>1, <3>3 DEF CancelWrite, Statuses
    <3>. QED BY <1>3, <3>2, <3>3
  <2>2. status[r] = "PENDING" /\ status' = [status EXCEPT ![r] = s]
    BY <1>0, <2>1 DEF Rows
  <2>3. CASE s = "PENDING"
    BY <2>1, <2>2, <2>3
  <2>4. CASE s = "APPROVED"
    BY <2>1, <2>2, <2>4 DEF Life!LifeNext, Life!Approve
  <2>5. CASE s \in {"REJECTED", "CANCELLED"}
    BY <2>1, <2>2, <2>5 DEF Life!LifeNext, Life!Close
  <2>. QED BY <2>3, <2>4, <2>5 DEF Statuses
<1>. QED BY <1>1, <1>2, <1>3, Writers DEF vars

\* As long as calls do not overlap, a request lives as the controller documents
\* it: submitted, then decided once, and the approval brings the purchase. Calls
\* may die, and an administrator may send any status.
THEOREM LifecycleImplemented ==
  ASSUME OneWorker PROVE Spec => ImplementsLifecycle
<1>. DEFINE status == [r \in Requests |-> requests[r].status]
<1>. QED BY InitSerial, NextSerial, LifeInitially, LifeStep, PTL
         DEF Spec, ImplementsLifecycle, Life!LifeSpec
-----------------------------------------------------------------------------
(* The count of a coupon *)

CountOf(c) == coupons[c].used + Cardinality(ReleasedNotMarked(c)) = Cardinality(UsesOf(c))

LEMMA CountFinite ==
  ASSUME NEW c
  PROVE  /\ IsFiniteSet(UsesOf(c)) /\ Cardinality(UsesOf(c)) \in Nat
         /\ IsFiniteSet(UsesOf(c)') /\ Cardinality(UsesOf(c)') \in Nat
         /\ Cardinality({}) = 0
<1>1. UsesOf(c) \subseteq Requests /\ UsesOf(c)' \subseteq Requests
  BY DEF UsesOf
<1>. QED BY <1>1, WorkersAssumption, FS_Subset, FS_CardinalityType, FS_EmptySet

\* With one worker it is either past the release of a cancellation or not.
LEMMA ReleasedOrNot ==
  ASSUME OneWorker, NEW w \in Workers, NEW c
  PROVE  /\ ReleasedNotMarked(c) =
               IF calls[w].pc = "markCancelled" /\ requests[calls[w].req].coupon = c
               THEN {w} ELSE {}
         /\ ReleasedNotMarked(c)' =
               IF calls'[w].pc = "markCancelled" /\ requests'[calls'[w].req].coupon = c
               THEN {w} ELSE {}
  BY DEF OneWorker, ReleasedNotMarked

LEMMA OneUseMore ==
  ASSUME NEW S, IsFiniteSet(S), NEW r, r \notin S, NEW T, T = S \cup {r}
  PROVE  Cardinality(T) = Cardinality(S) + 1
  BY FS_AddElement

LEMMA OneUseLess ==
  ASSUME NEW S, IsFiniteSet(S), NEW r \in S, NEW T, T = S \ {r}
  PROVE  Cardinality(T) = Cardinality(S) - 1
  BY FS_RemoveElement

\* A step that writes no request and no count, in a call that is not in the
\* middle of a cancellation that has released a coupon.
LEMMA CountKept ==
  ASSUME OneWorker, CountInv, NEW w \in Workers, UNCHANGED requests,
         calls[w].pc # "markCancelled",
         calls'[w].pc = "markCancelled" => requests[calls'[w].req].coupon = None,
         \A c \in Coupons : coupons'[c].used = coupons[c].used
  PROVE  CouponCountExact'
<1>1. ASSUME NEW c \in Coupons PROVE CountOf(c)'
  <2>1. CountOf(c) /\ UsesOf(c)' = UsesOf(c)
    BY DEF CountInv, CouponCountExact, CountOf, UsesOf
  <2>2. ReleasedNotMarked(c) = {} /\ ReleasedNotMarked(c)' = {}
    BY ReleasedOrNot, PRAssumption
  <2>. QED BY <2>1, <2>2 DEF CountOf
<1>. QED BY <1>1 DEF CouponCountExact, CountOf

\* create counts the coupon and stores the request that holds it together.
LEMMA CountCommit ==
  ASSUME OneWorker, CountInv, NEW w \in Workers, CreateCommit(w) PROVE CouponCountExact'
<1>0. TypeInv
  BY DEF CountInv, SerialInv
<1>. DEFINE d == calls[w].coupon
            row == [status |-> IF AutoApproved(calls[w]) THEN "APPROVED" ELSE "PENDING",
                    user |-> calls[w].user, template |-> calls[w].template, coupon |-> d]
<1>1. PICK r \in Requests : requests[r] = Absent /\ requests' = [requests EXCEPT ![r] = row]
  BY <1>0 DEF CreateCommit, FreshIds, TypeInv, TypeOK, Rows, Statuses
<1>2. /\ calls[w].pc = "commit" /\ calls'[w].pc = "readPhone"
      /\ coupons' = IF d = None THEN coupons ELSE [coupons EXCEPT ![d].used = @ + 1]
  BY <1>0, GotoHolds DEF CreateCommit, Steps
<1>3. \A c \in Coupons : coupons'[c].used = IF c = d THEN coupons[c].used + 1 ELSE coupons[c].used
  BY <1>0, <1>2, PRAssumption DEF TypeInv, TypeOK, CouponRows
<1>4. row.coupon = d /\ row.status \notin {"CANCELLED", "REJECTED"}
  OBVIOUS
<1>. HIDE DEF row, d
<1>5. requests'[r] = row /\ \A q \in Requests : q # r => requests'[q] = requests[q]
  BY <1>0, <1>1 DEF TypeInv, TypeOK
<1>6. ASSUME NEW c \in Coupons PROVE CountOf(c)'
  <2>1. CountOf(c) /\ ReleasedNotMarked(c) = {} /\ ReleasedNotMarked(c)' = {}
    BY <1>2, ReleasedOrNot DEF CountInv, CouponCountExact, CountOf
  <2>2. coupons[c].used = Cardinality(UsesOf(c)) /\ coupons[c].used \in Int
    BY <1>0, <2>1, CountFinite, CouponTypes DEF CountOf
  <2>3. r \notin UsesOf(c)
    BY <1>1, PRAssumption DEF UsesOf, Absent
  <2>4. CASE c = d
    <3>1. UsesOf(c)' = UsesOf(c) \cup {r}
      BY <1>4, <1>5, <2>4 DEF UsesOf
    <3>2. Cardinality(UsesOf(c)') = Cardinality(UsesOf(c)) + 1
      BY <2>3, <3>1, CountFinite, OneUseMore
    <3>. QED BY <1>3, <2>1, <2>2, <2>4, <3>2, CountFinite DEF CountOf
  <2>5. CASE c # d
    <3>1. UsesOf(c)' = UsesOf(c)
      BY <1>4, <1>5, <2>3, <2>5 DEF UsesOf
    <3>. QED BY <1>3, <2>1, <2>2, <2>5, <3>1, CountFinite DEF CountOf
  <2>. QED BY <2>4, <2>5
<1>. QED BY <1>6 DEF CouponCountExact, CountOf

\* A pending request ceases to hold its coupon: the count falls with it.
LEMMA CountUpdate ==
  ASSUME OneWorker, Targets \subseteq {"APPROVED", "REJECTED"},
         CountInv, NEW w \in Workers, UpdateCommit(w)
  PROVE  CouponCountExact'
<1>0. TypeInv
  BY DEF CountInv, SerialInv
<1>1. PICK r \in Requests, s \in {"APPROVED", "REJECTED"} :
        /\ requests[r] \in Rows /\ requests[r].status = "PENDING"
        /\ requests' = [requests EXCEPT ![r].status = s]
        /\ coupons' = IF s = "REJECTED" THEN Released(r) ELSE coupons
  <2>1. /\ calls[w].req \in Requests /\ requests[calls[w].req] \in Rows
        /\ requests[calls[w].req].status = "PENDING" /\ calls[w].target \in Targets
    BY <1>0 DEF UpdateCommit, TypeInv, CallsOK, CallOK, CountInv, SerialInv, ReadsHold, ReadHolds
  <2>. QED BY <2>1 DEF UpdateCommit
<1>2. calls[w].pc = "decide" /\ calls'[w].pc = "idle"
  BY <1>0, OneCall, IdleType DEF UpdateCommit
<1>3. /\ requests'[r].coupon = requests[r].coupon /\ requests'[r].status = s
      /\ \A q \in Requests : q # r => requests'[q] = requests[q]
  BY <1>0, <1>1 DEF TypeInv, TypeOK, Rows
<1>4. PICK d : d = requests[r].coupon
  OBVIOUS
<1>5. \A c \in Coupons : coupons'[c].used = IF c = d /\ s = "REJECTED" THEN coupons[c].used - 1
                                            ELSE coupons[c].used
  BY <1>0, <1>1, <1>4, PRAssumption DEF Released, TypeInv, TypeOK, CouponRows
<1>6. ASSUME NEW c \in Coupons PROVE CountOf(c)'
  <2>1. CountOf(c) /\ ReleasedNotMarked(c) = {} /\ ReleasedNotMarked(c)' = {}
    BY <1>2, ReleasedOrNot DEF CountInv, CouponCountExact, CountOf
  <2>2. coupons[c].used = Cardinality(UsesOf(c)) /\ coupons[c].used \in Int
    BY <1>0, <2>1, CountFinite, CouponTypes DEF CountOf
  <2>3. CASE c = d /\ s = "REJECTED"
    <3>1. r \in UsesOf(c) /\ UsesOf(c)' = UsesOf(c) \ {r}
      BY <1>1, <1>3, <1>4, <2>3 DEF UsesOf
    <3>2. Cardinality(UsesOf(c)') = Cardinality(UsesOf(c)) - 1
      BY <3>1, CountFinite, OneUseLess
    <3>. QED BY <1>5, <2>1, <2>2, <2>3, <3>2, CountFinite DEF CountOf
  <2>4. CASE ~(c = d /\ s = "REJECTED")
    <3>1. UsesOf(c)' = UsesOf(c)
      BY <1>1, <1>3, <1>4, <2>4 DEF UsesOf
    <3>. QED BY <1>5, <2>1, <2>2, <2>4, <3>1, CountFinite DEF CountOf
  <2>. QED BY <2>3, <2>4
<1>. QED BY <1>6 DEF CouponCountExact, CountOf

\* cancel gives the use back first and marks the request in a second step.
LEMMA CountCancel ==
  ASSUME OneWorker, CountInv, NEW w \in Workers, CancelRelease(w) \/ CancelWrite(w)
  PROVE  CouponCountExact'
<1>0. TypeInv
  BY DEF CountInv, SerialInv
<1>1. PICK r : r = calls[w].req
  OBVIOUS
<1>2. r \in Requests /\ requests[r] \in Rows /\ requests[r].status = "PENDING"
  BY <1>0, <1>1 DEF CancelRelease, CancelWrite, TypeInv, CallsOK, CallOK, CountInv, SerialInv,
     ReadsHold, ReadHolds
<1>3. ASSUME NEW c \in Coupons PROVE CountOf(c)'
  <2>1. CountOf(c) /\ coupons[c].used \in Int
    BY <1>0, CouponTypes DEF CountInv, CouponCountExact, CountOf
  <2>2. Cardinality({w}) = 1 /\ Cardinality({}) = 0
    BY FS_Singleton, FS_EmptySet
  <2>3. CASE CancelRelease(w)
    <3>1. /\ calls[w].pc = "release" /\ calls'[w].pc = "markCancelled" /\ calls'[w].req = r
          /\ UNCHANGED requests /\ requests[r].coupon \in Coupons
          /\ coupons' = Released(r)
      BY <1>0, <1>1, <2>3, GotoHolds DEF CancelRelease, Steps, TypeInv, CallsOK, CallOK
    <3>2. coupons'[c].used = IF c = requests[r].coupon THEN coupons[c].used - 1
                             ELSE coupons[c].used
      BY <1>0, <3>1, PRAssumption DEF Released, TypeInv, TypeOK, CouponRows
    <3>3. UsesOf(c)' = UsesOf(c) /\ ReleasedNotMarked(c) = {}
      BY <3>1, ReleasedOrNot DEF UsesOf
    <3>4. ReleasedNotMarked(c)' = IF c = requests[r].coupon THEN {w} ELSE {}
      BY <3>1, ReleasedOrNot
    <3>. QED BY <2>1, <2>2, <3>2, <3>3, <3>4, CountFinite DEF CountOf
  <2>4. CASE CancelWrite(w)
    <3>1. /\ calls[w].pc = "markCancelled" /\ calls'[w].pc = "idle" /\ UNCHANGED coupons
          /\ requests' = [requests EXCEPT ![r].status = "CANCELLED"]
      BY <1>0, <1>1, <2>4, OneCall, IdleType DEF CancelWrite
    <3>2. /\ requests'[r].coupon = requests[r].coupon /\ requests'[r].status = "CANCELLED"
          /\ \A q \in Requests : q # r => requests'[q] = requests[q]
      BY <1>0, <1>2, <3>1 DEF TypeInv, TypeOK, Rows
    <3>3. /\ ReleasedNotMarked(c)' = {}
          /\ ReleasedNotMarked(c) = IF c = requests[r].coupon THEN {w} ELSE {}
      BY <1>1, <3>1, ReleasedOrNot
    <3>4. CASE c = requests[r].coupon
      <4>1. r \in UsesOf(c) /\ UsesOf(c)' = UsesOf(c) \ {r}
        BY <1>2, <3>2, <3>4 DEF UsesOf
      <4>2. Cardinality(UsesOf(c)') = Cardinality(UsesOf(c)) - 1
        BY <4>1, CountFinite, OneUseLess
      <4>. QED BY <2>1, <2>2, <3>1, <3>3, <3>4, <4>2, CountFinite DEF CountOf
    <3>5. CASE c # requests[r].coupon
      <4>1. UsesOf(c)' = UsesOf(c)
        BY <1>2, <3>2, <3>5 DEF UsesOf
      <4>. QED BY <2>1, <2>2, <3>1, <3>3, <3>5, <4>1, CountFinite DEF CountOf
    <3>. QED BY <3>4, <3>5
  <2>. QED BY <2>3, <2>4
<1>. QED BY <1>3 DEF CouponCountExact, CountOf

\* A coupon that does not exist yet is in no request.
LEMMA CountAdmin ==
  ASSUME CountInv, CouponAdmin PROVE CouponCountExact'
<1>0. TypeInv
  BY DEF CountInv, SerialInv
<1>1. UNCHANGED <<requests, calls>>
  BY <1>0, AdminKeeps
<1>2. ASSUME NEW c \in Coupons PROVE CountOf(c)'
  <2>1. CountOf(c) /\ UsesOf(c)' = UsesOf(c) /\ ReleasedNotMarked(c)' = ReleasedNotMarked(c)
    BY <1>1 DEF CountInv, CouponCountExact, CountOf, UsesOf, ReleasedNotMarked
  <2>2. CASE coupons'[c].used = coupons[c].used
    BY <2>1, <2>2 DEF CountOf
  <2>3. CASE ~coupons[c].exists /\ coupons'[c].used = 0
    <3>1. \A r \in Requests : requests[r].coupon # c
      BY <2>3, PRAssumption DEF CountInv, NamedCouponsExist
    <3>2. UsesOf(c) = {}
      BY <3>1 DEF UsesOf
    <3>3. ReleasedNotMarked(c) = {}
      BY <1>0, <3>1 DEF ReleasedNotMarked, TypeInv, CallsOK, CallOK
    <3>4. CountOf(c)' <=> coupons'[c].used + Cardinality({}) = Cardinality({})
      BY <2>1, <3>2, <3>3 DEF CountOf
    <3>. QED BY <2>3, <3>4, FS_EmptySet
  <2>. QED BY <1>0, <2>2, <2>3, AdminKeeps
<1>. QED BY <1>2 DEF CouponCountExact, CountOf

LEMMA NamedKept ==
  ASSUME CountInv, [Next]_vars PROVE NamedCouponsExist'
<1>0. TypeInv /\ coupons \in [Coupons -> CouponRows]
  BY DEF CountInv, SerialInv, TypeInv, TypeOK
<1>1. ASSUME NEW c \in Coupons, coupons[c].exists PROVE coupons'[c].exists
  <2>1. CASE UNCHANGED coupons
    BY <1>1, <2>1
  <2>2. CASE CouponAdmin
    BY <1>0, <1>1, <2>2, AdminKeeps
  <2>3. ASSUME NEW w \in Workers,
               CreateCommit(w) \/ UpdateCommit(w) \/ CancelRelease(w)
        PROVE  coupons'[c].exists
    <3>1. \/ coupons' = coupons
          \/ \E d : coupons' = [coupons EXCEPT ![d].used = coupons[d].used + 1]
          \/ \E d : coupons' = [coupons EXCEPT ![d].used = coupons[d].used - 1]
      BY <2>3 DEF CreateCommit, UpdateCommit, CancelRelease, Released
    <3>. QED BY <1>0, <1>1, <3>1 DEF CouponRows
  <2>4. ASSUME NEW w \in Workers, CouponWrite(w) PROVE coupons'[c].exists
    BY <1>0, <1>1, <2>4 DEF CouponWrite, CouponRows
  <2>. QED BY <2>1, <2>2, <2>3, <2>4
           DEF vars, Next, CreateNext, DecideNext, CouponNext, Fail, CreateStart,
               CreateReadCoupon, CreateReadUse, ReadPhone, CheckPhone, WritePhone, UpdateRead,
               UpdateRollback, CancelRead, CancelWrite, CouponUpdateRead, CouponToggleRead
<1>2. ASSUME NEW r \in Requests, requests'[r].coupon # None
      PROVE  requests'[r].coupon \in Coupons /\ coupons'[requests'[r].coupon].exists
  <2>1. CASE requests'[r].coupon = requests[r].coupon
    <3>1. requests[r].coupon \in Coupons
      BY <1>2, <2>1, <1>0 DEF TypeInv, TypeOK, Rows, Absent
    <3>. QED BY <1>1, <1>2, <2>1, <3>1 DEF CountInv, NamedCouponsExist
  <2>2. CASE requests'[r].coupon # requests[r].coupon
    <3>1. PICK w \in Workers : CreateCommit(w) \/ UpdateCommit(w) \/ CancelWrite(w)
      BY <2>2, Writers DEF vars
    <3>2. CreateCommit(w)
      BY <1>0, <2>2, <3>1, DecideAccess DEF TypeInv, TypeOK, Rows
    <3>3. requests'[r].coupon = calls[w].coupon
      BY <1>0, <2>2, <3>2 DEF CreateCommit, FreshIds, TypeInv, TypeOK
    <3>4. calls[w].coupon \in Coupons /\ coupons[calls[w].coupon].exists
      BY <1>0, <1>2, <3>2, <3>3, OneCall DEF CreateCommit, CountInv, SerialInv, ReadsHold,
         ReadHolds, Calls
    <3>. QED BY <1>1, <3>3, <3>4
  <2>. QED BY <2>1, <2>2
<1>. QED BY <1>2 DEF NamedCouponsExist

LEMMA InitCount == Init => CountInv
<1> SUFFICES ASSUME Init PROVE CountInv
  OBVIOUS
<1>1. \A c \in Coupons : UsesOf(c) = {} /\ ReleasedNotMarked(c) = {} /\ coupons[c].used = 0
  BY PRAssumption DEF Init, UsesOf, ReleasedNotMarked, Absent, Idle, NoCoupon
<1>2. NamedCouponsExist
  BY DEF Init, NamedCouponsExist, Absent
<1>. QED BY <1>1, <1>2, InitSerial, FS_EmptySet DEF CountInv, CouponCountExact

LEMMA NextCount ==
  ASSUME OneWorker, MaxFailures = 0, Targets \subseteq {"APPROVED", "REJECTED"}
  PROVE  CountInv /\ [Next]_vars => CountInv'
<1> SUFFICES ASSUME CountInv, [Next]_vars PROVE CountInv'
  OBVIOUS
<1>0. TypeInv /\ SerialInv' /\ NamedCouponsExist' /\ calls \in [Workers -> Calls]
  BY NextSerial, NamedKept DEF CountInv, SerialInv, TypeInv, TypeOK
<1>1. CASE UNCHANGED vars
  BY <1>0, <1>1 DEF vars, CountInv, CouponCountExact, UsesOf, ReleasedNotMarked
<1>2. ASSUME NEW w \in Workers, CreateNext(w) \/ DecideNext(w) \/ CouponNext(w) \/ Fail(w)
      PROVE  CouponCountExact'
  <2>1. CASE CreateCommit(w) \/ UpdateCommit(w) \/ CancelRelease(w) \/ CancelWrite(w)
    BY <2>1, CountCommit, CountUpdate, CountCancel
  <2>2. CASE CreateNext(w) /\ ~CreateCommit(w)
    <3>1. UNCHANGED <<requests, coupons>> /\ calls[w].pc # "markCancelled"
      BY <2>2 DEF CreateNext, CreateStart, CreateReadCoupon, CreateReadUse, ReadPhone,
         CheckPhone, WritePhone
    <3>2. calls'[w].pc # "markCancelled"
      <4>1. CASE Return(w)
        BY <1>0, <4>1, OneCall, IdleType
      <4>2. ASSUME NEW pc \in Steps \ {"markCancelled"}, Goto(w, pc)
            PROVE  calls'[w].pc # "markCancelled"
        BY <1>0, <4>2, GotoHolds
      <4>3. ASSUME NEW u \in Users, NEW t \in Templates, NEW c \in Coupons \cup {None},
                   NEW p \in Phones, CreateStart(w, u, t, c, p)
            PROVE  calls'[w].pc # "markCancelled"
        BY <1>0, <4>3 DEF CreateStart, Idle
      <4>4. CASE CreateReadCoupon(w)
        BY <1>0, <4>1, <4>4 DEF CreateReadCoupon, Calls
      <4>. QED BY <2>2, <4>1, <4>2, <4>3, <4>4
               DEF CreateNext, CreateReadUse, ReadPhone, CheckPhone, WritePhone, Steps
    <3>. QED BY <3>1, <3>2, CountKept
  <2>3. ASSUME NEW r \in Requests, NEW s \in Targets, UpdateRead(w, r, s) PROVE CouponCountExact'
    <3>1. calls'[w].pc # "markCancelled"
      BY <1>0, <2>3 DEF UpdateRead, Idle
    <3>. QED BY <2>3, <3>1, CountKept DEF UpdateRead
  <2>4. ASSUME NEW r \in Requests, CancelRead(w, r) PROVE CouponCountExact'
    <3>1. calls'[w].pc = "markCancelled" => requests[calls'[w].req].coupon = None
      BY <1>0, <2>4 DEF CancelRead, Idle
    <3>. QED BY <2>4, <3>1, CountKept DEF CancelRead
  <2>5. CASE UpdateRollback(w)
    <3>1. calls'[w].pc # "markCancelled"
      BY <1>0, <2>5, OneCall, IdleType DEF UpdateRollback
    <3>. QED BY <2>5, <3>1, CountKept DEF UpdateRollback
  <2>6. CASE CouponNext(w)
    <3>1. UNCHANGED requests /\ calls[w].pc # "markCancelled"
      BY <2>6 DEF CouponNext, CouponUpdateRead, CouponToggleRead, CouponWrite
    <3>2. CASE CouponWrite(w)
      <4>1. calls'[w].pc # "markCancelled"
        BY <1>0, <3>2, OneCall, IdleType DEF CouponWrite
      <4>2. \A c \in Coupons : coupons'[c].used = coupons[c].used
        BY <1>0, <3>2 DEF CouponWrite, TypeInv, TypeOK, CouponRows
      <4>. QED BY <3>1, <4>1, <4>2, CountKept
    <3>3. CASE UNCHANGED coupons /\ calls'[w].pc = "writeCoupon"
      BY <3>1, <3>3, CountKept
    <3>4. ASSUME NEW c \in Coupons, NEW e \in Edits, CouponUpdateRead(w, c, e)
          PROVE  UNCHANGED coupons /\ calls'[w].pc = "writeCoupon"
      BY <1>0, <3>4 DEF CouponUpdateRead, Idle
    <3>5. ASSUME NEW c \in Coupons, CouponToggleRead(w, c)
          PROVE  UNCHANGED coupons /\ calls'[w].pc = "writeCoupon"
      BY <1>0, <3>5 DEF CouponToggleRead, Idle
    <3>. QED BY <2>6, <3>2, <3>3, <3>4, <3>5 DEF CouponNext
  <2>7. ~Fail(w)
    BY <1>0 DEF Fail, TypeInv, TypeOK
  <2>. QED BY <1>2, <2>1, <2>2, <2>3, <2>4, <2>5, <2>6, <2>7 DEF DecideNext
<1>3. CASE CouponAdmin
  BY <1>0, <1>3, CountAdmin DEF CountInv
<1>. QED BY <1>0, <1>1, <1>2, <1>3 DEF Next, CountInv

\* As long as calls neither overlap nor die and an administrator only approves
\* or rejects, the stored count of a coupon is the number of requests that hold
\* it, less the one whose cancellation is under way.
THEOREM CouponCountAlwaysExact ==
  ASSUME OneWorker, MaxFailures = 0, Targets \subseteq {"APPROVED", "REJECTED"}
  PROVE  Spec => []CouponCountExact
<1>1. CountInv => CouponCountExact
  BY DEF CountInv
<1>. QED BY <1>1, InitCount, NextCount, PTL DEF Spec
=============================================================================
