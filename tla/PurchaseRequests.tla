-------------------------- MODULE PurchaseRequests --------------------------
(***************************************************************************)
(* Purchase requests, discount coupons and the purchases they grant:       *)
(* src/src/purchase-request/purchase-request.service.ts and                *)
(* src/src/coupon/coupon.service.ts over the PostgreSQL tables of          *)
(* src/prisma/schema.prisma.                                               *)
(*                                                                         *)
(* Every HTTP call runs on one of the Workers.  A handler gives up the     *)
(* processor at each await, so a call is a sequence of actions, one per    *)
(* query, and calls[w] keeps what the handler has read so far.  One query, *)
(* and one $transaction, is one atomic action.                             *)
(***************************************************************************)
EXTENDS Integers, FiniteSets

CONSTANTS
    Users,          \* accounts with role CLIENT
    Templates,      \* rows of the template table (no code deletes one)
    FreeTemplates,  \* the templates whose price is 0
    Coupons,        \* coupon codes, stored in upper case and unique
    Requests,       \* bound: the request ids the database may hand out
    PaidIds,        \* the ones among them that payments use (module Payments)
    Phones,         \* phone numbers a customer may type in
    Workers,        \* bound: HTTP calls in progress at the same time
    Limits,         \* values an administrator may give maxUses
    NewCoupons,     \* bodies of POST /coupons
    Edits,          \* bodies of PATCH /coupons/:id
    Targets,        \* statuses an administrator sends to PATCH :id/status
    InitPhone,      \* phone number each account was registered with, or None
    MaxBelowZero,   \* bound: how far below zero a used count may fall
    MaxFailures,    \* bound: calls that die between two awaits
    None,           \* undefined / NULL
    NoLimit         \* maxUses = NULL

Statuses == {"PENDING", "APPROVED", "REJECTED", "CANCELLED"}

MaxUsesValues == Limits \cup {NoLimit}

NewCouponDtos == [full : BOOLEAN, max : MaxUsesValues, active : BOOLEAN]

EditDtos == [full : BOOLEAN \cup {None}, max : MaxUsesValues \cup {None},
             active : BOOLEAN \cup {None}]

ASSUME PRAssumption ==
    /\ FreeTemplates \subseteq Templates
    /\ PaidIds \subseteq Requests
    /\ Limits \subseteq Nat \ {0}
    /\ NoLimit \notin Nat
    /\ None \notin Users /\ None \notin Coupons /\ None \notin Requests
    /\ None \notin Phones /\ None \notin MaxUsesValues
    /\ NewCoupons \subseteq NewCouponDtos
    /\ Edits \subseteq EditDtos
    /\ Targets \subseteq Statuses
    /\ InitPhone \in [Users -> Phones \cup {None}]
    /\ MaxBelowZero \in Nat
    /\ MaxFailures \in Nat

ASSUME WorkersAssumption == IsFiniteSet(Workers) /\ IsFiniteSet(Requests)

VARIABLES
    requests,   \* the purchase_requests table
    purchases,  \* purchases.purchase_request_id: the requests that have one
    coupons,    \* the coupons table
    phone,      \* users.phone_number
    calls,      \* per worker: where its handler stands and what it has read
    peak,       \* history: the largest maxUses each coupon has ever had
    failures    \* number of calls that died so far

vars == <<requests, purchases, coupons, phone, calls, peak, failures>>
-----------------------------------------------------------------------------
(* Rows and calls *)

Absent == [status |-> "ABSENT", user |-> None, template |-> None, coupon |-> None]

Rows == [status : Statuses, user : Users, template : Templates,
         coupon : Coupons \cup {None}]

NoCoupon == [exists |-> FALSE, active |-> FALSE, deleted |-> FALSE,
             full |-> FALSE, max |-> NoLimit, used |-> 0]

CouponRows == [exists : BOOLEAN, active : BOOLEAN, deleted : BOOLEAN,
               full : BOOLEAN,           \* discountPercent = 100
               max : MaxUsesValues, used : Int]

NoEdit == [full |-> None, max |-> None, active |-> None]

Steps == {"idle", "readCoupon", "readUse", "commit", "readPhone", "checkPhone",
          "writePhone", "decide", "release", "markCancelled", "writeCoupon"}

Calls == [pc : Steps, user : Users \cup {None}, template : Templates \cup {None},
          coupon : Coupons \cup {None}, full : BOOLEAN, phone : Phones \cup {None},
          req : Requests \cup {None}, target : Statuses \cup {None}, edit : EditDtos]

Idle == [pc |-> "idle", user |-> None, template |-> None, coupon |-> None,
         full |-> FALSE, phone |-> None, req |-> None, target |-> None,
         edit |-> NoEdit]

Init ==
    /\ requests = [r \in Requests |-> Absent]
    /\ purchases = {}
    /\ coupons = [c \in Coupons |-> NoCoupon]
    /\ phone = InitPhone
    /\ calls = [w \in Workers |-> Idle]
    /\ peak = [c \in Coupons |-> NoLimit]
    /\ failures = 0

\* The call of w goes on at step pc.
Goto(w, pc) == calls' = [calls EXCEPT ![w].pc = pc]

\* The handler of w returns, or throws before it has changed anything.
Return(w) == calls' = [calls EXCEPT ![w] = Idle]
-----------------------------------------------------------------------------
(* PurchaseRequestService.create *)

\* mutation: the query for a pending request is dropped
HasPending_Unchecked(u) == FALSE

HasPending(u) ==
    \E r \in Requests : requests[r].user = u /\ requests[r].status = "PENDING"

\* mutation: the limit is not looked at
LimitReached_Unchecked(c) == FALSE

LimitReached(c) == coupons[c].max # NoLimit /\ coupons[c].used >= coupons[c].max

Usable(c) == /\ coupons[c].exists /\ ~coupons[c].deleted /\ coupons[c].active
             /\ ~LimitReached(c)

\* mutation: the query for an earlier use is dropped
HasUsed_Unchecked(u, c) == FALSE

HasUsed(u, c) ==
    \E r \in Requests : /\ requests[r].user = u
                        /\ requests[r].coupon = c
                        /\ requests[r].status \notin {"CANCELLED", "REJECTED"}

\* finalPrice <= 0: with prices in whole cents and a percentage from 1 to 100
\* that is a free template or a 100% coupon.
AutoApproved(call) == call.template \in FreeTemplates \/ call.full

Creating == {"readCoupon", "readUse", "commit"}

FreshIds == {r \in Requests \ PaidIds : requests[r].status = "ABSENT"}

\* Bound: a create call starts only if an unused id is left for its row.
Room == Cardinality({w \in Workers : calls[w].pc \in Creating}) < Cardinality(FreshIds)

\* findFirst PENDING, then the template is read: templates are never deleted
\* and the only column used is the price, so that read is part of this step.
CreateStart(w, u, t, c, p) ==
    /\ calls[w].pc = "idle"
    /\ Room
    /\ ~HasPending(u)
    /\ calls' = [calls EXCEPT ![w] =
           [Idle EXCEPT !.pc = IF c = None THEN "commit" ELSE "readCoupon",
                        !.user = u, !.template = t, !.coupon = c, !.phone = p]]
    /\ UNCHANGED <<requests, purchases, coupons, phone, peak, failures>>

CreateReadCoupon(w) ==
    /\ calls[w].pc = "readCoupon"
    /\ LET c == calls[w].coupon IN
         IF Usable(c)
         THEN calls' = [calls EXCEPT ![w].pc = "readUse", ![w].full = coupons[c].full]
         ELSE Return(w)
    /\ UNCHANGED <<requests, purchases, coupons, phone, peak, failures>>

CreateReadUse(w) ==
    /\ calls[w].pc = "readUse"
    /\ IF HasUsed(calls[w].user, calls[w].coupon) THEN Return(w) ELSE Goto(w, "commit")
    /\ UNCHANGED <<requests, purchases, coupons, phone, peak, failures>>

\* mutation: the approval forgets the purchase
Granted_Forgotten(r, approved) == purchases

\* The purchase that an approval brings with it, inside the same transaction.
Granted(r, approved) == IF approved THEN purchases \cup {r} ELSE purchases

\* The $transaction: count the coupon, insert the request and, when it is
\* approved at once, its purchase.
CreateCommit(w) ==
    /\ calls[w].pc = "commit"
    /\ LET call == calls[w]
           auto == AutoApproved(call)
       IN /\ \E r \in FreshIds :
               /\ requests' = [requests EXCEPT ![r] =
                      [status |-> IF auto THEN "APPROVED" ELSE "PENDING",
                       user |-> call.user, template |-> call.template,
                       coupon |-> call.coupon]]
               /\ purchases' = Granted(r, auto)
          /\ coupons' = IF call.coupon = None THEN coupons
                        ELSE [coupons EXCEPT ![call.coupon].used = @ + 1]
    /\ Goto(w, "readPhone")
    /\ UNCHANGED <<phone, peak, failures>>

\* mutation: the number the account already has is not looked at
ReadPhone_Unchecked(w) ==
    /\ calls[w].pc = "readPhone"
    /\ Goto(w, "checkPhone")
    /\ UNCHANGED <<requests, purchases, coupons, phone, peak, failures>>

ReadPhone(w) ==
    /\ calls[w].pc = "readPhone"
    /\ IF phone[calls[w].user] = None THEN Goto(w, "checkPhone") ELSE Return(w)
    /\ UNCHANGED <<requests, purchases, coupons, phone, peak, failures>>

CheckPhone(w) ==
    /\ calls[w].pc = "checkPhone"
    /\ IF \E u \in Users : phone[u] = calls[w].phone
       THEN Return(w) ELSE Goto(w, "writePhone")
    /\ UNCHANGED <<requests, purchases, coupons, phone, peak, failures>>

\* users.phone_number is unique: the update of a number that another account
\* took meanwhile throws, although the request is already stored.
WritePhone(w) ==
    /\ calls[w].pc = "writePhone"
    /\ LET u == calls[w].user IN
         phone' = IF \E v \in Users \ {u} : phone[v] = calls[w].phone THEN phone
                  ELSE [phone EXCEPT ![u] = calls[w].phone]
    /\ Return(w)
    /\ UNCHANGED <<requests, purchases, coupons, peak, failures>>
-----------------------------------------------------------------------------
(* PurchaseRequestService.updateStatus *)

\* mutation: a request that is decided already is accepted
UpdateRead_AnyStatus(w, r, s) ==
    /\ calls[w].pc = "idle"
    /\ requests[r].status # "ABSENT"
    /\ calls' = [calls EXCEPT ![w] = [Idle EXCEPT !.pc = "decide", !.req = r, !.target = s]]
    /\ UNCHANGED <<requests, purchases, coupons, phone, peak, failures>>

UpdateRead(w, r, s) ==
    /\ calls[w].pc = "idle"
    /\ requests[r].status = "PENDING"
    /\ calls' = [calls EXCEPT ![w] = [Idle EXCEPT !.pc = "decide", !.req = r, !.target = s]]
    /\ UNCHANGED <<requests, purchases, coupons, phone, peak, failures>>

\* mutation: purchase_request_id is not unique
PurchaseConflict_NotUnique(r, s) == FALSE

\* The second insert of a purchase for one request violates the unique key.
PurchaseConflict(r, s) == s = "APPROVED" /\ r \in purchases

\* mutation: the use of the coupon is not given back
Released_Forgotten(r) == coupons

Released(r) ==
    IF requests[r].coupon = None THEN coupons
    ELSE [coupons EXCEPT ![requests[r].coupon].used = @ - 1]

\* Bound: a release that would take the count more than MaxBelowZero below 0 is not explored.
ReleaseFits(r) == requests[r].coupon # None => coupons[requests[r].coupon].used > -MaxBelowZero

\* The $transaction overwrites the status without looking at it again.
UpdateCommit(w) ==
    /\ calls[w].pc = "decide"
    /\ LET r == calls[w].req
           s == calls[w].target
       IN /\ ~PurchaseConflict(r, s)
          /\ s = "REJECTED" => ReleaseFits(r)
          /\ requests' = [requests EXCEPT ![r].status = s]
          /\ purchases' = Granted(r, s = "APPROVED")
          /\ coupons' = IF s = "REJECTED" THEN Released(r) ELSE coupons
    /\ Return(w)
    /\ UNCHANGED <<phone, peak, failures>>

UpdateRollback(w) ==
    /\ calls[w].pc = "decide"
    /\ PurchaseConflict(calls[w].req, calls[w].target)
    /\ Return(w)
    /\ UNCHANGED <<requests, purchases, coupons, phone, peak, failures>>
-----------------------------------------------------------------------------
(* PurchaseRequestService.cancel, by the owner or an administrator *)

CancelRead(w, r) ==
    /\ calls[w].pc = "idle"
    /\ requests[r].status = "PENDING"
    /\ calls' = [calls EXCEPT ![w] =
           [Idle EXCEPT !.pc = IF requests[r].coupon = None THEN "markCancelled"
                               ELSE "release",
                        !.req = r]]
    /\ UNCHANGED <<requests, purchases, coupons, phone, peak, failures>>

CancelRelease(w) ==
    /\ calls[w].pc = "release"
    /\ ReleaseFits(calls[w].req)
    /\ coupons' = Released(calls[w].req)
    /\ Goto(w, "markCancelled")
    /\ UNCHANGED <<requests, purchases, phone, peak, failures>>

CancelWrite(w) ==
    /\ calls[w].pc = "markCancelled"
    /\ requests' = [requests EXCEPT ![calls[w].req].status = "CANCELLED"]
    /\ Return(w)
    /\ UNCHANGED <<purchases, coupons, phone, peak, failures>>
-----------------------------------------------------------------------------
(* CouponService *)

\* history: the largest limit so far, NoLimit once there was none
Raised(p, m) == IF p = NoLimit \/ m = NoLimit THEN NoLimit ELSE IF m > p THEN m ELSE p

\* The code is unique, so of two calls for one code only one inserts a row.
CouponCreate(c, dto) ==
    /\ ~coupons[c].exists
    /\ coupons' = [coupons EXCEPT ![c] =
           [exists |-> TRUE, active |-> dto.active, deleted |-> FALSE,
            full |-> dto.full, max |-> dto.max, used |-> 0]]
    /\ peak' = [peak EXCEPT ![c] = dto.max]
    /\ UNCHANGED <<requests, purchases, phone, calls, failures>>

\* mutation: any limit is accepted
LimitAllowed_Unchecked(c, m) == TRUE

\* A new limit must not be below the uses counted so far.
LimitAllowed(c, m) == m \in Limits => m >= coupons[c].used

CouponUpdateRead(w, c, e) ==
    /\ calls[w].pc = "idle"
    /\ coupons[c].exists
    /\ LimitAllowed(c, e.max)
    /\ calls' = [calls EXCEPT ![w] =
           [Idle EXCEPT !.pc = "writeCoupon", !.coupon = c, !.edit = e]]
    /\ UNCHANGED <<requests, purchases, coupons, phone, peak, failures>>

CouponToggleRead(w, c) ==
    /\ calls[w].pc = "idle"
    /\ coupons[c].exists
    /\ calls' = [calls EXCEPT ![w] =
           [Idle EXCEPT !.pc = "writeCoupon", !.coupon = c,
                        !.edit = [NoEdit EXCEPT !.active = ~coupons[c].active]]]
    /\ UNCHANGED <<requests, purchases, coupons, phone, peak, failures>>

\* mutation: columns the body does not name are overwritten
Given_Unchecked(new, old) == new

\* Only the columns the body names are written.
Given(new, old) == IF new = None THEN old ELSE new

CouponWrite(w) ==
    /\ calls[w].pc = "writeCoupon"
    /\ LET c == calls[w].coupon
           e == calls[w].edit
       IN /\ coupons' = [coupons EXCEPT ![c].full = Given(e.full, @),
                                        ![c].max = Given(e.max, @),
                                        ![c].active = Given(e.active, @)]
          /\ peak' = [peak EXCEPT ![c] = IF e.max = None THEN @ ELSE Raised(@, e.max)]
    /\ Return(w)
    /\ UNCHANGED <<requests, purchases, phone, failures>>

CouponSoftDelete(c) ==
    /\ coupons[c].exists
    /\ coupons' = [coupons EXCEPT ![c].deleted = TRUE, ![c].active = FALSE]
    /\ UNCHANGED <<requests, purchases, phone, calls, peak, failures>>

CouponRestore(c) ==
    /\ coupons[c].exists
    /\ coupons' = [coupons EXCEPT ![c].deleted = FALSE, ![c].active = TRUE]
    /\ UNCHANGED <<requests, purchases, phone, calls, peak, failures>>
-----------------------------------------------------------------------------
\* A call dies between two awaits: its instance stops or a query is refused.
\* What it has written stays.
Fail(w) ==
    /\ calls[w].pc # "idle"
    /\ failures < MaxFailures
    /\ failures' = failures + 1
    /\ Return(w)
    /\ UNCHANGED <<requests, purchases, coupons, phone, peak>>

CreateNext(w) ==
    \/ \E u \in Users, t \in Templates, c \in Coupons \cup {None}, p \in Phones :
          CreateStart(w, u, t, c, p)
    \/ CreateReadCoupon(w)
    \/ CreateReadUse(w)
    \/ CreateCommit(w)
    \/ ReadPhone(w)
    \/ CheckPhone(w)
    \/ WritePhone(w)

DecideNext(w) ==
    \/ \E r \in Requests, s \in Targets : UpdateRead(w, r, s)
    \/ UpdateCommit(w)
    \/ UpdateRollback(w)
    \/ \E r \in Requests : CancelRead(w, r)
    \/ CancelRelease(w)
    \/ CancelWrite(w)

CouponNext(w) ==
    \/ \E c \in Coupons, e \in Edits : CouponUpdateRead(w, c, e)
    \/ \E c \in Coupons : CouponToggleRead(w, c)
    \/ CouponWrite(w)

CouponAdmin ==
    \E c \in Coupons :
       \/ \E dto \in NewCoupons : CouponCreate(c, dto)
       \/ CouponSoftDelete(c)
       \/ CouponRestore(c)

Next ==
    \/ \E w \in Workers : CreateNext(w) \/ DecideNext(w) \/ CouponNext(w) \/ Fail(w)
    \/ CouponAdmin

Spec == Init /\ [][Next]_vars
-----------------------------------------------------------------------------
(* Properties *)

\* Every variable has its type; a call past its first step holds the values
\* that step read (purchase-request.service.ts and coupon.service.ts).
TypeOK ==
    /\ requests \in [Requests -> Rows \cup {Absent}]
    /\ purchases \subseteq Requests
    /\ coupons \in [Coupons -> CouponRows]
    /\ phone \in [Users -> Phones \cup {None}]
    /\ calls \in [Workers -> Calls]
    /\ peak \in [Coupons -> MaxUsesValues]
    /\ failures \in Nat

\* An approved request has its purchase, whatever calls race on it or die on
\* the way: both approvals (create with nothing to pay, updateStatus) write the
\* two rows in one transaction.
ApprovedHasPurchase ==
    \A r \in Requests : requests[r].status = "APPROVED" => r \in purchases

CallsPastLimitCheck(c) == {w \in Workers : /\ calls[w].pc \in {"readUse", "commit"}
                                           /\ calls[w].coupon = c}

\* The limit of a coupon is read in one query and counted in a later one, so
\* concurrent calls can exceed it; by at most one use per other call in
\* progress, and with one call at a time not at all.
CouponOvershootBounded ==
    \A c \in Coupons : coupons[c].exists /\ peak[c] # NoLimit =>
        coupons[c].used + Cardinality(CallsPastLimitCheck(c))
            <= peak[c] + Cardinality(Workers) - 1

Pending(u) == {r \in Requests : requests[r].user = u /\ requests[r].status = "PENDING"}

\* The requests of u that a call in progress is about to set to a status of S.
BeingSet(u, S) == {r \in Requests :
    /\ requests[r].user = u
    /\ \E w \in Workers : /\ calls[w].pc = "decide" /\ calls[w].req = r
                          /\ calls[w].target \in S}

CreatesPastPendingCheck(u) ==
    {w \in Workers : calls[w].pc \in Creating /\ calls[w].user = u}

\* "One pending request per user" is checked in one query and relied on in a
\* later one: a user has at most one pending request per call in progress, and
\* exactly the promised one when calls do not overlap.
PendingBounded ==
    \A u \in Users :
        Cardinality(Pending(u) \cup BeingSet(u, {"PENDING"}))
            + Cardinality(CreatesPastPendingCheck(u)) <= Cardinality(Workers)

LiveUses(u, c) == {r \in Requests : /\ requests[r].user = u
                                    /\ requests[r].coupon = c
                                    /\ requests[r].status \notin {"CANCELLED", "REJECTED"}}

CreatesPastUseCheck(u, c) == {w \in Workers : /\ calls[w].pc = "commit"
                                              /\ calls[w].user = u
                                              /\ calls[w].coupon = c}

\* The same for "one use of a coupon per user": live uses of one coupon by one
\* user never exceed the number of calls that can be in progress.
UsesBounded ==
    \A u \in Users, c \in Coupons :
        Cardinality(LiveUses(u, c) \cup
                    {r \in BeingSet(u, {"PENDING", "APPROVED"}) : requests[r].coupon = c})
            + Cardinality(CreatesPastUseCheck(u, c)) <= Cardinality(Workers)

UsesOf(c) == {r \in Requests : /\ requests[r].coupon = c
                               /\ requests[r].status \notin {"CANCELLED", "REJECTED"}}

ReleasedNotMarked(c) == {w \in Workers : /\ calls[w].pc = "markCancelled"
                                         /\ requests[calls[w].req].coupon = c}

\* usedCount is the number of requests that hold the coupon.  It is kept by
\* increments and decrements spread over create, updateStatus and cancel, and
\* is exact as long as calls neither overlap nor die and an administrator only
\* approves or rejects.
CouponCountExact ==
    \A c \in Coupons : coupons[c].used + Cardinality(ReleasedNotMarked(c))
                         = Cardinality(UsesOf(c))

\* "Maximum number of times this coupon can be used"
\* (dto/create-coupon.dto.ts:31): the count never exceeds the limit in force.
CouponWithinLimit ==
    \A c \in Coupons : coupons[c].exists /\ coupons[c].max # NoLimit =>
        coupons[c].used <= coupons[c].max

\* "Conflict - user already has a PENDING purchase request"
\* (purchase-request.controller.ts:59): no user has two of them.
OnePendingPerUser ==
    \A u \in Users : \A r, s \in Pending(u) : r = s

\* "Only PENDING requests can be transitioned"
\* (purchase-request.service.ts:258): a decided request keeps its status.
OnlyPendingTransitions ==
    [][\A r \in Requests : requests[r].status \in Statuses \ {"PENDING"}
                             => requests'[r].status = requests[r].status]_vars

\* "Update User phone number in profile if not already set"
\* (purchase-request.service.ts:150): a number that is set is not replaced.
PhoneNotReplaced ==
    [][\A u \in Users : phone[u] # None => phone'[u] = phone[u]]_vars
-----------------------------------------------------------------------------
(* Abstract specifications *)

Ledger == INSTANCE AccessLedger WITH
    approved <- {r \in Requests : requests[r].status = "APPROVED"},
    access <- purchases

\* Whatever calls overlap or die, a request is approved at most once, together
\* with its purchase, and the purchase stays (create, updateStatus, cancel).
ImplementsLedger == Ledger!LedgerSpec

Life == INSTANCE RequestLifecycle WITH
    status <- [r \in Requests |-> requests[r].status],
    access <- purchases

\* When calls do not overlap, a request lives as the controller documents it:
\* submitted, then decided once (purchase-request.controller.ts:118, 155).
ImplementsLifecycle == Life!LifeSpec
=============================================================================
