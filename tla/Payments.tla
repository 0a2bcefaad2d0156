------------------------------ MODULE Payments ------------------------------
(***************************************************************************)
(* Orders paid through Tap Payments, src/src/payment/payment.service.ts,   *)
(* beside the purchase requests they fulfil: this module composes with     *)
(* PurchaseRequests over the tables purchase_requests and purchases.       *)
(*                                                                         *)
(* Tap itself is external: it creates a charge on request, lets the        *)
(* customer pay on its page, tells the outcome in webhooks that may come   *)
(* late, repeatedly and in any order, and answers queries about a charge.  *)
(***************************************************************************)
EXTENDS PurchaseRequests

CONSTANTS
    \* bound: PaidIds are the ids for requests that a fulfilment inserts
    Orders,      \* bound: the order ids the database may hand out
    PayWorkers,  \* bound: payment calls in progress at the same time
    Retryable,   \* TRUE when a declined charge can still be paid at Tap
    Posts,       \* bound: webhook bodies that others than Tap may post
    Strays       \* bound: charges that callers name when they ask about any order

ASSUME PayAssumption ==
    /\ None \notin Orders /\ None \notin Templates
    /\ Retryable \in BOOLEAN
    /\ IsFiniteSet(PayWorkers)
    /\ Strays \subseteq Orders

VARIABLES
    orders,    \* the orders table
    charges,   \* at Tap: the charge of each order
    checkout,  \* orders whose customer was given the checkout URL
    notices,   \* webhooks sent by Tap, delivered any number of times
    payCalls,  \* per payment worker: where its handler stands
    paidBy,    \* history: the order whose fulfilment inserted a purchase
    found,     \* history: the accounts that fulfilments of an order found
    posted,    \* history: orders in a webhook that Tap had not sent
    misnamed   \* history: orders asked about under the charge of another

seen == <<found, posted, misnamed>>

payVars == <<orders, charges, checkout, notices, payCalls, paidBy, seen>>

allVars == <<vars, payVars>>

OrderStatuses == {"PENDING", "COMPLETED", "FAILED"}

NoOrder == [status |-> "ABSENT", template |-> None, charge |-> None]

\* template is None when templateDetails names no template; charge is
\* tapChargeId.  The charge that createCharge asks for is called by the order.
OrderRows == [status : OrderStatuses, template : Templates \cup {None},
              charge : Orders \cup {None}]

ChargeStates == {"none", "initiated", "captured", "declined"}

\* reference.transaction, id and status of the body.
Notices == [order : Orders, charge : Orders \cup {None}, status : {"captured", "declined"}]

ASSUME PostsAssumption == Posts \subseteq Notices

PaySteps == {"idle", "post", "link", "giveUp", "fetch", "complete", "fail",
             "findAccount", "findRequest", "createRequest", "approveRequest",
             "findPurchase", "createPurchase"}

PayCallSet == [pc : PaySteps, order : Orders \cup {None}, charge : Orders \cup {None},
               user : Users \cup {None}, req : Requests \cup {None}]

PayIdle == [pc |-> "idle", order |-> None, charge |-> None, user |-> None, req |-> None]

PayInit ==
    /\ Init
    /\ orders = [o \in Orders |-> NoOrder]
    /\ charges = [o \in Orders |-> "none"]
    /\ checkout = {}
    /\ notices = {}
    /\ payCalls = [w \in PayWorkers |-> PayIdle]
    /\ paidBy = [r \in Requests |-> None]
    /\ found = [o \in Orders |-> {}]
    /\ posted = {}
    /\ misnamed = {}

PayGoto(w, pc) == payCalls' = [payCalls EXCEPT ![w].pc = pc]

PayReturn(w) == payCalls' = [payCalls EXCEPT ![w] = PayIdle]

At(w, pc) == payCalls[w].pc = pc

OrderOf(w) == payCalls[w].order
-----------------------------------------------------------------------------
(* createCharge *)

ChargeStart(w, o, t) ==
    /\ At(w, "idle")
    /\ orders[o].status = "ABSENT"
    /\ orders' = [orders EXCEPT ![o] =
           [status |-> "PENDING", template |-> t, charge |-> None]]
    /\ payCalls' = [payCalls EXCEPT ![w] = [PayIdle EXCEPT !.pc = "post", !.order = o]]
    /\ UNCHANGED <<vars, charges, checkout, notices, paidBy, seen>>

\* mutation: the URL is out before the charge is linked to the order
ChargePost_UrlFirst(w) ==
    /\ At(w, "post")
    /\ charges' = [charges EXCEPT ![OrderOf(w)] = "initiated"]
    /\ checkout' = checkout \cup {OrderOf(w)}
    /\ PayGoto(w, "link")
    /\ UNCHANGED <<vars, orders, notices, paidBy, seen>>

\* Tap answers with a charge and its checkout URL.
ChargePost(w) ==
    /\ At(w, "post")
    /\ charges' = [charges EXCEPT ![OrderOf(w)] = "initiated"]
    /\ PayGoto(w, "link")
    /\ UNCHANGED <<vars, orders, checkout, notices, paidBy, seen>>

\* Tap refuses, its answer is lost, or there is no URL in it.
ChargeRefused(w) ==
    /\ At(w, "post")
    /\ \E made \in {"none", "initiated"} : charges' = [charges EXCEPT ![OrderOf(w)] = made]
    /\ PayGoto(w, "giveUp")
    /\ UNCHANGED <<vars, orders, checkout, notices, paidBy, seen>>

\* mutation: tap_charge_id has no unique key
ChargeTaken_NotUnique(o, c) == FALSE

\* Another row has the charge: the unique key of tap_charge_id refuses a write.
ChargeTaken(o, c) == \E p \in Orders \ {o} : orders[p].charge # None /\ orders[p].charge = c

ChargeLink(w) ==
    /\ At(w, "link")
    /\ LET o == OrderOf(w) IN
         /\ ~ChargeTaken(o, o)
         /\ orders' = [orders EXCEPT ![o].charge = o]
         /\ checkout' = checkout \cup {o}
    /\ PayReturn(w)
    /\ UNCHANGED <<vars, charges, notices, paidBy, seen>>

\* The unique key refuses the charge: the catch block runs.
ChargeLinkTaken(w) ==
    /\ At(w, "link")
    /\ ChargeTaken(OrderOf(w), OrderOf(w))
    /\ PayGoto(w, "giveUp")
    /\ UNCHANGED <<vars, orders, charges, checkout, notices, paidBy, seen>>

\* The database refuses the update of tapChargeId: the catch block runs.
ChargeLinkRefused(w) ==
    /\ At(w, "link")
    /\ failures < MaxFailures
    /\ failures' = failures + 1
    /\ PayGoto(w, "giveUp")
    /\ UNCHANGED <<requests, purchases, coupons, phone, calls, peak>>
    /\ UNCHANGED <<orders, charges, checkout, notices, paidBy, seen>>

\* mutation: the catch block writes a status the payment code does not know
ChargeGiveUp_Cancelled(w) ==
    /\ At(w, "giveUp")
    /\ orders' = [orders EXCEPT ![OrderOf(w)].status = "CANCELLED"]
    /\ PayReturn(w)
    /\ UNCHANGED <<vars, charges, checkout, notices, paidBy, seen>>

ChargeGiveUp(w) ==
    /\ At(w, "giveUp")
    /\ orders' = [orders EXCEPT ![OrderOf(w)].status = "FAILED"]
    /\ PayReturn(w)
    /\ UNCHANGED <<vars, charges, checkout, notices, paidBy, seen>>
-----------------------------------------------------------------------------
(* Tap Payments: external *)

Notice(o, s) == [order |-> o, charge |-> o, status |-> s]

Outcome(o, s) ==
    /\ charges' = [charges EXCEPT ![o] = s]
    /\ notices' = notices \cup {Notice(o, s)}
    /\ UNCHANGED <<vars, orders, checkout, payCalls, paidBy, seen>>

\* The customer pays; the checkout page is known only through its URL.
TapCapture(o) ==
    /\ o \in checkout
    /\ charges[o] = "initiated" \/ (Retryable /\ charges[o] = "declined")
    /\ Outcome(o, "captured")

\* FAILED, DECLINED, CANCELLED, EXPIRED or TIMEDOUT
TapDecline(o) ==
    /\ charges[o] = "initiated"
    /\ Outcome(o, "declined")
-----------------------------------------------------------------------------
(* handleWebhook *)

\* mutation: the branches are swapped
Reaction_Swapped(s) == IF s = "captured" THEN "fail" ELSE "complete"

\* Where a captured or declined charge takes the handler.
Reaction(s) == IF s = "captured" THEN "complete" ELSE "fail"

\* mutation: a webhook for a COMPLETED order is handled again
AlreadyProcessed_Never(o) == FALSE

\* The status an order must not have when its webhook is handled.
AlreadyProcessed(o) == orders[o].status = "COMPLETED"

\* A body is taken as it comes: neither its sender nor what it says is checked.
\* Only Tap and the customer who got the checkout URL know the id of an order.
WebhookReceive(w, n) ==
    /\ At(w, "idle")
    /\ n \in notices \/ (n \in Posts /\ n.order \in checkout)
    /\ ~AlreadyProcessed(n.order)
    /\ payCalls' = [payCalls EXCEPT ![w] =
           [PayIdle EXCEPT !.pc = Reaction(n.status), !.order = n.order,
               !.charge = IF n.charge # None THEN n.charge ELSE orders[n.order].charge]]
    /\ posted' = IF n \in notices THEN posted ELSE posted \cup {n.order}
    /\ UNCHANGED <<vars, orders, charges, checkout, notices, paidBy, found, misnamed>>
-----------------------------------------------------------------------------
(* getOrderStatus *)

\* The caller may name a charge in tap_id; Tap's page adds the right one.
PollStart(w, o, c) ==
    /\ At(w, "idle")
    /\ o \in checkout
    /\ orders[o].status = "PENDING"
    /\ c \in {o, orders[o].charge} \cup Strays
    /\ c # None
    /\ payCalls' = [payCalls EXCEPT ![w] =
           [PayIdle EXCEPT !.pc = "fetch", !.order = o, !.charge = c]]
    /\ misnamed' = IF c = o THEN misnamed ELSE misnamed \cup {o}
    /\ UNCHANGED <<vars, orders, charges, checkout, notices, paidBy, found, posted>>

PollFetch(w) ==
    /\ At(w, "fetch")
    /\ LET s == charges[payCalls[w].charge] IN
         IF s \in {"captured", "declined"} THEN PayGoto(w, Reaction(s)) ELSE PayReturn(w)
    /\ UNCHANGED <<vars, orders, charges, checkout, notices, paidBy, seen>>
-----------------------------------------------------------------------------
(* The writes both of them end in *)

\* The outcome is stored together with the charge it was told of.
Settled(w, s) ==
    LET o == OrderOf(w)
        c == payCalls[w].charge
    IN /\ ~ChargeTaken(o, c)
       /\ orders' = [orders EXCEPT ![o].status = s, ![o].charge = c]

\* mutation: the order is completed and nothing is unlocked
Complete_NoFulfilment(w) ==
    /\ At(w, "complete")
    /\ Settled(w, "COMPLETED")
    /\ PayReturn(w)
    /\ UNCHANGED <<vars, charges, checkout, notices, paidBy, seen>>

Complete(w) ==
    /\ At(w, "complete")
    /\ Settled(w, "COMPLETED")
    /\ PayGoto(w, "findAccount")
    /\ UNCHANGED <<vars, charges, checkout, notices, paidBy, seen>>

MarkFailed(w) ==
    /\ At(w, "fail")
    /\ Settled(w, "FAILED")
    /\ PayReturn(w)
    /\ UNCHANGED <<vars, charges, checkout, notices, paidBy, seen>>

\* The webhook answers with an error; the status check logs it.
SettleRefused(w) ==
    /\ payCalls[w].pc \in {"complete", "fail"}
    /\ ChargeTaken(OrderOf(w), payCalls[w].charge)
    /\ PayReturn(w)
    /\ UNCHANGED <<vars, orders, charges, checkout, notices, paidBy, seen>>
-----------------------------------------------------------------------------
(* fulfillTemplateAccess *)

\* The account that has the e-mail address of the order by now, None if nobody
\* has registered with it; a template is never deleted.
FindAccount(w) ==
    /\ At(w, "findAccount")
    /\ \E u \in Users \cup {None} :
         /\ found' = [found EXCEPT ![OrderOf(w)] = @ \cup {u}]
         /\ IF u # None /\ orders[OrderOf(w)].template # None
            THEN payCalls' = [payCalls EXCEPT ![w].pc = "findRequest", ![w].user = u]
            ELSE PayReturn(w)
    /\ UNCHANGED <<vars, orders, charges, checkout, notices, paidBy, posted, misnamed>>

MatchingPending(u, t) == {r \in Requests : /\ requests[r].user = u
                                           /\ requests[r].template = t
                                           /\ requests[r].status = "PENDING"}

FindRequest(w) ==
    /\ At(w, "findRequest")
    /\ LET pending == MatchingPending(payCalls[w].user, orders[OrderOf(w)].template) IN
         IF pending = {} THEN PayGoto(w, "createRequest")
         ELSE \E r \in pending :
                payCalls' = [payCalls EXCEPT ![w].pc = "approveRequest", ![w].req = r]
    /\ UNCHANGED <<vars, orders, charges, checkout, notices, paidBy, seen>>

CreateRequest(w) ==
    /\ At(w, "createRequest")
    /\ \E r \in PaidIds :
         /\ requests[r].status = "ABSENT"
         /\ requests' = [requests EXCEPT ![r] =
                [status |-> "APPROVED", user |-> payCalls[w].user,
                 template |-> orders[OrderOf(w)].template, coupon |-> None]]
         /\ payCalls' = [payCalls EXCEPT ![w].pc = "findPurchase", ![w].req = r]
    /\ UNCHANGED <<purchases, coupons, phone, calls, peak, failures>>
    /\ UNCHANGED <<orders, charges, checkout, notices, paidBy, seen>>

\* mutation: a request that exists already is approved without a purchase
ApproveRequest_NoPurchase(w) ==
    /\ At(w, "approveRequest")
    /\ requests' = [requests EXCEPT ![payCalls[w].req].status = "APPROVED"]
    /\ PayReturn(w)
    /\ UNCHANGED <<purchases, coupons, phone, calls, peak, failures>>
    /\ UNCHANGED <<orders, charges, checkout, notices, paidBy, seen>>

ApproveRequest(w) ==
    /\ At(w, "approveRequest")
    /\ requests' = [requests EXCEPT ![payCalls[w].req].status = "APPROVED"]
    /\ PayGoto(w, "findPurchase")
    /\ UNCHANGED <<purchases, coupons, phone, calls, peak, failures>>
    /\ UNCHANGED <<orders, charges, checkout, notices, paidBy, seen>>

FindPurchase(w) ==
    /\ At(w, "findPurchase")
    /\ IF payCalls[w].req \in purchases THEN PayReturn(w) ELSE PayGoto(w, "createPurchase")
    /\ UNCHANGED <<vars, orders, charges, checkout, notices, paidBy, seen>>

\* If another call inserted the purchase meanwhile, the unique key refuses this
\* one and the error is swallowed.
CreatePurchase(w) ==
    /\ At(w, "createPurchase")
    /\ LET r == payCalls[w].req IN
         /\ purchases' = purchases \cup {r}
         /\ paidBy' = IF r \in purchases THEN paidBy
                      ELSE [paidBy EXCEPT ![r] = OrderOf(w)]
    /\ PayReturn(w)
    /\ UNCHANGED <<requests, coupons, phone, calls, peak, failures>>
    /\ UNCHANGED <<orders, charges, checkout, notices, seen>>
-----------------------------------------------------------------------------
\* A payment call dies between two awaits, or an error in fulfillTemplateAccess
\* or in the status check is logged and dropped.
PayFail(w) ==
    /\ ~At(w, "idle")
    /\ failures < MaxFailures
    /\ failures' = failures + 1
    /\ PayReturn(w)
    /\ UNCHANGED <<requests, purchases, coupons, phone, calls, peak>>
    /\ UNCHANGED <<orders, charges, checkout, notices, paidBy, seen>>

\* fulfillTemplateAccess once it knows the account.
Grant(w) ==
    \/ FindRequest(w)
    \/ CreateRequest(w)
    \/ ApproveRequest(w)
    \/ FindPurchase(w)
    \/ CreatePurchase(w)

\* The steps of a call in progress.
PayStep(w) ==
    \/ ChargePost(w)
    \/ ChargeRefused(w)
    \/ ChargeLink(w)
    \/ ChargeLinkTaken(w)
    \/ ChargeGiveUp(w)
    \/ PollFetch(w)
    \/ Complete(w)
    \/ MarkFailed(w)
    \/ SettleRefused(w)
    \/ FindAccount(w)
    \/ Grant(w)

PayStart(w) ==
    \/ \E o \in Orders, t \in Templates \cup {None} : ChargeStart(w, o, t)
    \/ \E n \in Notices : WebhookReceive(w, n)
    \/ \E o, c \in Orders : PollStart(w, o, c)

PayNext ==
    \/ \E w \in PayWorkers : PayStart(w) \/ PayStep(w) \/ ChargeLinkRefused(w) \/ PayFail(w)
    \/ \E o \in Orders : TapCapture(o) \/ TapDecline(o)

AllNext == PayNext \/ (Next /\ UNCHANGED payVars)

PaySpec == PayInit /\ [][AllNext]_allVars

\* A call in progress goes on, and Tap sends a webhook again until it is
\* answered.  Strong fairness, because it is the bound on PayWorkers and not
\* the server that makes a webhook wait for other calls.
PayFairness ==
    /\ \A w \in PayWorkers : WF_allVars(PayStep(w))
    /\ \A o \in Orders, s \in {"captured", "declined"} :
          SF_allVars(\E w \in PayWorkers : Notice(o, s) \in notices
                                           /\ WebhookReceive(w, Notice(o, s)))

FairPaySpec == PaySpec /\ PayFairness
-----------------------------------------------------------------------------
(* Properties *)

\* Every variable of the payment side has its type (payment.service.ts).
PayTypeOK ==
    /\ orders \in [Orders -> OrderRows \cup {NoOrder}]
    /\ charges \in [Orders -> ChargeStates]
    /\ checkout \subseteq Orders
    /\ notices \subseteq Notices
    /\ payCalls \in [PayWorkers -> PayCallSet]
    /\ paidBy \in [Requests -> Orders \cup {None}]
    /\ found \in [Orders -> SUBSET (Users \cup {None})]
    /\ posted \subseteq Orders /\ misnamed \subseteq Orders

\* Nobody but Tap posted a webhook about the order, and nobody asked for it under
\* the charge of another.  Nothing in the code ensures either.
Genuine(o) == o \notin posted \cup misnamed

\* A payment pays for one order: an order is COMPLETED only on a charge that Tap
\* captured and that no other order has, whichever charges callers name and
\* however webhooks and status checks overlap (handleWebhook, getOrderStatus).
\* handleWebhook believes what is posted, so the orders of webhooks that Tap did
\* not send are excepted.
CompletedWasCaptured ==
    \A o \in Orders \ posted : orders[o].status = "COMPLETED" =>
        /\ orders[o].charge # None /\ charges[orders[o].charge] = "captured"
        /\ \A p \in Orders \ {o} : orders[p].charge # orders[o].charge

\* What was paid is not shown as failed: the stale reads of two handlers and
\* the catch block of createCharge cannot turn a captured order to FAILED, as
\* long as the outcome of a charge at Tap is final and what callers say of the
\* order is genuine.
CapturedNotFailed ==
    \A o \in Orders : Genuine(o) /\ orders[o].status = "FAILED" => charges[o] # "captured"

Owns(u, t) == \E r \in purchases : requests[r].user = u /\ requests[r].template = t

GrantSteps == {"findRequest", "createRequest", "approveRequest", "findPurchase",
               "createPurchase"}

\* The calls that unlock the template of order o.
Fulfilling(o) == {w \in PayWorkers :
    OrderOf(w) = o /\ payCalls[w].pc \in GrantSteps \cup {"findAccount"}}

\* Every account that was found for the order owns the template or is being
\* given it.
Served(o) ==
    \A u \in found[o] \ {None} : orders[o].template # None =>
        \/ Owns(u, orders[o].template)
        \/ \E w \in Fulfilling(o) : payCalls[w].user = u

\* "Order completed and template access approved." (payment.service.ts:216): for
\* a COMPLETED order the account is looked up, and if there is one it has its
\* purchase or is being given it, whoever posted the webhook.
CompletedHasAccess ==
    \A o \in Orders : orders[o].status = "COMPLETED" =>
        (found[o] # {} \/ Fulfilling(o) # {}) /\ Served(o)

\* Once the payment path approves requests too, an approved request has its
\* purchase or is between the two writes of fulfillTemplateAccess.
ApprovedIsFulfilled ==
    \A r \in Requests : requests[r].status = "APPROVED" =>
        \/ r \in purchases
        \/ \E w \in PayWorkers : /\ payCalls[w].req = r
                                 /\ payCalls[w].pc \in {"findPurchase", "createPurchase"}

GrantedBy(o) == {r \in Requests : paidBy[r] = o}

CompletingOrFulfilling(o) == Fulfilling(o) \cup
    {w \in PayWorkers : OrderOf(w) = o /\ payCalls[w].pc = "complete"}

\* A webhook and a status check may both see the order PENDING and both fulfil
\* it; the COMPLETED status stops every later one, so the purchases of one
\* order never exceed the payment calls that can be in progress, as long as
\* what callers say of the order is genuine.
GrantsBounded ==
    \A o \in Orders : Genuine(o) =>
        Cardinality(GrantedBy(o)) + Cardinality(CompletingOrFulfilling(o))
            <= Cardinality(PayWorkers)

\* A captured charge ends in a COMPLETED order although calls die, because Tap
\* repeats the webhook (payment.service.ts:193 skips only COMPLETED orders) and,
\* with genuine callers, no other order has the charge.
CapturedIsCompleted ==
    \A o \in Orders : charges[o] = "captured" ~>
        orders[o].status = "COMPLETED" \/ ~\A p \in Orders : Genuine(p)

\* The account that has the address of a customer who paid ends up owning the
\* template, unless callers said other things of some order.
PaidIsUnlocked ==
    \A o \in Orders : charges[o] = "captured" ~>
        \/ /\ found[o] # {}
           /\ \A u \in found[o] \ {None} : orders[o].template # None
                                               => Owns(u, orders[o].template)
        \/ ~\A p \in Orders : Genuine(p)
=============================================================================
