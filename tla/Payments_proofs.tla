--------------------------- MODULE Payments_proofs ---------------------------
(***************************************************************************)
(* Theorems about Payments, for every number of orders, of requests and of *)
(* calls in progress on either side.                                       *)
(***************************************************************************)
EXTENDS Payments, PurchaseRequests_proofs

\* The steps of createCharge after its first one.
ChargeCall(w) ==
    \/ ChargePost(w)
    \/ ChargeRefused(w)
    \/ ChargeLink(w)
    \/ ChargeLinkTaken(w)
    \/ ChargeLinkRefused(w)
    \/ ChargeGiveUp(w)

\* The steps that look at a charge and store what became of it.
SettleCall(w) == PollFetch(w) \/ Complete(w) \/ MarkFailed(w) \/ SettleRefused(w)

\* Request r is one that pays for the template of order o and account u.
Matches(r, u, o) == /\ r \in Requests /\ requests[r] \in Rows
                    /\ requests[r].user = u
                    /\ requests[r].template = orders[o].template

\* What a payment handler has read by the time it reaches a step.
PayCallOK(w) ==
    LET call == payCalls[w] IN
    /\ call.pc # "idle" => call.order \in Orders /\ orders[call.order] \in OrderRows
    /\ call.pc = "fetch" => call.charge \in Orders
    /\ call.pc \in GrantSteps => /\ call.user \in Users
                                 /\ orders[call.order].template \in Templates
    /\ call.pc \in {"approveRequest", "findPurchase", "createPurchase"}
         => Matches(call.req, call.user, call.order)

PayCallsOK == \A w \in PayWorkers : PayCallOK(w)

\* Tap, customers and fulfilments know only orders that were stored.
TapOK == /\ \A o \in Orders : charges[o] # "none" \/ found[o] # {} => orders[o] \in OrderRows
         /\ \A n \in notices : orders[n.order] \in OrderRows
         /\ \A o \in checkout : orders[o] \in OrderRows

PayTypeInv == TypeInv /\ PayTypeOK /\ PayCallsOK /\ TapOK
-----------------------------------------------------------------------------
LEMMA PayIdleType == PayIdle \in PayCallSet /\ PayIdle.pc = "idle"
  BY DEF PayIdle, PayCallSet, PaySteps

LEMMA PayInitTypeInv == PayInit => PayTypeInv
<1> SUFFICES ASSUME PayInit PROVE PayTypeInv
  OBVIOUS
<1>1. TypeInv
  BY InitTypeInv DEF PayInit
<1>2. PayTypeOK
  BY PayIdleType DEF PayInit, PayTypeOK, ChargeStates
<1>3. PayCallsOK
  BY DEF PayInit, PayCallsOK, PayCallOK, PayIdle, GrantSteps
<1>4. TapOK
  BY DEF PayInit, TapOK
<1>. QED BY <1>1, <1>2, <1>3, <1>4 DEF PayTypeInv

\* No step removes a row or changes whose it is.
RequestsKept == \A r \in Requests : requests[r] \in Rows =>
    /\ requests'[r] \in Rows
    /\ requests'[r].user = requests[r].user
    /\ requests'[r].template = requests[r].template

OrdersKept == \A o \in Orders : orders[o] \in OrderRows =>
    orders'[o] \in OrderRows /\ orders'[o].template = orders[o].template

LEMMA NextKeepsRequests ==
  ASSUME TypeInv, Next PROVE RequestsKept
<1>1. CASE UNCHANGED requests
  BY <1>1 DEF RequestsKept
<1>2. ASSUME NEW w \in Workers, CreateCommit(w) PROVE RequestsKept
  <2>1. PICK r \in Requests, row \in Rows :
           requests[r] = Absent /\ requests' = [requests EXCEPT ![r] = row]
    BY <1>2, CommitAccess
  <2>2. requests[r] \notin Rows
    BY <2>1 DEF Absent, Rows, Statuses
  <2>. QED BY <2>1, <2>2 DEF RequestsKept, TypeInv, TypeOK
<1>3. ASSUME NEW w \in Workers, UpdateCommit(w) \/ CancelWrite(w) PROVE RequestsKept
  <2>1. PICK r \in Requests, s \in Statuses : requests' = [requests EXCEPT ![r].status = s]
    BY <1>3, DecideAccess
  <2>. QED BY <2>1 DEF RequestsKept, TypeInv, TypeOK, Rows
<1>. QED BY <1>1, <1>2, <1>3, Writers

\* A call that stays where it is has what it needs in the next state.
LEMMA CallStays ==
  ASSUME PayTypeInv, RequestsKept, OrdersKept, NEW w \in PayWorkers, payCalls'[w] = payCalls[w]
  PROVE  PayCallOK(w)'
<1>1. PayCallOK(w)
  BY DEF PayTypeInv, PayCallsOK
<1>. QED BY <1>1 DEF PayCallOK, Matches, RequestsKept, OrdersKept, GrantSteps

LEMMA PayStepCalls ==
  ASSUME PayTypeInv, RequestsKept, OrdersKept, NEW w \in PayWorkers, NEW k \in PayCallSet,
         payCalls' = [payCalls EXCEPT ![w] = k], payCalls'[w] = k => PayCallOK(w)'
  PROVE  payCalls' \in [PayWorkers -> PayCallSet] /\ PayCallsOK'
<1>1. payCalls' \in [PayWorkers -> PayCallSet] /\ payCalls'[w] = k
  BY DEF PayTypeInv, PayTypeOK
<1>2. ASSUME NEW v \in PayWorkers, v # w PROVE PayCallOK(v)'
  BY <1>2, CallStays DEF PayTypeInv, PayTypeOK
<1>. QED BY <1>1, <1>2 DEF PayCallsOK

LEMMA PayReturnCalls ==
  ASSUME PayTypeInv, RequestsKept, OrdersKept, NEW w \in PayWorkers, PayReturn(w)
  PROVE  payCalls' \in [PayWorkers -> PayCallSet] /\ PayCallsOK'
<1>1. payCalls'[w] = PayIdle => PayCallOK(w)'
  BY PayIdleType DEF PayCallOK, GrantSteps
<1>. QED BY <1>1, PayIdleType, PayStepCalls DEF PayReturn

\* A call that goes on keeps its order; the step it reaches must find what it needs.
LEMMA PayGotoCalls ==
  ASSUME PayTypeInv, RequestsKept, OrdersKept, NEW w \in PayWorkers, NEW pc \in PaySteps,
         PayGoto(w, pc), ~At(w, "idle"), pc # "fetch",
         pc \in GrantSteps => /\ payCalls[w].user \in Users
                              /\ orders[OrderOf(w)].template \in Templates,
         pc \in {"approveRequest", "findPurchase", "createPurchase"}
            => Matches(payCalls[w].req, payCalls[w].user, OrderOf(w))
  PROVE  payCalls' \in [PayWorkers -> PayCallSet] /\ PayCallsOK'
<1>. DEFINE k == [payCalls[w] EXCEPT !.pc = pc]
<1>1. /\ k \in PayCallSet /\ k.pc = pc /\ k.order = OrderOf(w) /\ k.req = payCalls[w].req
      /\ k.user = payCalls[w].user /\ payCalls' = [payCalls EXCEPT ![w] = k]
  BY DEF PayGoto, OrderOf, PayTypeInv, PayTypeOK, PayCallSet
<1>2. OrderOf(w) \in Orders /\ orders[OrderOf(w)] \in OrderRows
  BY DEF PayTypeInv, PayCallsOK, PayCallOK, At, OrderOf
<1>. HIDE DEF k
<1>3. ASSUME payCalls'[w] = k PROVE PayCallOK(w)'
  BY <1>1, <1>2, <1>3 DEF PayCallOK, OrdersKept, RequestsKept, Matches, GrantSteps
<1>. QED BY <1>1, <1>3, PayStepCalls

LEMMA SameRequests == UNCHANGED requests => RequestsKept
  BY DEF RequestsKept

LEMMA SameOrders == UNCHANGED orders => OrdersKept
  BY DEF OrdersKept

\* The tables of the purchase requests are as good as before.
LEMMA SamePurchaseSide ==
  ASSUME TypeInv, UNCHANGED vars PROVE TypeInv'
  BY DEF vars, TypeInv, TypeOK, CallsOK, CallOK
-----------------------------------------------------------------------------
\* The writes to a stored order name its status or the link to its charge.
LEMMA OrderWritten ==
  ASSUME PayTypeInv, NEW o \in Orders, orders[o] \in OrderRows, NEW s \in OrderStatuses,
         NEW c \in Orders \cup {None},
         \/ orders' = [orders EXCEPT ![o].charge = c]
         \/ orders' = [orders EXCEPT ![o].status = s]
         \/ orders' = [orders EXCEPT ![o].status = s, ![o].charge = c]
  PROVE  orders' \in [Orders -> OrderRows \cup {NoOrder}] /\ OrdersKept
<1>1. ASSUME NEW row \in OrderRows, row.template = orders[o].template,
             orders' = [orders EXCEPT ![o] = row]
      PROVE  orders' \in [Orders -> OrderRows \cup {NoOrder}] /\ OrdersKept
  BY <1>1 DEF PayTypeInv, PayTypeOK, OrdersKept
<1>. DEFINE one == [orders[o] EXCEPT !.charge = c]
            two == [orders[o] EXCEPT !.status = s]
            three == [orders[o] EXCEPT !.status = s, !.charge = c]
<1>2. /\ one \in OrderRows /\ one.template = orders[o].template
      /\ two \in OrderRows /\ two.template = orders[o].template
      /\ three \in OrderRows /\ three.template = orders[o].template
  BY DEF OrderRows
<1>3. \/ orders' = [orders EXCEPT ![o] = one]
      \/ orders' = [orders EXCEPT ![o] = two]
      \/ orders' = [orders EXCEPT ![o] = three]
  OBVIOUS
<1>. HIDE DEF one, two, three
<1>. QED BY <1>1, <1>2, <1>3

LEMMA ChargeTypeInv ==
  ASSUME PayTypeInv, NEW w \in PayWorkers,
         ChargeCall(w)
  PROVE  PayTypeInv'
<1>. DEFINE o == OrderOf(w)
<1>1. ~At(w, "idle") /\ o \in Orders /\ orders[o] \in OrderRows
  BY DEF ChargeCall, ChargePost, ChargeRefused, ChargeLink, ChargeLinkTaken, ChargeLinkRefused,
     ChargeGiveUp, At, OrderOf,
     PayTypeInv, PayCallsOK, PayCallOK
<1>2. UNCHANGED <<requests, purchases, coupons, phone, calls, peak>> /\ failures' \in Nat
  BY DEF ChargeCall, ChargePost, ChargeRefused, ChargeLink, ChargeLinkTaken, ChargeLinkRefused,
     ChargeGiveUp, vars,
     PayTypeInv, TypeInv, TypeOK
<1>3. TypeInv' /\ RequestsKept
  BY <1>2, SameRequests DEF PayTypeInv, TypeInv, TypeOK, CallsOK, CallOK
<1>4. orders' \in [Orders -> OrderRows \cup {NoOrder}] /\ OrdersKept
  <2>1. CASE UNCHANGED orders
    BY <2>1, SameOrders DEF PayTypeInv, PayTypeOK
  <2>2. CASE orders' = [orders EXCEPT ![o].charge = o]
    BY <1>1, <2>2, OrderWritten DEF OrderStatuses
  <2>3. CASE orders' = [orders EXCEPT ![o].status = "FAILED"]
    BY <1>1, <2>3, OrderWritten DEF OrderStatuses
  <2>. QED BY <2>1, <2>2, <2>3
           DEF ChargeCall, ChargePost, ChargeRefused, ChargeLink, ChargeLinkTaken, ChargeLinkRefused,
     ChargeGiveUp
<1>5. payCalls' \in [PayWorkers -> PayCallSet] /\ PayCallsOK'
  <2>1. CASE PayReturn(w)
    BY <1>3, <1>4, <2>1, PayReturnCalls
  <2>2. CASE PayGoto(w, "link") \/ PayGoto(w, "giveUp")
    BY <1>1, <1>3, <1>4, <2>2, PayGotoCalls DEF PaySteps, GrantSteps
  <2>. QED BY <2>1, <2>2 DEF ChargeCall, ChargePost, ChargeRefused, ChargeLink, ChargeLinkTaken, ChargeLinkRefused,
     ChargeGiveUp
<1>6. charges' \in [Orders -> ChargeStates] /\ UNCHANGED <<notices, paidBy, seen>>
  BY <1>1 DEF ChargeCall, ChargePost, ChargeRefused, ChargeLink, ChargeLinkTaken, ChargeLinkRefused,
     ChargeGiveUp,
     PayTypeInv, PayTypeOK, ChargeStates
<1>7. checkout' \subseteq Orders
  BY <1>1 DEF ChargeCall, ChargePost, ChargeRefused, ChargeLink, ChargeLinkTaken, ChargeLinkRefused,
     ChargeGiveUp,
     PayTypeInv, PayTypeOK
<1>8. TapOK'
  <2>1. UNCHANGED charges \/ \E s \in ChargeStates : charges' = [charges EXCEPT ![o] = s]
    BY DEF ChargeCall, ChargePost, ChargeRefused, ChargeLink, ChargeLinkTaken, ChargeLinkRefused,
     ChargeGiveUp, ChargeStates
  <2>2. \A n \in notices : n.order \in Orders
    BY DEF Notices, PayTypeInv, PayTypeOK
  <2>3. checkout' \subseteq checkout \cup {o} /\ found' = found
    BY DEF ChargeCall, ChargePost, ChargeRefused, ChargeLink, ChargeLinkTaken, ChargeLinkRefused,
     ChargeGiveUp, seen
  <2>. HIDE DEF o
  <2>4. \A p \in Orders : charges'[p] # "none" => p = o \/ charges[p] # "none"
    BY <1>1, <2>1 DEF PayTypeInv, PayTypeOK
  <2>. QED BY <1>1, <1>4, <1>6, <2>2, <2>3, <2>4 DEF TapOK, OrdersKept, PayTypeInv, PayTypeOK
<1>. QED BY <1>3, <1>4, <1>5, <1>6, <1>7, <1>8 DEF PayTypeInv, PayTypeOK, seen

\* The steps that move a call and write nothing but orders and the histories.
LEMMA HandlerTypeInv ==
  ASSUME PayTypeInv, UNCHANGED <<vars, charges, checkout, notices, paidBy, found>>,
         orders' \in [Orders -> OrderRows \cup {NoOrder}], OrdersKept,
         posted' \subseteq Orders, misnamed' \subseteq Orders,
         payCalls' \in [PayWorkers -> PayCallSet], PayCallsOK'
  PROVE  PayTypeInv'
<1>1. TypeInv'
  BY SamePurchaseSide DEF PayTypeInv
<1>2. TapOK'
  BY DEF TapOK, OrdersKept, PayTypeInv, PayTypeOK, Notices
<1>. QED BY <1>1, <1>2 DEF PayTypeInv, PayTypeOK

LEMMA StartTypeInv ==
  ASSUME PayTypeInv, NEW w \in PayWorkers, PayStart(w)
  PROVE  PayTypeInv'
<1>. USE PRAssumption, PayAssumption
<1>0. posted \subseteq Orders /\ misnamed \subseteq Orders
  BY DEF PayTypeInv, PayTypeOK
<1>1. ASSUME NEW o \in Orders, NEW t \in Templates \cup {None}, ChargeStart(w, o, t)
      PROVE  PayTypeInv'
  <2>. DEFINE row == [status |-> "PENDING", template |-> t, charge |-> None]
              k == [PayIdle EXCEPT !.pc = "post", !.order = o]
  <2>1. row \in OrderRows /\ k \in PayCallSet /\ k.pc = "post" /\ k.order = o
    BY PayIdleType DEF OrderRows, OrderStatuses, PayIdle, PayCallSet, PaySteps
  <2>2. /\ orders' = [orders EXCEPT ![o] = row] /\ payCalls' = [payCalls EXCEPT ![w] = k]
        /\ UNCHANGED <<vars, charges, checkout, notices, paidBy, seen>>
        /\ orders[o] \notin OrderRows
    BY <1>1 DEF ChargeStart, OrderRows, OrderStatuses
  <2>. HIDE DEF row, k
  <2>3. orders' \in [Orders -> OrderRows \cup {NoOrder}] /\ OrdersKept /\ orders'[o] \in OrderRows
    BY <2>1, <2>2 DEF PayTypeInv, PayTypeOK, OrdersKept
  <2>4. RequestsKept
    BY <2>2, SameRequests DEF vars
  <2>5. payCalls'[w] = k => PayCallOK(w)'
    BY <2>1, <2>3 DEF PayCallOK, GrantSteps
  <2>6. payCalls' \in [PayWorkers -> PayCallSet] /\ PayCallsOK'
    BY <2>1, <2>2, <2>3, <2>4, <2>5, PayStepCalls
  <2>. QED BY <1>0, <2>2, <2>3, <2>6, HandlerTypeInv DEF seen
<1>2. ASSUME NEW o \in Orders, NEW pc \in {"complete", "fail", "fetch"}, orders[o] \in OrderRows,
             NEW c \in Orders \cup {None}, pc = "fetch" => c \in Orders,
             payCalls' = [payCalls EXCEPT ![w] =
                 [PayIdle EXCEPT !.pc = pc, !.order = o, !.charge = c]],
             posted' \subseteq Orders, misnamed' \subseteq Orders,
             UNCHANGED <<vars, orders, charges, checkout, notices, paidBy, found>>
      PROVE  PayTypeInv'
  <2>. DEFINE k == [PayIdle EXCEPT !.pc = pc, !.order = o, !.charge = c]
  <2>1. k \in PayCallSet /\ k.pc = pc /\ k.order = o /\ k.charge = c
    BY PayIdleType DEF PayIdle, PayCallSet, PaySteps
  <2>2. payCalls' = [payCalls EXCEPT ![w] = k]
    BY <1>2
  <2>. HIDE DEF k
  <2>3. RequestsKept /\ OrdersKept
    BY <1>2, SameRequests, SameOrders DEF vars
  <2>4. payCalls'[w] = k => PayCallOK(w)'
    BY <1>2, <2>1 DEF PayCallOK, GrantSteps
  <2>5. payCalls' \in [PayWorkers -> PayCallSet] /\ PayCallsOK'
    BY <2>1, <2>2, <2>3, <2>4, PayStepCalls
  <2>6. orders' \in [Orders -> OrderRows \cup {NoOrder}]
    BY <1>2 DEF PayTypeInv, PayTypeOK
  <2>. QED BY <1>2, <2>3, <2>5, <2>6, HandlerTypeInv
<1>3. ASSUME NEW n \in Notices, WebhookReceive(w, n) PROVE PayTypeInv'
  <2>1. n.order \in Orders /\ orders[n.order] \in OrderRows
    BY <1>3 DEF WebhookReceive, Notices, PayTypeInv, TapOK
  <2>2. Reaction(n.status) \in {"complete", "fail"}
    BY DEF Reaction
  <2>3. PICK c \in Orders \cup {None} :
           c = IF n.charge # None THEN n.charge ELSE orders[n.order].charge
    BY <2>1 DEF Notices, OrderRows
  <2>4. /\ payCalls' = [payCalls EXCEPT ![w] = [PayIdle EXCEPT
               !.pc = Reaction(n.status), !.order = n.order, !.charge = c]]
        /\ posted' \subseteq Orders /\ misnamed' \subseteq Orders
        /\ UNCHANGED <<vars, orders, charges, checkout, notices, paidBy, found>>
    BY <1>0, <1>3, <2>1, <2>3 DEF WebhookReceive
  <2>. QED BY <1>2, <2>1, <2>2, <2>4
<1>4. ASSUME NEW o \in Orders, NEW c \in Orders, PollStart(w, o, c) PROVE PayTypeInv'
  <2>1. orders[o] \in OrderRows
    BY <1>4 DEF PollStart, PayTypeInv, PayTypeOK, NoOrder
  <2>2. posted' \subseteq Orders /\ misnamed' \subseteq Orders
    BY <1>0, <1>4 DEF PollStart
  <2>. QED BY <1>2, <1>4, <2>1, <2>2 DEF PollStart
<1>. QED BY <1>1, <1>3, <1>4 DEF PayStart

LEMMA SettleTypeInv ==
  ASSUME PayTypeInv, NEW w \in PayWorkers, SettleCall(w)
  PROVE  PayTypeInv'
<1>. DEFINE o == OrderOf(w)
<1>1. /\ ~At(w, "idle") /\ o \in Orders /\ orders[o] \in OrderRows
      /\ UNCHANGED <<vars, charges, checkout, notices, paidBy, seen>>
  BY DEF SettleCall, PollFetch, Complete, MarkFailed, SettleRefused, At, OrderOf, PayTypeInv,
     PayCallsOK, PayCallOK
<1>2. RequestsKept
  BY <1>1, SameRequests DEF vars
<1>3. orders' \in [Orders -> OrderRows \cup {NoOrder}] /\ OrdersKept
  <2>1. CASE UNCHANGED orders
    BY <2>1, SameOrders DEF PayTypeInv, PayTypeOK
  <2>2. ASSUME NEW s \in OrderStatuses, Settled(w, s)
        PROVE  orders' \in [Orders -> OrderRows \cup {NoOrder}] /\ OrdersKept
    <3>1. payCalls[w].charge \in Orders \cup {None}
      BY DEF PayTypeInv, PayTypeOK, PayCallSet
    <3>. QED BY <1>1, <2>2, <3>1, OrderWritten DEF Settled
  <2>. QED BY <2>1, <2>2 DEF SettleCall, PollFetch, Complete, MarkFailed, SettleRefused,
           OrderStatuses
<1>4. payCalls' \in [PayWorkers -> PayCallSet] /\ PayCallsOK'
  <2>1. CASE PayReturn(w)
    BY <1>2, <1>3, <2>1, PayReturnCalls
  <2>2. CASE PayGoto(w, "complete") \/ PayGoto(w, "fail") \/ PayGoto(w, "findAccount")
    BY <1>1, <1>2, <1>3, <2>2, PayGotoCalls DEF PaySteps, GrantSteps
  <2>. QED BY <2>1, <2>2 DEF SettleCall, PollFetch, Complete, MarkFailed, SettleRefused, Reaction
<1>5. posted' \subseteq Orders /\ misnamed' \subseteq Orders
  BY <1>1 DEF seen, PayTypeInv, PayTypeOK
<1>. QED BY <1>1, <1>3, <1>4, <1>5, HandlerTypeInv DEF seen

LEMMA FulfilCall ==
  ASSUME PayTypeInv, NEW w \in PayWorkers, payCalls[w].pc \in GrantSteps
  PROVE  /\ ~At(w, "idle") /\ OrderOf(w) \in Orders /\ orders[OrderOf(w)] \in OrderRows
         /\ payCalls[w].user \in Users /\ orders[OrderOf(w)].template \in Templates
         /\ payCalls[w].pc \in {"approveRequest", "findPurchase", "createPurchase"}
              => Matches(payCalls[w].req, payCalls[w].user, OrderOf(w))
  BY DEF PayTypeInv, PayCallsOK, PayCallOK, GrantSteps, At, OrderOf

\* The account is looked up and the calls that it makes follow.
LEMMA FindAccountTypeInv ==
  ASSUME PayTypeInv, NEW w \in PayWorkers, FindAccount(w)
  PROVE  PayTypeInv'
<1>. DEFINE o == OrderOf(w)
<1>1. /\ ~At(w, "idle") /\ o \in Orders /\ orders[o] \in OrderRows
      /\ UNCHANGED <<vars, orders, charges, checkout, notices, paidBy, posted, misnamed>>
  BY DEF FindAccount, At, OrderOf, PayTypeInv, PayCallsOK, PayCallOK
<1>2. RequestsKept /\ OrdersKept /\ TypeInv'
  BY <1>1, SameRequests, SameOrders, SamePurchaseSide DEF vars, PayTypeInv
<1>3. PICK u \in Users \cup {None} :
         /\ found' = [found EXCEPT ![o] = @ \cup {u}]
         /\ IF u # None /\ orders[o].template # None
            THEN payCalls' = [payCalls EXCEPT ![w].pc = "findRequest", ![w].user = u]
            ELSE PayReturn(w)
  BY DEF FindAccount
<1>4. payCalls' \in [PayWorkers -> PayCallSet] /\ PayCallsOK'
  <2>1. CASE PayReturn(w)
    BY <1>2, <2>1, PayReturnCalls
  <2>2. CASE u # None /\ orders[o].template # None
              /\ payCalls' = [payCalls EXCEPT ![w].pc = "findRequest", ![w].user = u]
    <3>. DEFINE k == [payCalls[w] EXCEPT !.pc = "findRequest", !.user = u]
    <3>1. /\ k \in PayCallSet /\ k.pc = "findRequest" /\ k.user = u /\ k.order = o
          /\ payCalls' = [payCalls EXCEPT ![w] = k]
      BY <2>2 DEF PayTypeInv, PayTypeOK, PayCallSet, PaySteps, OrderOf
    <3>2. u \in Users /\ orders[o].template \in Templates
      BY <1>1, <2>2 DEF OrderRows
    <3>. HIDE DEF k, o
    <3>3. payCalls'[w] = k => PayCallOK(w)'
      BY <1>1, <1>2, <3>1, <3>2 DEF PayCallOK, OrdersKept, GrantSteps
    <3>. QED BY <1>2, <3>1, <3>3, PayStepCalls
  <2>. QED BY <1>3, <2>1, <2>2
<1>5. found' \in [Orders -> SUBSET (Users \cup {None})] /\ \A p \in Orders : p # o => found'[p] = found[p]
  BY <1>1, <1>3 DEF PayTypeInv, PayTypeOK
<1>6. TapOK'
  BY <1>1, <1>5 DEF PayTypeInv, TapOK
<1>7. PayTypeOK'
  BY <1>1, <1>4, <1>5 DEF PayTypeInv, PayTypeOK
<1>. QED BY <1>2, <1>4, <1>6, <1>7 DEF PayTypeInv

\* A call goes on with a request that its order may approve.
LEMMA PayRequestCalls ==
  ASSUME PayTypeInv, RequestsKept, OrdersKept, NEW w \in PayWorkers,
         payCalls[w].pc \in GrantSteps, NEW pc \in {"approveRequest", "findPurchase"},
         NEW r \in Requests, requests'[r] \in Rows,
         requests'[r].user = payCalls[w].user,
         requests'[r].template = orders[OrderOf(w)].template,
         payCalls' = [payCalls EXCEPT ![w].pc = pc, ![w].req = r]
  PROVE  payCalls' \in [PayWorkers -> PayCallSet] /\ PayCallsOK'
<1>. DEFINE k == [payCalls[w] EXCEPT !.pc = pc, !.req = r]
<1>1. /\ k \in PayCallSet /\ k.pc = pc /\ k.req = r /\ k.order = OrderOf(w)
      /\ k.user = payCalls[w].user
      /\ payCalls' = [payCalls EXCEPT ![w] = k] /\ payCalls'[w] = k
  BY DEF PayTypeInv, PayTypeOK, PayCallSet, PaySteps, OrderOf
<1>. HIDE DEF k
<1>2. /\ OrderOf(w) \in Orders /\ orders[OrderOf(w)] \in OrderRows
      /\ payCalls[w].user \in Users /\ orders[OrderOf(w)].template \in Templates
  BY FulfilCall
<1>3. PayCallOK(w)'
  BY <1>1, <1>2 DEF PayCallOK, OrdersKept, Matches
<1>. QED BY <1>1, <1>3, PayStepCalls

\* Only calls move and requests and purchases change.
LEMMA FulfilmentTypeInv ==
  ASSUME PayTypeInv, RequestsKept,
         requests' \in [Requests -> Rows \cup {Absent}], purchases' \subseteq Requests,
         UNCHANGED <<coupons, phone, calls, peak, failures>>,
         \A r \in Requests : requests[r] \in Rows => requests'[r].coupon = requests[r].coupon,
         UNCHANGED <<orders, charges, checkout, notices, seen>>,
         paidBy' \in [Requests -> Orders \cup {None}],
         payCalls' \in [PayWorkers -> PayCallSet], PayCallsOK'
  PROVE  PayTypeInv'
<1>1. TypeOK'
  BY DEF PayTypeInv, TypeInv, TypeOK
<1>2. CallsOK'
  BY DEF PayTypeInv, TypeInv, CallsOK, CallOK, RequestsKept
<1>. QED BY <1>1, <1>2 DEF PayTypeInv, TypeInv, PayTypeOK, TapOK, seen

LEMMA FulfilTypeInv ==
  ASSUME PayTypeInv, NEW w \in PayWorkers, Grant(w)
  PROVE  PayTypeInv'
<1>. DEFINE o == OrderOf(w)
<1>0. payCalls[w].pc \in GrantSteps /\ OrdersKept /\ UNCHANGED seen
  BY SameOrders DEF Grant, FindRequest, CreateRequest, ApproveRequest, FindPurchase,
     CreatePurchase, At, GrantSteps
<1>s. UNCHANGED seen => posted' \subseteq Orders /\ misnamed' \subseteq Orders /\ UNCHANGED found
  BY DEF seen, PayTypeInv, PayTypeOK
<1>1. CASE FindRequest(w)
  <2>1. RequestsKept /\ UNCHANGED <<vars, orders, charges, checkout, notices, paidBy>>
    BY <1>1, SameRequests DEF FindRequest, vars
  <2>2. payCalls' \in [PayWorkers -> PayCallSet] /\ PayCallsOK'
    <3>1. CASE PayGoto(w, "createRequest")
      BY <1>0, <2>1, <3>1, FulfilCall, PayGotoCalls DEF PaySteps
    <3>2. ASSUME NEW r \in MatchingPending(payCalls[w].user, orders[o].template),
                 payCalls' = [payCalls EXCEPT ![w].pc = "approveRequest", ![w].req = r]
          PROVE  payCalls' \in [PayWorkers -> PayCallSet] /\ PayCallsOK'
      <4>1. r \in Requests /\ requests[r] \in Rows
        BY <1>0, FulfilCall, PRAssumption DEF MatchingPending, PayTypeInv, TypeInv, TypeOK, Absent
      <4>2. /\ requests'[r] \in Rows /\ requests'[r].user = payCalls[w].user
            /\ requests'[r].template = orders[o].template
        BY <2>1, <4>1 DEF MatchingPending, vars
      <4>. QED BY <1>0, <2>1, <3>2, <4>1, <4>2, PayRequestCalls
    <3>. QED BY <1>1, <3>1, <3>2 DEF FindRequest
  <2>3. orders' \in [Orders -> OrderRows \cup {NoOrder}]
    BY <2>1 DEF PayTypeInv, PayTypeOK
  <2>. QED BY <1>0, <1>s, <2>1, <2>2, <2>3, HandlerTypeInv
<1>2. CASE CreateRequest(w)
  <2>. DEFINE row == [status |-> "APPROVED", user |-> payCalls[w].user,
                      template |-> orders[o].template, coupon |-> None]
  <2>1. PICK r \in PaidIds : /\ requests[r].status = "ABSENT"
                             /\ requests' = [requests EXCEPT ![r] = row]
                             /\ payCalls' = [payCalls EXCEPT ![w].pc = "findPurchase", ![w].req = r]
    BY <1>2 DEF CreateRequest
  <2>2. row \in Rows /\ row.user = payCalls[w].user /\ row.template = orders[o].template
    BY <1>0, FulfilCall DEF Rows, Statuses
  <2>. HIDE DEF row
  <2>3. r \in Requests /\ requests[r] \notin Rows
    BY <2>1, PRAssumption DEF Rows, Statuses
  <2>4. requests' \in [Requests -> Rows \cup {Absent}] /\ requests'[r] = row /\ RequestsKept
    BY <2>1, <2>2, <2>3 DEF RequestsKept, PayTypeInv, TypeInv, TypeOK
  <2>5. \A q \in Requests : requests[q] \in Rows => requests'[q].coupon = requests[q].coupon
    BY <2>1, <2>3 DEF PayTypeInv, TypeInv, TypeOK
  <2>6. UNCHANGED <<purchases, coupons, phone, calls, peak, failures>>
        /\ UNCHANGED <<orders, charges, checkout, notices, paidBy>>
    BY <1>2 DEF CreateRequest
  <2>7. /\ requests'[r] \in Rows /\ requests'[r].user = payCalls[w].user
        /\ requests'[r].template = orders[o].template
    BY <2>2, <2>4
  <2>8. payCalls' \in [PayWorkers -> PayCallSet] /\ PayCallsOK'
    BY <1>0, <2>1, <2>3, <2>4, <2>7, PayRequestCalls
  <2>9. purchases' \subseteq Requests /\ paidBy' \in [Requests -> Orders \cup {None}]
    BY <2>6 DEF PayTypeInv, PayTypeOK, TypeInv, TypeOK
  <2>. QED BY <1>0, <2>4, <2>5, <2>6, <2>8, <2>9, FulfilmentTypeInv
<1>3. CASE ApproveRequest(w)
  <2>. DEFINE r == payCalls[w].req
  <2>1. Matches(r, payCalls[w].user, o)
    BY <1>0, <1>3, FulfilCall DEF ApproveRequest, At
  <2>2. UNCHANGED <<purchases, coupons, phone, calls, peak, failures>>
        /\ UNCHANGED <<orders, charges, checkout, notices, paidBy>>
        /\ requests' = [requests EXCEPT ![r].status = "APPROVED"] /\ PayGoto(w, "findPurchase")
    BY <1>3 DEF ApproveRequest
  <2>. HIDE DEF r
  <2>3. /\ requests' \in [Requests -> Rows \cup {Absent}] /\ RequestsKept
        /\ \A q \in Requests : requests[q] \in Rows => requests'[q].coupon = requests[q].coupon
    BY <2>1, <2>2 DEF Matches, RequestsKept, Rows, Statuses, PayTypeInv, TypeInv, TypeOK
  <2>4. payCalls' \in [PayWorkers -> PayCallSet] /\ PayCallsOK'
    BY <1>0, <2>1, <2>2, <2>3, FulfilCall, PayGotoCalls DEF PaySteps, r
  <2>5. purchases' \subseteq Requests /\ paidBy' \in [Requests -> Orders \cup {None}]
    BY <2>2 DEF PayTypeInv, PayTypeOK, TypeInv, TypeOK
  <2>. QED BY <1>0, <2>2, <2>3, <2>4, <2>5, FulfilmentTypeInv
<1>4. CASE FindPurchase(w)
  <2>1. RequestsKept /\ UNCHANGED <<vars, orders, charges, checkout, notices, paidBy>>
    BY <1>4, SameRequests DEF FindPurchase, vars
  <2>2. Matches(payCalls[w].req, payCalls[w].user, o)
    BY <1>0, <1>4, FulfilCall DEF FindPurchase, At
  <2>3. payCalls' \in [PayWorkers -> PayCallSet] /\ PayCallsOK'
    <3>1. CASE PayReturn(w)
      BY <1>0, <2>1, <3>1, PayReturnCalls
    <3>2. CASE PayGoto(w, "createPurchase")
      BY <1>0, <2>1, <2>2, <3>2, FulfilCall, PayGotoCalls DEF PaySteps
    <3>. QED BY <1>4, <3>1, <3>2 DEF FindPurchase
  <2>4. orders' \in [Orders -> OrderRows \cup {NoOrder}]
    BY <2>1 DEF PayTypeInv, PayTypeOK
  <2>. QED BY <1>0, <1>s, <2>1, <2>3, <2>4, HandlerTypeInv
<1>5. CASE CreatePurchase(w)
  <2>. DEFINE r == payCalls[w].req
  <2>1. r \in Requests
    BY <1>0, <1>5, FulfilCall DEF CreatePurchase, At, Matches
  <2>2. /\ UNCHANGED <<requests, coupons, phone, calls, peak, failures>>
        /\ UNCHANGED <<orders, charges, checkout, notices>>
        /\ purchases' = purchases \cup {r} /\ PayReturn(w)
        /\ paidBy' = IF r \in purchases THEN paidBy ELSE [paidBy EXCEPT ![r] = o]
    BY <1>5 DEF CreatePurchase
  <2>. HIDE DEF r
  <2>3. RequestsKept /\ requests' \in [Requests -> Rows \cup {Absent}]
        /\ \A q \in Requests : requests[q] \in Rows => requests'[q].coupon = requests[q].coupon
    BY <2>2, SameRequests DEF PayTypeInv, TypeInv, TypeOK
  <2>4. purchases' \subseteq Requests /\ paidBy' \in [Requests -> Orders \cup {None}]
    BY <1>0, <2>1, <2>2, FulfilCall DEF PayTypeInv, PayTypeOK, TypeInv, TypeOK
  <2>5. payCalls' \in [PayWorkers -> PayCallSet] /\ PayCallsOK'
    BY <1>0, <2>2, <2>3, PayReturnCalls
  <2>. QED BY <1>0, <2>2, <2>3, <2>4, <2>5, FulfilmentTypeInv
<1>. QED BY <1>1, <1>2, <1>3, <1>4, <1>5 DEF Grant

LEMMA TapTypeInv ==
  ASSUME PayTypeInv, NEW o \in Orders, TapCapture(o) \/ TapDecline(o)
  PROVE  PayTypeInv'
<1>1. PICK s \in {"captured", "declined"} : Outcome(o, s)
  BY DEF TapCapture, TapDecline
<1>2. charges[o] # "none"
  BY DEF TapCapture, TapDecline
<1>3. TypeInv'
  BY <1>1, SamePurchaseSide DEF Outcome, PayTypeInv
<1>4. PayTypeOK'
  BY <1>1 DEF Outcome, Notice, PayTypeInv, PayTypeOK, ChargeStates, Notices, seen
<1>5. PayCallsOK'
  BY <1>1 DEF Outcome, PayTypeInv, PayCallsOK, PayCallOK, Matches, vars
<1>6. TapOK'
  BY <1>1, <1>2 DEF Outcome, Notice, PayTypeInv, PayTypeOK, TapOK, seen
<1>. QED BY <1>3, <1>4, <1>5, <1>6 DEF PayTypeInv

\* The purchase requests move beside the payments.
LEMMA OtherTypeInv ==
  ASSUME PayTypeInv, Next, UNCHANGED payVars
  PROVE  PayTypeInv'
<1>1. TypeInv' /\ RequestsKept
  BY NextTypeInv, NextKeepsRequests DEF PayTypeInv
<1>2. PayCallsOK'
  BY <1>1, CallStays, SameOrders DEF payVars, PayCallsOK
<1>. QED BY <1>1, <1>2 DEF PayTypeInv, PayTypeOK, TapOK, payVars, seen

LEMMA PayFailTypeInv ==
  ASSUME PayTypeInv, NEW w \in PayWorkers, PayFail(w)
  PROVE  PayTypeInv'
<1>1. TypeInv' /\ RequestsKept /\ OrdersKept
  BY SameRequests, SameOrders DEF PayFail, PayTypeInv, TypeInv, TypeOK, CallsOK, CallOK
<1>2. payCalls' \in [PayWorkers -> PayCallSet] /\ PayCallsOK'
  BY <1>1, PayReturnCalls DEF PayFail
<1>. QED BY <1>1, <1>2 DEF PayFail, PayTypeInv, PayTypeOK, TapOK, seen

LEMMA NextPayTypeInv == PayTypeInv /\ [AllNext]_allVars => PayTypeInv'
<1> SUFFICES ASSUME PayTypeInv, [AllNext]_allVars PROVE PayTypeInv'
  OBVIOUS
<1>1. CASE UNCHANGED allVars
  <2>1. UNCHANGED vars /\ UNCHANGED payVars
    BY <1>1 DEF allVars
  <2>2. TypeInv'
    BY <2>1, SamePurchaseSide DEF PayTypeInv
  <2>. QED BY <2>1, <2>2 DEF vars, payVars, PayTypeInv, PayTypeOK, PayCallsOK, PayCallOK,
           Matches, TapOK, seen
<1>2. ASSUME NEW w \in PayWorkers, PayStep(w) \/ ChargeLinkRefused(w) PROVE PayTypeInv'
  BY <1>2, ChargeTypeInv, SettleTypeInv, FindAccountTypeInv, FulfilTypeInv
     DEF PayStep, ChargeCall, SettleCall
<1>3. CASE PayNext
  BY <1>2, <1>3, StartTypeInv, PayFailTypeInv, TapTypeInv DEF PayNext
<1>. QED BY <1>1, <1>3, OtherTypeInv DEF AllNext

\* The payment side is well typed in every reachable state.
THEOREM PayTypeCorrect == PaySpec => []PayTypeOK
<1>1. PayTypeInv => PayTypeOK
  BY DEF PayTypeInv
<1>. QED BY <1>1, PayInitTypeInv, NextPayTypeInv, PTL DEF PaySpec
-----------------------------------------------------------------------------
(* The charge and the order that it pays *)

\* The steps of createCharge, before the customer has the URL.
Charging == {"post", "link", "giveUp"}

\* One call creates the charge of an order, nobody can pay it or ask about it
\* meanwhile.
OneCharging ==
    /\ \A v, w \in PayWorkers :
          payCalls[v].pc \in Charging /\ payCalls[w].pc \in Charging
              /\ OrderOf(v) = OrderOf(w) => v = w
    /\ \A w \in PayWorkers :
          /\ payCalls[w].pc \in Charging => OrderOf(w) \notin checkout
          /\ payCalls[w].pc = "post" => charges[OrderOf(w)] = "none"
          /\ payCalls[w].pc \in {"fetch", "complete"} => OrderOf(w) \in checkout

Paid(c) == c # None /\ charges[c] = "captured"

\* What is known of a capture: by Tap, by its webhooks, by a handler that was not
\* told by somebody else, and by the order that it completed.
CapturesAgree ==
    /\ \A o \in Orders : charges[o] = "captured" => o \in checkout
    /\ \A n \in notices : n.charge = n.order /\ (n.status = "captured" => Paid(n.charge))
    /\ \A w \in PayWorkers : At(w, "complete") => OrderOf(w) \in posted \/ Paid(payCalls[w].charge)
    /\ \A o \in Orders : orders[o].status = "COMPLETED" =>
          o \in checkout /\ (o \in posted \/ Paid(orders[o].charge))

\* What the unique key of tap_charge_id keeps.
UniqueCharges == \A o, p \in Orders :
    o # p /\ orders[o].charge # None => orders[p].charge # orders[o].charge

CaptureInv == PayTypeInv /\ OneCharging /\ CapturesAgree /\ UniqueCharges

\* What callers say of an order is genuine: with final outcomes at Tap, all that
\* is known of a decline agrees.  An order is FAILED after a decline, or because
\* its charge will never have a URL.
DeclinesAgree ==
    /\ \A n \in notices : n.status = "declined" => charges[n.order] = "declined"
    /\ \A w \in PayWorkers : Genuine(OrderOf(w)) =>
          /\ payCalls[w].pc \in {"fetch", "complete", "fail"} => payCalls[w].charge = OrderOf(w)
          /\ At(w, "fail") => charges[OrderOf(w)] = "declined"
    /\ \A o \in Orders : Genuine(o) =>
          /\ orders[o].charge \in {None, o}
          /\ orders[o].status = "FAILED" =>
                \/ charges[o] = "declined"
                \/ o \notin checkout /\ \A w \in PayWorkers :
                      payCalls[w].pc \in Charging => OrderOf(w) # o

DeclineInv == CaptureInv /\ DeclinesAgree

\* The calls that may still add a purchase of order o.
Active(o) == {w \in PayWorkers : OrderOf(w) = o /\ payCalls[w].pc \in
                                    GrantSteps \cup {"fetch", "complete", "findAccount"}}

\* Nothing was granted before the order is COMPLETED, and no call starts after.
GrantInv ==
    /\ DeclineInv
    /\ \A o \in Orders : Genuine(o) =>
          /\ orders[o].status # "COMPLETED" => GrantedBy(o) = {} /\ Fulfilling(o) = {}
          /\ Cardinality(GrantedBy(o)) + Cardinality(Active(o)) <= Cardinality(PayWorkers)
-----------------------------------------------------------------------------
LEMMA CaptureInvCompleted == CaptureInv => CompletedWasCaptured
  BY DEF CaptureInv, CapturesAgree, UniqueCharges, CompletedWasCaptured, Paid

LEMMA InitCapture == PayInit => CaptureInv
<1> SUFFICES ASSUME PayInit PROVE CaptureInv
  OBVIOUS
<1>1. OneCharging
  BY DEF PayInit, OneCharging, Charging, PayIdle
<1>2. CapturesAgree
  BY DEF PayInit, CapturesAgree, At, PayIdle, NoOrder
<1>3. UniqueCharges
  BY DEF PayInit, UniqueCharges, NoOrder
<1>. QED BY <1>1, <1>2, <1>3, PayInitTypeInv DEF CaptureInv

\* A write to one order keeps the charges apart if it checks the unique key.
LEMMA UniqueWritten ==
  ASSUME UniqueCharges, NEW o \in Orders,
         \A p \in Orders : p # o => orders'[p] = orders[p],
         \/ orders'[o].charge = orders[o].charge
         \/ orders'[o].charge = None
         \/ ~ChargeTaken(o, orders'[o].charge)
  PROVE  UniqueCharges'
  BY DEF UniqueCharges, ChargeTaken

\* What the steps of createCharge do after its first one.
LEMMA ChargingStep ==
  ASSUME CaptureInv, NEW w \in PayWorkers, ChargeCall(w)
  PROVE  /\ payCalls[w].pc \in Charging /\ OrderOf(w) \in Orders
         /\ orders[OrderOf(w)] \in OrderRows
         /\ \A v \in PayWorkers : v # w => payCalls'[v] = payCalls[v]
         /\ payCalls'[w].pc \in {"link", "giveUp", "idle"}
         /\ payCalls'[w].pc = "idle" \/ payCalls'[w].order = OrderOf(w)
         /\ \A o \in Orders : o # OrderOf(w) => charges'[o] = charges[o] /\ orders'[o] = orders[o]
         /\ charges'[OrderOf(w)] = charges[OrderOf(w)]
              \/ (At(w, "post") /\ charges'[OrderOf(w)] \in {"none", "initiated"})
         /\ \/ orders'[OrderOf(w)] = orders[OrderOf(w)]
            \/ /\ orders'[OrderOf(w)].status = "FAILED" /\ payCalls'[w].pc = "idle"
               /\ orders'[OrderOf(w)].charge = orders[OrderOf(w)].charge
               /\ checkout' = checkout
            \/ /\ orders'[OrderOf(w)].status = orders[OrderOf(w)].status
               /\ orders'[OrderOf(w)].charge = OrderOf(w)
               /\ ~ChargeTaken(OrderOf(w), OrderOf(w)) /\ payCalls'[w].pc = "idle"
         /\ checkout' = checkout
              \/ (checkout' = checkout \cup {OrderOf(w)} /\ payCalls'[w].pc = "idle")
         /\ UNCHANGED <<notices, paidBy, seen>>
<1>1. payCalls[w].pc \in Charging
  BY DEF ChargeCall, ChargePost, ChargeRefused, ChargeLink, ChargeLinkTaken, ChargeLinkRefused,
     ChargeGiveUp, At, Charging
<1>2. OrderOf(w) \in Orders /\ orders[OrderOf(w)] \in OrderRows
  BY <1>1 DEF Charging, CaptureInv, PayTypeInv, PayCallsOK, PayCallOK, OrderOf
<1>. USE DEF ChargeCall, ChargePost, ChargeRefused, ChargeLink, ChargeLinkTaken, ChargeLinkRefused,
     ChargeGiveUp
<1>. DEFINE o == OrderOf(w)
<1>3. payCalls \in [PayWorkers -> PayCallSet] /\ orders \in [Orders -> OrderRows \cup {NoOrder}]
      /\ charges \in [Orders -> ChargeStates]
  BY DEF CaptureInv, PayTypeInv, PayTypeOK
<1>4. /\ \A v \in PayWorkers : v # w => payCalls'[v] = payCalls[v]
      /\ payCalls'[w].pc \in {"link", "giveUp", "idle"}
      /\ payCalls'[w].pc = "idle" \/ payCalls'[w].order = o
  <2>1. CASE PayReturn(w)
    BY <1>3, <2>1, PayIdleType DEF PayReturn
  <2>2. CASE PayGoto(w, "link") \/ PayGoto(w, "giveUp")
    BY <1>3, <2>2 DEF PayGoto, OrderOf, PayCallSet
  <2>. QED BY <2>1, <2>2
<1>5. PayReturn(w) => payCalls'[w].pc = "idle"
  BY <1>3, PayIdleType DEF PayReturn
<1>6. /\ \A p \in Orders : p # o => charges'[p] = charges[p]
      /\ charges'[o] = charges[o] \/ (At(w, "post") /\ charges'[o] \in {"none", "initiated"})
  <2>1. UNCHANGED charges \/ (At(w, "post") /\ \E s \in {"none", "initiated"} :
           charges' = [charges EXCEPT ![o] = s])
    OBVIOUS
  <2>. HIDE DEF o
  <2>. QED BY <1>3, <2>1
<1>7. /\ \A p \in Orders : p # o => orders'[p] = orders[p]
      /\ \/ orders'[o] = orders[o]
         \/ /\ orders'[o].status = "FAILED" /\ payCalls'[w].pc = "idle"
            /\ orders'[o].charge = orders[o].charge /\ checkout' = checkout
         \/ /\ orders'[o].status = orders[o].status /\ orders'[o].charge = o
            /\ ~ChargeTaken(o, o) /\ payCalls'[w].pc = "idle"
  <2>1. CASE UNCHANGED orders
    BY <2>1
  <2>2. CASE orders' = [orders EXCEPT ![o].charge = o] /\ ChargeLink(w)
    <3>1. ~ChargeTaken(o, o) /\ payCalls'[w].pc = "idle"
      BY <1>5, <2>2
    <3>. HIDE DEF o
    <3>. QED BY <1>2, <1>3, <2>2, <3>1 DEF OrderRows
  <2>3. CASE orders' = [orders EXCEPT ![o].status = "FAILED"] /\ ChargeGiveUp(w)
    <3>1. payCalls'[w].pc = "idle" /\ checkout' = checkout
      BY <1>5, <2>3
    <3>. HIDE DEF o
    <3>. QED BY <1>2, <1>3, <2>3, <3>1 DEF OrderRows
  <2>. QED BY <2>1, <2>2, <2>3
<1>8. checkout' = checkout \/ (checkout' = checkout \cup {o} /\ payCalls'[w].pc = "idle")
  BY <1>5 DEF vars
<1>9. UNCHANGED <<notices, paidBy, seen>>
  OBVIOUS
<1>. QED BY <1>1, <1>2, <1>4, <1>6, <1>7, <1>8, <1>9

LEMMA ChargingCapture ==
  ASSUME CaptureInv, PayTypeInv', NEW w \in PayWorkers, ChargeCall(w)
  PROVE  CaptureInv'
<1>. DEFINE o == OrderOf(w)
<1>1. o \notin checkout /\ charges[o] # "captured" /\ orders[o].status # "COMPLETED"
  BY ChargingStep DEF CaptureInv, OneCharging, CapturesAgree
<1>2. \A v \in PayWorkers : payCalls[v].pc \in Charging \cup {"fetch", "complete"} =>
         OrderOf(v) \in Orders /\ payCalls[v].pc # "idle"
  BY DEF Charging, CaptureInv, PayTypeInv, PayCallsOK, PayCallOK, OrderOf
<1>3. \A v \in PayWorkers : v # w /\ payCalls[v].pc \in Charging => OrderOf(v) # o
  BY ChargingStep DEF CaptureInv, OneCharging
<1>4. /\ checkout \subseteq Orders /\ checkout \subseteq checkout' /\ posted' = posted
      /\ \A c \in Orders \cup {None} : Paid(c) => Paid(c)'
  BY <1>1, ChargingStep DEF CaptureInv, PayTypeInv, PayTypeOK, Paid, seen
<1>5. OneCharging'
  <2>1. ASSUME NEW u \in PayWorkers, NEW v \in PayWorkers, payCalls'[u].pc \in Charging,
               payCalls'[v].pc \in Charging, payCalls'[u].order = payCalls'[v].order
        PROVE  u = v
    BY <1>3, <2>1, ChargingStep DEF CaptureInv, OneCharging, Charging, OrderOf
  <2>2. ASSUME NEW v \in PayWorkers, payCalls'[v].pc \in Charging
        PROVE  /\ payCalls'[v].order \notin checkout'
               /\ payCalls'[v].pc = "post" => charges'[payCalls'[v].order] = "none"
    <3>1. CASE v = w
      BY <1>1, <2>2, <3>1, ChargingStep DEF Charging
    <3>2. CASE v # w
      BY <1>2, <1>3, <2>2, <3>2, ChargingStep DEF CaptureInv, OneCharging, OrderOf
    <3>. QED BY <3>1, <3>2
  <2>3. ASSUME NEW v \in PayWorkers, payCalls'[v].pc \in {"fetch", "complete"}
        PROVE  payCalls'[v].order \in checkout'
    <3>1. v # w
      BY <2>3, ChargingStep
    <3>. QED BY <1>4, <2>3, <3>1, ChargingStep DEF CaptureInv, OneCharging, OrderOf
  <2>4. \A v \in PayWorkers : payCalls'[v].pc = "post" => payCalls'[v].pc \in Charging
    BY DEF Charging
  <2>. QED BY <2>1, <2>2, <2>3, <2>4 DEF OneCharging, OrderOf, Charging
<1>6. CapturesAgree'
  <2>1. \A p \in Orders : charges'[p] = "captured" => p \in checkout'
    BY <1>1, <1>4, ChargingStep DEF CaptureInv, CapturesAgree
  <2>2. \A n \in notices : n.charge = n.order /\ (n.status = "captured" => Paid(n.charge)')
    BY <1>4 DEF CaptureInv, CapturesAgree, PayTypeInv, PayTypeOK, Notices
  <2>3. ASSUME NEW v \in PayWorkers, payCalls'[v].pc = "complete"
        PROVE  payCalls'[v].order \in posted' \/ Paid(payCalls[v].charge)'
    <3>1. v # w
      BY <2>3, ChargingStep
    <3>2. payCalls[v].charge \in Orders \cup {None}
      BY DEF CaptureInv, PayTypeInv, PayTypeOK, PayCallSet
    <3>3. payCalls[v].order \in posted \/ Paid(payCalls[v].charge)
      BY <2>3, <3>1, ChargingStep DEF CaptureInv, CapturesAgree, At, OrderOf
    <3>. QED BY <1>4, <3>1, <3>2, <3>3, ChargingStep
  <2>4. ASSUME NEW p \in Orders, orders'[p].status = "COMPLETED"
        PROVE  p \in checkout' /\ (p \in posted' \/ Paid(orders[p].charge)') /\ orders'[p] = orders[p]
    <3>1. p # o /\ orders'[p] = orders[p]
      BY <1>1, <2>4, ChargingStep
    <3>2. orders[p].charge \in Orders \cup {None}
      BY DEF CaptureInv, PayTypeInv, PayTypeOK, OrderRows, NoOrder
    <3>. QED BY <1>4, <2>4, <3>1, <3>2 DEF CaptureInv, CapturesAgree
  <2>5. \A v \in PayWorkers : payCalls'[v].pc = "complete" => payCalls'[v] = payCalls[v]
    BY ChargingStep
  <2>. QED BY <2>1, <2>2, <2>3, <2>4, <2>5, ChargingStep DEF CapturesAgree, At, OrderOf
<1>7. UniqueCharges'
  BY ChargingStep, UniqueWritten DEF CaptureInv
<1>. QED BY <1>5, <1>6, <1>7 DEF CaptureInv

\* A step of a handler that changes nothing at Tap.
LEMMA QuietCapture ==
  ASSUME CaptureInv, PayTypeInv', NEW w \in PayWorkers,
         UNCHANGED <<charges, checkout, notices>>, posted \subseteq posted',
         \A v \in PayWorkers : v # w => payCalls'[v] = payCalls[v],
         payCalls'[w].pc \notin Charging,
         payCalls'[w].pc \in {"fetch", "complete"} => payCalls'[w].order \in checkout,
         payCalls'[w].pc = "complete" =>
             payCalls'[w].order \in posted' \/ Paid(payCalls'[w].charge),
         \A o \in Orders : orders'[o].status = "COMPLETED" =>
             o \in checkout /\ (o \in posted' \/ Paid(orders'[o].charge)),
         UniqueCharges'
  PROVE  CaptureInv'
<1>1. OneCharging'
  BY DEF CaptureInv, OneCharging, OrderOf, Charging
<1>2. CapturesAgree'
  <2>1. \A v \in PayWorkers : payCalls'[v].pc = "complete" =>
           payCalls'[v].order \in posted' \/ Paid(payCalls'[v].charge)
    BY DEF CaptureInv, CapturesAgree, At, OrderOf
  <2>. QED BY <2>1 DEF CaptureInv, CapturesAgree, At, OrderOf, Paid
<1>. QED BY <1>1, <1>2 DEF CaptureInv

\* A step of a handler that leaves the orders alone as well.
LEMMA QuieterCapture ==
  ASSUME CaptureInv, PayTypeInv', NEW w \in PayWorkers,
         UNCHANGED <<orders, charges, checkout, notices>>, posted \subseteq posted',
         \A v \in PayWorkers : v # w => payCalls'[v] = payCalls[v],
         payCalls'[w].pc \notin Charging,
         payCalls'[w].pc \in {"fetch", "complete"} => payCalls'[w].order \in checkout,
         payCalls'[w].pc = "complete" =>
             payCalls'[w].order \in posted' \/ Paid(payCalls'[w].charge)
  PROVE  CaptureInv'
<1>1. \A o \in Orders : orders'[o].status = "COMPLETED" =>
         o \in checkout /\ (o \in posted' \/ Paid(orders'[o].charge))
  BY DEF CaptureInv, CapturesAgree
<1>2. UniqueCharges'
  BY DEF CaptureInv, UniqueCharges
<1>. QED BY <1>1, <1>2, QuietCapture

\* What a call does that moves on with its order, or ends.
LEMMA OneCallMoves ==
  ASSUME PayTypeInv, NEW w \in PayWorkers
  PROVE  /\ PayReturn(w) => /\ \A v \in PayWorkers : v # w => payCalls'[v] = payCalls[v]
                            /\ payCalls'[w].pc = "idle"
         /\ \A pc \in PaySteps : PayGoto(w, pc) =>
               /\ \A v \in PayWorkers : v # w => payCalls'[v] = payCalls[v]
               /\ payCalls'[w].pc = pc /\ payCalls'[w].order = payCalls[w].order
               /\ payCalls'[w].charge = payCalls[w].charge
               /\ payCalls'[w].user = payCalls[w].user
  BY PayIdleType DEF PayTypeInv, PayTypeOK, PayReturn, PayGoto, PayCallSet


\* What the starts of createCharge, of a webhook and of a status check do.
LEMMA ChargeStartStep ==
  ASSUME PayTypeInv, NEW w \in PayWorkers, NEW o \in Orders, NEW t, ChargeStart(w, o, t)
  PROVE  /\ orders[o] \notin OrderRows /\ orders'[o].status = "PENDING"
         /\ orders'[o].charge = None
         /\ \A p \in Orders : p # o => orders'[p] = orders[p]
         /\ \A v \in PayWorkers : v # w => payCalls'[v] = payCalls[v]
         /\ payCalls'[w].pc = "post" /\ payCalls'[w].order = o
         /\ UNCHANGED <<vars, charges, checkout, notices, paidBy, seen>>
<1>1. /\ payCalls' = [payCalls EXCEPT ![w] = [PayIdle EXCEPT !.pc = "post", !.order = o]]
      /\ orders' = [orders EXCEPT ![o] = [status |-> "PENDING", template |-> t, charge |-> None]]
      /\ UNCHANGED <<vars, charges, checkout, notices, paidBy, seen>>
      /\ orders[o] \notin OrderRows
  BY DEF ChargeStart, OrderRows, OrderStatuses
<1>2. /\ \A v \in PayWorkers : v # w => payCalls'[v] = payCalls[v]
      /\ payCalls'[w].pc = "post" /\ payCalls'[w].order = o
  BY <1>1 DEF PayTypeInv, PayTypeOK, PayIdle
<1>3. /\ orders'[o].status = "PENDING" /\ orders'[o].charge = None
      /\ \A p \in Orders : p # o => orders'[p] = orders[p]
  BY <1>1 DEF PayTypeInv, PayTypeOK
<1>. QED BY ONLY <1>1, <1>2, <1>3

LEMMA WebhookStep ==
  ASSUME PayTypeInv, NEW w \in PayWorkers, NEW n \in Notices, WebhookReceive(w, n)
  PROVE  /\ n.order \in Orders
         /\ n \in notices \/ (n.order \in checkout /\ n.order \in posted')
         /\ orders[n.order].status # "COMPLETED"
         /\ \A v \in PayWorkers : v # w => payCalls'[v] = payCalls[v]
         /\ payCalls'[w].pc = IF n.status = "captured" THEN "complete" ELSE "fail"
         /\ payCalls'[w].order = n.order
         /\ n.charge # None => payCalls'[w].charge = n.charge
         /\ posted \subseteq posted'
         /\ UNCHANGED <<vars, orders, charges, checkout, notices, paidBy, found, misnamed>>
<1>. DEFINE c == IF n.charge # None THEN n.charge ELSE orders[n.order].charge
<1>1. payCalls' = [payCalls EXCEPT ![w] = [PayIdle EXCEPT
             !.pc = Reaction(n.status), !.order = n.order, !.charge = c]]
  BY DEF WebhookReceive
<1>4. /\ n.order \in Orders
      /\ n \in notices \/ (n.order \in checkout /\ n.order \in posted')
      /\ orders[n.order].status # "COMPLETED"
      /\ posted \subseteq posted'
      /\ UNCHANGED <<vars, orders, charges, checkout, notices, paidBy, found, misnamed>>
  BY DEF WebhookReceive, Notices, AlreadyProcessed
<1>2. n.charge # None => c = n.charge
  OBVIOUS
<1>. HIDE DEF c
<1>3. /\ \A v \in PayWorkers : v # w => payCalls'[v] = payCalls[v]
      /\ payCalls'[w].pc = Reaction(n.status) /\ payCalls'[w].order = n.order
      /\ payCalls'[w].charge = c
  <2>. PICK pc : pc = Reaction(n.status)
    OBVIOUS
  <2>. PICK o : o = n.order
    OBVIOUS
  <2>1. payCalls' = [payCalls EXCEPT ![w] =
             [PayIdle EXCEPT !.pc = pc, !.order = o, !.charge = c]]
    BY <1>1
  <2>2. /\ \A v \in PayWorkers : v # w => payCalls'[v] = payCalls[v]
        /\ payCalls'[w].pc = pc /\ payCalls'[w].order = o /\ payCalls'[w].charge = c
    BY ONLY PayTypeInv, <2>1 DEF PayTypeInv, PayTypeOK, PayIdle
  <2>. QED BY ONLY <2>2, pc = Reaction(n.status), o = n.order
<1>. QED BY <1>2, <1>3, <1>4 DEF Reaction

LEMMA PollStep ==
  ASSUME PayTypeInv, NEW w \in PayWorkers, NEW o \in Orders, NEW c \in Orders, PollStart(w, o, c)
  PROVE  /\ o \in checkout /\ orders[o].status = "PENDING"
         /\ \A v \in PayWorkers : v # w => payCalls'[v] = payCalls[v]
         /\ payCalls'[w].pc = "fetch" /\ payCalls'[w].order = o /\ payCalls'[w].charge = c
         /\ c = o \/ o \in misnamed'
         /\ misnamed \subseteq misnamed'
         /\ UNCHANGED <<vars, orders, charges, checkout, notices, paidBy, found, posted>>
<1>1. payCalls' = [payCalls EXCEPT ![w] =
          [PayIdle EXCEPT !.pc = "fetch", !.order = o, !.charge = c]]
  BY DEF PollStart
<1>2. /\ \A v \in PayWorkers : v # w => payCalls'[v] = payCalls[v]
      /\ payCalls'[w].pc = "fetch" /\ payCalls'[w].order = o /\ payCalls'[w].charge = c
  BY <1>1 DEF PayTypeInv, PayTypeOK, PayIdle
<1>. QED BY <1>2 DEF PollStart

\* What the writes of a status check or a webhook do to the orders.
LEMMA SettleStep ==
  ASSUME PayTypeInv, NEW w \in PayWorkers, SettleCall(w)
  PROVE  /\ OrderOf(w) \in Orders /\ orders[OrderOf(w)] \in OrderRows
         /\ payCalls[w].pc \in {"fetch", "complete", "fail"}
         /\ \A v \in PayWorkers : v # w => payCalls'[v] = payCalls[v]
         /\ payCalls'[w].pc \in {"idle", "complete", "fail", "findAccount"}
         /\ payCalls'[w].pc # "idle" => /\ payCalls'[w].order = OrderOf(w)
                                        /\ payCalls'[w].charge = payCalls[w].charge
         /\ payCalls'[w].pc = "complete" => At(w, "fetch") /\ Paid(payCalls[w].charge)
         /\ payCalls'[w].pc = "fail" =>
               At(w, "fetch") /\ charges[payCalls[w].charge] = "declined"
         /\ payCalls'[w].pc = "findAccount" => orders'[OrderOf(w)].status = "COMPLETED"
         /\ \A o \in Orders : o # OrderOf(w) => orders'[o] = orders[o]
         /\ \/ orders'[OrderOf(w)] = orders[OrderOf(w)] /\ payCalls'[w].pc # "findAccount"
            \/ /\ ~ChargeTaken(OrderOf(w), payCalls[w].charge)
               /\ orders'[OrderOf(w)].charge = payCalls[w].charge
               /\ \/ /\ At(w, "complete") /\ orders'[OrderOf(w)].status = "COMPLETED"
                     /\ payCalls'[w].pc = "findAccount"
                  \/ /\ At(w, "fail") /\ orders'[OrderOf(w)].status = "FAILED"
                     /\ payCalls'[w].pc = "idle"
         /\ UNCHANGED <<vars, charges, checkout, notices, paidBy, seen>>
<1>. DEFINE o == OrderOf(w)
            c == payCalls[w].charge
<1>1. /\ o \in Orders /\ orders[o] \in OrderRows /\ payCalls[w].pc \in {"fetch", "complete", "fail"}
      /\ UNCHANGED <<vars, charges, checkout, notices, paidBy, seen>>
      /\ orders \in [Orders -> OrderRows \cup {NoOrder}]
      /\ At(w, "fetch") => c \in Orders
  BY DEF SettleCall, PollFetch, Complete, MarkFailed, SettleRefused, At, OrderOf, PayTypeInv,
     PayTypeOK, PayCallsOK, PayCallOK
<1>2. CASE PollFetch(w)
  <2>1. \/ PayReturn(w)
        \/ PayGoto(w, "complete") /\ Paid(c)
        \/ PayGoto(w, "fail") /\ charges[c] = "declined"
    BY <1>1, <1>2, PayAssumption DEF PollFetch, Reaction, Paid
  <2>2. UNCHANGED orders /\ At(w, "fetch")
    BY <1>2 DEF PollFetch
  <2>. QED BY <1>1, <2>1, <2>2, OneCallMoves DEF PaySteps, OrderOf, At
<1>3. ASSUME NEW s \in OrderStatuses, Settled(w, s)
      PROVE  /\ \A p \in Orders : p # o => orders'[p] = orders[p]
             /\ ~ChargeTaken(o, c) /\ orders'[o].charge = c /\ orders'[o].status = s
  <2>1. ~ChargeTaken(o, c) /\ orders' = [orders EXCEPT ![o].status = s, ![o].charge = c]
    BY <1>3 DEF Settled
  <2>. HIDE DEF o, c
  <2>. QED BY <1>1, <2>1 DEF OrderRows
<1>4. CASE Complete(w)
  <2>1. PayGoto(w, "findAccount") /\ Settled(w, "COMPLETED") /\ At(w, "complete")
    BY <1>4 DEF Complete
  <2>. QED BY <1>1, <1>3, <2>1, OneCallMoves DEF PaySteps, OrderOf, At, OrderStatuses
<1>5. CASE MarkFailed(w)
  <2>1. PayReturn(w) /\ Settled(w, "FAILED") /\ At(w, "fail")
    BY <1>5 DEF MarkFailed
  <2>. QED BY <1>1, <1>3, <2>1, OneCallMoves DEF OrderOf, At, OrderStatuses
<1>6. CASE SettleRefused(w)
  <2>1. PayReturn(w) /\ UNCHANGED orders
    BY <1>6 DEF SettleRefused
  <2>. QED BY <1>1, <2>1, OneCallMoves DEF OrderOf, At
<1>. QED BY <1>2, <1>4, <1>5, <1>6 DEF SettleCall

LEMMA SettleCapture ==
  ASSUME CaptureInv, PayTypeInv', NEW w \in PayWorkers, SettleCall(w)
  PROVE  CaptureInv'
<1>1. PayTypeInv
  BY DEF CaptureInv
<1>2. posted' = posted
  BY <1>1, SettleStep DEF seen
<1>3. ASSUME NEW o \in Orders, orders'[o].status = "COMPLETED"
      PROVE  o \in checkout /\ (o \in posted' \/ Paid(orders'[o].charge))
  <2>1. CASE orders'[o] = orders[o]
    BY <1>2, <1>3, <2>1 DEF CaptureInv, CapturesAgree
  <2>2. CASE o = OrderOf(w) /\ At(w, "complete") /\ orders'[o].charge = payCalls[w].charge
    BY <1>2, <2>2 DEF CaptureInv, CapturesAgree, OneCharging, At
  <2>. QED BY <1>1, <1>3, <2>1, <2>2, SettleStep
<1>4. /\ payCalls'[w].pc \notin Charging
      /\ payCalls'[w].pc \in {"fetch", "complete"} => payCalls'[w].order \in checkout
      /\ payCalls'[w].pc = "complete" =>
             payCalls'[w].order \in posted' \/ Paid(payCalls'[w].charge)
  <2>1. At(w, "fetch") => OrderOf(w) \in checkout
    BY DEF CaptureInv, OneCharging, At
  <2>. QED BY <1>1, <2>1, SettleStep DEF Charging
<1>5. UniqueCharges'
  <2>1. UniqueCharges
    BY DEF CaptureInv
  <2>. QED BY <1>1, <2>1, SettleStep, UniqueWritten
<1>6. /\ UNCHANGED <<charges, checkout, notices>>
      /\ \A v \in PayWorkers : v # w => payCalls'[v] = payCalls[v]
  BY <1>1, SettleStep
<1>. QED BY <1>2, <1>3, <1>4, <1>5, <1>6, QuietCapture

\* The steps of fulfillTemplateAccess leave Tap and the orders alone.
LEMMA FulfilStep ==
  ASSUME PayTypeInv, NEW w \in PayWorkers, Grant(w)
  PROVE  /\ \A v \in PayWorkers : v # w => payCalls'[v] = payCalls[v]
         /\ payCalls[w].pc \in GrantSteps
         /\ payCalls'[w].pc \in GrantSteps \cup {"idle"}
         /\ payCalls'[w].pc # "idle" => /\ payCalls'[w].order = OrderOf(w)
                                        /\ payCalls'[w].user = payCalls[w].user
         /\ UNCHANGED <<orders, charges, checkout, notices, seen>>
<1>1. /\ payCalls[w].pc \in GrantSteps /\ UNCHANGED <<orders, charges, checkout, notices, seen>>
      /\ \/ PayReturn(w)
         \/ \E pc \in GrantSteps : PayGoto(w, pc)
         \/ \E pc \in GrantSteps, r \in Requests :
               payCalls' = [payCalls EXCEPT ![w].pc = pc, ![w].req = r]
  <2>1. PaidIds \subseteq Requests
    BY PRAssumption
  <2>2. CASE FindRequest(w)
    BY <2>2 DEF FindRequest, At, GrantSteps, MatchingPending
  <2>3. CASE CreateRequest(w)
    BY <2>1, <2>3 DEF CreateRequest, At, GrantSteps
  <2>. QED BY <2>2, <2>3 DEF Grant, ApproveRequest, FindPurchase, CreatePurchase, At, GrantSteps
<1>2. ASSUME NEW pc \in GrantSteps, NEW r \in Requests,
             payCalls' = [payCalls EXCEPT ![w].pc = pc, ![w].req = r]
      PROVE  /\ \A v \in PayWorkers : v # w => payCalls'[v] = payCalls[v]
             /\ payCalls'[w].pc = pc /\ payCalls'[w].order = OrderOf(w)
             /\ payCalls'[w].user = payCalls[w].user
  BY <1>2 DEF PayTypeInv, PayTypeOK, PayCallSet, OrderOf
<1>3. GrantSteps \subseteq PaySteps
  BY DEF GrantSteps, PaySteps
<1>. QED BY <1>1, <1>2, <1>3, OneCallMoves DEF OrderOf

\* The lookup of the account leaves everything but the history alone.
LEMMA FindAccountStep ==
  ASSUME PayTypeInv, NEW w \in PayWorkers, FindAccount(w)
  PROVE  /\ \A v \in PayWorkers : v # w => payCalls'[v] = payCalls[v]
         /\ At(w, "findAccount") /\ payCalls'[w].pc \in {"idle", "findRequest"}
         /\ payCalls'[w].pc # "idle" => payCalls'[w].order = OrderOf(w)
         /\ UNCHANGED <<vars, orders, charges, checkout, notices, paidBy, posted, misnamed>>
<1>1. PICK u \in Users \cup {None} :
         \/ PayReturn(w)
         \/ payCalls' = [payCalls EXCEPT ![w].pc = "findRequest", ![w].user = u]
  BY DEF FindAccount
<1>2. ASSUME payCalls' = [payCalls EXCEPT ![w].pc = "findRequest", ![w].user = u]
      PROVE  /\ \A v \in PayWorkers : v # w => payCalls'[v] = payCalls[v]
             /\ payCalls'[w].pc = "findRequest" /\ payCalls'[w].order = OrderOf(w)
  BY <1>2 DEF PayTypeInv, PayTypeOK, PayCallSet, OrderOf
<1>. QED BY <1>1, <1>2, OneCallMoves DEF FindAccount

LEMMA FulfilCapture ==
  ASSUME CaptureInv, PayTypeInv', NEW w \in PayWorkers, Grant(w) \/ FindAccount(w)
  PROVE  CaptureInv'
<1>1. PayTypeInv
  BY DEF CaptureInv
<1>2. /\ payCalls'[w].pc \notin Charging \cup {"fetch", "complete"}
      /\ UNCHANGED <<orders, charges, checkout, notices, posted>>
      /\ \A v \in PayWorkers : v # w => payCalls'[v] = payCalls[v]
  BY <1>1, FulfilStep, FindAccountStep DEF Charging, GrantSteps, seen
<1>. QED BY <1>2, QuieterCapture

LEMMA ChargeStartCapture ==
  ASSUME CaptureInv, PayTypeInv', NEW w \in PayWorkers, NEW o \in Orders,
         NEW t \in Templates \cup {None}, ChargeStart(w, o, t)
  PROVE  CaptureInv'
<1>0. PayTypeInv
  BY DEF CaptureInv
<1>1. /\ orders[o] \notin OrderRows /\ UNCHANGED <<charges, checkout, notices, posted>>
      /\ orders'[o].status = "PENDING" /\ orders'[o].charge = None
      /\ \A p \in Orders : p # o => orders'[p] = orders[p]
      /\ \A v \in PayWorkers : v # w => payCalls'[v] = payCalls[v]
      /\ payCalls'[w].pc = "post" /\ payCalls'[w].order = o
  BY <1>0, ChargeStartStep DEF seen
<1>2. charges[o] = "none" /\ o \notin checkout
  BY <1>0, <1>1 DEF PayTypeInv, TapOK
<1>3. \A v \in PayWorkers : payCalls[v].pc \in Charging => OrderOf(v) # o
  BY <1>1 DEF Charging, CaptureInv, PayTypeInv, PayCallsOK, PayCallOK, OrderOf
<1>5. OneCharging'
  BY <1>1, <1>2, <1>3 DEF CaptureInv, OneCharging, OrderOf, Charging
<1>6. CapturesAgree'
  <2>1. \A v \in PayWorkers : payCalls'[v].pc = "complete" =>
           payCalls'[v].order \in posted' \/ Paid(payCalls'[v].charge)
    BY <1>1 DEF CaptureInv, CapturesAgree, At, OrderOf
  <2>. QED BY <1>1, <2>1 DEF CaptureInv, CapturesAgree, At, OrderOf, Paid
<1>7. UniqueCharges'
  BY <1>1, UniqueWritten DEF CaptureInv
<1>. QED BY <1>5, <1>6, <1>7 DEF CaptureInv

LEMMA StartCapture ==
  ASSUME CaptureInv, PayTypeInv', NEW w \in PayWorkers, PayStart(w)
  PROVE  CaptureInv'
<1>0. PayTypeInv
  BY DEF CaptureInv
<1>1. ASSUME NEW n \in Notices, WebhookReceive(w, n) PROVE CaptureInv'
  <2>1. /\ UNCHANGED <<orders, charges, checkout, notices>> /\ posted \subseteq posted'
        /\ \A v \in PayWorkers : v # w => payCalls'[v] = payCalls[v]
        /\ payCalls'[w].pc = IF n.status = "captured" THEN "complete" ELSE "fail"
        /\ payCalls'[w].order = n.order /\ n.order \in Orders
        /\ n \in notices \/ (n.order \in checkout /\ n.order \in posted')
        /\ n.charge # None => payCalls'[w].charge = n.charge
    BY <1>0, <1>1, WebhookStep
  <2>2. n \in notices /\ n.status = "captured" =>
           n.order \in checkout /\ Paid(n.charge) /\ n.charge # None
    BY <2>1 DEF CaptureInv, CapturesAgree, Paid
  <2>. QED BY <2>1, <2>2, QuieterCapture DEF Charging
<1>2. ASSUME NEW o \in Orders, NEW c \in Orders, PollStart(w, o, c) PROVE CaptureInv'
  <2>1. /\ UNCHANGED <<orders, charges, checkout, notices, posted>>
        /\ \A v \in PayWorkers : v # w => payCalls'[v] = payCalls[v]
        /\ payCalls'[w].pc = "fetch" /\ payCalls'[w].order \in checkout
    BY <1>0, <1>2, PollStep
  <2>. QED BY <2>1, QuieterCapture DEF Charging
<1>. QED BY <1>1, <1>2, ChargeStartCapture DEF PayStart

\* What Tap does when a charge gets its outcome.
LEMMA TapStep ==
  ASSUME PayTypeInv, NEW o \in Orders, NEW s \in {"captured", "declined"}, Outcome(o, s)
  PROVE  /\ charges'[o] = s /\ \A p \in Orders : p # o => charges'[p] = charges[p]
         /\ notices' = notices \cup {Notice(o, s)} /\ notices \subseteq Notices
         /\ Notice(o, s).order = o /\ Notice(o, s).charge = o /\ Notice(o, s).status = s
         /\ UNCHANGED <<vars, orders, checkout, payCalls, paidBy, seen>>
  BY DEF Outcome, Notice, PayTypeInv, PayTypeOK

LEMMA TapStepCapture ==
  ASSUME CaptureInv, PayTypeInv', NEW o \in Orders, TapCapture(o) \/ TapDecline(o)
  PROVE  CaptureInv'
<1>1. PICK s \in {"captured", "declined"} :
        Outcome(o, s) /\ (s = "captured" => o \in checkout) /\ charges[o] \notin {"none", "captured"}
  BY DEF TapCapture, TapDecline
<1>0. PayTypeInv
  BY DEF CaptureInv
<1>2. /\ UNCHANGED <<orders, checkout, payCalls, posted>> /\ notices \subseteq Notices
      /\ charges'[o] = s /\ \A p \in Orders : p # o => charges'[p] = charges[p]
      /\ \A n \in notices' : n \in notices \/ (n.order = o /\ n.charge = o /\ n.status = s)
  BY <1>0, <1>1, TapStep DEF seen
<1>3. OneCharging'
  <2>1. \A w \in PayWorkers : payCalls[w].pc = "post" => OrderOf(w) # o /\ OrderOf(w) \in Orders
    BY <1>1 DEF CaptureInv, OneCharging, PayTypeInv, PayCallsOK, PayCallOK, OrderOf
  <2>. QED BY <1>2, <2>1 DEF CaptureInv, OneCharging, OrderOf
<1>4. \A c \in Orders \cup {None} : Paid(c) => Paid(c)'
  BY <1>1, <1>2 DEF Paid
<1>5. CapturesAgree'
  <2>2. ASSUME NEW n \in notices'
        PROVE  n.charge = n.order /\ (n.status = "captured" => Paid(n.charge)')
    <3>1. CASE n.order = o /\ n.charge = o /\ n.status = s
      BY <1>2, <3>1, PayAssumption DEF Paid
    <3>2. CASE n \in notices
      BY <1>2, <1>4, <3>2 DEF CaptureInv, CapturesAgree, Notices
    <3>. QED BY <1>2, <3>1, <3>2
  <2>3. \A p \in Orders : charges'[p] = "captured" => p \in checkout'
    BY <1>1, <1>2 DEF CaptureInv, CapturesAgree
  <2>4. \A w \in PayWorkers : payCalls[w].pc = "complete" =>
           payCalls[w].order \in posted \/ Paid(payCalls[w].charge)'
    <3>1. \A w \in PayWorkers : payCalls[w].charge \in Orders \cup {None}
      BY <1>0 DEF PayTypeInv, PayTypeOK, PayCallSet
    <3>. QED BY <1>2, <1>4, <3>1 DEF CaptureInv, CapturesAgree, At, OrderOf
  <2>5. \A p \in Orders : orders[p].status = "COMPLETED" =>
           p \in checkout /\ (p \in posted \/ Paid(orders[p].charge)')
    <3>1. \A p \in Orders : orders[p].charge \in Orders \cup {None}
      BY <1>0 DEF PayTypeInv, PayTypeOK, OrderRows, NoOrder
    <3>. QED BY <1>2, <1>4, <3>1 DEF CaptureInv, CapturesAgree
  <2>. QED BY <1>2, <2>2, <2>3, <2>4, <2>5 DEF CapturesAgree, At, OrderOf, Paid
<1>6. UniqueCharges'
  BY <1>2 DEF CaptureInv, UniqueCharges
<1>. QED BY <1>3, <1>5, <1>6 DEF CaptureInv

LEMMA FailCapture ==
  ASSUME CaptureInv, PayTypeInv', NEW w \in PayWorkers, PayFail(w)
  PROVE  CaptureInv'
<1>1. /\ UNCHANGED <<orders, charges, checkout, notices, posted>>
      /\ \A v \in PayWorkers : v # w => payCalls'[v] = payCalls[v]
      /\ payCalls'[w].pc = "idle"
  BY OneCallMoves DEF CaptureInv, PayFail, seen
<1>. QED BY <1>1, QuieterCapture DEF Charging

LEMMA NextCapture == CaptureInv /\ [AllNext]_allVars => CaptureInv'
<1> SUFFICES ASSUME CaptureInv, [AllNext]_allVars PROVE CaptureInv'
  OBVIOUS
<1>1. PayTypeInv'
  BY NextPayTypeInv DEF CaptureInv
<1>2. CASE UNCHANGED payVars
  BY <1>1, <1>2 DEF payVars, seen, CaptureInv, OneCharging, CapturesAgree, UniqueCharges, Paid,
     At, OrderOf
<1>3. ASSUME NEW w \in PayWorkers, PayStep(w) \/ ChargeLinkRefused(w) PROVE CaptureInv'
  BY <1>1, <1>3, ChargingCapture, SettleCapture, FulfilCapture DEF PayStep, ChargeCall, SettleCall
<1>4. CASE PayNext
  BY <1>1, <1>3, <1>4, StartCapture, FailCapture, TapStepCapture DEF PayNext
<1>. QED BY <1>2, <1>4 DEF AllNext, allVars

\* A payment pays for one order: whatever is posted about other orders, whichever
\* charges callers name and however webhooks and status checks overlap, an order
\* that nobody but Tap posted a webhook about is COMPLETED only on a charge that
\* Tap captured and that no other order has (handleWebhook, getOrderStatus).
THEOREM CompletedOnlyIfCaptured == PaySpec => []CompletedWasCaptured
<1>. QED BY CaptureInvCompleted, InitCapture, NextCapture, PTL DEF PaySpec
-----------------------------------------------------------------------------
(* An order that is paid is not shown as failed *)

LEMMA InitDecline == PayInit => DeclineInv
<1> SUFFICES ASSUME PayInit PROVE DeclineInv
  OBVIOUS
<1>1. DeclinesAgree
  BY DEF PayInit, DeclinesAgree, At, PayIdle, NoOrder
<1>. QED BY <1>1, InitCapture DEF DeclineInv

\* What has been genuine in the next state has been genuine all along.
LEMMA StaysGenuine ==
  ASSUME posted \subseteq posted', misnamed \subseteq misnamed', NEW o, Genuine(o)'
  PROVE  Genuine(o)
  BY DEF Genuine

LEMMA ChargingDecline ==
  ASSUME DeclineInv, CaptureInv', NEW w \in PayWorkers, ChargeCall(w)
  PROVE  DeclineInv'
<1>. DEFINE o == OrderOf(w)
<1>0. CaptureInv /\ PayTypeInv
  BY DEF DeclineInv, CaptureInv
<1>1. /\ o \in Orders /\ payCalls[w].pc \in Charging
      /\ charges'[o] = charges[o] \/ charges[o] = "none"
  BY <1>0, ChargingStep DEF CaptureInv, OneCharging, At
<1>2. posted' = posted /\ misnamed' = misnamed /\ notices' = notices
  BY <1>0, ChargingStep DEF seen
<1>3. \A c \in Orders : charges[c] = "declined" => charges'[c] = "declined"
  BY <1>0, <1>1, ChargingStep
<1>4. \A n \in notices' : n.status = "declined" => charges'[n.order] = "declined"
  BY <1>0, <1>2, <1>3 DEF DeclineInv, DeclinesAgree, PayTypeInv, PayTypeOK, Notices
<1>5. ASSUME NEW v \in PayWorkers, payCalls'[v].order \notin posted \cup misnamed
      PROVE  /\ payCalls'[v].pc \in {"fetch", "complete", "fail"}
                  => payCalls'[v].charge = payCalls'[v].order
             /\ payCalls'[v].pc = "fail" => charges'[payCalls'[v].order] = "declined"
  <2>1. CASE v = w
    BY <1>0, <2>1, ChargingStep
  <2>2. CASE v # w
    <3>1. payCalls'[v] = payCalls[v]
      BY <1>0, <2>2, ChargingStep
    <3>2. payCalls[v].pc # "idle" => payCalls[v].order \in Orders
      BY <1>0 DEF PayTypeInv, PayCallsOK, PayCallOK
    <3>. QED BY <1>3, <1>5, <3>1, <3>2 DEF DeclineInv, DeclinesAgree, At, OrderOf, Genuine
  <2>. QED BY <2>1, <2>2
<1>6. ASSUME NEW p \in Orders, Genuine(p)
      PROVE  /\ orders'[p].charge \in {None, p}
             /\ orders'[p].status = "FAILED" =>
                  \/ charges'[p] = "declined"
                  \/ p \notin checkout' /\ \A v \in PayWorkers :
                        payCalls'[v].pc \in Charging => payCalls'[v].order # p
  <2>0. /\ orders[p].charge \in {None, p}
        /\ orders[p].status = "FAILED" =>
             \/ charges[p] = "declined"
             \/ p \notin checkout /\ \A v \in PayWorkers :
                   payCalls[v].pc \in Charging => payCalls[v].order # p
    BY <1>6 DEF DeclineInv, DeclinesAgree, OrderOf
  <2>1. CASE p = o
    <3>1. orders'[p].charge \in {None, p}
      BY <1>0, <2>0, <2>1, ChargingStep
    <3>2. ASSUME orders'[p].status = "FAILED", charges'[p] # "declined"
          PROVE  p \notin checkout' /\ \A v \in PayWorkers :
                    payCalls'[v].pc \in Charging => payCalls'[v].order # p
      <4>1. orders[p].status # "FAILED"
        BY <1>1, <1>3, <2>0, <2>1, <3>2 DEF OrderOf
      <4>2. payCalls'[w].pc = "idle" /\ checkout' = checkout
        BY <1>0, <2>1, <3>2, <4>1, ChargingStep
      <4>3. o \notin checkout /\ \A v \in PayWorkers :
               v # w /\ payCalls[v].pc \in Charging => payCalls[v].order # o
        BY <1>0, <1>1 DEF CaptureInv, OneCharging, OrderOf
      <4>. QED BY <1>0, <2>1, <4>2, <4>3, ChargingStep DEF Charging
    <3>. QED BY <3>1, <3>2
  <2>2. CASE p # o
    <3>1. orders'[p] = orders[p] /\ charges'[p] = charges[p]
      BY <1>0, <2>2, ChargingStep
    <3>2. p \notin checkout => p \notin checkout'
      BY <1>0, <2>2, ChargingStep
    <3>3. ASSUME NEW v \in PayWorkers, payCalls'[v].pc \in Charging, payCalls'[v].order = p
          PROVE  payCalls[v].pc \in Charging /\ payCalls[v].order = p
      BY <1>0, <2>2, <3>3, ChargingStep DEF Charging
    <3>. QED BY <2>0, <3>1, <3>2, <3>3
  <2>. QED BY <2>1, <2>2
<1>. QED BY <1>2, <1>4, <1>5, <1>6 DEF DeclineInv, DeclinesAgree, At, OrderOf, Genuine

\* A step of a handler that changes nothing at Tap.
LEMMA QuietDecline ==
  ASSUME DeclineInv, CaptureInv', NEW w \in PayWorkers, UNCHANGED <<charges, checkout, notices>>,
         posted \subseteq posted', misnamed \subseteq misnamed',
         \A v \in PayWorkers : v # w => payCalls'[v] = payCalls[v],
         payCalls'[w].pc \notin Charging,
         payCalls'[w].order \notin posted' \cup misnamed' =>
            /\ payCalls'[w].pc \in {"fetch", "complete", "fail"}
                  => payCalls'[w].charge = payCalls'[w].order
            /\ payCalls'[w].pc = "fail" => charges[payCalls'[w].order] = "declined",
         \A o \in Orders : o \notin posted' \cup misnamed' =>
            /\ orders'[o].charge \in {None, o}
            /\ orders'[o].status = "FAILED" =>
                  orders[o].status = "FAILED" \/ charges[o] = "declined"
  PROVE  DeclineInv'
<1>1. ASSUME NEW p \in Orders, Genuine(p)', orders'[p].status = "FAILED", charges'[p] # "declined"
      PROVE  p \notin checkout' /\ \A v \in PayWorkers :
                payCalls'[v].pc \in Charging => payCalls'[v].order # p
  <2>1. Genuine(p) /\ orders[p].status = "FAILED" /\ charges[p] # "declined"
    BY <1>1, StaysGenuine DEF Genuine
  <2>. QED BY <2>1 DEF DeclineInv, DeclinesAgree, OrderOf
<1>2. ASSUME NEW v \in PayWorkers, payCalls'[v].order \notin posted' \cup misnamed'
      PROVE  /\ payCalls'[v].pc \in {"fetch", "complete", "fail"}
                  => payCalls'[v].charge = payCalls'[v].order
             /\ payCalls'[v].pc = "fail" => charges[payCalls'[v].order] = "declined"
  <2>1. CASE v = w
    BY <1>2, <2>1
  <2>2. CASE v # w
    BY <1>2, <2>2 DEF DeclineInv, DeclinesAgree, At, OrderOf, Genuine
  <2>. QED BY <2>1, <2>2
<1>3. \A n \in notices : n.status = "declined" => charges[n.order] = "declined"
  BY DEF DeclineInv, DeclinesAgree
<1>. QED BY <1>1, <1>2, <1>3 DEF DeclineInv, DeclinesAgree, At, OrderOf, Genuine

\* A step of a handler that leaves the orders alone as well.
LEMMA QuieterDecline ==
  ASSUME DeclineInv, CaptureInv', NEW w \in PayWorkers,
         UNCHANGED <<orders, charges, checkout, notices>>,
         posted \subseteq posted', misnamed \subseteq misnamed',
         \A v \in PayWorkers : v # w => payCalls'[v] = payCalls[v],
         payCalls'[w].pc \notin Charging,
         payCalls'[w].order \notin posted' \cup misnamed' =>
            /\ payCalls'[w].pc \in {"fetch", "complete", "fail"}
                  => payCalls'[w].charge = payCalls'[w].order
            /\ payCalls'[w].pc = "fail" => charges[payCalls'[w].order] = "declined"
  PROVE  DeclineInv'
<1>1. \A o \in Orders : o \notin posted' \cup misnamed' => orders'[o].charge \in {None, o}
  BY DEF DeclineInv, DeclinesAgree, Genuine
<1>. QED BY <1>1, QuietDecline

LEMMA StartDecline ==
  ASSUME DeclineInv, CaptureInv', NEW w \in PayWorkers, PayStart(w)
  PROVE  DeclineInv'
<1>0. PayTypeInv /\ CaptureInv
  BY DEF DeclineInv, CaptureInv
<1>1. ASSUME NEW o \in Orders, NEW t \in Templates \cup {None}, ChargeStart(w, o, t)
      PROVE  DeclineInv'
  <2>1. /\ \A v \in PayWorkers : v # w => payCalls'[v] = payCalls[v]
        /\ payCalls'[w].pc = "post" /\ payCalls'[w].order = o
        /\ UNCHANGED <<charges, checkout, notices, posted, misnamed>>
        /\ orders'[o].status = "PENDING" /\ orders'[o].charge = None
        /\ \A p \in Orders : p # o => orders'[p] = orders[p]
    BY <1>0, <1>1, ChargeStartStep DEF seen
  <2>2. ASSUME NEW p \in Orders, Genuine(p)
        PROVE  /\ orders'[p].charge \in {None, p}
               /\ orders'[p].status = "FAILED" =>
                    \/ charges[p] = "declined"
                    \/ p \notin checkout /\ \A v \in PayWorkers :
                          payCalls'[v].pc \in Charging => payCalls'[v].order # p
    BY <2>1, <2>2 DEF DeclineInv, DeclinesAgree, OrderOf
  <2>3. ASSUME NEW v \in PayWorkers, payCalls'[v].order \notin posted \cup misnamed
        PROVE  /\ payCalls'[v].pc \in {"fetch", "complete", "fail"}
                    => payCalls'[v].charge = payCalls'[v].order
               /\ payCalls'[v].pc = "fail" => charges[payCalls'[v].order] = "declined"
    BY <2>1, <2>3 DEF DeclineInv, DeclinesAgree, At, OrderOf, Genuine
  <2>4. \A n \in notices : n.status = "declined" => charges[n.order] = "declined"
    BY DEF DeclineInv, DeclinesAgree
  <2>. QED BY <2>1, <2>2, <2>3, <2>4 DEF DeclineInv, DeclinesAgree, At, OrderOf, Genuine
<1>2. ASSUME NEW n \in Notices, WebhookReceive(w, n) PROVE DeclineInv'
  <2>1. /\ UNCHANGED <<orders, charges, checkout, notices>> /\ posted \subseteq posted'
        /\ misnamed' = misnamed
        /\ \A v \in PayWorkers : v # w => payCalls'[v] = payCalls[v]
        /\ payCalls'[w].pc = IF n.status = "captured" THEN "complete" ELSE "fail"
        /\ payCalls'[w].order = n.order
        /\ n \in notices \/ n.order \in posted'
        /\ n.charge # None => payCalls'[w].charge = n.charge
        /\ n.status \in {"captured", "declined"} /\ n.order \in Orders
    BY <1>0, <1>2, WebhookStep DEF Notices
  <2>2. n \in notices => /\ n.charge = n.order /\ n.charge # None
                         /\ n.status = "declined" => charges[n.order] = "declined"
    BY <1>0, <2>1, PayAssumption DEF DeclineInv, DeclinesAgree, CaptureInv, CapturesAgree
  <2>. QED BY <2>1, <2>2, QuieterDecline DEF Charging
<1>3. ASSUME NEW o \in Orders, NEW c \in Orders, PollStart(w, o, c) PROVE DeclineInv'
  <2>1. /\ UNCHANGED <<orders, charges, checkout, notices, posted>> /\ misnamed \subseteq misnamed'
        /\ \A v \in PayWorkers : v # w => payCalls'[v] = payCalls[v]
        /\ payCalls'[w].pc = "fetch" /\ payCalls'[w].order = o /\ payCalls'[w].charge = c
        /\ c = o \/ o \in misnamed'
    BY <1>0, <1>3, PollStep
  <2>. QED BY <2>1, QuieterDecline DEF Charging
<1>. QED BY <1>1, <1>2, <1>3 DEF PayStart

LEMMA TapStepDecline ==
  ASSUME ~Retryable, DeclineInv, CaptureInv', NEW o \in Orders, TapCapture(o) \/ TapDecline(o)
  PROVE  DeclineInv'
<1>1. PICK s \in {"captured", "declined"} : Outcome(o, s) /\ charges[o] = "initiated"
  BY DEF TapCapture, TapDecline
<1>0. PayTypeInv
  BY DEF DeclineInv, CaptureInv
<1>2. /\ UNCHANGED <<orders, checkout, payCalls, posted, misnamed>> /\ notices \subseteq Notices
      /\ charges'[o] = s /\ \A p \in Orders : p # o => charges'[p] = charges[p]
      /\ \A n \in notices' : n \in notices \/ (n.order = o /\ n.charge = o /\ n.status = s)
  BY <1>0, <1>1, TapStep DEF seen
<1>3. \A c \in Orders : charges[c] = "declined" => charges'[c] = "declined"
  BY <1>1, <1>2
<1>4. ASSUME NEW n \in notices', n.status = "declined" PROVE charges'[n.order] = "declined"
  BY <1>2, <1>3, <1>4 DEF DeclineInv, DeclinesAgree, Notices
<1>5. ASSUME NEW w \in PayWorkers, Genuine(OrderOf(w))
      PROVE  /\ payCalls[w].pc \in {"fetch", "complete", "fail"} => payCalls[w].charge = payCalls[w].order
             /\ payCalls[w].pc = "fail" => charges'[payCalls[w].order] = "declined"
  <2>1. payCalls[w].pc = "fail" => payCalls[w].order \in Orders
    BY <1>0 DEF PayTypeInv, PayCallsOK, PayCallOK
  <2>. QED BY <1>3, <1>5, <2>1 DEF DeclineInv, DeclinesAgree, At, OrderOf
<1>6. ASSUME NEW p \in Orders, Genuine(p)
      PROVE  /\ orders[p].charge \in {None, p}
             /\ orders[p].status = "FAILED" =>
                  \/ charges'[p] = "declined"
                  \/ p \notin checkout /\ \A w \in PayWorkers :
                        payCalls[w].pc \in Charging => OrderOf(w) # p
  BY <1>3, <1>6 DEF DeclineInv, DeclinesAgree
<1>. QED BY <1>2, <1>4, <1>5, <1>6 DEF DeclineInv, DeclinesAgree, OrderOf, At, Genuine

LEMMA SettleDecline ==
  ASSUME DeclineInv, CaptureInv', NEW w \in PayWorkers, SettleCall(w)
  PROVE  DeclineInv'
<1>0. CaptureInv /\ PayTypeInv
  BY DEF DeclineInv, CaptureInv
<1>1. /\ payCalls'[w].pc \notin Charging
      /\ UNCHANGED <<charges, checkout, notices, posted, misnamed>>
      /\ \A v \in PayWorkers : v # w => payCalls'[v] = payCalls[v]
  BY <1>0, SettleStep DEF Charging, seen
<1>2. Genuine(OrderOf(w)) =>
         payCalls[w].charge = OrderOf(w) /\ (At(w, "fail") => charges[OrderOf(w)] = "declined")
  BY <1>0, SettleStep DEF DeclineInv, DeclinesAgree
<1>3. ASSUME payCalls'[w].order \notin posted' \cup misnamed'
      PROVE  /\ payCalls'[w].pc \in {"fetch", "complete", "fail"}
                  => payCalls'[w].charge = payCalls'[w].order
             /\ payCalls'[w].pc = "fail" => charges[payCalls'[w].order] = "declined"
  <2>1. CASE payCalls'[w].pc = "idle" \/ payCalls'[w].pc = "findAccount"
    BY <2>1
  <2>2. CASE payCalls'[w].pc \in {"complete", "fail"}
    <3>1. /\ payCalls'[w].order = OrderOf(w) /\ payCalls'[w].charge = payCalls[w].charge
          /\ payCalls'[w].pc = "fail" => charges[payCalls[w].charge] = "declined"
      BY <1>0, <2>2, SettleStep
    <3>. QED BY <1>1, <1>2, <1>3, <3>1 DEF Genuine
  <2>. QED BY <1>0, <2>1, <2>2, SettleStep
<1>4. ASSUME NEW o \in Orders, o \notin posted' \cup misnamed'
      PROVE  /\ orders'[o].charge \in {None, o}
             /\ orders'[o].status = "FAILED" =>
                   orders[o].status = "FAILED" \/ charges[o] = "declined"
  <2>1. orders[o].charge \in {None, o}
    BY <1>1, <1>4 DEF DeclineInv, DeclinesAgree, Genuine
  <2>2. CASE orders'[o] = orders[o]
    BY <2>1, <2>2
  <2>3. CASE o = OrderOf(w) /\ orders'[o].charge = payCalls[w].charge
             /\ (orders'[o].status = "COMPLETED" \/ At(w, "fail"))
    BY <1>1, <1>2, <1>4, <2>3 DEF Genuine
  <2>. QED BY <1>0, <2>2, <2>3, SettleStep
<1>. QED BY <1>1, <1>3, <1>4, QuietDecline

LEMMA NextDecline ==
  ASSUME ~Retryable, DeclineInv, [AllNext]_allVars PROVE DeclineInv'
<1>1. CaptureInv /\ PayTypeInv /\ CaptureInv'
  BY NextCapture DEF DeclineInv, CaptureInv
<1>2. CASE UNCHANGED payVars
  BY <1>1, <1>2 DEF payVars, seen, DeclineInv, DeclinesAgree, At, OrderOf, Genuine
<1>4. ASSUME NEW w \in PayWorkers, Grant(w) \/ FindAccount(w) PROVE DeclineInv'
  <2>1. /\ payCalls'[w].pc \notin Charging \cup {"fetch", "complete", "fail"}
        /\ UNCHANGED <<orders, charges, checkout, notices, posted, misnamed>>
        /\ \A v \in PayWorkers : v # w => payCalls'[v] = payCalls[v]
    BY <1>1, <1>4, FulfilStep, FindAccountStep DEF Charging, GrantSteps, seen
  <2>. QED BY <1>1, <2>1, QuieterDecline
<1>5. ASSUME NEW w \in PayWorkers, PayFail(w) PROVE DeclineInv'
  <2>1. /\ UNCHANGED <<orders, charges, checkout, notices, posted, misnamed>>
        /\ \A v \in PayWorkers : v # w => payCalls'[v] = payCalls[v]
        /\ payCalls'[w].pc = "idle"
    BY <1>1, <1>5, OneCallMoves DEF PayFail, seen
  <2>. QED BY <1>1, <2>1, QuieterDecline DEF Charging
<1>6. ASSUME NEW w \in PayWorkers, PayStep(w) \/ ChargeLinkRefused(w) PROVE DeclineInv'
  BY <1>1, <1>4, <1>6, SettleDecline, ChargingDecline DEF PayStep, ChargeCall, SettleCall
<1>7. CASE PayNext
  BY <1>1, <1>5, <1>6, <1>7, StartDecline, TapStepDecline DEF PayNext
<1>. QED BY <1>2, <1>7 DEF AllNext, allVars

\* With final outcomes at Tap and callers who say of an order only what is so, no
\* captured order is FAILED: neither the catch block of createCharge nor a
\* webhook or a status check that was read earlier overwrites what the customer
\* paid for, whatever is said of other orders.
THEOREM CapturedIsNotFailed ==
  ASSUME ~Retryable PROVE PaySpec => []CapturedNotFailed
<1>1. DeclineInv => CapturedNotFailed
  BY DEF DeclineInv, DeclinesAgree, CaptureInv, CapturesAgree, CapturedNotFailed
<1>2. DeclineInv /\ [AllNext]_allVars => DeclineInv'
  BY NextDecline
<1>. QED BY <1>1, <1>2, InitDecline, PTL DEF PaySpec
-----------------------------------------------------------------------------
(* How many purchases one order can grant *)

Granting == GrantSteps \cup {"fetch", "complete", "findAccount"}

Unlocking == GrantSteps \cup {"findAccount"}

\* Who said what of an order is remembered.
LEMMA NothingForgotten ==
  ASSUME PayTypeInv, NEW w \in PayWorkers,
         PayStart(w) \/ PayStep(w) \/ ChargeLinkRefused(w) \/ PayFail(w)
  PROVE  posted \subseteq posted' /\ misnamed \subseteq misnamed'
<1>1. CASE PayStep(w) \/ ChargeLinkRefused(w) \/ PayFail(w)
  BY <1>1, SettleStep, FulfilStep, FindAccountStep
     DEF PayStep, ChargePost, ChargeRefused, ChargeLink, ChargeLinkTaken, ChargeLinkRefused,
         ChargeGiveUp, SettleCall, PayFail, seen
<1>2. CASE PayStart(w)
  BY <1>2, WebhookStep, PollStep DEF PayStart, ChargeStart, seen
<1>. QED BY <1>1, <1>2

\* An order stays COMPLETED as long as what callers say of it is genuine.
LEMMA CompletedStays ==
  ASSUME DeclineInv, NEW o \in Orders, Genuine(o)', orders[o].status = "COMPLETED",
         NEW w \in PayWorkers,
         PayStart(w) \/ PayStep(w) \/ ChargeLinkRefused(w) \/ PayFail(w)
  PROVE  orders'[o].status = "COMPLETED"
<1>p. PayTypeInv /\ CaptureInv
  BY DEF DeclineInv, CaptureInv
<1>g. Genuine(o)
  <2>1. posted \subseteq posted' /\ misnamed \subseteq misnamed'
    BY <1>p, NothingForgotten
  <2>. QED BY <2>1, StaysGenuine
<1>0. PayTypeInv /\ CaptureInv /\ charges[o] = "captured" /\ o \in checkout
  BY <1>g DEF DeclineInv, CaptureInv, DeclinesAgree, CapturesAgree, Genuine, Paid
<1>1. CASE ChargeCall(w)
  <2>1. o # OrderOf(w)
    BY <1>0, <1>1, ChargingStep DEF CaptureInv, OneCharging
  <2>. QED BY <1>0, <1>1, <2>1, ChargingStep
<1>2. CASE SettleCall(w)
  <2>1. At(w, "fail") => o # OrderOf(w)
    BY <1>0, <1>g DEF DeclineInv, DeclinesAgree
  <2>. QED BY <1>0, <1>2, <2>1, SettleStep
<1>3. CASE Grant(w) \/ FindAccount(w)
  BY <1>0, <1>3, FulfilStep, FindAccountStep
<1>4. CASE PayFail(w)
  BY <1>4 DEF PayFail
<1>5. CASE PayStart(w)
  BY <1>0, <1>5 DEF PayStart, ChargeStart, WebhookReceive, PollStart, PayTypeInv, PayTypeOK
<1>. QED BY <1>1, <1>2, <1>3, <1>4, <1>5 DEF PayStep, ChargeCall, SettleCall

LEMMA FiniteParts ==
  ASSUME NEW o PROVE IsFiniteSet(GrantedBy(o)) /\ IsFiniteSet(Active(o))
  BY WorkersAssumption, PayAssumption, FS_Subset DEF GrantedBy, Active

LEMMA ActiveBound ==
  ASSUME NEW o PROVE Cardinality(Active(o)) <= Cardinality(PayWorkers)
  BY PayAssumption, FS_Subset DEF Active

\* A call moves and no purchase is inserted.  It becomes active only for an
\* order that is not COMPLETED, and fulfils only a COMPLETED one.
LEMMA GrantMove ==
  ASSUME GrantInv, DeclineInv', NEW w \in PayWorkers, paidBy' = paidBy,
         \A v \in PayWorkers : v # w => payCalls'[v] = payCalls[v],
         posted \subseteq posted', misnamed \subseteq misnamed',
         \A o \in Orders : o \notin posted' \cup misnamed' /\ orders[o].status = "COMPLETED"
             => orders'[o].status = "COMPLETED",
         payCalls'[w].pc \in Granting =>
            \/ payCalls[w].pc \in Granting /\ payCalls'[w].order = OrderOf(w)
            \/ orders[payCalls'[w].order].status # "COMPLETED",
         payCalls'[w].pc \in Unlocking =>
            \/ payCalls[w].pc \in Unlocking /\ payCalls'[w].order = OrderOf(w)
            \/ orders'[payCalls'[w].order].status = "COMPLETED"
  PROVE  GrantInv'
<1>1. ASSUME NEW o \in Orders, Genuine(o)', orders'[o].status # "COMPLETED"
      PROVE  GrantedBy(o)' = {} /\ Fulfilling(o)' = {}
  <2>1. GrantedBy(o) = {} /\ Fulfilling(o) = {}
    BY <1>1, StaysGenuine DEF GrantInv, Genuine
  <2>. QED BY <1>1, <2>1 DEF GrantedBy, Fulfilling, Unlocking, OrderOf
<1>2. ASSUME NEW o \in Orders, Genuine(o)'
      PROVE  Cardinality(GrantedBy(o)') + Cardinality(Active(o)') <= Cardinality(PayWorkers)
  <2>0. GrantedBy(o)' = GrantedBy(o) /\ Genuine(o)
    BY <1>2, StaysGenuine DEF GrantedBy
  <2>1. CASE orders[o].status = "COMPLETED"
    <3>1. Active(o)' \subseteq Active(o)
      BY <2>1 DEF Active, Granting, OrderOf
    <3>2. Cardinality(Active(o)') <= Cardinality(Active(o))
      BY <3>1, FiniteParts, FS_Subset
    <3>3. /\ Cardinality(GrantedBy(o)) + Cardinality(Active(o)) <= Cardinality(PayWorkers)
          /\ Cardinality(GrantedBy(o)) \in Nat /\ Cardinality(Active(o)) \in Nat
          /\ Cardinality(Active(o)') \in Nat /\ Cardinality(PayWorkers) \in Nat
      BY <2>0, <3>1, FiniteParts, FS_Subset, FS_CardinalityType, PayAssumption DEF GrantInv
    <3>. QED BY <2>0, <3>2, <3>3
  <2>2. CASE orders[o].status # "COMPLETED"
    <3>1. GrantedBy(o)' = {}
      BY <2>0, <2>2 DEF GrantInv
    <3>2. Active(o)' \subseteq PayWorkers
      BY DEF Active
    <3>3. /\ Cardinality(Active(o)') <= Cardinality(PayWorkers)
          /\ Cardinality(Active(o)') \in Nat /\ Cardinality(PayWorkers) \in Nat
      BY <3>2, FS_Subset, FS_CardinalityType, PayAssumption
    <3>. QED BY <3>1, <3>3, FS_EmptySet
  <2>. QED BY <2>1, <2>2
<1>. QED BY <1>1, <1>2 DEF GrantInv

LEMMA CreatePurchaseGrant ==
  ASSUME GrantInv, DeclineInv', NEW w \in PayWorkers, CreatePurchase(w)
  PROVE  GrantInv'
<1>1. PayTypeInv /\ Grant(w) /\ payCalls[w].pc \in GrantSteps
  BY DEF Grant, GrantInv, DeclineInv, CaptureInv, CreatePurchase, At, GrantSteps
<1>0. PICK p \in Orders, r \in Requests : p = OrderOf(w) /\ r = payCalls[w].req
  BY <1>1, FulfilCall DEF CreatePurchase, At, Matches
<1>2. /\ \A v \in PayWorkers : v # w => payCalls'[v] = payCalls[v]
      /\ payCalls'[w].pc = "idle" /\ orders' = orders /\ seen' = seen
      /\ payCalls[w].pc = "createPurchase" /\ payCalls[w].order = p
      /\ paidBy' = paidBy \/ paidBy' = [paidBy EXCEPT ![r] = p]
      /\ paidBy \in [Requests -> Orders \cup {None}]
  BY <1>0, <1>1, FulfilStep, OneCallMoves DEF CreatePurchase, At, OrderOf, PayTypeInv, PayTypeOK
<1>3. Genuine(p) => orders[p].status = "COMPLETED"
  BY <1>1, <1>2 DEF GrantInv, Fulfilling, OrderOf
<1>4. \A o \in Orders : o # p => GrantedBy(o)' \subseteq GrantedBy(o)
  BY <1>2 DEF GrantedBy
<1>5. GrantedBy(p)' \subseteq GrantedBy(p) \cup {r}
  BY <1>2 DEF GrantedBy
<1>6. /\ \A o \in Orders : Active(o)' \subseteq Active(o) /\ Fulfilling(o)' \subseteq Fulfilling(o)
      /\ w \in Active(p) /\ w \notin Active(p)'
  BY <1>2 DEF Active, Fulfilling, GrantSteps, OrderOf
<1>7. ASSUME NEW o \in Orders, Genuine(o), orders'[o].status # "COMPLETED"
      PROVE  GrantedBy(o)' = {} /\ Fulfilling(o)' = {}
  <2>1. o # p /\ GrantedBy(o) = {} /\ Fulfilling(o) = {}
    BY <1>2, <1>3, <1>7 DEF GrantInv
  <2>. QED BY <1>4, <1>6, <2>1
<1>8. ASSUME NEW o \in Orders, Genuine(o)
      PROVE  Cardinality(GrantedBy(o)') + Cardinality(Active(o)') <= Cardinality(PayWorkers)
  <2>1. /\ Cardinality(GrantedBy(o)) + Cardinality(Active(o)) <= Cardinality(PayWorkers)
        /\ Cardinality(GrantedBy(o)) \in Nat /\ Cardinality(Active(o)) \in Nat
        /\ Cardinality(PayWorkers) \in Nat
    BY <1>8, FiniteParts, FS_CardinalityType, PayAssumption DEF GrantInv
  <2>2. CASE o # p
    <3>1. /\ Cardinality(GrantedBy(o)') <= Cardinality(GrantedBy(o))
          /\ Cardinality(Active(o)') <= Cardinality(Active(o))
          /\ Cardinality(GrantedBy(o)') \in Nat /\ Cardinality(Active(o)') \in Nat
      BY <1>4, <1>6, <2>2, FiniteParts, FS_Subset, FS_CardinalityType
    <3>. QED BY <2>1, <3>1
  <2>3. CASE o = p
    <3>1. /\ IsFiniteSet(GrantedBy(o) \cup {r})
          /\ Cardinality(GrantedBy(o) \cup {r}) <= Cardinality(GrantedBy(o)) + 1
      BY <2>1, FiniteParts, FS_AddElement
    <3>2. /\ IsFiniteSet(Active(o) \ {w})
          /\ Cardinality(Active(o) \ {w}) = Cardinality(Active(o)) - 1
      BY <1>6, <2>3, FiniteParts, FS_RemoveElement
    <3>3. GrantedBy(o)' \subseteq GrantedBy(o) \cup {r} /\ Active(o)' \subseteq Active(o) \ {w}
      BY <1>5, <1>6, <2>3
    <3>4. /\ Cardinality(GrantedBy(o)') <= Cardinality(GrantedBy(o) \cup {r})
          /\ Cardinality(Active(o)') <= Cardinality(Active(o) \ {w})
          /\ Cardinality(GrantedBy(o)') \in Nat /\ Cardinality(Active(o)') \in Nat
          /\ Cardinality(GrantedBy(o) \cup {r}) \in Nat
      BY <3>1, <3>2, <3>3, FS_Subset, FS_CardinalityType
    <3>. QED BY <2>1, <3>1, <3>2, <3>4
  <2>. QED BY <2>2, <2>3
<1>9. \A o : Genuine(o)' => Genuine(o)
  BY <1>2 DEF Genuine, seen
<1>. QED BY <1>7, <1>8, <1>9 DEF GrantInv

LEMMA MoveGrant ==
  ASSUME GrantInv, DeclineInv', NEW w \in PayWorkers,
         PayStart(w) \/ PayStep(w) \/ ChargeLinkRefused(w) \/ PayFail(w), ~CreatePurchase(w)
  PROVE  GrantInv'
<1>0. PayTypeInv /\ CaptureInv /\ DeclineInv
  BY DEF GrantInv, DeclineInv, CaptureInv
<1>1. /\ posted \subseteq posted' /\ misnamed \subseteq misnamed'
      /\ \A o \in Orders : o \notin posted' \cup misnamed' /\ orders[o].status = "COMPLETED"
            => orders'[o].status = "COMPLETED"
  BY <1>0, NothingForgotten, CompletedStays DEF Genuine
<1>2. CASE ChargeCall(w)
  <2>1. /\ payCalls'[w].pc \notin Granting /\ paidBy' = paidBy
        /\ \A v \in PayWorkers : v # w => payCalls'[v] = payCalls[v]
    BY <1>0, <1>2, ChargingStep DEF Granting, GrantSteps
  <2>. QED BY <1>1, <2>1, GrantMove DEF Granting, Unlocking
<1>3. CASE SettleCall(w)
  <2>1. /\ payCalls'[w].pc \in {"idle", "complete", "fail", "findAccount"}
        /\ payCalls[w].pc \in {"fetch", "complete", "fail"}
        /\ payCalls'[w].pc = "findAccount" => orders'[OrderOf(w)].status = "COMPLETED"
        /\ payCalls'[w].pc = "findAccount" => At(w, "complete")
        /\ payCalls'[w].pc = "complete" => At(w, "fetch")
        /\ payCalls'[w].pc # "idle" => payCalls'[w].order = OrderOf(w)
        /\ paidBy' = paidBy /\ \A v \in PayWorkers : v # w => payCalls'[v] = payCalls[v]
    BY <1>0, <1>3, SettleStep
  <2>. QED BY <1>1, <2>1, GrantMove DEF Granting, Unlocking, GrantSteps, At
<1>4. CASE Grant(w) \/ FindAccount(w)
  <2>1. paidBy' = paidBy
    BY <1>4 DEF Grant, FindRequest, CreateRequest, ApproveRequest, FindPurchase, FindAccount
  <2>2. /\ payCalls[w].pc \in Unlocking /\ payCalls[w].pc \in Granting
        /\ payCalls'[w].pc \in Granting => payCalls'[w].order = OrderOf(w)
        /\ payCalls'[w].pc \in Unlocking => payCalls'[w].order = OrderOf(w)
        /\ \A v \in PayWorkers : v # w => payCalls'[v] = payCalls[v]
    BY <1>0, <1>4, FulfilStep, FindAccountStep DEF Granting, Unlocking, GrantSteps, At
  <2>. QED BY <1>1, <2>1, <2>2, GrantMove
<1>5. CASE PayFail(w)
  <2>1. /\ payCalls'[w].pc = "idle" /\ paidBy' = paidBy
        /\ \A v \in PayWorkers : v # w => payCalls'[v] = payCalls[v]
    BY <1>0, <1>5, OneCallMoves DEF PayFail
  <2>. QED BY <1>1, <2>1, GrantMove DEF Granting, Unlocking, GrantSteps
<1>6. CASE PayStart(w)
  <2>1. /\ payCalls'[w].pc \in {"post", "complete", "fail", "fetch"} /\ paidBy' = paidBy
        /\ payCalls'[w].pc # "post" => orders[payCalls'[w].order].status # "COMPLETED"
        /\ \A v \in PayWorkers : v # w => payCalls'[v] = payCalls[v]
    <3>1. ASSUME NEW o \in Orders, NEW t \in Templates \cup {None}, ChargeStart(w, o, t)
          PROVE  <2>1!1 /\ <2>1!2 /\ <2>1!3
      BY <1>0, <3>1, ChargeStartStep
    <3>2. ASSUME NEW n \in Notices, WebhookReceive(w, n) PROVE <2>1!1 /\ <2>1!2 /\ <2>1!3
      BY <1>0, <3>2, WebhookStep
    <3>3. ASSUME NEW o \in Orders, NEW c \in Orders, PollStart(w, o, c)
          PROVE  <2>1!1 /\ <2>1!2 /\ <2>1!3
      BY <1>0, <3>3, PollStep
    <3>. QED BY <1>6, <3>1, <3>2, <3>3 DEF PayStart
  <2>. QED BY <1>1, <2>1, GrantMove DEF Granting, Unlocking, GrantSteps
<1>. QED BY <1>2, <1>3, <1>4, <1>5, <1>6 DEF PayStep, ChargeCall, SettleCall

LEMMA InitGrant == PayInit => GrantInv
<1> SUFFICES ASSUME PayInit PROVE GrantInv
  OBVIOUS
<1>1. DeclineInv
  BY InitDecline
<1>2. ASSUME NEW o \in Orders PROVE GrantedBy(o) = {} /\ Fulfilling(o) = {} /\ Active(o) = {}
  BY PayAssumption DEF PayInit, GrantedBy, Fulfilling, Active, GrantSteps, PayIdle
<1>3. Cardinality(PayWorkers) \in Nat /\ Cardinality({}) = 0
  BY FS_EmptySet, FS_CardinalityType, PayAssumption
<1>4. ASSUME NEW o \in Orders
      PROVE  Cardinality(GrantedBy(o)) + Cardinality(Active(o)) <= Cardinality(PayWorkers)
  BY <1>2, <1>3
<1>. QED BY <1>1, <1>2, <1>4 DEF GrantInv

LEMMA NextGrant ==
  ASSUME ~Retryable, GrantInv, [AllNext]_allVars PROVE GrantInv'
<1>1. DeclineInv'
  BY NextDecline DEF GrantInv
<1>2. ASSUME UNCHANGED <<orders, payCalls, paidBy, seen>> PROVE GrantInv'
  <2>1. ASSUME NEW o \in Orders
        PROVE  /\ GrantedBy(o)' = GrantedBy(o) /\ Fulfilling(o)' = Fulfilling(o)
               /\ Active(o)' = Active(o)
    BY <1>2 DEF GrantedBy, Fulfilling, Active, OrderOf
  <2>. QED BY <1>1, <1>2, <2>1 DEF GrantInv, Genuine, seen
<1>3. ASSUME NEW w \in PayWorkers,
             PayStart(w) \/ PayStep(w) \/ ChargeLinkRefused(w) \/ PayFail(w)
      PROVE  GrantInv'
  BY <1>1, <1>3, CreatePurchaseGrant, MoveGrant
<1>4. CASE PayNext
  BY <1>2, <1>3, <1>4 DEF PayNext, TapCapture, TapDecline, Outcome
<1>5. CASE UNCHANGED payVars
  BY <1>2, <1>5 DEF payVars
<1>. QED BY <1>4, <1>5 DEF AllNext, allVars

LEMMA GrantInvBounds == GrantInv => GrantsBounded
<1> SUFFICES ASSUME GrantInv, NEW o \in Orders, Genuine(o)
             PROVE  Cardinality(GrantedBy(o)) + Cardinality(CompletingOrFulfilling(o))
                      <= Cardinality(PayWorkers)
  BY DEF GrantsBounded
<1>1. CompletingOrFulfilling(o) \subseteq Active(o)
  BY DEF CompletingOrFulfilling, Fulfilling, Active, GrantSteps
<1>2. /\ Cardinality(CompletingOrFulfilling(o)) <= Cardinality(Active(o))
      /\ Cardinality(CompletingOrFulfilling(o)) \in Nat
      /\ Cardinality(Active(o)) \in Nat /\ Cardinality(GrantedBy(o)) \in Nat
      /\ Cardinality(PayWorkers) \in Nat
  BY <1>1, FiniteParts, FS_Subset, FS_CardinalityType, PayAssumption
<1>. QED BY <1>2 DEF GrantInv

\* One order never grants more purchases than payment calls can be in progress,
\* however webhooks and status checks of it overlap, die or repeat, as long as
\* callers say of it only what is so and outcomes at Tap are final.
THEOREM GrantsAreBounded ==
  ASSUME ~Retryable PROVE PaySpec => []GrantsBounded
<1>1. GrantInv /\ [AllNext]_allVars => GrantInv'
  BY NextGrant
<1>. QED BY <1>1, InitGrant, GrantInvBounds, PTL DEF PaySpec
-----------------------------------------------------------------------------
(* What was paid for or approved is unlocked, as long as no call dies *)

\* A call is giving the template of order o to account u.
Giving(o, u) == \E w \in PayWorkers :
    OrderOf(w) = o /\ payCalls[w].pc \in GrantSteps /\ payCalls[w].user = u

\* What CompletedHasAccess says of the accounts found for an order holds of every
\* order, because a COMPLETED one may turn FAILED and COMPLETED again.
PaidAccess ==
    /\ \A o \in Orders : orders[o].status = "COMPLETED" => found[o] # {} \/ Fulfilling(o) # {}
    /\ \A o \in Orders : \A u \in found[o] \ {None} : orders[o].template # None =>
          Owns(u, orders[o].template) \/ Giving(o, u)
    /\ \A w \in PayWorkers : payCalls[w].pc \in GrantSteps => payCalls[w].user \in found[OrderOf(w)]

UnlockInv == PayTypeInv /\ PaidAccess /\ ApprovedIsFulfilled

LEMMA InitUnlock == PayInit => UnlockInv
  BY PayInitTypeInv DEF PayInit, Init, UnlockInv, PaidAccess, ApprovedIsFulfilled, NoOrder,
     Absent, PayIdle, GrantSteps

LEMMA PaidAccessCompleted == PaidAccess => CompletedHasAccess
  BY DEF PaidAccess, CompletedHasAccess, Served, Giving, Fulfilling

LEMMA NobodyDies ==
  ASSUME MaxFailures = 0, PayTypeInv, NEW w \in PayWorkers
  PROVE  ~PayFail(w) /\ ~ChargeLinkRefused(w)
  BY DEF PayFail, ChargeLinkRefused, PayTypeInv, TypeInv, TypeOK

\* A purchase unlocks for as long as its request is theirs.
LEMMA OwnsKept ==
  ASSUME PayTypeInv, RequestsKept, purchases \subseteq purchases',
         NEW u, u # None, NEW t, Owns(u, t)
  PROVE  Owns(u, t)'
<1>1. PICK r \in purchases : requests[r].user = u /\ requests[r].template = t
  BY DEF Owns
<1>2. r \in Requests /\ requests[r] \in Rows
  BY <1>1 DEF PayTypeInv, TypeInv, TypeOK, Absent
<1>. QED BY <1>1, <1>2 DEF Owns, RequestsKept

\* A call w moves.  If it was giving a template it goes on or the account owns
\* the template; it is the only one that may find an account or complete an order.
LEMMA AccessKept ==
  ASSUME PayTypeInv, PaidAccess, RequestsKept, OrdersKept, purchases \subseteq purchases',
         NEW w \in PayWorkers, \A v \in PayWorkers : v # w => payCalls'[v] = payCalls[v],
         \A o \in Orders : found[o] \subseteq found'[o],
         payCalls[w].pc \in GrantSteps =>
            \/ /\ payCalls'[w].pc \in GrantSteps /\ payCalls'[w].order = OrderOf(w)
               /\ payCalls'[w].user = payCalls[w].user
            \/ \A u, t : u = payCalls[w].user /\ t = orders[OrderOf(w)].template => Owns(u, t)',
         payCalls'[w].pc \in GrantSteps => payCalls'[w].user \in found'[payCalls'[w].order],
         payCalls[w].pc \in GrantSteps \cup {"findAccount"} => found'[OrderOf(w)] # {},
         \A o \in Orders : \A u \in found'[o] \ {None} : u \in found[o] \/
            /\ orders[o] \in OrderRows
            /\ orders[o].template # None => /\ payCalls'[w].pc \in GrantSteps
                                            /\ payCalls'[w].order = o /\ payCalls'[w].user = u,
         \A o \in Orders : orders'[o].status = "COMPLETED" =>
            \/ orders[o].status = "COMPLETED"
            \/ payCalls'[w].pc = "findAccount" /\ payCalls'[w].order = o
  PROVE  PaidAccess'
<1>1. ASSUME NEW o \in Orders, orders'[o].status = "COMPLETED"
      PROVE  found'[o] # {} \/ Fulfilling(o)' # {}
  <2>1. CASE payCalls'[w].pc = "findAccount" /\ payCalls'[w].order = o
    BY <2>1 DEF Fulfilling, OrderOf
  <2>2. CASE found[o] # {}
    BY <2>2
  <2>3. ASSUME NEW v \in Fulfilling(o) PROVE found'[o] # {} \/ Fulfilling(o)' # {}
    BY <2>3 DEF Fulfilling, OrderOf
  <2>. QED BY <1>1, <2>1, <2>2, <2>3 DEF PaidAccess
<1>2. ASSUME NEW o \in Orders, NEW u \in found'[o] \ {None}, orders'[o].template # None
      PROVE  Owns(u, orders[o].template)' \/ Giving(o, u)'
  <2>0. orders[o] \in OrderRows
    BY <1>2 DEF PayTypeInv, TapOK
  <2>1. PICK t : t = orders[o].template /\ t = orders'[o].template /\ t # None
    BY <1>2, <2>0 DEF OrdersKept
  <2>2. CASE u \notin found[o]
    BY <1>2, <2>1, <2>2 DEF Giving, OrderOf
  <2>3. CASE Owns(u, t)
    <3>1. Owns(u, t)'
      BY <1>2, <2>3, OwnsKept
    <3>. QED BY <2>1, <3>1 DEF Owns
  <2>4. ASSUME NEW v \in PayWorkers, OrderOf(v) = o, payCalls[v].pc \in GrantSteps,
               payCalls[v].user = u
        PROVE  Owns(u, t)' \/ Giving(o, u)'
    <3>1. CASE v # w
      BY <2>4, <3>1 DEF Giving, OrderOf
    <3>2. CASE v = w
      BY <2>1, <2>4, <3>2 DEF Giving, OrderOf
    <3>. QED BY <3>1, <3>2
  <2>5. u \in found[o] => Owns(u, t) \/ Giving(o, u)
    <3>1. \A a \in found[o] \ {None} : orders[o].template # None =>
             Owns(a, orders[o].template) \/ Giving(o, a)
      BY DEF PaidAccess
    <3>2. u # None
      BY <1>2
    <3>. QED BY ONLY <2>1, <3>1, <3>2
  <2>6. Owns(u, t)' => Owns(u, orders[o].template)'
    BY <2>1 DEF Owns
  <2>. QED BY <2>2, <2>3, <2>4, <2>5, <2>6 DEF Giving
<1>3. ASSUME NEW v \in PayWorkers, payCalls'[v].pc \in GrantSteps
      PROVE  payCalls'[v].user \in found'[payCalls'[v].order]
  <2>1. CASE v = w
    BY <1>3, <2>1
  <2>2. CASE v # w
    BY <1>3, <2>2, FulfilCall DEF PaidAccess, OrderOf
  <2>. QED BY <2>1, <2>2
<1>. QED BY <1>1, <1>2, <1>3 DEF PaidAccess, OrderOf

LEMMA FulfilKeeps ==
  ASSUME PayTypeInv, NEW w \in PayWorkers, Grant(w)
  PROVE  RequestsKept /\ purchases \subseteq purchases'
<1>1. CASE CreateRequest(w)
  <2>1. PICK r \in Requests : /\ requests[r] \notin Rows
                              /\ \E row : requests' = [requests EXCEPT ![r] = row]
    BY <1>1, PRAssumption DEF CreateRequest, Rows, Statuses
  <2>. QED BY <1>1, <2>1 DEF CreateRequest, RequestsKept, PayTypeInv, TypeInv, TypeOK
<1>2. CASE ApproveRequest(w)
  BY <1>2 DEF ApproveRequest, RequestsKept, PayTypeInv, TypeInv, TypeOK, Rows, Statuses
<1>3. CASE CreatePurchase(w)
  BY <1>3, SameRequests DEF CreatePurchase
<1>4. CASE FindRequest(w) \/ FindPurchase(w)
  BY <1>4, SameRequests DEF FindRequest, FindPurchase, vars
<1>. QED BY <1>1, <1>2, <1>3, <1>4 DEF Grant

\* A fulfilment that ends without dying leaves the purchase of its account.
LEMMA FulfilUnlocks ==
  ASSUME PayTypeInv, NEW w \in PayWorkers, Grant(w)
  PROVE  \/ /\ payCalls'[w].pc \in GrantSteps /\ payCalls'[w].order = OrderOf(w)
            /\ payCalls'[w].user = payCalls[w].user
         \/ \A u, t : u = payCalls[w].user /\ t = orders[OrderOf(w)].template => Owns(u, t)'
<1>1. /\ payCalls[w].pc \in GrantSteps
      /\ payCalls'[w].pc \in GrantSteps \cup {"idle"}
      /\ payCalls'[w].pc # "idle" => /\ payCalls'[w].order = OrderOf(w)
                                     /\ payCalls'[w].user = payCalls[w].user
  BY FulfilStep
<1>2. CASE FindRequest(w) \/ CreateRequest(w) \/ ApproveRequest(w)
  <2>1. payCalls'[w].pc # "idle"
    BY <1>2 DEF FindRequest, CreateRequest, ApproveRequest, PayGoto, PayTypeInv, PayTypeOK, PayCallSet
  <2>. QED BY <1>1, <2>1
<1>3. CASE FindPurchase(w) \/ CreatePurchase(w)
  <2>1. Matches(payCalls[w].req, payCalls[w].user, OrderOf(w))
    BY <1>1, <1>3, FulfilCall DEF FindPurchase, CreatePurchase, At
  <2>2. requests' = requests
    BY <1>3 DEF FindPurchase, CreatePurchase, vars
  <2>3. payCalls[w].req \in purchases' =>
           \A u, t : u = payCalls[w].user /\ t = orders[OrderOf(w)].template => Owns(u, t)'
    BY <2>1, <2>2 DEF Owns, Matches
  <2>4. CASE PayReturn(w)
    <3>1. payCalls[w].req \in purchases'
      BY <1>3, <2>4, OneCallMoves DEF FindPurchase, CreatePurchase, vars, PayGoto, PayReturn, PayIdle,
         PayTypeInv, PayTypeOK, PayCallSet
    <3>. QED BY <2>3, <3>1
  <2>5. CASE PayGoto(w, "createPurchase")
    BY <1>1, <2>5, OneCallMoves DEF PaySteps, GrantSteps, OrderOf
  <2>. QED BY <1>3, <2>4, <2>5 DEF FindPurchase, CreatePurchase
<1>. QED BY <1>2, <1>3 DEF Grant

\* The steps of createCharge and the first step of a call.
LEMMA ChargeAccess ==
  ASSUME UnlockInv, NEW w \in PayWorkers,
         \/ ChargePost(w) \/ ChargeRefused(w) \/ ChargeLink(w) \/ ChargeLinkTaken(w)
         \/ ChargeGiveUp(w) \/ PayStart(w)
  PROVE  PaidAccess'
<1>0. PayTypeInv /\ PaidAccess
  BY DEF UnlockInv
<1>1. /\ requests' = requests /\ purchases' = purchases /\ RequestsKept /\ found' = found
      /\ payCalls[w].pc \notin GrantSteps \cup {"findAccount"} /\ payCalls'[w].pc \notin GrantSteps
  <2>3. payCalls'[w].pc \in {"post", "link", "giveUp", "idle", "complete", "fail", "fetch"}
    <3>1. CASE PayStart(w)
      BY <1>0, <3>1, ChargeStartStep, WebhookStep, PollStep DEF PayStart
    <3>2. CASE ChargePost(w) \/ ChargeRefused(w) \/ ChargeLink(w) \/ ChargeLinkTaken(w)
               \/ ChargeGiveUp(w)
      BY <1>0, <3>2, OneCallMoves DEF ChargePost, ChargeRefused, ChargeLink, ChargeLinkTaken,
         ChargeGiveUp, PaySteps
    <3>. QED BY <3>1, <3>2
  <2>1. requests' = requests /\ purchases' = purchases /\ found' = found
    BY DEF ChargePost, ChargeRefused, ChargeLink, ChargeLinkTaken, ChargeGiveUp, PayStart,
       ChargeStart, WebhookReceive, PollStart, vars, seen
  <2>2. payCalls[w].pc \in {"idle", "post", "link", "giveUp"}
    BY DEF ChargePost, ChargeRefused, ChargeLink, ChargeLinkTaken, ChargeGiveUp, PayStart,
       ChargeStart, WebhookReceive, PollStart, At
  <2>. QED BY <2>1, <2>2, <2>3, SameRequests DEF GrantSteps
<1>2. \A v \in PayWorkers : v # w => payCalls'[v] = payCalls[v]
  BY <1>0 DEF ChargePost, ChargeRefused, ChargeLink, ChargeLinkTaken, ChargeGiveUp, PayStart,
     ChargeStart, WebhookReceive, PollStart, PayGoto, PayReturn, PayTypeInv, PayTypeOK
<1>3. OrdersKept /\ \A o \in Orders : orders'[o].status = "COMPLETED" => orders[o].status = "COMPLETED"
  <2>1. CASE UNCHANGED orders
    BY <2>1, SameOrders
  <2>2. CASE ChargeLink(w) \/ ChargeGiveUp(w)
    <3>1. PICK o \in Orders : o = OrderOf(w) /\ orders[o] \in OrderRows
      BY <1>0, <2>2 DEF ChargeLink, ChargeGiveUp, At, OrderOf, PayTypeInv, PayCallsOK, PayCallOK
    <3>2. \/ orders' = [orders EXCEPT ![o].charge = o]
          \/ orders' = [orders EXCEPT ![o].status = "FAILED"]
      BY <2>2, <3>1 DEF ChargeLink, ChargeGiveUp
    <3>3. OrdersKept
      BY <1>0, <3>1, <3>2, OrderWritten DEF OrderStatuses
    <3>. QED BY <1>0, <3>1, <3>2, <3>3 DEF OrderRows, PayTypeInv, PayTypeOK
  <2>3. ASSUME NEW o \in Orders, NEW t \in Templates \cup {None}, ChargeStart(w, o, t)
        PROVE  OrdersKept /\ \A p \in Orders : orders'[p].status = "COMPLETED"
                                                  => orders[p].status = "COMPLETED"
    BY <1>0, <2>3, ChargeStartStep DEF OrdersKept
  <2>. QED BY <2>1, <2>2, <2>3
           DEF ChargePost, ChargeRefused, ChargeLinkTaken, PayStart, WebhookReceive, PollStart
<1>. QED BY <1>0, <1>1, <1>2, <1>3, AccessKept

LEMMA SettleAccess ==
  ASSUME UnlockInv, NEW w \in PayWorkers, SettleCall(w)
  PROVE  PaidAccess'
<1>0. PayTypeInv /\ PaidAccess
  BY DEF UnlockInv
<1>1. /\ RequestsKept /\ purchases' = purchases /\ found' = found
      /\ payCalls[w].pc \notin GrantSteps \cup {"findAccount"} /\ payCalls'[w].pc \notin GrantSteps
      /\ \A v \in PayWorkers : v # w => payCalls'[v] = payCalls[v]
  BY <1>0, SettleStep, SameRequests DEF vars, seen, GrantSteps
<1>2. \A o \in Orders : orders'[o].status = "COMPLETED" =>
         \/ orders[o].status = "COMPLETED"
         \/ payCalls'[w].pc = "findAccount" /\ payCalls'[w].order = o
  BY <1>0, SettleStep
<1>3. OrdersKept
  <2>1. ASSUME NEW s \in OrderStatuses, Settled(w, s) PROVE OrdersKept
    <3>1. payCalls[w].charge \in Orders \cup {None}
      BY <1>0 DEF PayTypeInv, PayTypeOK, PayCallSet
    <3>2. OrderOf(w) \in Orders /\ orders[OrderOf(w)] \in OrderRows
      BY <1>0, SettleStep
    <3>. QED BY <1>0, <2>1, <3>1, <3>2, OrderWritten DEF Settled
  <2>. QED BY <2>1, SameOrders DEF SettleCall, PollFetch, Complete, MarkFailed, SettleRefused,
           OrderStatuses
<1>. QED BY <1>0, <1>1, <1>2, <1>3, AccessKept

LEMMA FulfilAccess ==
  ASSUME UnlockInv, NEW w \in PayWorkers, Grant(w)
  PROVE  PaidAccess'
<1>0. PayTypeInv /\ PaidAccess
  BY DEF UnlockInv
<1>1. /\ RequestsKept /\ purchases \subseteq purchases' /\ orders' = orders /\ OrdersKept
      /\ found' = found /\ payCalls[w].pc \in GrantSteps
      /\ \A v \in PayWorkers : v # w => payCalls'[v] = payCalls[v]
  BY <1>0, FulfilStep, FulfilKeeps, SameOrders DEF seen
<1>2. payCalls[w].user \in found'[OrderOf(w)]
  BY <1>0, <1>1 DEF PaidAccess
<1>3. payCalls'[w].pc \in GrantSteps => payCalls'[w].user \in found'[payCalls'[w].order]
  BY <1>0, <1>2, FulfilStep DEF GrantSteps
<1>. QED BY <1>0, <1>1, <1>2, <1>3, FulfilUnlocks, AccessKept

LEMMA FindAccountAccess ==
  ASSUME UnlockInv, NEW w \in PayWorkers, FindAccount(w)
  PROVE  PaidAccess'
<1>0. PayTypeInv /\ PaidAccess
  BY DEF UnlockInv
<1>1. /\ requests' = requests /\ purchases' = purchases /\ orders' = orders
      /\ RequestsKept /\ OrdersKept /\ payCalls[w].pc = "findAccount"
      /\ \A v \in PayWorkers : v # w => payCalls'[v] = payCalls[v]
  BY <1>0, FindAccountStep, SameRequests, SameOrders DEF vars, At
<1>2. PICK o \in Orders : o = OrderOf(w) /\ orders[o] \in OrderRows
  BY <1>0, <1>1 DEF PayTypeInv, PayCallsOK, PayCallOK, OrderOf
<1>3. PICK u \in Users \cup {None} :
         /\ found' = [found EXCEPT ![o] = @ \cup {u}]
         /\ IF u # None /\ orders[o].template # None
            THEN payCalls' = [payCalls EXCEPT ![w].pc = "findRequest", ![w].user = u]
            ELSE PayReturn(w)
  BY <1>2 DEF FindAccount
<1>4. /\ found'[o] = found[o] \cup {u} /\ \A p \in Orders : p # o => found'[p] = found[p]
  BY <1>0, <1>3 DEF PayTypeInv, PayTypeOK
<1>5. u # None /\ orders[o].template # None =>
         /\ payCalls'[w].pc \in GrantSteps /\ payCalls'[w].order = o /\ payCalls'[w].user = u
  BY <1>0, <1>2, <1>3 DEF PayTypeInv, PayTypeOK, PayCallSet, OrderOf, GrantSteps
<1>6. payCalls[w].pc \notin GrantSteps
  BY <1>1 DEF GrantSteps
<1>7. payCalls'[w].pc \in GrantSteps => payCalls'[w].user \in found'[payCalls'[w].order]
  <2>1. PayReturn(w) => payCalls'[w].pc \notin GrantSteps
    BY <1>0, OneCallMoves DEF GrantSteps
  <2>. QED BY <1>3, <1>4, <1>5, <2>1
<1>. QED BY <1>0, <1>1, <1>2, <1>4, <1>5, <1>6, <1>7, AccessKept

\* The calls that still have to write the purchase of r.
BeforePurchase(r) == {w \in PayWorkers : /\ payCalls[w].req = r
                                         /\ payCalls[w].pc \in {"findPurchase", "createPurchase"}}

LEMMA ApprovedAgain ==
  ApprovedIsFulfilled <=>
     \A r \in Requests : requests[r].status = "APPROVED" =>
        r \in purchases \/ BeforePurchase(r) # {}
  BY DEF ApprovedIsFulfilled, BeforePurchase

LEMMA FulfilApproved ==
  ASSUME UnlockInv, NEW w \in PayWorkers, Grant(w)
  PROVE  ApprovedIsFulfilled'
<1>0. PayTypeInv /\ payCalls[w].pc \in GrantSteps /\ purchases \subseteq purchases'
      /\ requests \in [Requests -> Rows \cup {Absent}] /\ payCalls \in [PayWorkers -> PayCallSet]
  BY FulfilStep, FulfilKeeps DEF UnlockInv, PayTypeInv, PayTypeOK, TypeInv, TypeOK
<1>1. \A v \in PayWorkers : v # w => payCalls'[v] = payCalls[v]
  BY <1>0, FulfilStep
<1>2. ASSUME NEW r \in Requests, requests'[r].status = "APPROVED"
      PROVE  r \in purchases' \/ BeforePurchase(r)' # {}
  <2>1. CASE requests[r].status # "APPROVED"
    <3>1. CreateRequest(w) \/ ApproveRequest(w)
      BY <1>2, <2>1 DEF Grant, FindRequest, FindPurchase, CreatePurchase, vars
    <3>2. payCalls'[w].req = r /\ payCalls'[w].pc = "findPurchase"
      BY <1>0, <1>2, <2>1, <3>1 DEF CreateRequest, ApproveRequest, PayGoto, PayCallSet
    <3>. QED BY <3>2 DEF BeforePurchase
  <2>2. CASE r \in purchases
    BY <1>0, <2>2
  <2>3. ASSUME NEW v \in BeforePurchase(r), v # w PROVE BeforePurchase(r)' # {}
    BY <1>1, <2>3 DEF BeforePurchase
  <2>4. CASE w \in BeforePurchase(r)
    <3>1. payCalls[w].req = r /\ payCalls[w].pc \in {"findPurchase", "createPurchase"}
      BY <2>4 DEF BeforePurchase
    <3>2. CASE FindPurchase(w)
      <4>1. CASE r \in purchases
        BY <1>0, <4>1
      <4>2. CASE r \notin purchases
        <5>1. payCalls'[w].req = r /\ payCalls'[w].pc = "createPurchase"
          BY <1>0, <3>1, <3>2, <4>2 DEF FindPurchase, PayGoto, PayCallSet
        <5>. QED BY <5>1 DEF BeforePurchase
      <4>. QED BY <4>1, <4>2
    <3>3. CASE CreatePurchase(w)
      BY <3>1, <3>3 DEF CreatePurchase
    <3>. QED BY <3>1, <3>2, <3>3 DEF Grant, FindRequest, CreateRequest, ApproveRequest, At
  <2>. QED BY <2>1, <2>2, <2>3, <2>4, ApprovedAgain DEF UnlockInv
<1>. QED BY <1>2 DEF ApprovedIsFulfilled, BeforePurchase

LEMMA OtherApproved ==
  ASSUME UnlockInv, NEW w \in PayWorkers,
         \/ ChargePost(w) \/ ChargeRefused(w) \/ ChargeLink(w) \/ ChargeLinkTaken(w)
         \/ ChargeGiveUp(w) \/ PayStart(w) \/ SettleCall(w) \/ FindAccount(w)
  PROVE  ApprovedIsFulfilled'
<1>0. PayTypeInv /\ ApprovedIsFulfilled
  BY DEF UnlockInv
<1>1. CASE SettleCall(w) \/ FindAccount(w)
  <2>1. /\ requests' = requests /\ purchases' = purchases
        /\ payCalls[w].pc \notin {"findPurchase", "createPurchase"}
        /\ \A v \in PayWorkers : v # w => payCalls'[v] = payCalls[v]
    BY <1>0, <1>1, SettleStep, FindAccountStep DEF vars, At
  <2>. QED BY ONLY <1>0, <2>1 DEF ApprovedIsFulfilled
<1>2. CASE \/ ChargePost(w) \/ ChargeRefused(w) \/ ChargeLink(w) \/ ChargeLinkTaken(w)
           \/ ChargeGiveUp(w) \/ PayStart(w)
  <2>1. requests' = requests /\ purchases' = purchases
    BY <1>2 DEF ChargePost, ChargeRefused, ChargeLink, ChargeLinkTaken, ChargeGiveUp, PayStart,
       ChargeStart, WebhookReceive, PollStart, vars
  <2>2. payCalls[w].pc \notin {"findPurchase", "createPurchase"}
    BY <1>2 DEF ChargePost, ChargeRefused, ChargeLink, ChargeLinkTaken, ChargeGiveUp, PayStart,
       ChargeStart, WebhookReceive, PollStart, At
  <2>3. \A v \in PayWorkers : v # w => payCalls'[v] = payCalls[v]
    BY <1>0, <1>2 DEF ChargePost, ChargeRefused, ChargeLink, ChargeLinkTaken, ChargeGiveUp,
       PayStart, ChargeStart, WebhookReceive, PollStart, PayGoto, PayReturn, PayTypeInv, PayTypeOK
  <2>. QED BY ONLY <1>0, <2>1, <2>2, <2>3 DEF ApprovedIsFulfilled
<1>. QED BY <1>1, <1>2

LEMMA RequestsUnlock ==
  ASSUME UnlockInv, Next, UNCHANGED payVars
  PROVE  PaidAccess' /\ ApprovedIsFulfilled'
<1>0. PayTypeInv /\ TypeInv /\ PaidAccess /\ ApprovedIsFulfilled /\ RequestsKept /\ OrdersKept
  BY NextKeepsRequests, SameOrders DEF UnlockInv, PayTypeInv, payVars
<1>1. /\ purchases \subseteq purchases'
      /\ \A r \in Requests : requests'[r].status = "APPROVED" =>
            requests[r].status = "APPROVED" \/ r \in purchases'
  <2>1. CASE UNCHANGED <<requests, purchases>>
    BY <2>1
  <2>2. ASSUME NEW w \in Workers, CreateCommit(w) PROVE <1>1
    <3>1. PICK r \in Requests, s \in {"APPROVED", "PENDING"}, row \in Rows :
             /\ row.status = s /\ requests' = [requests EXCEPT ![r] = row]
             /\ purchases' = IF s = "APPROVED" THEN purchases \cup {r} ELSE purchases
      BY <1>0, <2>2, CommitAccess
    <3>. QED BY <1>0, <3>1 DEF TypeInv, TypeOK
  <2>3. ASSUME NEW w \in Workers, UpdateCommit(w) \/ CancelWrite(w) PROVE <1>1
    <3>1. PICK r \in Requests, s \in Statuses :
             /\ requests[r] \in Rows /\ requests' = [requests EXCEPT ![r].status = s]
             /\ purchases' = IF s = "APPROVED" THEN purchases \cup {r} ELSE purchases
      BY <1>0, <2>3, DecideAccess
    <3>. QED BY <1>0, <3>1 DEF TypeInv, TypeOK, Rows
  <2>. QED BY <2>1, <2>2, <2>3, Writers
<1>2. ApprovedIsFulfilled'
  BY <1>0, <1>1 DEF ApprovedIsFulfilled, payVars
<1>3. orders' = orders /\ payCalls' = payCalls /\ found' = found
  BY DEF payVars, seen
<1>4. ASSUME NEW o \in Orders, NEW u \in found[o] \ {None}, orders[o].template # None
      PROVE  Owns(u, orders[o].template)' \/ Giving(o, u)'
  <2>1. PICK t : t = orders[o].template
    OBVIOUS
  <2>2. Owns(u, t) \/ Giving(o, u)
    BY <1>0, <1>4, <2>1 DEF PaidAccess
  <2>3. Owns(u, t) => Owns(u, t)'
    BY <1>0, <1>1, <1>4, OwnsKept
  <2>. QED BY <1>3, <2>1, <2>2, <2>3 DEF Giving, OrderOf, Owns
<1>5. \A o \in Orders : orders[o].status = "COMPLETED" => found[o] # {} \/ Fulfilling(o)' # {}
  BY <1>0, <1>3 DEF PaidAccess, Fulfilling, OrderOf
<1>6. \A w \in PayWorkers : payCalls[w].pc \in GrantSteps => payCalls[w].user \in found[OrderOf(w)]
  BY <1>0 DEF PaidAccess
<1>7. PaidAccess'
  <2>1. \A o \in Orders : orders'[o].status = "COMPLETED" => found'[o] # {} \/ Fulfilling(o)' # {}
    BY <1>3, <1>5
  <2>2. \A o \in Orders : \A u \in found'[o] \ {None} : orders'[o].template # None =>
           Owns(u, orders[o].template)' \/ Giving(o, u)'
    BY <1>3, <1>4
  <2>3. \A w \in PayWorkers : payCalls'[w].pc \in GrantSteps => payCalls'[w].user \in found'[OrderOf(w)']
    BY <1>3, <1>6 DEF OrderOf
  <2>. QED BY ONLY <2>1, <2>2, <2>3 DEF PaidAccess
<1>. QED BY <1>2, <1>7

LEMMA NextUnlock ==
  ASSUME MaxFailures = 0, UnlockInv, [AllNext]_allVars PROVE UnlockInv'
<1>1. PayTypeInv /\ PayTypeInv'
  BY NextPayTypeInv DEF UnlockInv
<1>2. ASSUME UNCHANGED <<requests, purchases, orders, payCalls, found>>
      PROVE  PaidAccess' /\ ApprovedIsFulfilled'
  <2>1. PayTypeInv /\ PaidAccess /\ ApprovedIsFulfilled
    BY DEF UnlockInv
  <2>2. PaidAccess'
    BY <1>2, <2>1 DEF PaidAccess, Owns, Giving, Fulfilling, OrderOf
  <2>3. ApprovedIsFulfilled'
    BY <1>2, <2>1 DEF ApprovedIsFulfilled
  <2>. QED BY <2>2, <2>3
<1>3. ASSUME NEW w \in PayWorkers,
             PayStart(w) \/ PayStep(w) \/ ChargeLinkRefused(w) \/ PayFail(w)
      PROVE  PaidAccess' /\ ApprovedIsFulfilled'
  <2>1. ~ChargeLinkRefused(w) /\ ~PayFail(w)
    BY <1>1, NobodyDies
  <2>. QED BY <1>3, <2>1, ChargeAccess, SettleAccess, FulfilAccess, FindAccountAccess,
           FulfilApproved, OtherApproved
           DEF PayStep, SettleCall
<1>4. CASE PayNext
  <2>1. CASE \E o \in Orders : TapCapture(o) \/ TapDecline(o)
    <3>1. UNCHANGED <<requests, purchases, orders, payCalls, found>>
      BY <2>1 DEF TapCapture, TapDecline, Outcome, vars, seen
    <3>. QED BY <1>1, <1>2, <3>1 DEF UnlockInv
  <2>. QED BY <1>1, <1>3, <1>4, <2>1 DEF PayNext, UnlockInv
<1>5. CASE UNCHANGED allVars
  BY <1>1, <1>2, <1>5 DEF allVars, vars, payVars, seen, UnlockInv
<1>6. CASE Next /\ UNCHANGED payVars
  BY <1>1, <1>6, RequestsUnlock DEF UnlockInv
<1>. QED BY <1>4, <1>5, <1>6 DEF AllNext

\* As long as no call dies, the account of a COMPLETED order is looked up, and
\* every account that was found has its purchase or is being given it, whoever
\* posted the webhook and whatever the administrator does meanwhile to the
\* request that the fulfilment approves.
THEOREM CompletedAlwaysHasAccess ==
  ASSUME MaxFailures = 0 PROVE PaySpec => []CompletedHasAccess
<1>1. UnlockInv /\ [AllNext]_allVars => UnlockInv'
  BY NextUnlock
<1>2. UnlockInv => CompletedHasAccess
  BY PaidAccessCompleted DEF UnlockInv
<1>. QED BY <1>1, <1>2, InitUnlock, PTL DEF PaySpec

\* As long as no call dies, an approved request has its purchase, or the
\* payment call that approved it is about to insert one.
THEOREM ApprovedIsAlwaysFulfilled ==
  ASSUME MaxFailures = 0 PROVE PaySpec => []ApprovedIsFulfilled
<1>1. UnlockInv /\ [AllNext]_allVars => UnlockInv'
  BY NextUnlock
<1>2. UnlockInv => ApprovedIsFulfilled
  BY DEF UnlockInv
<1>. QED BY <1>1, <1>2, InitUnlock, PTL DEF PaySpec
=============================================================================
