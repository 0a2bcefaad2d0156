-------------------------- MODULE RequestLifecycle --------------------------
(***************************************************************************)
(* The life of a purchase request as its documentation tells it            *)
(* (purchase-request.controller.ts): it is submitted, then approved,       *)
(* rejected or cancelled once, and the approval generates the purchase.    *)
(***************************************************************************)
CONSTANT Requests

VARIABLES status, access

LifeInit == status = [r \in Requests |-> "ABSENT"] /\ access = {}

Submit(r) ==
    /\ status[r] = "ABSENT"
    /\ status' = [status EXCEPT ![r] = "PENDING"]
    /\ UNCHANGED access

\* by an administrator, or at once when there is nothing to pay
Approve(r) ==
    /\ status[r] \in {"ABSENT", "PENDING"}
    /\ status' = [status EXCEPT ![r] = "APPROVED"]
    /\ access' = access \cup {r}

Close(r, s) ==
    /\ status[r] = "PENDING"
    /\ status' = [status EXCEPT ![r] = s]
    /\ UNCHANGED access

LifeNext == \E r \in Requests :
    Submit(r) \/ Approve(r) \/ \E s \in {"REJECTED", "CANCELLED"} : Close(r, s)

LifeSpec == LifeInit /\ [][LifeNext]_<<status, access>>
=============================================================================
