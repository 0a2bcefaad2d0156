---------------------------- MODULE AccessLedger ----------------------------
(***************************************************************************)
(* What purchase requests promise whatever calls overlap or die: a request *)
(* is approved at most once, in the same step in which access is granted   *)
(* for it, and access is never taken back (schema.prisma: "A purchase      *)
(* record created when a PurchaseRequest is approved").                    *)
(***************************************************************************)
CONSTANT Requests

VARIABLES approved,  \* requests with status APPROVED
          access     \* requests with a purchase

LedgerInit == approved = {} /\ access = {}

Approve(r) ==
    /\ r \notin access
    /\ approved' = approved \cup {r}
    /\ access' = access \cup {r}

\* A late updateStatus or cancel overwrites the status; the purchase stays.
Overwrite(r) ==
    /\ r \in approved
    /\ approved' = approved \ {r}
    /\ UNCHANGED access

LedgerNext == \E r \in Requests : Approve(r) \/ Overwrite(r)

LedgerSpec == LedgerInit /\ [][LedgerNext]_<<approved, access>>
=============================================================================
