---------------------------- MODULE MCPayments ----------------------------
(* Instances of Payments for TLC. *)
EXTENDS Payments, TLC

CONSTANTS u1, p1, o1

\* One account, registered with its phone number.
MCRegistered == u1 :> p1

\* Somebody else than Tap says that o1 is paid.
MCPosts == {n \in Notices : n.order = o1 /\ n.charge = None /\ n.status = "captured"}

Symmetric == Permutations(Requests) \cup Permutations(PayWorkers) \cup Permutations(Workers)
=============================================================================
