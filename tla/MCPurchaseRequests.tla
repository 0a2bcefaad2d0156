------------------------ MODULE MCPurchaseRequests ------------------------
(* Instances of PurchaseRequests for TLC. *)
EXTENDS PurchaseRequests, TLC

CONSTANTS u1, u2, p1, p2

\* One account, registered with its phone number.
MCRegistered == u1 :> p1

\* u1 signed in with Google and has no phone number yet, u2 registered one.
MCGoogleAndRegistered == u1 :> None @@ u2 :> p2

Coupon(full, m) == [full |-> full, max |-> m, active |-> TRUE]

\* A coupon for one use, and an unlimited 100% coupon.
MCNewCoupons == {Coupon(FALSE, 1), Coupon(TRUE, NoLimit)}

\* One column at a time: a limit, no limit, another discount, inactive.
MCAllEdits == {[NoEdit EXCEPT !.max = 1], [NoEdit EXCEPT !.max = NoLimit],
               [NoEdit EXCEPT !.full = TRUE], [NoEdit EXCEPT !.active = FALSE]}

Symmetric == Permutations(Requests) \cup Permutations(Workers)
=============================================================================
