----------------------------- MODULE MCSessions -----------------------------
(* An instance of Sessions for TLC. *)
EXTENDS Sessions, TLC

CONSTANTS e1, e2, E2, p1, p2

\* e2 and E2 are the same mailbox.
MCLower(e) == IF e = E2 THEN e2 ELSE e

\* One account with a session and a code that was just mailed.
MCUsers == <<[email |-> e1, phone |-> p1, hash |-> TRUE, active |-> TRUE]>>

MCLetters == <<[to |-> e1, mailed |-> TRUE, expired |-> FALSE, uses |-> 0]>>

MCTokens ==
    <<[of |-> 1, parent |-> 0, root |-> 1, revoked |-> FALSE, expired |-> FALSE,
       given |-> TRUE]>>

MCChanges == {[email |-> E2, phone |-> None, active |-> None],
              [email |-> None, phone |-> p2, active |-> FALSE]}

Symmetry == Permutations(Workers)
=============================================================================
