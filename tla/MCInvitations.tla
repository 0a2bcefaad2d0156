--------------------------- MODULE MCInvitations ---------------------------
(* Instances of Invitations for TLC. *)
EXTENDS Invitations, TLC

CONSTANTS i1, i2, s1, s2

\* One invitation is published, the other purchase has none yet.
MCInitSlug == i1 :> s1 @@ i2 :> None

\* A new slug, or deactivation.
MCChanges == {[slug |-> s2, active |-> None], [slug |-> None, active |-> FALSE]}
=============================================================================
