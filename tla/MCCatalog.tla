----------------------------- MODULE MCCatalog -----------------------------
(* Instances of Catalog for TLC. *)
EXTENDS Catalog, TLC

CONSTANTS i1

\* File 1 is an old image; file 2, a photo, and file 3, the preview of the only
\* template, still lie on the local disk.
MCGallery ==
    i1 :> [images |-> {1}, moments |-> {2}, hidden |-> {}, music |-> 0,
           raw |-> {}]

MCTemplates == <<[preview |-> 3, active |-> TRUE]>>

Symmetry == Permutations(Workers)
=============================================================================
