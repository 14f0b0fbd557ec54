-------------------------- MODULE MCPermissionManager --------------------------
(* Requests are alike, and so are pages. *)
EXTENDS PermissionManager, TLC

Symmetry == Permutations(Requests) \cup Permutations(WebContents)

=============================================================================
