--------------------------- MODULE InstalledBundle ---------------------------
(***************************************************************************)
(* What storage/ui_bundle_store promises ("two-slot, atomic activation"):  *)
(* the screens a boot would come up with are replaced in one step, by a    *)
(* bundle that stage() accepted, and are lost only when the partition is   *)
(* formatted.                                                              *)
(***************************************************************************)
CONSTANTS Verified, Nothing

VARIABLES installed, wiped  \* wiped: what was installed went with the partition

Init == installed = Nothing /\ wiped = FALSE

Install(b) == installed' = b /\ wiped' = FALSE

Format == installed' = Nothing /\ wiped' = (wiped \/ installed # Nothing)

Next == Format \/ \E b \in Verified : Install(b)

Spec == Init /\ [][Next]_<<installed, wiped>>
=============================================================================
