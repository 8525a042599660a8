---------------------------- MODULE MCStoreFiles -----------------------------
(* Two versions that may share bytes, and different bytes for one key. *)
EXTENDS StoreFiles

CONSTANTS p1, p2, b1, b2, api, agent

MCUploads == {[pkg |-> p1, blob |-> b1], [pkg |-> p1, blob |-> b2], [pkg |-> p2, blob |-> b1]}
=============================================================================
