---------------------------- MODULE MCCorpusIndex ----------------------------
(* Two versions with different contents, one of which carries a secret.       *)
EXTENDS CorpusIndex

CONSTANTS p1, p2, clean, secret, adm, t1, t2

MCUploads ==
  {[pkg |-> p1, blob |-> clean, analyst |-> NoActor],
   [pkg |-> p2, blob |-> secret, analyst |-> NoActor]}

\* One version is enough for a race between two requests about it.
MCOneUpload == {[pkg |-> p1, blob |-> clean, analyst |-> NoActor]}
=============================================================================
