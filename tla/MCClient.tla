------------------------------ MODULE MCClient ------------------------------
(***************************************************************************)
(* Values for model-checking ClientLookup.                                 *)
(***************************************************************************)
EXTENDS ClientLookup, TLC

CONSTANTS
  u1, broken, svc,  \* urls
  k1, blank,         \* API keys
  mine, theirs,         \* Secrets
  svc1, svc2            \* Services

=============================================================================
