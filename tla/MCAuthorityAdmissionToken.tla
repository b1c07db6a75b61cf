---------------------- MODULE MCAuthorityAdmissionToken ----------------------
(* The token with a GUI thread, two other threads and two guards.           *)
EXTENDS AuthorityAdmissionToken
=============================================================================
