------------------------------ MODULE MCSignIn ------------------------------
(***************************************************************************)
(* An owner and two invited users, of whom the owner can make managers and *)
(* managers can change what the owner left them; two requests at a time,   *)
(* two wrong passwords to a lock, one lock that expires.                   *)
(***************************************************************************)
EXTENDS SignIn
=============================================================================
