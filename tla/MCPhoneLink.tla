----------------------------- MODULE MCPhoneLink -----------------------------
(* A small instance of PhoneLink.                                            *)
EXTENDS PhoneLink
=============================================================================
