------------------------------ MODULE MCFallback ------------------------------
(* Model-checking instances of ProviderFallback.                            *)
EXTENDS ProviderFallback, TLC

CONSTANTS f1, f2
TwoFallbacks == <<f1, f2>>
=============================================================================
