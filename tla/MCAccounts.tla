----------------------------- MODULE MCAccounts -----------------------------
(* Two users in two tabs of one browser.                                    *)
EXTENDS Accounts, TLC

Symmetry == Permutations(Tabs)
==============================================================================
