----------------------------- MODULE MCAccounts -----------------------------
\* Calls made once each, for TLC: calls are interchangeable.
EXTENDS Accounts, TLC

Interchangeable == Permutations(Call)
=============================================================================
