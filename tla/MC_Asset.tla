------------------------------ MODULE MC_Asset ------------------------------
(***************************************************************************)
(* Model-checking instance of Asset.  The fee constants are scaled down   *)
(* (FeeDecimals 1 instead of 3, fees 1 instead of 50000) so that coin     *)
(* values stay small; the decimal structure of the fee is kept.           *)
(***************************************************************************)
EXTENDS Asset

MC_Values == {2, 4}
MC_Amounts == {1}
\* An amount whose fee amount / 10 has a decimal part, and coins to pay it.
MC_FracAmounts == {15}
MC_BigValues == {10}
\* _debits, _credits, hist and notified are written by syncronize and the
\* keymap calls and read by no guard, by no other variable's update and by no
\* property of the generate run:
\* states that differ only in them have the same futures there.
MC_GenerateView == <<chain, keymap, stored, txCache, coins, sync, pool, result,
                     syncs, restarts>>
\* Addresses are compared only for equality.
MC_Symmetry == Permutations(Addr)
=============================================================================
