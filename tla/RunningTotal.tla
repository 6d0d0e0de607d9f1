----------------------------- MODULE RunningTotal -----------------------------
(***************************************************************************)
(* The sum a loop over the slots of a page adds up.  It is a recursive      *)
(* function, which a proof can unfold, where a fold is not.                 *)
(***************************************************************************)
EXTENDS Integers

\* f[1] + ... + f[n].
Total(f, n) ==
    LET sum[k \in Nat] == IF k = 0 THEN 0 ELSE sum[k - 1] + f[k]
    IN sum[n]

=============================================================================
