-------------------------------- MODULE Totals --------------------------------
(***************************************************************************)
(* Totals of natural-valued functions, such as balances per account.  A    *)
(* total is the number of units there are, a unit being one of the f[x]    *)
(* that belong to x: counting them needs no recursion over the accounts.   *)
(***************************************************************************)
EXTENDS Naturals, FiniteSets

Units(f, S) == UNION {{x} \X (1 .. f[x]) : x \in S}

Total(f, S) == Cardinality(Units(f, S))
=============================================================================
