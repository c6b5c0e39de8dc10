------------------------------ MODULE MCTrading ------------------------------
(* The trading coordinator on a small instance. *)
EXTENDS Trading, TLC

Symmetry == Permutations(Handlers) \cup Permutations(Users)

OnlyTraded == {<<"base", "quote">>}

\* The reversed pair is well formed, but the engine has no book for it.
AlsoUnknown == OnlyTraded \cup {<<"quote", "base">>}

=============================================================================
