---------------------------- MODULE MCUserProfile ---------------------------
(* UserProfile for TLC: one user, whose username has an upper-case spelling, *)
(* and bodies that name at most two fields.                                  *)
EXTENDS UserProfile, FiniteSets, TLC

LowerCase == [v \in Values |-> IF v = "Bob" THEN "bob" ELSE v]

Bodies ==
    {d \in [Fields -> Values \cup {Null, Unset}] :
        /\ Cardinality({f \in Fields : d[f] # Unset}) <= 2
        /\ \A f \in Fields \ {"username"} : d[f] \in {"eve", Null, Unset}}

Symmetry == Permutations(Requests)
=============================================================================
