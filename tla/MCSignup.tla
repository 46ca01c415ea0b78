------------------------------ MODULE MCSignup ------------------------------
(***************************************************************************)
(* Values for the constants of Signup: a priced and a free subscription,   *)
(* and a code that halves the price, to 1.50.                              *)
(***************************************************************************)
EXTENDS Signup, TLC

TwoSubs == {"paid", "free"}
TwoPrices == [paid |-> 3, free |-> 0]
OneCode == {"half"}
OneText == [half |-> "HALF"]
OneDiscount == [half |-> [paid |-> 150, free |-> 0]]

\* The forms, the payments and the addresses are interchangeable.
Interchangeable ==
    Permutations(Forms) \cup Permutations(Payers) \cup Permutations(Email)

=============================================================================
