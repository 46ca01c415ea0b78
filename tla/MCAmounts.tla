------------------------------ MODULE MCAmounts ------------------------------
EXTENDS Amounts, TLC

Codes == {[type |-> "unit", amount |-> 2], [type |-> "percent", amount |-> 50]}

Symmetry == Permutations(PayRequests) \cup Permutations(Sub)

=============================================================================
