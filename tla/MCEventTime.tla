---- MODULE MCEventTime ----
EXTENDS OperatorChain, TLC

TheInputs == {<<1, "left">>, <<2, "right">>, <<3, "left">>, <<5, "right">>}
KeySymmetry == Permutations(Keys)
====
