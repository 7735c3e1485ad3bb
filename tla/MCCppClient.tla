----------------------------- MODULE MCCppClient -----------------------------
EXTENDS CppClient, TLC

\* The broker's choice of an identifier does not matter.
Symmetry == Permutations(BrokerIds)
=============================================================================
