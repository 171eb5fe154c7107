------------------------------ MODULE MCEsxiHost ------------------------------
EXTENDS EsxiHost, TLC

Symmetry == Permutations(Deployments) \cup Permutations(Names) \cup Permutations(Machines)
===============================================================================
