------------------------ MODULE MCDecoupledDataStore ------------------------
EXTENDS DecoupledDataStore

AllSizes == {8, 16, 32, 64}
BpcSizes == {16, 32, 64}
=============================================================================
