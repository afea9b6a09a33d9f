-------------------------------- MODULE MCNvm --------------------------------
(* Instances of NonVolatileMemory for TLC: the elements' values are model     *)
(* values, and their records take one cell and some more.                     *)
EXTENDS NonVolatileMemory

OneAndTwo == [e \in 0..2 |-> <<0, 1, 3>>[e + 1]]
=============================================================================
