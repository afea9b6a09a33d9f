------------------------------ MODULE MCSerial ------------------------------
EXTENDS SerialManager

\* The lengths of the blocks written, in turn.
TwoThenOne == [w \in 1 .. MaxWrites |-> IF w % 2 = 1 THEN 2 ELSE 1]
=============================================================================
