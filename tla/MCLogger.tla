-------------------------------- MODULE MCLogger --------------------------------
\* Two Tasks of one subtask each, and one retry of each.
EXTENDS Logger

CONSTANTS t1, t2, s1, s2
MCTaskOf == [s \in {s1, s2} |-> IF s = s1 THEN t1 ELSE t2]
=============================================================================
