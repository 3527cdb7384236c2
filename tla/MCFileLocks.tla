------------------------------ MODULE MCFileLocks ------------------------------
\* FileLocks for TLC: owners a1 and a2 of one session and b of another.
EXTENDS FileLocks

CONSTANTS a1, a2, b, S1, S2

MCSessionOf == [o \in Owner |-> IF o = b THEN S2 ELSE S1]
================================================================================
