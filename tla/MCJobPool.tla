------------------------------- MODULE MCJobPool -------------------------------
EXTENDS JobPool
MCLimits == {[max |-> 1, idle |-> 1], [max |-> 2, idle |-> 1]}
===============================================================================
