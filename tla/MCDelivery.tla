----------------------------- MODULE MCDelivery -----------------------------
\* Small instances of Delivery: rows of one channel, so that they compete for
\* its budget, with or without a row of another channel beside them.
EXTENDS Delivery

CONSTANTS a1, a2, a3, b1, chanA, chanB

OneChannel == [r \in Rows |-> chanA]
TwoChannels == [r \in Rows |-> IF r = b1 THEN chanB ELSE chanA]
=============================================================================
