-------------------------------- MODULE MCDvr --------------------------------
EXTENDS Dvr

CONSTANTS live, file, listener

\* live is recorded in segments of at most two bytes, file is one file.
\* Together they ask for more than the quota, so the second start reclaims.
MCMaximum == [r \in Recs |-> IF r = live THEN 3 ELSE 2]
===============================================================================
