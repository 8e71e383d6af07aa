----------------------------- MODULE MCJobCalls -----------------------------
EXTENDS JobCalls, TLC

CONSTANTS k1, g1

MCRequests == {<<k1, g1>>, <<NoKey, NoGrant>>}
=============================================================================
