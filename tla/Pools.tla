-------------------------------- MODULE Pools --------------------------------
(***************************************************************************)
(* The pilot pool and the learning pool, which share their book: a behaviour *)
(* is one pool's, chosen when it is deployed.                               *)
(***************************************************************************)
EXTENDS FundedPool

VARIABLE pool

PoolInit == FundedInit /\ pool \in {"pilot", "learning"}
PoolNext ==
  /\ UNCHANGED pool
  /\ \/ pool = "pilot" /\ Next /\ UNCHANGED fundedVars
     \/ pool = "learning" /\ FundedNext

PoolSpec == PoolInit /\ [][PoolNext]_<<pool, vars, fundedVars>>

\* QuotesHonoured is about the learning pool; the pilot pool keeps no reserve of
\* a bias (FundedFactoredPool.sol:75-79).
LearningQuotesHonoured == pool = "learning" => QuotesHonoured
=============================================================================
