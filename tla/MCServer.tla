------------------------------- MODULE MCServer -------------------------------
(***************************************************************************)
(* The components of the web server for model checking.  They share no state  *)
(* in the model, so a behaviour runs one of them, chosen at the start, and    *)
(* the records of the agents under one of several sets of bounds.             *)
(***************************************************************************)
EXTENDS AgentRecords, StarterFunds, RpcCapacity, AgentWallets, PilotIndex, SettlementMail, TLC

CONSTANTS robot, runtime, ap, buy
VARIABLE scenario

Records == {"proposals", "reviews", "runtime", "attribution"}

ServerInit ==
  /\ RecordsInit /\ StarterInit /\ CapacityInit /\ WalletsInit /\ IndexInit /\ MailInit
  /\ scenario \in Records \cup {"starter", "capacity", "wallets", "index", "mail"}

ServerNext ==
  /\ UNCHANGED scenario
  /\ \/ scenario \in Records /\ RecordsNext
        /\ UNCHANGED <<starterVars, capacityVars, walletVars, indexVars, mailVars>>
     \/ scenario = "starter" /\ StarterNext
        /\ UNCHANGED <<recordVars, capacityVars, walletVars, indexVars, mailVars>>
     \/ scenario = "capacity" /\ CapacityNext
        /\ UNCHANGED <<recordVars, starterVars, walletVars, indexVars, mailVars>>
     \/ scenario = "wallets" /\ WalletsNext
        /\ UNCHANGED <<recordVars, starterVars, capacityVars, indexVars, mailVars>>
     \/ scenario = "index" /\ IndexNext
        /\ UNCHANGED <<recordVars, starterVars, capacityVars, walletVars, mailVars>>
     \/ scenario = "mail" /\ MailNext
        /\ UNCHANGED <<recordVars, starterVars, capacityVars, walletVars, indexVars>>

ServerSpec == ServerInit /\ [][ServerNext]_<<scenario, recordVars, starterVars, capacityVars,
                                            walletVars, indexVars, mailVars>>

ServerSymmetry == Permutations(Server) \cup Permutations(Hash)
                    \cup Permutations(Account)
-----------------------------------------------------------------------------
\* The states of an agent that are stored or staged.
States(b) == {agents[b]} \cup {job[s].state : s \in {t \in Server : job[t].step = "save" /\ job[t].agent = b}}

Only(As, proposals, reviews, hashes) ==
  /\ \A b \in Agent \ As : /\ agents[b] = NewAgent /\ profile[b] = "active"
                           /\ \A s \in Server : job[s] = NoJob \/ job[s].agent # b
  /\ \A b \in As, i \in Id : \A st \in States(b) :
       /\ i > proposals => st.proposals[i].status = "absent"
       /\ st.proposals[i].reviews \subseteq reviews
  /\ Cardinality({h \in Hash : \/ chain[h] # NoTx
                               \/ \E b \in As : \E st \in States(b) :
                                    \/ \E i \in Id : st.proposals[i].sent[h].state # "none"
                                    \/ \E k \in DOMAIN st.executions : st.executions[k].hash = h}) <= hashes
  /\ \A h \in Hash : chain[h] = NoTx \/ chain[h].tx \in reviews
  /\ \A b \in As : agents[b].totals <= Cardinality(Hash)

Bounds ==
  CASE scenario = "proposals" -> Only({robot}, 2, {buy}, 1) /\ crashes + expiries = 0
    [] scenario = "reviews" -> /\ Only({robot}, 1, {ap, buy}, 2) /\ crashes + expiries = 0
                                /\ profile = [b \in Agent |-> "active"] /\ lapsed = {}
    [] scenario = "runtime" -> /\ Only({runtime}, 0, {buy}, 2) /\ crashes = 0
                                /\ \A h \in Hash : chain[h] = NoTx \/ chain[h].ok
    [] scenario = "attribution" -> /\ Only({robot, runtime}, 1, {buy}, 1) /\ crashes + expiries <= 1
                                    /\ profile = [b \in Agent |-> "active"]
    [] OTHER -> TRUE
=============================================================================
