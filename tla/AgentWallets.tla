----------------------------- MODULE AgentWallets -----------------------------
(***************************************************************************)
(* The wallet of an agent and the wallets people link for manual trading:     *)
(* associateWallet, archive and update (agents/agent-store.mjs) against       *)
(* verify (wallet-links.mjs).  A change runs under the lock of the account    *)
(* and is several commands to the store; only the claim of a wallet and the   *)
(* link are atomic with their checks.  Profiles have no revision.             *)
(*                                                                          *)
(* Every agent has an account of its own here.  torn is a history variable:   *)
(* the agents a change of which lost its lock or its server half way.         *)
(***************************************************************************)
EXTENDS Integers, FiniteSets

CONSTANTS Worker, Robot, Purse, Nobody,
  MaxTorn          \* bound: changes that lose their lock or their server

ASSUME WalletsAssumption == Nobody \notin Worker \cup Robot \cup Purse /\ MaxTorn \in Nat

VARIABLES
  record,          \* record[a]: the profile, its status and its wallet
  agentWallet,      \* agentWallet[w]: the agent that claimed the wallet
  linked,          \* wallets linked for manual trading
  accountLock,     \* accountLock[a]: the worker that holds the lock
  change,          \* change[s]: the change a worker is making
  torn, tears

walletVars == <<record, agentWallet, linked, accountLock, change, torn, tears>>

Profile == [status : {"active", "paused", "archived"}, wallet : Purse \cup {Nobody}]
Step == {"claim", "free", "store"}
Change == [at : Step, agent : Robot, old : Profile, new : Profile]
NoChange == [at |-> "none"]

WalletsInit ==
  /\ record = [a \in Robot |-> [status |-> "active", wallet |-> Nobody]]
  /\ agentWallet = [w \in Purse |-> Nobody] /\ linked = {}
  /\ accountLock = [a \in Robot |-> Nobody]
  /\ change = [s \in Worker |-> NoChange] /\ torn = {} /\ tears = 0

Unlocked(s) == [a \in Robot |-> IF accountLock[a] = s THEN Nobody ELSE accountLock[a]]

\* The lock is taken and the profile read.
Open(s, a, first, next) ==
  /\ change[s] = NoChange /\ accountLock[a] = Nobody
  /\ accountLock' = [accountLock EXCEPT ![a] = s]
  /\ change' = [change EXCEPT ![s] = [at |-> first, agent |-> a, old |-> record[a], new |-> next]]
  /\ UNCHANGED <<record, agentWallet, linked, torn, tears>>

Changeable(a) == record[a].status # "archived"

Associate(s, a, w) ==
  /\ Changeable(a) /\ record[a].wallet # w
  /\ Open(s, a, "claim", [record[a] EXCEPT !.wallet = w])

ArchiveAgent(s, a) ==
  /\ record[a].status # "archived"
  /\ Open(s, a, "free", [status |-> "archived", wallet |-> Nobody])

\* Pausing and resuming: update, with the change the server passes it.
UpdateProfile(s, a) ==
  /\ Changeable(a)
  /\ Open(s, a, "store", [record[a] EXCEPT !.status = IF @ = "active" THEN "paused" ELSE "active"])

\* Mutant: the claim does not look for a link of the wallet.
Claimable_Unlinked(a, w) == agentWallet[w] \in {Nobody, a}

Claimable(a, w) == w \notin linked /\ agentWallet[w] \in {Nobody, a}

ClaimWallet(s) ==
  LET c == change[s] IN
  /\ c.at = "claim"
  /\ IF Claimable(c.agent, c.new.wallet)
     THEN /\ agentWallet' = [agentWallet EXCEPT ![c.new.wallet] = c.agent]
          /\ change' = [change EXCEPT ![s].at = "free"] /\ UNCHANGED accountLock
     ELSE change' = [change EXCEPT ![s] = NoChange] /\ accountLock' = Unlocked(s)
                                                    /\ UNCHANGED agentWallet
  /\ UNCHANGED <<record, linked, torn, tears>>

\* Mutant: a wallet is freed whoever holds it.
Holds_Anyone(a, w) == w # Nobody

HoldsWallet(a, w) == w # Nobody /\ agentWallet[w] = a

FreeWallet(s) ==
  LET c == change[s] IN
  /\ c.at = "free"
  /\ agentWallet' = IF c.old.wallet # Nobody /\ HoldsWallet(c.agent, c.old.wallet)
                   THEN [agentWallet EXCEPT ![c.old.wallet] = Nobody] ELSE agentWallet
  /\ change' = [change EXCEPT ![s].at = "store"]
  /\ UNCHANGED <<record, linked, accountLock, torn, tears>>

StoreProfile(s) ==
  LET c == change[s] IN
  /\ c.at = "store"
  /\ record' = [record EXCEPT ![c.agent] = c.new]
  /\ change' = [change EXCEPT ![s] = NoChange] /\ accountLock' = Unlocked(s)
  /\ UNCHANGED <<agentWallet, linked, torn, tears>>

\* verify: the link is written only while no agent has the wallet.
LinkWallet(w) ==
  /\ agentWallet[w] = Nobody /\ linked' = linked \cup {w}
  /\ UNCHANGED <<record, agentWallet, accountLock, change, torn, tears>>

\* The lock of a change runs out, with its worker (which never comes back) or
\* under a slow one (which goes on), or the lock of a dead worker does.
Tear(s, dies) ==
  /\ change[s] # NoChange /\ tears < MaxTorn /\ tears' = tears + 1
  /\ torn' = torn \cup {change[s].agent} /\ accountLock' = Unlocked(s)
  /\ change' = IF dies THEN [change EXCEPT ![s] = NoChange] ELSE change
  /\ UNCHANGED <<record, agentWallet, linked>>

WalletsNext ==
  \/ \E s \in Worker : \/ ClaimWallet(s) \/ FreeWallet(s) \/ StoreProfile(s)
                       \/ \E dies \in BOOLEAN : Tear(s, dies)
                       \/ \E a \in Robot : ArchiveAgent(s, a) \/ UpdateProfile(s, a)
                       \/ \E a \in Robot, w \in Purse : Associate(s, a, w)
  \/ \E w \in Purse : LinkWallet(w)

WalletsSpec == WalletsInit /\ [][WalletsNext]_walletVars
-----------------------------------------------------------------------------
Releasing(a) == \E s \in Worker : change[s].at = "store" /\ change[s].agent = a

\* A wallet is an agent's or a person's, never both, whatever was torn; and the
\* wallet on the profile of an agent is the one it holds, so no two agents show
\* the same one, unless a change was torn between its commands
\* (agent-store.mjs:337-355, 395-415, wallet-links.mjs:44-50).
WalletsExclusive ==
  /\ \A w \in Purse : w \in linked => agentWallet[w] = Nobody
  /\ \A a \in Robot : a \notin torn =>
       \/ record[a].wallet = Nobody \/ agentWallet[record[a].wallet] = a
       \/ Releasing(a)
=============================================================================
