----------------------------- MODULE StarterFunds -----------------------------
(***************************************************************************)
(* Test MON for a new member, once per account and once per wallet            *)
(* (src/apps/web/server/starter-funds.mjs).  Requests run on several servers, *)
(* every command to the store and every call to the node is a step, and a     *)
(* server may die between two of them.                                        *)
(*                                                                          *)
(* A payment is the wallet it pays and the nonce it was signed with.  The     *)
(* answer to a broadcast may be lost and the transaction may reach the node   *)
(* later.  slipped is a history variable: the wallets whose kept payment was    *)
(* given up although it could have landed.  One day of the cap is modelled.   *)
(***************************************************************************)
EXTENDS Integers, FiniteSets

CONSTANTS Process, Account, Wallet, Free,
  DailyLimit,      \* config.dailyLimit
  MaxPayment,      \* bound: nonces the funding account uses
  MaxLost,         \* bound: broadcasts whose answer does not come back
  MaxDeath,        \* bound: servers that die in a request
  MaxSpend         \* bound: wallets that spend what they received

ASSUME StarterAssumption ==
  /\ Free \notin Account \cup Wallet \cup {"reserved", "sent"}
  /\ DailyLimit \in Nat /\ MaxPayment \in Nat
  /\ IsFiniteSet(Process) /\ IsFiniteSet(Account)

VARIABLES
  accountKey,      \* accountKey[l]: Free, "reserved" or "sent"
  walletKey,       \* walletKey[w]: the account that reserved the wallet, or Free
  today,           \* the counter of the service cap
  unsent,          \* unsent[w]: the payments kept for a rebroadcast, at most one
  mempool,         \* payments the node holds
  flight,          \* payments whose broadcast was answered by an error, under way
  paid,            \* paid[n]: the payment mined at nonce n
  funded,          \* wallets that are not low
  slipped,
  call,            \* call[s]: the request a server works on
  lost, died, spent

starterVars == <<accountKey, walletKey, today, unsent, mempool, flight, paid, funded,
                 slipped, call, lost, died, spent>>
keys == <<accountKey, walletKey>>
network == <<mempool, flight, paid, funded>>
faults == <<slipped, lost, died, spent>>

Payment == [to : Wallet, nonce : 0..MaxPayment - 1]
Idle == [at |-> "idle"]
Taken == Cardinality(DOMAIN paid)
At(s, point) == call[s].at = point
Goto(s, point) == call' = [call EXCEPT ![s].at = point]
Ends(s) == call' = [call EXCEPT ![s] = Idle]

Point == {"idle", "account", "wallet", "count", "kept", "nonce", "sign", "send", "failed",
          "keep", "drop", "return", "release", "uncount", "forget", "record"}
Holding == Point \ {"idle", "account", "wallet"}

\* The types, and the reservations a request holds: no other works for its wallet.
StarterTypeOK ==
  /\ accountKey \in [Account -> {Free, "reserved", "sent"}]
  /\ walletKey \in [Wallet -> Account \cup {Free}]
  /\ today \in Nat
  /\ \A w \in Wallet : unsent[w] \subseteq Payment /\ Cardinality(unsent[w]) <= 1
  /\ mempool \cup flight \subseteq Payment /\ funded \cup slipped \subseteq Wallet
  /\ \A s \in Process :
       /\ call[s].at \in Point
       /\ call[s].at \in Holding \ {"return"} =>
            /\ accountKey[call[s].login] = "reserved"
            /\ walletKey[call[s].target] = call[s].login

StarterInit ==
  /\ accountKey = [l \in Account |-> Free] /\ walletKey = [w \in Wallet |-> Free]
  /\ today = 0 /\ unsent = [w \in Wallet |-> {}]
  /\ mempool = {} /\ flight = {} /\ paid = <<>> /\ funded = {} /\ slipped = {}
  /\ call = [s \in Process |-> Idle] /\ lost = 0 /\ died = 0 /\ spent = 0
-----------------------------------------------------------------------------
(* The reservations and the cap.                                            *)

Begin(s, l, w) ==
  /\ At(s, "idle") /\ w \notin funded
  /\ call' = [call EXCEPT ![s] = [at |-> "account", login |-> l, target |-> w, tx |-> {}]]
  /\ UNCHANGED <<keys, today, unsent, network, faults>>

\* Mutant: the wallet is not reserved, only the account is.
WalletFree_Assumed(w) == TRUE

WalletFree(w) == walletKey[w] = Free

ReserveAccount(s) ==
  LET l == call[s].login IN
  /\ At(s, "account")
  /\ IF accountKey[l] = Free
     THEN accountKey' = [accountKey EXCEPT ![l] = "reserved"] /\ Goto(s, "wallet")
     ELSE Ends(s) /\ UNCHANGED accountKey
  /\ UNCHANGED <<walletKey, today, unsent, network, faults>>

ReserveWallet(s) ==
  LET l == call[s].login  w == call[s].target IN
  /\ At(s, "wallet")
  /\ IF WalletFree(w)
     THEN walletKey' = [walletKey EXCEPT ![w] = l] /\ Goto(s, "count") /\ UNCHANGED accountKey
     ELSE accountKey' = [accountKey EXCEPT ![l] = Free] /\ Ends(s) /\ UNCHANGED walletKey
  /\ UNCHANGED <<today, unsent, network, faults>>

\* Mutant: the cap is compared before this request is counted.
UnderCap_Before == today <= DailyLimit

UnderCap == today + 1 <= DailyLimit

\* INCR, and over the cap DECR and DEL: the answer of INCR decides.
Count(s) ==
  /\ At(s, "count")
  /\ today' = today + 1
  /\ Goto(s, IF UnderCap THEN "kept" ELSE "uncount")
  /\ UNCHANGED <<keys, unsent, network, faults>>

Uncount(s) ==
  /\ At(s, "uncount")
  /\ today' = today - 1 /\ Goto(s, "release")
  /\ UNCHANGED <<keys, unsent, network, faults>>

ReleaseBoth(s) ==
  /\ At(s, "release")
  /\ accountKey' = [accountKey EXCEPT ![call[s].login] = Free]
  /\ walletKey' = [walletKey EXCEPT ![call[s].target] = Free]
  /\ Ends(s)
  /\ UNCHANGED <<today, unsent, network, faults>>
-----------------------------------------------------------------------------
(* Sending: the kept payment first, a new one only if it cannot land.       *)

Seen(tx) == tx \in mempool \/ \E n \in DOMAIN paid : paid[n] = tx

\* Mutant: the kept payment is signed again whenever it is not visible.
Superseded_Assumed(tx) == TRUE

Superseded(tx) == Taken > tx.nonce

LoadUnsent(s) ==
  LET kept == unsent[call[s].target] IN
  /\ At(s, "kept")
  /\ \/ kept = {} /\ Goto(s, "sign") /\ UNCHANGED unsent
     \/ \E tx \in kept : IF Seen(tx)
                         THEN call' = [call EXCEPT ![s].at = "forget", ![s].tx = {tx}]
                         ELSE Goto(s, "nonce")
  /\ UNCHANGED <<keys, today, unsent, network, faults>>

\* The nonce of the kept payment is taken: sign anew; otherwise send it again.
\* It slips when it was mined after LoadUnsent had looked for it.
ReadNonce(s) ==
  LET w == call[s].target IN
  /\ At(s, "nonce")
  /\ \E tx \in unsent[w] :
       IF Superseded(tx)
       THEN /\ unsent' = [unsent EXCEPT ![w] = {}] /\ Goto(s, "sign")
            /\ slipped' = IF Seen(tx) THEN slipped \cup {w} ELSE slipped
       ELSE /\ call' = [call EXCEPT ![s].at = "send", ![s].tx = {tx}]
            /\ UNCHANGED <<unsent, slipped>>
  /\ UNCHANGED <<keys, today, network, lost, died, spent>>

\* The first nonce the node has no transaction for, mined or pending.
NextFree == CHOOSE n \in Taken..MaxPayment :
              /\ \A tx \in mempool : tx.nonce # n
              /\ \A m \in Taken..n - 1 : \E tx \in mempool : tx.nonce = m

SignPayment(s) ==
  /\ At(s, "sign") /\ NextFree < MaxPayment
  /\ call' = [call EXCEPT ![s].at = "send",
                          ![s].tx = {[to |-> call[s].target, nonce |-> NextFree]}]
  /\ UNCHANGED <<keys, today, unsent, network, faults>>

\* prepareTransactionRequest throws: there is nothing to keep.
SignFails(s) ==
  /\ At(s, "sign") /\ lost < MaxLost /\ lost' = lost + 1
  /\ Goto(s, "drop")
  /\ UNCHANGED <<keys, today, unsent, network, slipped, died, spent>>

\* The node takes a payment whose nonce is free: one signed with the nonce of
\* another it holds pays the same fees, which does not replace that one.
Takes(tx) == tx.nonce >= Taken /\ \A t \in mempool : t.nonce # tx.nonce

SendPayment(s) ==
  /\ At(s, "send")
  /\ \E tx \in call[s].tx :
       \/ /\ Takes(tx) /\ mempool' = mempool \cup {tx}
          /\ \/ Goto(s, "forget") /\ UNCHANGED lost
             \/ lost < MaxLost /\ lost' = lost + 1 /\ Goto(s, "failed")
          /\ UNCHANGED flight
       \/ ~Takes(tx) /\ Goto(s, "failed") /\ UNCHANGED <<mempool, flight, lost>>
       \/ /\ lost < MaxLost /\ lost' = lost + 1 /\ Goto(s, "failed")
          /\ flight' \in {flight, flight \cup {tx}} /\ UNCHANGED mempool
  /\ UNCHANGED <<keys, today, unsent, paid, funded, slipped, died, spent>>

\* arrived: the node is asked four times.
Failed(s) ==
  /\ At(s, "failed")
  /\ \E tx \in call[s].tx : Goto(s, IF Seen(tx) THEN "forget" ELSE "keep")
  /\ UNCHANGED <<keys, today, unsent, network, faults>>

\* Mutant: the signed payment is thrown away, the next request signs a new one.
Kept_Never(s) == {}

Kept(s) == call[s].tx

\* The payment is kept before the reservations go, the cap is returned last.
Keep(s) ==
  /\ At(s, "keep")
  /\ unsent' = [unsent EXCEPT ![call[s].target] = Kept(s)]
  /\ Goto(s, "drop")
  /\ UNCHANGED <<keys, today, network, faults>>

DropKeys(s) ==
  /\ At(s, "drop")
  /\ accountKey' = [accountKey EXCEPT ![call[s].login] = Free]
  /\ walletKey' = [walletKey EXCEPT ![call[s].target] = Free]
  /\ Goto(s, "return")
  /\ UNCHANGED <<today, unsent, network, faults>>

ReturnCap(s) ==
  /\ At(s, "return") /\ today' = today - 1 /\ Ends(s)
  /\ UNCHANGED <<keys, unsent, network, faults>>

Forget(s) ==
  /\ At(s, "forget")
  /\ unsent' = [unsent EXCEPT ![call[s].target] = {}] /\ Goto(s, "record")
  /\ UNCHANGED <<keys, today, network, faults>>

RecordSent(s) ==
  /\ At(s, "record")
  /\ accountKey' = [accountKey EXCEPT ![call[s].login] = "sent"] /\ Ends(s)
  /\ UNCHANGED <<walletKey, today, unsent, network, faults>>
-----------------------------------------------------------------------------
(* The node, the chain and the wallets.                                     *)

Land(tx) ==
  /\ tx \in mempool /\ tx.nonce = Taken
  /\ paid' = [n \in DOMAIN paid \cup {tx.nonce} |-> IF n = tx.nonce THEN tx ELSE paid[n]]
  /\ mempool' = mempool \ {tx} /\ funded' = funded \cup {tx.to}
  /\ UNCHANGED <<keys, today, unsent, flight, call, faults>>

LateArrival(tx) ==
  /\ tx \in flight /\ flight' = flight \ {tx}
  /\ mempool' = IF Takes(tx) THEN mempool \cup {tx} ELSE mempool
  /\ UNCHANGED <<keys, today, unsent, paid, funded, call, faults>>

\* A day later nothing of the payment is under way any more (EX 86400).
UnsentExpires(w) ==
  /\ \E tx \in unsent[w] : tx \notin flight \cup mempool
  /\ ~\E s \in Process : call[s].at # "idle" /\ call[s].target = w
  /\ unsent' = [unsent EXCEPT ![w] = {}] /\ slipped' = slipped \cup {w}
  /\ UNCHANGED <<keys, today, network, call, lost, died, spent>>

Spend(w) ==
  /\ w \in funded /\ spent < MaxSpend /\ spent' = spent + 1 /\ funded' = funded \ {w}
  /\ UNCHANGED <<keys, today, unsent, mempool, flight, paid, slipped, call, lost, died>>

Die(s) ==
  /\ ~At(s, "idle") /\ died < MaxDeath /\ died' = died + 1 /\ Ends(s)
  /\ UNCHANGED <<keys, today, unsent, network, slipped, lost, spent>>

Grant(s) ==
  \/ ReserveAccount(s) \/ ReserveWallet(s) \/ Count(s) \/ Uncount(s) \/ ReleaseBoth(s)
  \/ LoadUnsent(s) \/ ReadNonce(s) \/ SignPayment(s) \/ SignFails(s) \/ SendPayment(s)
  \/ Failed(s) \/ Keep(s) \/ DropKeys(s) \/ ReturnCap(s) \/ Forget(s) \/ RecordSent(s)

StarterNext ==
  \/ \E s \in Process : Grant(s) \/ Die(s) \/ \E l \in Account, w \in Wallet : Begin(s, l, w)
  \/ \E tx \in mempool : Land(tx)
  \/ \E tx \in flight : LateArrival(tx)
  \/ \E w \in Wallet : UnsentExpires(w) \/ Spend(w)

StarterSpec == StarterInit /\ [][StarterNext]_starterVars
-----------------------------------------------------------------------------
(* Properties.                                                              *)

Twice(w) == \E m, n \in DOMAIN paid : m # n /\ paid[m].to = w /\ paid[n].to = w

\* A retry can never pay the same person twice: whatever broadcasts failed,
\* arrived late or were sent again, and whoever else sends, one payment reaches
\* a wallet (starter-funds.mjs:74-78), unless its kept payment slipped.
PaidOnce == \A w \in Wallet : Twice(w) => w \in slipped

\* "Once per Mera account and once per wallet, ever" (starter-funds.mjs:6-7).
PaidOnceEver == \A w \in Wallet : ~Twice(w)

\* An account is told that its MON was sent only when a payment for the wallet
\* it reserved is with the node or mined (starter-funds.mjs:89-101).
SentIsPaid ==
  \A l \in Account : accountKey[l] = "sent" =>
    \E w \in Wallet : /\ walletKey[w] = l
                     /\ \E tx \in mempool \cup {paid[n] : n \in DOMAIN paid} : tx.to = w

\* The service sends at most DailyLimit payments a day, and the counter never
\* forgets one: a retry or a failure returns only what it took itself
\* (starter-funds.mjs:66-72, 94).
CapRespected ==
  LET sent == {l \in Account : accountKey[l] = "sent"} IN
  /\ Cardinality(sent) <= DailyLimit
  /\ Cardinality(sent) <= today

\* Every payment is accounted for: no wallet is paid twice unless its kept
\* payment slipped, what an account is told is true, and the cap holds.
GrantsAccounted == StarterTypeOK /\ PaidOnce /\ SentIsPaid /\ CapRespected
=============================================================================
