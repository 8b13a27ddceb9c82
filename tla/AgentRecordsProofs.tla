-------------------------- MODULE AgentRecordsProofs --------------------------
(***************************************************************************)
(* Theorems about the records of the agents, for any servers, agents,        *)
(* reviews, transactions and bounds, and whatever locks expire and servers   *)
(* die.  A request that lost its lock goes on with the copy it edited; the   *)
(* invariant says that as long as its save would still go through, the copy  *)
(* is an edit of the stored state (Edited): whatever it counts is on the     *)
(* chain and owned by it or claimed by the same save, no issued review is    *)
(* dropped, and a verified execution is in the store while no more           *)
(* transactions exist than the store keeps.                                  *)
(***************************************************************************)
EXTENDS AgentRecords, FiniteSetTheorems, SequenceTheorems, TLAPS

-----------------------------------------------------------------------------
(* The stored state.                                                         *)

Entry == [hash : Hash, intent : Review,
          status : {"recorded", "confirmed", "reverted", "mismatch", "attributed-elsewhere"}]
Proposal == [status : Status, decision : Decision \cup {NoReview}, reviews : SUBSET Review,
             sent : [Hash -> Sent]]
State == [proposals : [Id -> Proposal], decisions : SUBSET Decision,
          purchases : Nat, totals : Nat, executions : Seq(Entry)]

-----------------------------------------------------------------------------
(* What retain keeps.                                                        *)

\* The place of k in K, and the member of K at a place.
Rank(K, k) == Cardinality({m \in K : m <= k})
At(K, n) == CHOOSE k \in K : Rank(K, k) = n

\* Every place up to the size of K belongs to one member.
LEMMA Places ==
  ASSUME NEW K, IsFiniteSet(K), K \subseteq Nat
  PROVE  /\ Cardinality(K) \in Nat
         /\ \A k \in K : Rank(K, k) \in 1..Cardinality(K) /\ At(K, Rank(K, k)) = k
         /\ \A n \in 1..Cardinality(K) : At(K, n) \in K /\ Rank(K, At(K, n)) = n
<1>1. Cardinality(K) \in Nat BY FS_CardinalityType
<1>2. ASSUME NEW k \in K PROVE Rank(K, k) \in 1..Cardinality(K)
  <2> DEFINE B == {m \in K : m <= k}
  <2>1. IsFiniteSet(B) /\ Cardinality(B) <= Cardinality(K) /\ Cardinality(B) \in Nat
    BY FS_Subset, FS_CardinalityType
  <2>2. k \in B OBVIOUS
  <2>3. Cardinality(B) # 0 BY <2>1, <2>2, FS_EmptySet
  <2>4. QED BY <1>1, <2>1, <2>3 DEF Rank
<1>3. ASSUME NEW k \in K, NEW m \in K, k < m PROVE Rank(K, k) < Rank(K, m)
  <2> DEFINE B == {x \in K : x <= k}  C == {x \in K : x <= m}
  <2>0. k \in Nat /\ m \in Nat /\ k < m BY <1>3
  <2>1. IsFiniteSet(C) /\ B \subseteq C /\ m \in C /\ m \notin B
    <3>1. B \subseteq C
      <4>1. ASSUME NEW x \in K, x <= k PROVE x <= m
        <5>1. x \in Nat OBVIOUS
        <5>2. QED BY <2>0, <4>1, <5>1
      <4>2. QED BY <4>1
    <3>2. IsFiniteSet(C) BY FS_Subset
    <3>3. QED BY <2>0, <3>1, <3>2
  <2>2. Cardinality(B) < Cardinality(C)
    <3>1. IsFiniteSet(B) /\ Cardinality(B) <= Cardinality(C) BY <2>1, FS_Subset
    <3>2. Cardinality(B) # Cardinality(C) BY <2>1, FS_Subset
    <3>3. Cardinality(B) \in Nat /\ Cardinality(C) \in Nat BY <2>1, <3>1, FS_CardinalityType
    <3>4. QED BY <3>1, <3>2, <3>3
  <2>3. QED BY <2>2 DEF Rank
<1>4. ASSUME NEW k \in K, NEW m \in K, Rank(K, k) = Rank(K, m) PROVE k = m
  <2>1. Rank(K, k) \in Nat BY <1>1, <1>2
  <2>2. k < m \/ m < k \/ k = m OBVIOUS
  <2>3. QED BY <1>3, <1>4, <2>1, <2>2
<1> DEFINE N == 1..Cardinality(K)
           f == [k \in K |-> Rank(K, k)]
<1>5. IsFiniteSet(N) /\ Cardinality(N) = Cardinality(K) BY <1>1, FS_Interval
<1>6. f \in [K -> N] BY <1>2
<1>7. f \in Injection(K, N)
  <2>1. IsInjective(f) BY <1>4 DEF IsInjective
  <2>2. QED BY <1>6, <2>1 DEF Injection
<1>8. f \in Surjection(K, N) BY <1>5, <1>7, FS_Injection
<1>9. \A n \in N : \E k \in K : f[k] = n BY <1>8 DEF Surjection
<1>10. ASSUME NEW n \in 1..Cardinality(K) PROVE \E k \in K : Rank(K, k) = n
  BY <1>9
<1>11. ASSUME NEW n \in 1..Cardinality(K) PROVE At(K, n) \in K /\ Rank(K, At(K, n)) = n
  BY <1>10 DEF At
<1>12. ASSUME NEW k \in K PROVE At(K, Rank(K, k)) = k
  BY <1>2, <1>4, <1>11, <1>12
<1>13. QED BY <1>1, <1>2, <1>11, <1>12

Dropped == [Absent EXCEPT !.status = "dropped"]

\* What retain looks at: resolved proposals, and executions that stay.
Resolved(a, st, i) ==
  /\ st.proposals[i].status \notin {"absent", "dropped"}
  /\ ~Unresolved(a, i, st.proposals[i])
FinalsTo(st, k) == {m \in 1..k : st.executions[m].status \in FinalStatus}
Keep(st) == {k \in DOMAIN st.executions :
               st.executions[k].status \in FinalStatus => Cardinality(FinalsTo(st, k)) <= FinalKept}

LEMMA RetainIs ==
  ASSUME NEW a, NEW st \in State
  PROVE  /\ Retain(a, st) = [proposals |-> Retain(a, st).proposals, decisions |-> st.decisions,
              purchases |-> st.purchases, totals |-> st.totals,
              executions |-> [n \in 1..Cardinality(Keep(st)) |-> st.executions[At(Keep(st), n)]]]
         /\ Retain(a, st).proposals = [i \in Id |-> Retain(a, st).proposals[i]]
         /\ \A i \in Id :
              \/ Retain(a, st).proposals[i] = st.proposals[i]
              \/ /\ Retain(a, st).proposals[i] = Dropped
                 /\ Resolved(a, st, i) /\ st.proposals[i].reviews = {}
<1> DEFINE Older(i) == Cardinality({j \in Id : j > i /\ Resolved(a, st, j)}) >= FullProposals
           P == [i \in Id |-> IF Resolved(a, st, i) /\ Older(i) /\ Droppable(st.proposals[i])
                              THEN Dropped ELSE st.proposals[i]]
           E == [n \in 1..Cardinality(Keep(st)) |-> st.executions[At(Keep(st), n)]]
<1>1. Retain(a, st) = [st EXCEPT !.proposals = P, !.executions = E]
  BY DEF Retain, Resolved, Keep, FinalsTo, At, Rank, Dropped
<1> HIDE DEF E
<1>2. Retain(a, st).proposals = P BY <1>1 DEF State
<1>3. ASSUME NEW i \in Id
      PROVE  P[i] = st.proposals[i] \/ (P[i] = Dropped /\ Resolved(a, st, i) /\ st.proposals[i].reviews = {})
  BY DEF Droppable
<1> HIDE DEF P
<1>4. Retain(a, st) = [proposals |-> P, decisions |-> st.decisions,
              purchases |-> st.purchases, totals |-> st.totals, executions |-> E]
  BY <1>1 DEF State
<1>5. P = [i \in Id |-> P[i]] BY DEF P
<1>6. QED BY <1>2, <1>3, <1>4, <1>5 DEF E

\* The executions retain keeps: each is one of the old ones, at a place of its
\* own, and none is lost while no more are final than are kept.
LEMMA KeptExecutions ==
  ASSUME NEW a, NEW st \in State
  PROVE  LET old == st.executions
             new == Retain(a, st).executions
         IN  /\ new \in Seq(Entry)
             /\ \E g \in [DOMAIN new -> DOMAIN old] :
                  /\ \A n \in DOMAIN new : new[n] = old[g[n]]
                  /\ \A n, m \in DOMAIN new : g[n] = g[m] => n = m
                  /\ \A k \in DOMAIN old :
                       \/ \E n \in DOMAIN new : g[n] = k
                       \/ old[k].status \in FinalStatus /\ Cardinality(FinalsTo(st, k)) > FinalKept
<1> DEFINE old == st.executions
           K == Keep(st)
           new == [n \in 1..Cardinality(K) |-> old[At(K, n)]]
           g == [n \in 1..Cardinality(K) |-> At(K, n)]
<1>1. old \in Seq(Entry) /\ Len(old) \in Nat /\ DOMAIN old = 1..Len(old)
      /\ \A k \in DOMAIN old : old[k] \in Entry
  BY ElementOfSeq, LenProperties DEF State
<1>2. Retain(a, st).executions = new
  <2>1. Retain(a, st) = [proposals |-> Retain(a, st).proposals, decisions |-> st.decisions,
          purchases |-> st.purchases, totals |-> st.totals,
          executions |-> [n \in 1..Cardinality(Keep(st)) |-> st.executions[At(Keep(st), n)]]]
    BY RetainIs
  <2> DEFINE R == Retain(a, st)
             E == [n \in 1..Cardinality(Keep(st)) |-> st.executions[At(Keep(st), n)]]
  <2>2. R = [proposals |-> R.proposals, decisions |-> st.decisions,
          purchases |-> st.purchases, totals |-> st.totals, executions |-> E]
    BY <2>1
  <2> HIDE DEF R, E
  <2>3. R.executions = E BY <2>2
  <2>4. QED BY <2>3 DEF R, E
<1>3. K \subseteq DOMAIN old /\ K \subseteq Nat /\ IsFiniteSet(K)
  <2>1. K \subseteq DOMAIN old BY DEF Keep
  <2>2. IsFiniteSet(1..Len(old))
    <3>1. PICK n \in Nat : n = Len(old) BY <1>1
    <3>2. n \in Int /\ 1 \in Int OBVIOUS
    <3>3. IsFiniteSet(1..n) BY <3>2, FS_Interval
    <3>4. QED BY <3>1, <3>3
  <2>3. QED BY <1>1, <2>1, <2>2, FS_Subset
<1>4. /\ Cardinality(K) \in Nat
      /\ \A k \in K : Rank(K, k) \in 1..Cardinality(K) /\ At(K, Rank(K, k)) = k
      /\ \A n \in 1..Cardinality(K) : At(K, n) \in K /\ Rank(K, At(K, n)) = n
  BY <1>3, Places
<1>5. \A k \in DOMAIN old :
        k \in K \/ (old[k].status \in FinalStatus /\ ~(Cardinality(FinalsTo(st, k)) <= FinalKept))
  BY DEF Keep
<1>6. \A k \in DOMAIN old : Cardinality(FinalsTo(st, k)) \in Nat
  <2>1. SUFFICES ASSUME NEW k \in DOMAIN old PROVE Cardinality(FinalsTo(st, k)) \in Nat
    OBVIOUS
  <2>2. IsFiniteSet(1..k)
    <3>1. k \in Int /\ 1 \in Int BY <1>1
    <3>2. QED BY <3>1, FS_Interval
  <2>3. QED BY <2>2, FS_Subset, FS_CardinalityType DEF FinalsTo
<1> HIDE DEF K
<1>7. new \in Seq(Entry)
  <2>1. \A n \in 1..Cardinality(K) : old[At(K, n)] \in Entry BY <1>1, <1>3, <1>4
  <2>2. QED BY <1>4, <2>1, SeqDef
<1>8. g \in [DOMAIN new -> DOMAIN old] BY <1>3, <1>4
<1>9. \A n \in DOMAIN new : new[n] = old[g[n]] OBVIOUS
<1>10. \A n, m \in DOMAIN new : g[n] = g[m] => n = m BY <1>4
<1>11. \A k \in K : \E n \in DOMAIN new : g[n] = k BY <1>4
<1>12. \A k \in DOMAIN old :
         \/ \E n \in DOMAIN new : g[n] = k
         \/ old[k].status \in FinalStatus /\ Cardinality(FinalsTo(st, k)) > FinalKept
  BY <1>5, <1>6, <1>11, RecordsAssumption
<1> HIDE DEF g, new, old
<1>13. QED BY <1>2, <1>7, <1>8, <1>9, <1>10, <1>12 DEF old

-----------------------------------------------------------------------------
(* The invariant.                                                            *)

Owner == [agent : Agent, record : Id \cup {Execution}, tx : Review]

\* Statuses of a proposal that never had a review, and of one that had.
Unissued == {"absent", "dropped", "preparing", "preparation-failed", "preparation-expired"}
Issued == Status \ (Unissued \cup {"submitted"})

\* What is sent was issued; one transaction at most is tracked, and it decides
\* the status.
ProposalOk(p) ==
  /\ \A h \in Hash : p.sent[h].state # "none" =>
       p.sent[h].review \in p.reviews /\ p.sent[h].before \in Issued
  /\ \A h \in Hash : p.sent[h].accounted => p.sent[h].state = "confirmed"
  /\ \A h, g \in Hash : p.sent[h].state = "submitted" /\ p.sent[g].state = "submitted" => h = g
  /\ p.status \in Unissued => p.reviews = {}
  /\ HasSubmitted(p) <=> p.status = "submitted"
  /\ OwnsPurchase(p) /\ ~HasSubmitted(p) => p.status = "confirmed"

ProposalsOk(st) == \A i \in Id : ProposalOk(st.proposals[i])

\* Transactions that exist, and whether no verified execution was ever forgotten.
MinedHashes == {h \in Hash : chain[h] # NoTx}
Few == Cardinality(MinedHashes) <= FinalKept
Owned(a) == {h \in Hash : owner[h] # NoOwner /\ owner[h].agent = a /\ owner[h].record = Execution}

CountedIn(st) == {z \in Id \X Hash : st.proposals[z[1]].sent[z[2]].accounted}

\* A purchase is counted for its owner, or for who claims it when the state is saved.
CountedOk(a, st, claims) ==
  /\ st.purchases = Cardinality(CountedIn(st))
  /\ \A i \in Id, h \in Hash :
       st.proposals[i].sent[h].accounted =>
         LET c == Claim(h, a, i, st.proposals[i].sent[h].review) IN
         /\ chain[h] # NoTx /\ chain[h].ok /\ chain[h].tx = st.proposals[i].sent[h].review
         /\ owner[h] = c.by \/ c \in claims

\* One record for a transaction; a verified one exists.
EntriesOk(st) ==
  /\ \A k, m \in DOMAIN st.executions : st.executions[k].hash = st.executions[m].hash => k = m
  /\ \A k \in DOMAIN st.executions :
       st.executions[k].status \in FinalStatus => chain[st.executions[k].hash] # NoTx

HasFinal(st, h) ==
  \E k \in DOMAIN st.executions : st.executions[k].hash = h /\ st.executions[k].status \in FinalStatus

ForExecution(claims) == {c \in claims : c.by.record = Execution}

ClaimsOk(a, claims) ==
  /\ claims \subseteq [hash : Hash, by : Owner]
  /\ \A c \in claims : c.by.agent = a /\ chain[c.hash] # NoTx
  /\ \A c, d \in claims : c = d

\* An execution is counted with its claim, and while nothing was forgotten only
\* if it is not owned already.
TotalsOk(a, st, claims) ==
  /\ st.totals = agents[a].totals + (IF ForExecution(claims) = {} THEN 0 ELSE 1)
  /\ Few => \A c \in ForExecution(claims) : c.hash \notin Owned(a) /\ HasFinal(st, c.hash)
  /\ Few => \A h \in Owned(a) : HasFinal(st, h)

\* No review is dropped, and none issued once the feed is cleared.
ReviewsOk(a, st) ==
  /\ \A i \in Id : agents[a].proposals[i].reviews \subseteq st.proposals[i].reviews
  /\ agents[a].decisions = {} =>
       \A i \in Id : agents[a].proposals[i].reviews = st.proposals[i].reviews
  /\ st.decisions = {} => profile[a] = "archived"

\* A proposal that waits for the person goes on waiting if its version is not bumped.
TouchedOk(a, st, touched) ==
  \A j \in Id : j # touched /\ Waiting(agents[a].proposals[j]) => Waiting(st.proposals[j])

\* st is an edit of the stored state of a.
Edited(a, st, claims, touched) ==
  /\ st \in State /\ ProposalsOk(st) /\ ClaimsOk(a, claims) /\ CountedOk(a, st, claims)
  /\ EntriesOk(st) /\ TotalsOk(a, st, claims) /\ ReviewsOk(a, st) /\ TouchedOk(a, st, touched)

StoredOk(a) ==
  /\ agents[a] \in State /\ ProposalsOk(agents[a]) /\ CountedOk(a, agents[a], {})
  /\ EntriesOk(agents[a])
  /\ agents[a].decisions = {} => profile[a] = "archived"
  /\ agents[a].totals >= Cardinality(Owned(a))
  /\ Few => agents[a].totals = Cardinality(Owned(a))
  /\ Few => \A h \in Owned(a) : HasFinal(agents[a], h)

Preparing == [step : {"prepare"}, agent : Agent, id : Id, same : BOOLEAN]
Refreshing == [step : {"refresh"}, agent : Agent, id : Id, same : BOOLEAN]
Clearing == [step : {"clear"}, agent : Agent]
SaveFields == {"step", "agent", "state", "claims", "touched", "next", "fresh"}

\* What a request holds outside the lock is good as long as it looks fresh.
JobOk(s) ==
  LET j == job[s] IN
  \/ j = NoJob
  \/ j \in Preparing
  \/ j \in Refreshing /\ (j.same => Waiting(agents[j.agent].proposals[j.id]))
  \/ j \in Clearing /\ profile[j.agent] = "archived"
  \/ /\ j = [f \in SaveFields |-> j[f]] /\ j.step = "save"
     /\ j.agent \in Agent /\ j.fresh \in BOOLEAN /\ j.next \in Preparing \cup {NoJob}
     /\ j.fresh => Edited(j.agent, j.state, j.claims, j.touched)

\* The types, and that only what exists has an owner.
LedgerOk ==
  /\ agents \in [Agent -> State] /\ profile \in [Agent -> {"active", "archived"}]
  /\ owner \in [Hash -> Owner \cup {NoOwner}] /\ chain = [h \in Hash |-> chain[h]]
  /\ lock \in [Agent -> Server \cup {NoServer}] /\ lapsed \subseteq Agent \X Id
  /\ job = [s \in Server |-> job[s]]
  /\ IsFiniteSet(MinedHashes)
  /\ \A h \in Hash : owner[h] # NoOwner => chain[h] # NoTx

RecordsInv ==
  /\ LedgerOk
  /\ \A a \in Agent : StoredOk(a)
  /\ \A s \in Server : JobOk(s)

-----------------------------------------------------------------------------
(* Retain keeps an edit an edit.                                             *)

\* No proposal is distinguished from the one it replaces by what was issued,
\* sent or counted.
LEMMA RetainProposals ==
  ASSUME NEW a, NEW st \in State, ProposalsOk(st), NEW i \in Id
  PROVE  LET p == st.proposals[i]
             q == Retain(a, st).proposals[i]
         IN  /\ q \in Proposal /\ ProposalOk(q) /\ q.reviews = p.reviews
             /\ \A h \in Hash : q.sent[h].accounted = p.sent[h].accounted
             /\ \A h \in Hash : q.sent[h].accounted => q = p
             /\ Waiting(p) => q = p
<1> DEFINE p == st.proposals[i]
           q == Retain(a, st).proposals[i]
<1>1. p \in Proposal /\ ProposalOk(p) BY DEF State, ProposalsOk
<1>2. q = p \/ (q = Dropped /\ Resolved(a, st, i) /\ p.reviews = {})
  <2>1. \A j \in Id :
          \/ Retain(a, st).proposals[j] = st.proposals[j]
          \/ /\ Retain(a, st).proposals[j] = Dropped
             /\ Resolved(a, st, j) /\ st.proposals[j].reviews = {}
    BY RetainIs
  <2>2. QED BY <2>1
<1>3. /\ Dropped = [status |-> "dropped", decision |-> NoReview, reviews |-> {},
                    sent |-> [h \in Hash |-> Unsent]]
      /\ \A h \in Hash : Dropped.sent[h] = Unsent
  BY DEF Dropped, Absent
<1>4. Unsent \in Sent /\ Unsent.state = "none" /\ Unsent.accounted = FALSE
  BY DEF Unsent, Sent
<1>5. Dropped \in Proposal
  BY <1>3, <1>4 DEF Proposal, Status
<1>6. ProposalOk(Dropped)
  BY <1>3, <1>4 DEF ProposalOk, HasSubmitted, OwnsPurchase, Unissued
<1>7. p.reviews = {} => \A h \in Hash : p.sent[h].accounted = FALSE
  <2>1. \A h \in Hash : p.sent[h].accounted \in BOOLEAN
    BY <1>1 DEF Proposal, Sent
  <2>2. \A h \in Hash : p.sent[h].accounted => p.sent[h].review \in p.reviews
    BY <1>1 DEF ProposalOk
  <2>3. QED BY <2>1, <2>2
<1>8. Resolved(a, st, i) => ~Waiting(p)
  BY DEF Resolved, Waiting, Unresolved
<1> HIDE DEF p, q
<1>9. CASE q = p
  BY <1>1, <1>9 DEF p, q
<1>10. CASE q = Dropped /\ Resolved(a, st, i) /\ p.reviews = {}
  <2>1. \A h \in Hash : q.sent[h].accounted = FALSE BY <1>3, <1>4, <1>10
  <2>2. q.reviews = {} BY <1>3, <1>10
  <2>3. q \in Proposal /\ ProposalOk(q) BY <1>5, <1>6, <1>10
  <2>4. QED BY <1>7, <1>8, <1>10, <2>1, <2>2, <2>3 DEF p, q
<1>11. QED BY <1>2, <1>9, <1>10

\* While no more transactions exist than verified executions are kept, every one
\* that is verified stays.
LEMMA RetainFinals ==
  ASSUME NEW a, NEW st \in State, EntriesOk(st), IsFiniteSet(MinedHashes), Few,
         NEW k \in DOMAIN st.executions
  PROVE  Cardinality(FinalsTo(st, k)) <= FinalKept
<1> DEFINE old == st.executions
           F == FinalsTo(st, k)
           f == [m \in F |-> old[m].hash]
<1>1. old \in Seq(Entry) /\ Len(old) \in Nat /\ DOMAIN old = 1..Len(old)
      /\ \A m \in DOMAIN old : old[m] \in Entry
  BY ElementOfSeq, LenProperties DEF State
<1>2. F \subseteq 1..k /\ F \subseteq DOMAIN old
  BY <1>1 DEF FinalsTo
<1>3. \A m \in F : old[m].status \in FinalStatus BY DEF FinalsTo
<1>4. \A m \in F : old[m].hash \in MinedHashes
  BY <1>1, <1>2, <1>3 DEF EntriesOk, MinedHashes, Entry
<1>5. \A m, n \in F : old[m].hash = old[n].hash => m = n
  BY <1>2 DEF EntriesOk
<1>6. IsFiniteSet(F)
  <2>1. k \in Int /\ 1 \in Int BY <1>1
  <2>2. IsFiniteSet(1..k) BY <2>1, FS_Interval
  <2>3. QED BY <1>2, <2>2, FS_Subset
<1> HIDE DEF F, old
<1>7. f \in Injection(F, MinedHashes)
  <2>1. f \in [F -> MinedHashes] BY <1>4
  <2>2. IsInjective(f) BY <1>5 DEF IsInjective
  <2>3. QED BY <2>1, <2>2 DEF Injection
<1>8. Cardinality(F) <= Cardinality(MinedHashes) BY <1>6, <1>7, FS_Injection
<1>9. Cardinality(F) \in Nat /\ Cardinality(MinedHashes) \in Nat
  BY <1>6, FS_CardinalityType
<1>10. QED BY <1>8, <1>9, RecordsAssumption DEF Few, F

LEMMA RetainEntries ==
  ASSUME NEW a, NEW st \in State, EntriesOk(st), IsFiniteSet(MinedHashes)
  PROVE  /\ Retain(a, st).executions \in Seq(Entry)
         /\ EntriesOk(Retain(a, st))
         /\ Few => \A h : HasFinal(st, h) => HasFinal(Retain(a, st), h)
<1> DEFINE old == st.executions
           new == Retain(a, st).executions
<1>1. /\ new \in Seq(Entry)
      /\ \E g \in [DOMAIN new -> DOMAIN old] :
                  /\ \A n \in DOMAIN new : new[n] = old[g[n]]
                  /\ \A n, m \in DOMAIN new : g[n] = g[m] => n = m
                  /\ \A k \in DOMAIN old :
                       \/ \E n \in DOMAIN new : g[n] = k
                       \/ old[k].status \in FinalStatus /\ Cardinality(FinalsTo(st, k)) > FinalKept
  BY KeptExecutions
<1>2. PICK g \in [DOMAIN new -> DOMAIN old] :
                  /\ \A n \in DOMAIN new : new[n] = old[g[n]]
                  /\ \A n, m \in DOMAIN new : g[n] = g[m] => n = m
                  /\ \A k \in DOMAIN old :
                       \/ \E n \in DOMAIN new : g[n] = k
                       \/ old[k].status \in FinalStatus /\ Cardinality(FinalsTo(st, k)) > FinalKept
  BY <1>1
<1>3. \A n \in DOMAIN new : g[n] \in DOMAIN old BY <1>2
<1>4. EntriesOk(Retain(a, st))
  <2> HIDE DEF old, new
  <2>1. \A k, m \in DOMAIN old : old[k].hash = old[m].hash => k = m
    BY DEF EntriesOk, old
  <2>2. \A k \in DOMAIN old : old[k].status \in FinalStatus => chain[old[k].hash] # NoTx
    BY DEF EntriesOk, old
  <2>3. \A k, m \in DOMAIN new : new[k].hash = new[m].hash => k = m
    BY <1>2, <1>3, <2>1
  <2>4. \A k \in DOMAIN new : new[k].status \in FinalStatus => chain[new[k].hash] # NoTx
    BY <1>2, <1>3, <2>2
  <2>5. QED BY <2>3, <2>4 DEF EntriesOk, new
<1>5. ASSUME Few, NEW h, HasFinal(st, h) PROVE HasFinal(Retain(a, st), h)
  <2>1. PICK k \in DOMAIN old : old[k].hash = h /\ old[k].status \in FinalStatus
    BY <1>5 DEF HasFinal
  <2>2. Cardinality(FinalsTo(st, k)) <= FinalKept BY <1>5, RetainFinals
  <2>3. Cardinality(FinalsTo(st, k)) \in Nat
    <3>1. old \in Seq(Entry) /\ Len(old) \in Nat /\ DOMAIN old = 1..Len(old)
      BY LenProperties DEF State
    <3>2. k \in Int /\ 1 \in Int BY <3>1
    <3>3. IsFiniteSet(1..k) BY <3>2, FS_Interval
    <3>4. QED BY <3>3, FS_Subset, FS_CardinalityType DEF FinalsTo
  <2>4. ~(Cardinality(FinalsTo(st, k)) > FinalKept) BY <2>2, <2>3, RecordsAssumption
  <2>5. PICK n \in DOMAIN new : g[n] = k BY <1>2, <2>4
  <2>6. new[n] = old[k] BY <1>2, <2>5
  <2>7. QED BY <2>1, <2>5, <2>6 DEF HasFinal
<1>6. QED BY <1>1, <1>4, <1>5

LEMMA RetainKeeps ==
  ASSUME NEW a, NEW st, NEW claims, NEW touched, Edited(a, st, claims, touched),
         IsFiniteSet(MinedHashes)
  PROVE  Edited(a, Retain(a, st), claims, touched)
<1> DEFINE new == Retain(a, st)
<1>0. st \in State /\ ProposalsOk(st) /\ EntriesOk(st) BY DEF Edited
<1>1. /\ new = [proposals |-> new.proposals, decisions |-> st.decisions,
              purchases |-> st.purchases, totals |-> st.totals, executions |-> new.executions]
      /\ new.proposals = [i \in Id |-> new.proposals[i]]
  <2>1. /\ new = [proposals |-> new.proposals, decisions |-> st.decisions,
              purchases |-> st.purchases, totals |-> st.totals,
              executions |-> [n \in 1..Cardinality(Keep(st)) |-> st.executions[At(Keep(st), n)]]]
        /\ new.proposals = [i \in Id |-> new.proposals[i]]
    BY <1>0, RetainIs
  <2> HIDE DEF new
  <2>2. QED BY <2>1
<1>2. \A i \in Id :
         /\ new.proposals[i] \in Proposal /\ ProposalOk(new.proposals[i])
         /\ new.proposals[i].reviews = st.proposals[i].reviews
         /\ \A h \in Hash : new.proposals[i].sent[h].accounted = st.proposals[i].sent[h].accounted
         /\ \A h \in Hash : new.proposals[i].sent[h].accounted => new.proposals[i] = st.proposals[i]
         /\ Waiting(st.proposals[i]) => new.proposals[i] = st.proposals[i]
  BY <1>0, RetainProposals
<1>3. /\ new.executions \in Seq(Entry) /\ EntriesOk(new)
      /\ Few => \A h : HasFinal(st, h) => HasFinal(new, h)
  BY <1>0, RetainEntries
<1> HIDE DEF new
<1>4. /\ new.decisions = st.decisions /\ new.purchases = st.purchases /\ new.totals = st.totals
      /\ new.proposals \in [Id -> Proposal]
  BY <1>1, <1>2
<1>5. new \in State
  <2>1. st.decisions \in SUBSET Decision /\ st.purchases \in Nat /\ st.totals \in Nat
    BY <1>0 DEF State
  <2> DEFINE P == new.proposals  E == new.executions
  <2>2. new = [proposals |-> P, decisions |-> st.decisions,
              purchases |-> st.purchases, totals |-> st.totals, executions |-> E]
    BY <1>1
  <2>3. P \in [Id -> Proposal] /\ E \in Seq(Entry) BY <1>3, <1>4
  <2> HIDE DEF P, E
  <2>4. QED BY <2>1, <2>2, <2>3 DEF State
<1>6. ProposalsOk(new) BY <1>2 DEF ProposalsOk
<1>7. CountedOk(a, new, claims)
  <2>1. CountedOk(a, st, claims) BY DEF Edited
  <2>2. CountedIn(new) = CountedIn(st)
    BY <1>2 DEF CountedIn
  <2>3. new.purchases = Cardinality(CountedIn(new)) BY <1>4, <2>1, <2>2 DEF CountedOk
  <2>4. QED BY <1>2, <2>1, <2>3 DEF CountedOk
<1>8. TotalsOk(a, new, claims)
  <2>1. TotalsOk(a, st, claims) BY DEF Edited
  <2>2. QED BY <1>3, <1>4, <2>1 DEF TotalsOk
<1>9. ReviewsOk(a, new)
  <2>1. ReviewsOk(a, st) BY DEF Edited
  <2>2. QED BY <1>2, <1>4, <2>1 DEF ReviewsOk
<1>10. TouchedOk(a, new, touched)
  <2>1. TouchedOk(a, st, touched) BY DEF Edited
  <2>2. QED BY <1>2, <2>1 DEF TouchedOk
<1>11. QED BY <1>3, <1>5, <1>6, <1>7, <1>8, <1>9, <1>10 DEF Edited, new

-----------------------------------------------------------------------------
(* What other requests may change of what an edit was made from.             *)

\* A step that leaves the agent's state and what it owns, and forgets nothing.
Kept(a) ==
  /\ agents'[a] = agents[a] /\ Owned(a)' = Owned(a)
  /\ \A h \in Hash : owner[h] # NoOwner => owner'[h] = owner[h]
  /\ \A h \in Hash : chain[h] # NoTx => chain'[h] = chain[h]
  /\ IsFiniteSet(MinedHashes')
  /\ profile[a] = "archived" => profile'[a] = "archived"

LEMMA FewKept ==
  ASSUME \A h \in Hash : chain[h] # NoTx => chain'[h] = chain[h], IsFiniteSet(MinedHashes'), Few'
  PROVE  Few
<1>1. MinedHashes \subseteq MinedHashes' BY DEF MinedHashes
<1>2. /\ IsFiniteSet(MinedHashes) /\ Cardinality(MinedHashes) <= Cardinality(MinedHashes')
      /\ Cardinality(MinedHashes) \in Nat /\ Cardinality(MinedHashes') \in Nat
  BY <1>1, FS_Subset, FS_CardinalityType
<1>3. Cardinality(MinedHashes') <= FinalKept BY DEF Few
<1>4. QED BY <1>2, <1>3, RecordsAssumption DEF Few

\* The claim of a counted purchase names an owner.
LEMMA CountedReview ==
  ASSUME NEW a \in Agent, NEW st \in State, ProposalsOk(st), NEW i \in Id, NEW h \in Hash,
         st.proposals[i].sent[h].accounted
  PROVE  LET r == st.proposals[i].sent[h].review IN
         /\ r \in Review /\ Claim(h, a, i, r).by \in Owner /\ Claim(h, a, i, r).by # NoOwner
<1> DEFINE p == st.proposals[i]  r == p.sent[h].review
<1>1. p \in Proposal /\ ProposalOk(p) BY DEF State, ProposalsOk
<1>2. r \in p.reviews /\ p.reviews \subseteq Review BY <1>1 DEF ProposalOk, Proposal
<1> HIDE DEF r
<1>3. Claim(h, a, i, r).by = [agent |-> a, record |-> i, tx |-> r] BY DEF Claim
<1>4. Claim(h, a, i, r).by \in Owner BY <1>2, <1>3 DEF Owner
<1>5. QED BY <1>2, <1>4, RecordsAssumption DEF Owner, r

LEMMA CountedKept ==
  ASSUME NEW a \in Agent, NEW st \in State, ProposalsOk(st), NEW claims,
         CountedOk(a, st, claims), Kept(a)
  PROVE  CountedOk(a, st, claims)'
<1>1. \A i \in Id, h \in Hash : st.proposals[i].sent[h].accounted =>
        Claim(h, a, i, st.proposals[i].sent[h].review).by # NoOwner
  BY CountedReview
<1>2. \A h \in Hash : owner[h] # NoOwner => owner'[h] = owner[h] BY DEF Kept
<1>3. \A h \in Hash : chain[h] # NoTx => chain'[h] = chain[h] BY DEF Kept
<1>4. QED BY <1>1, <1>2, <1>3 DEF CountedOk, CountedIn

LEMMA EntriesKept ==
  ASSUME NEW a, NEW st \in State, EntriesOk(st), Kept(a)
  PROVE  EntriesOk(st)'
<1>1. \A k \in DOMAIN st.executions : st.executions[k].hash \in Hash
  <2>1. st.executions \in Seq(Entry) BY DEF State
  <2>2. \A k \in DOMAIN st.executions : st.executions[k] \in Entry
    BY <2>1, ElementOfSeq, LenProperties
  <2>3. QED BY <2>2 DEF Entry
<1>2. \A h \in Hash : chain[h] # NoTx => chain'[h] = chain[h] BY DEF Kept
<1>3. QED BY <1>1, <1>2 DEF EntriesOk

LEMMA EditedKept ==
  ASSUME NEW a \in Agent, NEW st, NEW claims, NEW touched, Edited(a, st, claims, touched), Kept(a)
  PROVE  Edited(a, st, claims, touched)'
<1>0. st \in State /\ ProposalsOk(st) /\ EntriesOk(st) /\ CountedOk(a, st, claims) BY DEF Edited
<1>1. st \in State /\ ProposalsOk(st)' BY <1>0 DEF ProposalsOk, ProposalOk, HasSubmitted, OwnsPurchase
<1>2. CountedOk(a, st, claims)' BY <1>0, CountedKept
<1>3. EntriesOk(st)' BY <1>0, EntriesKept
<1>4. ClaimsOk(a, claims)'
  <2>1. ClaimsOk(a, claims) BY DEF Edited
  <2>2. \A c \in claims : c.hash \in Hash BY <2>1 DEF ClaimsOk
  <2>3. QED BY <2>1, <2>2 DEF ClaimsOk, Kept
<1>5. TotalsOk(a, st, claims)'
  <2>1. TotalsOk(a, st, claims) BY DEF Edited
  <2>2. Few' => Few BY FewKept DEF Kept
  <2>3. agents'[a] = agents[a] /\ Owned(a)' = Owned(a) BY DEF Kept
  <2>4. \A h : HasFinal(st, h)' <=> HasFinal(st, h) BY DEF HasFinal
  <2>5. ForExecution(claims)' = ForExecution(claims) BY DEF ForExecution
  <2>6. QED BY <2>1, <2>2, <2>3, <2>4, <2>5 DEF TotalsOk
<1>6. ReviewsOk(a, st)' BY DEF Edited, ReviewsOk, Kept
<1>7. TouchedOk(a, st, touched)' BY DEF Edited, TouchedOk, Kept, Waiting, HasSubmitted
<1>8. QED BY <1>1, <1>2, <1>3, <1>4, <1>5, <1>6, <1>7 DEF Edited

LEMMA StoredKept ==
  ASSUME NEW a \in Agent, StoredOk(a), Kept(a)
  PROVE  StoredOk(a)'
<1>1. PICK st : st = agents[a] OBVIOUS
<1>2. agents'[a] = st BY <1>1 DEF Kept
<1>3. st \in State /\ ProposalsOk(st) /\ CountedOk(a, st, {}) /\ EntriesOk(st)
  BY <1>1 DEF StoredOk
<1>4. ProposalsOk(st)' BY <1>3 DEF ProposalsOk, ProposalOk, HasSubmitted, OwnsPurchase
<1>5. CountedOk(a, st, {})' BY <1>3, CountedKept
<1>6. EntriesOk(st)' BY <1>3, EntriesKept
<1>7. /\ st.decisions = {} => profile'[a] = "archived"
      /\ st.totals >= Cardinality(Owned(a)')
      /\ Few' => st.totals = Cardinality(Owned(a)')
      /\ Few' => \A h \in Owned(a)' : HasFinal(st, h)'
  <2>1. Few' => Few BY FewKept DEF Kept
  <2>2. Owned(a)' = Owned(a) BY DEF Kept
  <2>3. \A h : HasFinal(st, h)' <=> HasFinal(st, h) BY DEF HasFinal
  <2>4. st.decisions = {} => profile'[a] = "archived" BY <1>1 DEF StoredOk, Kept
  <2>5. QED BY <1>1, <2>1, <2>2, <2>3, <2>4 DEF StoredOk
<1>8. QED BY <1>2, <1>3, <1>4, <1>5, <1>6, <1>7 DEF StoredOk

\* The agent of a request.
LEMMA JobKept ==
  ASSUME NEW s \in Server, JobOk(s), job'[s] = job[s], \A a \in Agent : Kept(a)
  PROVE  JobOk(s)'
<1>1. PICK j : j = job[s] OBVIOUS
<1>2. job'[s] = j BY <1>1
<1>3. \A a \in Agent : agents'[a] = agents[a] /\ (profile[a] = "archived" => profile'[a] = "archived")
  BY DEF Kept
<1>4. CASE j = NoJob BY <1>2, <1>4 DEF JobOk
<1>5. CASE j \in Preparing BY <1>2, <1>5 DEF JobOk
<1>6. CASE j \in Refreshing /\ (j.same => Waiting(agents[j.agent].proposals[j.id]))
  <2>1. j.agent \in Agent BY <1>6 DEF Refreshing
  <2>2. j.same => Waiting(agents[j.agent].proposals[j.id])'
    BY <1>3, <1>6, <2>1 DEF Waiting, HasSubmitted
  <2>3. QED BY <1>2, <1>6, <2>2 DEF JobOk
<1>7. CASE j \in Clearing /\ profile[j.agent] = "archived"
  <2>1. j.agent \in Agent BY <1>7 DEF Clearing
  <2>2. QED BY <1>2, <1>3, <1>7, <2>1 DEF JobOk
<1>8. CASE /\ j = [f \in SaveFields |-> j[f]] /\ j.step = "save"
           /\ j.agent \in Agent /\ j.fresh \in BOOLEAN /\ j.next \in Preparing \cup {NoJob}
           /\ j.fresh => Edited(j.agent, j.state, j.claims, j.touched)
  <2>1. j.fresh => Edited(j.agent, j.state, j.claims, j.touched)'
    BY <1>8, EditedKept
  <2>2. QED BY <1>2, <1>8, <2>1 DEF JobOk
<1>9. QED BY <1>1, <1>4, <1>5, <1>6, <1>7, <1>8 DEF JobOk

\* A step that stores nothing keeps the invariant when it keeps the ledger and
\* leaves good requests.
LEMMA QuietStep ==
  ASSUME RecordsInv, LedgerOk', agents' = agents, owner' = owner,
         \A h \in Hash : chain[h] # NoTx => chain'[h] = chain[h],
         \A a \in Agent : profile[a] = "archived" => profile'[a] = "archived",
         \A s \in Server : job'[s] = job[s] \/ JobOk(s)'
  PROVE  RecordsInv'
<1>1. ASSUME NEW a \in Agent PROVE Kept(a)
  BY DEF Kept, Owned, LedgerOk
<1>2. \A a \in Agent : StoredOk(a)' BY <1>1, StoredKept DEF RecordsInv
<1>3. \A s \in Server : JobOk(s)' BY <1>1, JobKept DEF RecordsInv
<1>4. QED BY <1>2, <1>3 DEF RecordsInv

-----------------------------------------------------------------------------
(* Steps that store nothing.                                                 *)

\* An edit staged in the lock is a good request.
LEMMA StageStep ==
  ASSUME RecordsInv, NEW s \in Server, NEW a \in Agent, NEW st, NEW claims, NEW touched, NEW next,
         Edited(a, st, claims, touched), next \in Preparing \cup {NoJob},
         Stage(s, a, st, claims, touched, next)
  PROVE  RecordsInv'
<1>0. LedgerOk BY DEF RecordsInv
<1>1. IsFiniteSet(MinedHashes) BY <1>0 DEF LedgerOk
<1>2. PICK R : R = Retain(a, st) OBVIOUS
<1>3. Edited(a, R, claims, touched) BY <1>1, <1>2, RetainKeeps
<1> DEFINE w == [step |-> "save", agent |-> a, state |-> R, claims |-> claims,
                 touched |-> touched, next |-> next, fresh |-> TRUE]
<1>4. /\ lock' = [lock EXCEPT ![a] = s] /\ job' = [job EXCEPT ![s] = w]
      /\ UNCHANGED <<agents, profile, owner, chain, lapsed, expiries, crashes>>
  BY <1>2 DEF Stage
<1>5. Edited(a, R, claims, touched)'
  <2>1. Kept(a) BY <1>1, <1>4 DEF Kept, Owned, MinedHashes
  <2>2. QED BY <1>3, <2>1, EditedKept
<1>6. job'[s] = w BY <1>0, <1>4 DEF LedgerOk
<1>7. JobOk(s)'
  <2>1. /\ w = [f \in SaveFields |-> w[f]] /\ w.step = "save" /\ w.agent = a /\ w.fresh = TRUE
        /\ w.next = next /\ w.state = R /\ w.claims = claims /\ w.touched = touched
    BY DEF SaveFields
  <2> HIDE DEF w
  <2>2. QED BY <1>5, <1>6, <2>1 DEF JobOk
<1> HIDE DEF w
<1>8. \A t \in Server : job'[t] = job[t] \/ JobOk(t)'
  BY <1>0, <1>4, <1>7 DEF LedgerOk
<1>9. LedgerOk'
  <2>1. job' = [t \in Server |-> job'[t]] BY <1>0, <1>4 DEF LedgerOk
  <2>2. lock' \in [Agent -> Server \cup {NoServer}] BY <1>0, <1>4 DEF LedgerOk
  <2>3. QED BY <1>0, <1>4, <2>1, <2>2 DEF LedgerOk, MinedHashes
<1>10. QED BY <1>4, <1>8, <1>9, QuietStep

LEMMA LoadRefreshStep ==
  ASSUME RecordsInv, NEW s \in Server, NEW a \in Agent, NEW i \in Id, LoadRefresh(s, a, i)
  PROVE  RecordsInv'
<1>0. LedgerOk BY DEF RecordsInv
<1> DEFINE w == [step |-> "refresh", agent |-> a, id |-> i, same |-> TRUE]
<1>1. /\ job' = [job EXCEPT ![s] = w] /\ Waiting(agents[a].proposals[i])
      /\ UNCHANGED <<agents, profile, owner, chain, lapsed, lock, expiries, crashes>>
  BY DEF LoadRefresh
<1>2. w \in Refreshing /\ w.agent = a /\ w.id = i BY DEF Refreshing
<1> HIDE DEF w
<1>3. job'[s] = w BY <1>0, <1>1 DEF LedgerOk
<1>4. JobOk(s)' BY <1>1, <1>2, <1>3 DEF JobOk, Waiting, HasSubmitted
<1>5. \A t \in Server : job'[t] = job[t] \/ JobOk(t)'
  BY <1>0, <1>1, <1>4 DEF LedgerOk
<1>6. LedgerOk' BY <1>0, <1>1 DEF LedgerOk, MinedHashes
<1>7. QED BY <1>1, <1>5, <1>6, QuietStep

\* A request that ends without a save.
LEMMA EndStep ==
  ASSUME RecordsInv, NEW s \in Server, job' = [job EXCEPT ![s] = NoJob],
         lock' \in [Agent -> Server \cup {NoServer}],
         UNCHANGED <<agents, profile, owner, chain, lapsed>>
  PROVE  RecordsInv'
<1>0. LedgerOk BY DEF RecordsInv
<1>1. job'[s] = NoJob BY <1>0 DEF LedgerOk
<1>2. JobOk(s)' BY <1>1 DEF JobOk
<1>3. \A t \in Server : job'[t] = job[t] \/ JobOk(t)'
  BY <1>0, <1>2 DEF LedgerOk
<1>4. LedgerOk' BY <1>0 DEF LedgerOk, MinedHashes
<1>5. QED BY <1>3, <1>4, QuietStep

LEMMA ArchiveStep ==
  ASSUME RecordsInv, NEW s \in Server, NEW a \in Agent, Archive(s, a)
  PROVE  RecordsInv'
<1>0. LedgerOk BY DEF RecordsInv
<1> DEFINE w == [step |-> "clear", agent |-> a]
<1>1. /\ job' = [job EXCEPT ![s] = w] /\ profile' = [profile EXCEPT ![a] = "archived"]
      /\ UNCHANGED <<agents, owner, chain, lapsed, lock, expiries, crashes>>
  BY DEF Archive
<1>2. w \in Clearing /\ w.agent = a BY DEF Clearing
<1> HIDE DEF w
<1>3. job'[s] = w /\ profile'[a] = "archived" BY <1>0, <1>1 DEF LedgerOk
<1>4. JobOk(s)' BY <1>2, <1>3 DEF JobOk
<1>5. \A t \in Server : job'[t] = job[t] \/ JobOk(t)'
  BY <1>0, <1>1, <1>4 DEF LedgerOk
<1>6. LedgerOk' BY <1>0, <1>1 DEF LedgerOk, MinedHashes
<1>7. \A b \in Agent : profile[b] = "archived" => profile'[b] = "archived"
  BY <1>0, <1>1 DEF LedgerOk
<1>8. QED BY <1>1, <1>5, <1>6, <1>7, QuietStep

LEMMA MinedStep ==
  ASSUME RecordsInv, NEW h \in Hash, Mined(h)
  PROVE  RecordsInv'
<1>0. LedgerOk BY DEF RecordsInv
<1>1. PICK r \in Review, ok \in BOOLEAN, w \in (Agent \ Assisted) \cup {NoOwner} :
        chain' = [chain EXCEPT ![h] = [tx |-> r, ok |-> ok, wallet |-> w]]
  BY DEF Mined
<1>2. chain[h] = NoTx /\ UNCHANGED <<agents, profile, owner, lapsed, lock, job, expiries, crashes>>
  BY DEF Mined
<1>3. \A g \in Hash : chain[g] # NoTx => chain'[g] = chain[g]
  BY <1>0, <1>1, <1>2 DEF LedgerOk
<1>4. chain' = [g \in Hash |-> chain'[g]] BY <1>0, <1>1 DEF LedgerOk
<1>5. MinedHashes' \subseteq MinedHashes \cup {h}
  BY <1>0, <1>1 DEF MinedHashes, LedgerOk
<1>6. IsFiniteSet(MinedHashes')
  BY <1>0, <1>5, FS_AddElement, FS_Subset DEF LedgerOk
<1>7. LedgerOk' BY <1>0, <1>2, <1>3, <1>4, <1>6 DEF LedgerOk
<1>8. QED BY <1>2, <1>3, <1>7, QuietStep

LEMMA LockStep ==
  ASSUME RecordsInv, NEW a \in Agent, LockExpires(a)
  PROVE  RecordsInv'
<1>0. LedgerOk BY DEF RecordsInv
<1>1. /\ lock' = [lock EXCEPT ![a] = NoServer]
      /\ UNCHANGED <<agents, profile, owner, chain, lapsed, job, crashes>>
  BY DEF LockExpires
<1>2. LedgerOk' BY <1>0, <1>1 DEF LedgerOk, MinedHashes
<1>3. QED BY <1>1, <1>2, QuietStep

LEMMA LapseStep ==
  ASSUME RecordsInv, Lapse
  PROVE  RecordsInv'
<1>0. LedgerOk BY DEF RecordsInv
<1>1. PICK a \in Agent, i \in Id : lapsed' = lapsed \cup {<<a, i>>} BY DEF Lapse
<1>2. UNCHANGED <<agents, profile, owner, chain, lock, job, expiries, crashes>> BY DEF Lapse
<1>3. lapsed' \subseteq Agent \X Id BY <1>0, <1>1 DEF LedgerOk
<1>4. LedgerOk' BY <1>0, <1>2, <1>3 DEF LedgerOk, MinedHashes
<1>5. QED BY <1>2, <1>4, QuietStep

-----------------------------------------------------------------------------
(* The save.                                                                 *)

\* A save that goes through: the state is stored and its claims are owned.
Saved(a, st, claims) ==
  /\ agents' = [agents EXCEPT ![a] = st]
  /\ owner' = [h \in Hash |-> IF \E c \in claims : c.hash = h
                              THEN Claimed(h, (CHOOSE c \in claims : c.hash = h).by)
                              ELSE owner[h]]
  /\ \A c \in claims : owner[c.hash] \in {NoOwner, c.by}
  /\ UNCHANGED <<profile, chain, lapsed>>

\* Ownership is only ever taken of what nobody owns, and every claim takes it.
LEMMA SavedOwners ==
  ASSUME NEW a \in Agent, NEW st, NEW claims, LedgerOk, ClaimsOk(a, claims), Saved(a, st, claims)
  PROVE  /\ \A h \in Hash : owner[h] # NoOwner => owner'[h] = owner[h]
         /\ \A c \in claims : c.hash \in Hash /\ owner'[c.hash] = c.by
         /\ \A h \in Hash : \/ owner'[h] = owner[h]
                            \/ \E c \in claims : c.hash = h /\ owner'[h] = c.by
<1>1. ASSUME NEW h \in Hash, NEW c \in claims, c.hash = h
      PROVE  owner'[h] = c.by /\ owner[h] \in {NoOwner, c.by}
  <2>1. (CHOOSE d \in claims : d.hash = h) = c BY <1>1 DEF ClaimsOk
  <2>2. owner'[h] = Claimed(h, c.by) BY <1>1, <2>1 DEF Saved
  <2>3. owner[h] \in {NoOwner, c.by} BY <1>1 DEF Saved
  <2>4. QED BY <2>2, <2>3 DEF Claimed
<1>2. ASSUME NEW h \in Hash, ~\E c \in claims : c.hash = h
      PROVE  owner'[h] = owner[h]
  BY <1>2 DEF Saved
<1>3. \A c \in claims : c.hash \in Hash BY DEF ClaimsOk
<1>4. QED BY <1>1, <1>2, <1>3

LEMMA SavedOwned ==
  ASSUME NEW a \in Agent, NEW st, NEW claims, LedgerOk, ClaimsOk(a, claims), Saved(a, st, claims)
  PROVE  /\ \A b \in Agent \ {a} : Owned(b)' = Owned(b)
         /\ Owned(a)' = Owned(a) \cup {c.hash : c \in ForExecution(claims)}
<1>1. /\ \A h \in Hash : owner[h] # NoOwner => owner'[h] = owner[h]
      /\ \A c \in claims : c.hash \in Hash /\ owner'[c.hash] = c.by
      /\ \A h \in Hash : \/ owner'[h] = owner[h]
                         \/ \E c \in claims : c.hash = h /\ owner'[h] = c.by
  BY SavedOwners
<1>2. \A c \in claims : c.by \in Owner /\ c.by # NoOwner /\ c.by.agent = a
  BY RecordsAssumption DEF ClaimsOk, Owner
<1>3. \A b \in Agent \ {a} : Owned(b)' = Owned(b)
  BY <1>1, <1>2 DEF Owned
<1>4. ASSUME NEW h \in Owned(a)' PROVE h \in Owned(a) \cup {c.hash : c \in ForExecution(claims)}
  <2>1. h \in Hash /\ owner'[h] # NoOwner /\ owner'[h].agent = a /\ owner'[h].record = Execution
    BY DEF Owned
  <2>2. CASE owner'[h] = owner[h] BY <2>1, <2>2 DEF Owned
  <2>3. CASE \E c \in claims : c.hash = h /\ owner'[h] = c.by
    BY <2>1, <2>3 DEF ForExecution
  <2>4. QED BY <1>1, <2>1, <2>2, <2>3
<1>5. ASSUME NEW h \in Owned(a) PROVE h \in Owned(a)'
  BY <1>1 DEF Owned
<1>6. ASSUME NEW c \in ForExecution(claims) PROVE c.hash \in Owned(a)'
  BY <1>1, <1>2 DEF Owned, ForExecution
<1>7. QED BY <1>3, <1>4, <1>5, <1>6

LEMMA SavedStored ==
  ASSUME NEW a \in Agent, NEW st, NEW claims, NEW touched, LedgerOk, StoredOk(a),
         Edited(a, st, claims, touched), Saved(a, st, claims)
  PROVE  StoredOk(a)'
<1>0. /\ st \in State /\ ProposalsOk(st) /\ EntriesOk(st) /\ CountedOk(a, st, claims)
      /\ ClaimsOk(a, claims) /\ TotalsOk(a, st, claims) /\ ReviewsOk(a, st)
  BY DEF Edited
<1>1. agents'[a] = st /\ chain' = chain /\ profile' = profile
  BY DEF LedgerOk, Saved
<1>2. /\ \A h \in Hash : owner[h] # NoOwner => owner'[h] = owner[h]
      /\ \A c \in claims : owner'[c.hash] = c.by
  BY <1>0, SavedOwners
<1>3. ProposalsOk(st)' BY <1>0 DEF ProposalsOk, ProposalOk, HasSubmitted, OwnsPurchase
<1>4. EntriesOk(st)' BY <1>0, <1>1 DEF EntriesOk
<1>5. CountedOk(a, st, {})'
  <2>1. ASSUME NEW i \in Id, NEW h \in Hash, st.proposals[i].sent[h].accounted
        PROVE  LET c == Claim(h, a, i, st.proposals[i].sent[h].review) IN
               /\ chain[h] # NoTx /\ chain[h].ok /\ chain[h].tx = st.proposals[i].sent[h].review
               /\ owner'[h] = c.by
    <3> DEFINE c == Claim(h, a, i, st.proposals[i].sent[h].review)
    <3>1. c.by # NoOwner BY <1>0, <2>1, CountedReview
    <3>2. c.hash = h BY DEF Claim
    <3>3. /\ chain[h] # NoTx /\ chain[h].ok /\ chain[h].tx = st.proposals[i].sent[h].review
          /\ owner[h] = c.by \/ c \in claims
      BY <1>0, <2>1 DEF CountedOk
    <3> HIDE DEF c
    <3>4. owner'[h] = c.by BY <1>2, <3>1, <3>2, <3>3
    <3>5. QED BY <3>3, <3>4 DEF c
  <2>2. st.purchases = Cardinality(CountedIn(st)) BY <1>0 DEF CountedOk
  <2>3. QED BY <1>1, <2>1, <2>2 DEF CountedOk, CountedIn
<1>6. st.decisions = {} => profile'[a] = "archived" BY <1>0, <1>1 DEF ReviewsOk
<1>7. /\ st.totals >= Cardinality(Owned(a)')
      /\ Few => st.totals = Cardinality(Owned(a)')
      /\ Few => \A h \in Owned(a)' : HasFinal(st, h)
  <2> DEFINE O == Owned(a)  F == ForExecution(claims)  n == Cardinality(O)  m == agents[a].totals
  <2>1. O \subseteq MinedHashes /\ IsFiniteSet(O)
    <3>1. O \subseteq MinedHashes BY DEF Owned, MinedHashes, LedgerOk
    <3>2. QED BY <3>1, FS_Subset DEF LedgerOk
  <2>2. n \in Nat BY <2>1, FS_CardinalityType
  <2>3. m \in Nat /\ m >= n /\ (Few => m = n) BY DEF StoredOk, State
  <2>4. Owned(a)' = O \cup {c.hash : c \in F} BY <1>0, SavedOwned
  <2>5. /\ st.totals = m + (IF F = {} THEN 0 ELSE 1)
        /\ Few => \A c \in F : c.hash \notin O /\ HasFinal(st, c.hash)
        /\ Few => \A h \in O : HasFinal(st, h)
    BY <1>0 DEF TotalsOk
  <2>6. \A c, d \in F : c = d BY <1>0 DEF ClaimsOk, ForExecution
  <2> HIDE DEF O, F, m
  <2>7. CASE F = {}
    <3>1. Owned(a)' = O BY <2>4, <2>7
    <3>2. st.totals = m BY <2>3, <2>5, <2>7
    <3>3. QED BY <2>2, <2>3, <2>5, <3>1, <3>2
  <2>8. CASE F # {}
    <3>1. PICK c \in F : TRUE BY <2>8
    <3>2. Owned(a)' = O \cup {c.hash} BY <2>4, <2>6, <3>1
    <3>3. st.totals = m + 1 BY <2>5, <2>8
    <3>4. Cardinality(Owned(a)') = IF c.hash \in O THEN n ELSE n + 1
      BY <2>1, <3>2, FS_AddElement
    <3>5. QED BY <2>2, <2>3, <2>5, <3>1, <3>2, <3>3, <3>4
  <2>9. QED BY <2>7, <2>8
<1>8. Few' = Few BY <1>1 DEF Few, MinedHashes
<1>9. \A h : HasFinal(st, h)' = HasFinal(st, h) BY DEF HasFinal
<1>10. QED BY <1>0, <1>1, <1>3, <1>4, <1>5, <1>6, <1>7, <1>8, <1>9 DEF StoredOk

\* What another request learns of a save keeps it good.
LEMMA SavedJob ==
  ASSUME LedgerOk, NEW t \in Server, JobOk(t), NEW w, NEW a \in Agent, w.agent = a, NEW st,
         NEW claims, Edited(a, st, claims, w.touched), Saved(a, st, claims),
         \A b \in Agent \ {a} : Kept(b), job'[t] = Outdated(t, w)
  PROVE  JobOk(t)'
<1>1. PICK j : j = job[t] OBVIOUS
<1>2. job'[t] = IF j.step = "save" /\ j.agent = a THEN [j EXCEPT !.fresh = FALSE]
                ELSE IF j.step \in {"prepare", "refresh"} /\ j.agent = a /\ j.id = w.touched
                     THEN [j EXCEPT !.same = FALSE]
                     ELSE j
  BY <1>1 DEF Outdated
<1>3. \A b \in Agent : /\ b # a => agents'[b] = agents[b]
                       /\ b = a => agents'[b] = st
                       /\ profile'[b] = profile[b]
  BY DEF Saved, LedgerOk
<1>4. CASE j = NoJob
  <2>1. j.step = "none" BY <1>4 DEF NoJob
  <2>2. job'[t] = j BY <1>2, <2>1
  <2>3. QED BY <1>4, <2>2 DEF JobOk
<1>5. CASE j \in Preparing
  <2>1. j.step = "prepare" BY <1>5 DEF Preparing
  <2>2. job'[t] \in {j, [j EXCEPT !.same = FALSE]} BY <1>2, <2>1
  <2>3. [j EXCEPT !.same = FALSE] \in Preparing BY <1>5 DEF Preparing
  <2>4. QED BY <1>5, <2>2, <2>3 DEF JobOk
<1>6. CASE j \in Refreshing /\ (j.same => Waiting(agents[j.agent].proposals[j.id]))
  <2>0. j.step = "refresh" /\ j.agent \in Agent /\ j.id \in Id BY <1>6 DEF Refreshing
  <2>1. CASE j.agent = a /\ j.id = w.touched
    <3> DEFINE k == [j EXCEPT !.same = FALSE]
    <3>1. job'[t] = k BY <1>2, <2>0, <2>1
    <3>2. k \in Refreshing /\ k.same = FALSE BY <1>6 DEF Refreshing
    <3> HIDE DEF k
    <3>3. QED BY <3>1, <3>2 DEF JobOk
  <2>2. CASE ~(j.agent = a /\ j.id = w.touched)
    <3>1. job'[t] = j BY <1>2, <2>0, <2>2
    <3>2. ASSUME j.same PROVE Waiting(agents[j.agent].proposals[j.id])'
      <4>1. Waiting(agents[j.agent].proposals[j.id]) BY <1>6, <3>2
      <4>2. CASE j.agent # a
        BY <1>3, <2>0, <4>1, <4>2 DEF Waiting, HasSubmitted
      <4>3. CASE j.agent = a /\ j.id # w.touched
        <5>1. TouchedOk(a, st, w.touched) BY DEF Edited
        <5>2. Waiting(st.proposals[j.id]) BY <2>0, <4>1, <4>3, <5>1 DEF TouchedOk
        <5>3. agents'[j.agent] = st BY <1>3, <4>3
        <5>4. QED BY <5>2, <5>3 DEF Waiting, HasSubmitted
      <4>4. QED BY <2>2, <4>2, <4>3
    <3>3. QED BY <1>6, <3>1, <3>2 DEF JobOk
  <2>3. QED BY <2>1, <2>2
<1>7. CASE j \in Clearing /\ profile[j.agent] = "archived"
  <2>1. j.step = "clear" /\ j.agent \in Agent BY <1>7 DEF Clearing
  <2>2. job'[t] = j BY <1>2, <2>1
  <2>3. QED BY <1>3, <1>7, <2>1, <2>2 DEF JobOk
<1>8. CASE /\ j = [f \in SaveFields |-> j[f]] /\ j.step = "save"
           /\ j.agent \in Agent /\ j.fresh \in BOOLEAN /\ j.next \in Preparing \cup {NoJob}
           /\ j.fresh => Edited(j.agent, j.state, j.claims, j.touched)
  <2>1. CASE j.agent = a
    <3> DEFINE k == [j EXCEPT !.fresh = FALSE]
    <3>1. job'[t] = k BY <1>2, <1>8, <2>1
    <3>2. /\ k = [f \in SaveFields |-> k[f]] /\ k.step = j.step /\ k.agent = j.agent
          /\ k.next = j.next /\ k.fresh = FALSE
      BY <1>8 DEF SaveFields
    <3> HIDE DEF k
    <3>3. QED BY <1>8, <3>1, <3>2 DEF JobOk
  <2>2. CASE j.agent # a
    <3>1. job'[t] = j BY <1>2, <1>8, <2>2
    <3>2. j.fresh => Edited(j.agent, j.state, j.claims, j.touched)'
      BY <1>8, <2>2, EditedKept
    <3>3. QED BY <1>8, <3>1, <3>2 DEF JobOk
  <2>3. QED BY <2>1, <2>2
<1>9. QED BY <1>1, <1>4, <1>5, <1>6, <1>7, <1>8 DEF JobOk

LEMMA SaveStep ==
  ASSUME RecordsInv, NEW s \in Server, Save(s)
  PROVE  RecordsInv'
<1>0. LedgerOk BY DEF RecordsInv
<1>1. PICK w : w = job[s] OBVIOUS
<1>2. /\ w.step = "save" /\ lock' = Release(s)
      /\ UNCHANGED <<profile, chain, lapsed, expiries, crashes>>
  BY <1>1 DEF Save
<1>3. lock' \in [Agent -> Server \cup {NoServer}]
  BY <1>0, <1>2 DEF Release, LedgerOk
<1>4. /\ w.agent \in Agent /\ w.fresh \in BOOLEAN /\ w.next \in Preparing \cup {NoJob}
      /\ w.fresh => Edited(w.agent, w.state, w.claims, w.touched)
  <2>1. JobOk(s) BY DEF RecordsInv
  <2>2. w # NoJob /\ w \notin Preparing /\ w \notin Refreshing /\ w \notin Clearing
    BY <1>2 DEF NoJob, Preparing, Refreshing, Clearing
  <2>3. QED BY <1>1, <2>1, <2>2 DEF JobOk
<1>5. CASE ~(Fresh(w) /\ Unowned(w))
  <2>1. job' = [job EXCEPT ![s] = NoJob] /\ UNCHANGED <<agents, owner>>
    BY <1>1, <1>5 DEF Save
  <2>2. QED BY <1>2, <1>3, <2>1, EndStep
<1>6. CASE Fresh(w) /\ Unowned(w)
  <2>0. PICK st, claims : st = w.state /\ claims = w.claims OBVIOUS
  <2>1. PICK a \in Agent : a = w.agent BY <1>4
  <2>2. Saved(a, st, claims) /\ job' = [t \in Server |-> IF t = s THEN w.next ELSE Outdated(t, w)]
    BY <1>1, <1>2, <1>6, <2>0, <2>1 DEF Save, Saved, Unowned
  <2>3. Edited(a, st, claims, w.touched) BY <1>4, <1>6, <2>0, <2>1 DEF Fresh
  <2>4. ClaimsOk(a, claims) BY <2>3 DEF Edited
  <2>5. /\ \A h \in Hash : owner[h] # NoOwner => owner'[h] = owner[h]
        /\ \A c \in claims : c.hash \in Hash /\ owner'[c.hash] = c.by
        /\ \A h \in Hash : \/ owner'[h] = owner[h]
                           \/ \E c \in claims : c.hash = h /\ owner'[h] = c.by
    BY <1>0, <2>2, <2>4, SavedOwners
  <2>6. /\ \A b \in Agent \ {a} : Owned(b)' = Owned(b)
    BY <1>0, <2>2, <2>4, SavedOwned
  <2>7. \A b \in Agent \ {a} : Kept(b)
    BY <1>0, <1>2, <2>2, <2>5, <2>6 DEF Kept, Saved, LedgerOk, MinedHashes
  <2>8. LedgerOk'
    <3>1. agents' \in [Agent -> State]
      <4>1. st \in State BY <2>3 DEF Edited
      <4>2. QED BY <1>0, <2>2, <4>1 DEF Saved, LedgerOk
    <3>2. owner' \in [Hash -> Owner \cup {NoOwner}]
      <4>1. \A c \in claims : c.by \in Owner BY <2>4 DEF ClaimsOk
      <4>2. \A h \in Hash : owner'[h] \in Owner \cup {NoOwner}
        BY <1>0, <2>5, <4>1 DEF LedgerOk
      <4>3. owner' = [h \in Hash |-> owner'[h]] BY <2>2 DEF Saved
      <4>4. QED BY <4>2, <4>3
    <3>3. \A h \in Hash : owner'[h] # NoOwner => chain'[h] # NoTx
      BY <1>0, <1>2, <2>4, <2>5 DEF LedgerOk, ClaimsOk
    <3>4. job' = [t \in Server |-> job'[t]] BY <2>2
    <3>5. QED BY <1>0, <1>2, <1>3, <3>1, <3>2, <3>3, <3>4 DEF LedgerOk, MinedHashes
  <2>9. \A b \in Agent : StoredOk(b)'
    <3>1. StoredOk(a)' BY <1>0, <2>2, <2>3, SavedStored DEF RecordsInv
    <3>2. \A b \in Agent \ {a} : StoredOk(b)' BY <2>7, StoredKept DEF RecordsInv
    <3>3. QED BY <3>1, <3>2
  <2>10. ASSUME NEW t \in Server PROVE JobOk(t)'
    <3>1. CASE t = s
      <4>1. job'[t] = w.next BY <2>2, <3>1
      <4>2. QED BY <1>4, <4>1 DEF JobOk
    <3>2. CASE t # s
      <4>1. job'[t] = Outdated(t, w) BY <2>2, <3>2
      <4>2. QED BY <1>0, <2>1, <2>2, <2>3, <2>7, <4>1, SavedJob DEF RecordsInv
    <3>3. QED BY <3>1, <3>2
  <2>11. QED BY <2>8, <2>9, <2>10 DEF RecordsInv
<1>7. QED BY <1>5, <1>6

-----------------------------------------------------------------------------
(* The edits of proposals.                                                   *)

\* What an edit may make of one proposal without a claim.
EditOk(a, p, q) ==
  /\ q \in Proposal /\ ProposalOk(q) /\ p.reviews \subseteq q.reviews
  /\ agents[a].decisions = {} => p.reviews = q.reviews
  /\ \A h \in Hash : /\ q.sent[h].accounted = p.sent[h].accounted
                     /\ p.sent[h].accounted => q.sent[h].review = p.sent[h].review

LEMMA EditSame ==
  ASSUME NEW a \in Agent, StoredOk(a), NEW j \in Id
  PROVE  EditOk(a, agents[a].proposals[j], agents[a].proposals[j])
<1>1. agents[a].proposals[j] \in Proposal /\ ProposalOk(agents[a].proposals[j])
  BY DEF StoredOk, State, ProposalsOk
<1>2. QED BY <1>1 DEF EditOk

LEMMA ProposalsEdit ==
  ASSUME NEW a \in Agent, StoredOk(a), NEW P, P = [j \in Id |-> P[j]], NEW touched,
         \A j \in Id : /\ EditOk(a, agents[a].proposals[j], P[j])
                       /\ j # touched /\ Waiting(agents[a].proposals[j]) => Waiting(P[j])
  PROVE  Edited(a, [agents[a] EXCEPT !.proposals = P], {}, touched)
<1>1. PICK old : old = agents[a] OBVIOUS
<1>2. PICK st : st = [old EXCEPT !.proposals = P] OBVIOUS
<1>3. /\ old \in State /\ ProposalsOk(old) /\ CountedOk(a, old, {}) /\ EntriesOk(old)
      /\ old.decisions = {} => profile[a] = "archived"
      /\ Few => \A h \in Owned(a) : HasFinal(old, h)
  BY <1>1 DEF StoredOk
<1>4. /\ st.proposals = P /\ st.decisions = old.decisions /\ st.purchases = old.purchases
      /\ st.totals = old.totals /\ st.executions = old.executions
  BY <1>2, <1>3 DEF State
<1>5. \A j \in Id : P[j] \in Proposal /\ ProposalOk(P[j]) BY DEF EditOk
<1>6. P \in [Id -> Proposal] BY <1>5
<1>7. st \in State BY <1>2, <1>3, <1>6 DEF State
<1>8. ProposalsOk(st) BY <1>4, <1>5 DEF ProposalsOk
<1>9. ClaimsOk(a, {}) BY DEF ClaimsOk
<1>10. CountedOk(a, st, {})
  <2>1. \A j \in Id, h \in Hash :
          /\ st.proposals[j].sent[h].accounted = old.proposals[j].sent[h].accounted
          /\ old.proposals[j].sent[h].accounted =>
               st.proposals[j].sent[h].review = old.proposals[j].sent[h].review
    BY <1>1, <1>4 DEF EditOk
  <2>2. CountedIn(st) = CountedIn(old) BY <2>1 DEF CountedIn
  <2>3. st.purchases = Cardinality(CountedIn(st)) BY <1>3, <1>4, <2>2 DEF CountedOk
  <2>4. QED BY <1>3, <2>1, <2>3 DEF CountedOk
<1>11. EntriesOk(st) BY <1>3, <1>4 DEF EntriesOk
<1>12. TotalsOk(a, st, {})
  <2>1. ForExecution({}) = {} BY DEF ForExecution
  <2>2. \A h : HasFinal(old, h) => HasFinal(st, h) BY <1>4 DEF HasFinal
  <2>3. old.totals \in Nat BY <1>3 DEF State
  <2>4. QED BY <1>1, <1>3, <1>4, <2>1, <2>2, <2>3 DEF TotalsOk
<1>13. ReviewsOk(a, st) BY <1>1, <1>3, <1>4 DEF ReviewsOk, EditOk
<1>14. TouchedOk(a, st, touched) BY <1>4 DEF TouchedOk
<1>15. QED BY <1>1, <1>2, <1>7, <1>8, <1>9, <1>10, <1>11, <1>12, <1>13, <1>14 DEF Edited

\* The edit of one proposal.
LEMMA ProposalEdit ==
  ASSUME NEW a \in Agent, StoredOk(a), NEW i \in Id, NEW q, EditOk(a, agents[a].proposals[i], q)
  PROVE  Edited(a, [agents[a] EXCEPT !.proposals[i] = q], {}, i)
<1> DEFINE P == [agents[a].proposals EXCEPT ![i] = q]
<1>1. agents[a].proposals = [j \in Id |-> agents[a].proposals[j]] BY DEF StoredOk, State
<1>2. P = [j \in Id |-> P[j]] /\ P[i] = q /\ \A j \in Id \ {i} : P[j] = agents[a].proposals[j]
  BY <1>1
<1> HIDE DEF P
<1>3. ASSUME NEW j \in Id
      PROVE  /\ EditOk(a, agents[a].proposals[j], P[j])
             /\ j # i /\ Waiting(agents[a].proposals[j]) => Waiting(P[j])
  <2>1. CASE j = i BY <1>2, <2>1
  <2>2. CASE j # i
    <3>1. P[j] = agents[a].proposals[j] BY <1>2, <2>2
    <3>2. QED BY <3>1, EditSame
  <2>3. QED BY <2>1, <2>2
<1>4. Edited(a, [agents[a] EXCEPT !.proposals = P], {}, i)
  BY <1>2, <1>3, ProposalsEdit
<1>5. QED BY <1>4 DEF P

\* A new status for a proposal that sent nothing that counts.
LEMMA NewStatus ==
  ASSUME NEW a, NEW p \in Proposal, ProposalOk(p), p.reviews = {} \/ Waiting(p),
         NEW x \in Status \ {"submitted"}, NEW R \in SUBSET Review, p.reviews \subseteq R,
         x \in Unissued => R = {}, agents[a].decisions = {} => R = p.reviews
  PROVE  EditOk(a, p, [p EXCEPT !.status = x, !.reviews = R])
<1> DEFINE q == [p EXCEPT !.status = x, !.reviews = R]
<1>1. q \in Proposal /\ q.status = x /\ q.reviews = R /\ q.sent = p.sent
  BY DEF Proposal
<1>2. p.reviews = {} => \A h \in Hash : p.sent[h].state = "none" BY DEF ProposalOk
<1>3. ~HasSubmitted(p) /\ ~OwnsPurchase(p)
  <2>1. CASE p.reviews = {} BY <1>2, <2>1 DEF HasSubmitted, OwnsPurchase
  <2>2. CASE Waiting(p) BY <2>2 DEF Waiting, ProposalOk
  <2>3. QED BY <2>1, <2>2
<1> HIDE DEF q
<1>4. ~HasSubmitted(q) /\ ~OwnsPurchase(q) BY <1>1, <1>3 DEF HasSubmitted, OwnsPurchase
<1>5. ProposalOk(q)
  BY <1>1, <1>4 DEF ProposalOk
<1>6. QED BY <1>1, <1>5 DEF EditOk, q

LEMMA ReserveStep ==
  ASSUME RecordsInv, NEW s \in Server, NEW a \in Agent, NEW d \in Decision, Reserve(s, a, d)
  PROVE  RecordsInv'
<1>0. StoredOk(a) BY DEF RecordsInv
<1>1. PICK i \in Id :
        /\ agents[a].proposals[i].status = "absent"
        /\ Stage(s, a, [agents[a] EXCEPT !.proposals = [j \in Id |->
                  IF j = i THEN [Absent EXCEPT !.status = "preparing", !.decision = d]
                  ELSE Expired(a, j)]], {}, 0,
                [step |-> "prepare", agent |-> a, id |-> i, same |-> TRUE])
  BY DEF Reserve
<1> DEFINE N == [Absent EXCEPT !.status = "preparing", !.decision = d]
           P == [j \in Id |-> IF j = i THEN N ELSE Expired(a, j)]
           next == [step |-> "prepare", agent |-> a, id |-> i, same |-> TRUE]
<1>2. \A j \in Id : agents[a].proposals[j] \in Proposal /\ ProposalOk(agents[a].proposals[j])
  BY <1>0 DEF StoredOk, State, ProposalsOk
<1>3. EditOk(a, agents[a].proposals[i], N)
  <2>1. N = [status |-> "preparing", decision |-> d, reviews |-> {},
             sent |-> [h \in Hash |-> Unsent]]
    <3>1. PICK u : u = [h \in Hash |-> Unsent] OBVIOUS
    <3>2. Absent = [status |-> "absent", decision |-> NoReview, reviews |-> {}, sent |-> u]
      BY <3>1 DEF Absent
    <3>3. N = [status |-> "preparing", decision |-> d, reviews |-> {}, sent |-> u]
      <4> DEFINE F == {"status", "decision", "reviews", "sent"}
      <4>1. Absent = [f \in F |-> Absent[f]] /\ Absent.reviews = {} /\ Absent.sent = u BY <3>2
      <4>2. N = [f \in F |-> N[f]] /\ N.status = "preparing" /\ N.decision = d
            /\ N.reviews = {} /\ N.sent = u
        BY <4>1
      <4> HIDE DEF N
      <4>3. QED BY <4>2
    <3>4. QED BY <3>1, <3>3
  <2>2. Unsent \in Sent /\ Unsent.state = "none" /\ Unsent.accounted = FALSE BY DEF Unsent, Sent
  <2> HIDE DEF N
  <2>3. /\ N.status = "preparing" /\ N.reviews = {} /\ \A h \in Hash : N.sent[h] = Unsent
    BY <2>1
  <2>4. N \in Proposal BY <2>1, <2>2 DEF Proposal, Status
  <2>5. ProposalOk(N)
    BY <2>2, <2>3 DEF ProposalOk, HasSubmitted, OwnsPurchase
  <2>6. PICK p : p = agents[a].proposals[i] OBVIOUS
  <2>7. p.reviews = {} /\ \A h \in Hash : p.sent[h].accounted = FALSE
    <3>1. p \in Proposal /\ ProposalOk(p) /\ p.status = "absent" BY <1>1, <1>2, <2>6
    <3>2. p.reviews = {} BY <3>1 DEF ProposalOk, Unissued
    <3>3. \A h \in Hash : p.sent[h].accounted \in BOOLEAN BY <3>1 DEF Proposal, Sent
    <3>4. \A h \in Hash : ~p.sent[h].accounted BY <3>1, <3>2 DEF ProposalOk
    <3>5. QED BY <3>2, <3>3, <3>4
  <2>8. QED BY <2>2, <2>3, <2>4, <2>5, <2>6, <2>7 DEF EditOk
<1>4. ASSUME NEW j \in Id
      PROVE  EditOk(a, agents[a].proposals[j], Expired(a, j))
             /\ (Waiting(agents[a].proposals[j]) => Waiting(Expired(a, j)))
  <2>1. PICK p : p = agents[a].proposals[j] OBVIOUS
  <2>2. p \in Proposal /\ ProposalOk(p) BY <1>2, <2>1
  <2>3. CASE Expired(a, j) = p
    BY <1>0, <2>1, <2>3, EditSame
  <2>4. CASE p.status = "preparing" /\ Expired(a, j) = [p EXCEPT !.status = "preparation-expired"]
    <3>1. p.reviews = {} BY <2>2, <2>4 DEF ProposalOk, Unissued
    <3>2. [p EXCEPT !.status = "preparation-expired"]
            = [p EXCEPT !.status = "preparation-expired", !.reviews = {}]
      BY <2>2, <3>1 DEF Proposal
    <3>3. EditOk(a, p, [p EXCEPT !.status = "preparation-expired", !.reviews = {}])
      BY <2>2, <3>1, NewStatus DEF Status
    <3>4. ~Waiting(p) BY <2>4 DEF Waiting
    <3>5. QED BY <2>1, <2>4, <3>2, <3>3, <3>4
  <2>5. QED BY <2>1, <2>3, <2>4 DEF Expired
<1>5. ~Waiting(agents[a].proposals[i]) BY <1>1 DEF Waiting
<1>6. next \in Preparing BY DEF Preparing
<1> HIDE DEF N, next
<1>7. \A j \in Id : /\ EditOk(a, agents[a].proposals[j], P[j])
                    /\ j # 0 /\ Waiting(agents[a].proposals[j]) => Waiting(P[j])
  <2>1. SUFFICES ASSUME NEW j \in Id
                 PROVE  /\ EditOk(a, agents[a].proposals[j], P[j])
                        /\ Waiting(agents[a].proposals[j]) => Waiting(P[j])
    OBVIOUS
  <2>2. CASE j = i
    <3>1. P[j] = N BY <2>2
    <3>2. QED BY <1>3, <1>5, <2>2, <3>1
  <2>3. CASE j # i
    <3>1. P[j] = Expired(a, j) BY <2>3
    <3>2. QED BY <1>4, <3>1
  <2>4. QED BY <2>2, <2>3
<1>8. P = [j \in Id |-> P[j]] OBVIOUS
<1>9. Stage(s, a, [agents[a] EXCEPT !.proposals = P], {}, 0, next) BY <1>1 DEF N, next
<1> HIDE DEF P
<1>10. Edited(a, [agents[a] EXCEPT !.proposals = P], {}, 0)
  BY <1>0, <1>7, <1>8, ProposalsEdit
<1>11. PICK st : st = [agents[a] EXCEPT !.proposals = P] OBVIOUS
<1>12. Edited(a, st, {}, 0) /\ Stage(s, a, st, {}, 0, next) BY <1>9, <1>10, <1>11
<1>13. QED BY <1>6, <1>12, StageStep

\* An edit of one proposal, staged.
LEMMA ProposalStep ==
  ASSUME RecordsInv, NEW s \in Server, NEW a \in Agent, NEW i \in Id, NEW q,
         EditOk(a, agents[a].proposals[i], q),
         Stage(s, a, [agents[a] EXCEPT !.proposals[i] = q], {}, i, NoJob)
  PROVE  RecordsInv'
<1>1. Edited(a, [agents[a] EXCEPT !.proposals[i] = q], {}, i)
  BY ProposalEdit DEF RecordsInv
<1>2. PICK st : st = [agents[a] EXCEPT !.proposals[i] = q] OBVIOUS
<1>3. Edited(a, st, {}, i) /\ Stage(s, a, st, {}, i, NoJob) BY <1>1, <1>2
<1>4. QED BY <1>3, StageStep

LEMMA ActivateStep ==
  ASSUME RecordsInv, NEW s \in Server, NEW r \in Review \cup {NoReview}, Activate(s, r)
  PROVE  RecordsInv'
<1>1. PICK a, i : a = job[s].agent /\ i = job[s].id OBVIOUS
<1>2. a \in Agent /\ i \in Id
  <2>1. job[s].step = "prepare" /\ JobOk(s) BY DEF Activate, RecordsInv
  <2>2. job[s] # NoJob /\ job[s] \notin Refreshing /\ job[s] \notin Clearing
    BY <2>1 DEF NoJob, Refreshing, Clearing
  <2>3. job[s] \in Preparing BY <2>1, <2>2 DEF JobOk
  <2>4. QED BY <1>1, <2>3 DEF Preparing
<1>3. StoredOk(a) BY <1>2 DEF RecordsInv
<1>4. PICK p : p = agents[a].proposals[i] OBVIOUS
<1>5. p \in Proposal /\ ProposalOk(p) BY <1>2, <1>3, <1>4 DEF StoredOk, State, ProposalsOk
<1>6. PICK q : /\ \/ q = p
                  \/ p.status = "preparing" /\ q = [p EXCEPT !.status = "preparation-failed"]
                  \/ p.status = "preparing" /\ q = [p EXCEPT !.status = "preparation-expired"]
                  \/ /\ p.status = "preparing" /\ Issuable(a, r)
                     /\ q = [p EXCEPT !.status = "awaiting-approval", !.reviews = {r}]
               /\ Stage(s, a, [agents[a] EXCEPT !.proposals[i] = q], {}, i, NoJob)
  <2> DEFINE q == IF p.status # "preparing" \/ ~job[s].same THEN p
             ELSE IF ~Issuable(a, r) THEN [p EXCEPT !.status = "preparation-failed"]
             ELSE IF <<a, i>> \in lapsed THEN [p EXCEPT !.status = "preparation-expired"]
             ELSE [p EXCEPT !.status = "awaiting-approval", !.reviews = {r}]
  <2>1. Stage(s, a, [agents[a] EXCEPT !.proposals[i] = q], {}, i, NoJob)
    BY <1>1, <1>4 DEF Activate
  <2>2. \/ q = p
        \/ p.status = "preparing" /\ q = [p EXCEPT !.status = "preparation-failed"]
        \/ p.status = "preparing" /\ q = [p EXCEPT !.status = "preparation-expired"]
        \/ /\ p.status = "preparing" /\ Issuable(a, r)
           /\ q = [p EXCEPT !.status = "awaiting-approval", !.reviews = {r}]
    OBVIOUS
  <2> HIDE DEF q
  <2>3. QED BY <2>1, <2>2
<1>7. EditOk(a, p, q)
  <2>1. CASE q = p BY <1>2, <1>3, <1>4, <2>1, EditSame
  <2>2. ASSUME p.status = "preparing", NEW x \in {"preparation-failed", "preparation-expired"},
               q = [p EXCEPT !.status = x]
        PROVE  EditOk(a, p, q)
    <3>1. p.reviews = {} BY <1>5, <2>2 DEF ProposalOk, Unissued
    <3>2. q = [p EXCEPT !.status = x, !.reviews = {}] BY <1>5, <2>2, <3>1 DEF Proposal
    <3>3. x \in Status \ {"submitted"} BY DEF Status
    <3>4. EditOk(a, p, [p EXCEPT !.status = x, !.reviews = {}])
      BY <1>5, <3>1, <3>3, NewStatus
    <3>5. QED BY <3>2, <3>4
  <2>3. CASE /\ p.status = "preparing" /\ Issuable(a, r)
             /\ q = [p EXCEPT !.status = "awaiting-approval", !.reviews = {r}]
    <3>1. p.reviews = {} BY <1>5, <2>3 DEF ProposalOk, Unissued
    <3>2. {r} \in SUBSET Review BY <2>3 DEF Issuable
    <3>3. agents[a].decisions # {} BY <1>3, <2>3 DEF Issuable, StoredOk
    <3>4. "awaiting-approval" \in Status \ {"submitted"} /\ "awaiting-approval" \notin Unissued
      BY DEF Status, Unissued
    <3>5. EditOk(a, p, [p EXCEPT !.status = "awaiting-approval", !.reviews = {r}])
      BY <1>5, <3>1, <3>2, <3>3, <3>4, NewStatus
    <3>6. QED BY <2>3, <3>5
  <2>4. QED BY <1>6, <2>1, <2>2, <2>3
<1>8. QED BY <1>2, <1>4, <1>6, <1>7, ProposalStep

LEMMA RefreshStep ==
  ASSUME RecordsInv, NEW s \in Server, NEW r \in Review, Refresh(s, r)
  PROVE  RecordsInv'
<1>1. PICK j : j = job[s] OBVIOUS
<1>2. PICK a, i : a = j.agent /\ i = j.id OBVIOUS
<1>3. a \in Agent /\ i \in Id /\ Waiting(agents[a].proposals[i])
  <2>1. j.step = "refresh" /\ j.same /\ JobOk(s) BY <1>1 DEF Refresh, Unchanged, RecordsInv
  <2>2. j # NoJob /\ j \notin Preparing /\ j \notin Clearing /\ j.step # "save"
    BY <2>1 DEF NoJob, Preparing, Clearing
  <2>3. j \in Refreshing /\ (j.same => Waiting(agents[j.agent].proposals[j.id]))
    BY <1>1, <2>1, <2>2 DEF JobOk
  <2>4. QED BY <1>2, <2>1, <2>3 DEF Refreshing
<1>4. StoredOk(a) BY <1>3 DEF RecordsInv
<1>5. PICK p : p = agents[a].proposals[i] OBVIOUS
<1>6. p \in Proposal /\ ProposalOk(p) BY <1>3, <1>4, <1>5 DEF StoredOk, State, ProposalsOk
<1> DEFINE q == [p EXCEPT !.status = "awaiting-approval", !.reviews = p.reviews \cup {r}]
<1>7. EditOk(a, p, q)
  <2>1. agents[a].decisions # {} BY <1>1, <1>2, <1>4 DEF Refresh, StoredOk
  <2>2. "awaiting-approval" \in Status \ {"submitted"} /\ "awaiting-approval" \notin Unissued
    BY DEF Status, Unissued
  <2>3. p.reviews \cup {r} \in SUBSET Review BY <1>6 DEF Proposal
  <2>4. QED BY <1>3, <1>5, <1>6, <2>1, <2>2, <2>3, NewStatus
<1>8. Stage(s, a, [agents[a] EXCEPT !.proposals[i] = q], {}, i, NoJob)
  BY <1>1, <1>2, <1>5 DEF Refresh
<1> HIDE DEF q
<1>9. QED BY <1>3, <1>5, <1>7, <1>8, ProposalStep

LEMMA RejectStep ==
  ASSUME RecordsInv, NEW s \in Server, NEW a \in Agent, NEW i \in Id, Reject(s, a, i)
  PROVE  RecordsInv'
<1>1. StoredOk(a) BY DEF RecordsInv
<1>2. PICK p : p = agents[a].proposals[i] OBVIOUS
<1>3. p \in Proposal /\ ProposalOk(p) BY <1>1, <1>2 DEF StoredOk, State, ProposalsOk
<1>4. Waiting(p) BY <1>2 DEF Reject
<1> DEFINE q == [p EXCEPT !.status = "rejected"]
<1>5. EditOk(a, p, q)
  <2>1. "rejected" \in Status \ {"submitted"} /\ "rejected" \notin Unissued
    BY DEF Status, Unissued
  <2>2. p.reviews \in SUBSET Review BY <1>3 DEF Proposal
  <2>3. EditOk(a, p, [p EXCEPT !.status = "rejected", !.reviews = p.reviews])
    BY <1>3, <1>4, <2>1, <2>2, NewStatus
  <2>4. q = [p EXCEPT !.status = "rejected", !.reviews = p.reviews] BY <1>3 DEF Proposal
  <2>5. QED BY <2>3, <2>4
<1>6. Stage(s, a, [agents[a] EXCEPT !.proposals[i] = q], {}, i, NoJob)
  BY <1>2 DEF Reject
<1> HIDE DEF q
<1>7. QED BY <1>2, <1>5, <1>6, ProposalStep

LEMMA SubmitStep ==
  ASSUME RecordsInv, NEW s \in Server, NEW a \in Agent, NEW i \in Id, NEW h \in Hash,
         NEW r \in Review, Submit(s, a, i, h, r)
  PROVE  RecordsInv'
<1>1. StoredOk(a) BY DEF RecordsInv
<1>2. PICK p : p = agents[a].proposals[i] OBVIOUS
<1>3. p \in Proposal /\ ProposalOk(p) BY <1>1, <1>2 DEF StoredOk, State, ProposalsOk
<1> DEFINE x == [Unsent EXCEPT !.state = "submitted", !.review = r, !.before = p.status]
           q == [p EXCEPT !.status = "submitted", !.sent[h] = x]
<1>4. /\ p.sent[h].state = "none" /\ ~HasSubmitted(p) /\ r \in p.reviews
      /\ Stage(s, a, [agents[a] EXCEPT !.proposals[i] = q], {}, i, NoJob)
  BY <1>2 DEF Submit
<1>5. x = [state |-> "submitted", review |-> r, before |-> p.status,
           elsewhere |-> FALSE, accounted |-> FALSE]
  <2> DEFINE F == {"state", "review", "before", "elsewhere", "accounted"}
  <2>1. Unsent = [f \in F |-> Unsent[f]] /\ Unsent.elsewhere = FALSE /\ Unsent.accounted = FALSE
    BY DEF Unsent
  <2>2. /\ x = [f \in F |-> x[f]] /\ x.state = "submitted" /\ x.review = r /\ x.before = p.status
        /\ x.elsewhere = FALSE /\ x.accounted = FALSE
    BY <2>1
  <2> HIDE DEF x
  <2>3. QED BY <2>2
<1>6. p.status \in Issued
  BY <1>3, <1>4 DEF ProposalOk, Issued, Proposal
<1> HIDE DEF x
<1>7. x \in Sent /\ x.state = "submitted" /\ x.review = r /\ x.before = p.status
      /\ x.accounted = FALSE
  BY <1>5, <1>6 DEF Sent, Issued
<1>8. /\ q \in Proposal /\ q.status = "submitted" /\ q.reviews = p.reviews
      /\ q.sent[h] = x /\ \A g \in Hash \ {h} : q.sent[g] = p.sent[g]
  BY <1>3, <1>7 DEF Proposal, Status
<1> HIDE DEF q
<1>9. ProposalOk(q)
  <2>1. \A g \in Hash : q.sent[g].state # "none" =>
          q.sent[g].review \in q.reviews /\ q.sent[g].before \in Issued
    BY <1>3, <1>4, <1>6, <1>7, <1>8 DEF ProposalOk
  <2>2. \A g \in Hash : q.sent[g].accounted => q.sent[g].state = "confirmed"
    BY <1>3, <1>7, <1>8 DEF ProposalOk
  <2>3. \A g \in Hash : q.sent[g].state = "submitted" => g = h
    BY <1>4, <1>8 DEF HasSubmitted
  <2>4. HasSubmitted(q) BY <1>7, <1>8 DEF HasSubmitted
  <2>5. q.status \notin Unissued BY <1>8 DEF Unissued
  <2>6. QED BY <1>8, <2>1, <2>2, <2>3, <2>4, <2>5 DEF ProposalOk
<1>10. EditOk(a, p, q)
  <2>1. p.sent[h].accounted = FALSE
    <3>1. p.sent[h].accounted \in BOOLEAN BY <1>3 DEF Proposal, Sent
    <3>2. ~p.sent[h].accounted BY <1>3, <1>4 DEF ProposalOk
    <3>3. QED BY <3>1, <3>2
  <2>2. \A g \in Hash : /\ q.sent[g].accounted = p.sent[g].accounted
                        /\ p.sent[g].accounted => q.sent[g].review = p.sent[g].review
    BY <1>7, <1>8, <2>1
  <2>3. QED BY <1>8, <1>9, <2>2 DEF EditOk
<1>11. QED BY <1>2, <1>4, <1>10, ProposalStep

-----------------------------------------------------------------------------
(* The check of a tracked transaction.                                       *)

\* What the receipt makes of the proposal, its count and its claim.
LEMMA CheckStep ==
  ASSUME RecordsInv, NEW s \in Server, NEW a \in Agent, NEW i \in Id, NEW h \in Hash,
         Check(s, a, i, h)
  PROVE  RecordsInv'
<1>0. StoredOk(a) /\ LedgerOk BY DEF RecordsInv
<1>1. PICK old : old = agents[a] OBVIOUS
<1>2. PICK p : p = old.proposals[i] OBVIOUS
<1>3. PICK x : x = p.sent[h] OBVIOUS
<1>4. PICK v : v = Verdict(h, x.review) OBVIOUS
<1>5. PICK c : c = Claim(h, a, i, x.review) OBVIOUS
<1>6. PICK other : other = (v \in {"confirmed", "reverted"} /\ Elsewhere(h, c.by)) OBVIOUS
<1>7. PICK counts : counts = (v = "confirmed" /\ x.review \in Purchase /\ ~other) OBVIOUS
<1>8. PICK done : done = [x EXCEPT !.state = v, !.elsewhere = other, !.accounted = counts] OBVIOUS
<1>9. PICK claims : claims = IF v \in {"confirmed", "reverted"} /\ ~other THEN {c} ELSE {} OBVIOUS
<1>10. PICK m : m = [p EXCEPT !.sent[h] = done] OBVIOUS
<1>11. PICK q : q = [m EXCEPT !.status = Settled(m, done)] OBVIOUS
<1>12. PICK st : st = [old EXCEPT !.proposals[i] = q,
                                  !.purchases = IF counts THEN old.purchases + 1 ELSE old.purchases]
  OBVIOUS
<1>13. x.state = "submitted" /\ chain[h] # NoTx /\ Stage(s, a, st, claims, i, NoJob)
  BY <1>1, <1>2, <1>3, <1>4, <1>5, <1>6, <1>7, <1>8, <1>9, <1>10, <1>11, <1>12 DEF Check
<1>14. /\ old \in State /\ ProposalsOk(old) /\ CountedOk(a, old, {}) /\ EntriesOk(old)
       /\ old.decisions = {} => profile[a] = "archived"
       /\ Few => \A g \in Owned(a) : HasFinal(old, g)
  BY <1>0, <1>1 DEF StoredOk
<1>15. p \in Proposal /\ ProposalOk(p) /\ x \in Sent
  BY <1>2, <1>3, <1>14 DEF State, ProposalsOk, Proposal
<1>16. x.review \in p.reviews /\ x.review \in Review /\ x.before \in Issued /\ x.accounted = FALSE
  <2>1. x.accounted \in BOOLEAN BY <1>15 DEF Sent
  <2>2. ~x.accounted BY <1>3, <1>13, <1>15 DEF ProposalOk
  <2>3. x.review \in p.reviews /\ x.before \in Issued
    BY <1>3, <1>13, <1>15 DEF ProposalOk
  <2>4. p.reviews \subseteq Review BY <1>15 DEF Proposal
  <2>5. QED BY <2>1, <2>2, <2>3, <2>4
<1>17. v \in {"confirmed", "reverted", "mismatch"} BY <1>4 DEF Verdict
<1>18. other \in BOOLEAN /\ counts \in BOOLEAN BY <1>6, <1>7
<1>19. /\ done \in Sent /\ done.state = v /\ done.review = x.review /\ done.before = x.before
       /\ done.elsewhere = other /\ done.accounted = counts
  BY <1>8, <1>15, <1>17, <1>18 DEF Sent
<1>20. /\ m \in Proposal /\ m.reviews = p.reviews
       /\ m.sent[h] = done /\ \A g \in Hash \ {h} : m.sent[g] = p.sent[g]
  BY <1>10, <1>15, <1>19 DEF Proposal
<1>21. Settled(m, done) \in Status \ ({"submitted"} \cup Unissued)
       /\ (OwnsPurchase(m) => Settled(m, done) = "confirmed")
  BY <1>16, <1>19 DEF Settled, Issued, Status, Unissued
<1>22. /\ q \in Proposal /\ q.reviews = p.reviews /\ q.status = Settled(m, done) /\ q.sent = m.sent
       /\ q.sent[h] = done /\ \A g \in Hash \ {h} : q.sent[g] = p.sent[g]
  <2>1. PICK y : y = Settled(m, done) OBVIOUS
  <2>2. y \in Status BY <1>21, <2>1
  <2>3. q = [m EXCEPT !.status = y] BY <1>11, <2>1
  <2>4. q \in Proposal /\ q.reviews = m.reviews /\ q.status = y /\ q.sent = m.sent
    BY <1>20, <2>2, <2>3 DEF Proposal
  <2>5. QED BY <1>20, <2>1, <2>4
<1>23. ProposalOk(q)
  <2>1. \A g \in Hash : q.sent[g].state # "none" =>
          q.sent[g].review \in q.reviews /\ q.sent[g].before \in Issued
    BY <1>15, <1>16, <1>19, <1>22 DEF ProposalOk
  <2>2. \A g \in Hash : q.sent[g].accounted => q.sent[g].state = "confirmed"
    BY <1>7, <1>15, <1>19, <1>22 DEF ProposalOk
  <2>3. \A g \in Hash : q.sent[g].state # "submitted"
    BY <1>3, <1>13, <1>15, <1>17, <1>19, <1>22 DEF ProposalOk
  <2>4. ~HasSubmitted(q) /\ q.status # "submitted" /\ q.status \notin Unissued
    BY <1>21, <1>22, <2>3 DEF HasSubmitted
  <2>5. OwnsPurchase(q) => q.status = "confirmed"
    BY <1>21, <1>22 DEF OwnsPurchase
  <2>6. QED BY <2>1, <2>2, <2>3, <2>4, <2>5 DEF ProposalOk
<1>24. /\ st.proposals[i] = q /\ \A j \in Id \ {i} : st.proposals[j] = old.proposals[j]
       /\ st.purchases = (IF counts THEN old.purchases + 1 ELSE old.purchases)
       /\ st.decisions = old.decisions /\ st.totals = old.totals
       /\ st.executions = old.executions /\ st \in State
  <2>1. PICK n : n = IF counts THEN old.purchases + 1 ELSE old.purchases OBVIOUS
  <2>2. old.purchases \in Nat BY <1>14 DEF State
  <2>3. n \in Nat BY <2>1, <2>2
  <2>4. PICK P : P = [old.proposals EXCEPT ![i] = q] OBVIOUS
  <2>5. P \in [Id -> Proposal] /\ P[i] = q /\ \A j \in Id \ {i} : P[j] = old.proposals[j]
    BY <1>14, <1>22, <2>4 DEF State
  <2>6. st = [old EXCEPT !.proposals = P, !.purchases = n] BY <1>12, <2>1, <2>4
  <2>7. /\ st \in State /\ st.proposals = P /\ st.purchases = n /\ st.decisions = old.decisions
        /\ st.totals = old.totals /\ st.executions = old.executions
    BY <1>14, <2>3, <2>5, <2>6 DEF State
  <2>8. QED BY <2>1, <2>5, <2>7
<1>25. ProposalsOk(st) BY <1>14, <1>23, <1>24 DEF ProposalsOk
<1>26. c.by \in Owner /\ c.hash = h /\ c.by.agent = a /\ c.by.record # Execution
       /\ c \in [hash : Hash, by : Owner]
  BY <1>5, <1>16 DEF Claim, Owner, Id, Execution
<1>27. ClaimsOk(a, claims) BY <1>9, <1>13, <1>26 DEF ClaimsOk
<1>28. ForExecution(claims) = {} BY <1>9, <1>26 DEF ForExecution
<1>29. counts => /\ c \in claims /\ chain[h].ok /\ chain[h].tx = x.review
  BY <1>4, <1>7, <1>9 DEF Verdict
<1>30. \A j \in Id, g \in Hash :
         \/ st.proposals[j].sent[g] = old.proposals[j].sent[g]
         \/ j = i /\ g = h
  BY <1>2, <1>22, <1>24
<1>31. st.proposals[i].sent[h] = done /\ old.proposals[i].sent[h] = x BY <1>2, <1>3, <1>22, <1>24
<1>32. CountedOk(a, st, claims)
  <2>1. st.purchases = Cardinality(CountedIn(st))
    <3> DEFINE C == CountedIn(old)
    <3>1. IsFiniteSet(C)
      <4>1. C \subseteq Id \X MinedHashes
        BY <1>14 DEF CountedOk, CountedIn, MinedHashes
      <4>2. IsFiniteSet(Id) BY FS_Interval, RecordsAssumption DEF Id
      <4>3. IsFiniteSet(Id \X MinedHashes) BY <1>0, <4>2, FS_Product DEF LedgerOk
      <4>4. QED BY <4>1, <4>3, FS_Subset
    <3>2. <<i, h>> \notin C BY <1>16, <1>31 DEF CountedIn
    <3>3. CountedIn(st) = IF counts THEN C \cup {<<i, h>>} ELSE C
      <4>1. \A z \in Id \X Hash : z # <<i, h>> =>
              st.proposals[z[1]].sent[z[2]].accounted = old.proposals[z[1]].sent[z[2]].accounted
        BY <1>30
      <4>2. st.proposals[i].sent[h].accounted = counts BY <1>19, <1>31
      <4>3. \A z \in Id \X Hash : z # <<i, h>> => (z \in CountedIn(st) <=> z \in C)
        BY <4>1 DEF CountedIn
      <4>4. <<i, h>> \in CountedIn(st) <=> counts BY <4>2 DEF CountedIn
      <4>5. CountedIn(st) \subseteq Id \X Hash /\ C \subseteq Id \X Hash BY DEF CountedIn
      <4> HIDE DEF C
      <4>6. CASE counts BY <3>2, <4>3, <4>4, <4>5, <4>6
      <4>7. CASE ~counts
        <5>1. <<i, h>> \notin CountedIn(st) BY <4>4, <4>7
        <5>2. CountedIn(st) = C BY <3>2, <4>3, <4>5, <5>1
        <5>3. QED BY <4>7, <5>2
      <4>8. QED BY <1>18, <4>6, <4>7
    <3>4. old.purchases = Cardinality(C) BY <1>14 DEF CountedOk
    <3>5. Cardinality(C \cup {<<i, h>>}) = Cardinality(C) + 1
      <4> HIDE DEF C
      <4>1. QED BY <3>1, <3>2, FS_AddElement
    <3>6. QED BY <1>18, <1>24, <3>3, <3>4, <3>5
  <2>2. ASSUME NEW j \in Id, NEW g \in Hash, st.proposals[j].sent[g].accounted
        PROVE  LET r == st.proposals[j].sent[g].review
                   d == Claim(g, a, j, r) IN
               /\ chain[g] # NoTx /\ chain[g].ok /\ chain[g].tx = r
               /\ owner[g] = d.by \/ d \in claims
    <3>1. CASE j = i /\ g = h
      <4>1. counts BY <1>19, <1>31, <2>2, <3>1
      <4>2. st.proposals[j].sent[g].review = x.review BY <1>19, <1>31, <3>1
      <4>3. QED BY <1>5, <1>13, <1>29, <3>1, <4>1, <4>2
    <3>2. CASE st.proposals[j].sent[g] = old.proposals[j].sent[g]
      BY <1>14, <2>2, <3>2 DEF CountedOk
    <3>3. QED BY <1>30, <3>1, <3>2
  <2>3. QED BY <2>1, <2>2 DEF CountedOk
<1>33. EntriesOk(st) BY <1>14, <1>24 DEF EntriesOk
<1>34. TotalsOk(a, st, claims)
  <2>1. old.totals \in Nat BY <1>14 DEF State
  <2>2. \A g : HasFinal(old, g) => HasFinal(st, g) BY <1>24 DEF HasFinal
  <2>3. QED BY <1>1, <1>14, <1>24, <1>28, <2>1, <2>2 DEF TotalsOk
<1>35. ReviewsOk(a, st)
  <2>1. \A j \in Id : st.proposals[j].reviews = old.proposals[j].reviews
    BY <1>2, <1>22, <1>24
  <2>2. QED BY <1>1, <1>14, <1>24, <2>1 DEF ReviewsOk
<1>36. TouchedOk(a, st, i) BY <1>1, <1>24 DEF TouchedOk
<1>37. Edited(a, st, claims, i)
  BY <1>24, <1>25, <1>27, <1>32, <1>33, <1>34, <1>35, <1>36 DEF Edited
<1>38. QED BY <1>13, <1>37, StageStep

-----------------------------------------------------------------------------
(* The edits of executions, and the feed.                                    *)

LEMMA ExecutionsEdit ==
  ASSUME NEW a \in Agent, StoredOk(a), NEW st \in State, NEW claims, ClaimsOk(a, claims),
         st.proposals = agents[a].proposals, st.purchases = agents[a].purchases,
         \/ st.decisions = agents[a].decisions
         \/ profile[a] = "archived",
         EntriesOk(st), TotalsOk(a, st, claims)
  PROVE  Edited(a, st, claims, 0)
<1>1. PICK old : old = agents[a] OBVIOUS
<1>2. ProposalsOk(old) /\ CountedOk(a, old, {}) /\ (old.decisions = {} => profile[a] = "archived")
  BY <1>1 DEF StoredOk
<1>3. ProposalsOk(st) BY <1>1, <1>2 DEF ProposalsOk
<1>4. CountedOk(a, st, claims)
  <2>1. CountedIn(st) = CountedIn(old) BY <1>1 DEF CountedIn
  <2>2. st.purchases = Cardinality(CountedIn(st)) BY <1>1, <1>2, <2>1 DEF CountedOk
  <2>3. QED BY <1>1, <1>2, <2>2 DEF CountedOk
<1>5. ReviewsOk(a, st) BY <1>1, <1>2 DEF ReviewsOk
<1>6. TouchedOk(a, st, 0) BY <1>1 DEF TouchedOk
<1>7. QED BY <1>3, <1>4, <1>5, <1>6 DEF Edited

LEMMA ReportStep ==
  ASSUME RecordsInv, NEW s \in Server, NEW a \in Agent, NEW h \in Hash, NEW r \in Review,
         Report(s, a, h, r)
  PROVE  RecordsInv'
<1>0. StoredOk(a) BY DEF RecordsInv
<1>1. PICK old : old = agents[a] OBVIOUS
<1>2. PICK e : e = [hash |-> h, intent |-> r, status |-> "recorded"] OBVIOUS
<1>3. PICK E : E = <<e>> \o old.executions OBVIOUS
<1>4. PICK st : st = [old EXCEPT !.executions = E] OBVIOUS
<1>5. ~Reported(a, h) /\ Stage(s, a, st, {}, 0, NoJob)
  BY <1>1, <1>2, <1>3, <1>4 DEF Report
<1>6. /\ old \in State /\ EntriesOk(old) /\ (Few => \A g \in Owned(a) : HasFinal(old, g))
  BY <1>0, <1>1 DEF StoredOk
<1> DEFINE D == old.executions  n == Len(D)
<1>7. /\ D \in Seq(Entry) /\ n \in Nat /\ DOMAIN D = 1..n
  BY <1>6, LenProperties DEF State
<1>8. e \in Entry /\ e.hash = h /\ e.status \notin FinalStatus BY <1>2 DEF Entry, FinalStatus
<1>9. /\ E \in Seq(Entry) /\ DOMAIN E = 1..n + 1 /\ E[1] = e
      /\ \A k \in 2..n + 1 : E[k] = D[k - 1]
  <2>1. <<e>> \in Seq(Entry) /\ Len(<<e>>) = 1 /\ <<e>>[1] = e BY <1>8
  <2>2. E \in Seq(Entry) /\ Len(E) = 1 + n
        /\ \A k \in 1..1 + n : E[k] = IF k <= 1 THEN <<e>>[k] ELSE D[k - 1]
    BY <1>3, <1>7, <2>1, ConcatProperties
  <2>3. DOMAIN E = 1..n + 1 BY <1>7, <2>2, LenProperties
  <2>4. \A k \in 2..n + 1 : k \in 1..1 + n /\ ~(k <= 1) BY <1>7
  <2>5. 1 \in 1..1 + n BY <1>7
  <2>6. QED BY <2>1, <2>2, <2>3, <2>4, <2>5
<1>10. /\ st \in State /\ st.executions = E /\ st.proposals = old.proposals
       /\ st.purchases = old.purchases /\ st.totals = old.totals /\ st.decisions = old.decisions
  BY <1>4, <1>6, <1>9 DEF State
<1>11. \A k \in DOMAIN D : D[k].hash # h BY <1>1, <1>5 DEF Reported
<1>12. \A k \in DOMAIN E : k = 1 \/ (k \in 2..n + 1 /\ k - 1 \in DOMAIN D /\ E[k] = D[k - 1])
  BY <1>7, <1>9
<1>13. EntriesOk(st)
  <2>1. ASSUME NEW k \in DOMAIN E, NEW m \in DOMAIN E, E[k].hash = E[m].hash PROVE k = m
    <3>0. k \in Int /\ m \in Int BY <1>9
    <3>1. CASE k = 1 BY <1>8, <1>9, <1>11, <1>12, <2>1, <3>1
    <3>2. CASE m = 1 BY <1>8, <1>9, <1>11, <1>12, <2>1, <3>2
    <3>3. CASE k # 1 /\ m # 1
      <4>1. D[k - 1].hash = D[m - 1].hash /\ k - 1 \in DOMAIN D /\ m - 1 \in DOMAIN D
        BY <1>12, <2>1, <3>3
      <4>2. k - 1 = m - 1 BY <1>6, <4>1 DEF EntriesOk
      <4>3. QED BY <3>0, <4>2
    <3>4. QED BY <3>1, <3>2, <3>3
  <2>2. ASSUME NEW k \in DOMAIN E, E[k].status \in FinalStatus PROVE chain[E[k].hash] # NoTx
    <3>1. k # 1 BY <1>8, <1>9, <2>2
    <3>2. QED BY <1>6, <1>12, <2>2, <3>1 DEF EntriesOk
  <2>3. QED BY <1>10, <2>1, <2>2 DEF EntriesOk
<1>14. ASSUME NEW g, HasFinal(old, g) PROVE HasFinal(st, g)
  <2>1. PICK k \in DOMAIN D : D[k].hash = g /\ D[k].status \in FinalStatus
    BY <1>14 DEF HasFinal
  <2>2. k + 1 \in DOMAIN E /\ k + 1 \in 2..n + 1 /\ (k + 1) - 1 = k BY <1>7, <1>9
  <2>3. E[k + 1] = D[k] BY <1>9, <2>2
  <2>4. QED BY <1>10, <2>1, <2>2, <2>3 DEF HasFinal
<1>15. TotalsOk(a, st, {})
  <2>1. ForExecution({}) = {} BY DEF ForExecution
  <2>2. old.totals \in Nat BY <1>6 DEF State
  <2>3. QED BY <1>1, <1>6, <1>10, <1>14, <2>1, <2>2 DEF TotalsOk
<1>16. ClaimsOk(a, {}) BY DEF ClaimsOk
<1>17. Edited(a, st, {}, 0)
  BY <1>0, <1>1, <1>10, <1>13, <1>15, <1>16, ExecutionsEdit
<1>18. QED BY <1>5, <1>17, StageStep

LEMMA CheckExecutionStep ==
  ASSUME RecordsInv, NEW s \in Server, NEW a \in Agent, NEW k \in DOMAIN agents[a].executions,
         CheckExecution(s, a, k)
  PROVE  RecordsInv'
<1>0. StoredOk(a) BY DEF RecordsInv
<1>1. PICK old : old = agents[a] OBVIOUS
<1>2. PICK D : D = old.executions OBVIOUS
<1>3. PICK e, h : e = D[k] /\ h = e.hash OBVIOUS
<1>4. PICK v : v = IF chain[h].wallet # a THEN "mismatch" ELSE Verdict(h, e.intent) OBVIOUS
<1>5. PICK c : c = Claim(h, a, Execution, e.intent) OBVIOUS
<1>6. PICK status : status = IF v \in {"confirmed", "reverted"} /\ Elsewhere(h, c.by)
                             THEN "attributed-elsewhere" ELSE v
  OBVIOUS
<1>7. PICK owns : owns = (status \in {"confirmed", "reverted"}) OBVIOUS
<1>8. PICK claims : claims = IF owns THEN {c} ELSE {} OBVIOUS
<1>9. PICK n : n = IF owns THEN old.totals + 1 ELSE old.totals OBVIOUS
<1>10. PICK E : E = [D EXCEPT ![k].status = status] OBVIOUS
<1>11. PICK st : st = [old EXCEPT !.executions = E, !.totals = n] OBVIOUS
<1>12. Countable(e) /\ chain[h] # NoTx /\ Stage(s, a, st, claims, 0, NoJob)
  BY <1>1, <1>2, <1>3, <1>4, <1>5, <1>6, <1>7, <1>8, <1>9, <1>10, <1>11 DEF CheckExecution
<1>13. /\ old \in State /\ EntriesOk(old) /\ (Few => \A g \in Owned(a) : HasFinal(old, g))
  BY <1>0, <1>1 DEF StoredOk
<1>14. /\ D \in Seq(Entry) /\ k \in DOMAIN D /\ e \in Entry
       /\ \A m \in DOMAIN D : D[m] \in Entry
  BY <1>1, <1>2, <1>3, <1>13, ElementOfSeq, LenProperties DEF State
<1>15. h \in Hash /\ e.intent \in Review BY <1>3, <1>14 DEF Entry
<1>16. v \in {"confirmed", "reverted", "mismatch"} BY <1>4 DEF Verdict
<1>17. status \in FinalStatus BY <1>6, <1>16 DEF FinalStatus
<1>18. /\ DOMAIN E = DOMAIN D /\ E[k].status = status /\ E[k].hash = h
       /\ E[k] \in Entry /\ \A m \in DOMAIN D \ {k} : E[m] = D[m]
  BY <1>3, <1>10, <1>14, <1>17 DEF Entry, FinalStatus
<1>19. E \in Seq(Entry)
  <2>1. \A m \in DOMAIN D : E[m] \in Entry BY <1>14, <1>18
  <2>2. Len(D) \in Nat /\ DOMAIN D = 1..Len(D) BY <1>14, LenProperties
  <2>3. E = [m \in 1..Len(D) |-> E[m]] BY <1>10, <2>2
  <2>4. QED BY <2>1, <2>2, <2>3, SeqDef
<1>20. owns \in BOOLEAN /\ old.totals \in Nat BY <1>7, <1>13 DEF State
<1>21. n \in Nat BY <1>9, <1>20
<1>22. /\ st \in State /\ st.executions = E /\ st.proposals = old.proposals
       /\ st.purchases = old.purchases /\ st.totals = n /\ st.decisions = old.decisions
  BY <1>11, <1>13, <1>19, <1>21 DEF State
<1>23. \A m \in DOMAIN D : E[m].hash = D[m].hash BY <1>3, <1>18
<1>24. EntriesOk(st)
  <2>1. \A m, l \in DOMAIN E : E[m].hash = E[l].hash => m = l
    BY <1>2, <1>13, <1>18, <1>23 DEF EntriesOk
  <2>2. ASSUME NEW m \in DOMAIN E, E[m].status \in FinalStatus PROVE chain[E[m].hash] # NoTx
    <3>1. CASE m = k BY <1>12, <1>18, <3>1
    <3>2. CASE m # k BY <1>2, <1>13, <1>18, <2>2, <3>2 DEF EntriesOk
    <3>3. QED BY <3>1, <3>2
  <2>3. QED BY <1>22, <2>1, <2>2 DEF EntriesOk
<1>25. HasFinal(st, h) BY <1>14, <1>17, <1>18, <1>22 DEF HasFinal
<1>26. ASSUME NEW g, HasFinal(old, g) PROVE HasFinal(st, g)
  <2>1. PICK m \in DOMAIN D : D[m].hash = g /\ D[m].status \in FinalStatus
    BY <1>2, <1>26 DEF HasFinal
  <2>2. E[m].hash = g /\ E[m].status \in FinalStatus BY <1>17, <1>18, <1>23, <2>1
  <2>3. QED BY <1>18, <1>22, <2>1, <2>2 DEF HasFinal
<1>27. ~HasFinal(old, h)
  BY <1>2, <1>3, <1>12, <1>13, <1>14 DEF HasFinal, EntriesOk, Countable
<1>28. c.by \in Owner /\ c.hash = h /\ c.by.agent = a /\ c.by.record = Execution
       /\ c \in [hash : Hash, by : Owner]
  BY <1>5, <1>15 DEF Claim, Owner
<1>29. ClaimsOk(a, claims) BY <1>8, <1>12, <1>28 DEF ClaimsOk
<1>30. ForExecution(claims) = IF owns THEN {c} ELSE {}
  BY <1>8, <1>20, <1>28 DEF ForExecution
<1>31. TotalsOk(a, st, claims)
  <2>1. st.totals = old.totals + (IF ForExecution(claims) = {} THEN 0 ELSE 1)
    <3>1. CASE owns
      <4>1. ForExecution(claims) # {} BY <1>30, <3>1
      <4>2. QED BY <1>9, <1>20, <1>22, <3>1, <4>1
    <3>2. CASE ~owns
      <4>1. ForExecution(claims) = {} BY <1>30, <3>2
      <4>2. QED BY <1>9, <1>20, <1>22, <3>2, <4>1
    <3>3. QED BY <3>1, <3>2
  <2>2. Few => h \notin Owned(a) BY <1>13, <1>27
  <2>3. Few => \A d \in ForExecution(claims) : d.hash \notin Owned(a) /\ HasFinal(st, d.hash)
    BY <1>25, <1>28, <1>30, <2>2
  <2>4. Few => \A g \in Owned(a) : HasFinal(st, g) BY <1>13, <1>26
  <2>5. QED BY <1>1, <2>1, <2>3, <2>4 DEF TotalsOk
<1>32. Edited(a, st, claims, 0)
  BY <1>0, <1>1, <1>22, <1>24, <1>29, <1>31, ExecutionsEdit
<1>33. QED BY <1>12, <1>32, StageStep

LEMMA ClearFeedStep ==
  ASSUME RecordsInv, NEW s \in Server, ClearFeed(s)
  PROVE  RecordsInv'
<1>1. PICK a : a = job[s].agent OBVIOUS
<1>2. a \in Agent /\ profile[a] = "archived"
  <2>1. job[s].step = "clear" /\ JobOk(s) BY DEF ClearFeed, RecordsInv
  <2>2. job[s] # NoJob /\ job[s] \notin Preparing /\ job[s] \notin Refreshing /\ job[s].step # "save"
    BY <2>1 DEF NoJob, Preparing, Refreshing
  <2>3. QED BY <1>1, <2>1, <2>2 DEF JobOk, Clearing
<1>3. StoredOk(a) BY <1>2 DEF RecordsInv
<1>4. PICK old : old = agents[a] OBVIOUS
<1>5. PICK st : st = [old EXCEPT !.decisions = {}] OBVIOUS
<1>6. Stage(s, a, st, {}, 0, NoJob) BY <1>1, <1>4, <1>5 DEF ClearFeed
<1>7. /\ old \in State /\ EntriesOk(old) /\ (Few => \A g \in Owned(a) : HasFinal(old, g))
  BY <1>3, <1>4 DEF StoredOk
<1>8. /\ st \in State /\ st.executions = old.executions /\ st.proposals = old.proposals
      /\ st.purchases = old.purchases /\ st.totals = old.totals
  BY <1>5, <1>7 DEF State
<1>9. EntriesOk(st) BY <1>7, <1>8 DEF EntriesOk
<1>10. TotalsOk(a, st, {})
  <2>1. ForExecution({}) = {} BY DEF ForExecution
  <2>2. old.totals \in Nat BY <1>7 DEF State
  <2>3. \A g : HasFinal(old, g) => HasFinal(st, g) BY <1>8 DEF HasFinal
  <2>4. QED BY <1>4, <1>7, <1>8, <2>1, <2>2, <2>3 DEF TotalsOk
<1>11. ClaimsOk(a, {}) BY DEF ClaimsOk
<1>12. Edited(a, st, {}, 0)
  BY <1>2, <1>3, <1>4, <1>8, <1>9, <1>10, <1>11, ExecutionsEdit
<1>13. QED BY <1>2, <1>6, <1>12, StageStep

-----------------------------------------------------------------------------
(* The specification.                                                        *)

LEMMA RecordsInitially ==
  ASSUME RecordsInit
  PROVE  RecordsInv
<1>1. /\ Absent.status = "absent" /\ Absent.reviews = {} /\ Absent.decision = NoReview
      /\ Absent.sent = [h \in Hash |-> Unsent]
      /\ Absent = [status |-> "absent", decision |-> NoReview, reviews |-> {},
                   sent |-> [h \in Hash |-> Unsent]]
  BY DEF Absent
<1>2. Unsent \in Sent /\ Unsent.state = "none" /\ Unsent.accounted = FALSE BY DEF Unsent, Sent
<1>3. \A h \in Hash : Absent.sent[h] = Unsent BY <1>1
<1>4. Absent \in Proposal BY <1>1, <1>2 DEF Proposal, Status
<1>5. ProposalOk(Absent)
  BY <1>1, <1>2, <1>3 DEF ProposalOk, HasSubmitted, OwnsPurchase
<1>6. /\ NewAgent.proposals = [i \in Id |-> Absent] /\ NewAgent.decisions = Decision
      /\ NewAgent.purchases = 0 /\ NewAgent.totals = 0 /\ NewAgent.executions = << >>
      /\ NewAgent = [proposals |-> [i \in Id |-> Absent], decisions |-> Decision,
                     purchases |-> 0, totals |-> 0, executions |-> << >>]
  BY DEF NewAgent
<1>7. NewAgent \in State
  <2>1. [i \in Id |-> Absent] \in [Id -> Proposal] BY <1>4
  <2>2. << >> \in Seq(Entry) OBVIOUS
  <2>3. PICK P, E : P = [i \in Id |-> Absent] /\ E = << >> OBVIOUS
  <2>4. NewAgent = [proposals |-> P, decisions |-> Decision, purchases |-> 0, totals |-> 0,
                    executions |-> E]
    BY <1>6, <2>3
  <2>5. P \in [Id -> Proposal] /\ E \in Seq(Entry) BY <2>1, <2>2, <2>3
  <2>6. QED BY <2>4, <2>5 DEF State
<1>8. /\ \A h \in Hash : owner[h] = NoOwner /\ chain[h] = NoTx
      /\ owner = [h \in Hash |-> NoOwner] /\ chain = [h \in Hash |-> NoTx]
  BY DEF RecordsInit
<1>9. MinedHashes = {} /\ IsFiniteSet(MinedHashes)
  <2>1. MinedHashes = {} BY <1>8 DEF MinedHashes
  <2>2. QED BY <2>1, FS_EmptySet
<1>10. LedgerOk
  <2>1. agents \in [Agent -> State] BY <1>7 DEF RecordsInit
  <2>2. owner \in [Hash -> Owner \cup {NoOwner}] BY <1>8
  <2>3. chain = [h \in Hash |-> chain[h]] BY <1>8
  <2>4. job = [s \in Server |-> job[s]] BY DEF RecordsInit
  <2>5. profile \in [Agent -> {"active", "archived"}] BY DEF RecordsInit
  <2>6. lock \in [Agent -> Server \cup {NoServer}] /\ lapsed \subseteq Agent \X Id
    BY DEF RecordsInit
  <2>7. QED BY <1>8, <1>9, <2>1, <2>2, <2>3, <2>4, <2>5, <2>6 DEF LedgerOk
<1>11. ASSUME NEW a \in Agent PROVE StoredOk(a)
  <2>1. agents[a] = NewAgent BY DEF RecordsInit
  <2>2. \A i \in Id : NewAgent.proposals[i] = Absent BY <1>6
  <2>3. ProposalsOk(NewAgent) BY <1>5, <2>2 DEF ProposalsOk
  <2>4. CountedOk(a, NewAgent, {})
    <3>1. \A i \in Id, h \in Hash : NewAgent.proposals[i].sent[h].accounted = FALSE
      BY <1>2, <1>3, <2>2
    <3>2. CountedIn(NewAgent) = {} BY <3>1 DEF CountedIn
    <3>3. NewAgent.purchases = Cardinality(CountedIn(NewAgent)) BY <1>6, <3>2, FS_EmptySet
    <3>4. QED BY <3>1, <3>3 DEF CountedOk
  <2>5. DOMAIN NewAgent.executions = {} BY <1>6
  <2>6. EntriesOk(NewAgent) BY <2>5 DEF EntriesOk
  <2>7. NewAgent.decisions # {} BY <1>6, RecordsAssumption
  <2>8. Owned(a) = {} BY <1>8 DEF Owned
  <2>9. Cardinality(Owned(a)) = 0 BY <2>8, FS_EmptySet
  <2>10. QED BY <1>6, <1>7, <2>1, <2>3, <2>4, <2>6, <2>7, <2>8, <2>9 DEF StoredOk
<1>12. \A s \in Server : JobOk(s) BY DEF RecordsInit, JobOk
<1>13. QED BY <1>10, <1>11, <1>12 DEF RecordsInv

LEMMA RecordsSteps ==
  ASSUME RecordsInv, [RecordsNext]_recordVars
  PROVE  RecordsInv'
<1>1. CASE UNCHANGED recordVars
  <2>1. LedgerOk' BY <1>1 DEF RecordsInv, LedgerOk, recordVars, MinedHashes
  <2>2. QED BY <1>1, <2>1, QuietStep DEF recordVars
<1>2. CASE RecordsNext
  <2>1. ASSUME NEW s \in Server, Save(s) PROVE RecordsInv' BY <2>1, SaveStep
  <2>2. ASSUME NEW s \in Server, GiveUp(s) \/ Crash(s) PROVE RecordsInv'
    <3>1. /\ job' = [job EXCEPT ![s] = NoJob]
          /\ UNCHANGED <<agents, profile, owner, chain, lapsed, lock>>
      BY <2>2 DEF GiveUp, Crash
    <3>2. lock' \in [Agent -> Server \cup {NoServer}] BY <3>1 DEF RecordsInv, LedgerOk
    <3>3. QED BY <3>1, <3>2, EndStep
  <2>3. ASSUME NEW s \in Server, ClearFeed(s) PROVE RecordsInv' BY <2>3, ClearFeedStep
  <2>4. ASSUME NEW s \in Server, NEW r \in Review \cup {NoReview}, Activate(s, r) PROVE RecordsInv'
    BY <2>4, ActivateStep
  <2>5. ASSUME NEW s \in Server, NEW r \in Review, Refresh(s, r) PROVE RecordsInv'
    BY <2>5, RefreshStep
  <2>6. ASSUME NEW s \in Server, NEW a \in Assisted, Propose(s, a) PROVE RecordsInv'
    <3>1. a \in Agent BY RecordsAssumption
    <3>2. QED BY <2>6, <3>1, ReserveStep DEF Propose
  <2>7. ASSUME NEW s \in Server, NEW a \in Assisted, Track(s, a) PROVE RecordsInv'
    <3>1. a \in Agent BY RecordsAssumption
    <3>2. QED BY <2>7, <3>1, LoadRefreshStep, RejectStep, CheckStep, SubmitStep DEF Track
  <2>8. ASSUME NEW s \in Server, NEW a \in Agent \ Assisted, Runtime(s, a) PROVE RecordsInv'
    BY <2>8, ReportStep, CheckExecutionStep DEF Runtime
  <2>9. ASSUME NEW s \in Server, NEW a \in Agent, Archive(s, a) PROVE RecordsInv'
    BY <2>9, ArchiveStep
  <2>10. ASSUME Lapse PROVE RecordsInv' BY <2>10, LapseStep
  <2>11. ASSUME NEW a \in Agent, LockExpires(a) PROVE RecordsInv' BY <2>11, LockStep
  <2>12. ASSUME NEW h \in Hash, Mined(h) PROVE RecordsInv' BY <2>12, MinedStep
  <2>13. QED
    BY <1>2, <2>1, <2>2, <2>3, <2>4, <2>5, <2>6, <2>7, <2>8, <2>9, <2>10, <2>11, <2>12
    DEF RecordsNext
<1>3. QED BY <1>1, <1>2

\* The inductive invariant of the records: stored states and good staged edits
\* account for what the chain and the owners say (agent-store.mjs:237-266).
THEOREM RecordsInductive == RecordsSpec => []RecordsInv
<1>1. RecordsInit => RecordsInv BY RecordsInitially
<1>2. RecordsInv /\ [RecordsNext]_recordVars => RecordsInv' BY RecordsSteps
<1>3. QED BY <1>1, <1>2, PTL DEF RecordsSpec

LEMMA InvAccounted ==
  ASSUME RecordsInv
  PROVE  AccountedOnce
<1>0. LedgerOk /\ \A a \in Agent : StoredOk(a) BY DEF RecordsInv
<1>1. ASSUME NEW a \in Agent
      PROVE  /\ agents[a] \in State /\ ProposalsOk(agents[a]) /\ CountedOk(a, agents[a], {})
             /\ \A i \in Id : agents[a].proposals[i] \in Proposal /\ ProposalOk(agents[a].proposals[i])
  BY <1>0 DEF StoredOk, ProposalsOk, State
<1>2. RecordsTypeOK
  <2>1. ASSUME NEW a \in Agent, NEW i \in Id
        PROVE  LET p == agents[a].proposals[i] IN
               /\ p.status \in Status /\ p.reviews \subseteq Review /\ p.sent \in [Hash -> Sent]
               /\ Cardinality({h \in Hash : p.sent[h].state = "submitted"}) <= 1
    <3> DEFINE p == agents[a].proposals[i]
               S == {h \in Hash : p.sent[h].state = "submitted"}
    <3>1. p \in Proposal /\ ProposalOk(p) BY <1>1
    <3>2. \A g, h \in S : g = h BY <3>1 DEF ProposalOk
    <3>3. Cardinality(S) <= 1
      <4> HIDE DEF S
      <4>1. CASE S = {} BY <4>1, FS_EmptySet
      <4>2. CASE S # {}
        <5>1. PICK h \in S : TRUE BY <4>2
        <5>2. S = {h} BY <3>2, <5>1
        <5>3. Cardinality({h}) = 1 BY FS_Singleton
        <5>4. QED BY <5>2, <5>3
      <4>3. QED BY <4>1, <4>2
    <3>4. p.status \in Status /\ p.reviews \subseteq Review /\ p.sent \in [Hash -> Sent]
      BY <3>1 DEF Proposal
    <3>5. QED BY <3>3, <3>4
  <2>2. ASSUME NEW a \in Agent
        PROVE  /\ DOMAIN agents[a].proposals = Id
               /\ agents[a].purchases \in Nat /\ agents[a].totals \in Nat
    BY <1>1 DEF State
  <2>3. QED BY <1>0, <2>1, <2>2 DEF RecordsTypeOK, LedgerOk
<1>3. PurchasesAttributed
  <2>1. ASSUME NEW a \in Agent PROVE agents[a].purchases = Cardinality(Counted(a))
    <3>1. Counted(a) = CountedIn(agents[a]) BY DEF Counted, CountedIn
    <3>2. QED BY <1>1, <3>1 DEF CountedOk
  <2>2. ASSUME NEW a \in Agent, NEW i \in Id, NEW h \in Hash,
               agents[a].proposals[i].sent[h].accounted
        PROVE  LET x == agents[a].proposals[i].sent[h] IN
               /\ owner[h] = Claim(h, a, i, x.review).by
               /\ chain[h] # NoTx /\ chain[h].ok /\ chain[h].tx = x.review
    BY <1>1, <2>2 DEF CountedOk
  <2>3. QED BY <2>1, <2>2 DEF PurchasesAttributed
<1>4. ExecutionsCountedOnce
  <2>1. ASSUME NEW a \in Agent
        PROVE  /\ agents[a].totals >= Cardinality(Owned(a))
               /\ Cardinality({h \in Hash : chain[h] # NoTx}) <= FinalKept
                    => agents[a].totals = Cardinality(Owned(a))
    BY <1>0 DEF StoredOk, Few, MinedHashes
  <2>2. QED BY <2>1 DEF ExecutionsCountedOnce, Owned
<1>5. TrackedIsSubmitted BY <1>1 DEF TrackedIsSubmitted, ProposalOk
<1>6. QED BY <1>2, <1>3, <1>4, <1>5 DEF AccountedOnce

\* Every purchase counted is owned by the record that counts it and is what the
\* chain executed, and totals count each owned execution once, whatever servers
\* raced, retried, lost their lock or died (agent-store.mjs:237-266).
THEOREM RecordsAccounted == RecordsSpec => []AccountedOnce
<1>1. RecordsInv => AccountedOnce BY InvAccounted
<1>2. QED BY <1>1, RecordsInductive, PTL

\* Only a save changes what is stored.
LEMMA StoredBySave ==
  ASSUME [RecordsNext]_recordVars
  PROVE  agents' = agents \/ \E s \in Server : Save(s)
<1>1. CASE UNCHANGED recordVars BY <1>1 DEF recordVars
<1>2. CASE RecordsNext
  <2>1. ASSUME NEW s \in Server, GiveUp(s) \/ Crash(s) \/ ClearFeed(s) PROVE agents' = agents
    BY <2>1 DEF GiveUp, Crash, ClearFeed, Stage
  <2>2. ASSUME NEW s \in Server, NEW r, Activate(s, r) \/ Refresh(s, r) PROVE agents' = agents
    BY <2>2 DEF Activate, Refresh, Stage
  <2>3. ASSUME NEW s \in Server, NEW a, Propose(s, a) PROVE agents' = agents
    BY <2>3 DEF Propose, Reserve, Stage
  <2>4. ASSUME NEW s \in Server, NEW a, Track(s, a) PROVE agents' = agents
    <3>1. ASSUME NEW i, LoadRefresh(s, a, i) \/ Reject(s, a, i) PROVE agents' = agents
      BY <3>1 DEF LoadRefresh, Reject, Stage
    <3>2. ASSUME NEW i, NEW h, Check(s, a, i, h) PROVE agents' = agents
      BY <3>2 DEF Check, Stage
    <3>3. ASSUME NEW i, NEW h, NEW r, Submit(s, a, i, h, r) PROVE agents' = agents
      BY <3>3 DEF Submit, Stage
    <3>4. QED BY <2>4, <3>1, <3>2, <3>3 DEF Track
  <2>5. ASSUME NEW s \in Server, NEW a, Runtime(s, a) PROVE agents' = agents
    BY <2>5 DEF Runtime, Report, CheckExecution, Stage
  <2>6. ASSUME NEW s \in Server, NEW a, Archive(s, a) PROVE agents' = agents
    BY <2>6 DEF Archive
  <2>7. ASSUME Lapse \/ (\E a \in Agent : LockExpires(a)) \/ (\E h \in Hash : Mined(h))
        PROVE agents' = agents
    BY <2>7 DEF Lapse, LockExpires, Mined
  <2>8. QED BY <1>2, <2>1, <2>2, <2>3, <2>4, <2>5, <2>6, <2>7 DEF RecordsNext
<1>3. QED BY <1>1, <1>2

LEMMA ReviewsStep ==
  ASSUME RecordsInv, [RecordsNext]_recordVars, NEW a \in Agent, NEW i \in Id
  PROVE  LET old == agents[a].proposals[i].reviews
             new == agents'[a].proposals[i].reviews
         IN  /\ old \subseteq new
             /\ profile[a] = "archived" /\ agents[a].decisions = {} => new = old
<1>1. CASE agents' = agents BY <1>1
<1>2. ASSUME NEW s \in Server, Save(s), agents' # agents
      PROVE  LET old == agents[a].proposals[i].reviews
                 new == agents'[a].proposals[i].reviews
             IN  /\ old \subseteq new
                 /\ profile[a] = "archived" /\ agents[a].decisions = {} => new = old
  <2>1. PICK w : w = job[s] OBVIOUS
  <2>2. w.step = "save" /\ w.fresh /\ agents' = [agents EXCEPT ![w.agent] = w.state]
    BY <1>2, <2>1 DEF Save, Fresh
  <2>3. Edited(w.agent, w.state, w.claims, w.touched)
    <3>1. JobOk(s) BY DEF RecordsInv
    <3>2. w # NoJob /\ w \notin Preparing /\ w \notin Refreshing /\ w \notin Clearing
      BY <2>2 DEF NoJob, Preparing, Refreshing, Clearing
    <3>3. QED BY <2>1, <2>2, <3>1, <3>2 DEF JobOk
  <2>4. ReviewsOk(w.agent, w.state) BY <2>3 DEF Edited
  <2>5. CASE a = w.agent
    <3>1. agents'[a] = w.state BY <2>2, <2>5 DEF RecordsInv, LedgerOk
    <3>2. QED BY <2>4, <2>5, <3>1 DEF ReviewsOk
  <2>6. CASE a # w.agent
    <3>1. agents'[a] = agents[a] BY <2>2, <2>6 DEF RecordsInv, LedgerOk
    <3>2. QED BY <3>1
  <2>7. QED BY <2>5, <2>6
<1>3. QED BY <1>1, <1>2, StoredBySave

\* No save drops a review that was issued, and none is issued once the feed of an
\* archived agent is cleared (agent-store.mjs:17-18, 337-355).
THEOREM ReviewsStay == RecordsSpec => IssuedReviews
<1>1. RecordsInv /\ [RecordsNext]_recordVars =>
        [\A a \in Agent, i \in Id :
           LET old == agents[a].proposals[i].reviews
               new == agents'[a].proposals[i].reviews
           IN /\ old \subseteq new
              /\ profile[a] = "archived" /\ agents[a].decisions = {} => new = old]_recordVars
  BY ReviewsStep
<1>2. QED BY <1>1, RecordsInductive, PTL DEF RecordsSpec, IssuedReviews
=============================================================================
