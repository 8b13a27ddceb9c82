------------------------------ MODULE PilotIndex ------------------------------
(***************************************************************************)
(* The stored log index of a pool (src/apps/web/server/pilot-index.mjs): a    *)
(* scan reads the chain in many calls while it may reorganise, checks what it *)
(* read, and stores the result with a compare-and-swap against other servers. *)
(*                                                                          *)
(* A block is its fork and whether it holds a log of the pool; the hash of a  *)
(* block is the chain up to it.  Block 0 is the anchor, which never changes.  *)
(* A fork that was left does not come back: the reads of one scan follow one  *)
(* sequence of chains.  Unknown events and the storage quota are left out.    *)
(***************************************************************************)
EXTENDS Integers, Sequences, FiniteSets

CONSTANTS Scanner,
  Confirmations,   \* blocks below the head that are not read (2)
  ScanSize,        \* blocks a scan covers at most (1000)
  WindowSize,      \* blocks one call covers at most (100, less when refused)
  MaxHeight,       \* bound: blocks
  MaxFork          \* bound: reorganisations

ASSUME IndexAssumption ==
  /\ Confirmations \in Nat /\ ScanSize \in Nat \ {0} /\ WindowSize \in Nat \ {0}

VARIABLES
  ledger,          \* the canonical chain
  fork,            \* reorganisations so far
  index,           \* the stored index: the hash it is at, its logs and its target
  scan             \* scan[s]: the scan of a server

indexVars == <<ledger, fork, index, scan>>

Block == [fork : 0..MaxFork, log : BOOLEAN]
HashAt(n) == SubSeq(ledger, 1, n)
Through(i) == Len(i.hash)
Known(hash) == Len(hash) <= Len(ledger) /\ HashAt(Len(hash)) = hash

Anchor == [hash |-> <<>>, logs |-> {}, target |-> 0]
NoScan == [at |-> "idle"]

IndexInit ==
  /\ ledger = <<>> /\ fork = 0 /\ index = Anchor /\ scan = [s \in Scanner |-> NoScan]

Moves(s, at) == scan' = [scan EXCEPT ![s].at = at]
Unread == UNCHANGED <<ledger, fork, index>>

\* GET of the stored index.
LoadIndex(s) ==
  /\ scan[s] = NoScan
  /\ scan' = [scan EXCEPT ![s] = [at |-> "checkpoint", prior |-> index, saved |-> index,
               target |-> 0, goal |-> 0, boundary |-> <<>>, end |-> 0, before |-> <<>>,
               logs |-> {}, window |-> 0, next |-> <<>>]]
  /\ Unread

\* A changed checkpoint rebuilds from the anchor.
Continued(saved) == IF Known(saved.hash) THEN saved ELSE Anchor

ReadCheckpoint(s) ==
  /\ scan[s].at = "checkpoint"
  /\ scan' = [scan EXCEPT ![s].saved = Continued(@), ![s].at = "head"]
  /\ Unread

Least(a, b) == IF a < b THEN a ELSE b

ReadHead(s) ==
  LET c == scan[s]
      tip == Len(ledger) - Confirmations
      target == IF c.saved.target > Through(c.saved) THEN Least(c.saved.target, tip) ELSE tip
      goal == Least(target, Through(c.saved) + ScanSize)
  IN /\ c.at = "head"
     /\ scan' = [scan EXCEPT ![s] =
          IF goal <= Through(c.saved) THEN NoScan     \* nothing new to store
          ELSE [c EXCEPT !.at = "boundary", !.target = target, !.goal = goal,
                         !.end = Through(c.saved)]]
     /\ Unread

ReadBoundary(s) ==
  /\ scan[s].at = "boundary"
  /\ scan' = [scan EXCEPT ![s].boundary = HashAt(Least(scan[s].goal, Len(ledger))), ![s].at = "batch"]
  /\ Unread

\* The next window, and the block at its end before its logs are asked for.
ReadBefore(s) ==
  /\ scan[s].at = "batch" /\ scan[s].end < scan[s].goal
  /\ \E to \in scan[s].end + 1..Least(scan[s].goal, scan[s].end + WindowSize) :
       scan' = [scan EXCEPT ![s].at = "logs", ![s].window = to,
                            ![s].next = HashAt(Least(to, Len(ledger)))]
  /\ Unread

LogsIn(from, to) ==
  {[block |-> n, hash |-> HashAt(n)] : n \in {m \in from..Least(to, Len(ledger)) : ledger[m].log}}

ReadLogs(s) ==
  LET c == scan[s] IN
  /\ c.at = "logs"
  /\ scan' = [scan EXCEPT ![s].logs = @ \cup LogsIn(c.end + 1, c.window), ![s].end = c.window,
                          ![s].before = c.next, ![s].at = "batch"]
  /\ Unread

\* The time or the number of calls is up, or the goal is reached.
StopReading(s) ==
  /\ scan[s].at = "batch" /\ scan[s].end > Through(scan[s].saved)
  /\ Moves(s, "canonical") /\ Unread

EndUnmoved(c) == HashAt(Least(c.end, Len(ledger))) = c.before

\* Mutant: only the last window is compared again, not the whole scan.
BoundaryUnmoved_Assumed(c) == TRUE

BoundaryUnmoved(c) == HashAt(Least(c.goal, Len(ledger))) = c.boundary

\* The checks before the index is stored, each a call of its own; a failed one
\* throws and the scan is lost.
Passes(s, ok, next) ==
  scan' = [scan EXCEPT ![s] = IF ok THEN [@ EXCEPT !.at = next] ELSE NoScan]

CheckLogs(s) ==
  /\ scan[s].at = "canonical"
  /\ Passes(s, \A l \in scan[s].logs : Known(l.hash), "end") /\ Unread

CheckEnd(s) ==
  /\ scan[s].at = "end" /\ Passes(s, EndUnmoved(scan[s]), "limit") /\ Unread

CheckBoundary(s) ==
  /\ scan[s].at = "limit"
  /\ Passes(s, BoundaryUnmoved(scan[s]), "old") /\ Unread

CheckCheckpoint(s) ==
  /\ scan[s].at = "old" /\ Passes(s, Known(scan[s].saved.hash), "store") /\ Unread

Uncontested(c) == index = c.prior

StoreIndex(s) ==
  LET c == scan[s] IN
  /\ c.at = "store"
  /\ index' = IF Uncontested(c)
              THEN [hash |-> c.before, logs |-> c.saved.logs \cup c.logs, target |-> c.target]
              ELSE index
  /\ scan' = [scan EXCEPT ![s] = NoScan] /\ UNCHANGED <<ledger, fork>>

\* The node fails or the server stops: nothing is stored.
LoseScan(s) ==
  /\ scan[s] # NoScan /\ scan' = [scan EXCEPT ![s] = NoScan] /\ Unread

Grow ==
  /\ Len(ledger) < MaxHeight
  /\ \E b \in BOOLEAN : ledger' = Append(ledger, [fork |-> fork, log |-> b])
  /\ UNCHANGED <<fork, index, scan>>

\* Blocks are replaced down to some height, by as many others.
Reorganise ==
  /\ fork < MaxFork /\ fork' = fork + 1
  /\ \E n \in 0..Len(ledger) - 1 : \E b \in [n + 1..Len(ledger) -> BOOLEAN] :
       ledger' = HashAt(n) \o [i \in 1..Len(ledger) - n |-> [fork |-> fork + 1, log |-> b[n + i]]]
  /\ UNCHANGED <<index, scan>>

IndexNext ==
  \/ \E s \in Scanner :
       \/ LoadIndex(s) \/ ReadCheckpoint(s) \/ ReadHead(s) \/ ReadBoundary(s)
       \/ ReadBefore(s) \/ ReadLogs(s) \/ StopReading(s) \/ CheckLogs(s) \/ CheckEnd(s)
       \/ CheckBoundary(s) \/ CheckCheckpoint(s) \/ StoreIndex(s) \/ LoseScan(s)
  \/ Grow \/ Reorganise

IndexSpec == IndexInit /\ [][IndexNext]_indexVars
-----------------------------------------------------------------------------
\* What is stored is the truth about one chain: the logs are exactly those of
\* the chain that ends in the stored block, none orphaned and none skipped,
\* whatever was reorganised while windows were read (pilot-index.mjs:26-73).
IndexFaithful ==
  index.logs = {[block |-> n, hash |-> SubSeq(index.hash, 1, n)] :
                  n \in {m \in 1..Through(index) : index.hash[m].log}}
=============================================================================
