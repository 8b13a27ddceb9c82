---------------------------- MODULE SettlementMail ----------------------------
(***************************************************************************)
(* The settlement monitor's outbox: notifyPool (scripts/notify-settlement.mjs) *)
(* with queueReport and drainEmails (server/settlement-email.mjs) under the   *)
(* lease of server/settlement-store.mjs.  A run observes the pool, saves the  *)
(* observation and the mail it owes in one write, and only then sends; it may *)
(* lose its lease or its process at any step, and an answer of the provider.  *)
(*                                                                          *)
(* A report is the number of its signature, which counts what changed on      *)
(* chain; a mail is the number of its key, with the report it tells of.  The  *)
(* text of a report and the checkpoint (PilotResolver models what it is about) *)
(* are left out.  The other outbox, of read failures, drains the same way.    *)
(***************************************************************************)
EXTENDS Integers, Sequences, FiniteSets

CONSTANTS Job, NoJobHere,
  QueueLimit,      \* mails in the outbox (20)
  PerRun,          \* mails a run sends (3)
  MaxReport,       \* bound: changes on chain
  MaxMail,         \* bound: mails ever queued
  MaxUpset         \* bound: leases lost, runs that die, answers that are lost

ASSUME MailAssumption == QueueLimit \in Nat \ {0} /\ PerRun \in Nat /\ NoJobHere \notin Job

VARIABLES
  onchain,         \* the signature of what the chain holds now
  outbox,          \* the saved state: its signature and its queue
  monitorLease,    \* the job that holds the lease
  work,            \* work[j]: the run of a job
  inbox,           \* the mails the provider delivered, in order
  remembered,      \* keys the provider knows
  aged,            \* keys older than 23 hours
  lastKey, upsets

mailVars == <<onchain, outbox, monitorLease, work, inbox, remembered, aged, lastKey, upsets>>

NoWork == [at |-> "idle"]
Goes(j, at) == work' = [work EXCEPT ![j].at = at]
Owns(j) == monitorLease = j
Upset == upsets < MaxUpset /\ upsets' = upsets + 1

MailInit ==
  /\ onchain = 0 /\ outbox = [signature |-> 0, queue |-> <<>>]
  /\ monitorLease = NoJobHere /\ work = [j \in Job |-> NoWork]
  /\ inbox = <<>> /\ remembered = {} /\ aged = {} /\ lastKey = 0 /\ upsets = 0

StartRun(j) ==
  /\ work[j] = NoWork /\ monitorLease = NoJobHere
  /\ monitorLease' = j
  /\ work' = [work EXCEPT ![j] = [at |-> "read", state |-> outbox, left |-> PerRun]]
  /\ UNCHANGED <<onchain, outbox, inbox, remembered, aged, lastKey, upsets>>

\* queueReport: a mail for a report that changed, or again an hour later.
Observe(j) ==
  LET state == work[j].state
      changed == onchain # state.signature
      next == [signature |-> onchain, queue |-> Append(state.queue, [key |-> lastKey + 1, report |-> onchain])]
  IN /\ work[j].at = "read"
     /\ \E hourly \in BOOLEAN :
          IF changed \/ hourly
          THEN /\ lastKey < MaxMail
               /\ IF Len(state.queue) >= QueueLimit
                  THEN Goes(j, "end") /\ UNCHANGED lastKey
                  ELSE /\ lastKey' = lastKey + 1
                       /\ work' = [work EXCEPT ![j].state = next, ![j].at = "save"]
          ELSE /\ \E at \in {"save", "drain"} : Goes(j, at)   \* a repeat is not rewritten
               /\ UNCHANGED lastKey
     /\ UNCHANGED <<onchain, outbox, monitorLease, inbox, remembered, aged, upsets>>

\* Three reads failed: only the count of failures is saved, pending mail still goes.
ReadFails(j) ==
  /\ work[j].at = "read" /\ Goes(j, "save")
  /\ UNCHANGED <<onchain, outbox, monitorLease, inbox, remembered, aged, lastKey, upsets>>

\* The save of the lease script: nothing is written without the lease.
SaveOutbox(j) ==
  /\ work[j].at = "save"
  /\ IF Owns(j) THEN outbox' = work[j].state /\ Goes(j, "drain")
     ELSE UNCHANGED outbox /\ Goes(j, "end")
  /\ UNCHANGED <<onchain, monitorLease, inbox, remembered, aged, lastKey, upsets>>

\* Mutant: an old uncertain send is repeated blindly.
TooOld_Never(key) == FALSE

TooOld(key) == key \in aged

\* drainEmails, up to the send: the lease is renewed, the age is checked.
PickMail(j) ==
  LET queue == work[j].state.queue IN
  /\ work[j].at = "drain"
  /\ Goes(j, IF queue = <<>> \/ work[j].left = 0 \/ ~Owns(j) \/ TooOld(Head(queue).key)
             THEN "end" ELSE "send")
  /\ UNCHANGED <<onchain, outbox, monitorLease, inbox, remembered, aged, lastKey, upsets>>

Delivered(mail) ==
  IF mail.key \in remembered THEN inbox ELSE Append(inbox, mail)

Current(j) == Head(work[j].state.queue)

SendMail(j) ==
  /\ work[j].at = "send"
  /\ inbox' = Delivered(Current(j)) /\ remembered' = remembered \cup {Current(j).key}
  /\ \/ Goes(j, "accepted") /\ UNCHANGED upsets
     \/ Goes(j, "end") /\ Upset                         \* the answer is lost
  /\ UNCHANGED <<onchain, outbox, monitorLease, aged, lastKey>>

SendFails(j) ==
  /\ work[j].at = "send" /\ Goes(j, "end") /\ Upset
  /\ UNCHANGED <<onchain, outbox, monitorLease, inbox, remembered, aged, lastKey>>

\* Acknowledged: the mail leaves the queue with the next save.
Acknowledge(j) ==
  /\ work[j].at = "accepted"
  /\ work' = [work EXCEPT ![j].state.queue = Tail(@), ![j].left = @ - 1, ![j].at = "save"]
  /\ UNCHANGED <<onchain, outbox, monitorLease, inbox, remembered, aged, lastKey, upsets>>

EndRun(j) ==
  /\ work[j].at = "end" /\ work' = [work EXCEPT ![j] = NoWork]
  /\ monitorLease' = IF Owns(j) THEN NoJobHere ELSE monitorLease
  /\ UNCHANGED <<onchain, outbox, inbox, remembered, aged, lastKey, upsets>>

DieRun(j) ==
  /\ work[j] # NoWork /\ Upset /\ work' = [work EXCEPT ![j] = NoWork]
  /\ UNCHANGED <<onchain, outbox, monitorLease, inbox, remembered, aged, lastKey>>

\* Five minutes without a renewal: the job died, or it is slow and goes on.
LeaseRunsOut ==
  /\ monitorLease # NoJobHere /\ monitorLease' = NoJobHere
  /\ IF work[monitorLease] = NoWork THEN UNCHANGED upsets ELSE Upset
  /\ UNCHANGED <<onchain, outbox, work, inbox, remembered, aged, lastKey>>

ChainChanges ==
  /\ onchain < MaxReport /\ onchain' = onchain + 1
  /\ UNCHANGED <<outbox, monitorLease, work, inbox, remembered, aged, lastKey, upsets>>

\* 23 hours pass; a request to the provider lasts ten seconds at most.
Quiet == \A j \in Job : work[j].at # "send"

Ages ==
  /\ Quiet /\ aged # 1..lastKey /\ aged' = 1..lastKey
  /\ UNCHANGED <<onchain, outbox, monitorLease, work, inbox, remembered, lastKey, upsets>>

\* The provider remembers a key for 24 hours.
Forgets ==
  /\ Quiet /\ remembered \cap aged # {} /\ remembered' = remembered \ aged
  /\ UNCHANGED <<onchain, outbox, monitorLease, work, inbox, aged, lastKey, upsets>>

MailNext ==
  \/ \E j \in Job :
       \/ StartRun(j) \/ Observe(j) \/ ReadFails(j) \/ SaveOutbox(j) \/ PickMail(j)
       \/ SendMail(j) \/ SendFails(j) \/ Acknowledge(j) \/ EndRun(j) \/ DieRun(j)
  \/ LeaseRunsOut \/ ChainChanges \/ Ages \/ Forgets

MailSpec == MailInit /\ [][MailNext]_mailVars
-----------------------------------------------------------------------------
Told == {inbox[i].report : i \in DOMAIN inbox}
            \cup {outbox.queue[i].report : i \in DOMAIN outbox.queue}

\* Every observation that was saved as seen is told: its mail waits in the
\* outbox or was delivered, in the order of the observations and never twice,
\* whatever lease, process or answer was lost (settlement-email.mjs:110-125,
\* notify-settlement.mjs:80-89).
MailTold ==
  /\ outbox.signature \in Told \cup {0}
  /\ \A i, k \in DOMAIN inbox : i < k => inbox[i].key < inbox[k].key
=============================================================================
