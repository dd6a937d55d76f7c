------------------------------ MODULE Webhook ------------------------------
(***************************************************************************)
(* The webhook deliverer (internal/botmgr/webhook.go) and the setWebhook   *)
(* and deleteWebhook handlers that start and stop deliverers               *)
(* (internal/server/methods_updates.go).                                   *)
(*                                                                         *)
(* A deliverer is one goroutine running deliverer.run; a set of them is    *)
(* given, each is started at most once, and each stands for its webhook    *)
(* URL too.  The endpoint answers each POST as it likes.  Time is left     *)
(* out: the backoff is a wait that ends, the attempts are counted.         *)
(***************************************************************************)
EXTENDS UpdateBuffer

CONSTANTS
  Deliverers,    \* deliverers that can be started
  Handlers,      \* concurrent setWebhook and deleteWebhook calls
  NoRow,         \* the value of row of a bot that has no row
  RoundLimit,    \* the most updates a round takes (100)
  MaxAttempts    \* maxDeliveryAttempts (8)

ASSUME WebhookAssumption ==
  /\ Deliverers \subseteq Drainers
  /\ NoRow \notin Deliverers \cup {NoDrainer}
  /\ RoundLimit \in Nat \ {0}
  /\ MaxAttempts \in Nat \ {0}

VARIABLES
  dpc,           \* where each deliverer's run is
  after,         \* where run goes once it has released the drain lock
  work,          \* items: what Wait returned
  pos,           \* index into work of the item being delivered
  lastAcked,     \* what run will pass to Ack, 0 for nothing
  attempts,      \* failed deliveries per update, 0 when the map has no key
  stopped,       \* the deliverers whose stopCh is closed
  current,       \* delivererMap[b], or NoDrainer
  row,           \* bots.webhook_url: the deliverer it names, NoDrainer when it
                 \* is empty, NoRow when the table has no row for the token
  hpc,           \* where each setWebhook or deleteWebhook call is
  hnew,          \* the deliverer a setWebhook call will start, or NoDrainer
  htaken         \* the deliverer a call took out of delivererMap

(* History variables: what happened to each update, how often each         *)
(* deliverer tried to POST it, how many tries it began after its stop, and *)
(* the first id that postdates the drop_pending_updates it was set up with.*)
VARIABLES outcome, posts, late, firstID

runVars == <<dpc, after, work, pos, lastAcked, attempts>>
setupVars == <<stopped, current, row, hpc, hnew, htaken, firstID>>
seenVars == <<outcome, posts, late>>
hookVars == <<runVars, setupVars, seenVars>>

IDs == 1..MaxID
Outcomes == {"none", "accepted", "dropped", "skipped"}
Delivering == {"item", "translating", "posting", "settling"}
Holding == {"waiting", "releasing"} \cup Delivering

HookTypeOK ==
  /\ dpc \in [Deliverers ->
       {"unused", "reserved", "top", "locking", "backoff", "exited"} \cup Holding]
  /\ after \in [Deliverers -> {"top", "backoff", "exited"}]
  /\ work \in [Deliverers -> Seq(Item)]
  /\ pos \in [Deliverers -> Nat]
  /\ \A d \in Deliverers : pos[d] \in 1..(Len(work[d]) + 1)
  /\ lastAcked \in [Deliverers -> 0..(MaxID + 1)]
  /\ attempts \in [Deliverers -> [IDs -> 0..(MaxAttempts - 1)]]
  /\ stopped \subseteq Deliverers
  /\ current \in Deliverers \cup {NoDrainer}
  /\ row \in Deliverers \cup {NoDrainer, NoRow}
  /\ hpc \in [Handlers -> {"idle", "storing", "clearing", "taking", "closing", "starting"}]
  /\ hnew \in [Handlers -> Deliverers \cup {NoDrainer}]
  /\ htaken \in [Handlers -> Deliverers \cup {NoDrainer}]
  /\ outcome \in [IDs -> Outcomes]
  /\ posts \in [Deliverers -> [IDs -> 0..(MaxAttempts + 1)]]
  /\ late \in [Deliverers -> 0..2]
  /\ firstID \in [Deliverers -> 0..(MaxID + 1)]

HookInit ==
  /\ dpc = [d \in Deliverers |-> "unused"]
  /\ after = [d \in Deliverers |-> "top"]
  /\ work = [d \in Deliverers |-> <<>>]
  /\ pos = [d \in Deliverers |-> 1]
  /\ lastAcked = [d \in Deliverers |-> 0]
  /\ attempts = [d \in Deliverers |-> [n \in IDs |-> 0]]
  /\ stopped = {}
  /\ current = NoDrainer
  /\ row \in {NoDrainer, NoRow}
  /\ hpc = [h \in Handlers |-> "idle"]
  /\ hnew = [h \in Handlers |-> NoDrainer]
  /\ htaken = [h \in Handlers |-> NoDrainer]
  /\ outcome = [n \in IDs |-> "none"]
  /\ posts = [d \in Deliverers |-> [n \in IDs |-> 0]]
  /\ late = [d \in Deliverers |-> 0]
  /\ firstID = [d \in Deliverers |-> 0]

At(d, label) == dpc[d] = label
Go(d, label) == dpc' = [dpc EXCEPT ![d] = label]

-----------------------------------------------------------------------------
(* The head of run's loop.                                                 *)

Top(d) ==
  /\ At(d, "top")
  /\ Go(d, IF d \in stopped THEN "exited" ELSE "locking")
  /\ UNCHANGED <<bufVars, after, work, pos, lastAcked, attempts, setupVars, seenVars>>

DeliverLock_Missing(d) ==
  /\ At(d, "locking")
  /\ Go(d, "waiting")
  /\ UNCHANGED <<bufVars, after, work, pos, lastAcked, attempts, setupVars, seenVars>>

DeliverLock(d) ==
  /\ At(d, "locking")
  /\ TakeLock(d)
  /\ Go(d, "waiting")
  /\ UNCHANGED <<after, work, pos, lastAcked, attempts, setupVars, seenVars>>

(* Wait(0, 100): the oldest updates, up to a round's limit.                *)
Collect(d) ==
  /\ At(d, "waiting")
  /\ HasReady(0)
  /\ work' = [work EXCEPT ![d] = Window(0, RoundLimit)]
  /\ pos' = [pos EXCEPT ![d] = 1]
  /\ lastAcked' = [lastAcked EXCEPT ![d] = 0]
  /\ Go(d, "item")
  /\ UNCHANGED <<bufVars, after, attempts, setupVars, seenVars>>

(* Wait's 30 s pass with nothing pending.                                  *)
CollectNothing(d) ==
  /\ At(d, "waiting")
  /\ ~HasReady(0)
  /\ after' = [after EXCEPT ![d] = "top"]
  /\ Go(d, "releasing")
  /\ UNCHANGED <<bufVars, work, pos, lastAcked, attempts, setupVars, seenVars>>

-----------------------------------------------------------------------------
(* The loop over the items.                                                *)

Current(d) == work[d][pos[d]]
Done(d) == pos[d] > Len(work[d])

(***************************************************************************)
(* The stop check before each item, and the end of the loop.               *)
(***************************************************************************)
NextItem_IgnoresStop(d) ==
  /\ At(d, "item")
  /\ IF Done(d)
       THEN after' = [after EXCEPT ![d] = "top"] /\ Go(d, "settling")
       ELSE Go(d, "translating") /\ UNCHANGED after
  /\ UNCHANGED <<bufVars, work, pos, lastAcked, attempts, setupVars, seenVars>>

NextItem(d) ==
  /\ At(d, "item")
  /\ IF Done(d)
       THEN after' = [after EXCEPT ![d] = "top"] /\ Go(d, "settling")
       ELSE IF d \in stopped
         THEN after' = [after EXCEPT ![d] = "exited"] /\ Go(d, "settling")
         ELSE Go(d, "translating") /\ UNCHANGED after
  /\ UNCHANGED <<bufVars, work, pos, lastAcked, attempts, setupVars, seenVars>>

(* The item is settled: run moves past it and will ack it.                 *)
MovePast(d, result) ==
  /\ lastAcked' = [lastAcked EXCEPT ![d] = Current(d).id + 1]
  /\ attempts' = [attempts EXCEPT ![d][Current(d).id] = 0]
  /\ pos' = [pos EXCEPT ![d] = @ + 1]
  /\ outcome' = [outcome EXCEPT ![Current(d).id] = result]
  /\ Go(d, "item")
  /\ UNCHANGED <<bufVars, after, work, setupVars>>

Skip_NotAcked(d) ==
  /\ At(d, "translating")
  /\ ~Current(d).ok
  /\ pos' = [pos EXCEPT ![d] = @ + 1]
  /\ outcome' = [outcome EXCEPT ![Current(d).id] = "skipped"]
  /\ Go(d, "item")
  /\ UNCHANGED <<bufVars, after, work, lastAcked, attempts, setupVars, posts, late>>

Skip(d) ==
  /\ At(d, "translating")
  /\ ~Current(d).ok
  /\ MovePast(d, "skipped")
  /\ UNCHANGED <<posts, late>>

(* deliverOne is called.  Its body may fail to encode or its request to be *)
(* built: then nothing is sent and the attempt counts as one that failed.  *)
(* The history counts attempts and saturates one above what the properties *)
(* allow.                                                                  *)
CountTo(bound, n) == IF n < bound THEN n + 1 ELSE n

Post(d) ==
  /\ At(d, "translating")
  /\ Current(d).ok
  /\ posts' = [posts EXCEPT ![d][Current(d).id] = CountTo(MaxAttempts + 1, @)]
  /\ late' = [late EXCEPT ![d] = IF d \in stopped THEN CountTo(2, @) ELSE @]
  /\ Go(d, "posting")
  /\ UNCHANGED <<bufVars, after, work, pos, lastAcked, attempts, setupVars, outcome>>

Accepted(d) ==
  /\ At(d, "posting")
  /\ MovePast(d, "accepted")
  /\ UNCHANGED <<posts, late>>

(***************************************************************************)
(* The attempt failed: any error, or a status that is not 2xx.  Below the  *)
(* limit the round ends, and the items behind this one wait for it.        *)
(***************************************************************************)
FailedTries(d) == attempts[d][Current(d).id] + 1

Rejected_TriesNext(d) ==
  /\ At(d, "posting")
  /\ FailedTries(d) < MaxAttempts
  /\ attempts' = [attempts EXCEPT ![d][Current(d).id] = @ + 1]
  /\ pos' = [pos EXCEPT ![d] = @ + 1]
  /\ Go(d, "item")
  /\ UNCHANGED <<bufVars, after, work, lastAcked, setupVars, seenVars>>

Rejected_AcksToo(d) ==
  /\ At(d, "posting")
  /\ FailedTries(d) < MaxAttempts
  /\ attempts' = [attempts EXCEPT ![d][Current(d).id] = @ + 1]
  /\ lastAcked' = [lastAcked EXCEPT ![d] = Current(d).id + 1]
  /\ after' = [after EXCEPT ![d] = "backoff"]
  /\ Go(d, "settling")
  /\ UNCHANGED <<bufVars, work, pos, setupVars, seenVars>>

Rejected_OffByOne(d) ==
  /\ At(d, "posting")
  /\ FailedTries(d) <= MaxAttempts
  /\ attempts' = [attempts EXCEPT ![d][Current(d).id] = @ + 1]
  /\ after' = [after EXCEPT ![d] = "backoff"]
  /\ Go(d, "settling")
  /\ UNCHANGED <<bufVars, work, pos, lastAcked, setupVars, seenVars>>

Rejected(d) ==
  /\ At(d, "posting")
  /\ FailedTries(d) < MaxAttempts
  /\ attempts' = [attempts EXCEPT ![d][Current(d).id] = @ + 1]
  /\ after' = [after EXCEPT ![d] = "backoff"]
  /\ Go(d, "settling")
  /\ UNCHANGED <<bufVars, work, pos, lastAcked, setupVars, seenVars>>

GiveUp(d) ==
  /\ At(d, "posting")
  /\ FailedTries(d) >= MaxAttempts
  /\ MovePast(d, "dropped")
  /\ UNCHANGED <<posts, late>>

-----------------------------------------------------------------------------
(* The end of a round.                                                     *)

Settle_NotOnStop(d) ==
  /\ At(d, "settling")
  /\ IF lastAcked[d] > 0 /\ after[d] # "exited"
       THEN Ack(lastAcked[d]) ELSE UNCHANGED <<items, nextID, lost>>
  /\ Go(d, "releasing")
  /\ UNCHANGED <<takeMu, after, work, pos, lastAcked, attempts, setupVars, seenVars>>

Settle(d) ==
  /\ At(d, "settling")
  /\ IF lastAcked[d] > 0 THEN Ack(lastAcked[d]) ELSE UNCHANGED <<items, nextID, lost>>
  /\ Go(d, "releasing")
  /\ UNCHANGED <<takeMu, after, work, pos, lastAcked, attempts, setupVars, seenVars>>

Unlock(d) ==
  /\ At(d, "releasing")
  /\ Release(d)
  /\ Go(d, after[d])
  /\ work' = [work EXCEPT ![d] = <<>>]
  /\ pos' = [pos EXCEPT ![d] = 1]
  /\ lastAcked' = [lastAcked EXCEPT ![d] = 0]
  /\ after' = [after EXCEPT ![d] = "top"]
  /\ UNCHANGED <<attempts, setupVars, seenVars>>

(* The backoff runs out, or the stop cuts it short.                        *)
BackoffEnds(d) ==
  /\ At(d, "backoff")
  /\ \/ Go(d, "top")
     \/ d \in stopped /\ Go(d, "exited")
  /\ UNCHANGED <<bufVars, after, work, pos, lastAcked, attempts, setupVars, seenVars>>

Run(d) ==
  \/ Top(d)
  \/ DeliverLock(d)
  \/ Collect(d)
  \/ CollectNothing(d)
  \/ NextItem(d)
  \/ Skip(d)
  \/ Post(d)
  \/ Accepted(d)
  \/ Rejected(d)
  \/ GiveUp(d)
  \/ Settle(d)
  \/ Unlock(d)
  \/ BackoffEnds(d)

-----------------------------------------------------------------------------
(* The handlers.                                                           *)

HGo(h, label) == hpc' = [hpc EXCEPT ![h] = label]
StartAfresh == <<takeMu, after, work, pos, lastAcked, attempts, seenVars>>

(***************************************************************************)
(* setWebhook arrives with the URL of d; drop_pending_updates clears       *)
(* before anything is stored.                                              *)
(***************************************************************************)
SetWebhook_NoClear(h, d, drop) ==
  /\ hpc[h] = "idle"
  /\ At(d, "unused")
  /\ Go(d, "reserved")
  /\ hnew' = [hnew EXCEPT ![h] = d]
  /\ firstID' = [firstID EXCEPT ![d] = IF drop THEN nextID ELSE 0]
  /\ HGo(h, "storing")
  /\ UNCHANGED <<items, nextID, lost, StartAfresh, stopped, current, row, htaken>>

SetWebhook(h, d, drop) ==
  /\ hpc[h] = "idle"
  /\ At(d, "unused")
  /\ Go(d, "reserved")
  /\ hnew' = [hnew EXCEPT ![h] = d]
  /\ IF drop THEN Clear ELSE UNCHANGED <<items, nextID, lost>>
  /\ firstID' = [firstID EXCEPT ![d] = IF drop THEN nextID ELSE 0]
  /\ HGo(h, "storing")
  /\ UNCHANGED <<StartAfresh, stopped, current, row, htaken>>

(* UPDATE bots SET ... WHERE token=?: with no row to match it changes      *)
(* nothing and is no error, so the call goes on all the same.              *)
Update(d) == row' = IF row = NoRow THEN NoRow ELSE d

StoreWebhook(h) ==
  /\ hpc[h] = "storing"
  /\ Update(hnew[h])
  /\ HGo(h, "taking")
  /\ UNCHANGED <<bufVars, runVars, stopped, current, hnew, htaken, firstID, seenVars>>

(* SQLite refuses; the call returns an error, and what it dropped is gone. *)
StoreFails(h) ==
  /\ hpc[h] = "storing"
  /\ Go(hnew[h], "unused")
  /\ hnew' = [hnew EXCEPT ![h] = NoDrainer]
  /\ firstID' = [firstID EXCEPT ![hnew[h]] = 0]
  /\ HGo(h, "idle")
  /\ UNCHANGED <<items, nextID, lost, StartAfresh, stopped, current, row, htaken>>

(* deleteWebhook stores first; when that fails it has done nothing.        *)
DeleteWebhook(h) ==
  /\ hpc[h] = "idle"
  /\ Update(NoDrainer)
  /\ \/ HGo(h, "taking")
     \/ HGo(h, "clearing")
  /\ UNCHANGED <<bufVars, runVars, stopped, current, hnew, htaken, firstID, seenVars>>

DropPending(h) ==
  /\ hpc[h] = "clearing"
  /\ Clear
  /\ HGo(h, "taking")
  /\ UNCHANGED <<takeMu, runVars, stopped, current, row, hnew, htaken, firstID, seenVars>>

(* StartWebhook: takeDeliverer, close(stopCh), setDeliverer and go run.    *)
Take(h) ==
  /\ hpc[h] = "taking"
  /\ htaken' = [htaken EXCEPT ![h] = current]
  /\ current' = NoDrainer
  /\ HGo(h, "closing")
  /\ UNCHANGED <<bufVars, runVars, stopped, row, hnew, firstID, seenVars>>

CloseStop_Forgotten(h) ==
  /\ hpc[h] = "closing"
  /\ htaken' = [htaken EXCEPT ![h] = NoDrainer]
  /\ HGo(h, IF hnew[h] = NoDrainer THEN "idle" ELSE "starting")
  /\ UNCHANGED <<bufVars, runVars, stopped, current, row, hnew, firstID, seenVars>>

CloseStop(h) ==
  /\ hpc[h] = "closing"
  /\ stopped' = stopped \cup ({htaken[h]} \ {NoDrainer})
  /\ htaken' = [htaken EXCEPT ![h] = NoDrainer]
  /\ HGo(h, IF hnew[h] = NoDrainer THEN "idle" ELSE "starting")
  /\ UNCHANGED <<bufVars, runVars, current, row, hnew, firstID, seenVars>>

StartRun(h) ==
  /\ hpc[h] = "starting"
  /\ current' = hnew[h]
  /\ Go(hnew[h], "top")
  /\ hnew' = [hnew EXCEPT ![h] = NoDrainer]
  /\ HGo(h, "idle")
  /\ UNCHANGED <<bufVars, after, work, pos, lastAcked, attempts, stopped, row, htaken,
                 firstID, seenVars>>

Handle(h) ==
  \/ \E d \in Deliverers, drop \in BOOLEAN : SetWebhook(h, d, drop)
  \/ StoreWebhook(h)
  \/ StoreFails(h)
  \/ DeleteWebhook(h)
  \/ DropPending(h)
  \/ Take(h)
  \/ CloseStop(h)
  \/ StartRun(h)

HookNext ==
  \/ \E d \in Deliverers : Run(d)
  \/ \E h \in Handlers : Handle(h)
  \/ (\E ok \in BOOLEAN : Push(ok)) /\ UNCHANGED hookVars

HookStart == BufInit /\ HookInit

HookSafety == HookStart /\ [][HookNext]_<<bufVars, hookVars>>

(***************************************************************************)
(* What goes on by itself.  A call that has begun goes on.  A deliverer    *)
(* goes on: the http.Client's 60 s timeout ends every POST and the timer   *)
(* every backoff, and sync's mutex is handed to a goroutine that has       *)
(* waited long enough.  CollectNothing gets no fairness: a Wait with       *)
(* nothing pending may sit there for good (module BufferWait); nor does    *)
(* the arrival of a call.                                                  *)
(***************************************************************************)
Progress(d) ==
  \/ Top(d) \/ Collect(d) \/ NextItem(d) \/ Skip(d) \/ Post(d) \/ Accepted(d)
  \/ Rejected(d) \/ GiveUp(d) \/ Settle(d) \/ Unlock(d) \/ BackoffEnds(d)

Continue(h) ==
  StoreWebhook(h) \/ DropPending(h) \/ Take(h) \/ CloseStop(h) \/ StartRun(h)

HookFairness ==
  /\ \A h \in Handlers : WF_<<bufVars, hookVars>>(Continue(h))
  /\ \A d \in Deliverers : /\ WF_<<bufVars, hookVars>>(Progress(d))
                           /\ SF_<<bufVars, hookVars>>(DeliverLock(d))

HookSpec == HookSafety /\ HookFairness

-----------------------------------------------------------------------------
HookOK == BufTypeOK /\ HookTypeOK

(***************************************************************************)
(* "Webhook deliverer POSTs one update at a time" (README.md:82): over all *)
(* the deliverers of a bot, the stopped and the forgotten ones included,   *)
(* at most one is between taking its items and acking them.                *)
(***************************************************************************)
OnePostAtATime ==
  \A d \in Deliverers : dpc[d] \in Holding <=> takeMu = d

(***************************************************************************)
(* An update whose POST was answered with 2xx, or that was given up, is    *)
(* never POSTed again, by this deliverer or by one that replaces it: what  *)
(* a stop interrupts has acked what it delivered.                          *)
(***************************************************************************)
SettledOnce ==
  \A d \in Deliverers : At(d, "posting") => outcome[Current(d).id] = "none"

(***************************************************************************)
(* Updates are POSTed in order: while one is on its way, every older one   *)
(* is settled, or was evicted or dropped.                                  *)
(***************************************************************************)
InOrder ==
  \A d \in Deliverers : At(d, "posting") =>
    \A n \in 1..(Current(d).id - 1) : outcome[n] # "none" \/ n \in lost

(***************************************************************************)
(* No update is acked before it is settled.                                *)
(***************************************************************************)
SettledOrKept ==
  \A n \in 1..(nextID - 1) : n \in PendingIDs \/ n \in lost \/ outcome[n] # "none"

(***************************************************************************)
(* A deliverer "drops an individual update after 8 attempts" (README.md:83)*)
(* -- after exactly that many attempts, however many rounds, failures of   *)
(* other updates and evictions lie between them.                           *)
(***************************************************************************)
EightAttempts ==
  /\ \A d \in Deliverers, n \in IDs : posts[d][n] <= MaxAttempts
  /\ \A n \in IDs : outcome[n] = "dropped" => \E d \in Deliverers : posts[d][n] = MaxAttempts

(***************************************************************************)
(* A stopped deliverer begins at most one more POST: the item it had       *)
(* checked the stop for.  An update that ends its Wait after the stop is   *)
(* left for its successor.                                                 *)
(***************************************************************************)
StopsPromptly == \A d \in Deliverers : late[d] <= 1

(***************************************************************************)
(* A deliverer started with drop_pending_updates never POSTs an update     *)
(* that was pending when the call arrived.                                 *)
(***************************************************************************)
DroppedNotPosted ==
  \A d \in Deliverers : At(d, "posting") => Current(d).id >= firstID[d]

(***************************************************************************)
(* "so a broken endpoint can't wedge the pipeline" (README.md:83): whatever*)
(* the endpoint answers, a pending update leaves the buffer, unless the    *)
(* bot is left without a webhook.                                          *)
(***************************************************************************)
PipelineMoves ==
  \A n \in IDs : n \in PendingIDs ~> (n \notin PendingIDs \/ current = NoDrainer)
=============================================================================
