------------------------------ MODULE LongPoll ------------------------------
(***************************************************************************)
(* getUpdates (internal/server/methods_updates.go): HTTP handlers that     *)
(* drain the update buffer under the drain lock.                           *)
(*                                                                         *)
(* Each poller is one HTTP handler at a time; when its call returns it may *)
(* be called again with any offset and limit.  A step is a section the     *)
(* code runs under b.mu, or a lock operation; a Push or a Clear may come   *)
(* between any two of them.  Wait is taken at its word here: it returns a  *)
(* snapshot when an update is ready and nothing otherwise.  How it waits   *)
(* is module BufferWait.                                                   *)
(***************************************************************************)
EXTENDS UpdateBuffer

CONSTANTS
  Pollers,     \* concurrent getUpdates calls
  Limits       \* the values of "limit" after clamping to 1..100

ASSUME PollAssumption ==
  /\ Pollers \subseteq Drainers
  /\ Limits \subseteq Nat \ {0}

VARIABLES
  pollPC,      \* where each handler is
  offset,      \* the offset of its call, 0 when absent
  limit,       \* the limit of its call, 0 when it has none
  batch,       \* the snapshot Wait returned to it
  confirmed,   \* history: updates below this were confirmed by an offset
  asked,       \* history: the highest offset a call has acted on
  examined     \* history: ids a call has translated (or found untranslatable)

pollVars == <<pollPC, offset, limit, batch, confirmed, asked, examined>>

Draining == {"acking", "waiting", "translating", "releasing"}

PollTypeOK ==
  /\ pollPC \in [Pollers -> {"idle", "locking"} \cup Draining]
  /\ offset \in [Pollers -> 0..(MaxID + 1)]
  /\ limit \in [Pollers -> Limits \cup {0}]
  /\ \A p \in Pollers : pollPC[p] # "idle" => limit[p] \in Limits
  /\ batch \in [Pollers -> Seq(Item)]
  /\ confirmed \in 0..(MaxID + 1)
  /\ asked \in 0..(MaxID + 1)
  /\ examined \subseteq 1..MaxID

PollInit ==
  /\ pollPC = [p \in Pollers |-> "idle"]
  /\ offset = [p \in Pollers |-> 0]
  /\ limit = [p \in Pollers |-> 0]
  /\ batch = [p \in Pollers |-> <<>>]
  /\ confirmed = 0
  /\ asked = 0
  /\ examined = {}

Goto(p, label) == pollPC' = [pollPC EXCEPT ![p] = label]

-----------------------------------------------------------------------------
(* The call arrives: limit and offset are parsed and clamped.              *)
Call_Unclamped(p) ==
  /\ pollPC[p] = "idle"
  /\ \E n \in 0..(MaxID + 1), l \in Limits \cup {0} :
       /\ offset' = [offset EXCEPT ![p] = n]
       /\ limit' = [limit EXCEPT ![p] = l]
  /\ Goto(p, "locking")
  /\ UNCHANGED <<bufVars, batch, confirmed, asked, examined>>

Call(p) ==
  /\ pollPC[p] = "idle"
  /\ \E n \in 0..(MaxID + 1), l \in Limits :
       /\ offset' = [offset EXCEPT ![p] = n]
       /\ limit' = [limit EXCEPT ![p] = l]
  /\ Goto(p, "locking")
  /\ UNCHANGED <<bufVars, batch, confirmed, asked, examined>>

PollLock_Missing(p) ==
  /\ pollPC[p] = "locking"
  /\ Goto(p, "acking")
  /\ UNCHANGED <<bufVars, offset, limit, batch, confirmed, asked, examined>>

PollLock(p) ==
  /\ pollPC[p] = "locking"
  /\ TakeLock(p)
  /\ Goto(p, "acking")
  /\ UNCHANGED <<offset, limit, batch, confirmed, asked, examined>>

(***************************************************************************)
(* The offset confirms every update below it that exists by now.           *)
(***************************************************************************)
Higher(a, b) == IF a < b THEN b ELSE a
ConfirmedBy(n) == Higher(confirmed, IF n < nextID THEN n ELSE nextID)

Confirm(p) ==
  /\ pollPC[p] = "acking"
  /\ IF offset[p] > 0
       THEN /\ Ack(offset[p])
            /\ confirmed' = ConfirmedBy(offset[p])
            /\ asked' = Higher(asked, offset[p])
       ELSE UNCHANGED <<items, nextID, lost, confirmed, asked>>
  /\ Goto(p, "waiting")
  /\ UNCHANGED <<takeMu, offset, limit, batch, examined>>

-----------------------------------------------------------------------------
(* Wait returns with updates, or with nothing at its deadline, at once     *)
(* when timeout is 0, or when the request's context is cancelled.          *)

WaitReady_Newest(p) ==
  /\ pollPC[p] = "waiting"
  /\ HasReady(offset[p])
  /\ batch' = [batch EXCEPT ![p] =
                 SubSeq(items, IF Len(items) > limit[p] THEN Len(items) - limit[p] + 1 ELSE 1,
                        Len(items))]
  /\ Goto(p, "translating")
  /\ UNCHANGED <<bufVars, offset, limit, confirmed, asked, examined>>

WaitReady(p) ==
  /\ pollPC[p] = "waiting"
  /\ HasReady(offset[p])
  /\ \E k \in 0..Len(items) :
       /\ Stops(k, offset[p])
       /\ batch' = [batch EXCEPT ![p] = Window(k, limit[p])]
  /\ Goto(p, "translating")
  /\ UNCHANGED <<bufVars, offset, limit, confirmed, asked, examined>>

WaitEmpty(p) ==
  /\ pollPC[p] = "waiting"
  /\ ~HasReady(offset[p])
  /\ batch' = [batch EXCEPT ![p] = <<>>]
  /\ Goto(p, "releasing")
  /\ UNCHANGED <<bufVars, offset, limit, confirmed, asked, examined>>

-----------------------------------------------------------------------------
LastID(b) == b[Len(b)].id
BatchIDs(p) == {batch[p][i].id : i \in 1..Len(batch[p])}

(***************************************************************************)
(* Nothing in the batch was translated, or what was comes before lastID.   *)
(***************************************************************************)
TailUntranslatable(b) == \A i \in 1..Len(b) : b[i].ok => b[i].id < LastID(b)

Translate_AcksAll(p) ==
  /\ pollPC[p] = "translating"
  /\ IF TailUntranslatable(batch[p])
       THEN Ack(nextID)
       ELSE UNCHANGED <<items, nextID, lost>>
  /\ examined' = examined \cup BatchIDs(p)
  /\ Goto(p, "releasing")
  /\ UNCHANGED <<takeMu, offset, limit, batch, confirmed, asked>>

(* The batch is translated, and an untranslatable tail is acked.           *)
Translate(p) ==
  /\ pollPC[p] = "translating"
  /\ IF TailUntranslatable(batch[p])
       THEN Ack(LastID(batch[p]) + 1)
       ELSE UNCHANGED <<items, nextID, lost>>
  /\ examined' = examined \cup BatchIDs(p)
  /\ Goto(p, "releasing")
  /\ UNCHANGED <<takeMu, offset, limit, batch, confirmed, asked>>

(* The deferred release runs and the response goes out.                    *)
Return(p) ==
  /\ pollPC[p] = "releasing"
  /\ Release(p)
  /\ offset' = [offset EXCEPT ![p] = 0]
  /\ limit' = [limit EXCEPT ![p] = 0]
  /\ batch' = [batch EXCEPT ![p] = <<>>]
  /\ Goto(p, "idle")
  /\ UNCHANGED <<confirmed, asked, examined>>

PollStep(p) ==
  \/ Call(p)
  \/ PollLock(p)
  \/ Confirm(p)
  \/ WaitReady(p)
  \/ WaitEmpty(p)
  \/ Translate(p)
  \/ Return(p)

-----------------------------------------------------------------------------
(* The transport pushes and a drop_pending_updates clears at any time.     *)

PollNext ==
  \/ \E p \in Pollers : PollStep(p)
  \/ (\E ok \in BOOLEAN : Push(ok)) /\ UNCHANGED pollVars
  \/ Clear /\ UNCHANGED <<takeMu, pollVars>>

PollStart == BufInit /\ PollInit

PollSafety == PollStart /\ [][PollNext]_<<bufVars, pollVars>>

-----------------------------------------------------------------------------
PollOK == BufTypeOK /\ PollTypeOK

(***************************************************************************)
(* The drain lock: a handler past TakeLock holds it, so no two handlers    *)
(* are between TakeLock and release at once (updates.go: "Only one         *)
(* goroutine at a time may drain the buffer").                             *)
(***************************************************************************)
LockHeld == \A p \in Pollers : pollPC[p] \in Draining <=> takeMu = p

(***************************************************************************)
(* Once an offset has confirmed an update, no response contains it again:  *)
(* a poll that took its snapshot before the confirmation must have         *)
(* returned before the confirming call got the drain lock.                 *)
(***************************************************************************)
ConfirmedStaysConfirmed ==
  \A p \in Pollers : pollPC[p] \in {"translating", "releasing"} =>
    \A i \in 1..Len(batch[p]) : batch[p][i].id >= confirmed

(***************************************************************************)
(* A response has no holes: it starts at the call's offset, and whatever   *)
(* is still pending between the offset and its last update is in it, even  *)
(* though pushes, evictions and clears go on while it is translated.       *)
(***************************************************************************)
ResponseHasNoHoles ==
  \A p \in Pollers : pollPC[p] = "translating" =>
    /\ Len(batch[p]) \in 1..limit[p]
    /\ \A i \in 1..Len(batch[p]) : batch[p][i].id >= offset[p]
    /\ \A x \in Pending : offset[p] <= x.id /\ x.id <= LastID(batch[p]) =>
         \E i \in 1..Len(batch[p]) : batch[p][i] = x

(***************************************************************************)
(* Nothing vanishes unseen: an update that has left the buffer was         *)
(* evicted or cleared, was below an offset some call asked for, or had     *)
(* been through the translator of a call.  No auto-ack takes an update     *)
(* that arrived after the snapshot it is based on.  (An offset may run     *)
(* ahead of nextID: a client that polled before a restart sends one.)      *)
(***************************************************************************)
NothingLostUnseen ==
  \A n \in 1..(nextID - 1) :
    n \in PendingIDs \cup lost \cup examined \/ n < asked

(***************************************************************************)
(* "getUpdates without an explicit offset does NOT consume; offset in the  *)
(* next call is what confirms delivery" (methods_updates.go:67): a         *)
(* translatable update leaves the buffer only because an offset passed it, *)
(* or by eviction or Clear.  The code breaks this: when a response ends in *)
(* an untranslatable update, the ack of that tail takes every update       *)
(* before it, the ones just put in the response included.                  *)
(***************************************************************************)
OnlyOffsetsConsume ==
  [][\A x \in Pending \ Pending' : x.ok => x.id \in lost' \/ x.id < asked']_<<bufVars, pollVars>>
=============================================================================
