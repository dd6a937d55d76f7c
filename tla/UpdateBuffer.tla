---------------------------- MODULE UpdateBuffer ----------------------------
(***************************************************************************)
(* The per-bot queue of MTProto updates (internal/botmgr/updates.go).      *)
(*                                                                         *)
(* Push, Ack, Clear and the snapshot that ends Wait each run under b.mu    *)
(* and are one step here.  takeMu is the drain lock that getUpdates and    *)
(* the webhook deliverer hold from TakeLock to release.  The module is     *)
(* used twice: LongPoll and Webhook build their handlers from its          *)
(* operators, and its own Spec says what the buffer promises whatever the  *)
(* handlers do with it, so that they can be shown to implement it.         *)
(***************************************************************************)
EXTENDS Integers, Sequences

CONSTANTS
  Drainers,    \* the goroutines that may drain the buffer
  NoDrainer,   \* takeMu is free
  Cap,         \* UpdateBuffer.cap
  MaxID        \* bound: the last update_id a behaviour may assign

ASSUME BufferAssumption ==
  /\ NoDrainer \notin Drainers
  /\ Cap \in Nat \ {0}
  /\ MaxID \in Nat

VARIABLES
  items,       \* pending updates, oldest first
  nextID,      \* the update_id of the next Push
  takeMu,      \* the drainer that holds the drain lock, or NoDrainer
  lost         \* history: ids that overflow or Clear removed

bufVars == <<items, nextID, takeMu, lost>>

(***************************************************************************)
(* An updateItem.  Of the MTProto update only one thing matters to the     *)
(* code here: whether tlate.UpdateToBotAPI can translate it (ok), or       *)
(* returns nil for it.                                                     *)
(***************************************************************************)
Item == [id : 1..MaxID, ok : BOOLEAN]

BufTypeOK ==
  /\ items \in Seq(Item)
  /\ nextID \in 1..(MaxID + 1)
  /\ takeMu \in Drainers \cup {NoDrainer}
  /\ lost \subseteq 1..MaxID

BufInit ==
  /\ items = <<>>
  /\ nextID = 1
  /\ takeMu = NoDrainer
  /\ lost = {}

Pending == {items[i] : i \in 1..Len(items)}
PendingIDs == {items[i].id : i \in 1..Len(items)}

-----------------------------------------------------------------------------
(* Push, and its plausible mistakes.                                       *)

Full == Len(items) >= Cap
Room == IF Full THEN Tail(items) ELSE items
Evicted == IF Full THEN {items[1].id} ELSE {}

Push_ReusesID(ok) ==
  /\ nextID <= MaxID
  /\ items' = Append(Room, [id |-> nextID, ok |-> ok])
  /\ nextID' = IF Full THEN nextID ELSE nextID + 1
  /\ lost' = lost \cup Evicted
  /\ UNCHANGED takeMu

Push_DropsNewest(ok) ==
  /\ nextID <= MaxID
  /\ items' = IF Full
                THEN [items EXCEPT ![Len(items)] = [id |-> nextID, ok |-> ok]]
                ELSE Append(items, [id |-> nextID, ok |-> ok])
  /\ nextID' = nextID + 1
  /\ lost' = lost \cup Evicted
  /\ UNCHANGED takeMu

Push(ok) ==
  /\ nextID <= MaxID
  /\ items' = Append(Room, [id |-> nextID, ok |-> ok])
  /\ nextID' = nextID + 1
  /\ lost' = lost \cup Evicted
  /\ UNCHANGED takeMu

-----------------------------------------------------------------------------
(* The drain lock.                                                         *)

TakeLock(d) ==
  /\ takeMu = NoDrainer
  /\ takeMu' = d
  /\ UNCHANGED <<items, nextID, lost>>

Release(d) ==
  /\ takeMu = d
  /\ takeMu' = NoDrainer
  /\ UNCHANGED <<items, nextID, lost>>

-----------------------------------------------------------------------------
(***************************************************************************)
(* The scan Ack, Peek and snapshotLocked share: i advances while           *)
(* items[i].ID < upTo.  Stops(k, upTo) holds of the one k where it stops.  *)
(***************************************************************************)
Stops(k, upTo) ==
  /\ \A j \in 1..k : items[j].id < upTo
  /\ k < Len(items) => items[k + 1].id >= upTo

Ack_Inclusive(upTo) ==
  /\ \E k \in 0..Len(items) :
       /\ Stops(k, upTo + 1)
       /\ items' = SubSeq(items, k + 1, Len(items))
  /\ UNCHANGED <<nextID, lost>>

Ack(upTo) ==
  /\ \E k \in 0..Len(items) :
       /\ Stops(k, upTo)
       /\ items' = SubSeq(items, k + 1, Len(items))
  /\ UNCHANGED <<nextID, lost>>

Clear ==
  /\ items' = <<>>
  /\ lost' = lost \cup PendingIDs
  /\ UNCHANGED nextID

HasReady(offset) == \E i \in 1..Len(items) : items[i].id >= offset

(* The window snapshotLocked copies once the scan stopped at k.            *)
WindowEnd(k, limit) == IF Len(items) - k > limit THEN k + limit ELSE Len(items)

Window(k, limit) == SubSeq(items, k + 1, WindowEnd(k, limit))

-----------------------------------------------------------------------------
(***************************************************************************)
(* What the buffer promises: any mix of pushes, lock operations, acks by   *)
(* the holder of the drain lock, and clears by anyone.                     *)
(***************************************************************************)
BufNext ==
  \/ \E ok \in BOOLEAN : Push(ok)
  \/ \E d \in Drainers :
       \/ TakeLock(d)
       \/ Release(d)
       \/ takeMu = d /\ (\E n \in 1..(MaxID + 1) : Ack(n)) /\ UNCHANGED takeMu
  \/ Clear /\ UNCHANGED takeMu

BufSpec == BufInit /\ [][BufNext]_bufVars

(***************************************************************************)
(* The pending updates are a gap-free run of update_ids that ends at the   *)
(* last one assigned, at most Cap of them: Push never re-assigns an id     *)
(* and loses only the oldest update, and no drain opens a hole.            *)
(***************************************************************************)
GapFree ==
  /\ \A i \in 1..Len(items) : items[i].id = nextID - 1 - Len(items) + i
  /\ Len(items) <= Cap

(***************************************************************************)
(* An update that left the buffer never comes back, and one that stays     *)
(* keeps its id: every step's new items are a suffix of the old ones,      *)
(* followed by at most one update with the next id.                        *)
(***************************************************************************)
NeverReturns ==
  [][\A x \in Pending' : x \in Pending \/ (x.id = nextID /\ nextID' = nextID + 1)]_bufVars
=============================================================================
