--------------------------- MODULE Webhook_proofs ---------------------------
(***************************************************************************)
(* First the buffer: what each of its operations preserves, for every Cap  *)
(* and every set of drainers, stated per operation so that the modules     *)
(* that build on the buffer cite it instead of opening it again.           *)
(*                                                                         *)
(* Then the safety of the webhook deliverers for any number of deliverers  *)
(* and of calls that replace them, any capacity, any round and any number  *)
(* of attempts.  HookCore is what holds whoever else uses the buffer under *)
(* the drain lock; with the deliverers its only users, HookInv does.       *)
(***************************************************************************)
EXTENDS Webhook, SequenceTheorems, TLAPS

-----------------------------------------------------------------------------
(* The buffer.                                                             *)

BufInv == BufTypeOK /\ GapFree

(***************************************************************************)
(* The facts every step starts from, in the form the provers use them.     *)
(***************************************************************************)
LEMMA Shape ==
  ASSUME BufInv
  PROVE  /\ MaxID \in Nat /\ Cap \in Nat /\ Cap >= 1
         /\ items \in Seq(Item) /\ Len(items) \in Nat /\ Len(items) <= Cap
         /\ nextID \in Nat /\ nextID >= 1 /\ nextID <= MaxID + 1
         /\ \A i \in 1..Len(items) :
              /\ items[i] \in Item
              /\ items[i].id \in 1..MaxID
              /\ items[i].id = nextID - 1 - Len(items) + i
<1>1. MaxID \in Nat /\ Cap \in Nat /\ Cap >= 1
  BY BufferAssumption
<1>2. items \in Seq(Item) /\ nextID \in 1..(MaxID + 1)
  BY DEF BufInv, BufTypeOK
<1>3. Len(items) \in Nat
  BY <1>2
<1>4. /\ Len(items) <= Cap
      /\ \A i \in 1..Len(items) : items[i].id = nextID - 1 - Len(items) + i
  BY DEF BufInv, GapFree
<1>5. \A i \in 1..Len(items) : items[i] \in Item
  BY <1>2
<1>6. \A i \in 1..Len(items) : items[i].id \in 1..MaxID
  BY <1>5 DEF Item
<1> QED BY <1>1, <1>2, <1>3, <1>4, <1>5, <1>6

LEMMA PendingTyped == ASSUME BufInv PROVE PendingIDs \subseteq 1..MaxID
BY Shape DEF PendingIDs

(***************************************************************************)
(* Dropping the first k items keeps the window's type and its shape.       *)
(***************************************************************************)
LEMMA SuffixGapFree ==
  ASSUME BufInv, NEW k \in 0..Len(items),
         items' = SubSeq(items, k + 1, Len(items)), UNCHANGED nextID
  PROVE  /\ items' \in Seq(Item)
         /\ Len(items') = Len(items) - k
         /\ \A i \in 1..Len(items') : items'[i] = items[k + i]
         /\ GapFree'
<1>1. /\ items' \in Seq(Item)
      /\ Len(items') = Len(items) - k
      /\ \A i \in 1..Len(items') : items'[i] = items[k + i]
  BY Shape
<1>2. ASSUME NEW i \in 1..Len(items')
      PROVE  items'[i].id = nextID' - 1 - Len(items') + i
  <2>1. k + i \in 1..Len(items)
    BY <1>1, Shape
  <2>2. items[k + i].id = nextID - 1 - Len(items) + (k + i)
    BY <2>1, Shape
  <2>3. items'[i].id = items[k + i].id /\ Len(items') = Len(items) - k /\ nextID' = nextID
    BY <1>1
  <2>4. Len(items) \in Nat /\ nextID \in Nat
    BY Shape
  <2>5. nextID - 1 - Len(items) + (k + i) = nextID - 1 - (Len(items) - k) + i
    BY <2>4
  <2> QED BY <2>2, <2>3, <2>5
<1>3. Len(items') <= Cap
  BY <1>1, Shape
<1> QED BY <1>1, <1>2, <1>3 DEF GapFree

(* Push keeps the window gap-free: the id it assigns is one past the last. *)
LEMMA PushKeeps ==
  ASSUME BufInv, NEW ok \in BOOLEAN, Push(ok)
  PROVE  BufInv'
<1> DEFINE new == [id |-> nextID, ok |-> ok]
<1>1. /\ new \in Item
      /\ nextID' = nextID + 1 /\ nextID' \in 1..(MaxID + 1)
      /\ takeMu' \in Drainers \cup {NoDrainer}
  BY Shape DEF Push, Item, BufInv, BufTypeOK
<1>2. new.id = nextID
  OBVIOUS
<1> HIDE DEF new
<1>3. CASE ~Full
  <2>1. items' = Append(items, new)
    BY <1>3 DEF Push, Room, new
  <2>2. items' \in Seq(Item) /\ Len(items') = Len(items) + 1
        /\ \A i \in 1..Len(items') : items'[i] = IF i <= Len(items) THEN items[i] ELSE new
    BY <1>1, <2>1, Shape
  <2>3. ASSUME NEW i \in 1..Len(items')
        PROVE  items'[i].id = nextID' - 1 - Len(items') + i
    <3>1. Len(items) \in Nat /\ nextID \in Nat
      BY Shape
    <3>2. CASE i <= Len(items)
      <4>1. items'[i].id = items[i].id
        BY <2>2, <3>2
      <4>2. items[i].id = nextID - 1 - Len(items) + i
        BY <3>1, <3>2, Shape
      <4> QED BY <1>1, <2>2, <3>1, <4>1, <4>2
    <3>3. CASE i = Len(items) + 1
      <4>1. items'[i].id = new.id
        BY <2>2, <3>1, <3>3
      <4> QED BY <1>1, <1>2, <2>2, <3>1, <3>3, <4>1
    <3> QED BY <2>2, <3>1, <3>2, <3>3
  <2>4. Len(items') <= Cap
    BY <2>2, <1>3, Shape DEF Full
  <2>5. lost' = lost
    BY <1>3 DEF Push, Evicted
  <2> QED BY <1>1, <2>2, <2>3, <2>4, <2>5 DEF BufInv, BufTypeOK, GapFree
<1>4. CASE Full
  <2>1. Len(items) = Cap /\ Len(items) >= 1
    BY <1>4, Shape DEF Full
  <2>2. items' = Append(Tail(items), new)
    BY <1>4 DEF Push, Room, new
  <2>3. Tail(items) \in Seq(Item) /\ Len(Tail(items)) = Len(items) - 1
        /\ \A i \in 1..(Len(items) - 1) : Tail(items)[i] = items[i + 1]
    BY <2>1, Shape
  <2>4. items' \in Seq(Item) /\ Len(items') = Len(items)
        /\ \A i \in 1..Len(items') : items'[i] = IF i < Len(items) THEN items[i + 1] ELSE new
    <3>1. Len(items) \in Nat /\ Len(Tail(items)) \in Nat /\ Len(Tail(items)) + 1 = Len(items)
      BY <2>3, Shape
    <3> DEFINE t == Tail(items)
    <3>2. items' = Append(t, new) /\ t \in Seq(Item) /\ new \in Item
          /\ \A i \in 1..Len(t) : t[i] = items[i + 1]
      BY <1>1, <2>2, <2>3
    <3>3. Len(t) \in Nat /\ Len(t) + 1 = Len(items)
      BY <3>1
    <3> HIDE DEF t
    <3>4. /\ items' \in Seq(Item) /\ Len(items') = Len(t) + 1
          /\ \A i \in 1..Len(t) : items'[i] = t[i]
          /\ items'[Len(t) + 1] = new
      BY <3>2, <3>3
    <3>5. ASSUME NEW i \in 1..Len(items')
          PROVE  items'[i] = IF i < Len(items) THEN items[i + 1] ELSE new
      <4>1. CASE i \in 1..Len(t)
        <5>1. i < Len(items)
          BY <3>3, <4>1
        <5> QED BY <3>2, <3>4, <4>1, <5>1
      <4>2. CASE i = Len(t) + 1
        <5>1. ~(i < Len(items))
          BY <3>3, <4>2
        <5> QED BY <3>4, <4>2, <5>1
      <4> QED BY <3>3, <3>4, <4>1, <4>2
    <3> QED BY <3>3, <3>4, <3>5
  <2>5. ASSUME NEW i \in 1..Len(items')
        PROVE  items'[i].id = nextID' - 1 - Len(items') + i
    <3>1. Len(items) \in Nat /\ nextID \in Nat
      BY Shape
    <3>2. CASE i < Len(items)
      <4>1. items'[i].id = items[i + 1].id
        BY <2>4, <3>2
      <4>2. items[i + 1].id = nextID - 1 - Len(items) + (i + 1)
        BY <3>1, <3>2, Shape
      <4> QED BY <1>1, <2>4, <3>1, <4>1, <4>2
    <3>3. CASE i = Len(items)
      <4>1. items'[i].id = new.id
        BY <2>4, <3>1, <3>3
      <4> QED BY <1>1, <1>2, <2>4, <3>1, <3>3, <4>1
    <3> QED BY <2>4, <3>1, <3>2, <3>3
  <2>6. items[1].id \in 1..MaxID
    BY <2>1, Shape
  <2>7. lost' \subseteq 1..MaxID
    BY <1>4, <2>6 DEF Push, Evicted, BufInv, BufTypeOK
  <2> QED BY <1>1, <2>1, <2>4, <2>5, <2>7, Shape DEF BufInv, BufTypeOK, GapFree
<1> QED BY <1>3, <1>4

(***************************************************************************)
(* What a Push adds carries an id above every other; what it takes away it *)
(* records as lost.                                                        *)
(***************************************************************************)
LEMMA PushMoves ==
  ASSUME BufInv, NEW ok \in BOOLEAN, Push(ok)
  PROVE  /\ \A x \in Pending' : x \in Pending \/ x.id = nextID
         /\ \A m \in PendingIDs' : m \in PendingIDs \/ m = nextID
         /\ \A m \in PendingIDs : m \in PendingIDs' \/ m \in lost'
         /\ nextID \in PendingIDs'
         /\ nextID' = nextID + 1 /\ lost \subseteq lost' /\ takeMu' = takeMu
<1> DEFINE new == [id |-> nextID, ok |-> ok]
<1>1. /\ items' = Append(Room, new)
      /\ nextID' = nextID + 1 /\ lost' = lost \cup Evicted /\ takeMu' = takeMu
  BY DEF Push
<1>2. new \in Item /\ new.id = nextID
  BY Shape DEF Push, Item
<1> HIDE DEF new
<1>3. /\ Room \in Seq(Item)
      /\ \A i \in 1..Len(Room) : \E j \in 1..Len(items) : Room[i] = items[j]
      /\ \A j \in 1..Len(items) :
           (\E i \in 1..Len(Room) : Room[i] = items[j]) \/ items[j].id \in Evicted
  <2>1. CASE ~Full
    BY <2>1, Shape DEF Room
  <2>2. CASE Full
    <3>1. Len(items) >= 1 /\ Room = Tail(items) /\ Evicted = {items[1].id}
      BY <2>2, Shape DEF Full, Room, Evicted
    <3>2. /\ Room \in Seq(Item) /\ Len(Room) = Len(items) - 1
          /\ \A i \in 1..(Len(items) - 1) : Room[i] = items[i + 1]
      BY <3>1, Shape
    <3>3. ASSUME NEW i \in 1..Len(Room) PROVE \E j \in 1..Len(items) : Room[i] = items[j]
      <4>1. i + 1 \in 1..Len(items)
        BY <3>1, <3>2, Shape
      <4> QED BY <3>2, <4>1
    <3>4. ASSUME NEW j \in 1..Len(items), j # 1
          PROVE  \E i \in 1..Len(Room) : Room[i] = items[j]
      <4>1. j - 1 \in 1..Len(Room) /\ (j - 1) + 1 = j
        BY <3>1, <3>2, <3>4, Shape
      <4> QED BY <3>2, <4>1
    <3> QED BY <3>1, <3>2, <3>3, <3>4
  <2> QED BY <2>1, <2>2
<1>4. /\ Len(Room) \in Nat /\ Len(items') = Len(Room) + 1
      /\ \A i \in 1..Len(Room) : items'[i] = Room[i]
      /\ items'[Len(Room) + 1] = new
  BY <1>1, <1>2, <1>3
<1>5. ASSUME NEW i \in 1..Len(items')
      PROVE  items'[i] = new \/ \E j \in 1..Len(items) : items'[i] = items[j]
  BY <1>3, <1>4
<1>6. ASSUME NEW j \in 1..Len(items)
      PROVE  (\E i \in 1..Len(items') : items'[i] = items[j]) \/ items[j].id \in Evicted
  <2>1. CASE items[j].id \in Evicted
    BY <2>1
  <2>2. ASSUME NEW i \in 1..Len(Room), Room[i] = items[j]
        PROVE  \E k \in 1..Len(items') : items'[k] = items[j]
    <3>1. i \in 1..Len(items') /\ items'[i] = items[j]
      BY <1>4, <2>2
    <3> QED BY <3>1
  <2> QED BY <1>3, <2>1, <2>2
<1>7. \A x \in Pending' : x \in Pending \/ x = new
  BY <1>5 DEF Pending
<1>8. \A m \in PendingIDs' : m \in PendingIDs \/ m = nextID
  BY <1>2, <1>5 DEF PendingIDs
<1>9. \A m \in PendingIDs : m \in PendingIDs' \/ m \in lost'
  BY <1>1, <1>6 DEF PendingIDs
<1>10. nextID \in PendingIDs'
  <2>1. Len(Room) + 1 \in 1..Len(items')
    BY <1>4
  <2> QED BY <1>2, <1>4, <2>1 DEF PendingIDs
<1> QED BY <1>1, <1>2, <1>7, <1>8, <1>9, <1>10

(* Ack drops a prefix, so what is left is still the end of the window.     *)
LEMMA AckKeeps ==
  ASSUME BufInv, NEW n \in Nat, Ack(n), UNCHANGED takeMu
  PROVE  /\ BufInv'
         /\ \A i \in 1..Len(items') : items'[i].id >= n
         /\ PendingIDs' \subseteq PendingIDs
         /\ Pending' \subseteq Pending
         /\ \A m \in PendingIDs : m >= n => m \in PendingIDs'
<1>1. PICK k \in 0..Len(items) : Stops(k, n) /\ items' = SubSeq(items, k + 1, Len(items))
  BY DEF Ack
<1>2. UNCHANGED <<nextID, lost>>
  BY DEF Ack
<1>3. /\ items' \in Seq(Item)
      /\ Len(items') = Len(items) - k
      /\ \A i \in 1..Len(items') : items'[i] = items[k + i]
      /\ GapFree'
  BY <1>1, <1>2, SuffixGapFree
<1>4. BufInv'
  BY <1>2, <1>3 DEF BufInv, BufTypeOK
<1>5. \A i \in 1..Len(items') : items'[i].id >= n
  <2> SUFFICES ASSUME NEW i \in 1..Len(items') PROVE items'[i].id >= n
    OBVIOUS
  <2>1. k + i \in 1..Len(items) /\ k + 1 \in 1..Len(items) /\ k < Len(items)
    BY <1>3, Shape
  <2>2. items[k + 1].id >= n
    BY <1>1, <2>1 DEF Stops
  <2>3. items[k + i].id = nextID - 1 - Len(items) + (k + i)
        /\ items[k + 1].id = nextID - 1 - Len(items) + (k + 1)
    BY <2>1, Shape
  <2>4. nextID \in Nat /\ Len(items) \in Nat /\ k \in Nat /\ i \in Nat /\ i >= 1
    BY <1>3, Shape
  <2>5. items[k + i].id >= items[k + 1].id
    BY <2>3, <2>4
  <2>6. items'[i].id = items[k + i].id
    BY <1>3
  <2>7. items[k + i].id \in Int /\ items[k + 1].id \in Int
    BY <2>3, <2>4
  <2> QED BY <2>2, <2>5, <2>6, <2>7
<1>6. PendingIDs' \subseteq PendingIDs /\ Pending' \subseteq Pending
  <2> SUFFICES ASSUME NEW i \in 1..Len(items')
               PROVE  items'[i].id \in PendingIDs /\ items'[i] \in Pending
    BY DEF PendingIDs, Pending
  <2>1. k + i \in 1..Len(items)
    BY <1>3, Shape
  <2> QED BY <1>3, <2>1 DEF PendingIDs, Pending
<1>7. ASSUME NEW j \in 1..Len(items), items[j].id >= n
      PROVE  items[j].id \in PendingIDs'
  <2>1. j > k
    BY <1>1, <1>7, Shape DEF Stops
  <2>2. j - k \in 1..Len(items') /\ k + (j - k) = j
    BY <1>3, <2>1, Shape
  <2>3. items'[j - k] = items[j]
    BY <1>3, <2>2
  <2> QED BY <2>2, <2>3 DEF PendingIDs
<1> QED BY <1>4, <1>5, <1>6, <1>7 DEF PendingIDs

LEMMA ClearKeeps ==
  ASSUME BufInv, Clear, UNCHANGED takeMu
  PROVE  BufInv'
<1>1. lost' \subseteq 1..MaxID
  BY PendingTyped DEF Clear, BufInv, BufTypeOK
<1>2. items' = <<>> /\ nextID' = nextID
  BY DEF Clear
<1> QED BY <1>1, <1>2, Shape DEF BufInv, BufTypeOK, GapFree

LEMMA LockKeeps ==
  ASSUME BufInv, NEW d \in Drainers, TakeLock(d) \/ Release(d)
  PROVE  BufInv'
BY DEF BufInv, BufTypeOK, GapFree, TakeLock, Release

(***************************************************************************)
(* A snapshot of a non-empty rest of the buffer: its length, its items.    *)
(***************************************************************************)
LEMMA WindowItems ==
  ASSUME BufInv, NEW k \in 0..Len(items), k < Len(items), NEW l \in Nat \ {0}
  PROVE  /\ Window(k, l) \in Seq(Item)
         /\ Len(Window(k, l)) \in 1..l
         /\ k + Len(Window(k, l)) <= Len(items)
         /\ \A i \in 1..Len(Window(k, l)) : Window(k, l)[i] = items[k + i]
<1> DEFINE e == WindowEnd(k, l)
<1>1. e \in (k + 1)..Len(items) /\ e - k <= l
  BY Shape DEF WindowEnd
<1>2. Window(k, l) = SubSeq(items, k + 1, e)
  BY DEF Window
<1> HIDE DEF e
<1>3. /\ SubSeq(items, k + 1, e) \in Seq(Item)
      /\ Len(SubSeq(items, k + 1, e)) = e - k
      /\ \A i \in 1..(e - k) : SubSeq(items, k + 1, e)[i] = items[k + i]
  BY <1>1, Shape
<1>4. k \in Nat /\ e \in Nat /\ Len(items) \in Nat /\ e - k \in 1..l /\ k + (e - k) <= Len(items)
  BY <1>1, Shape
<1>5. /\ Window(k, l) \in Seq(Item) /\ Len(Window(k, l)) = e - k
      /\ \A i \in 1..(e - k) : Window(k, l)[i] = items[k + i]
  BY <1>2, <1>3
<1> QED BY <1>4, <1>5

LEMMA BufInitInv == BufInit => BufInv
BY BufferAssumption DEF BufInit, BufInv, BufTypeOK, GapFree

LEMMA BufNextInv == BufInv /\ [BufNext]_bufVars => BufInv'
<1> SUFFICES ASSUME BufInv, [BufNext]_bufVars PROVE BufInv'
  OBVIOUS
<1>1. ASSUME NEW ok \in BOOLEAN, Push(ok) PROVE BufInv'
  BY <1>1, PushKeeps
<1>2. ASSUME NEW d \in Drainers, TakeLock(d) \/ Release(d) PROVE BufInv'
  BY <1>2, LockKeeps
<1>3. ASSUME NEW n \in 1..(MaxID + 1), Ack(n), UNCHANGED takeMu PROVE BufInv'
  BY <1>3, AckKeeps, BufferAssumption
<1>4. CASE Clear /\ UNCHANGED takeMu
  BY <1>4, ClearKeeps
<1>5. CASE UNCHANGED bufVars
  BY <1>5 DEF bufVars, BufInv, BufTypeOK, GapFree
<1> QED BY <1>1, <1>2, <1>3, <1>4, <1>5 DEF BufNext

(***************************************************************************)
(* What any use of the buffer may do, in the form the handlers that look   *)
(* on need it: an item that is new carries the next id.                    *)
(***************************************************************************)
LEMMA BufMoves ==
  ASSUME BufInv, [BufNext]_bufVars
  PROVE  /\ BufInv'
         /\ nextID' = nextID \/ nextID' = nextID + 1
         /\ \A x \in Pending' : x \in Pending \/ x.id = nextID
         /\ \A m \in PendingIDs' : m \in 1..MaxID /\ (m \in PendingIDs \/ m = nextID)
         /\ lost \subseteq lost'
         /\ \A n \in 1..(nextID' - 1) : n \in 1..(nextID - 1) \/ n \in PendingIDs'
<1>1. BufInv' /\ nextID \in Nat
  BY BufNextInv, Shape
<1>2. PendingIDs' \subseteq 1..MaxID
  <2>1. items' \in Seq(Item)
    BY <1>1 DEF BufInv, BufTypeOK
  <2>2. \A i \in 1..Len(items') : items'[i] \in Item
    BY <2>1
  <2> QED BY <2>2 DEF PendingIDs, Item
<1>3. ASSUME NEW ok \in BOOLEAN, Push(ok)
      PROVE  /\ nextID' = nextID + 1 /\ lost \subseteq lost'
             /\ \A x \in Pending' : x \in Pending \/ x.id = nextID
             /\ \A m \in PendingIDs' : m \in PendingIDs \/ m = nextID
             /\ \A n \in 1..(nextID' - 1) : n \in 1..(nextID - 1) \/ n \in PendingIDs'
  <2>1. /\ nextID' = nextID + 1 /\ lost \subseteq lost' /\ nextID \in PendingIDs'
        /\ \A x \in Pending' : x \in Pending \/ x.id = nextID
        /\ \A m \in PendingIDs' : m \in PendingIDs \/ m = nextID
    BY <1>3, PushMoves
  <2>2. \A n \in 1..(nextID' - 1) : n \in 1..(nextID - 1) \/ n = nextID
    BY <1>1, <2>1
  <2> QED BY <2>1, <2>2
<1>4. ASSUME NEW d \in Drainers, TakeLock(d) \/ Release(d)
      PROVE  nextID' = nextID /\ lost \subseteq lost' /\ Pending' \subseteq Pending /\ PendingIDs' \subseteq PendingIDs
  BY <1>4 DEF TakeLock, Release, Pending, PendingIDs
<1>5. ASSUME NEW n \in 1..(MaxID + 1), Ack(n), UNCHANGED takeMu
      PROVE  nextID' = nextID /\ lost \subseteq lost' /\ Pending' \subseteq Pending /\ PendingIDs' \subseteq PendingIDs
  <2>1. n \in Nat
    BY BufferAssumption
  <2> QED BY <1>5, <2>1, AckKeeps DEF Ack
<1>6. ASSUME Clear
      PROVE  nextID' = nextID /\ lost \subseteq lost' /\ Pending' \subseteq Pending /\ PendingIDs' \subseteq PendingIDs
  BY <1>6 DEF Clear, Pending, PendingIDs
<1>7. CASE UNCHANGED bufVars
  BY <1>1, <1>2, <1>7 DEF bufVars, Pending, PendingIDs
<1> QED BY <1>1, <1>2, <1>3, <1>4, <1>5, <1>6, <1>7 DEF BufNext

(***************************************************************************)
(* Whatever the handlers do, update_ids are never re-assigned: the pending *)
(* updates are always a gap-free run of ids ending at the last one pushed, *)
(* never longer than Cap.                                                  *)
(***************************************************************************)
THEOREM BufferGapFree == BufSpec => [](BufTypeOK /\ GapFree)
<1>1. BufInv => BufTypeOK /\ GapFree
  BY DEF BufInv
<1> QED BY <1>1, BufInitInv, BufNextInv, PTL DEF BufSpec

(***************************************************************************)
(* No update that left the buffer comes back, and only a Push adds one.    *)
(***************************************************************************)
THEOREM BufferNeverReturns == BufSpec => NeverReturns
<1> DEFINE Added == \A x \in Pending' : x \in Pending \/ (x.id = nextID /\ nextID' = nextID + 1)
<1>1. BufInv /\ [BufNext]_bufVars => [Added]_bufVars
  <2> SUFFICES ASSUME BufInv, BufNext PROVE Added
    OBVIOUS
  <2>1. ASSUME NEW ok \in BOOLEAN, Push(ok) PROVE Added
    BY <2>1, PushMoves
  <2>2. ASSUME NEW d \in Drainers, TakeLock(d) \/ Release(d) PROVE Added
    BY <2>2 DEF TakeLock, Release, Pending
  <2>3. ASSUME NEW n \in 1..(MaxID + 1), Ack(n), UNCHANGED takeMu PROVE Added
    BY <2>3, AckKeeps, BufferAssumption
  <2>4. CASE Clear
    BY <2>4 DEF Clear, Pending
  <2> QED BY <2>1, <2>2, <2>3, <2>4 DEF BufNext
<1> QED BY <1>1, BufInitInv, BufNextInv, PTL DEF BufSpec, NeverReturns

-----------------------------------------------------------------------------
(* The deliverers.                                                         *)

Labels == {"unused", "reserved", "top", "locking", "backoff", "exited"} \cup Holding
Ends == {"top", "backoff", "exited"}

-----------------------------------------------------------------------------
(* The inductive invariant.                                                *)

(* The deliverer a setWebhook call is going to start is its own, and has   *)
(* not run.                                                                *)
Reserved ==
  /\ \A h \in Handlers : hpc[h] \in {"storing", "starting"} => hnew[h] # NoDrainer
  /\ \A h \in Handlers : hnew[h] # NoDrainer => dpc[hnew[h]] = "reserved"
  /\ \A g, h \in Handlers : g # h /\ hnew[g] = hnew[h] => hnew[h] = NoDrainer

(* The items of a round are consecutive, and the oldest that were pending; *)
(* those before pos are settled, the others are not, and lastAcked is one  *)
(* above the last that is.                                                 *)
Round(d) ==
  /\ Len(work[d]) >= 1
  /\ \A i \in 1..Len(work[d]) :
       /\ work[d][i].id = work[d][1].id + i - 1
       /\ work[d][i].id < nextID
       /\ outcome[work[d][i].id] = "none" <=> i >= pos[d]
  /\ \A m \in PendingIDs : m >= work[d][1].id
  /\ lastAcked[d] = IF pos[d] = 1 THEN 0 ELSE work[d][1].id + pos[d] - 1
  /\ dpc[d] \in {"translating", "posting"} => pos[d] <= Len(work[d])
  /\ work[d][1].id >= firstID[d]

RoundsOK == \A d \in Deliverers : dpc[d] \in Delivering => Round(d)

(* A settled update that is still pending is about to be acked.            *)
SettledIsLeaving ==
  /\ \A m \in PendingIDs : outcome[m] # "none" =>
       \E d \in Deliverers : dpc[d] \in Delivering /\ m < lastAcked[d]
  /\ \A n \in IDs : n >= nextID => outcome[n] = "none"

(* Nothing a deliverer was set up to drop is pending.                      *)
DropsGone ==
  \A d \in Deliverers : firstID[d] <= nextID /\ \A m \in PendingIDs : m >= firstID[d]

(* A deliverer that has begun a POST after its stop is on its way out.     *)
LateOnce ==
  \A d \in Deliverers : late[d] > 0 =>
    late[d] = 1 /\ d \in stopped /\ dpc[d] \notin {"locking", "waiting", "translating"}

(* The POSTs of an update that is not settled all failed, but for the one  *)
(* on its way.                                                             *)
Posting(d, n) == At(d, "posting") /\ Current(d).id = n

Counted ==
  \A d \in Deliverers, n \in IDs : outcome[n] = "none" =>
    posts[d][n] = attempts[d][n] + (IF Posting(d, n) THEN 1 ELSE 0)

HookCore ==
  /\ BufInv
  /\ HookTypeOK
  /\ OnePostAtATime
  /\ Reserved
  /\ RoundsOK
  /\ SettledIsLeaving
  /\ DropsGone
  /\ LateOnce
  /\ Counted
  /\ EightAttempts

HookInv == HookCore /\ SettledOrKept

(***************************************************************************)
(* A step accounts for what it takes from the buffer, and what is settled  *)
(* stays so.                                                               *)
(***************************************************************************)
Accounts ==
  /\ lost \subseteq lost'
  /\ \A n \in IDs : outcome[n] # "none" => outcome'[n] # "none"
  /\ \A n \in 1..(nextID' - 1) : n \in 1..(nextID - 1) \/ n \in PendingIDs'
  /\ \A n \in PendingIDs : n \in PendingIDs' \cup lost' \/ outcome'[n] # "none"

-----------------------------------------------------------------------------
LEMMA HookTyped ==
  ASSUME HookCore, NEW d \in Deliverers
  PROVE  /\ d \in Drainers /\ d # NoDrainer
         /\ MaxID \in Nat /\ nextID \in Nat /\ MaxAttempts \in Nat \ {0}
         /\ work[d] \in Seq(Item) /\ Len(work[d]) \in Nat
         /\ \A i \in 1..Len(work[d]) : work[d][i] \in Item /\ work[d][i].id \in IDs
         /\ pos[d] \in Nat /\ pos[d] >= 1 /\ pos[d] <= Len(work[d]) + 1
         /\ lastAcked[d] \in Nat /\ firstID[d] \in Nat /\ late[d] \in Nat
<1>1. d \in Drainers /\ d # NoDrainer
  BY WebhookAssumption, BufferAssumption
<1>2. MaxID \in Nat /\ nextID \in Nat /\ MaxAttempts \in Nat \ {0}
  BY Shape, WebhookAssumption DEF HookCore
<1>3. work[d] \in Seq(Item) /\ Len(work[d]) \in Nat
  BY DEF HookCore, HookTypeOK
<1>4. ASSUME NEW i \in 1..Len(work[d]) PROVE work[d][i] \in Item /\ work[d][i].id \in IDs
  <2>1. work[d][i] \in Item
    BY <1>3
  <2> QED BY <2>1 DEF Item, IDs
<1>5. pos[d] \in 1..(Len(work[d]) + 1) /\ late[d] \in 0..2
      /\ lastAcked[d] \in 0..(MaxID + 1) /\ firstID[d] \in 0..(MaxID + 1)
  BY DEF HookCore, HookTypeOK
<1> QED BY <1>1, <1>2, <1>3, <1>4, <1>5

LEMMA OnlyHolder ==
  ASSUME HookCore, NEW d \in Deliverers, dpc[d] \in Holding,
         NEW e \in Deliverers, dpc[e] \in Holding
  PROVE  e = d
BY DEF HookCore, OnePostAtATime

(* The item in hand.                                                       *)
LEMMA InHand ==
  ASSUME HookCore, NEW d \in Deliverers, dpc[d] \in {"translating", "posting"}
  PROVE  /\ Round(d) /\ dpc[d] \in Holding
         /\ pos[d] \in 1..Len(work[d]) /\ Current(d) = work[d][pos[d]]
         /\ Current(d).id \in IDs /\ Current(d).id \in Nat
         /\ Current(d).id = work[d][1].id + pos[d] - 1
         /\ work[d][1].id \in IDs
         /\ Current(d).id < nextID
         /\ outcome[Current(d).id] = "none"
         /\ Current(d).id >= firstID[d]
         /\ lastAcked[d] <= Current(d).id
<1>1. Round(d) /\ dpc[d] \in Holding
  BY DEF HookCore, RoundsOK, Delivering, Holding
<1>2. pos[d] \in 1..Len(work[d]) /\ 1 \in 1..Len(work[d])
  BY <1>1, HookTyped DEF Round
<1>3. Current(d) = work[d][pos[d]]
  BY DEF Current
<1>4. Current(d).id \in IDs /\ work[d][1].id \in IDs
  BY <1>2, <1>3, HookTyped
<1>5. /\ Current(d).id = work[d][1].id + pos[d] - 1
      /\ Current(d).id < nextID
      /\ outcome[Current(d).id] = "none"
      /\ work[d][1].id >= firstID[d]
  BY <1>1, <1>2, <1>3, HookTyped DEF Round
<1>6. Current(d).id \in Nat /\ work[d][1].id \in Nat /\ work[d][1].id >= 1
  BY <1>4, HookTyped DEF IDs
<1>7. Current(d).id >= firstID[d]
  <2>1. pos[d] \in Nat /\ pos[d] >= 1 /\ firstID[d] \in Nat
    BY HookTyped
  <2> QED BY <1>5, <1>6, <2>1
<1>8. lastAcked[d] = 0 \/ lastAcked[d] = work[d][1].id + pos[d] - 1
  BY <1>1 DEF Round
<1>9. lastAcked[d] <= Current(d).id
  BY <1>5, <1>6, <1>8
<1> QED BY <1>1, <1>2, <1>3, <1>4, <1>5, <1>6, <1>7, <1>9

-----------------------------------------------------------------------------
(* A process that has begun: nothing is pending and nobody runs, whichever *)
(* deliverers there were and whatever URL is stored.                       *)
Fresh ==
  /\ BufInit
  /\ dpc \in [Deliverers -> {"unused", "exited"}]
  /\ row \in Deliverers \cup {NoDrainer, NoRow}
  /\ after = [d \in Deliverers |-> "top"]
  /\ work = [d \in Deliverers |-> <<>>]
  /\ pos = [d \in Deliverers |-> 1]
  /\ lastAcked = [d \in Deliverers |-> 0]
  /\ attempts = [d \in Deliverers |-> [n \in IDs |-> 0]]
  /\ stopped = {}
  /\ current = NoDrainer
  /\ hpc = [h \in Handlers |-> "idle"]
  /\ hnew = [h \in Handlers |-> NoDrainer]
  /\ htaken = [h \in Handlers |-> NoDrainer]
  /\ outcome = [n \in IDs |-> "none"]
  /\ posts = [d \in Deliverers |-> [n \in IDs |-> 0]]
  /\ late = [d \in Deliverers |-> 0]
  /\ firstID = [d \in Deliverers |-> 0]

LEMMA FreshInv == Fresh => HookInv
<1> SUFFICES ASSUME Fresh PROVE HookInv
  OBVIOUS
<1>1. BufInv /\ MaxID \in Nat /\ MaxAttempts \in Nat \ {0} /\ NoDrainer \notin Deliverers
  BY BufInitInv, BufferAssumption, WebhookAssumption DEF Fresh
<1>2. HookTypeOK
  <2>1. dpc \in [Deliverers -> Labels] /\ after \in [Deliverers -> Ends]
    BY DEF Fresh, Labels, Ends
  <2>2. pos \in [Deliverers -> Nat] /\ \A d \in Deliverers : work[d] = <<>> /\ pos[d] = 1
    BY DEF Fresh
  <2>3. work \in [Deliverers -> Seq(Item)]
    BY DEF Fresh
  <2>4. \A d \in Deliverers : pos[d] \in 1..(Len(work[d]) + 1)
    BY <2>2
  <2>5. attempts \in [Deliverers -> [IDs -> 0..(MaxAttempts - 1)]]
    <3>1. [n \in IDs |-> 0] \in [IDs -> 0..(MaxAttempts - 1)]
      BY <1>1
    <3> QED BY <3>1 DEF Fresh
  <2>6. posts \in [Deliverers -> [IDs -> 0..(MaxAttempts + 1)]]
    <3>1. [n \in IDs |-> 0] \in [IDs -> 0..(MaxAttempts + 1)]
      BY <1>1
    <3> QED BY <3>1 DEF Fresh
  <2>7. /\ lastAcked \in [Deliverers -> 0..(MaxID + 1)] /\ firstID \in [Deliverers -> 0..(MaxID + 1)]
        /\ late \in [Deliverers -> 0..2] /\ outcome \in [IDs -> Outcomes]
    BY <1>1 DEF Fresh, Outcomes
  <2> QED BY <2>1, <2>2, <2>3, <2>4, <2>5, <2>6, <2>7 DEF HookTypeOK, Fresh, Labels, Ends
<1>3. OnePostAtATime /\ Reserved /\ RoundsOK
  BY <1>1 DEF BufInit, Fresh, OnePostAtATime, Reserved, RoundsOK, Holding, Delivering
<1>4. PendingIDs = {} /\ nextID = 1
  BY DEF Fresh, BufInit, PendingIDs
<1>5. SettledIsLeaving /\ DropsGone /\ LateOnce /\ SettledOrKept
  BY <1>4 DEF Fresh, SettledIsLeaving, DropsGone, LateOnce, SettledOrKept
<1>6. Counted /\ EightAttempts
  <2>1. \A d \in Deliverers, n \in IDs : ~Posting(d, n) /\ posts[d][n] = 0 /\ attempts[d][n] = 0
    BY DEF Fresh, Posting, At
  <2>2. \A n \in IDs : outcome[n] = "none"
    BY DEF Fresh
  <2> QED BY <1>1, <2>1, <2>2 DEF Counted, EightAttempts
<1> QED BY <1>1, <1>2, <1>3, <1>5, <1>6 DEF HookInv, HookCore

LEMMA HookInitInv == BufInit /\ HookInit => HookInv
BY FreshInv DEF HookInit, Fresh

-----------------------------------------------------------------------------
(* Rounds that a step leaves as they are, in a buffer that only grows at   *)
(* its end and shrinks.                                                    *)

LEMMA RoundsFrame ==
  ASSUME HookCore, UNCHANGED outcome,
         nextID' = nextID \/ nextID' = nextID + 1,
         \A m \in PendingIDs' : m \in IDs /\ (m \in PendingIDs \/ m = nextID),
         \A d \in Deliverers : dpc[d] \in Delivering => dpc'[d] \in Delivering,
         \A d \in Deliverers : dpc'[d] \in Delivering =>
           /\ dpc[d] \in Delivering
           /\ work'[d] = work[d] /\ pos'[d] = pos[d] /\ lastAcked'[d] = lastAcked[d]
           /\ firstID'[d] = firstID[d]
           /\ dpc'[d] \in {"translating", "posting"} => pos[d] <= Len(work[d])
  PROVE  RoundsOK' /\ SettledIsLeaving'
<1>1. nextID \in Nat /\ nextID' \in Nat /\ nextID <= nextID' /\ IDs \subseteq Nat
  BY Shape DEF HookCore, IDs
<1>2. RoundsOK'
  <2> SUFFICES ASSUME NEW d \in Deliverers, dpc'[d] \in Delivering PROVE Round(d)'
    BY DEF RoundsOK
  <2>1. /\ Round(d) /\ work'[d] = work[d] /\ pos'[d] = pos[d] /\ lastAcked'[d] = lastAcked[d]
        /\ firstID'[d] = firstID[d]
        /\ dpc'[d] \in {"translating", "posting"} => pos[d] <= Len(work[d])
    BY DEF HookCore, RoundsOK
  <2>2. \A i \in 1..Len(work[d]) : work[d][i].id \in Nat /\ work[d][i].id < nextID'
    <3>1. \A i \in 1..Len(work[d]) : work[d][i].id \in Nat
      BY <1>1, HookTyped
    <3>2. \A i \in 1..Len(work[d]) : work[d][i].id < nextID
      BY <2>1 DEF Round
    <3> QED BY <1>1, <3>1, <3>2
  <2>3. 1 \in 1..Len(work[d])
    BY <2>1, HookTyped DEF Round
  <2>4. work[d][1].id \in Nat /\ work[d][1].id < nextID
    BY <2>1, <2>2, <2>3 DEF Round
  <2>5. \A m \in PendingIDs' : m >= work[d][1].id
    BY <1>1, <2>1, <2>4 DEF Round
  <2> QED BY <2>1, <2>2, <2>5 DEF Round
<1>3. ASSUME NEW m \in PendingIDs', outcome[m] # "none"
      PROVE  \E d \in Deliverers : dpc'[d] \in Delivering /\ m < lastAcked'[d]
  <2>1. CASE m \in PendingIDs
    BY <1>3, <2>1 DEF HookCore, SettledIsLeaving
  <2>2. CASE m = nextID
    BY <1>1, <1>3, <2>2 DEF HookCore, SettledIsLeaving
  <2> QED BY <2>1, <2>2
<1>4. \A n \in IDs : n >= nextID' => outcome[n] = "none"
  BY <1>1 DEF HookCore, SettledIsLeaving
<1> QED BY <1>2, <1>3, <1>4 DEF SettledIsLeaving

-----------------------------------------------------------------------------
(* Steps of others: whatever else uses the buffer, and the handlers'       *)
(* bookkeeping.                                                            *)

LEMMA OthersKeepHook ==
  ASSUME HookCore, [BufNext]_bufVars, UNCHANGED <<runVars, seenVars, firstID>>,
         \A d \in Deliverers : takeMu' = d <=> takeMu = d,
         stopped \subseteq stopped', HookTypeOK', Reserved'
  PROVE  HookCore'
<1>1. /\ BufInv'
      /\ nextID' = nextID \/ nextID' = nextID + 1
      /\ \A m \in PendingIDs' : m \in IDs /\ (m \in PendingIDs \/ m = nextID)
  BY BufMoves DEF HookCore, IDs
<1>2. UNCHANGED <<dpc, work, pos, lastAcked, attempts, outcome, posts, late, firstID>>
  BY DEF runVars, seenVars
<1>3. OnePostAtATime'
  BY <1>2 DEF HookCore, OnePostAtATime
<1>4. \A d \in Deliverers : dpc[d] \in {"translating", "posting"} => pos[d] <= Len(work[d])
  BY DEF HookCore, RoundsOK, Round, Delivering
<1>5. RoundsOK' /\ SettledIsLeaving'
  BY <1>1, <1>2, <1>4, RoundsFrame
<1>6. DropsGone'
  <2> SUFFICES ASSUME NEW d \in Deliverers
               PROVE  firstID[d] <= nextID' /\ \A m \in PendingIDs' : m >= firstID[d]
    BY <1>2 DEF DropsGone
  <2>1. nextID \in Nat /\ firstID[d] \in Nat
    BY HookTyped
  <2>2. firstID[d] <= nextID /\ \A m \in PendingIDs : m >= firstID[d]
    BY DEF HookCore, DropsGone
  <2> QED BY <1>1, <2>1, <2>2
<1>7. LateOnce'
  BY <1>2 DEF HookCore, LateOnce
<1>8. Counted' /\ EightAttempts'
  BY <1>2 DEF HookCore, Counted, EightAttempts, Posting, At, Current
<1> QED BY <1>1, <1>3, <1>5, <1>6, <1>7, <1>8 DEF HookCore

-----------------------------------------------------------------------------
(* Steps of a deliverer between items, and between rounds.                 *)

LEMMA QuietKeeps ==
  ASSUME HookCore, NEW d \in Deliverers, NEW label \in Labels,
         dpc' = [dpc EXCEPT ![d] = label], HookTypeOK', OnePostAtATime',
         UNCHANGED <<items, nextID, lost, attempts, setupVars, seenVars>>, BufInv',
         \A e \in Deliverers : e # d \/ label \in Delivering =>
           work'[e] = work[e] /\ pos'[e] = pos[e] /\ lastAcked'[e] = lastAcked[e],
         label \in Delivering <=> dpc[d] \in Delivering,
         label # "posting", dpc[d] \notin {"posting", "unused", "reserved"},
         label \in {"locking", "waiting", "translating"} => ~(late[d] > 0),
         label = "translating" => pos[d] <= Len(work[d])
  PROVE  HookCore' /\ Accounts
<1>1. /\ UNCHANGED <<items, nextID, lost, attempts, stopped, hpc, hnew, firstID, outcome, posts, late>>
      /\ PendingIDs' = PendingIDs
  BY DEF setupVars, seenVars, PendingIDs
<1>2. dpc \in [Deliverers -> Labels]
  BY DEF HookCore, HookTypeOK, Labels
<1>3. \A e \in Deliverers : dpc'[e] = IF e = d THEN label ELSE dpc[e]
  BY <1>2
<1>4. Reserved'
  <2>1. \A h \in Handlers : hnew[h] # NoDrainer => hnew[h] \in Deliverers /\ hnew[h] # d
    BY DEF HookCore, HookTypeOK, Reserved
  <2> QED BY <1>1, <1>3, <2>1 DEF HookCore, Reserved
<1>5. \A e \in Deliverers : dpc[e] \in {"translating", "posting"} => pos[e] <= Len(work[e])
  BY DEF HookCore, RoundsOK, Round, Delivering
<1>6. \A m \in PendingIDs : m \in IDs
  BY PendingTyped DEF HookCore, IDs
<1>7. RoundsOK' /\ SettledIsLeaving'
  BY <1>1, <1>3, <1>5, <1>6, RoundsFrame
<1>8. DropsGone' /\ LateOnce'
  BY <1>1, <1>3 DEF HookCore, DropsGone, LateOnce
<1>9. Counted' /\ EightAttempts'
  <2>1. \A e \in Deliverers, n \in IDs : Posting(e, n)' <=> Posting(e, n)
    <3> SUFFICES ASSUME NEW e \in Deliverers, dpc[e] = "posting", e # d
                 PROVE  Current(e)' = Current(e) /\ dpc'[e] = "posting"
      BY <1>3 DEF Posting, At
    <3> QED BY <1>3 DEF Current
  <2> QED BY <1>1, <2>1 DEF HookCore, Counted, EightAttempts
<1>10. Accounts
  BY <1>1, <1>6 DEF Accounts
<1> QED BY <1>1, <1>4, <1>7, <1>8, <1>9, <1>10 DEF HookCore

(* What such a step does to the types.                                     *)
LEMMA QuietTyped ==
  ASSUME HookCore, NEW d \in Deliverers, NEW label \in Labels, NEW end \in Ends,
         dpc' = [dpc EXCEPT ![d] = label], after' = [after EXCEPT ![d] = end],
         UNCHANGED <<work, pos, lastAcked, attempts, setupVars, seenVars>>
  PROVE  HookTypeOK'
<1>1. dpc \in [Deliverers -> Labels] /\ after \in [Deliverers -> Ends]
  BY DEF HookCore, HookTypeOK, Labels, Ends
<1>2. dpc' \in [Deliverers -> Labels] /\ after' \in [Deliverers -> Ends]
  BY <1>1
<1> QED BY <1>2 DEF HookCore, HookTypeOK, Labels, Ends, setupVars, seenVars

LEMMA AfterTyped ==
  ASSUME HookCore, NEW d \in Deliverers
  PROVE  after[d] \in Ends /\ after = [after EXCEPT ![d] = after[d]] /\ Ends \subseteq Labels
BY DEF HookCore, HookTypeOK, Ends, Labels

LEMMA UnchangedBuffer == ASSUME BufInv, UNCHANGED <<items, nextID, takeMu, lost>> PROVE BufInv'
BY DEF BufInv, BufTypeOK, GapFree

(* Top, NextItem, CollectNothing and BackoffEnds leave the buffer alone.   *)
LEMMA WalkKeeps ==
  ASSUME HookCore, NEW d \in Deliverers, NEW label \in Labels, NEW end \in Ends,
         dpc' = [dpc EXCEPT ![d] = label], after' = [after EXCEPT ![d] = end],
         UNCHANGED <<bufVars, work, pos, lastAcked, attempts, setupVars, seenVars>>,
         label \in Holding <=> dpc[d] \in Holding,
         label \in Delivering <=> dpc[d] \in Delivering,
         label # "posting", dpc[d] \notin {"posting", "unused", "reserved"},
         label \in {"locking", "waiting", "translating"} => d \notin stopped,
         label = "translating" => pos[d] <= Len(work[d])
  PROVE  HookCore' /\ Accounts
<1>1. HookTypeOK'
  BY QuietTyped
<1>2. UNCHANGED <<items, nextID, takeMu, lost>>
  BY DEF bufVars
<1>3. BufInv'
  BY <1>2, UnchangedBuffer DEF HookCore
<1>4. \A e \in Deliverers : dpc'[e] = IF e = d THEN label ELSE dpc[e]
  BY DEF HookCore, HookTypeOK
<1>5. OnePostAtATime'
  BY <1>2, <1>4 DEF HookCore, OnePostAtATime
<1>6. label \in {"locking", "waiting", "translating"} => ~(late[d] > 0)
  BY DEF HookCore, LateOnce
<1> QED BY <1>1, <1>2, <1>3, <1>5, <1>6, QuietKeeps

LEMMA TopKeeps ==
  ASSUME HookCore, NEW d \in Deliverers, Top(d)
  PROVE  HookCore' /\ Accounts
<1>1. PICK label \in {"exited", "locking"} :
        /\ dpc[d] = "top" /\ dpc' = [dpc EXCEPT ![d] = label]
        /\ label = "locking" => d \notin stopped
        /\ UNCHANGED <<bufVars, after, work, pos, lastAcked, attempts, setupVars, seenVars>>
  BY DEF Top, At, Go
<1>2. label \in Labels /\ label \notin Holding /\ label \notin Delivering
  BY DEF Labels, Holding, Delivering
<1>3. dpc[d] \notin Holding /\ dpc[d] \notin Delivering
  BY <1>1 DEF Holding, Delivering
<1> QED BY <1>1, <1>2, <1>3, AfterTyped, WalkKeeps

LEMMA CollectNothingKeeps ==
  ASSUME HookCore, NEW d \in Deliverers, CollectNothing(d)
  PROVE  HookCore' /\ Accounts
<1>1. /\ dpc[d] = "waiting" /\ dpc' = [dpc EXCEPT ![d] = "releasing"]
      /\ after' = [after EXCEPT ![d] = "top"]
      /\ UNCHANGED <<bufVars, work, pos, lastAcked, attempts, setupVars, seenVars>>
  BY DEF CollectNothing, At, Go
<1>2. /\ "releasing" \in Labels /\ "releasing" \in Holding /\ "releasing" \notin Delivering
      /\ "top" \in Ends /\ dpc[d] \in Holding /\ dpc[d] \notin Delivering
  BY <1>1 DEF Labels, Holding, Delivering, Ends
<1> QED BY <1>1, <1>2, WalkKeeps

LEMMA NextItemKeeps ==
  ASSUME HookCore, NEW d \in Deliverers, NextItem(d)
  PROVE  HookCore' /\ Accounts
<1>1. PICK label \in {"settling", "translating"}, end \in Ends :
        /\ dpc[d] = "item" /\ dpc' = [dpc EXCEPT ![d] = label]
        /\ after' = [after EXCEPT ![d] = end]
        /\ label = "translating" => ~Done(d) /\ d \notin stopped
        /\ UNCHANGED <<bufVars, work, pos, lastAcked, attempts, setupVars, seenVars>>
  BY AfterTyped DEF NextItem, At, Go, Ends
<1>2. /\ label \in Labels /\ label \in Holding /\ label \in Delivering
      /\ dpc[d] \in Holding /\ dpc[d] \in Delivering
  BY <1>1 DEF Labels, Holding, Delivering
<1>3. label = "translating" => pos[d] <= Len(work[d])
  BY <1>1, HookTyped DEF Done
<1> QED BY <1>1, <1>2, <1>3, WalkKeeps

LEMMA BackoffEndsKeeps ==
  ASSUME HookCore, NEW d \in Deliverers, BackoffEnds(d)
  PROVE  HookCore' /\ Accounts
<1>1. PICK label \in {"exited", "top"} :
        /\ dpc[d] = "backoff" /\ dpc' = [dpc EXCEPT ![d] = label]
        /\ UNCHANGED <<bufVars, after, work, pos, lastAcked, attempts, setupVars, seenVars>>
  BY DEF BackoffEnds, At, Go
<1>2. label \in Labels /\ label \notin Holding /\ label \notin Delivering
  BY DEF Labels, Holding, Delivering
<1>3. dpc[d] \notin Holding /\ dpc[d] \notin Delivering
  BY <1>1 DEF Holding, Delivering
<1> QED BY <1>1, <1>2, <1>3, AfterTyped, WalkKeeps

-----------------------------------------------------------------------------
(* The drain lock.                                                         *)

LEMMA DeliverLockKeeps ==
  ASSUME HookCore, NEW d \in Deliverers, DeliverLock(d)
  PROVE  HookCore' /\ Accounts
<1>1. /\ dpc[d] = "locking" /\ dpc' = [dpc EXCEPT ![d] = "waiting"]
      /\ takeMu = NoDrainer /\ takeMu' = d
      /\ UNCHANGED <<items, nextID, lost, after, work, pos, lastAcked, attempts, setupVars, seenVars>>
  BY DEF DeliverLock, TakeLock, At, Go
<1>2. /\ "waiting" \in Labels /\ "waiting" \in Holding /\ "waiting" \notin Delivering
      /\ dpc[d] \notin Delivering
  BY <1>1 DEF Labels, Holding, Delivering
<1>3. HookTypeOK'
  BY <1>1, <1>2, QuietTyped, AfterTyped
<1>4. BufInv'
  BY HookTyped, LockKeeps DEF HookCore, DeliverLock
<1>5. OnePostAtATime'
  <2>1. \A e \in Deliverers : dpc'[e] = IF e = d THEN "waiting" ELSE dpc[e]
    BY <1>1 DEF HookCore, HookTypeOK
  <2>2. \A e \in Deliverers : e # NoDrainer
    BY HookTyped
  <2> QED BY <1>1, <1>2, <2>1, <2>2 DEF HookCore, OnePostAtATime
<1>6. ~(late[d] > 0)
  BY <1>1 DEF HookCore, LateOnce
<1> QED BY <1>1, <1>2, <1>3, <1>4, <1>5, <1>6, QuietKeeps

LEMMA UnlockKeeps ==
  ASSUME HookCore, NEW d \in Deliverers, Unlock(d)
  PROVE  HookCore' /\ Accounts
<1>1. /\ dpc[d] = "releasing" /\ dpc' = [dpc EXCEPT ![d] = after[d]]
      /\ takeMu = d /\ takeMu' = NoDrainer
      /\ work' = [work EXCEPT ![d] = <<>>] /\ pos' = [pos EXCEPT ![d] = 1]
      /\ lastAcked' = [lastAcked EXCEPT ![d] = 0] /\ after' = [after EXCEPT ![d] = "top"]
      /\ UNCHANGED <<items, nextID, lost, attempts, setupVars, seenVars>>
  BY DEF Unlock, Release, At, Go
<1>2. after[d] \in Ends /\ after[d] \in Labels
  BY AfterTyped
<1>3. /\ after[d] \notin Holding /\ after[d] \notin Delivering /\ dpc[d] \notin Delivering
      /\ after[d] \notin {"posting", "locking", "waiting", "translating"}
  BY <1>1, <1>2 DEF Ends, Holding, Delivering
<1>4. /\ work \in [Deliverers -> Seq(Item)] /\ pos \in [Deliverers -> Nat]
      /\ lastAcked \in [Deliverers -> 0..(MaxID + 1)]
      /\ dpc \in [Deliverers -> Labels] /\ after \in [Deliverers -> Ends]
  BY DEF HookCore, HookTypeOK, Labels, Ends
<1>5. HookTypeOK'
  <2>1. dpc' \in [Deliverers -> Labels] /\ after' \in [Deliverers -> Ends]
    BY <1>1, <1>2, <1>4 DEF Ends
  <2>2. work' \in [Deliverers -> Seq(Item)] /\ lastAcked' \in [Deliverers -> 0..(MaxID + 1)]
    <3>1. <<>> \in Seq(Item) /\ 0 \in 0..(MaxID + 1)
      BY HookTyped
    <3> QED BY <1>1, <1>4, <3>1
  <2>3. pos' \in [Deliverers -> Nat]
    BY <1>1, <1>4
  <2>4. \A e \in Deliverers : pos'[e] \in 1..(Len(work'[e]) + 1)
    <3> SUFFICES ASSUME NEW e \in Deliverers PROVE pos'[e] \in 1..(Len(work'[e]) + 1)
      OBVIOUS
    <3>1. CASE e = d
      <4>1. pos'[e] = 1 /\ work'[e] = <<>>
        BY <1>1, <1>4, <3>1
      <4> QED BY <4>1
    <3>2. CASE e # d
      <4>1. pos'[e] = pos[e] /\ work'[e] = work[e]
        BY <1>1, <3>2
      <4> QED BY <4>1 DEF HookCore, HookTypeOK
    <3> QED BY <3>1, <3>2
  <2> QED BY <1>1, <2>1, <2>2, <2>3, <2>4 DEF HookCore, HookTypeOK, Labels, Ends, setupVars, seenVars
<1>6. BufInv'
  BY HookTyped, LockKeeps DEF HookCore, Unlock
<1>7. OnePostAtATime'
  <2>1. \A e \in Deliverers : dpc'[e] = IF e = d THEN after[d] ELSE dpc[e]
    BY <1>1, <1>4
  <2>2. \A e \in Deliverers : e # NoDrainer
    BY HookTyped
  <2> QED BY <1>1, <1>3, <2>1, <2>2 DEF HookCore, OnePostAtATime
<1>8. \A e \in Deliverers : e # d =>
        work'[e] = work[e] /\ pos'[e] = pos[e] /\ lastAcked'[e] = lastAcked[e]
  BY <1>1, <1>4
<1> QED BY <1>1, <1>2, <1>3, <1>5, <1>6, <1>7, <1>8, QuietKeeps

-----------------------------------------------------------------------------
(* A round begins: nobody else is delivering, so whatever is pending is    *)
(* not settled, and the snapshot is the oldest of it.                      *)

LEMMA CollectKeeps ==
  ASSUME HookCore, NEW d \in Deliverers, Collect(d)
  PROVE  HookCore' /\ Accounts
<1> DEFINE w == Window(0, RoundLimit)
<1>1. /\ dpc[d] = "waiting" /\ dpc' = [dpc EXCEPT ![d] = "item"] /\ HasReady(0)
      /\ work' = [work EXCEPT ![d] = w] /\ pos' = [pos EXCEPT ![d] = 1]
      /\ lastAcked' = [lastAcked EXCEPT ![d] = 0]
      /\ UNCHANGED <<items, nextID, takeMu, lost, after, attempts, setupVars, seenVars>>
  BY DEF Collect, At, Go, bufVars
<1>2. 0 \in 0..Len(items) /\ 0 < Len(items) /\ RoundLimit \in Nat \ {0}
  BY <1>1, Shape, WebhookAssumption DEF HookCore, HasReady
<1>3. /\ w \in Seq(Item) /\ Len(w) \in 1..RoundLimit /\ Len(w) <= Len(items)
      /\ \A i \in 1..Len(w) : w[i] = items[i]
  <2>1. /\ w \in Seq(Item) /\ Len(w) \in 1..RoundLimit /\ 0 + Len(w) <= Len(items)
        /\ \A i \in 1..Len(w) : w[i] = items[0 + i]
    BY <1>2, WindowItems DEF HookCore
  <2>2. Len(w) \in Nat /\ \A i \in 1..Len(w) : 0 + i = i
    BY <1>2, <2>1
  <2> QED BY <2>1, <2>2
<1> HIDE DEF w
<1>4. /\ dpc \in [Deliverers -> Labels] /\ work \in [Deliverers -> Seq(Item)]
      /\ pos \in [Deliverers -> Nat] /\ lastAcked \in [Deliverers -> 0..(MaxID + 1)]
  BY DEF HookCore, HookTypeOK, Labels
<1>5. \A e \in Deliverers :
        /\ dpc'[e] = IF e = d THEN "item" ELSE dpc[e]
        /\ work'[e] = IF e = d THEN w ELSE work[e]
        /\ pos'[e] = IF e = d THEN 1 ELSE pos[e]
        /\ lastAcked'[e] = IF e = d THEN 0 ELSE lastAcked[e]
  BY <1>1, <1>4
<1>6. dpc[d] \in Holding /\ \A e \in Deliverers : e # d => dpc[e] \notin Holding
  BY <1>1, OnlyHolder DEF Holding
<1>7. \A e \in Deliverers : dpc[e] \notin Delivering
  BY <1>1, <1>6 DEF Holding, Delivering
<1>8. \A m \in PendingIDs : outcome[m] = "none" /\ m \in IDs
  BY <1>7, PendingTyped DEF HookCore, SettledIsLeaving, IDs
<1>9. PendingIDs' = PendingIDs
  BY <1>1 DEF PendingIDs
<1>10. HookTypeOK'
  <2>1. dpc' \in [Deliverers -> Labels] /\ pos' \in [Deliverers -> Nat]
    BY <1>1, <1>4 DEF Labels, Holding, Delivering
  <2>2. work' \in [Deliverers -> Seq(Item)]
    BY <1>1, <1>3, <1>4
  <2>3. lastAcked' \in [Deliverers -> 0..(MaxID + 1)]
    BY <1>1, <1>4, HookTyped
  <2>4. \A e \in Deliverers : pos'[e] \in 1..(Len(work'[e]) + 1)
    <3> SUFFICES ASSUME NEW e \in Deliverers PROVE pos'[e] \in 1..(Len(work'[e]) + 1)
      OBVIOUS
    <3>1. CASE e = d
      <4>1. pos'[e] = 1 /\ work'[e] = w /\ Len(w) \in Nat
        BY <1>3, <1>5, <3>1
      <4> QED BY <4>1
    <3>2. CASE e # d
      <4>1. pos'[e] = pos[e] /\ work'[e] = work[e]
        BY <1>5, <3>2
      <4> QED BY <4>1 DEF HookCore, HookTypeOK
    <3> QED BY <3>1, <3>2
  <2> QED BY <1>1, <2>1, <2>2, <2>3, <2>4 DEF HookCore, HookTypeOK, Labels, setupVars, seenVars
<1>11. BufInv'
  BY <1>1, UnchangedBuffer DEF HookCore
<1>12. OnePostAtATime'
  BY <1>1, <1>5, <1>6 DEF HookCore, OnePostAtATime, Holding, Delivering
<1>13. Reserved'
  <2>1. \A h \in Handlers : hnew[h] # NoDrainer => hnew[h] \in Deliverers /\ hnew[h] # d
    BY <1>1 DEF HookCore, HookTypeOK, Reserved
  <2> QED BY <1>1, <1>5, <2>1 DEF HookCore, Reserved, setupVars
<1>14. RoundsOK'
  <2> SUFFICES ASSUME NEW e \in Deliverers, dpc'[e] \in Delivering PROVE Round(e)'
    BY DEF RoundsOK
  <2>1. e = d
    BY <1>5, <1>7
  <2>2. work'[d] = w /\ pos'[d] = 1 /\ lastAcked'[d] = 0 /\ dpc'[d] = "item"
    BY <1>5
  <2>3. nextID \in Nat /\ Len(items) \in Nat /\ Len(w) \in Nat /\ Len(w) >= 1
    BY <1>2, <1>3, Shape DEF HookCore
  <2>4. \A i \in 1..Len(items) : items[i].id = nextID - 1 - Len(items) + i /\ items[i].id \in PendingIDs
    BY Shape DEF HookCore, PendingIDs
  <2>5. \A i \in 1..Len(w) : i \in 1..Len(items) /\ w[i] = items[i] /\ i \in Int
    <3>1. \A i \in 1..Len(w) : i \in 1..Len(items)
      BY <1>3, <2>3
    <3> QED BY <1>3, <3>1
  <2>6. ASSUME NEW i \in 1..Len(w)
        PROVE  w[i].id = nextID - 1 - Len(items) + i /\ outcome[w[i].id] = "none"
    <3>1. i \in 1..Len(items) /\ w[i] = items[i]
      BY <2>5
    <3>2. items[i].id = nextID - 1 - Len(items) + i /\ items[i].id \in PendingIDs
      BY <2>4, <3>1
    <3> QED BY <1>8, <3>1, <3>2
  <2>7. w[1].id = nextID - 1 - Len(items) + 1
    BY <2>3, <2>6
  <2>8. ASSUME NEW i \in 1..Len(w)
        PROVE  w[i].id = w[1].id + i - 1 /\ w[i].id < nextID /\ outcome[w[i].id] = "none" /\ i >= 1
    <3>1. i \in 1..Len(items)
      BY <2>5
    <3> QED BY <2>3, <2>6, <2>7, <3>1
  <2>9. \A m \in PendingIDs : m >= w[1].id
    <3>1. \A j \in 1..Len(items) : items[j].id >= w[1].id
      BY <2>3, <2>4, <2>7
    <3> QED BY <3>1 DEF PendingIDs
  <2>10. w[1].id >= firstID[d]
    <3>1. 1 \in 1..Len(items) /\ w[1] = items[1]
      BY <2>3, <2>5
    <3> QED BY <2>4, <3>1 DEF HookCore, DropsGone
  <2> QED BY <1>1, <1>9, <2>1, <2>2, <2>3, <2>8, <2>9, <2>10 DEF Round, setupVars, seenVars
<1>15. SettledIsLeaving' /\ DropsGone'
  BY <1>1, <1>8, <1>9 DEF HookCore, SettledIsLeaving, DropsGone, setupVars, seenVars
<1>16. LateOnce'
  BY <1>1, <1>5 DEF HookCore, LateOnce, setupVars, seenVars
<1>17. Counted' /\ EightAttempts'
  <2>1. \A e \in Deliverers, n \in IDs : ~Posting(e, n) /\ ~Posting(e, n)'
    BY <1>5, <1>7 DEF Posting, At, Delivering
  <2> QED BY <1>1, <2>1 DEF HookCore, Counted, EightAttempts, seenVars
<1>18. Accounts
  BY <1>1, <1>8, <1>9 DEF Accounts, seenVars
<1> QED BY <1>10, <1>11, <1>12, <1>13, <1>14, <1>15, <1>16, <1>17, <1>18 DEF HookCore


-----------------------------------------------------------------------------
(* The item in hand is settled, by whatever outcome.                       *)

LEMMA MovePastTyped ==
  ASSUME HookCore, NEW d \in Deliverers, dpc[d] \in {"translating", "posting"},
         NEW result \in Outcomes, MovePast(d, result), UNCHANGED <<posts, late>>
  PROVE  /\ HookTypeOK'
         /\ UNCHANGED <<items, nextID, takeMu, lost, work, stopped, hpc, hnew, firstID>>
         /\ PendingIDs' = PendingIDs
         /\ \A e \in Deliverers :
              /\ dpc'[e] = IF e = d THEN "item" ELSE dpc[e]
              /\ pos'[e] = IF e = d THEN pos[d] + 1 ELSE pos[e]
              /\ lastAcked'[e] = IF e = d THEN Current(d).id + 1 ELSE lastAcked[e]
         /\ \A e \in Deliverers, n \in IDs :
              attempts'[e][n] = IF e = d /\ n = Current(d).id THEN 0 ELSE attempts[e][n]
         /\ \A n \in IDs : outcome'[n] = IF n = Current(d).id THEN result ELSE outcome[n]
<1> DEFINE c == Current(d).id
<1>1. /\ dpc' = [dpc EXCEPT ![d] = "item"]
      /\ pos' = [pos EXCEPT ![d] = @ + 1]
      /\ lastAcked' = [lastAcked EXCEPT ![d] = c + 1]
      /\ attempts' = [attempts EXCEPT ![d][c] = 0]
      /\ outcome' = [outcome EXCEPT ![c] = result]
      /\ UNCHANGED <<items, nextID, takeMu, lost, after, work, setupVars, posts, late>>
  BY DEF MovePast, Go, bufVars
<1>2. /\ dpc \in [Deliverers -> Labels] /\ pos \in [Deliverers -> Nat]
      /\ lastAcked \in [Deliverers -> 0..(MaxID + 1)]
      /\ attempts \in [Deliverers -> [IDs -> 0..(MaxAttempts - 1)]]
      /\ outcome \in [IDs -> Outcomes]
  BY DEF HookCore, HookTypeOK, Labels
<1>3. c \in IDs /\ c \in Nat /\ pos[d] \in 1..Len(work[d])
  BY InHand
<1> HIDE DEF c
<1>4. \A e \in Deliverers :
        /\ dpc'[e] = IF e = d THEN "item" ELSE dpc[e]
        /\ pos'[e] = IF e = d THEN pos[d] + 1 ELSE pos[e]
        /\ lastAcked'[e] = IF e = d THEN c + 1 ELSE lastAcked[e]
  BY <1>1, <1>2
<1>5. \A e \in Deliverers, n \in IDs :
        attempts'[e][n] = IF e = d /\ n = c THEN 0 ELSE attempts[e][n]
  BY <1>1, <1>2, <1>3
<1>6. \A n \in IDs : outcome'[n] = IF n = c THEN result ELSE outcome[n]
  BY <1>1, <1>2
<1>7. HookTypeOK'
  <2>1. dpc' \in [Deliverers -> Labels]
    BY <1>1, <1>2 DEF Labels, Holding, Delivering
  <2>2. pos' \in [Deliverers -> Nat]
    BY <1>1, <1>2
  <2>3. lastAcked' \in [Deliverers -> 0..(MaxID + 1)]
    <3>1. c + 1 \in 0..(MaxID + 1)
      BY <1>3, HookTyped DEF IDs
    <3> QED BY <1>1, <1>2, <3>1
  <2>4. attempts' \in [Deliverers -> [IDs -> 0..(MaxAttempts - 1)]]
    <3>1. 0 \in 0..(MaxAttempts - 1)
      BY HookTyped
    <3> QED BY <1>1, <1>2, <1>3, <3>1
  <2>5. outcome' \in [IDs -> Outcomes]
    BY <1>1, <1>2
  <2>6. \A e \in Deliverers : pos'[e] \in 1..(Len(work'[e]) + 1)
    <3> SUFFICES ASSUME NEW e \in Deliverers PROVE pos'[e] \in 1..(Len(work[e]) + 1)
      BY <1>1
    <3>1. CASE e = d
      <4>1. pos'[e] = pos[d] + 1 /\ pos[d] \in 1..Len(work[d]) /\ Len(work[d]) \in Nat
        BY <1>3, <1>4, <3>1, HookTyped
      <4> QED BY <3>1, <4>1
    <3>2. CASE e # d
      BY <1>4, <3>2 DEF HookCore, HookTypeOK
    <3> QED BY <3>1, <3>2
  <2> QED BY <1>1, <2>1, <2>2, <2>3, <2>4, <2>5, <2>6 DEF HookCore, HookTypeOK, Labels, setupVars
<1> QED BY <1>1, <1>4, <1>5, <1>6, <1>7 DEF setupVars, PendingIDs, c

(* Only the holder of the drain lock moves, and it goes on holding it.     *)
LEMMA HolderMoves ==
  ASSUME HookCore, NEW d \in Deliverers, dpc[d] \in Delivering, UNCHANGED <<takeMu, hpc, hnew>>,
         NEW label \in Holding,
         \A e \in Deliverers : dpc'[e] = IF e = d THEN label ELSE dpc[e]
  PROVE  /\ OnePostAtATime' /\ Reserved' /\ dpc[d] \in Holding
         /\ \A e \in Deliverers : e # d => dpc[e] \notin Holding /\ dpc[e] \notin Delivering
<1>1. dpc[d] \in Holding /\ dpc[d] # "reserved" /\ Delivering \subseteq Holding
  BY DEF Holding, Delivering
<1>2. \A e \in Deliverers : e # d => dpc[e] \notin Holding /\ dpc[e] \notin Delivering
  BY <1>1, OnlyHolder
<1>3. OnePostAtATime'
  BY <1>1 DEF HookCore, OnePostAtATime
<1>4. Reserved'
  <2>1. \A h \in Handlers : hnew[h] # NoDrainer => hnew[h] \in Deliverers /\ hnew[h] # d
    BY <1>1 DEF HookCore, HookTypeOK, Reserved
  <2> QED BY <2>1 DEF HookCore, Reserved
<1> QED BY <1>1, <1>2, <1>3, <1>4


LEMMA MovePastKeeps ==
  ASSUME HookCore, NEW d \in Deliverers, dpc[d] \in {"translating", "posting"},
         NEW result \in Outcomes \ {"none"}, MovePast(d, result), UNCHANGED <<posts, late>>,
         result = "dropped" => posts[d][Current(d).id] = MaxAttempts
  PROVE  HookCore' /\ Accounts
<1> DEFINE c == Current(d).id
<1>1. /\ HookTypeOK'
      /\ UNCHANGED <<items, nextID, takeMu, lost, work, stopped, hpc, hnew, firstID, posts, late>>
      /\ PendingIDs' = PendingIDs
      /\ \A e \in Deliverers :
           /\ dpc'[e] = IF e = d THEN "item" ELSE dpc[e]
           /\ pos'[e] = IF e = d THEN pos[d] + 1 ELSE pos[e]
           /\ lastAcked'[e] = IF e = d THEN c + 1 ELSE lastAcked[e]
      /\ \A e \in Deliverers, n \in IDs :
           attempts'[e][n] = IF e = d /\ n = c THEN 0 ELSE attempts[e][n]
      /\ \A n \in IDs : outcome'[n] = IF n = c THEN result ELSE outcome[n]
  BY MovePastTyped
<1>2. /\ Round(d) /\ pos[d] \in 1..Len(work[d])
      /\ c \in IDs /\ c \in Nat /\ c = work[d][1].id + pos[d] - 1 /\ work[d][1].id \in IDs
      /\ c < nextID /\ outcome[c] = "none" /\ lastAcked[d] <= c
  BY InHand
<1>3. dpc[d] \in Delivering /\ "item" \in Holding /\ "item" \in Delivering
  BY DEF Holding, Delivering
<1>4. /\ OnePostAtATime' /\ Reserved'
      /\ \A e \in Deliverers : e # d => dpc[e] \notin Holding /\ dpc[e] \notin Delivering
  BY <1>1, <1>3, HolderMoves
<1>5. result = "dropped" => posts[d][c] = MaxAttempts
  OBVIOUS
<1> HIDE DEF c
<1>6. BufInv'
  BY <1>1, UnchangedBuffer DEF HookCore
<1>7. MaxID \in Nat /\ nextID \in Nat /\ Len(work[d]) \in Nat /\ pos[d] \in Nat /\ pos[d] >= 1
  BY HookTyped
<1>8. work[d][1].id \in Nat
  BY <1>2, <1>7 DEF IDs
<1>9. RoundsOK'
  <2> SUFFICES ASSUME NEW e \in Deliverers, dpc'[e] \in Delivering PROVE Round(e)'
    BY DEF RoundsOK
  <2>1. e = d
    BY <1>1, <1>4
  <2>2. work'[d] = work[d] /\ pos'[d] = pos[d] + 1 /\ lastAcked'[d] = c + 1 /\ dpc'[d] = "item"
    BY <1>1
  <2>3. ASSUME NEW i \in 1..Len(work[d])
        PROVE  outcome'[work[d][i].id] = "none" <=> i >= pos[d] + 1
    <3>1. work[d][i].id = work[d][1].id + i - 1 /\ (outcome[work[d][i].id] = "none" <=> i >= pos[d])
      BY <1>2 DEF Round
    <3>2. work[d][i].id \in IDs
      BY HookTyped
    <3>3. work[d][i].id = c <=> i = pos[d]
      <4>1. work[d][1].id \in Int /\ i \in Int /\ pos[d] \in Int
        BY <1>7, <1>8
      <4>2. work[d][i].id = work[d][1].id + i - 1 /\ c = work[d][1].id + pos[d] - 1
        BY <1>2, <3>1
      <4> QED BY <4>1, <4>2
    <3>4. CASE i = pos[d]
      <4>1. outcome'[work[d][i].id] = result /\ ~(i >= pos[d] + 1)
        BY <1>1, <1>7, <3>2, <3>3, <3>4
      <4> QED BY <4>1
    <3>5. CASE i # pos[d]
      <4>1. outcome'[work[d][i].id] = outcome[work[d][i].id]
        BY <1>1, <3>2, <3>3, <3>5
      <4>2. i >= pos[d] + 1 <=> i >= pos[d]
        BY <1>7, <3>5
      <4> QED BY <3>1, <4>1, <4>2
    <3> QED BY <3>4, <3>5
  <2>4. c + 1 = work[d][1].id + (pos[d] + 1) - 1 /\ pos[d] + 1 # 1
    <3>1. c = work[d][1].id + pos[d] - 1 /\ c \in Int
      BY <1>2
    <3>2. work[d][1].id \in Int /\ pos[d] \in Int /\ pos[d] >= 1
      BY <1>7, <1>8
    <3>3. c + 1 = work[d][1].id + (pos[d] + 1) - 1
      BY <3>1, <3>2
    <3> QED BY <3>2, <3>3
  <2>5. /\ Len(work[d]) >= 1 /\ work[d][1].id >= firstID[d]
        /\ \A i \in 1..Len(work[d]) :
             work[d][i].id = work[d][1].id + i - 1 /\ work[d][i].id < nextID
        /\ \A m \in PendingIDs : m >= work[d][1].id
    BY <1>2 DEF Round
  <2> QED BY <1>1, <2>1, <2>2, <2>3, <2>4, <2>5 DEF Round
<1>10. SettledIsLeaving'
  <2>1. ASSUME NEW m \in PendingIDs, outcome'[m] # "none" PROVE m < lastAcked'[d]
    <3>1. m \in IDs /\ m \in Nat
      BY PendingTyped, <1>7 DEF HookCore, IDs
    <3>2. CASE m = c
      BY <1>1, <1>2, <3>2
    <3>3. CASE m # c
      <4>1. outcome[m] # "none"
        BY <1>1, <2>1, <3>1, <3>3
      <4>2. PICK e \in Deliverers : dpc[e] \in Delivering /\ m < lastAcked[e]
        BY <4>1 DEF HookCore, SettledIsLeaving
      <4>3. m < lastAcked[d] /\ lastAcked[d] \in Nat
        BY <1>4, <4>2, HookTyped
      <4> QED BY <1>1, <1>2, <3>1, <4>3
    <3> QED BY <3>2, <3>3
  <2>2. \A n \in IDs : n >= nextID' => outcome'[n] = "none"
    BY <1>1, <1>2, <1>7 DEF HookCore, SettledIsLeaving
  <2> QED BY <1>1, <1>3, <2>1, <2>2 DEF SettledIsLeaving
<1>11. DropsGone' /\ LateOnce'
  BY <1>1 DEF HookCore, DropsGone, LateOnce
<1>12. Counted'
  <2> SUFFICES ASSUME NEW e \in Deliverers, NEW n \in IDs, outcome'[n] = "none"
               PROVE  posts'[e][n] = attempts'[e][n] + (IF Posting(e, n)' THEN 1 ELSE 0)
    BY DEF Counted
  <2>1. n # c /\ outcome[n] = "none"
    BY <1>1
  <2>2. ~Posting(e, n)'
    BY <1>1, <1>4 DEF Posting, At, Delivering
  <2>3. ~Posting(e, n)
    BY <1>4, <2>1 DEF Posting, At, Delivering, c
  <2> QED BY <1>1, <2>1, <2>2, <2>3 DEF HookCore, Counted
<1>13. EightAttempts'
  BY <1>1, <1>5 DEF HookCore, EightAttempts
<1>14. Accounts
  <2>1. \A m \in PendingIDs : m \in PendingIDs'
    BY <1>1
  <2> QED BY <1>1, <2>1 DEF Accounts
<1> QED BY <1>1, <1>4, <1>6, <1>9, <1>10, <1>11, <1>12, <1>13, <1>14 DEF HookCore

LEMMA SkipKeeps ==
  ASSUME HookCore, NEW d \in Deliverers, Skip(d)
  PROVE  HookCore' /\ Accounts
<1>1. /\ dpc[d] = "translating" /\ MovePast(d, "skipped") /\ UNCHANGED <<posts, late>>
      /\ "skipped" \in Outcomes \ {"none"}
  BY DEF Skip, At, Outcomes
<1> QED BY <1>1, MovePastKeeps

LEMMA AcceptedKeeps ==
  ASSUME HookCore, NEW d \in Deliverers, Accepted(d)
  PROVE  HookCore' /\ Accounts
<1>1. /\ dpc[d] = "posting" /\ MovePast(d, "accepted") /\ UNCHANGED <<posts, late>>
      /\ "accepted" \in Outcomes \ {"none"}
  BY DEF Accepted, At, Outcomes
<1> QED BY <1>1, MovePastKeeps

LEMMA AttemptsTyped ==
  ASSUME HookCore, NEW d \in Deliverers, NEW n \in IDs
  PROVE  attempts[d][n] \in 0..(MaxAttempts - 1) /\ posts[d][n] \in 0..(MaxAttempts + 1)
BY DEF HookCore, HookTypeOK

(* It is given up when the POST on its way was the last it gets.           *)
LEMMA GiveUpKeeps ==
  ASSUME HookCore, NEW d \in Deliverers, GiveUp(d)
  PROVE  HookCore' /\ Accounts
<1> DEFINE c == Current(d).id
<1>1. /\ dpc[d] = "posting" /\ MovePast(d, "dropped") /\ UNCHANGED <<posts, late>>
      /\ "dropped" \in Outcomes \ {"none"} /\ attempts[d][c] + 1 >= MaxAttempts
  BY DEF GiveUp, At, Outcomes, FailedTries
<1>2. c \in IDs /\ outcome[c] = "none" /\ Posting(d, c)
  BY <1>1, InHand DEF Posting, At
<1>3. posts[d][c] = attempts[d][c] + 1
  BY <1>2 DEF HookCore, Counted
<1>4. attempts[d][c] \in 0..(MaxAttempts - 1) /\ MaxAttempts \in Nat
  BY <1>2, AttemptsTyped, HookTyped
<1>5. posts[d][c] = MaxAttempts
  BY <1>1, <1>3, <1>4
<1> QED BY <1>1, <1>5, MovePastKeeps


-----------------------------------------------------------------------------
(* A POST goes out, and fails.                                             *)

LEMMA PostKeeps ==
  ASSUME HookCore, NEW d \in Deliverers, Post(d)
  PROVE  HookCore' /\ Accounts
<1> DEFINE c == Current(d).id
<1>1. /\ dpc[d] = "translating"
      /\ dpc' = [dpc EXCEPT ![d] = "posting"]
      /\ posts' = [posts EXCEPT ![d][c] = CountTo(MaxAttempts + 1, @)]
      /\ late' = [late EXCEPT ![d] = IF d \in stopped THEN CountTo(2, @) ELSE @]
      /\ UNCHANGED <<items, nextID, takeMu, lost, after, work, pos, lastAcked, attempts,
                     setupVars, outcome>>
  BY DEF Post, At, Go, bufVars
<1>2. /\ Round(d) /\ pos[d] \in 1..Len(work[d]) /\ c \in IDs /\ outcome[c] = "none"
  BY <1>1, InHand
<1>3. /\ dpc \in [Deliverers -> Labels] /\ late \in [Deliverers -> 0..2]
      /\ posts \in [Deliverers -> [IDs -> 0..(MaxAttempts + 1)]]
  BY DEF HookCore, HookTypeOK, Labels
<1>4. ~(late[d] > 0) /\ late[d] = 0
  <2>1. ~(late[d] > 0)
    BY <1>1 DEF HookCore, LateOnce
  <2> QED BY <2>1, HookTyped
<1>5. posts[d][c] = attempts[d][c] /\ posts[d][c] < MaxAttempts /\ posts[d][c] \in Nat
  <2>1. ~Posting(d, c)
    BY <1>1 DEF Posting, At
  <2>2. posts[d][c] = attempts[d][c] + 0
    BY <1>2, <2>1 DEF HookCore, Counted
  <2>3. attempts[d][c] \in 0..(MaxAttempts - 1) /\ MaxAttempts \in Nat
    BY <1>2, AttemptsTyped, HookTyped
  <2> QED BY <2>2, <2>3
<1>6. /\ CountTo(MaxAttempts + 1, posts[d][c]) = posts[d][c] + 1
      /\ CountTo(2, late[d]) = 1
  <2>1. MaxAttempts \in Nat
    BY HookTyped
  <2> QED BY <1>4, <1>5, <2>1 DEF CountTo
<1>7. \A e \in Deliverers :
        /\ dpc'[e] = IF e = d THEN "posting" ELSE dpc[e]
        /\ late'[e] = IF e = d THEN (IF d \in stopped THEN 1 ELSE 0) ELSE late[e]
  BY <1>1, <1>3, <1>4, <1>6
<1>8. \A e \in Deliverers, n \in IDs :
        posts'[e][n] = IF e = d /\ n = c THEN posts[d][c] + 1 ELSE posts[e][n]
  <2> HIDE DEF c
  <2>1. posts' = [posts EXCEPT ![d][c] = posts[d][c] + 1]
    BY <1>1, <1>2, <1>3, <1>6
  <2> QED BY <1>2, <1>3, <2>1
<1>9. dpc[d] \in Delivering /\ "posting" \in Holding /\ "posting" \in Delivering
  BY <1>1 DEF Holding, Delivering
<1>10. /\ UNCHANGED <<work, pos, lastAcked, attempts, stopped, hpc, hnew, firstID, outcome>>
       /\ PendingIDs' = PendingIDs
  BY <1>1 DEF setupVars, PendingIDs
<1>11. /\ OnePostAtATime' /\ Reserved'
       /\ \A e \in Deliverers : e # d => dpc[e] \notin Holding /\ dpc[e] \notin Delivering
  BY <1>1, <1>7, <1>9, <1>10, HolderMoves
<1>12. BufInv'
  BY <1>1, UnchangedBuffer DEF HookCore
<1>13. HookTypeOK'
  <2>1. dpc' \in [Deliverers -> Labels]
    BY <1>1, <1>3 DEF Labels, Holding, Delivering
  <2>2. late' \in [Deliverers -> 0..2]
    <3>1. (IF d \in stopped THEN CountTo(2, late[d]) ELSE late[d]) \in 0..2
      BY <1>4, <1>6
    <3> QED BY <1>1, <1>3, <3>1
  <2>3. posts' \in [Deliverers -> [IDs -> 0..(MaxAttempts + 1)]]
    <3>1. CountTo(MaxAttempts + 1, posts[d][c]) \in 0..(MaxAttempts + 1)
      BY <1>5, <1>6, HookTyped
    <3> HIDE DEF c
    <3> QED BY <1>1, <1>2, <1>3, <3>1
  <2> QED BY <1>1, <1>10, <2>1, <2>2, <2>3 DEF HookCore, HookTypeOK, Labels, setupVars
<1>14. RoundsOK' /\ SettledIsLeaving'
  <2>1. \A m \in PendingIDs : m \in IDs
    BY PendingTyped DEF HookCore, IDs
  <2>2. pos[d] <= Len(work[d])
    BY <1>2, HookTyped
  <2>3. \A e \in Deliverers : dpc[e] \in Delivering => e = d
    BY <1>11
  <2>4. \A e \in Deliverers : dpc'[e] \in Delivering => e = d
    BY <1>7, <1>11
  <2> QED BY <1>1, <1>7, <1>9, <1>10, <2>1, <2>2, <2>3, <2>4, RoundsFrame
<1>15. DropsGone' /\ LateOnce'
  BY <1>1, <1>7, <1>10 DEF HookCore, DropsGone, LateOnce
<1>16. Counted'
  <2> SUFFICES ASSUME NEW e \in Deliverers, NEW n \in IDs, outcome[n] = "none"
               PROVE  posts'[e][n] = attempts[e][n] + (IF Posting(e, n)' THEN 1 ELSE 0)
    BY <1>10 DEF Counted
  <2>1. ~Posting(e, n)
    BY <1>1, <1>11 DEF Posting, At, Delivering
  <2>2. posts[e][n] = attempts[e][n] + 0
    BY <2>1 DEF HookCore, Counted
  <2>3. Posting(e, n)' <=> e = d /\ n = c
    <3>1. c' = c
      BY <1>10 DEF Current
    <3> QED BY <1>7, <1>11, <3>1 DEF Posting, At, Delivering
  <2>4. attempts[e][n] \in Nat
    BY AttemptsTyped
  <2> QED BY <1>5, <1>8, <2>2, <2>3, <2>4
<1>17. EightAttempts'
  <2>1. \A e \in Deliverers, n \in IDs : posts'[e][n] <= MaxAttempts
    <3>1. MaxAttempts \in Nat
      BY HookTyped
    <3> QED BY <1>5, <1>8, <3>1 DEF HookCore, EightAttempts
  <2>2. \A n \in IDs : outcome[n] = "dropped" => \E e \in Deliverers : posts'[e][n] = MaxAttempts
    BY <1>2, <1>8 DEF HookCore, EightAttempts
  <2> QED BY <1>10, <2>1, <2>2 DEF EightAttempts
<1>18. Accounts
  BY <1>1, <1>10 DEF Accounts
<1> QED BY <1>11, <1>12, <1>13, <1>14, <1>15, <1>16, <1>17, <1>18 DEF HookCore

LEMMA RejectedKeeps ==
  ASSUME HookCore, NEW d \in Deliverers, Rejected(d)
  PROVE  HookCore' /\ Accounts
<1> DEFINE c == Current(d).id
<1>1. /\ dpc[d] = "posting" /\ attempts[d][c] + 1 < MaxAttempts
      /\ dpc' = [dpc EXCEPT ![d] = "settling"]
      /\ attempts' = [attempts EXCEPT ![d][c] = @ + 1]
      /\ after' = [after EXCEPT ![d] = "backoff"]
      /\ UNCHANGED <<items, nextID, takeMu, lost, work, pos, lastAcked, setupVars, seenVars>>
  BY DEF Rejected, At, Go, bufVars, FailedTries
<1>2. c \in IDs /\ outcome[c] = "none"
  BY <1>1, InHand
<1>3. /\ dpc \in [Deliverers -> Labels] /\ after \in [Deliverers -> Ends]
      /\ attempts \in [Deliverers -> [IDs -> 0..(MaxAttempts - 1)]]
  BY DEF HookCore, HookTypeOK, Labels, Ends
<1>4. attempts[d][c] \in Nat /\ MaxAttempts \in Nat
  BY <1>2, AttemptsTyped, HookTyped
<1>5. \A e \in Deliverers : dpc'[e] = IF e = d THEN "settling" ELSE dpc[e]
  BY <1>1, <1>3
<1>6. \A e \in Deliverers, n \in IDs :
        attempts'[e][n] = IF e = d /\ n = c THEN attempts[d][c] + 1 ELSE attempts[e][n]
  <2> HIDE DEF c
  <2> QED BY <1>1, <1>2, <1>3
<1>7. dpc[d] \in Delivering /\ "settling" \in Holding /\ "settling" \in Delivering
  BY <1>1 DEF Holding, Delivering
<1>8. /\ UNCHANGED <<work, pos, lastAcked, stopped, hpc, hnew, firstID, outcome, posts, late>>
      /\ PendingIDs' = PendingIDs
  BY <1>1 DEF setupVars, seenVars, PendingIDs
<1>9. /\ OnePostAtATime' /\ Reserved'
      /\ \A e \in Deliverers : e # d => dpc[e] \notin Holding /\ dpc[e] \notin Delivering
  BY <1>1, <1>5, <1>7, <1>8, HolderMoves
<1>10. BufInv'
  BY <1>1, UnchangedBuffer DEF HookCore
<1>11. HookTypeOK'
  <2>1. dpc' \in [Deliverers -> Labels] /\ after' \in [Deliverers -> Ends]
    BY <1>1, <1>3 DEF Labels, Ends, Holding, Delivering
  <2>2. attempts' \in [Deliverers -> [IDs -> 0..(MaxAttempts - 1)]]
    <3>1. attempts[d][c] + 1 \in 0..(MaxAttempts - 1)
      BY <1>1, <1>4
    <3> HIDE DEF c
    <3> QED BY <1>1, <1>2, <1>3, <3>1
  <2> QED BY <1>1, <2>1, <2>2 DEF HookCore, HookTypeOK, Labels, Ends, setupVars, seenVars
<1>12. RoundsOK' /\ SettledIsLeaving'
  <2>1. \A m \in PendingIDs : m \in IDs
    BY PendingTyped DEF HookCore, IDs
  <2>2. \A e \in Deliverers : dpc[e] \in Delivering => e = d
    BY <1>9
  <2>3. \A e \in Deliverers : dpc'[e] \in Delivering => e = d
    BY <1>5, <1>9
  <2> QED BY <1>1, <1>5, <1>7, <1>8, <2>1, <2>2, <2>3, RoundsFrame
<1>13. DropsGone' /\ LateOnce'
  BY <1>1, <1>5, <1>8 DEF HookCore, DropsGone, LateOnce
<1>14. Counted'
  <2> SUFFICES ASSUME NEW e \in Deliverers, NEW n \in IDs, outcome[n] = "none"
               PROVE  posts[e][n] = attempts'[e][n] + (IF Posting(e, n)' THEN 1 ELSE 0)
    BY <1>8 DEF Counted
  <2>1. ~Posting(e, n)'
    BY <1>5, <1>9 DEF Posting, At, Delivering
  <2>2. Posting(e, n) <=> e = d /\ n = c
    BY <1>1, <1>9 DEF Posting, At, Delivering
  <2>3. posts[e][n] = attempts[e][n] + (IF Posting(e, n) THEN 1 ELSE 0)
    BY DEF HookCore, Counted
  <2>4. attempts[e][n] \in Nat
    BY AttemptsTyped
  <2> QED BY <1>4, <1>6, <2>1, <2>2, <2>3, <2>4
<1>15. EightAttempts'
  BY <1>8 DEF HookCore, EightAttempts
<1>16. Accounts
  BY <1>1, <1>8 DEF Accounts
<1> QED BY <1>9, <1>10, <1>11, <1>12, <1>13, <1>14, <1>15, <1>16 DEF HookCore


-----------------------------------------------------------------------------
(* The round ends: what was settled in it is acked.                        *)

LEMMA SettleKeeps ==
  ASSUME HookCore, NEW d \in Deliverers, Settle(d)
  PROVE  HookCore' /\ Accounts
<1>1. /\ dpc[d] = "settling" /\ dpc' = [dpc EXCEPT ![d] = "releasing"]
      /\ UNCHANGED <<nextID, takeMu, lost, after, work, pos, lastAcked, attempts, setupVars, seenVars>>
      /\ IF lastAcked[d] > 0 THEN Ack(lastAcked[d]) ELSE UNCHANGED items
  BY DEF Settle, At, Go, Ack
<1>2. dpc[d] \in Delivering /\ "releasing" \in Holding /\ "releasing" \notin Delivering /\ Round(d)
  BY <1>1 DEF HookCore, RoundsOK, Holding, Delivering
<1>3. \A e \in Deliverers : dpc'[e] = IF e = d THEN "releasing" ELSE dpc[e]
  BY <1>1 DEF HookCore, HookTypeOK
<1>4. /\ OnePostAtATime' /\ Reserved'
      /\ \A e \in Deliverers : e # d => dpc[e] \notin Holding /\ dpc[e] \notin Delivering
  BY <1>1, <1>2, <1>3, HolderMoves DEF setupVars
<1>5. /\ UNCHANGED <<stopped, hpc, hnew, firstID, outcome, posts, late>>
      /\ MaxID \in Nat /\ nextID \in Nat /\ lastAcked[d] \in Nat
  BY <1>1, HookTyped DEF setupVars, seenVars
<1>6. /\ BufInv' /\ PendingIDs' \subseteq PendingIDs
      /\ \A m \in PendingIDs' : m >= lastAcked[d]
      /\ \A m \in PendingIDs : m >= lastAcked[d] => m \in PendingIDs'
  <2>1. CASE lastAcked[d] > 0
    <3>1. /\ BufInv' /\ PendingIDs' \subseteq PendingIDs
          /\ \A i \in 1..Len(items') : items'[i].id >= lastAcked[d]
          /\ \A m \in PendingIDs : m >= lastAcked[d] => m \in PendingIDs'
      BY <1>1, <1>5, <2>1, AckKeeps DEF HookCore
    <3> QED BY <3>1 DEF PendingIDs
  <2>2. CASE ~(lastAcked[d] > 0)
    <3>1. UNCHANGED <<items, nextID, takeMu, lost>> /\ PendingIDs' = PendingIDs /\ lastAcked[d] = 0
      BY <1>1, <1>5, <2>2 DEF PendingIDs
    <3>2. \A m \in PendingIDs : m \in Nat
      BY <1>5, PendingTyped DEF HookCore
    <3> QED BY <3>1, <3>2, UnchangedBuffer DEF HookCore
  <2> QED BY <2>1, <2>2
<1>7. \A m \in PendingIDs : m \in IDs /\ m \in Nat
  BY <1>5, PendingTyped DEF HookCore, IDs
<1>8. HookTypeOK'
  <2>1. dpc' \in [Deliverers -> Labels]
    BY <1>1 DEF HookCore, HookTypeOK, Labels, Holding, Delivering
  <2> QED BY <1>1, <2>1 DEF HookCore, HookTypeOK, Labels, setupVars, seenVars
<1>9. RoundsOK'
  BY <1>2, <1>3, <1>4 DEF RoundsOK
<1>10. SettledIsLeaving'
  <2>1. ASSUME NEW m \in PendingIDs', outcome[m] # "none" PROVE FALSE
    <3>1. PICK e \in Deliverers : dpc[e] \in Delivering /\ m < lastAcked[e]
      BY <1>6, <2>1 DEF HookCore, SettledIsLeaving
    <3>2. m < lastAcked[d] /\ m >= lastAcked[d] /\ m \in Nat
      BY <1>4, <1>6, <1>7, <3>1
    <3> QED BY <1>5, <3>2
  <2> QED BY <1>1, <1>5, <2>1 DEF HookCore, SettledIsLeaving
<1>11. DropsGone' /\ LateOnce'
  BY <1>1, <1>3, <1>5, <1>6 DEF HookCore, DropsGone, LateOnce
<1>12. Counted' /\ EightAttempts'
  <2>1. \A e \in Deliverers, n \in IDs : ~Posting(e, n) /\ ~Posting(e, n)'
    BY <1>1, <1>3, <1>4 DEF Posting, At, Delivering
  <2> QED BY <1>1, <1>5, <2>1 DEF HookCore, Counted, EightAttempts
<1>13. Accounts
  <2>1. ASSUME NEW m \in PendingIDs, m < lastAcked[d] PROVE outcome[m] # "none"
    <3>1. pos[d] # 1 /\ lastAcked[d] = work[d][1].id + pos[d] - 1
      BY <1>2, <1>5, <1>7, <2>1 DEF Round
    <3>2. m >= work[d][1].id /\ 1 \in 1..Len(work[d])
      BY <1>2, HookTyped DEF Round
    <3>3. work[d][1].id \in Nat /\ pos[d] \in Nat /\ pos[d] <= Len(work[d]) + 1 /\ Len(work[d]) \in Nat
      BY <3>2, <1>5, HookTyped DEF IDs
    <3> DEFINE i == m - work[d][1].id + 1
    <3>4. i \in 1..Len(work[d]) /\ ~(i >= pos[d]) /\ work[d][1].id + i - 1 = m
      <4>1. m \in Nat /\ m < work[d][1].id + pos[d] - 1 /\ m >= work[d][1].id
        BY <1>7, <2>1, <3>1, <3>2
      <4>2. i \in Nat /\ i >= 1 /\ i < pos[d]
        <5>1. PICK a \in Nat, p \in Nat : a = work[d][1].id /\ p = pos[d]
          BY <3>3
        <5>2. i = m - a + 1
          BY <5>1
        <5>3. m < a + p - 1 /\ m >= a
          BY <4>1, <5>1
        <5> HIDE DEF i
        <5> QED BY <4>1, <5>1, <5>2, <5>3
      <4>3. i \in 1..Len(work[d]) /\ ~(i >= pos[d])
        BY <3>3, <4>2
      <4>4. work[d][1].id + i - 1 = m
        BY <3>3, <4>1
      <4> QED BY <4>3, <4>4
    <3> HIDE DEF i
    <3>5. work[d][i].id = m
      BY <1>2, <3>4 DEF Round
    <3> QED BY <1>2, <3>4, <3>5 DEF Round
  <2>2. \A m \in PendingIDs : m \in PendingIDs' \/ outcome[m] # "none"
    BY <1>5, <1>6, <1>7, <2>1
  <2> QED BY <1>1, <1>5, <2>2 DEF Accounts
<1> QED BY <1>4, <1>6, <1>8, <1>9, <1>10, <1>11, <1>12, <1>13 DEF HookCore

LEMMA RunKeeps ==
  ASSUME HookCore, NEW d \in Deliverers, Run(d)
  PROVE  HookCore' /\ Accounts
BY TopKeeps, DeliverLockKeeps, CollectKeeps, CollectNothingKeeps, NextItemKeeps, SkipKeeps,
   PostKeeps, AcceptedKeeps, RejectedKeeps, GiveUpKeeps, SettleKeeps, UnlockKeeps,
   BackoffEndsKeeps DEF Run


-----------------------------------------------------------------------------
(* The handlers reserve a deliverer, give it back, and start it.           *)

LEMMA AwayKeeps ==
  ASSUME HookCore, NEW d \in Deliverers, dpc[d] \in {"unused", "reserved"},
         NEW label \in {"unused", "reserved", "top"},
         \A e \in Deliverers : dpc'[e] = IF e = d THEN label ELSE dpc[e],
         UNCHANGED <<takeMu, nextID, after, work, pos, lastAcked, attempts, stopped, seenVars>>,
         BufInv', HookTypeOK', Reserved', lost \subseteq lost', PendingIDs' \subseteq PendingIDs,
         \A m \in PendingIDs : m \in PendingIDs' \cup lost',
         \A e \in Deliverers : e # d => firstID'[e] = firstID[e],
         firstID'[d] <= nextID, \A m \in PendingIDs' : m >= firstID'[d]
  PROVE  HookCore' /\ Accounts
<1>1. /\ dpc[d] \notin Holding /\ dpc[d] \notin Delivering /\ label \notin Holding
      /\ label \notin Delivering
  BY DEF Holding, Delivering
<1>2. UNCHANGED <<outcome, posts, late>>
  BY DEF seenVars
<1>3. OnePostAtATime'
  BY <1>1 DEF HookCore, OnePostAtATime
<1>4. RoundsOK' /\ SettledIsLeaving'
  <2>1. \A m \in PendingIDs' : m \in IDs /\ m \in PendingIDs
    BY PendingTyped DEF HookCore, IDs
  <2>2. \A e \in Deliverers : dpc[e] \in {"translating", "posting"} => pos[e] <= Len(work[e])
    BY DEF HookCore, RoundsOK, Round, Delivering
  <2>3. \A e \in Deliverers : dpc'[e] \in Delivering => e # d /\ dpc'[e] = dpc[e]
    BY <1>1
  <2>4. \A e \in Deliverers : dpc[e] \in Delivering => e # d /\ dpc'[e] = dpc[e]
    BY <1>1
  <2> QED BY <1>2, <2>1, <2>2, <2>3, <2>4, RoundsFrame
<1>5. DropsGone'
  BY DEF HookCore, DropsGone
<1>6. LateOnce'
  BY <1>2 DEF HookCore, LateOnce
<1>7. Counted' /\ EightAttempts'
  <2>1. \A e \in Deliverers, n \in IDs : Posting(e, n)' <=> Posting(e, n)
    BY DEF Posting, At, Current
  <2> QED BY <1>2, <2>1 DEF HookCore, Counted, EightAttempts
<1>8. Accounts
  BY <1>2 DEF Accounts
<1> QED BY <1>3, <1>4, <1>5, <1>6, <1>7, <1>8 DEF HookCore

(* The types of what such a step writes.                                   *)
LEMMA AwayTyped ==
  ASSUME HookCore, NEW h \in Handlers, NEW d \in Deliverers, NEW r \in Deliverers \cup {NoDrainer},
         NEW label \in {"unused", "reserved", "top"}, NEW first \in 0..(MaxID + 1),
         NEW to \in {"idle", "storing"},
         dpc' = [dpc EXCEPT ![d] = label], hnew' = [hnew EXCEPT ![h] = r],
         hpc' = [hpc EXCEPT ![h] = to],
         firstID' = [firstID EXCEPT ![d] = first], current' \in Deliverers \cup {NoDrainer},
         UNCHANGED <<after, work, pos, lastAcked, attempts, stopped, row, htaken, seenVars>>
  PROVE  /\ HookTypeOK'
         /\ \A e \in Deliverers : dpc'[e] = IF e = d THEN label ELSE dpc[e]
         /\ \A e \in Deliverers : firstID'[e] = IF e = d THEN first ELSE firstID[e]
         /\ \A g \in Handlers : hnew'[g] = IF g = h THEN r ELSE hnew[g]
         /\ \A g \in Handlers : hpc'[g] = IF g = h THEN to ELSE hpc[g]
<1>1. /\ dpc \in [Deliverers -> Labels] /\ firstID \in [Deliverers -> 0..(MaxID + 1)]
      /\ hnew \in [Handlers -> Deliverers \cup {NoDrainer}]
      /\ hpc \in [Handlers -> {"idle", "storing", "clearing", "taking", "closing", "starting"}]
  BY DEF HookCore, HookTypeOK, Labels
<1>2. dpc' \in [Deliverers -> Labels]
  BY <1>1 DEF Labels
<1>3. /\ firstID' \in [Deliverers -> 0..(MaxID + 1)]
      /\ hnew' \in [Handlers -> Deliverers \cup {NoDrainer}]
      /\ hpc' \in [Handlers -> {"idle", "storing", "clearing", "taking", "closing", "starting"}]
  BY <1>1
<1> QED BY <1>1, <1>2, <1>3 DEF HookCore, HookTypeOK, Labels, seenVars

(* What Clear takes away is on record.                                     *)
LEMMA ClearMoves ==
  ASSUME BufInv, Clear, UNCHANGED takeMu
  PROVE  BufInv' /\ PendingIDs' = {} /\ lost' = lost \cup PendingIDs /\ nextID' = nextID
<1>1. BufInv'
  BY ClearKeeps
<1> QED BY <1>1 DEF Clear, PendingIDs

LEMMA SetWebhookKeeps ==
  ASSUME HookCore, NEW h \in Handlers, NEW d \in Deliverers, NEW drop \in BOOLEAN,
         SetWebhook(h, d, drop)
  PROVE  HookCore' /\ Accounts
<1> DEFINE first == IF drop THEN nextID ELSE 0
<1>1. /\ hpc[h] = "idle" /\ dpc[d] = "unused"
      /\ dpc' = [dpc EXCEPT ![d] = "reserved"] /\ hnew' = [hnew EXCEPT ![h] = d]
      /\ hpc' = [hpc EXCEPT ![h] = "storing"]
      /\ firstID' = [firstID EXCEPT ![d] = first]
      /\ UNCHANGED <<takeMu, after, work, pos, lastAcked, attempts, stopped, current, row, htaken, seenVars>>
      /\ IF drop THEN Clear ELSE UNCHANGED <<items, nextID, lost>>
  BY DEF SetWebhook, HGo, Go, At, StartAfresh
<1>2. first \in 0..(MaxID + 1) /\ nextID \in Nat /\ current' \in Deliverers \cup {NoDrainer}
  BY <1>1, Shape DEF HookCore, HookTypeOK
<1>3. /\ HookTypeOK'
      /\ \A e \in Deliverers : dpc'[e] = IF e = d THEN "reserved" ELSE dpc[e]
      /\ \A e \in Deliverers : firstID'[e] = IF e = d THEN first ELSE firstID[e]
      /\ \A g \in Handlers : hnew'[g] = IF g = h THEN d ELSE hnew[g]
      /\ \A g \in Handlers : hpc'[g] = IF g = h THEN "storing" ELSE hpc[g]
  <2> HIDE DEF first
  <2> QED BY <1>1, <1>2, AwayTyped
<1>4. \A m \in PendingIDs : m \in Nat
  BY PendingTyped, HookTyped DEF HookCore
<1>5. /\ BufInv' /\ nextID' = nextID /\ PendingIDs' \subseteq PendingIDs /\ lost \subseteq lost'
      /\ \A m \in PendingIDs : m \in PendingIDs' \cup lost'
      /\ \A m \in PendingIDs' : m >= first
  <2>1. CASE drop
    BY <1>1, <2>1, ClearMoves DEF HookCore
  <2>2. CASE ~drop
    <3>1. UNCHANGED <<items, nextID, takeMu, lost>> /\ PendingIDs' = PendingIDs /\ first = 0
      BY <1>1, <2>2 DEF PendingIDs
    <3> QED BY <1>4, <3>1, UnchangedBuffer DEF HookCore
  <2> QED BY <2>1, <2>2
<1>6. Reserved'
  <2>1. \A g \in Handlers : hnew[g] # NoDrainer => hnew[g] \in Deliverers /\ hnew[g] # d
    BY <1>1 DEF HookCore, HookTypeOK, Reserved
  <2>2. d # NoDrainer
    BY HookTyped
  <2> QED BY <1>1, <1>3, <2>1, <2>2 DEF HookCore, Reserved
<1>7. first <= nextID
  BY <1>2
<1> HIDE DEF first
<1> QED BY <1>1, <1>3, <1>5, <1>6, <1>7, AwayKeeps

LEMMA ReservedOne ==
  ASSUME HookCore, NEW h \in Handlers, hpc[h] \in {"storing", "starting"}
  PROVE  /\ hnew[h] \in Deliverers /\ dpc[hnew[h]] = "reserved" /\ hnew[h] # NoDrainer
         /\ \A g \in Handlers : g # h => hnew[g] # hnew[h]
BY DEF HookCore, HookTypeOK, Reserved

(* The call lets go of its deliverer, the others' are still reserved.      *)
LEMMA ReservedGivenBack ==
  ASSUME HookCore, NEW h \in Handlers, NEW d \in Deliverers, NEW label,
         \A g \in Handlers : g # h => hnew[g] # d,
         \A e \in Deliverers : dpc'[e] = IF e = d THEN label ELSE dpc[e],
         \A g \in Handlers : hnew'[g] = IF g = h THEN NoDrainer ELSE hnew[g],
         \A g \in Handlers : hpc'[g] = IF g = h THEN "idle" ELSE hpc[g]
  PROVE  Reserved'
<1>1. \A g \in Handlers : hnew[g] # NoDrainer => hnew[g] \in Deliverers
  BY DEF HookCore, HookTypeOK
<1> QED BY <1>1 DEF HookCore, Reserved

LEMMA StoreFailsKeeps ==
  ASSUME HookCore, NEW h \in Handlers, StoreFails(h)
  PROVE  HookCore' /\ Accounts
<1>1. PICK d \in Deliverers : /\ d = hnew[h] /\ dpc[d] = "reserved"
                              /\ \A g \in Handlers : g # h => hnew[g] # d
  BY ReservedOne DEF StoreFails
<1>2. /\ dpc' = [dpc EXCEPT ![d] = "unused"] /\ hnew' = [hnew EXCEPT ![h] = NoDrainer]
      /\ hpc' = [hpc EXCEPT ![h] = "idle"]
      /\ firstID' = [firstID EXCEPT ![d] = 0]
      /\ UNCHANGED <<items, nextID, takeMu, lost, after, work, pos, lastAcked, attempts, stopped, current, row,
                     htaken, seenVars>>
  BY <1>1 DEF StoreFails, HGo, Go, At, StartAfresh
<1>3. /\ 0 \in 0..(MaxID + 1) /\ nextID \in Nat /\ \A m \in PendingIDs : m \in Nat
      /\ NoDrainer \in Deliverers \cup {NoDrainer}
  BY <1>1, HookTyped, PendingTyped DEF HookCore
<1>4. current' \in Deliverers \cup {NoDrainer}
  BY <1>2 DEF HookCore, HookTypeOK
<1>5. /\ HookTypeOK'
      /\ \A e \in Deliverers : dpc'[e] = IF e = d THEN "unused" ELSE dpc[e]
      /\ \A e \in Deliverers : firstID'[e] = IF e = d THEN 0 ELSE firstID[e]
      /\ \A g \in Handlers : hnew'[g] = IF g = h THEN NoDrainer ELSE hnew[g]
      /\ \A g \in Handlers : hpc'[g] = IF g = h THEN "idle" ELSE hpc[g]
  BY <1>2, <1>3, <1>4, AwayTyped
<1>6. BufInv' /\ PendingIDs' = PendingIDs
  BY <1>2, UnchangedBuffer DEF HookCore, PendingIDs
<1>7. Reserved'
  BY <1>1, <1>5, ReservedGivenBack
<1> QED BY <1>1, <1>2, <1>3, <1>5, <1>6, <1>7, AwayKeeps

LEMMA StartRunKeeps ==
  ASSUME HookCore, NEW h \in Handlers, StartRun(h)
  PROVE  HookCore' /\ Accounts
<1>1. PICK d \in Deliverers : /\ d = hnew[h] /\ dpc[d] = "reserved"
                              /\ \A g \in Handlers : g # h => hnew[g] # d
  BY ReservedOne DEF StartRun
<1>2. /\ dpc' = [dpc EXCEPT ![d] = "top"] /\ hnew' = [hnew EXCEPT ![h] = NoDrainer]
      /\ hpc' = [hpc EXCEPT ![h] = "idle"] /\ current' = d
      /\ UNCHANGED <<items, nextID, takeMu, lost, after, work, pos, lastAcked, attempts, stopped, row,
                     htaken, seenVars>>
  BY <1>1 DEF StartRun, HGo, Go, At, bufVars
<1>3. firstID \in [Deliverers -> 0..(MaxID + 1)] /\ firstID' = firstID
  BY DEF HookCore, HookTypeOK, StartRun
<1>4. /\ current' \in Deliverers \cup {NoDrainer} /\ NoDrainer \in Deliverers \cup {NoDrainer}
  BY <1>2, <1>3
<1>5. PICK first \in 0..(MaxID + 1) : firstID' = [firstID EXCEPT ![d] = first]
  <2>1. firstID[d] \in 0..(MaxID + 1) /\ firstID' = [firstID EXCEPT ![d] = firstID[d]]
    BY <1>3
  <2> QED BY <2>1
<1>6. /\ HookTypeOK'
      /\ \A e \in Deliverers : dpc'[e] = IF e = d THEN "top" ELSE dpc[e]
      /\ \A e \in Deliverers : firstID'[e] = IF e = d THEN first ELSE firstID[e]
      /\ \A g \in Handlers : hnew'[g] = IF g = h THEN NoDrainer ELSE hnew[g]
      /\ \A g \in Handlers : hpc'[g] = IF g = h THEN "idle" ELSE hpc[g]
  BY <1>2, <1>4, <1>5, AwayTyped
<1>7. BufInv' /\ PendingIDs' = PendingIDs
  BY <1>2, UnchangedBuffer DEF HookCore, PendingIDs
<1>8. Reserved'
  BY <1>1, <1>6, ReservedGivenBack
<1>9. firstID[d] <= nextID /\ \A m \in PendingIDs : m >= firstID[d]
  BY DEF HookCore, DropsGone
<1> QED BY <1>1, <1>2, <1>3, <1>6, <1>7, <1>8, <1>9, AwayKeeps


-----------------------------------------------------------------------------
(* The other handler steps keep books; Clear and Push are steps of the     *)
(* buffer like anyone else's.                                              *)

HLabels == {"idle", "storing", "clearing", "taking", "closing", "starting"}

LEMMA BookkeepingKeeps ==
  ASSUME HookCore, NEW h \in Handlers, NEW label \in HLabels,
         hpc' = [hpc EXCEPT ![h] = label],
         label \in {"storing", "starting"} => hnew[h] # NoDrainer,
         UNCHANGED <<takeMu, runVars, seenVars, firstID, hnew>>, [BufNext]_bufVars,
         stopped \subseteq stopped', stopped' \subseteq Deliverers,
         row' \in Deliverers \cup {NoDrainer, NoRow}, current' \in Deliverers \cup {NoDrainer},
         htaken' \in [Handlers -> Deliverers \cup {NoDrainer}]
  PROVE  HookCore'
<1>1. hpc \in [Handlers -> HLabels]
  BY DEF HookCore, HookTypeOK, HLabels
<1>2. hpc' \in [Handlers -> HLabels] /\ \A g \in Handlers : hpc'[g] = IF g = h THEN label ELSE hpc[g]
  BY <1>1
<1>3. HookTypeOK'
  BY <1>2 DEF HookCore, HookTypeOK, HLabels, runVars, seenVars
<1>4. Reserved'
  BY <1>2 DEF HookCore, Reserved, runVars
<1> QED BY <1>3, <1>4, OthersKeepHook

LEMMA QuietAccounts ==
  ASSUME HookCore, UNCHANGED outcome,
         \/ UNCHANGED <<items, nextID, lost>>
         \/ Clear /\ UNCHANGED takeMu
         \/ \E ok \in BOOLEAN : Push(ok)
  PROVE  Accounts
<1>1. CASE UNCHANGED <<items, nextID, lost>>
  BY <1>1 DEF Accounts, PendingIDs
<1>2. CASE Clear /\ UNCHANGED takeMu
  BY <1>2, ClearMoves DEF HookCore, Accounts
<1>3. ASSUME NEW ok \in BOOLEAN, Push(ok) PROVE Accounts
  <2>1. /\ \A m \in PendingIDs : m \in PendingIDs' \/ m \in lost'
        /\ nextID \in PendingIDs' /\ nextID' = nextID + 1 /\ lost \subseteq lost'
    BY <1>3, PushMoves DEF HookCore
  <2>2. nextID \in Nat
    BY Shape DEF HookCore
  <2>3. \A n \in 1..(nextID' - 1) : n \in 1..(nextID - 1) \/ n = nextID
    BY <2>1, <2>2
  <2> QED BY <2>1, <2>3 DEF Accounts
<1> QED BY <1>1, <1>2, <1>3

LEMMA HookPushKeeps ==
  ASSUME HookCore, NEW ok \in BOOLEAN, Push(ok), UNCHANGED hookVars
  PROVE  HookCore' /\ Accounts
<1>1. /\ UNCHANGED <<takeMu, runVars, seenVars, setupVars>> /\ [BufNext]_bufVars
      /\ stopped' = stopped /\ firstID' = firstID /\ outcome' = outcome
  BY DEF hookVars, Push, BufNext, setupVars, seenVars
<1>2. HookTypeOK' /\ Reserved'
  BY <1>1 DEF HookCore, HookTypeOK, Reserved, runVars, seenVars, setupVars
<1>3. HookCore'
  BY <1>1, <1>2, OthersKeepHook
<1>4. Accounts
  BY <1>1, QuietAccounts
<1> QED BY <1>3, <1>4

LEMMA SetupTyped ==
  ASSUME HookCore
  PROVE  /\ stopped \subseteq Deliverers
         /\ row \in Deliverers \cup {NoDrainer, NoRow} /\ current \in Deliverers \cup {NoDrainer}
         /\ hnew \in [Handlers -> Deliverers \cup {NoDrainer}]
         /\ htaken \in [Handlers -> Deliverers \cup {NoDrainer}]
BY DEF HookCore, HookTypeOK

LEMMA StoreWebhookKeeps ==
  ASSUME HookCore, NEW h \in Handlers, StoreWebhook(h)
  PROVE  HookCore' /\ Accounts
<1>1. /\ hpc' = [hpc EXCEPT ![h] = "taking"] /\ "taking" \in HLabels
      /\ UNCHANGED <<items, nextID, lost, takeMu, runVars, seenVars, stopped, current, hnew, htaken, firstID>>
      /\ UNCHANGED <<bufVars, outcome>> /\ row' \in Deliverers \cup {NoDrainer, NoRow}
  BY SetupTyped DEF StoreWebhook, Update, HGo, HLabels, bufVars, seenVars
<1> QED BY <1>1, SetupTyped, BookkeepingKeeps, QuietAccounts

LEMMA DeleteWebhookKeeps ==
  ASSUME HookCore, NEW h \in Handlers, DeleteWebhook(h)
  PROVE  HookCore' /\ Accounts
<1>1. PICK label \in {"taking", "clearing"} :
        /\ hpc' = [hpc EXCEPT ![h] = label] /\ label \in HLabels
        /\ UNCHANGED <<items, nextID, lost, takeMu, runVars, seenVars, stopped, current, hnew, htaken, firstID>>
        /\ UNCHANGED <<bufVars, outcome>> /\ row' \in Deliverers \cup {NoDrainer, NoRow}
  BY SetupTyped DEF DeleteWebhook, Update, HGo, HLabels, bufVars, seenVars
<1> QED BY <1>1, SetupTyped, BookkeepingKeeps, QuietAccounts

LEMMA DropPendingKeeps ==
  ASSUME HookCore, NEW h \in Handlers, DropPending(h)
  PROVE  HookCore' /\ Accounts
<1>1. /\ hpc' = [hpc EXCEPT ![h] = "taking"] /\ "taking" \in HLabels
      /\ Clear /\ UNCHANGED <<takeMu, runVars, seenVars, stopped, current, row, hnew, htaken, firstID>>
      /\ UNCHANGED outcome
  BY DEF DropPending, HGo, HLabels, seenVars
<1>2. [BufNext]_bufVars
  BY <1>1 DEF BufNext
<1> QED BY <1>1, <1>2, SetupTyped, BookkeepingKeeps, QuietAccounts

LEMMA TakeKeeps ==
  ASSUME HookCore, NEW h \in Handlers, Take(h)
  PROVE  HookCore' /\ Accounts
<1>1. /\ hpc' = [hpc EXCEPT ![h] = "closing"] /\ "closing" \in HLabels
      /\ htaken' = [htaken EXCEPT ![h] = current] /\ current' = NoDrainer
      /\ UNCHANGED <<items, nextID, lost, takeMu, runVars, seenVars, stopped, row, hnew, firstID>>
      /\ UNCHANGED <<bufVars, outcome>>
  BY DEF Take, HGo, HLabels, bufVars, seenVars
<1>2. htaken' \in [Handlers -> Deliverers \cup {NoDrainer}]
  BY <1>1, SetupTyped
<1> QED BY <1>1, <1>2, SetupTyped, BookkeepingKeeps, QuietAccounts

LEMMA CloseStopKeeps ==
  ASSUME HookCore, NEW h \in Handlers, CloseStop(h)
  PROVE  HookCore' /\ Accounts
<1>1. PICK label \in {"idle", "starting"} :
        /\ hpc' = [hpc EXCEPT ![h] = label] /\ label \in HLabels
        /\ label = "starting" => hnew[h] # NoDrainer
        /\ htaken' = [htaken EXCEPT ![h] = NoDrainer]
        /\ stopped' = stopped \cup ({htaken[h]} \ {NoDrainer})
        /\ UNCHANGED <<items, nextID, lost, takeMu, runVars, seenVars, current, row, hnew, firstID>>
        /\ UNCHANGED <<bufVars, outcome>>
  BY DEF CloseStop, HGo, HLabels, bufVars, seenVars
<1>2. htaken' \in [Handlers -> Deliverers \cup {NoDrainer}] /\ stopped' \subseteq Deliverers
  BY <1>1, SetupTyped
<1> QED BY <1>1, <1>2, SetupTyped, BookkeepingKeeps, QuietAccounts

LEMMA HandleKeeps ==
  ASSUME HookCore, NEW h \in Handlers, Handle(h)
  PROVE  HookCore' /\ Accounts
BY SetWebhookKeeps, StoreWebhookKeeps, StoreFailsKeeps, DeleteWebhookKeeps, DropPendingKeeps,
   TakeKeeps, CloseStopKeeps, StartRunKeeps DEF Handle

-----------------------------------------------------------------------------
(* What the deliverers and the handlers do with the buffer.                *)

LEMMA RunUsesBuffer ==
  ASSUME HookCore, NEW d \in Deliverers, Run(d)
  PROVE  [BufNext]_bufVars
<1>1. d \in Drainers
  BY HookTyped
<1>2. CASE DeliverLock(d) \/ Unlock(d)
  BY <1>1, <1>2 DEF DeliverLock, Unlock, BufNext
<1>3. CASE Settle(d)
  <2>1. dpc[d] \in Holding
    BY <1>3 DEF Settle, At, Holding, Delivering
  <2>2. takeMu = d /\ takeMu' = takeMu
    BY <1>3, <2>1 DEF Settle, HookCore, OnePostAtATime
  <2>3. CASE lastAcked[d] > 0
    <3>1. lastAcked[d] \in 1..(MaxID + 1)
      BY <2>3, HookTyped DEF HookCore, HookTypeOK
    <3>2. Ack(lastAcked[d])
      BY <1>3, <2>3 DEF Settle
    <3> QED BY <1>1, <2>2, <3>1, <3>2 DEF BufNext
  <2>4. CASE ~(lastAcked[d] > 0)
    BY <1>3, <2>2, <2>4 DEF Settle, bufVars
  <2> QED BY <2>3, <2>4
<1>4. CASE Top(d) \/ Collect(d) \/ CollectNothing(d) \/ NextItem(d) \/ Skip(d) \/ Post(d)
           \/ Accepted(d) \/ Rejected(d) \/ GiveUp(d) \/ BackoffEnds(d)
  <2>1. UNCHANGED bufVars
    BY <1>4 DEF Top, Collect, CollectNothing, NextItem, Skip, Post, Accepted, Rejected, GiveUp,
                BackoffEnds, MovePast
  <2> QED BY <2>1
<1> QED BY <1>2, <1>3, <1>4 DEF Run

LEMMA HandleUsesBuffer ==
  ASSUME NEW h \in Handlers, Handle(h)
  PROVE  [BufNext]_bufVars
<1>1. ASSUME NEW d \in Deliverers, NEW drop \in BOOLEAN, SetWebhook(h, d, drop)
      PROVE  [BufNext]_bufVars
  BY <1>1 DEF SetWebhook, StartAfresh, BufNext, bufVars
<1>2. CASE DropPending(h)
  BY <1>2 DEF DropPending, BufNext
<1>3. CASE StoreWebhook(h) \/ DeleteWebhook(h) \/ Take(h) \/ CloseStop(h) \/ StartRun(h)
  <2>1. UNCHANGED bufVars
    BY <1>3 DEF StoreWebhook, DeleteWebhook, Take, CloseStop, StartRun
  <2> QED BY <2>1
<1>4. CASE StoreFails(h)
  BY <1>4 DEF StoreFails, StartAfresh, bufVars
<1> QED BY <1>1, <1>2, <1>3, <1>4 DEF Handle


-----------------------------------------------------------------------------
(* The invariant, and what it says.                                        *)

LEMMA HookStepKeeps ==
  ASSUME HookCore, [HookNext]_<<bufVars, hookVars>>
  PROVE  HookCore' /\ Accounts /\ [BufNext]_bufVars
<1>1. ASSUME NEW d \in Deliverers, Run(d) PROVE HookCore' /\ Accounts /\ [BufNext]_bufVars
  BY <1>1, RunKeeps, RunUsesBuffer
<1>2. ASSUME NEW h \in Handlers, Handle(h) PROVE HookCore' /\ Accounts /\ [BufNext]_bufVars
  BY <1>2, HandleKeeps, HandleUsesBuffer
<1>3. ASSUME NEW ok \in BOOLEAN, Push(ok), UNCHANGED hookVars
      PROVE  HookCore' /\ Accounts /\ [BufNext]_bufVars
  BY <1>3, HookPushKeeps DEF BufNext
<1>4. CASE UNCHANGED <<bufVars, hookVars>>
  <2>1. /\ UNCHANGED <<takeMu, items, nextID, lost, bufVars, runVars, seenVars, setupVars>>
        /\ stopped' = stopped /\ firstID' = firstID /\ outcome' = outcome
    BY <1>4 DEF bufVars, hookVars, setupVars, seenVars
  <2>2. HookTypeOK' /\ Reserved'
    BY <2>1 DEF HookCore, HookTypeOK, Reserved, runVars, seenVars, setupVars
  <2>3. HookCore'
    BY <2>1, <2>2, OthersKeepHook
  <2> QED BY <2>1, <2>3, QuietAccounts
<1> QED BY <1>1, <1>2, <1>3, <1>4 DEF HookNext

LEMMA HookNextInv == HookInv /\ [HookNext]_<<bufVars, hookVars>> => HookInv'
<1> SUFFICES ASSUME HookInv, [HookNext]_<<bufVars, hookVars>> PROVE HookInv'
  OBVIOUS
<1>1. HookCore /\ HookCore' /\ Accounts
  BY HookStepKeeps DEF HookInv
<1>2. SettledOrKept'
  <2> SUFFICES ASSUME NEW n \in 1..(nextID' - 1)
               PROVE  n \in PendingIDs' \/ n \in lost' \/ outcome'[n] # "none"
    BY DEF SettledOrKept
  <2>1. CASE n \in 1..(nextID - 1)
    <3>1. n \in IDs
      BY <1>1, <2>1, Shape DEF HookCore, IDs
    <3> QED BY <1>1, <2>1, <3>1 DEF HookInv, SettledOrKept, Accounts
  <2> QED BY <1>1, <2>1 DEF Accounts
<1> QED BY <1>1, <1>2 DEF HookInv

(* Everything older than the item in hand is settled, or was lost.         *)
LEMMA OlderSettled == HookInv => InOrder
<1> SUFFICES ASSUME HookInv, NEW d \in Deliverers, dpc[d] = "posting",
                    NEW n \in 1..(Current(d).id - 1), outcome[n] = "none"
             PROVE  n \in lost
  BY DEF InOrder, At
<1>1. /\ HookCore /\ Round(d) /\ pos[d] \in 1..Len(work[d])
      /\ Current(d).id \in Nat /\ Current(d).id = work[d][1].id + pos[d] - 1
      /\ work[d][1].id \in IDs /\ Current(d).id < nextID
  BY InHand DEF HookInv
<1>2. PICK a \in Nat, p \in Nat, c \in Nat :
        /\ a = work[d][1].id /\ p = pos[d] /\ c = Current(d).id
        /\ c = a + p - 1 /\ p <= Len(work[d])
  <2>1. pos[d] \in Nat /\ Len(work[d]) \in Nat /\ MaxID \in Nat
    BY <1>1, HookTyped
  <2>2. work[d][1].id \in Nat
    BY <1>1, <2>1 DEF IDs
  <2>3. pos[d] <= Len(work[d])
    BY <1>1, <2>1
  <2> QED BY <1>1, <2>1, <2>2, <2>3
<1>3. /\ nextID \in Nat /\ Len(work[d]) \in Nat /\ c < nextID
      /\ n \in Nat /\ n >= 1 /\ n < c
  <2>1. nextID \in Nat /\ Len(work[d]) \in Nat
    BY <1>1, HookTyped
  <2>2. n \in 1..(c - 1)
    BY <1>2
  <2>3. c < nextID
    BY <1>1, <1>2
  <2> QED BY <1>2, <2>1, <2>2, <2>3
<1>4. n \in 1..(nextID - 1)
  BY <1>2, <1>3
<1>5. CASE n \in PendingIDs
  <2>1. n >= a
    BY <1>1, <1>2, <1>5 DEF Round
  <2>2. PICK i \in Nat : i = n - a + 1
    BY <1>2, <1>3, <2>1
  <2>3. i >= 1 /\ i < p /\ i <= Len(work[d]) /\ n = a + i - 1
    <3>1. c = a + p - 1 /\ p <= Len(work[d])
      BY <1>2
    <3> QED BY <1>3, <2>1, <2>2, <3>1
  <2>4. i \in 1..Len(work[d]) /\ ~(i >= pos[d])
    BY <1>2, <1>3, <2>3
  <2>5. work[d][i].id = n /\ ~(outcome[work[d][i].id] = "none")
    BY <1>1, <1>2, <2>3, <2>4 DEF Round
  <2> QED BY <2>5
<1> QED BY <1>4, <1>5 DEF HookInv, SettledOrKept

LEMMA HookCoreSays ==
  HookCore => /\ HookTypeOK /\ OnePostAtATime /\ SettledOnce /\ EightAttempts /\ StopsPromptly
              /\ DroppedNotPosted
<1> SUFFICES ASSUME HookCore
             PROVE  /\ HookTypeOK /\ OnePostAtATime /\ SettledOnce /\ EightAttempts /\ StopsPromptly
                    /\ DroppedNotPosted
  OBVIOUS
<1>1. HookTypeOK /\ OnePostAtATime /\ EightAttempts
  BY DEF HookCore
<1>2. SettledOnce /\ DroppedNotPosted
  <2> SUFFICES ASSUME NEW d \in Deliverers, dpc[d] = "posting"
               PROVE  outcome[Current(d).id] = "none" /\ Current(d).id >= firstID[d]
    BY DEF SettledOnce, DroppedNotPosted, At
  <2> QED BY InHand
<1>3. StopsPromptly
  <2> SUFFICES ASSUME NEW d \in Deliverers PROVE late[d] <= 1
    BY DEF StopsPromptly
  <2>1. late[d] > 0 => late[d] = 1
    BY DEF HookCore, LateOnce
  <2> QED BY <2>1, HookTyped
<1> QED BY <1>1, <1>2, <1>3

LEMMA HookInvSays ==
  HookInv => /\ HookTypeOK /\ OnePostAtATime /\ SettledOnce /\ InOrder /\ SettledOrKept
             /\ EightAttempts /\ StopsPromptly /\ DroppedNotPosted
BY HookCoreSays, OlderSettled DEF HookInv

LEMMA HookInvariant == HookSafety => []HookInv
BY HookInitInv, HookNextInv, PTL DEF HookSafety, HookStart

(***************************************************************************)
(* Every state of the buffer, the deliverers and the handlers is           *)
(* well-typed.                                                             *)
(***************************************************************************)
THEOREM HookTypeCorrect == HookSafety => []HookOK
<1>1. HookInv => HookOK
  BY DEF HookInv, HookCore, HookOK, BufInv
<1> QED BY <1>1, HookInvariant, PTL

(***************************************************************************)
(* However many deliverers setWebhook and deleteWebhook leave behind, at   *)
(* most one of them delivers.                                              *)
(***************************************************************************)
THEOREM HookOneAtATime == HookSafety => []OnePostAtATime
BY HookInvariant, HookInvSays, PTL

(***************************************************************************)
(* No update is POSTed again once it was accepted or given up, whichever   *)
(* deliverer settled it and wherever a stop interrupted it.                *)
(***************************************************************************)
THEOREM HookSettledOnce == HookSafety => []SettledOnce
BY HookInvariant, HookInvSays, PTL

(***************************************************************************)
(* Updates are POSTed in the order of their ids.                           *)
(***************************************************************************)
THEOREM HookInOrder == HookSafety => []InOrder
BY HookInvariant, HookInvSays, PTL

(***************************************************************************)
(* No update is acked that was not settled.                                *)
(***************************************************************************)
THEOREM HookSettledOrKept == HookSafety => []SettledOrKept
BY HookInvariant, HookInvSays, PTL

(***************************************************************************)
(* A deliverer gives an update up after MaxAttempts POSTs, and never sends *)
(* one more.                                                               *)
(***************************************************************************)
THEOREM HookEightAttempts == HookSafety => []EightAttempts
BY HookInvariant, HookInvSays, PTL

(***************************************************************************)
(* At most one POST begins after a deliverer's stop.                       *)
(***************************************************************************)
THEOREM HookStopsPromptly == HookSafety => []StopsPromptly
BY HookInvariant, HookInvSays, PTL

(***************************************************************************)
(* What drop_pending_updates dropped is not POSTed by the deliverer that   *)
(* the call started.                                                       *)
(***************************************************************************)
THEOREM HookDroppedNotPosted == HookSafety => []DroppedNotPosted
BY HookInvariant, HookInvSays, PTL

(***************************************************************************)
(* The deliverers and the handlers use the buffer as it promises to be     *)
(* used: every step is a step of BufSpec or leaves the buffer alone.       *)
(***************************************************************************)
THEOREM HookImplementsBuffer == HookSafety => BufSpec
<1>1. HookInv /\ [HookNext]_<<bufVars, hookVars>> => [BufNext]_bufVars
  BY HookStepKeeps DEF HookInv
<1>2. HookStart => BufInit
  BY DEF HookStart
<1> QED BY <1>1, <1>2, HookInvariant, PTL DEF HookSafety, BufSpec
=============================================================================
