-------------------------- MODULE Delivery_proofs --------------------------
(***************************************************************************)
(* The two consumers of one buffer, for any number of calls, deliverers    *)
(* and handlers.  First getUpdates: one inductive invariant, PollInv, for  *)
(* any number of concurrent calls, any buffer capacity and any limits, and *)
(* the properties that follow from it.  Then both consumers at once: what  *)
(* each keeps by itself it keeps beside the other, since to each the other *)
(* is one more user of the buffer who takes the drain lock to drain it     *)
(* (OthersKeepPoll, OthersKeepHook); what they keep together needs that    *)
(* lock to exclude them from one another.                                  *)
(***************************************************************************)
EXTENDS Delivery, Webhook_proofs

-----------------------------------------------------------------------------
(* getUpdates: the inductive invariant.                                    *)

(* Nothing below the confirmation mark is pending, and the mark never runs *)
(* ahead of the ids assigned.                                              *)
ConfirmedGone ==
  /\ confirmed <= nextID
  /\ \A i \in 1..Len(items) : items[i].id >= confirmed

(* A call past its own Ack has been counted in asked.                      *)
AskedCounted ==
  \A p \in Pollers : pollPC[p] \in {"waiting", "translating"} => offset[p] <= asked

(* A snapshot is in id order and holds only ids already assigned.          *)
BatchOrdered ==
  \A p \in Pollers : pollPC[p] = "translating" =>
    \A i \in 1..Len(batch[p]) :
      /\ batch[p][i].id <= LastID(batch[p])
      /\ batch[p][i].id < nextID

PollCore ==
  /\ BufInv
  /\ PollTypeOK
  /\ LockHeld
  /\ ConfirmedGone
  /\ AskedCounted
  /\ BatchOrdered
  /\ ConfirmedStaysConfirmed
  /\ ResponseHasNoHoles

(* The whole of it, when the calls are the only ones to drain the buffer.  *)
PollInv == PollCore /\ NothingLostUnseen

(***************************************************************************)
(* A step accounts for what it takes from the buffer, and forgets nothing. *)
(***************************************************************************)
Accounted ==
  /\ lost \subseteq lost'
  /\ examined \subseteq examined'
  /\ \A n \in Nat : n < asked => n < asked'
  /\ \A n \in 1..(nextID' - 1) : n \in 1..(nextID - 1) \/ n \in PendingIDs'
  /\ \A n \in PendingIDs : n \in PendingIDs' \cup lost' \cup examined' \/ n < asked'

USE DEF PollCore

LEMMA PollTyped ==
  ASSUME PollCore
  PROVE  /\ PollTypeOK /\ BufInv
         /\ confirmed \in Nat /\ asked \in Nat /\ nextID \in Nat
         /\ \A p \in Pollers :
              /\ p \in Drainers /\ p # NoDrainer
              /\ offset[p] \in Nat
              /\ batch[p] \in Seq(Item) /\ Len(batch[p]) \in Nat
              /\ \A i \in 1..Len(batch[p]) : batch[p][i].id \in 1..MaxID
<1>1. /\ PollTypeOK /\ BufInv
      /\ confirmed \in Nat /\ asked \in Nat /\ nextID \in Nat
  BY Shape DEF PollTypeOK
<1>2. ASSUME NEW p \in Pollers
      PROVE  /\ p \in Drainers /\ p # NoDrainer
             /\ offset[p] \in Nat
             /\ batch[p] \in Seq(Item) /\ Len(batch[p]) \in Nat
  BY <1>1, PollAssumption, BufferAssumption DEF PollTypeOK
<1>3. ASSUME NEW p \in Pollers, NEW i \in 1..Len(batch[p])
      PROVE  batch[p][i].id \in 1..MaxID
  <2>1. batch[p][i] \in Item
    BY <1>2
  <2> QED BY <2>1 DEF Item
<1> QED BY <1>1, <1>2, <1>3

LEMMA PollInitInv == BufInit /\ PollInit => PollInv
<1> SUFFICES ASSUME BufInit, PollInit PROVE PollInv
  OBVIOUS
<1>1. BufInv
  BY BufInitInv
<1>2. PollTypeOK
  BY BufferAssumption DEF PollInit, PollTypeOK
<1>3. LockHeld
  BY PollAssumption, BufferAssumption DEF BufInit, PollInit, LockHeld, Draining
<1>4. ConfirmedGone /\ AskedCounted /\ BatchOrdered
  BY DEF BufInit, PollInit, ConfirmedGone, AskedCounted, BatchOrdered
<1>5. ConfirmedStaysConfirmed /\ ResponseHasNoHoles /\ NothingLostUnseen
  BY DEF BufInit, PollInit, ConfirmedStaysConfirmed, ResponseHasNoHoles, NothingLostUnseen
<1> QED BY <1>1, <1>2, <1>3, <1>4, <1>5 DEF PollInv

(***************************************************************************)
(* A step that starts no response and adds nothing to the buffer opens no  *)
(* hole in the responses under way.                                        *)
(***************************************************************************)
SameResponses ==
  \A q \in Pollers : pollPC'[q] = "translating" =>
    /\ pollPC[q] = "translating"
    /\ batch'[q] = batch[q] /\ offset'[q] = offset[q] /\ limit'[q] = limit[q]

LEMMA NoHolesFrame ==
  ASSUME PollCore, SameResponses, Pending' \subseteq Pending
  PROVE  ResponseHasNoHoles'
<1> SUFFICES ASSUME NEW q \in Pollers, pollPC'[q] = "translating"
             PROVE  /\ Len(batch'[q]) \in 1..limit'[q]
                    /\ \A i \in 1..Len(batch'[q]) : batch'[q][i].id >= offset'[q]
                    /\ \A x \in Pending' :
                         offset'[q] <= x.id /\ x.id <= LastID(batch'[q]) =>
                           \E i \in 1..Len(batch'[q]) : batch'[q][i] = x
  BY DEF ResponseHasNoHoles, LastID
<1>1. /\ pollPC[q] = "translating"
      /\ batch'[q] = batch[q] /\ offset'[q] = offset[q] /\ limit'[q] = limit[q]
  BY DEF SameResponses
<1> QED BY <1>1 DEF ResponseHasNoHoles

-----------------------------------------------------------------------------
(* The steps that leave the buffer's contents alone.                       *)

LEMMA CallKeeps ==
  ASSUME PollCore, NEW p \in Pollers, Call(p)
  PROVE  PollCore' /\ Accounted
<1>1. BufInv'
  BY DEF Call, bufVars, BufInv, BufTypeOK, GapFree
<1>2. PollTypeOK'
  BY DEF Call, Goto, PollTypeOK
<1>3. LockHeld'
  BY DEF Call, Goto, bufVars, LockHeld, PollTypeOK, Draining
<1>4. ConfirmedGone' /\ Accounted
  BY DEF Call, bufVars, ConfirmedGone, Accounted, PendingIDs
<1>5. AskedCounted' /\ BatchOrdered'
  BY DEF Call, Goto, bufVars, AskedCounted, BatchOrdered, PollTypeOK, LastID
<1>6. ConfirmedStaysConfirmed'
  BY DEF Call, Goto, ConfirmedStaysConfirmed, PollTypeOK
<1>7. ResponseHasNoHoles'
  <2>1. Pending' = Pending
    BY DEF Call, bufVars, Pending
  <2>2. SameResponses
    BY DEF Call, Goto, SameResponses, PollTypeOK
  <2> QED BY <2>1, <2>2, NoHolesFrame
<1> QED BY <1>1, <1>2, <1>3, <1>4, <1>5, <1>6, <1>7

LEMMA PollLockKeeps ==
  ASSUME PollCore, NEW p \in Pollers, PollLock(p)
  PROVE  PollCore' /\ Accounted
<1>1. BufInv'
  BY LockKeeps, PollTyped DEF PollLock
<1>2. PollTypeOK'
  BY DEF PollLock, Goto, PollTypeOK, Draining
<1>3. LockHeld'
  BY PollTyped DEF PollLock, TakeLock, Goto, LockHeld, PollTypeOK, Draining
<1>4. ConfirmedGone' /\ Accounted
  BY DEF PollLock, TakeLock, ConfirmedGone, Accounted, PendingIDs
<1>5. AskedCounted' /\ BatchOrdered'
  BY DEF PollLock, TakeLock, Goto, AskedCounted, BatchOrdered, PollTypeOK, LastID
<1>6. ConfirmedStaysConfirmed'
  BY DEF PollLock, Goto, ConfirmedStaysConfirmed, PollTypeOK
<1>7. ResponseHasNoHoles'
  <2>1. Pending' = Pending
    BY DEF PollLock, TakeLock, Pending
  <2>2. SameResponses
    BY DEF PollLock, Goto, SameResponses, PollTypeOK
  <2> QED BY <2>1, <2>2, NoHolesFrame
<1> QED BY <1>1, <1>2, <1>3, <1>4, <1>5, <1>6, <1>7

LEMMA WaitEmptyKeeps ==
  ASSUME PollCore, NEW p \in Pollers, WaitEmpty(p)
  PROVE  PollCore' /\ Accounted
<1>1. BufInv'
  BY DEF WaitEmpty, bufVars, BufInv, BufTypeOK, GapFree
<1>2. PollTypeOK'
  BY DEF WaitEmpty, Goto, PollTypeOK, Draining
<1>3. LockHeld'
  BY DEF WaitEmpty, Goto, bufVars, LockHeld, PollTypeOK, Draining
<1>4. ConfirmedGone' /\ Accounted
  BY DEF WaitEmpty, bufVars, ConfirmedGone, Accounted, PendingIDs
<1>5. AskedCounted' /\ BatchOrdered'
  BY DEF WaitEmpty, Goto, bufVars, AskedCounted, BatchOrdered, PollTypeOK, LastID
<1>6. ConfirmedStaysConfirmed'
  BY DEF WaitEmpty, Goto, ConfirmedStaysConfirmed, PollTypeOK
<1>7. ResponseHasNoHoles'
  <2>1. Pending' = Pending
    BY DEF WaitEmpty, bufVars, Pending
  <2>2. SameResponses
    BY DEF WaitEmpty, Goto, SameResponses, PollTypeOK
  <2> QED BY <2>1, <2>2, NoHolesFrame
<1> QED BY <1>1, <1>2, <1>3, <1>4, <1>5, <1>6, <1>7

LEMMA ReturnKeeps ==
  ASSUME PollCore, NEW p \in Pollers, Return(p)
  PROVE  PollCore' /\ Accounted
<1>1. BufInv'
  BY LockKeeps, PollTyped DEF Return
<1>2. PollTypeOK'
  BY BufferAssumption DEF Return, Goto, PollTypeOK
<1>3. LockHeld'
  BY PollTyped DEF Return, Release, Goto, LockHeld, PollTypeOK, Draining
<1>4. ConfirmedGone' /\ Accounted
  BY DEF Return, Release, ConfirmedGone, Accounted, PendingIDs
<1>5. AskedCounted' /\ BatchOrdered'
  BY DEF Return, Release, Goto, AskedCounted, BatchOrdered, PollTypeOK, LastID
<1>6. ConfirmedStaysConfirmed'
  BY DEF Return, Goto, ConfirmedStaysConfirmed, PollTypeOK
<1>7. ResponseHasNoHoles'
  <2>1. Pending' = Pending
    BY DEF Return, Release, Pending
  <2>2. SameResponses
    BY DEF Return, Goto, SameResponses, PollTypeOK
  <2> QED BY <2>1, <2>2, NoHolesFrame
<1> QED BY <1>1, <1>2, <1>3, <1>4, <1>5, <1>6, <1>7

-----------------------------------------------------------------------------
(* The steps that change the buffer.  Another handler cannot be draining   *)
(* while p is: LockHeld.                                                   *)

LEMMA Alone ==
  ASSUME PollCore, NEW p \in Pollers, pollPC[p] \in Draining,
         NEW q \in Pollers, pollPC[q] \in Draining
  PROVE  q = p
BY PollTyped DEF LockHeld

LEMMA ConfirmKeeps ==
  ASSUME PollCore, NEW p \in Pollers, Confirm(p), offset[p] > 0
  PROVE  PollCore' /\ Accounted
<1>1. /\ pollPC[p] = "acking"
      /\ Ack(offset[p]) /\ UNCHANGED takeMu
      /\ confirmed' = ConfirmedBy(offset[p])
      /\ asked' = Higher(asked, offset[p])
      /\ pollPC' = [pollPC EXCEPT ![p] = "waiting"]
      /\ UNCHANGED <<offset, limit, batch, examined>>
  BY DEF Confirm, Goto
<1>2. BufInv' /\ (\A i \in 1..Len(items') : items'[i].id >= offset[p])
      /\ PendingIDs' \subseteq PendingIDs
      /\ (\A m \in PendingIDs : m >= offset[p] => m \in PendingIDs')
      /\ Pending' \subseteq Pending
  BY <1>1, AckKeeps, PollTyped
<1>3. nextID' = nextID /\ lost' = lost
  BY <1>1 DEF Ack
<1>4. /\ confirmed' \in Nat /\ asked' \in Nat
      /\ confirmed' <= nextID /\ confirmed' >= confirmed
      /\ confirmed' <= Higher(confirmed, offset[p])
      /\ asked' >= asked /\ asked' >= offset[p]
      /\ confirmed' \in 0..(MaxID + 1) /\ asked' \in 0..(MaxID + 1)
  <2>1. /\ confirmed \in 0..(MaxID + 1) /\ asked \in 0..(MaxID + 1)
        /\ offset[p] \in 0..(MaxID + 1) /\ confirmed <= nextID
    BY DEF PollTypeOK, ConfirmedGone
  <2>2. MaxID \in Nat /\ nextID \in Nat
    BY Shape
  <2> HIDE DEF PollCore
  <2> QED BY <1>1, <2>1, <2>2 DEF ConfirmedBy, Higher
<1>5. PollTypeOK'
  BY <1>1, <1>4 DEF PollTypeOK, Draining
<1>6. LockHeld'
  BY <1>1 DEF LockHeld, PollTypeOK, Draining
<1>7. ConfirmedGone'
  <2>1. ASSUME NEW i \in 1..Len(items') PROVE items'[i].id >= confirmed'
    <3>1. items'[i].id \in PendingIDs'
      BY DEF PendingIDs
    <3>2. items'[i].id \in PendingIDs
      BY <1>2, <3>1
    <3>3. items'[i].id >= confirmed /\ items'[i].id \in Int
      <4>1. PICK j \in 1..Len(items) : items[j].id = items'[i].id
        BY <3>2 DEF PendingIDs
      <4>2. items[j].id >= confirmed
        BY DEF ConfirmedGone
      <4>3. items[j].id \in 1..MaxID /\ MaxID \in Nat
        BY Shape
      <4> HIDE DEF PollCore
      <4> QED BY <4>1, <4>2, <4>3
    <3>4. items'[i].id >= offset[p]
      BY <1>2
    <3>5. /\ confirmed \in Nat /\ offset[p] \in Nat /\ confirmed' \in Nat
          /\ confirmed' <= Higher(confirmed, offset[p])
      BY <1>4, PollTyped
    <3> HIDE DEF PollCore
    <3> QED BY <3>3, <3>4, <3>5 DEF Higher
  <2> QED BY <1>3, <1>4, <2>1 DEF ConfirmedGone
<1>8. AskedCounted'
  BY <1>1, <1>4, PollTyped DEF AskedCounted, PollTypeOK
<1>9. BatchOrdered'
  BY <1>1, <1>3 DEF BatchOrdered, PollTypeOK, LastID
<1>10. ConfirmedStaysConfirmed'
  <2> SUFFICES ASSUME NEW q \in Pollers, pollPC'[q] \in {"translating", "releasing"} PROVE FALSE
    BY DEF ConfirmedStaysConfirmed
  <2>1. q # p /\ pollPC[q] \in Draining
    BY <1>1 DEF PollTypeOK, Draining
  <2> QED BY <1>1, <2>1, Alone DEF Draining
<1>11. ResponseHasNoHoles'
  BY <1>1, <1>2, NoHolesFrame DEF SameResponses, PollTypeOK
<1>12. Accounted
  <2>1. \A n \in Nat : n < asked => n < asked'
    BY <1>4, PollTyped
  <2>2. \A m \in PendingIDs : m \in PendingIDs' \/ m < asked'
    <3> SUFFICES ASSUME NEW m \in PendingIDs, ~(m >= offset[p]) PROVE m < asked'
      BY <1>2
    <3>1. m \in Nat /\ offset[p] \in Nat
      BY PendingTyped, PollTyped
    <3> QED BY <1>4, <3>1
  <2> QED BY <1>1, <1>3, <2>1, <2>2 DEF Accounted
<1> QED BY <1>2, <1>5, <1>6, <1>7, <1>8, <1>9, <1>10, <1>11, <1>12

(* Without an offset nothing is acked.                                     *)
LEMMA ConfirmNothingKeeps ==
  ASSUME PollCore, NEW p \in Pollers, Confirm(p), ~(offset[p] > 0)
  PROVE  PollCore' /\ Accounted
<1>1. /\ pollPC[p] = "acking" /\ offset[p] = 0
      /\ UNCHANGED bufVars
      /\ pollPC' = [pollPC EXCEPT ![p] = "waiting"]
      /\ UNCHANGED <<offset, limit, batch, confirmed, asked, examined>>
  BY PollTyped DEF Confirm, Goto, bufVars
<1>2. BufInv' /\ PollTypeOK' /\ LockHeld'
  BY <1>1 DEF bufVars, BufInv, BufTypeOK, GapFree, PollTypeOK, LockHeld, Draining
<1>3. ConfirmedGone' /\ Accounted
  BY <1>1 DEF bufVars, ConfirmedGone, Accounted, PendingIDs
<1>4. AskedCounted'
  BY <1>1, PollTyped DEF AskedCounted, PollTypeOK
<1>5. BatchOrdered' /\ ConfirmedStaysConfirmed'
  BY <1>1 DEF bufVars, BatchOrdered, ConfirmedStaysConfirmed, PollTypeOK, LastID
<1>6. ResponseHasNoHoles'
  <2>1. Pending' = Pending
    BY <1>1 DEF bufVars, Pending
  <2> QED BY <1>1, <2>1, NoHolesFrame DEF SameResponses, PollTypeOK
<1> QED BY <1>2, <1>3, <1>4, <1>5, <1>6

LEMMA WaitReadyKeeps ==
  ASSUME PollCore, NEW p \in Pollers, WaitReady(p)
  PROVE  PollCore' /\ Accounted
<1>1. PICK k \in 0..Len(items) :
        /\ Stops(k, offset[p])
        /\ batch' = [batch EXCEPT ![p] = Window(k, limit[p])]
  BY DEF WaitReady
<1>2. /\ pollPC[p] = "waiting" /\ HasReady(offset[p])
      /\ pollPC' = [pollPC EXCEPT ![p] = "translating"]
      /\ UNCHANGED bufVars
      /\ UNCHANGED <<offset, limit, confirmed, asked, examined>>
  BY DEF WaitReady, Goto
<1>3. k < Len(items)
  <2>1. PICK i \in 1..Len(items) : items[i].id >= offset[p]
    BY <1>2 DEF HasReady
  <2>2. ~(items[i].id < offset[p])
    BY <2>1, PollTyped, Shape
  <2> QED BY <1>1, <2>1, <2>2, Shape DEF Stops
<1>4. limit[p] \in Nat \ {0}
  BY <1>2, PollAssumption DEF PollTypeOK
<1> DEFINE b == Window(k, limit[p])
<1>5. /\ b \in Seq(Item) /\ Len(b) \in 1..limit[p] /\ k + Len(b) <= Len(items)
      /\ \A i \in 1..Len(b) : b[i] = items[k + i]
  BY <1>3, <1>4, WindowItems, PollTyped
<1>6. batch'[p] = b /\ \A q \in Pollers : q # p => batch'[q] = batch[q]
  BY <1>1 DEF PollTypeOK
<1> HIDE DEF b
<1>7. BufInv' /\ PollTypeOK' /\ LockHeld'
  BY <1>1, <1>2, <1>5, <1>6 DEF bufVars, BufInv, BufTypeOK, GapFree, PollTypeOK, LockHeld, Draining
<1>8. ConfirmedGone' /\ Accounted
  BY <1>2 DEF bufVars, ConfirmedGone, Accounted, PendingIDs
<1>9. AskedCounted'
  BY <1>2 DEF AskedCounted, PollTypeOK
<1>10. \A i \in 1..Len(b) : /\ k + i \in 1..Len(items)
                            /\ b[i].id = nextID - 1 - Len(items) + (k + i)
                            /\ b[i].id < nextID
                            /\ b[i].id >= offset[p]
                            /\ b[i].id >= confirmed
  <2> SUFFICES ASSUME NEW i \in 1..Len(b)
               PROVE  /\ k + i \in 1..Len(items)
                      /\ b[i].id = nextID - 1 - Len(items) + (k + i)
                      /\ b[i].id < nextID
                      /\ b[i].id >= offset[p]
                      /\ b[i].id >= confirmed
    OBVIOUS
  <2>1. k + i \in 1..Len(items) /\ k + 1 \in 1..Len(items)
    BY <1>3, <1>5, Shape
  <2>2. b[i].id = items[k + i].id
    BY <1>5
  <2>3. items[k + i].id = nextID - 1 - Len(items) + (k + i)
        /\ items[k + 1].id = nextID - 1 - Len(items) + (k + 1)
    BY <2>1, Shape
  <2>4. items[k + 1].id >= offset[p]
    BY <1>1, <1>3 DEF Stops
  <2>5. items[k + i].id >= confirmed
    BY <2>1 DEF ConfirmedGone
  <2>6. /\ nextID \in Nat /\ Len(items) \in Nat /\ Len(b) \in Nat
        /\ offset[p] \in Nat /\ confirmed \in Nat
    BY <1>5, PollTyped, Shape
  <2>7. b[i].id < nextID
    BY <2>1, <2>2, <2>3, <2>6
  <2>8. b[i].id >= offset[p]
    BY <2>2, <2>3, <2>4, <2>6
  <2> QED BY <2>1, <2>2, <2>3, <2>5, <2>7, <2>8
<1>11. LastID(b) = nextID - 1 - Len(items) + (k + Len(b))
  <2>1. Len(b) \in 1..Len(b)
    BY <1>5
  <2>2. b[Len(b)].id = nextID - 1 - Len(items) + (k + Len(b))
    BY <2>1, <1>10
  <2> QED BY <2>2 DEF LastID
<1>12. BatchOrdered'
  <2> SUFFICES ASSUME NEW q \in Pollers, pollPC'[q] = "translating",
                      NEW i \in 1..Len(batch'[q])
               PROVE  batch'[q][i].id <= LastID(batch'[q]) /\ batch'[q][i].id < nextID
    BY <1>2 DEF BatchOrdered, bufVars, LastID
  <2>1. CASE q = p
    <3>1. nextID \in Nat /\ Len(items) \in Nat /\ Len(b) \in Nat
      BY <1>5, Shape
    <3>2. i \in 1..Len(b) /\ b[i].id = nextID - 1 - Len(items) + (k + i) /\ b[i].id < nextID
      BY <2>1, <1>6, <1>10
    <3> QED BY <2>1, <1>6, <1>11, <3>1, <3>2
  <2>2. CASE q # p
    BY <2>2, <1>2, <1>6 DEF BatchOrdered, PollTypeOK
  <2> QED BY <2>1, <2>2
<1>13. ConfirmedStaysConfirmed'
  <2> SUFFICES ASSUME NEW q \in Pollers, pollPC'[q] \in {"translating", "releasing"},
                      NEW i \in 1..Len(batch'[q])
               PROVE  batch'[q][i].id >= confirmed
    BY <1>2 DEF ConfirmedStaysConfirmed
  <2>1. CASE q = p
    BY <2>1, <1>6, <1>10
  <2>2. CASE q # p
    BY <2>2, <1>2, <1>6 DEF ConfirmedStaysConfirmed, PollTypeOK
  <2> QED BY <2>1, <2>2
<1>14. ResponseHasNoHoles'
  <2> SUFFICES ASSUME NEW q \in Pollers, pollPC'[q] = "translating"
               PROVE  /\ Len(batch'[q]) \in 1..limit[q]
                      /\ \A i \in 1..Len(batch'[q]) : batch'[q][i].id >= offset[q]
                      /\ \A x \in Pending : offset[q] <= x.id /\ x.id <= LastID(batch'[q]) =>
                           \E i \in 1..Len(batch'[q]) : batch'[q][i] = x
    BY <1>2 DEF ResponseHasNoHoles, bufVars, Pending, LastID
  <2>1. CASE q # p
    <3>1. pollPC[q] = "translating" /\ batch'[q] = batch[q]
      BY <2>1, <1>2, <1>6 DEF PollTypeOK
    <3> QED BY <3>1 DEF ResponseHasNoHoles
  <2>2. CASE q = p
    <3>1. ASSUME NEW j \in 1..Len(items), offset[p] <= items[j].id, items[j].id <= LastID(b)
          PROVE  \E i \in 1..Len(b) : b[i] = items[j]
      <4>1. items[j].id = nextID - 1 - Len(items) + j
        BY Shape
      <4>2. ~(items[j].id < offset[p])
        <5>1. items[j].id \in Nat /\ offset[p] \in Nat
          BY PollTyped, Shape
        <5> QED BY <3>1, <5>1
      <4>3. j > k
        BY <1>1, <4>2, Shape DEF Stops
      <4>4. j <= k + Len(b)
        <5>1. /\ nextID \in Nat /\ Len(items) \in Nat /\ Len(b) \in Nat /\ k \in Nat /\ j \in Nat
              /\ nextID - 1 - Len(items) + j <= nextID - 1 - Len(items) + (k + Len(b))
          BY <3>1, <4>1, <1>5, <1>11, Shape
        <5> QED BY <5>1
      <4>5. j - k \in 1..Len(b) /\ k + (j - k) = j
        BY <4>3, <4>4, <1>5, Shape
      <4> QED BY <1>5, <4>5
    <3>2. \A x \in Pending : offset[p] <= x.id /\ x.id <= LastID(b) =>
                             \E i \in 1..Len(b) : b[i] = x
      BY <3>1 DEF Pending
    <3> QED BY <2>2, <3>2, <1>5, <1>6, <1>10
  <2> QED BY <2>1, <2>2
<1> QED BY <1>7, <1>8, <1>9, <1>12, <1>13, <1>14

(***************************************************************************)
(* The translation of a batch takes nothing but what the batch showed: the *)
(* batch has no holes, so every pending update the tail's ack covers is in *)
(* it, or was below the call's offset.                                     *)
(***************************************************************************)
LEMMA TranslateKeeps ==
  ASSUME PollCore, NEW p \in Pollers, Translate(p)
  PROVE  PollCore' /\ Accounted
<1> DEFINE last == LastID(batch[p])
<1>1. /\ pollPC[p] = "translating"
      /\ pollPC' = [pollPC EXCEPT ![p] = "releasing"]
      /\ examined' = examined \cup BatchIDs(p)
      /\ UNCHANGED <<takeMu, offset, limit, batch, confirmed, asked>>
  BY DEF Translate, Goto
<1>2. Len(batch[p]) \in 1..limit[p] /\ Len(batch[p]) \in Nat /\ Len(batch[p]) >= 1
  BY <1>1, PollTyped DEF ResponseHasNoHoles
<1>3. last \in 1..MaxID
  BY <1>2, PollTyped DEF LastID
<1> HIDE DEF last
<1>4. /\ BufInv' /\ UNCHANGED <<nextID, lost>>
      /\ PendingIDs' \subseteq PendingIDs
      /\ Pending' \subseteq Pending
      /\ \A m \in PendingIDs : m > last => m \in PendingIDs'
  <2>1. CASE TailUntranslatable(batch[p])
    <3>1. Ack(last + 1)
      BY <2>1 DEF Translate, last
    <3>2. last + 1 \in Nat
      BY <1>3
    <3>3. /\ BufInv' /\ PendingIDs' \subseteq PendingIDs /\ Pending' \subseteq Pending
          /\ \A m \in PendingIDs : m >= last + 1 => m \in PendingIDs'
      BY <1>1, <3>1, <3>2, AckKeeps
    <3>4. UNCHANGED <<nextID, lost>>
      BY <3>1 DEF Ack
    <3>5. \A m \in PendingIDs : m > last => m >= last + 1
      BY <1>3, PendingTyped
    <3> QED BY <3>3, <3>4, <3>5
  <2>2. CASE ~TailUntranslatable(batch[p])
    BY <1>1, <2>2 DEF Translate, BufInv, BufTypeOK, GapFree, PendingIDs, Pending
  <2> QED BY <2>1, <2>2
<1>5. BatchIDs(p) \subseteq 1..MaxID
  BY PollTyped DEF BatchIDs
<1>6. PollTypeOK'
  BY <1>1, <1>5 DEF PollTypeOK, Draining
<1>7. LockHeld'
  BY <1>1 DEF LockHeld, PollTypeOK, Draining
<1>8. ConfirmedGone'
  <2>1. ASSUME NEW i \in 1..Len(items') PROVE items'[i].id >= confirmed
    <3>1. items'[i].id \in PendingIDs
      BY <1>4 DEF PendingIDs
    <3> QED BY <3>1 DEF ConfirmedGone, PendingIDs
  <2> QED BY <1>1, <1>4, <2>1 DEF ConfirmedGone
<1>9. AskedCounted' /\ BatchOrdered'
  BY <1>1, <1>4 DEF AskedCounted, BatchOrdered, PollTypeOK, LastID
<1>10. ConfirmedStaysConfirmed'
  BY <1>1 DEF ConfirmedStaysConfirmed, PollTypeOK
<1>11. ResponseHasNoHoles'
  BY <1>1, <1>4, NoHolesFrame DEF SameResponses, PollTypeOK
<1>12. Accounted
  <2> SUFFICES ASSUME NEW n \in PendingIDs, n \notin PendingIDs', ~(n < asked)
               PROVE  n \in BatchIDs(p)
    BY <1>1, <1>4 DEF Accounted
  <2>1. n \in Nat
    BY PendingTyped
  <2>2. n <= last
    BY <1>3, <1>4, <2>1
  <2>3. offset[p] <= n
    BY <1>1, <2>1, PollTyped DEF AskedCounted
  <2>4. PICK x \in Pending : x.id = n
    BY DEF PendingIDs, Pending
  <2>5. PICK i \in 1..Len(batch[p]) : batch[p][i] = x
    BY <1>1, <2>2, <2>3, <2>4 DEF ResponseHasNoHoles, last
  <2> QED BY <2>4, <2>5 DEF BatchIDs
<1> QED BY <1>4, <1>6, <1>7, <1>8, <1>9, <1>10, <1>11, <1>12

-----------------------------------------------------------------------------
(* The steps that are not the handlers': whatever others do with the       *)
(* buffer, so long as they leave the calls' hold of the drain lock alone.  *)

LEMMA OthersKeepPoll ==
  ASSUME PollCore, [BufNext]_bufVars, UNCHANGED pollVars,
         \A p \in Pollers : takeMu' = p <=> takeMu = p
  PROVE  PollCore'
<1>1. /\ BufInv'
      /\ nextID' = nextID \/ nextID' = nextID + 1
      /\ \A x \in Pending' : x \in Pending \/ x.id = nextID
      /\ \A m \in PendingIDs' : m \in PendingIDs \/ m = nextID
  BY BufMoves
<1>2. /\ nextID \in Nat /\ nextID' \in Nat /\ nextID <= nextID' /\ confirmed \in Nat
  BY <1>1, PollTyped
<1>3. PollTypeOK' /\ LockHeld' /\ AskedCounted' /\ ConfirmedStaysConfirmed'
  BY DEF pollVars, PollTypeOK, LockHeld, AskedCounted, ConfirmedStaysConfirmed
<1>4. ConfirmedGone'
  <2>1. ASSUME NEW i \in 1..Len(items') PROVE items'[i].id >= confirmed
    <3>1. items'[i].id \in PendingIDs \/ items'[i].id = nextID
      BY <1>1 DEF PendingIDs
    <3>2. CASE items'[i].id \in PendingIDs
      BY <3>2 DEF ConfirmedGone, PendingIDs
    <3>3. CASE items'[i].id = nextID
      BY <3>3, PollTyped DEF ConfirmedGone
    <3> QED BY <3>1, <3>2, <3>3
  <2>2. confirmed <= nextID'
    BY <1>2 DEF ConfirmedGone
  <2> QED BY <2>1, <2>2 DEF ConfirmedGone, pollVars
<1>5. BatchOrdered'
  <2> SUFFICES ASSUME NEW q \in Pollers, pollPC[q] = "translating",
                      NEW i \in 1..Len(batch[q])
               PROVE  batch[q][i].id <= LastID(batch[q]) /\ batch[q][i].id < nextID'
    BY DEF pollVars, BatchOrdered, LastID
  <2>1. batch[q][i].id <= LastID(batch[q]) /\ batch[q][i].id < nextID
    BY DEF BatchOrdered
  <2>2. batch[q][i].id \in Nat
    BY PollTyped
  <2> QED BY <1>2, <2>1, <2>2
<1>6. ResponseHasNoHoles'
  <2> SUFFICES ASSUME NEW q \in Pollers, pollPC[q] = "translating"
               PROVE  \A x \in Pending' : offset[q] <= x.id /\ x.id <= LastID(batch[q]) =>
                        \E i \in 1..Len(batch[q]) : batch[q][i] = x
    BY DEF pollVars, ResponseHasNoHoles, LastID
  <2>1. Len(batch[q]) \in 1..Len(batch[q])
    BY PollTyped DEF ResponseHasNoHoles
  <2>2. LastID(batch[q]) < nextID /\ LastID(batch[q]) \in Nat
    BY <2>1, PollTyped DEF BatchOrdered, LastID
  <2>3. ASSUME NEW x \in Pending', x.id <= LastID(batch[q]) PROVE x \in Pending
    BY <1>1, <1>2, <2>2, <2>3
  <2> QED BY <2>3 DEF ResponseHasNoHoles
<1> QED BY <1>1, <1>3, <1>4, <1>5, <1>6

-----------------------------------------------------------------------------
LEMMA PollStepKeeps ==
  ASSUME PollCore, NEW p \in Pollers, PollStep(p)
  PROVE  PollCore' /\ Accounted
BY CallKeeps, PollLockKeeps, ConfirmKeeps, ConfirmNothingKeeps, WaitReadyKeeps,
   WaitEmptyKeeps, TranslateKeeps, ReturnKeeps DEF PollStep

LEMMA PollNextInv == PollInv /\ [PollNext]_<<bufVars, pollVars>> => PollInv'
<1> SUFFICES ASSUME PollInv, [PollNext]_<<bufVars, pollVars>> PROVE PollInv'
  OBVIOUS
<1>1. PollCore /\ NothingLostUnseen /\ nextID \in Nat
  BY PollTyped DEF PollInv
<1> HIDE DEF PollCore
<1>2. ASSUME Accounted PROVE NothingLostUnseen'
  <2> SUFFICES ASSUME NEW n \in 1..(nextID' - 1), n \notin PendingIDs'
               PROVE  n \in lost' \cup examined' \/ n < asked'
    BY DEF NothingLostUnseen
  <2>1. n \in 1..(nextID - 1) /\ n \in Nat
    BY <1>2 DEF Accounted
  <2> QED BY <1>1, <1>2, <2>1 DEF Accounted, NothingLostUnseen
<1>3. CASE \E p \in Pollers : PollStep(p)
  BY <1>1, <1>2, <1>3, PollStepKeeps DEF PollInv
<1>4. ASSUME [BufNext]_bufVars, UNCHANGED <<takeMu, pollVars>>,
             \A m \in PendingIDs : m \in PendingIDs' \cup lost'
      PROVE  PollInv'
  <2>1. PollCore'
    BY <1>1, <1>4, OthersKeepPoll
  <2>2. Accounted
    <3>1. BufInv
      BY <1>1 DEF PollCore
    <3> QED BY <1>4, <3>1, BufMoves DEF Accounted, pollVars
  <2> QED BY <1>2, <2>1, <2>2 DEF PollInv
<1>5. CASE (\E ok \in BOOLEAN : Push(ok)) /\ UNCHANGED pollVars
  <2>1. [BufNext]_bufVars /\ UNCHANGED takeMu
    BY <1>5 DEF BufNext, Push
  <2>2. \A m \in PendingIDs : m \in PendingIDs' \cup lost'
    BY <1>1, <1>5, PushMoves DEF PollCore
  <2> QED BY <1>4, <1>5, <2>1, <2>2
<1>6. CASE Clear /\ UNCHANGED <<takeMu, pollVars>>
  <2>1. [BufNext]_bufVars
    BY <1>6 DEF BufNext
  <2>2. \A m \in PendingIDs : m \in PendingIDs' \cup lost'
    BY <1>6 DEF Clear
  <2> QED BY <1>4, <1>6, <2>1, <2>2
<1>7. CASE UNCHANGED <<bufVars, pollVars>>
  <2>1. [BufNext]_bufVars /\ UNCHANGED <<takeMu, pollVars>> /\ PendingIDs' = PendingIDs
    BY <1>7 DEF bufVars, PendingIDs
  <2> QED BY <1>4, <2>1
<1> QED BY <1>3, <1>5, <1>6, <1>7 DEF PollNext

LEMMA PollInvariant == PollSafety => []PollInv
BY PollInitInv, PollNextInv, PTL DEF PollSafety, PollStart

(***************************************************************************)
(* Every state of the buffer and of the calls is well-typed.               *)
(***************************************************************************)
THEOREM PollTypeCorrect == PollSafety => []PollOK
<1>1. PollInv => PollOK
  BY DEF PollInv, PollOK, BufInv
<1> QED BY <1>1, PollInvariant, PTL

(***************************************************************************)
(* The drain lock excludes: no two calls drain the buffer at once.         *)
(***************************************************************************)
THEOREM PollMutualExclusion == PollSafety => []LockHeld
<1>1. PollInv => LockHeld
  BY DEF PollInv
<1> QED BY <1>1, PollInvariant, PTL

(***************************************************************************)
(* No response contains an update an offset has confirmed.                 *)
(***************************************************************************)
THEOREM PollConfirmed == PollSafety => []ConfirmedStaysConfirmed
<1>1. PollInv => ConfirmedStaysConfirmed
  BY DEF PollInv
<1> QED BY <1>1, PollInvariant, PTL

(***************************************************************************)
(* No response has holes.                                                  *)
(***************************************************************************)
THEOREM PollNoHoles == PollSafety => []ResponseHasNoHoles
<1>1. PollInv => ResponseHasNoHoles
  BY DEF PollInv
<1> QED BY <1>1, PollInvariant, PTL

(***************************************************************************)
(* No update vanishes without an eviction, a clear, an offset or a look.   *)
(***************************************************************************)
THEOREM PollNothingLost == PollSafety => []NothingLostUnseen
<1>1. PollInv => NothingLostUnseen
  BY DEF PollInv
<1> QED BY <1>1, PollInvariant, PTL

-----------------------------------------------------------------------------
(* A call acks only while it holds the drain lock, and only what it may.   *)
LEMMA PollStepUsesBuffer ==
  ASSUME PollCore, NEW p \in Pollers, PollStep(p)
  PROVE  [BufNext]_bufVars
<1>1. p \in Drainers
  BY PollTyped
<1>2. CASE Call(p) \/ WaitReady(p) \/ WaitEmpty(p)
  BY <1>2 DEF Call, WaitReady, WaitEmpty
<1>3. CASE PollLock(p)
  BY <1>1, <1>3 DEF PollLock, BufNext
<1>4. CASE Return(p)
  BY <1>1, <1>4 DEF Return, BufNext
<1>5. CASE Confirm(p)
  <2>1. takeMu = p /\ UNCHANGED takeMu
    BY <1>5 DEF Confirm, LockHeld, Draining
  <2>2. CASE offset[p] > 0
    <3>1. Ack(offset[p]) /\ offset[p] \in 1..(MaxID + 1)
      BY <1>5, <2>2, Shape DEF Confirm, PollTypeOK
    <3> QED BY <1>1, <2>1, <3>1 DEF BufNext
  <2>3. CASE ~(offset[p] > 0)
    BY <1>5, <2>1, <2>3 DEF Confirm, bufVars
  <2> QED BY <2>2, <2>3
<1>6. CASE Translate(p)
  <2>1. takeMu = p /\ UNCHANGED takeMu
    BY <1>6 DEF Translate, LockHeld, Draining
  <2>2. CASE TailUntranslatable(batch[p])
    <3>1. Len(batch[p]) \in 1..Len(batch[p])
      BY <1>6, PollTyped DEF Translate, ResponseHasNoHoles
    <3>2. LastID(batch[p]) \in 1..MaxID
      BY <3>1, PollTyped DEF LastID
    <3>3. Ack(LastID(batch[p]) + 1) /\ LastID(batch[p]) + 1 \in 1..(MaxID + 1)
      BY <1>6, <2>2, <3>2, Shape DEF Translate
    <3> QED BY <1>1, <2>1, <3>3 DEF BufNext
  <2>3. CASE ~TailUntranslatable(batch[p])
    BY <1>6, <2>1, <2>3 DEF Translate, bufVars
  <2> QED BY <2>2, <2>3
<1> QED BY <1>2, <1>3, <1>4, <1>5, <1>6 DEF PollStep

LEMMA PollStepRefines ==
  ASSUME PollCore, [PollNext]_<<bufVars, pollVars>>
  PROVE  [BufNext]_bufVars
<1>1. ASSUME NEW p \in Pollers, PollStep(p) PROVE [BufNext]_bufVars
  BY <1>1, PollStepUsesBuffer
<1>2. CASE (\E ok \in BOOLEAN : Push(ok)) /\ UNCHANGED pollVars
  BY <1>2 DEF BufNext
<1>3. CASE Clear /\ UNCHANGED <<takeMu, pollVars>>
  BY <1>3 DEF BufNext
<1>4. CASE UNCHANGED <<bufVars, pollVars>>
  BY <1>4
<1> QED BY <1>1, <1>2, <1>3, <1>4 DEF PollNext

(***************************************************************************)
(* The calls use the buffer as it promises to be used: every step is a     *)
(* step of BufSpec or leaves the buffer alone.                             *)
(***************************************************************************)
THEOREM PollImplementsBuffer == PollSafety => BufSpec
<1>1. PollInv => PollCore
  BY DEF PollInv
<1> QED BY <1>1, PollInvariant, PollStepRefines, PTL DEF PollSafety, PollStart, BufSpec

(***************************************************************************)
(* So the buffer keeps its promises to the calls: the pending ids stay a   *)
(* run, and an update that left, confirmed or evicted, does not come back. *)
(***************************************************************************)
THEOREM PollKeepsBuffer == PollSafety => []GapFree /\ NeverReturns
BY PollImplementsBuffer, BufferGapFree, BufferNeverReturns, PTL

-----------------------------------------------------------------------------
(* Both consumers.  What follows cites PollCore only as a whole.           *)

HIDE DEF PollCore

-----------------------------------------------------------------------------
(* Both consumers: the inductive invariant.                                *)

(* A round under way holds nothing an offset has confirmed.                *)
ConfirmedNotTaken ==
  \A d \in Deliverers : dpc[d] \in Delivering => work[d][1].id >= confirmed

DeliveryInv ==
  /\ PollCore
  /\ HookCore
  /\ SettledNotPolled
  /\ ConfirmedNotTaken
  /\ NothingSlipsThrough

(* A call that drains and a deliverer that delivers exclude one another.   *)
LEMMA Excluded ==
  ASSUME PollCore, HookCore, NEW p \in Pollers, NEW d \in Deliverers
  PROVE  ~(pollPC[p] \in Draining /\ dpc[d] \in Holding)
<1>1. p # d
  BY DeliveryAssumption
<1>2. pollPC[p] \in Draining => takeMu = p
  BY DEF PollCore, LockHeld
<1>3. dpc[d] \in Holding => takeMu = d
  BY DEF HookCore, OnePostAtATime
<1> QED BY <1>1, <1>2, <1>3

LEMMA DeliveryInitInv == Init => DeliveryInv
<1> SUFFICES ASSUME Init PROVE DeliveryInv
  OBVIOUS
<1>1. PollCore /\ HookCore
  BY PollInitInv, HookInitInv DEF Init, PollInv, HookInv
<1>2. SettledNotPolled /\ ConfirmedNotTaken
  BY DEF Init, PollInit, HookInit, SettledNotPolled, ConfirmedNotTaken, Delivering
<1>3. NothingSlipsThrough
  BY DEF Init, BufInit, NothingSlipsThrough
<1> QED BY <1>1, <1>2, <1>3 DEF DeliveryInv

-----------------------------------------------------------------------------
(* What a step of either side leaves to the other.                         *)

LEMMA PollLeavesLock ==
  ASSUME PollCore, NEW p \in Pollers, PollStep(p)
  PROVE  takeMu' = takeMu \/ {takeMu, takeMu'} = {p, NoDrainer}
BY DEF PollStep, Call, PollLock, TakeLock, Confirm, WaitReady, WaitEmpty, Translate, Return,
       Release, bufVars

LEMMA RunLeavesLock ==
  ASSUME HookCore, NEW d \in Deliverers, Run(d)
  PROVE  takeMu' = takeMu \/ {takeMu, takeMu'} = {d, NoDrainer}
BY DEF Run, Top, DeliverLock, TakeLock, Collect, CollectNothing, NextItem, Skip, Post, Accepted,
       Rejected, GiveUp, MovePast, Settle, Unlock, Release, BackoffEnds, bufVars

LEMMA HandleLeavesLock ==
  ASSUME NEW h \in Handlers, Handle(h)
  PROVE  takeMu' = takeMu
<1>1. ASSUME NEW d \in Deliverers, NEW drop \in BOOLEAN, SetWebhook(h, d, drop)
      PROVE  takeMu' = takeMu
  BY <1>1 DEF SetWebhook, StartAfresh
<1> QED BY <1>1 DEF Handle, StoreWebhook, StoreFails, StartAfresh, DeleteWebhook, DropPending,
                    Take, CloseStop, StartRun, bufVars

LEMMA NotEachOther ==
  ASSUME PollCore, HookCore, NEW p \in Pollers, NEW d \in Deliverers
  PROVE  p # d /\ p # NoDrainer /\ d # NoDrainer
BY DeliveryAssumption, PollTyped, HookTyped

LEMMA PollStepKeepsBoth ==
  ASSUME PollCore, HookCore, NEW p \in Pollers, PollStep(p), UNCHANGED hookVars
  PROVE  PollCore' /\ HookCore' /\ Accounted /\ [BufNext]_bufVars
<1>1. PollCore' /\ Accounted /\ [BufNext]_bufVars
  BY PollStepKeeps, PollStepUsesBuffer
<1>2. \A d \in Deliverers : takeMu' = d <=> takeMu = d
  BY PollLeavesLock, NotEachOther
<1>3. /\ UNCHANGED <<runVars, seenVars, firstID, setupVars>> /\ stopped' = stopped
      /\ HookTypeOK' /\ Reserved'
  BY DEF hookVars, setupVars, runVars, seenVars, HookCore, HookTypeOK, Reserved
<1>4. HookCore'
  BY <1>1, <1>2, <1>3, OthersKeepHook
<1> QED BY <1>1, <1>4

LEMMA HookStepKeepsBoth ==
  ASSUME PollCore, HookCore, UNCHANGED pollVars,
         \/ \E d \in Deliverers : Run(d)
         \/ \E h \in Handlers : Handle(h)
         \/ (\E ok \in BOOLEAN : Push(ok)) /\ UNCHANGED hookVars
         \/ UNCHANGED <<bufVars, hookVars>>
  PROVE  PollCore' /\ HookCore' /\ Accounts /\ [BufNext]_bufVars
<1>1. HookCore' /\ Accounts /\ [BufNext]_bufVars
  BY HookStepKeeps DEF HookNext
<1>2. \A p \in Pollers : takeMu' = p <=> takeMu = p
  <2>1. ASSUME NEW d \in Deliverers, Run(d) PROVE \A p \in Pollers : takeMu' = p <=> takeMu = p
    BY <2>1, RunLeavesLock, NotEachOther
  <2>2. ASSUME NEW h \in Handlers, Handle(h) PROVE \A p \in Pollers : takeMu' = p <=> takeMu = p
    BY <2>2, HandleLeavesLock
  <2> QED BY <2>1, <2>2 DEF Push, bufVars
<1>3. PollCore'
  BY <1>1, <1>2, OthersKeepPoll
<1> QED BY <1>1, <1>3


-----------------------------------------------------------------------------
(* What a call puts in its response nobody has settled.                    *)

LEMMA BatchFromPending ==
  ASSUME PollCore, NEW p \in Pollers, WaitReady(p)
  PROVE  /\ \A n \in BatchIDs(p)' : n \in PendingIDs
         /\ \A q \in Pollers : q # p => batch'[q] = batch[q] /\ pollPC'[q] = pollPC[q]
<1>1. PICK k \in 0..Len(items) :
        Stops(k, offset[p]) /\ batch' = [batch EXCEPT ![p] = Window(k, limit[p])]
  BY DEF WaitReady
<1>2. k < Len(items)
  <2>1. PICK i \in 1..Len(items) : items[i].id >= offset[p]
    BY DEF WaitReady, HasReady
  <2>2. offset[p] \in Nat /\ Len(items) \in Nat /\ MaxID \in Nat /\ items[i].id \in 1..MaxID
    BY PollTyped, Shape
  <2>3. ~(items[i].id < offset[p])
    BY <2>1, <2>2
  <2> QED BY <1>1, <2>2, <2>3 DEF Stops
<1>3. limit[p] \in Nat \ {0} /\ batch \in [Pollers -> Seq(Item)]
  BY PollAssumption DEF PollCore, PollTypeOK, WaitReady
<1> DEFINE b == Window(k, limit[p])
<1>4. /\ Len(b) \in 1..limit[p] /\ k + Len(b) <= Len(items)
      /\ \A i \in 1..Len(b) : b[i] = items[k + i]
  BY <1>2, <1>3, WindowItems, PollTyped
<1>5. /\ batch'[p] = b
      /\ \A q \in Pollers : q # p => batch'[q] = batch[q] /\ pollPC'[q] = pollPC[q]
  BY <1>1, <1>3 DEF WaitReady, Goto, PollCore, PollTypeOK
<1> HIDE DEF b
<1>6. ASSUME NEW i \in 1..Len(b) PROVE b[i].id \in PendingIDs
  <2>1. Len(items) \in Nat /\ Len(b) \in Nat
    BY <1>4, Shape DEF PollCore
  <2>2. k + i \in 1..Len(items)
    BY <1>4, <2>1
  <2> QED BY <1>4, <2>2 DEF PendingIDs
<1> QED BY <1>5, <1>6 DEF BatchIDs

(* Nobody delivers while a call drains: all that is pending is unsettled.  *)
LEMMA PendingUnsettled ==
  ASSUME PollCore, HookCore, NEW p \in Pollers, pollPC[p] \in Draining
  PROVE  \A n \in PendingIDs : outcome[n] = "none"
<1>1. \A d \in Deliverers : dpc[d] \notin Delivering
  BY Excluded DEF Holding
<1> QED BY <1>1 DEF HookCore, SettledIsLeaving

LEMMA OtherPollSteps ==
  ASSUME PollCore, NEW p \in Pollers, PollStep(p), ~WaitReady(p)
  PROVE  SameResponses
<1>1. pollPC \in [Pollers -> {"idle", "locking"} \cup Draining]
  BY DEF PollCore, PollTypeOK
<1>2. /\ offset \in [Pollers -> 0..(MaxID + 1)] /\ limit \in [Pollers -> Limits \cup {0}]
      /\ batch \in [Pollers -> Seq(Item)]
  BY DEF PollCore, PollTypeOK
<1>3. CASE Call(p)
  BY <1>1, <1>2, <1>3 DEF Call, Goto, SameResponses
<1>4. CASE PollLock(p) \/ Confirm(p) \/ WaitEmpty(p) \/ Translate(p)
  BY <1>1, <1>2, <1>4 DEF PollLock, Confirm, WaitEmpty, Translate, Goto, SameResponses
<1>5. CASE Return(p)
  BY <1>1, <1>2, <1>5 DEF Return, Goto, SameResponses
<1> QED BY <1>3, <1>4, <1>5 DEF PollStep

LEMMA PollStepKeepsUnsettled ==
  ASSUME DeliveryInv, NEW p \in Pollers, PollStep(p), UNCHANGED outcome
  PROVE  SettledNotPolled'
<1> SUFFICES ASSUME NEW q \in Pollers, pollPC'[q] = "translating", NEW n \in BatchIDs(q)'
             PROVE  outcome[n] = "none"
  BY DEF SettledNotPolled
<1>1. PollCore /\ HookCore /\ SettledNotPolled
  BY DEF DeliveryInv
<1>2. CASE WaitReady(p)
  <2>1. pollPC[p] \in Draining
    BY <1>2 DEF WaitReady, Draining
  <2>2. CASE q = p
    BY <1>1, <1>2, <2>1, <2>2, BatchFromPending, PendingUnsettled
  <2>3. CASE q # p
    <3>1. pollPC[q] = "translating" /\ BatchIDs(q)' = BatchIDs(q)
      BY <1>1, <1>2, <2>3, BatchFromPending DEF BatchIDs
    <3> QED BY <1>1, <3>1 DEF SettledNotPolled
  <2> QED BY <2>2, <2>3
<1>3. CASE ~WaitReady(p)
  <2>1. pollPC[q] = "translating" /\ BatchIDs(q)' = BatchIDs(q)
    BY <1>1, <1>3, OtherPollSteps DEF SameResponses, BatchIDs
  <2> QED BY <1>1, <2>1 DEF SettledNotPolled
<1> QED BY <1>2, <1>3

(* Only the holder of the drain lock settles an update.                    *)
LEMMA HolderSettles ==
  ASSUME NEW d \in Deliverers, Run(d)
  PROVE  outcome' = outcome \/ dpc[d] \in Holding
<1>1. CASE Skip(d) \/ Accepted(d) \/ GiveUp(d)
  BY <1>1 DEF Skip, Accepted, GiveUp, At, Holding, Delivering
<1>2. CASE ~(Skip(d) \/ Accepted(d) \/ GiveUp(d))
  BY <1>2 DEF Run, Top, DeliverLock, Collect, CollectNothing, NextItem, Post, Rejected, Settle,
              Unlock, BackoffEnds, seenVars
<1> QED BY <1>1, <1>2

LEMMA HandleSettlesNothing ==
  ASSUME NEW h \in Handlers, Handle(h)
  PROVE  outcome' = outcome
<1>1. ASSUME NEW d \in Deliverers, NEW drop \in BOOLEAN, SetWebhook(h, d, drop)
      PROVE  outcome' = outcome
  BY <1>1 DEF SetWebhook, StartAfresh, seenVars
<1> QED BY <1>1 DEF Handle, StoreWebhook, StoreFails, StartAfresh, DeleteWebhook, DropPending,
                    Take, CloseStop, StartRun, seenVars

LEMMA RunKeepsUnsettled ==
  ASSUME DeliveryInv, NEW d \in Deliverers, Run(d), UNCHANGED pollVars
  PROVE  SettledNotPolled'
<1> SUFFICES ASSUME NEW q \in Pollers, pollPC[q] = "translating", NEW n \in BatchIDs(q)
             PROVE  outcome'[n] = "none"
  BY DEF SettledNotPolled, BatchIDs, pollVars
<1>1. outcome[n] = "none"
  BY DEF DeliveryInv, SettledNotPolled
<1>2. dpc[d] \notin Holding
  BY Excluded DEF DeliveryInv, Draining
<1> QED BY <1>1, <1>2, HolderSettles

-----------------------------------------------------------------------------
(* What a deliverer takes no offset has confirmed.                         *)

LEMMA PollStepKeepsTaken ==
  ASSUME DeliveryInv, NEW p \in Pollers, PollStep(p), UNCHANGED hookVars
  PROVE  ConfirmedNotTaken'
<1>1. UNCHANGED <<dpc, work>>
  BY DEF hookVars, runVars
<1>2. CASE Confirm(p)
  <2>1. pollPC[p] \in Draining
    BY <1>2 DEF Confirm, Draining
  <2>2. \A d \in Deliverers : dpc[d] \notin Delivering
    BY <2>1, Excluded DEF DeliveryInv, Holding
  <2> QED BY <1>1, <2>2 DEF ConfirmedNotTaken
<1>3. CASE ~Confirm(p)
  <2>1. confirmed' = confirmed
    BY <1>3 DEF PollStep, Call, PollLock, WaitReady, WaitEmpty, Translate, Return
  <2> QED BY <1>1, <2>1 DEF DeliveryInv, ConfirmedNotTaken
<1> QED BY <1>2, <1>3

LEMMA OldRounds ==
  ASSUME HookCore, NEW d \in Deliverers, Run(d), ~Collect(d), NEW e \in Deliverers,
         dpc'[e] \in Delivering
  PROVE  dpc[e] \in Delivering /\ work'[e] = work[e]
<1>1. dpc \in [Deliverers -> Labels] /\ work \in [Deliverers -> Seq(Item)]
  BY DEF HookCore, HookTypeOK, Labels
<1>2. CASE Top(d) \/ DeliverLock(d) \/ CollectNothing(d) \/ BackoffEnds(d)
  BY <1>1, <1>2 DEF Top, DeliverLock, CollectNothing, BackoffEnds, Go, Delivering
<1>3. CASE NextItem(d) \/ Skip(d) \/ Post(d) \/ Accepted(d) \/ Rejected(d) \/ GiveUp(d)
  BY <1>1, <1>3 DEF NextItem, Skip, Post, Accepted, Rejected, GiveUp, MovePast, Go, At, Delivering
<1>4. CASE Settle(d)
  BY <1>1, <1>4 DEF Settle, Go, Delivering
<1>5. CASE Unlock(d)
  <2>1. after[d] \notin Delivering
    BY AfterTyped DEF Ends, Delivering
  <2> QED BY <1>1, <1>5, <2>1 DEF Unlock, Go
<1> QED BY <1>2, <1>3, <1>4, <1>5 DEF Run

LEMMA RunKeepsTaken ==
  ASSUME DeliveryInv, NEW d \in Deliverers, Run(d), UNCHANGED pollVars
  PROVE  ConfirmedNotTaken'
<1> SUFFICES ASSUME NEW e \in Deliverers, dpc'[e] \in Delivering
             PROVE  work'[e][1].id >= confirmed
  BY DEF ConfirmedNotTaken, pollVars
<1>1. PollCore /\ HookCore /\ ConfirmedNotTaken
  BY DEF DeliveryInv
<1>2. CASE ~Collect(d)
  BY <1>1, <1>2, OldRounds DEF ConfirmedNotTaken
<1>3. CASE Collect(d)
  <2>1. /\ dpc \in [Deliverers -> Labels] /\ work \in [Deliverers -> Seq(Item)]
        /\ dpc' = [dpc EXCEPT ![d] = "item"] /\ HasReady(0)
        /\ work' = [work EXCEPT ![d] = Window(0, RoundLimit)]
    BY <1>1, <1>3 DEF HookCore, HookTypeOK, Labels, Collect, Go
  <2>2. CASE e # d
    BY <1>1, <2>1, <2>2 DEF ConfirmedNotTaken
  <2>3. CASE e = d
    <3>1. 0 \in 0..Len(items) /\ 0 < Len(items) /\ RoundLimit \in Nat \ {0} /\ BufInv
      BY <1>1, <2>1, Shape, WebhookAssumption DEF HookCore, HasReady
    <3>2. /\ Len(Window(0, RoundLimit)) \in 1..RoundLimit
          /\ \A i \in 1..Len(Window(0, RoundLimit)) : Window(0, RoundLimit)[i] = items[0 + i]
      BY <3>1, WindowItems
    <3>3. 1 \in 1..Len(Window(0, RoundLimit)) /\ 1 \in 1..Len(items)
      BY <3>1, <3>2, Shape
    <3>4. Window(0, RoundLimit)[1] = items[1]
      BY <3>2, <3>3
    <3>5. items[1].id >= confirmed
      BY <1>1, <3>3 DEF PollCore, ConfirmedGone
    <3> QED BY <2>1, <2>3, <3>4, <3>5
  <2> QED BY <2>2, <2>3
<1> QED BY <1>2, <1>3

LEMMA HandleKeepsTaken ==
  ASSUME DeliveryInv, NEW h \in Handlers, Handle(h), UNCHANGED pollVars
  PROVE  ConfirmedNotTaken'
<1>1. HookCore /\ ConfirmedNotTaken
  BY DEF DeliveryInv
<1>2. dpc \in [Deliverers -> Labels]
  BY <1>1 DEF HookCore, HookTypeOK, Labels
<1>3. /\ work' = work
      /\ \A e \in Deliverers : dpc'[e] \in Delivering => dpc[e] \in Delivering
  <2>1. ASSUME NEW d \in Deliverers, NEW drop \in BOOLEAN, SetWebhook(h, d, drop)
        PROVE  /\ work' = work
               /\ \A e \in Deliverers : dpc'[e] \in Delivering => dpc[e] \in Delivering
    BY <1>2, <2>1 DEF SetWebhook, StartAfresh, Go, Delivering
  <2>2. CASE StoreFails(h) \/ StartRun(h)
    BY <1>2, <2>2 DEF StoreFails, StartRun, StartAfresh, Go, Delivering
  <2>3. CASE StoreWebhook(h) \/ DeleteWebhook(h) \/ DropPending(h) \/ Take(h) \/ CloseStop(h)
    BY <2>3 DEF StoreWebhook, DeleteWebhook, DropPending, Take, CloseStop, runVars
  <2> QED BY <2>1, <2>2, <2>3 DEF Handle
<1> QED BY <1>1, <1>3 DEF ConfirmedNotTaken, pollVars


-----------------------------------------------------------------------------
(* Between them they account for every update.                             *)

LEMMA AccountedNothingSlips ==
  ASSUME DeliveryInv, Accounted, UNCHANGED outcome
  PROVE  NothingSlipsThrough'
<1> SUFFICES ASSUME NEW n \in 1..(nextID' - 1), n \notin PendingIDs'
             PROVE  n \in lost' \cup examined' \/ n < asked' \/ outcome[n] # "none"
  BY DEF NothingSlipsThrough
<1>1. n \in 1..(nextID - 1) /\ n \in Nat
  BY DEF Accounted
<1>2. n \in PendingIDs \cup lost \cup examined \/ n < asked \/ outcome[n] # "none"
  BY <1>1 DEF DeliveryInv, NothingSlipsThrough
<1> QED BY <1>1, <1>2 DEF Accounted

LEMMA AccountsNothingSlips ==
  ASSUME DeliveryInv, Accounts, UNCHANGED pollVars
  PROVE  NothingSlipsThrough'
<1> SUFFICES ASSUME NEW n \in 1..(nextID' - 1), n \notin PendingIDs'
             PROVE  n \in lost' \cup examined \/ n < asked \/ outcome'[n] # "none"
  BY DEF NothingSlipsThrough, pollVars
<1>1. n \in 1..(nextID - 1)
  BY DEF Accounts
<1>2. n \in PendingIDs \cup lost \cup examined \/ n < asked \/ outcome[n] # "none"
  BY <1>1 DEF DeliveryInv, NothingSlipsThrough
<1>3. n \in IDs
  BY <1>1, Shape DEF DeliveryInv, HookCore, IDs
<1> QED BY <1>2, <1>3 DEF Accounts

LEMMA DeliveryStepKeeps ==
  ASSUME DeliveryInv, [Next]_vars
  PROVE  DeliveryInv' /\ [BufNext]_bufVars
<1>1. PollCore /\ HookCore
  BY DEF DeliveryInv
<1>2. ASSUME NEW p \in Pollers, PollStep(p), UNCHANGED hookVars
      PROVE  DeliveryInv' /\ [BufNext]_bufVars
  <2>1. UNCHANGED outcome
    BY <1>2 DEF hookVars, seenVars
  <2>2. PollCore' /\ HookCore' /\ Accounted /\ [BufNext]_bufVars
    BY <1>1, <1>2, PollStepKeepsBoth
  <2>3. SettledNotPolled' /\ ConfirmedNotTaken' /\ NothingSlipsThrough'
    BY <1>2, <2>1, <2>2, PollStepKeepsUnsettled, PollStepKeepsTaken, AccountedNothingSlips
  <2> QED BY <2>2, <2>3 DEF DeliveryInv
<1>3. ASSUME NEW d \in Deliverers, Run(d), UNCHANGED pollVars
      PROVE  DeliveryInv' /\ [BufNext]_bufVars
  <2>1. PollCore' /\ HookCore' /\ Accounts /\ [BufNext]_bufVars
    BY <1>1, <1>3, HookStepKeepsBoth
  <2>2. SettledNotPolled' /\ ConfirmedNotTaken' /\ NothingSlipsThrough'
    BY <1>3, <2>1, RunKeepsUnsettled, RunKeepsTaken, AccountsNothingSlips
  <2> QED BY <2>1, <2>2 DEF DeliveryInv
<1>4. ASSUME UNCHANGED <<pollVars, outcome>> PROVE SettledNotPolled'
  BY <1>4 DEF DeliveryInv, SettledNotPolled, BatchIDs, pollVars
<1>5. ASSUME NEW h \in Handlers, Handle(h), UNCHANGED pollVars
      PROVE  DeliveryInv' /\ [BufNext]_bufVars
  <2>1. PollCore' /\ HookCore' /\ Accounts /\ [BufNext]_bufVars
    BY <1>1, <1>5, HookStepKeepsBoth
  <2>2. SettledNotPolled'
    BY <1>4, <1>5, HandleSettlesNothing
  <2>3. ConfirmedNotTaken' /\ NothingSlipsThrough'
    BY <1>5, <2>1, HandleKeepsTaken, AccountsNothingSlips
  <2> QED BY <2>1, <2>2, <2>3 DEF DeliveryInv
<1>6. ASSUME UNCHANGED <<pollVars, hookVars>>, (\E ok \in BOOLEAN : Push(ok)) \/ UNCHANGED bufVars
      PROVE  DeliveryInv' /\ [BufNext]_bufVars
  <2>1. PollCore' /\ HookCore' /\ Accounts /\ [BufNext]_bufVars
    BY <1>1, <1>6, HookStepKeepsBoth
  <2>2. outcome' = outcome /\ dpc' = dpc /\ work' = work /\ confirmed' = confirmed
    BY <1>6 DEF hookVars, runVars, seenVars, pollVars
  <2>3. SettledNotPolled'
    BY <1>4, <1>6, <2>2
  <2>4. ConfirmedNotTaken' /\ NothingSlipsThrough'
    BY <1>6, <2>1, <2>2, AccountsNothingSlips DEF DeliveryInv, ConfirmedNotTaken
  <2> QED BY <2>1, <2>3, <2>4 DEF DeliveryInv
<1>7. CASE UNCHANGED vars
  BY <1>6, <1>7 DEF vars
<1> QED BY <1>2, <1>3, <1>5, <1>6, <1>7 DEF Next

LEMMA DeliveryInvariant == Spec => []DeliveryInv
BY DeliveryInitInv, DeliveryStepKeeps, PTL DEF Spec

(***************************************************************************)
(* No call puts an update in its response that a deliverer has settled.    *)
(***************************************************************************)
THEOREM DeliverySettledNotPolled == Spec => []SettledNotPolled
<1>1. DeliveryInv => SettledNotPolled
  BY DEF DeliveryInv
<1> QED BY <1>1, DeliveryInvariant, PTL

(***************************************************************************)
(* No deliverer POSTs an update that the offset of a call has confirmed.   *)
(***************************************************************************)
THEOREM DeliveryConfirmedNotPosted == Spec => []ConfirmedNotPosted
<1>1. DeliveryInv => ConfirmedNotPosted
  <2> SUFFICES ASSUME DeliveryInv, NEW d \in Deliverers, dpc[d] = "posting"
               PROVE  Current(d).id >= confirmed
    BY DEF ConfirmedNotPosted, At
  <2>1. HookCore /\ PollCore
    BY DEF DeliveryInv
  <2>2. /\ Current(d).id = work[d][1].id + pos[d] - 1 /\ Current(d).id \in Nat
        /\ pos[d] \in Nat /\ pos[d] >= 1 /\ work[d][1].id \in IDs /\ MaxID \in Nat
    BY <2>1, InHand, HookTyped
  <2>3. work[d][1].id >= confirmed
    BY DEF DeliveryInv, ConfirmedNotTaken, Delivering
  <2>4. confirmed \in Nat /\ work[d][1].id \in Nat
    BY <2>1, <2>2, PollTyped DEF IDs
  <2>5. Current(d).id >= work[d][1].id
    BY <2>2, <2>4
  <2> QED BY <2>2, <2>3, <2>4, <2>5
<1> QED BY <1>1, DeliveryInvariant, PTL

(***************************************************************************)
(* An update that left the buffer was settled, translated for a call,      *)
(* passed by an offset, evicted or dropped.                                *)
(***************************************************************************)
THEOREM DeliveryNothingSlips == Spec => []NothingSlipsThrough
<1>1. DeliveryInv => NothingSlipsThrough
  BY DEF DeliveryInv
<1> QED BY <1>1, DeliveryInvariant, PTL

(***************************************************************************)
(* What the calls and the deliverers guarantee alone they guarantee side   *)
(* by side: nothing confirmed comes back, no response has holes, one POST  *)
(* at a time, none after the outcome, eight at the most, one after a stop, *)
(* and none of what was dropped.                                           *)
(***************************************************************************)
THEOREM DeliveryKeepsBoth ==
  Spec => [](/\ LockHeld /\ ConfirmedStaysConfirmed /\ ResponseHasNoHoles
             /\ OnePostAtATime /\ SettledOnce /\ EightAttempts /\ StopsPromptly
             /\ DroppedNotPosted)
<1>1. DeliveryInv => /\ LockHeld /\ ConfirmedStaysConfirmed /\ ResponseHasNoHoles
                     /\ OnePostAtATime /\ SettledOnce /\ EightAttempts /\ StopsPromptly
                     /\ DroppedNotPosted
  BY HookCoreSays DEF DeliveryInv, PollCore
<1> QED BY <1>1, DeliveryInvariant, PTL

(***************************************************************************)
(* Side by side, too, they use the buffer as it promises to be used.       *)
(***************************************************************************)
THEOREM DeliveryImplementsBuffer == Spec => ImplementsBuffer
<1>1. Init => BufInit
  BY DEF Init
<1> QED BY <1>1, DeliveryInvariant, DeliveryStepKeeps, PTL DEF Spec, BufSpec, ImplementsBuffer

(***************************************************************************)
(* So the buffer keeps its promises to both of them.                       *)
(***************************************************************************)
THEOREM DeliveryKeepsBuffer == Spec => []GapFree /\ NeverReturns
BY DeliveryImplementsBuffer, BufferGapFree, BufferNeverReturns, PTL DEF ImplementsBuffer
=============================================================================
